--------------------------------- MODULE TestedScope ---------------------------------
(***************************************************************************)
(* Which operations a review tests, from the request to the feedback: a    *)
(* scope is planned from a request (RequestScope), or confirmed by the     *)
(* user, in words, by a structured selection or by accepting a             *)
(* recommendation (ScopeConversation, ScopeSelection), and then changed by *)
(* feedback on the draft (ScopeRefinement).  The workflow calls these      *)
(* functions in this order; here each is given every input.                *)
(***************************************************************************)
EXTENDS RequestScope, ScopeConversation, ScopeRefinement

CONSTANTS
    Replies,         \* replies to the scope question that are read by their words
    RepliesToModel   \* replies that a language model reads first

\* A target has a finite catalog.  The whole text of a reply that says all is "all",
\* "test het" or "toan bo", which hold no word for leaving out.
ASSUME FiniteAssumption == IsFiniteSet(Operations)
ASSUME RepliesAssumption ==
    \A reply \in Replies \cup RepliesToModel : reply.everything => ~reply.excludes

VARIABLES
    catalog,   \* operations of the selected target
    step,      \* the last step taken
    input,     \* what that step was given, the plan of a request included
    before,    \* the scope before that step
    scope      \* the operations to test

vars == <<catalog, step, input, before, scope>>

NoInput == [ whole |-> TRUE ]

Init == /\ catalog \in (SUBSET Operations) \ {{}}
        /\ step = "start" /\ input = NoInput
        /\ before = {} /\ scope = {}

\* What is read off the text of a canonical command, and of any other request; limits
\* below one and above MaxLimit are clamped alike.
Limits   == 0..MaxLimit + 1
Commands == [ named : SUBSET Methods, tags : SUBSET Tags, paths : SUBSET Paths,
              limit : Limits ]
Requests == [ whole : BOOLEAN, matched : SUBSET Operations, named : SUBSET Methods,
              limit : Limits ]

\* The review starts on the planned operations, or raises when there are none.  asked is
\* what the text is about, before a method it names and a limit.
Planned(command, asked, named, plan) ==
    /\ step = "start"
    /\ input' = [ command |-> command, asked |-> asked, named |-> named, plan |-> plan ]
    /\ scope' = PlannedOperations(plan, catalog)
    /\ step' = "planned"
    /\ UNCHANGED <<catalog, before>>

\* A canonical command is about the operations with a tag and a path it names.
CommandAsks(c) ==
    { o \in catalog : (c.tags = {} \/ TagsOf[o] \cap c.tags # {})
                     /\ (c.paths = {} \/ PathOf[o] \in c.paths) }

PlanCommand ==
    \E c \in Commands :
        Planned(TRUE, CommandAsks(c), c.named,
                CommandPlan(c.named, c.tags, c.paths, c.limit))

\* understand looks the agent's ids up in the catalog, none left is an error.
PlanRequest ==
    \E r \in Requests :
        LET matched == r.matched \cap catalog
        IN  IF matched = {}
            THEN r.whole /\ Planned(FALSE, catalog, r.named, WholePlan(r.named, r.limit))
            ELSE ~r.whole /\ Planned(FALSE, matched, r.named,
                                     SpecificPlan(matched, r.named, r.limit))

ConfirmScope ==
    /\ step = "start"
    /\ \E decision \in DecisionType :
           /\ input' = decision
           /\ scope' = ScopedOperations(decision, catalog)
    /\ step' = "confirmed"
    /\ UNCHANGED <<catalog, before>>

\* A recommendation without a model, and one by any answer of the model.
Recommend ==
    /\ step = "start"
    /\ \E mode \in RecommendationModes, advice \in {{}} \cup { {a} : a \in AdviceType } :
           input' \in RecommendScope(mode, advice, catalog)
    /\ step' = "recommended"
    /\ UNCHANGED <<catalog, before, scope>>

\* A reply is resumed with what the agent understood; one it does not understand is
\* asked again and changes nothing here.
Understood(reply, failed, answer, applied) ==
    LET latest == IF step = "recommended" THEN {input} ELSE {}
    IN  /\ \E decision \in InterpretScopeSelection(reply, latest, failed, answer, catalog) :
               /\ input' = [ reply |-> reply, latest |-> latest, answer |-> answer,
                             applied |-> applied, decision |-> decision ]
               /\ scope' = ScopedOperations(decision, catalog)
        /\ step' = "understood"
        /\ UNCHANGED <<catalog, before>>

\* Without a language model, with and without a recommendation.
ReplyInWords ==
    /\ step \in {"start", "recommended"}
    /\ \E reply \in Replies : Understood(reply, TRUE, {}, {})

\* The user tells to apply the recommendation: the reply is written for them.
ApplyLatest ==
    /\ step = "recommended"
    /\ \E groups \in AppliedGroups(input) :
           /\ CanApply(input, groups, catalog)
           /\ \E reply \in ComposedReplies(Replies, input, groups) :
                  Understood(reply, TRUE, {}, groups)

\* With a model, which may select anything; the words matter when nothing is left.
ReplyToModel ==
    /\ step = "start"
    /\ \E reply \in RepliesToModel, d \in DecisionType :
           Understood(reply, FALSE, {d}, {})

\* The review starts on the scope and keeps nothing of where it came from.
StartReview ==
    /\ step \in {"planned", "confirmed", "understood"} /\ scope # {}
    /\ step' = "drafted" /\ input' = NoInput
    /\ UNCHANGED <<catalog, before, scope>>

GiveFeedback ==
    /\ step = "drafted"
    /\ \E decision \in RefinementType :
           /\ input' = decision
           /\ scope' = Refine(scope, catalog, decision)
    /\ step' = "refined"
    /\ before' = scope
    /\ UNCHANGED catalog

Next == \/ PlanCommand \/ PlanRequest \/ ConfirmScope \/ Recommend \/ ReplyInWords \/ ReplyToModel
        \/ ApplyLatest
        \/ StartReview \/ GiveFeedback

Spec == Init /\ [][Next]_vars
-----------------------------------------------------------------------------
(* A planned scope *)

\* The operations asked for that have a method the text names, if it names any.
Wanted == { o \in input.asked : input.named # {} => MethodOf[o] \in input.named }

\* What a text asks for, by a command's tags and paths, by the operations the agent
\* matched or by naming nothing at all, is planned, and it is lost only to a method the
\* text does not name or to a limit, which cuts at the operations kept by the filter and
\* only when the plan is full.  A command is planned on nothing else; a request in other
\* words may be, but never on a method it leaves out.
MatchedArePlanned ==
    step = "planned" =>
        /\ Wanted \subseteq scope \/ Cardinality(scope) = input.plan.limit
        /\ input.command => scope \subseteq Wanted
        /\ input.named # {} => { MethodOf[o] : o \in scope } \subseteq input.named
-----------------------------------------------------------------------------
(* A confirmed scope *)

\* No operation the user excluded by name is tested, and no operation of a group
\* the user excluded, as long as the reply excludes only groups.
ExclusionsHold ==
    step = "confirmed" =>
        /\ scope \cap input.excludedOperations = {}
        /\ input.excludedOperations \cap catalog = {}
               => GroupsOf(scope) \cap input.excludedGroups = {}

\* A reply that picks something never makes anything else tested.
OnlyPickedIsTested ==
    step = "confirmed" /\ PickedOperations(input, catalog) # {}
        => scope \subseteq PickedOperations(input, catalog)

\* The agent and the orchestrator both complete a decision: what is tested is what the
\* agent has understood, and a scope is never confirmed with nothing to test.
UnderstoodIsTested ==
    step = "understood" =>
        scope # {} /\ scope = input.decision.selectedOperations

\* What a recommendation makes of the catalog when some of its groups are applied.
FollowedBy(r, groups) ==
    IF r.mode = "deprioritize" THEN catalog \ ExpandGroups(groups, catalog)
    ELSE ExpandGroups(groups, catalog)

\* What is written for the user says no more to its reader than the groups to apply: no
\* word of a name turns it into an acceptance of more groups, or into an exclusion, no
\* other group or operation is found in it, and no number.
SaysNoMore(reply, r, groups) ==
    IF reply.accepts THEN groups = r.groups
    ELSE /\ NamedOut(reply, catalog) = ExpandGroups(groups, catalog)
         /\ r.mode = "prioritize" => ~reply.excludes /\ reply.numbers = <<>>

\* A recommendation that a reply accepts is followed, whatever else the reply says.  One
\* that is applied for the user is followed when the names of its groups say no more than
\* the groups; README.md, section 5, tells what becomes of one whose names do.
RecommendationIsFollowed ==
    step = "understood" =>
        \A r \in input.latest :
            /\ input.reply.accepts => scope = FollowedBy(r, r.groups)
            /\ input.applied # {} /\ SaysNoMore(input.reply, r, input.applied)
                  => scope = FollowedBy(r, input.applied)

\* By words, an exclusion leaves out every operation whose name it holds or that is of a
\* group whose name it holds, and nothing else, unless that is everything: one that holds
\* no name, as a group's number is none, leaves out nothing.  By the model, what its
\* answer excludes is out whenever the answer is what was taken.
NamedOutIsOut ==
    step = "understood" =>
        LET reply == input.reply
            out   == NamedOut(reply, catalog)
        IN  /\ reply.excludes /\ input.answer = {} /\ catalog \ out # {}
                   /\ ~(reply.accepts /\ input.latest # {})
               => scope = catalog \ out
            /\ \A d \in input.answer :
                   AiSelection(d, catalog) # {} => scope \cap d.excludedOperations = {}

\* A review is given what the names in a reply or in a decision come to: exclusions are
\* out, a pick is not widened, what the agent understood is what is tested, and a
\* recommendation that is accepted is followed.  It is not promised what the user meant
\* where the text holds no name for it.
DecisionIsHonoured ==
    /\ ExclusionsHold /\ OnlyPickedIsTested
    /\ UnderstoodIsTested /\ RecommendationIsFollowed /\ NamedOutIsOut

\* What the explanation shown with the scope tells the user of every excluded group.
ExcludedGroupsAreOut ==
    step = "confirmed" => GroupsOf(scope) \cap input.excludedGroups = {}
-----------------------------------------------------------------------------
(* A scope after feedback *)

\* No feedback, however it is understood, leaves a draft with nothing to test or
\* with an operation that the target does not have.
ScopeStaysTestable == step = "refined" => scope # {} /\ scope \subseteq catalog

\* An operation comes in only if the feedback named it or asked for everything, and
\* goes out only if the feedback named it or named what replaces the scope.
OnlyWhatWasNamedChanges ==
    step = "refined" =>
        /\ scope \ before \subseteq
               IF input.mode = "reset_all" THEN catalog
               ELSE input.matched \cup input.final \cup input.add
        /\ before \ scope # {} /\ scope \cap input.final = {}
               /\ input.mode # "replace_with_specific"
               => before \ scope \subseteq input.matched \cup input.remove

\* In one patch an addition wins over a removal of the same operation: what the user
\* asks to add is tested whenever the patch applies.
AddedIsTested ==
    step = "refined" /\ input.mode \in PatchModes /\ input.final \cap catalog = {}
        /\ scope # before
        => input.add \cap catalog \subseteq scope

\* However feedback is understood, it changes what it names, what it adds is tested,
\* and something is left to test.
FeedbackIsHonoured == ScopeStaysTestable /\ OnlyWhatWasNamedChanges /\ AddedIsTested
=============================================================================
