---------------------------- MODULE ScopeConversation ----------------------------
(***************************************************************************)
(* What a reply to the scope question is taken for: ScopeConversationAgent *)
(* (core/scope_conversation_agent.py).  A reply that accepts the latest    *)
(* recommendation applies it, any other is read by a language model, and   *)
(* by its words when there is none, when it fails, or when its answer      *)
(* leaves nothing.  The agent completes every decision itself, as          *)
(* TestOrchestrator does once more with what it gets (ScopeSelection).     *)
(*                                                                         *)
(* Recommendations are made by ScopeRecommendationAgent                    *)
(* (core/scope_recommendation_agent.py); FullWorkflowOrchestrator applies  *)
(* one by writing a reply of its own, which the agent reads like any other.*)
(*                                                                         *)
(* A decision is a set of at most one: none means the user is asked again. *)
(***************************************************************************)
EXTENDS ScopeSelection, Sequences

CONSTANTS
    Place,             \* where the catalog shown to the user lists an operation
    MostRecommended    \* how many groups are recommended without a model, three in the code

\* The catalog is sorted by group title, path and method; titles of groups differ.
ASSUME PlaceAssumption ==
    /\ Place \in [Operations -> Nat]
    /\ \A o, p \in Operations : Place[o] = Place[p] => o = p
    /\ \A o, p, q \in Operations :
           GroupOf[o] = GroupOf[q] /\ Place[o] < Place[p] /\ Place[p] < Place[q]
               => GroupOf[p] = GroupOf[o]

\* A text is known by the tests it passes; a name is found anywhere in it.
Reply(everything, accepts, excludes, groupWord, numbers, groups, operations) ==
    [ everything |-> everything,      \* the whole text says all
      accepts    |-> accepts,         \* a word for agreeing
      excludes   |-> excludes,        \* a word for leaving out
      groupWord  |-> groupWord,       \* a word for group
      numbers    |-> numbers,         \* the numbers in it, in order
      groups     |-> groups, operations |-> operations ]

Selects(mode, groups, operations, excludedGroups, excludedOperations) ==
    IF operations = {} THEN {}
    ELSE { [ mode |-> mode, selectedGroups |-> groups, selectedOperations |-> operations,
             excludedGroups |-> excludedGroups, excludedOperations |-> excludedOperations ] }

-----------------------------------------------------------------------------
(* By words *)

\* Two numbers that do not descend are a range.
ExpandNumericSelection(numbers) ==
    IF Len(numbers) = 2 /\ numbers[1] <= numbers[2] THEN numbers[1]..numbers[2]
    ELSE { numbers[i] : i \in DOMAIN numbers }

ShownUpTo(o, catalog) == { p \in catalog : Place[p] <= Place[o] }

OperationsAt(places, catalog) ==
    { o \in catalog : Cardinality(ShownUpTo(o, catalog)) \in places }
GroupsAt(places, catalog) ==
    GroupsOf({ o \in catalog : Cardinality(GroupsOf(ShownUpTo(o, catalog))) \in places })

NamedOut(reply, catalog) ==
    reply.operations \cup ExpandGroups(reply.groups, catalog)

\* All but what is named, which is all when nothing is.
FallbackExclusion(reply, catalog) ==
    Selects("custom", GroupsOf(catalog) \ reply.groups, catalog \ NamedOut(reply, catalog),
            reply.groups \cap GroupsOf(catalog), reply.operations \cap catalog)

\* A selection of groups, and of operations, each if there are any.
OfGroups(groups, catalog) ==
    Selects("groups", groups, ExpandGroups(groups, catalog), {}, {})
OfOperations(operations) == Selects("operations", {}, operations, {}, {})

FirstOfThese(a, b) == IF a # {} THEN a ELSE b

FallbackSelection(reply, catalog) ==
    LET places  == ExpandNumericSelection(reply.numbers)
        byPlace == FirstOfThese(IF reply.groupWord THEN OfGroups(GroupsAt(places, catalog), catalog)
                                ELSE {},
                                OfOperations(OperationsAt(places, catalog)))
        byName  == FirstOfThese(OfGroups(reply.groups \cap GroupsOf(catalog), catalog),
                                OfOperations(reply.operations \cap catalog))
    IN  IF reply.everything
        THEN Selects("all", GroupsOf(catalog), catalog, {}, {})
        ELSE FirstOfThese(IF reply.excludes THEN FallbackExclusion(reply, catalog) ELSE {},
                          FirstOfThese(byPlace, byName))

-----------------------------------------------------------------------------
(* Recommendations *)

RecommendationModes == {"prioritize", "deprioritize"}

Recommendation(mode, groups, catalog) ==
    [ mode |-> mode, groups |-> groups, operations |-> ExpandGroups(groups, catalog) ]

\* _heuristic_recommend: the groups of the best scores, or of the worst, whichever
\* they are.
HeuristicRecommendations(mode, catalog) ==
    { Recommendation(mode, groups, catalog) :
      groups \in { g \in SUBSET GroupsOf(catalog) :
                     \/ Cardinality(g) = MostRecommended
                     \/ Cardinality(g) < MostRecommended /\ g = GroupsOf(catalog) } }

\* What a model answers: groups of both kinds, of which only those of its mode are used.
AdviceType == [ mode : RecommendationModes,
                recommended : SUBSET Ids, deprioritized : SUBSET Ids ]

\* recommend, and _build_scope_recommendation_result: an answer with no valid group of
\* either kind is not used.  advice is a set of at most one, none if there is no model
\* or it has raised.
RecommendScope(mode, advice, catalog) ==
    LET valid == { a \in advice :
                     (a.recommended \cup a.deprioritized) \cap GroupsOf(catalog) # {} }
        used(a) == IF a.mode = "deprioritize" THEN a.deprioritized ELSE a.recommended
    IN  IF valid = {} THEN HeuristicRecommendations(mode, catalog)
        ELSE { Recommendation(a.mode, used(a) \cap GroupsOf(catalog), catalog) : a \in valid }

\* What a recommendation is about.
Recommended(r, catalog) ==
    LET named == r.operations \cap catalog
    IN  IF named = {} THEN ExpandGroups(r.groups, catalog) ELSE named

\* _apply_recommendation_to_selection
ApplyRecommendation(r, catalog) ==
    LET groups == r.groups \cap GroupsOf(catalog)
    IN  IF r.mode = "deprioritize"
        THEN Selects("custom", GroupsOf(catalog) \ groups,
                     catalog \ Recommended(r, catalog), groups, Recommended(r, catalog))
        ELSE Selects("groups", groups, Recommended(r, catalog), {}, {})

-----------------------------------------------------------------------------
(* By the language model *)

\* _ai_or_fallback_selection of an answer that selects.  Unlike the orchestrator, the
\* agent lets the groups named win over the operations named beside them.
AiSelection(d, catalog) ==
    LET groups == IF d.mode = "all" THEN GroupsOf(catalog)
                  ELSE d.selectedGroups \cap GroupsOf(catalog)
        picked == IF d.mode = "groups" /\ groups # {} THEN ExpandGroups(groups, catalog)
                  ELSE PickedOperations(d, catalog)
        excludedGroups == d.excludedGroups \cap GroupsOf(catalog)
    IN  Selects(d.mode, groups \ excludedGroups, picked \ ExcludedOperations(d, catalog),
                excludedGroups, ExcludedOperations(d, catalog))

\* interpret_scope_selection.  recommendation is a set of at most one; the model's
\* answer is a decision, a set of one, or empty when it wants to clarify, and failed
\* tells that it is absent or has raised.
InterpretScopeSelection(reply, recommendation, failed, answer, catalog) ==
    IF reply.accepts /\ recommendation # {}
    THEN UNION { ApplyRecommendation(r, catalog) : r \in recommendation }
    ELSE IF failed THEN FallbackSelection(reply, catalog)
    ELSE UNION { FirstOfThese(AiSelection(d, catalog), FallbackSelection(reply, catalog))
                     : d \in answer }

-----------------------------------------------------------------------------
(* Applying a recommendation, FullWorkflowOrchestrator *)

\* The groups that "apply the recommendation" is about: all of them, or the first one
\* for a user who wants the top one; which is first is left open.
AppliedGroups(r) ==
    IF r.mode = "deprioritize" THEN {r.groups}
    ELSE {r.groups} \cup { {g} : g \in r.groups }

\* _apply_latest_scope_recommendation_result asks again unless something is left.
CanApply(r, groups, catalog) ==
    /\ r.groups # {}
    /\ IF r.mode = "deprioritize" THEN catalog \ ExpandGroups(groups, catalog) # {}
       ELSE ExpandGroups(groups, catalog) # {}

\* "only groups: ..." or "exclude groups: ...", with the names of the groups.  It is
\* read back like any text, and a name may hold a number, a word for agreeing or for
\* leaving out, the name of another group and that of an operation.
ComposedReplies(texts, r, groups) ==
    { text \in texts : /\ ~text.everything /\ text.groupWord
                       /\ groups \subseteq text.groups
                       /\ r.mode = "deprioritize" => text.excludes }
=============================================================================
