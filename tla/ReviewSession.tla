------------------------------ MODULE ReviewSession ------------------------------
(***************************************************************************)
(* Test design for one workflow thread: tasks/orchestrator.py with the     *)
(* review graph of core/testcase_review_graph.py.                          *)
(*                                                                         *)
(* The orchestrator keeps two dictionaries in memory, the target           *)
(* selections and the scope confirmations that wait for a reply; for one   *)
(* thread each is a set of at most one entry.  The review graph keeps its  *)
(* state in a checkpoint per thread: starting a review on a thread that    *)
(* has one overwrites only the keys the new input names.                   *)
(*                                                                         *)
(* An action is one call.  Language-model decisions, the classification of *)
(* a reply and the failures of collaborators are chosen freely.            *)
(***************************************************************************)
EXTENDS ScopeSelection, ScopeRefinement

CONSTANTS
    Targets,      \* registered targets
    Catalog,      \* the operations of a target's OpenAPI document
    Limits,       \* limit_endpoints values a plan may have
    Decisions,    \* scope decisions considered
    Refinements,  \* feedback decisions considered
    NoTarget,     \* no target selected yet
    MaxFeedback,  \* bound: feedback messages in one review
    MaxStarts     \* bound: reviews started on the thread

ASSUME CatalogAssumption ==
    /\ NoTarget \notin Targets
    /\ Catalog \in [Targets -> (SUBSET Operations) \ {{}}]
    /\ IsFiniteSet(Operations)
ASSUME LimitsAssumption      == Limits \subseteq Nat \ {0}
ASSUME DecisionsAssumption   == Decisions \subseteq DecisionType
ASSUME RefinementsAssumption == Refinements \subseteq RefinementType
ASSUME BoundsAssumption      == MaxFeedback \in Nat /\ MaxStarts \in Nat

VARIABLES
    pendingTargets,   \* _pending_target_selections of the thread
    pendingScopes,    \* _pending_scope_confirmations of the thread
    graph,            \* where the review graph's checkpoint stands
    target,           \* target_name
    contexts,         \* operation_contexts
    initialScope,     \* initial_scope_operation_refs
    drafts,           \* draft_groups, as the operations they cover
    feedback,         \* length of feedback_history
    reviewOf,         \* the request the graph was last started with
    chosen,           \* the scope the user confirmed for it, {} if none was asked for
    result,           \* status of the last ReviewWorkflowResult, "raised" if none
    preview,          \* the operations of the draft last shown to the user
    starts            \* requests started on the thread

pendingVars == <<pendingTargets, pendingScopes>>
graphVars   == <<graph, target, contexts, initialScope, drafts, feedback, reviewOf, chosen>>
shownVars   == <<result, preview>>
vars        == <<pendingVars, graphVars, shownVars, starts>>

TargetEntry == [request : 1..MaxStarts, candidates : (SUBSET Targets) \ {{}}]
ScopeEntry  == [request : 1..MaxStarts, target : Targets, limit : Limits,
                recommended : BOOLEAN]

Statuses == { "none", "target_not_found", "invalid_function", "raised",
              "pending_target_selection", "pending_scope_confirmation",
              "pending_review", "approved", "cancelled" }

PendingOK ==
    /\ pendingTargets \subseteq TargetEntry
    /\ pendingScopes \subseteq ScopeEntry
    /\ \A e, f \in pendingTargets : e = f
    /\ \A e, f \in pendingScopes : e = f

GraphOK ==
    /\ graph \in {"absent", "waiting", "approved", "cancelled", "broken"}
    /\ target \in Targets \cup {NoTarget}
    /\ contexts \subseteq Operations
    /\ initialScope \subseteq Operations
    /\ drafts \subseteq Operations
    /\ feedback \in 0..MaxFeedback
    /\ reviewOf \in 0..MaxStarts
    /\ chosen \subseteq Operations
    /\ result \in Statuses
    /\ preview \subseteq Operations

TypeOK == PendingOK /\ GraphOK /\ starts \in 0..MaxStarts

Init ==
    /\ pendingTargets = {} /\ pendingScopes = {}
    /\ graph = "absent" /\ target = NoTarget
    /\ contexts = {} /\ initialScope = {} /\ drafts = {} /\ feedback = 0
    /\ reviewOf = 0 /\ chosen = {}
    /\ result = "none" /\ preview = {} /\ starts = 0

-----------------------------------------------------------------------------
(* Starting a review *)

\* A call that ends without touching the graph.
Report(status) ==
    /\ result' = status
    /\ UNCHANGED <<graphVars, preview>>

\* generate_draft succeeds and the graph stops at the review gate.
DraftShown ==
    /\ graph' = "waiting"
    /\ drafts' = contexts'
    /\ preview' = drafts'
    /\ result' = "pending_review"

\* generate_draft raises: the input was checkpointed, the draft was not.
DraftRaises ==
    /\ graph' = "broken"
    /\ result' = "raised"
    /\ UNCHANGED <<initialScope, drafts, preview>>

\* Mutant: the operations are not cut to what the plan or the user selected.
StartReview_WholeCatalog(t, operations, scope, request) ==
    /\ operations # {}
    /\ target' = t /\ contexts' = Catalog[t] /\ feedback' = 0
    /\ reviewOf' = request /\ chosen' = scope
    /\ \/ DraftShown /\ initialScope' = IF initialScope = {} THEN contexts' ELSE initialScope
       \/ DraftRaises

\* _start_review_after_understanding with the operations that are left after the
\* limit.  The input names neither initial_scope_operation_refs nor the history of
\* scope changes, so those of an earlier review on the thread stay.
StartReview(t, operations, scope, request) ==
    /\ operations # {}
    /\ target' = t /\ contexts' = operations /\ feedback' = 0
    /\ reviewOf' = request /\ chosen' = scope
    /\ \/ DraftShown /\ initialScope' = IF initialScope = {} THEN operations ELSE initialScope
       \/ DraftRaises

\* _continue_after_target_selected for the entry's request: the OpenAPI document or
\* the agent fails, the request names an unknown function, the scope has to be
\* confirmed, or the review starts on what the plan selects.
ContinueAfterTargetSelected(t, request) ==
    \/ /\ Report("raised") \/ Report("invalid_function")
       /\ UNCHANGED pendingScopes
    \/ /\ \E k \in Limits :
              pendingScopes' = {[request |-> request, target |-> t, limit |-> k,
                                 recommended |-> FALSE]}
       /\ Report("pending_scope_confirmation")
    \/ /\ \E wanted \in SUBSET Catalog[t], k \in Limits :
              StartReview(t, FirstOf(wanted, k), {}, request)
       /\ UNCHANGED pendingScopes

StartReviewFromText ==
    /\ starts < MaxStarts
    /\ starts' = starts + 1
    /\ \/ /\ Report("raised") \/ Report("target_not_found")
          /\ UNCHANGED pendingVars
       \/ /\ \E found \in (SUBSET Targets) \ {{}} :
                 pendingTargets' = {[request |-> starts', candidates |-> found]}
          /\ Report("pending_target_selection")
          /\ UNCHANGED pendingScopes
       \/ /\ \E t \in Targets : ContinueAfterTargetSelected(t, starts')
          /\ UNCHANGED pendingTargets

-----------------------------------------------------------------------------
(* Replies *)

NothingToSelect ==
    /\ pendingTargets = {}
    /\ Report("target_not_found")
    /\ UNCHANGED <<pendingVars, starts>>

CancelTargetSelection ==
    /\ pendingTargets # {}
    /\ pendingTargets' = {}
    /\ Report("cancelled")
    /\ UNCHANGED <<pendingScopes, starts>>

\* Mutant: the entry is popped before the reply is checked.
InvalidTargetSelection_Pops ==
    /\ pendingTargets # {}
    /\ pendingTargets' = {}
    /\ Report("pending_target_selection")
    /\ UNCHANGED <<pendingScopes, starts>>

InvalidTargetSelection ==
    /\ pendingTargets # {}
    /\ Report("pending_target_selection")
    /\ UNCHANGED <<pendingVars, starts>>

\* A number or an alias that resolves to one of the candidates.
SelectTarget ==
    /\ \E entry \in pendingTargets, t \in Targets :
           /\ t \in entry.candidates
           /\ ContinueAfterTargetSelected(t, entry.request)
    /\ pendingTargets' = {}
    /\ UNCHANGED starts

ResumeTargetSelection ==
    NothingToSelect \/ CancelTargetSelection \/ InvalidTargetSelection \/ SelectTarget

NothingToConfirm ==
    /\ pendingScopes = {}
    /\ Report("target_not_found")
    /\ UNCHANGED <<pendingVars, starts>>

\* The agent cannot tell the scope from the reply, or raises.
ScopeUnclear ==
    /\ pendingScopes # {}
    /\ Report("pending_scope_confirmation") \/ Report("raised")
    /\ UNCHANGED <<pendingVars, starts>>

\* _finalize_scope_selection: a decision that selects no operation leaves the entry
\* pending; otherwise the entry is popped and the review starts on the scope, cut
\* at the plan's limit.
FinalizeScopeSelection(entry, d) ==
    LET scope == ScopedOperations(d, Catalog[entry.target]) IN
    \/ /\ scope = {}
       /\ Report("pending_scope_confirmation")
       /\ UNCHANGED pendingScopes
    \/ /\ scope # {}
       /\ pendingScopes' = {}
       /\ StartReview(entry.target, FirstOf(scope, entry.limit), scope, entry.request)

ConfirmScope ==
    /\ \E entry \in pendingScopes, d \in Decisions : FinalizeScopeSelection(entry, d)
    /\ UNCHANGED <<pendingTargets, starts>>

ResumeScopeConfirmation == NothingToConfirm \/ ScopeUnclear \/ ConfirmScope

\* Mutant: without an entry one is made up.
RememberScopeRecommendation_MakesEntry(recommended) ==
    /\ pendingScopes' = {[recommended |-> recommended]}
    /\ UNCHANGED <<pendingTargets, graphVars, shownVars, starts>>

\* remember_scope_recommendation is silent when nothing waits for a scope.
RememberScopeRecommendation(recommended) ==
    /\ pendingScopes' = { [e EXCEPT !.recommended = recommended] : e \in pendingScopes }
    /\ UNCHANGED <<pendingTargets, graphVars, shownVars, starts>>

\* Without a remembered recommendation the reply only gets a question back.
ApplyLatestScopeRecommendation ==
    \/ NothingToConfirm
    \/ ScopeUnclear
    \/ /\ \E entry \in pendingScopes, d \in Decisions :
              entry.recommended /\ FinalizeScopeSelection(entry, d)
       /\ UNCHANGED <<pendingTargets, starts>>

-----------------------------------------------------------------------------
(* The review graph *)

\* Resuming a thread without a checkpoint raises; one that has ended runs nothing
\* and reports how it ended.
ResumeNothing ==
    /\ \/ graph = "absent" /\ Report("raised")
       \/ graph \in {"approved", "cancelled"} /\ Report(graph)
    /\ UNCHANGED <<pendingVars, starts>>

\* Mutant: a graph whose draft failed is approved as well.
EndReview_Broken(status) ==
    /\ graph \in {"waiting", "broken"}
    /\ graph' = status
    /\ result' = status
    /\ UNCHANGED <<pendingVars, target, contexts, initialScope, drafts, feedback,
                   reviewOf, chosen, preview, starts>>

EndReview(status) ==
    /\ graph = "waiting"
    /\ graph' = status
    /\ result' = status
    /\ UNCHANGED <<pendingVars, target, contexts, initialScope, drafts, feedback,
                   reviewOf, chosen, preview, starts>>

\* Mutant: the result is built from the checkpoint of the round before.
Redraft_StalePreview ==
    /\ \/ /\ \E d \in Refinements : contexts' = Refine(contexts, Catalog[target], d)
          /\ graph' = "waiting" /\ drafts' = contexts'
          /\ result' = "pending_review"
          /\ UNCHANGED <<initialScope, preview>>
       \/ DraftRaises /\ UNCHANGED contexts
    /\ UNCHANGED <<pendingVars, target, reviewOf, chosen, starts>>

\* Another round: the scope is refined with the latest feedback, if there is any,
\* and drafted.  Nothing of a round that raises is kept.
Redraft ==
    /\ \/ /\ \/ \E d \in Refinements :
                    feedback' > 0 /\ contexts' = Refine(contexts, Catalog[target], d)
             \/ feedback' = 0 /\ UNCHANGED contexts
          /\ DraftShown
          /\ initialScope' = IF initialScope = {} THEN contexts ELSE initialScope
       \/ DraftRaises /\ UNCHANGED contexts
    /\ UNCHANGED <<pendingVars, target, reviewOf, chosen, starts>>

\* Anything but "approve" and "cancel" asks for another round; the callers always
\* send feedback with it.
Revise ==
    /\ graph = "waiting"
    /\ feedback < MaxFeedback
    /\ feedback' = feedback + 1
    /\ Redraft

\* A graph whose draft raised repeats the draft and ignores the reply.
RetryDraft ==
    /\ graph = "broken"
    /\ UNCHANGED feedback
    /\ Redraft

ResumeReview ==
    \/ ResumeNothing
    \/ EndReview("approved") \/ EndReview("cancelled")
    \/ Revise \/ RetryDraft

Next ==
    \/ StartReviewFromText
    \/ ResumeTargetSelection
    \/ ResumeScopeConfirmation
    \/ \E recommended \in BOOLEAN : RememberScopeRecommendation(recommended)
    \/ ApplyLatestScopeRecommendation
    \/ ResumeReview

Spec == Init /\ [][Next]_vars

-----------------------------------------------------------------------------
(* Properties *)

\* What the graph would hand to the execution is what it drafted, what the user was
\* last shown, and operations of the review's own target, after any sequence of
\* failed rounds and restarts on the thread.
DraftsMatchScope ==
    graph \in {"waiting", "approved", "cancelled"} =>
        /\ drafts = contexts
        /\ drafts = preview
        /\ drafts # {} /\ target # NoTarget /\ drafts \subseteq Catalog[target]

\* A review is approved on the very draft the user saw last, by a reply to a graph
\* that was waiting for one.
ApprovalIsOfThePreview ==
    [][graph' = "approved" /\ graph # "approved"
           => graph = "waiting" /\ preview # {} /\ drafts' = preview]_vars

\* Whatever the last call asked the user for can be answered: the entry or the
\* checkpoint the reply needs is there.
RepliesCanBeTaken ==
    /\ result = "pending_target_selection"   => pendingTargets # {}
    /\ result = "pending_scope_confirmation" => pendingScopes # {}
    /\ result = "pending_review"             => graph = "waiting"

\* Before any feedback the draft stays within the scope the user confirmed.
FirstDraftStaysInScope ==
    chosen # {} /\ feedback = 0 /\ graph # "broken" => drafts \subseteq chosen
=============================================================================
