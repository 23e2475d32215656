--------------------------- MODULE ReviewSessionProofs ---------------------------
(***************************************************************************)
(* What ReviewSession promises for every catalog, every decision a model   *)
(* may make and every bound.                                               *)
(***************************************************************************)
EXTENDS ReviewSession, FiniteSetTheorems, TLAPS

-----------------------------------------------------------------------------
(* The operators *)

\* A cut keeps operations of the list it cuts.
LEMMA FirstOfIsSubset ==
  ASSUME NEW S, NEW k PROVE FirstOf(S, k) \subseteq S
  BY DEF FirstOf

\* A scope decision never selects an operation outside the target's catalog.
LEMMA ScopeIsInCatalog ==
  ASSUME NEW d \in DecisionType, NEW catalog
  PROVE  ScopedOperations(d, catalog) \subseteq catalog
  BY DEF ScopedOperations, PickedOperations, ExcludedOperations, ExpandGroups

\* Whatever the feedback, the refined scope can be tested: it is not empty and has
\* operations of the target only.
LEMMA RefineIsTestable ==
  ASSUME NEW d \in RefinementType, NEW all, NEW current \in SUBSET all, current # {}
  PROVE  Refine(current, all, d) \in SUBSET all /\ Refine(current, all, d) # {}
  <1>1. Proposed(current, all, d) \subseteq all
    <2>1. Patched(current, all, d) \subseteq all
      BY DEF Patched
    <2>2. d.mode \in RefineModes
      BY DEF RefinementType
    <2> QED
      BY <2>1, <2>2 DEF Proposed, RefineModes, PatchModes, KeepModes
  <1> QED
    BY <1>1 DEF Refine

-----------------------------------------------------------------------------
(* One call *)

\* What a started review always has: a target, and a scope of operations of that
\* target which, until feedback changes it, lies in the scope the user confirmed.
\* The drafts of a broken graph are those of an earlier round, so this and not
\* DraftsMatchScope is what a retried draft starts from.
ReviewIsScoped ==
    /\ graph # "absent" => /\ target \in Targets
                           /\ contexts # {} /\ contexts \subseteq Catalog[target]
    /\ graph = "absent" => chosen = {}
    /\ chosen # {} /\ feedback = 0 => contexts \subseteq chosen

GraphInv == GraphOK /\ ReviewIsScoped /\ DraftsMatchScope /\ FirstDraftStaysInScope

Inv == PendingOK /\ starts \in 0..MaxStarts /\ GraphInv

\* A call that only reports leaves the review as it was.
LEMMA ReportKeeps ==
  ASSUME GraphInv, NEW status \in Statuses, Report(status)
  PROVE  GraphInv' /\ result' = status
  BY DEF GraphInv, Report, graphVars, GraphOK, ReviewIsScoped, DraftsMatchScope,
         FirstDraftStaysInScope

\* A review that starts, drafted or not, is scoped.
LEMMA StartReviewIsScoped ==
  ASSUME GraphInv, NEW t \in Targets, NEW operations \in SUBSET Catalog[t],
         NEW scope \in SUBSET Operations, NEW request \in 1..MaxStarts,
         scope # {} => operations \subseteq scope,
         StartReview(t, operations, scope, request)
  PROVE  GraphInv' /\ result' \in {"pending_review", "raised"}
                   /\ (result' = "pending_review" => graph' = "waiting")
                   /\ graph' # "approved"
  <1> USE DEF StartReview
  <1>1. operations \subseteq Operations /\ 0 \in 0..MaxFeedback /\ request \in 0..MaxStarts
    BY CatalogAssumption, BoundsAssumption
  <1>2. /\ target' = t /\ contexts' = operations /\ operations # {} /\ feedback' = 0
        /\ reviewOf' = request /\ chosen' = scope
    OBVIOUS
  <1>3. CASE DraftShown /\ initialScope' = IF initialScope = {} THEN operations ELSE initialScope
    <2>1. /\ graph' = "waiting" /\ drafts' = operations /\ preview' = operations
          /\ result' = "pending_review" /\ initialScope' \subseteq Operations
      BY <1>1, <1>2, <1>3 DEF DraftShown, GraphInv, GraphOK
    <2>2. GraphOK'
      BY <1>1, <1>2, <2>1 DEF GraphOK, Statuses
    <2>3. ReviewIsScoped' /\ DraftsMatchScope' /\ FirstDraftStaysInScope'
      BY <1>2, <2>1, CatalogAssumption
      DEF ReviewIsScoped, DraftsMatchScope, FirstDraftStaysInScope
    <2> QED
      BY <2>1, <2>2, <2>3 DEF GraphInv
  <1>4. CASE DraftRaises
    <2>1. GraphOK'
      BY <1>1, <1>2, <1>4 DEF GraphInv, GraphOK, DraftRaises, Statuses
    <2>2. ReviewIsScoped' /\ DraftsMatchScope' /\ FirstDraftStaysInScope'
      BY <1>2, <1>4 DEF DraftRaises, ReviewIsScoped, DraftsMatchScope,
                        FirstDraftStaysInScope
    <2> QED
      BY <1>4, <2>1, <2>2 DEF GraphInv, DraftRaises
  <1> QED
    BY <1>3, <1>4

Pending == pendingScopes \subseteq ScopeEntry /\ \A e, f \in pendingScopes : e = f

\* Selecting a target keeps everything: the scope entry it may set names that target.
LEMMA ContinueKeeps ==
  ASSUME GraphInv, Pending, NEW t \in Targets, NEW request \in 1..MaxStarts,
         ContinueAfterTargetSelected(t, request)
  PROVE  /\ GraphInv' /\ Pending'
         /\ result' = "pending_scope_confirmation" => pendingScopes' # {}
         /\ result' = "pending_review" => graph' = "waiting"
         /\ result' # "pending_target_selection"
         /\ graph' = "approved" => graph = "approved"
  <1>1. CASE (Report("raised") \/ Report("invalid_function")) /\ UNCHANGED pendingScopes
    BY <1>1, ReportKeeps DEF Statuses, Pending, Report, graphVars
  <1>2. CASE /\ \E k \in Limits :
                    pendingScopes' = {[request |-> request, target |-> t, limit |-> k,
                                       recommended |-> FALSE]}
             /\ Report("pending_scope_confirmation")
    <2>1. GraphInv' /\ result' = "pending_scope_confirmation"
      BY <1>2, ReportKeeps DEF Statuses
    <2>2. Pending' /\ pendingScopes' # {}
      BY <1>2 DEF Pending, ScopeEntry
    <2> QED
      BY <1>2, <2>1, <2>2 DEF Report, graphVars
  <1>3. CASE /\ \E wanted \in SUBSET Catalog[t], k \in Limits :
                    StartReview(t, FirstOf(wanted, k), {}, request)
             /\ UNCHANGED pendingScopes
    <2>1. PICK wanted \in SUBSET Catalog[t], k \in Limits :
              StartReview(t, FirstOf(wanted, k), {}, request)
      BY <1>3
    <2>2. FirstOf(wanted, k) \in SUBSET Catalog[t]
      BY FirstOfIsSubset
    <2> QED
      BY <1>3, <2>1, <2>2, StartReviewIsScoped DEF Pending
  <1> QED
    BY <1>1, <1>2, <1>3 DEF ContinueAfterTargetSelected

\* Finalizing a scope pops the entry only when the review starts within that scope.
LEMMA FinalizeKeeps ==
  ASSUME GraphInv, Pending, NEW entry \in pendingScopes, NEW d \in Decisions,
         FinalizeScopeSelection(entry, d)
  PROVE  /\ GraphInv' /\ Pending'
         /\ result' = "pending_scope_confirmation" => pendingScopes' # {}
         /\ result' = "pending_review" => graph' = "waiting"
         /\ result' # "pending_target_selection"
         /\ graph' = "approved" => graph = "approved"
  <1> DEFINE scope == ScopedOperations(d, Catalog[entry.target])
             cut   == FirstOf(scope, entry.limit)
  <1>1. entry.target \in Targets /\ entry.request \in 1..MaxStarts
    BY DEF Pending, ScopeEntry
  <1>2. scope \subseteq Catalog[entry.target] /\ cut \subseteq scope
    BY DecisionsAssumption, ScopeIsInCatalog, FirstOfIsSubset
  <1>3. Catalog[entry.target] \subseteq Operations
    BY <1>1, CatalogAssumption
  <1>4. CASE scope = {} /\ Report("pending_scope_confirmation") /\ UNCHANGED pendingScopes
    <2>1. GraphInv' /\ result' = "pending_scope_confirmation"
      BY <1>4, ReportKeeps DEF Statuses
    <2> QED
      BY <1>4, <2>1 DEF Report, graphVars, Pending
  <1>5. CASE /\ scope # {} /\ pendingScopes' = {}
             /\ StartReview(entry.target, cut, scope, entry.request)
    <2>1. /\ GraphInv' /\ result' \in {"pending_review", "raised"}
          /\ (result' = "pending_review" => graph' = "waiting") /\ graph' # "approved"
      <3> HIDE DEF scope, cut
      <3> QED
        BY <1>1, <1>2, <1>3, <1>5, StartReviewIsScoped
    <2> QED
      BY <1>5, <2>1 DEF Pending
  <1> QED
    BY <1>4, <1>5 DEF FinalizeScopeSelection

\* Another round keeps the review scoped: what was drafted is what is shown.
LEMMA RedraftKeeps ==
  ASSUME GraphInv, graph \in {"waiting", "broken"}, feedback' \in 0..MaxFeedback,
         feedback' >= feedback, feedback' = 0 => graph = "broken", Redraft
  PROVE  /\ GraphInv' /\ result' \in {"pending_review", "raised"}
         /\ (result' = "pending_review" => graph' = "waiting") /\ graph' # "approved"
  <1>1. /\ target \in Targets /\ contexts # {} /\ contexts \subseteq Catalog[target]
        /\ Catalog[target] \subseteq Operations
    BY CatalogAssumption DEF GraphInv, ReviewIsScoped
  <1>2. contexts' # {} /\ contexts' \subseteq Catalog[target] /\ target' = target /\ chosen' = chosen
    BY <1>1, RefinementsAssumption, RefineIsTestable DEF Redraft
  <1>3. feedback \in 0..MaxFeedback
    BY DEF GraphInv, GraphOK
  <1>4. chosen' # {} /\ feedback' = 0 => contexts' \subseteq chosen'
    <2>1. feedback' = 0 => feedback = 0 /\ contexts' = contexts
      BY <1>3 DEF Redraft
    <2> QED
      BY <1>2, <2>1 DEF GraphInv, ReviewIsScoped
  <1>5. CASE /\ DraftShown
             /\ initialScope' = IF initialScope = {} THEN contexts ELSE initialScope
    <2>1. /\ graph' = "waiting" /\ drafts' = contexts' /\ preview' = contexts'
          /\ result' = "pending_review"
      BY <1>5 DEF DraftShown
    <2>2. initialScope' \subseteq Operations /\ reviewOf' = reviewOf
      BY <1>1, <1>5 DEF GraphInv, GraphOK, Redraft
    <2>3. GraphOK'
      BY <1>1, <1>2, <2>1, <2>2 DEF GraphInv, GraphOK, Statuses
    <2>4. ReviewIsScoped' /\ DraftsMatchScope' /\ FirstDraftStaysInScope'
      BY <1>1, <1>2, <1>4, <2>1, CatalogAssumption
      DEF ReviewIsScoped, DraftsMatchScope, FirstDraftStaysInScope
    <2> QED
      BY <2>1, <2>3, <2>4 DEF GraphInv
  <1>6. CASE DraftRaises
    <2>1. GraphOK'
      BY <1>1, <1>2, <1>6 DEF GraphInv, GraphOK, Redraft, DraftRaises, Statuses
    <2>2. ReviewIsScoped' /\ DraftsMatchScope' /\ FirstDraftStaysInScope'
      BY <1>1, <1>2, <1>4, <1>6 DEF DraftRaises, ReviewIsScoped, DraftsMatchScope,
                                    FirstDraftStaysInScope
    <2> QED
      BY <1>6, <2>1, <2>2 DEF GraphInv, DraftRaises
  <1> QED
    BY <1>5, <1>6 DEF Redraft

-----------------------------------------------------------------------------
(* Every call *)

\* What one call guarantees on top of the invariant: what its result asks for can be
\* answered, and only a waiting graph gets approved.
CallIsSound ==
    /\ RepliesCanBeTaken'
    /\ graph' = "approved" /\ graph # "approved"
           => graph = "waiting" /\ drafts' = drafts /\ preview' = preview

LEMMA EveryCallKeeps ==
  ASSUME Inv, RepliesCanBeTaken, Next PROVE Inv' /\ CallIsSound
  <1> USE DEF Inv, RepliesCanBeTaken, CallIsSound
  <1>0. Pending /\ starts \in 0..MaxStarts /\ MaxStarts \in Nat /\ MaxFeedback \in Nat
    BY BoundsAssumption DEF Pending, PendingOK
  <1>1. CASE StartReviewFromText
    <2>1. starts' \in 1..MaxStarts /\ starts' \in 0..MaxStarts
      BY <1>0, <1>1 DEF StartReviewFromText
    <2>2. CASE /\ Report("raised") \/ Report("target_not_found")
               /\ UNCHANGED pendingVars
      <3>1. GraphInv' /\ result' \in {"raised", "target_not_found"}
        BY <2>2, ReportKeeps DEF Statuses
      <3> QED
        BY <2>1, <2>2, <3>1 DEF pendingVars, PendingOK, Report, graphVars
    <2>3. CASE /\ \E found \in (SUBSET Targets) \ {{}} :
                      pendingTargets' = {[request |-> starts', candidates |-> found]}
               /\ Report("pending_target_selection")
               /\ UNCHANGED pendingScopes
      <3>1. GraphInv' /\ result' = "pending_target_selection"
        BY <2>3, ReportKeeps DEF Statuses
      <3>2. PendingOK' /\ pendingTargets' # {}
        BY <2>1, <2>3 DEF PendingOK, TargetEntry
      <3> QED
        BY <2>1, <2>3, <3>1, <3>2 DEF Report, graphVars
    <2>4. CASE /\ \E t \in Targets : ContinueAfterTargetSelected(t, starts')
               /\ UNCHANGED pendingTargets
      <3>1. PICK t \in Targets : ContinueAfterTargetSelected(t, starts')
        BY <2>4
      <3>2. /\ GraphInv' /\ Pending'
            /\ result' = "pending_scope_confirmation" => pendingScopes' # {}
            /\ result' = "pending_review" => graph' = "waiting"
            /\ result' # "pending_target_selection"
            /\ graph' = "approved" => graph = "approved"
        BY <1>0, <2>1, <3>1, ContinueKeeps
      <3> QED
        BY <2>1, <2>4, <3>2 DEF PendingOK, Pending
    <2> QED
      BY <1>1, <2>2, <2>3, <2>4 DEF StartReviewFromText
  <1>2. CASE NothingToSelect \/ NothingToConfirm
    <2>1. GraphInv' /\ result' = "target_not_found"
      BY <1>2, ReportKeeps DEF NothingToSelect, NothingToConfirm, Statuses
    <2> QED
      BY <1>2, <2>1 DEF NothingToSelect, NothingToConfirm, pendingVars, PendingOK,
                        Report, graphVars
  <1>3. CASE CancelTargetSelection
    <2>1. GraphInv' /\ result' = "cancelled"
      BY <1>3, ReportKeeps DEF CancelTargetSelection, Statuses
    <2> QED
      BY <1>3, <2>1 DEF CancelTargetSelection, PendingOK, Report, graphVars
  <1>4. CASE InvalidTargetSelection
    <2>1. GraphInv' /\ result' = "pending_target_selection"
      BY <1>4, ReportKeeps DEF InvalidTargetSelection, Statuses
    <2> QED
      BY <1>4, <2>1 DEF InvalidTargetSelection, pendingVars, PendingOK, Report, graphVars
  <1>5. CASE SelectTarget
    <2>1. PICK entry \in pendingTargets, t \in Targets :
              ContinueAfterTargetSelected(t, entry.request)
      BY <1>5 DEF SelectTarget
    <2>2. entry.request \in 1..MaxStarts
      BY <2>1 DEF PendingOK, TargetEntry
    <2>3. /\ GraphInv' /\ Pending'
          /\ result' = "pending_scope_confirmation" => pendingScopes' # {}
          /\ result' = "pending_review" => graph' = "waiting"
          /\ result' # "pending_target_selection"
          /\ graph' = "approved" => graph = "approved"
      BY <1>0, <2>1, <2>2, ContinueKeeps
    <2> QED
      BY <1>5, <2>3 DEF SelectTarget, PendingOK, Pending
  <1>6. CASE ScopeUnclear
    <2>1. GraphInv' /\ result' \in {"pending_scope_confirmation", "raised"}
      BY <1>6, ReportKeeps DEF ScopeUnclear, Statuses
    <2> QED
      BY <1>6, <2>1 DEF ScopeUnclear, pendingVars, PendingOK, Report, graphVars
  <1>7. ASSUME NEW entry \in pendingScopes, NEW d \in Decisions,
               FinalizeScopeSelection(entry, d), UNCHANGED <<pendingTargets, starts>>
        PROVE  Inv' /\ CallIsSound
    <2>1. /\ GraphInv' /\ Pending'
          /\ result' = "pending_scope_confirmation" => pendingScopes' # {}
          /\ result' = "pending_review" => graph' = "waiting"
          /\ result' # "pending_target_selection"
          /\ graph' = "approved" => graph = "approved"
      BY <1>0, <1>7, FinalizeKeeps
    <2> QED
      BY <1>7, <2>1 DEF PendingOK, Pending
  <1>8. CASE \E recommended \in BOOLEAN : RememberScopeRecommendation(recommended)
    <2>1. PICK recommended \in BOOLEAN : RememberScopeRecommendation(recommended)
      BY <1>8
    <2>2. PendingOK' /\ (pendingScopes # {} => pendingScopes' # {})
      <3>1. \A e \in ScopeEntry : [e EXCEPT !.recommended = recommended] \in ScopeEntry
        BY DEF ScopeEntry
      <3>2. /\ pendingTargets' = pendingTargets
            /\ pendingScopes' = { [e EXCEPT !.recommended = recommended] :
                                      e \in pendingScopes }
        BY <2>1 DEF RememberScopeRecommendation
      <3>3. pendingScopes \subseteq ScopeEntry /\ \A e, f \in pendingScopes : e = f
        BY DEF PendingOK
      <3>4. pendingScopes' \subseteq ScopeEntry
        BY <3>1, <3>2, <3>3
      <3>5. \A e, f \in pendingScopes' : e = f
        BY <3>2, <3>3
      <3> QED
        BY <3>2, <3>4, <3>5 DEF PendingOK
    <2>3. GraphInv'
      BY <2>1 DEF RememberScopeRecommendation, graphVars, shownVars, GraphInv, GraphOK,
                  ReviewIsScoped, DraftsMatchScope, FirstDraftStaysInScope
    <2> QED
      BY <2>1, <2>2, <2>3 DEF RememberScopeRecommendation, graphVars, shownVars
  <1>9. CASE ResumeNothing
    <2>1. GraphInv' /\ result' \in {"raised", "approved", "cancelled"}
      BY <1>9, ReportKeeps DEF ResumeNothing, Statuses
    <2> QED
      BY <1>9, <2>1 DEF ResumeNothing, pendingVars, PendingOK, Report, graphVars
  <1>10. ASSUME NEW status \in {"approved", "cancelled"}, EndReview(status)
         PROVE  Inv' /\ CallIsSound
    <2>1. GraphInv'
      BY <1>10 DEF EndReview, GraphInv, GraphOK, ReviewIsScoped, DraftsMatchScope,
                   FirstDraftStaysInScope, Statuses
    <2> QED
      BY <1>10, <2>1 DEF EndReview, pendingVars, PendingOK
  <1>11. CASE Revise \/ RetryDraft
    <2>1. /\ graph \in {"waiting", "broken"} /\ feedback' \in 0..MaxFeedback
          /\ feedback' >= feedback /\ (feedback' = 0 => graph = "broken") /\ Redraft
      BY <1>0, <1>11 DEF Revise, RetryDraft, GraphInv, GraphOK
    <2>2. /\ GraphInv' /\ result' \in {"pending_review", "raised"}
          /\ (result' = "pending_review" => graph' = "waiting") /\ graph' # "approved"
      BY <2>1, RedraftKeeps
    <2> QED
      BY <2>1, <2>2 DEF Redraft, pendingVars, PendingOK
  <1> QED
    BY <1>1, <1>2, <1>3, <1>4, <1>5, <1>6, <1>7, <1>8, <1>9, <1>10, <1>11
    DEF Next, ResumeTargetSelection, ResumeScopeConfirmation, ConfirmScope,
        ApplyLatestScopeRecommendation, ResumeReview

-----------------------------------------------------------------------------
(* The theorems *)

LEMMA Invariance == Spec => [](Inv /\ RepliesCanBeTaken)
  <1>1. Init => Inv /\ RepliesCanBeTaken
    <2>1. 0 \in 0..MaxFeedback /\ 0 \in 0..MaxStarts
      BY BoundsAssumption
    <2> QED
      BY <2>1 DEF Init, Inv, PendingOK, GraphInv, GraphOK, ReviewIsScoped,
                  DraftsMatchScope, FirstDraftStaysInScope, RepliesCanBeTaken, Statuses
  <1>2. Inv /\ RepliesCanBeTaken /\ [Next]_vars => (Inv /\ RepliesCanBeTaken)'
    <2>1. CASE Next
      BY <2>1, EveryCallKeeps DEF CallIsSound
    <2>2. CASE UNCHANGED vars
      BY <2>2 DEF vars, pendingVars, graphVars, shownVars, Inv, PendingOK, GraphInv,
                  GraphOK, ReviewIsScoped, DraftsMatchScope, FirstDraftStaysInScope,
                  RepliesCanBeTaken
    <2> QED
      BY <2>1, <2>2
  <1> QED
    BY <1>1, <1>2, PTL DEF Spec

\* Type correctness: at most one entry waits per dictionary, and every call keeps the
\* checkpoint in its type.
THEOREM TypeCorrect == Spec => []TypeOK
  <1>1. Inv => TypeOK
    BY DEF Inv, GraphInv, TypeOK
  <1> QED
    BY <1>1, Invariance, PTL

\* The draft the execution would get is the one on the user's screen, for any catalog,
\* any decision of the models and any sequence of failures and restarts.
THEOREM DraftsAreScoped == Spec => []DraftsMatchScope
  <1>1. Inv => DraftsMatchScope
    BY DEF Inv, GraphInv
  <1> QED
    BY <1>1, Invariance, PTL

\* What the user confirmed bounds the first draft.
THEOREM FirstDraftIsScoped == Spec => []FirstDraftStaysInScope
  <1>1. Inv => FirstDraftStaysInScope
    BY DEF Inv, GraphInv
  <1> QED
    BY <1>1, Invariance, PTL

\* No call asks the user for something the orchestrator could not take.
THEOREM RepliesAreTaken == Spec => []RepliesCanBeTaken
  BY Invariance, PTL

\* No draft is approved that the user did not see.
THEOREM ApprovalIsInformed == Spec => ApprovalIsOfThePreview
  <1> DEFINE Step == graph' = "approved" /\ graph # "approved"
                         => graph = "waiting" /\ preview # {} /\ drafts' = preview
  <1>1. Inv /\ RepliesCanBeTaken /\ [Next]_vars => [Step]_vars
    <2> SUFFICES ASSUME Inv, RepliesCanBeTaken, Next, graph' = "approved", graph # "approved"
                 PROVE  graph = "waiting" /\ preview # {} /\ drafts' = preview
      OBVIOUS
    <2>1. graph = "waiting" /\ drafts' = drafts
      BY EveryCallKeeps DEF CallIsSound
    <2> QED
      BY <2>1 DEF Inv, GraphInv, DraftsMatchScope
  <1> QED
    BY <1>1, Invariance, PTL DEF Spec, ApprovalIsOfThePreview
=============================================================================
