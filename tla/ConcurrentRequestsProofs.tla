---------------------------- MODULE ConcurrentRequestsProofs ----------------------------
(***************************************************************************)
(* Any number of requests on one thread, served at the same time.          *)
(*                                                                         *)
(* However they interleave: what is executed was approved, what is shown   *)
(* as finalized is recorded, what is recorded was executed, and nobody is  *)
(* left in a phase without replies.  As long as they do not overlap: the   *)
(* thread goes through the documented phases and is a WorkflowLifecycle.   *)
(***************************************************************************)
EXTENDS ConcurrentRequests, TLAPS

\* A checkpoint of the review is past its gate only with an approval, and was sent back
\* to the draft only when another draft was to come.
Sound(c) ==
    /\ c.at \in {"approve", "approved"} => c.round \in approvals
    /\ c.at = "revise" => c.round < MaxRounds

CheckpointsAreSound == Sound(review) /\ \A w \in Workers : Sound(request[w].review)

\* A request at a gate carries a reply to the question that gate asks.
RepliesFit ==
    \A w \in Workers :
        /\ request[w].at \in {"read", "loaded"} => request[w].does \in ReviewActions
        /\ request[w].at \in {"turning", "turned"} => request[w].does \in ReportActions

\* The pipeline executes the checkpoint it read, which was an approved one.
ExecutingIsApproved ==
    \A w \in Workers :
        request[w].at = "executing" => request[w].review.at = "approved"

\* A request that is about to save "finalized" has recorded the final report.
PersistedHasRow ==
    \A w \in Workers :
        request[w].at = "persisted" /\ request[w].report.at = "finalized" => row # {}

ShownHasRow == store.phase = "finalized" => row # {}

IInv ==
    /\ TypeOK
    /\ CheckpointsAreSound
    /\ RepliesFit
    /\ ExecutingIsApproved
    /\ PersistedHasRow
    /\ ExecutedWasApproved
    /\ ShownHasRow

LEMMA RoundsAreNumbers ==
    /\ MaxRounds \in Nat /\ 1 \in Rounds
    /\ \A r \in Rounds : r \in Nat /\ (r < MaxRounds => r + 1 \in Rounds)
  <1>1. MaxRounds \in Nat /\ 1 <= MaxRounds
    BY BoundsAssumption
  <1> QED BY <1>1 DEF Rounds

LEMMA IdleTyped == Idle \in RequestType
  BY RoundsAreNumbers DEF Idle, RequestType, SnapshotType, ReviewType, ReportType, Runs,
                          Phases, Outcomes, Places

\* What a worker learns keeps the type of its request.
LEMMA PlacedTyped ==
    ASSUME NEW r \in RequestType, NEW p \in Places
    PROVE  [r EXCEPT !.at = p] \in RequestType
  BY DEF RequestType

LEMMA IsDone ==
    ASSUME request \in [Workers -> RequestType], NEW w \in Workers, Done(w)
    PROVE  /\ request' \in [Workers -> RequestType]
           /\ request'[w] = Idle
           /\ \A v \in Workers : v # w => request'[v] = request[v]
  BY IdleTyped DEF Done

LEMMA RequestFields ==
    ASSUME NEW r \in RequestType
    PROVE  /\ r.copy \in SnapshotType /\ r.review \in ReviewType
           /\ r.report \in ReportType /\ r.run \in Runs
           /\ \A c \in SnapshotType : [r EXCEPT !.copy = c] \in RequestType
           /\ \A c \in ReviewType : /\ [r EXCEPT !.review = c] \in RequestType
                                    /\ [r EXCEPT !.review = c].review = c
           /\ \A c \in ReportType : /\ [r EXCEPT !.report = c] \in RequestType
                                    /\ [r EXCEPT !.report = c].report = c
           /\ \A c \in Runs : /\ [r EXCEPT !.run = c] \in RequestType
                              /\ [r EXCEPT !.run = c].review = r.review
           /\ \A c \in SnapshotType : [r EXCEPT !.copy = c].review = r.review
  BY DEF RequestType

LEMMA SnapshotFields ==
    ASSUME NEW s \in SnapshotType, NEW p \in Phases
    PROVE  [s EXCEPT !.phase = p] \in SnapshotType /\ [s EXCEPT !.phase = p].phase = p
  BY DEF SnapshotType

LEMMA ReviewFields ==
    ASSUME NEW c \in ReviewType,
           NEW a \in {"waiting"} \cup ReviewActions \cup ReviewOutcomes
    PROVE  /\ [c EXCEPT !.at = a] \in ReviewType
           /\ [c EXCEPT !.at = a].at = a /\ [c EXCEPT !.at = a].round = c.round
  BY DEF ReviewType

\* A request that only moves on, with the checkpoint it had or a sound one, keeps what
\* is said of the requests, unless it has come to a place of which more is said.
LEMMA MovesOn ==
    ASSUME CheckpointsAreSound, RepliesFit, ExecutingIsApproved, PersistedHasRow,
           NEW w \in Workers,
           \A v \in Workers : v # w => request'[v] = request[v],
           Sound(review)', Sound(request[w].review)',
           approvals \subseteq approvals',
           row # {} => row' # {},
           request'[w].at \in {"read", "loaded"} => request'[w].does \in ReviewActions,
           request'[w].at \in {"turning", "turned"} => request'[w].does \in ReportActions,
           request'[w].at = "executing" => request'[w].review.at = "approved",
           request'[w].at = "persisted" /\ request'[w].report.at = "finalized" => row' # {}
    PROVE  CheckpointsAreSound' /\ RepliesFit' /\ ExecutingIsApproved' /\ PersistedHasRow'
  <1>1. CheckpointsAreSound'
    <2> SUFFICES ASSUME NEW v \in Workers PROVE Sound(request[v].review)'
      BY DEF CheckpointsAreSound
    <2>1. CASE v = w
      BY <2>1
    <2>2. CASE v # w
      BY <2>2 DEF CheckpointsAreSound, Sound
    <2> QED BY <2>1, <2>2
  <1>2. ExecutingIsApproved'
    BY DEF ExecutingIsApproved
  <1>3. PersistedHasRow'
    BY DEF PersistedHasRow
  <1>4. RepliesFit'
    BY DEF RepliesFit
  <1> QED BY <1>1, <1>2, <1>3, <1>4

LEMMA IdleIsSound == Idle.at = "idle" /\ Idle.review.at = "waiting" /\ Sound(Idle.review)
  BY DEF Idle, Sound

-----------------------------------------------------------------------------
(* One step of one request *)

\* What the steps use of the invariant.
LEMMA Known ==
    ASSUME IInv, NEW w \in Workers
    PROVE  /\ request \in [Workers -> RequestType]
           /\ request[w] \in RequestType
           /\ request[w].review \in ReviewType /\ request[w].review.round \in Rounds
           /\ request[w].copy \in SnapshotType
           /\ request[w].report \in ReportType /\ request[w].run \in Runs
           /\ review \in ReviewType /\ review.round \in Rounds
           /\ store \in SnapshotType /\ report \in ReportType
           /\ runs \in Seq(Rounds) /\ approvals \subseteq Rounds
           /\ Sound(review) /\ Sound(request[w].review)
  <1>1. request \in [Workers -> RequestType] /\ request[w] \in RequestType
    BY DEF IInv, TypeOK
  <1>2. review \in ReviewType /\ store \in SnapshotType /\ report \in ReportType
    BY DEF IInv, TypeOK
  <1>3. \A c \in ReviewType : c.round \in Rounds
    BY DEF ReviewType
  <1>4. Sound(review) /\ Sound(request[w].review)
    BY DEF IInv, CheckpointsAreSound
  <1>5. runs \in Seq(Rounds) /\ approvals \subseteq Rounds
    BY DEF IInv, TypeOK
  <1> QED BY <1>1, <1>2, <1>3, <1>4, <1>5, RequestFields

\* A step of worker w that moves its request on to p, where it carries r, and that
\* leaves what is executed, recorded and shown as finalized alone.
LEMMA QuietStep ==
    ASSUME IInv, NEW w \in Workers, NEW r \in RequestType,
           NEW p \in Places \ {"executing", "persisted"}, Goes(w, p, r),
           p \in {"read", "loaded"} => r.does \in ReviewActions,
           p \in {"turning", "turned"} => r.does \in ReportActions,
           store' \in SnapshotType, store'.phase = "finalized" => store.phase = "finalized",
           review' \in ReviewType, report' \in ReportType,
           UNCHANGED <<runs, row>>, received' \in 0..MaxRequests,
           approvals \subseteq approvals', approvals' \subseteq Rounds,
           Sound(review)', r.review \in {review', review, request[w].review}
    PROVE  IInv'
  <1>1. request \in [Workers -> RequestType] /\ p \in Places
    BY Known
  <1>2. /\ request' \in [Workers -> RequestType]
        /\ request'[w].at = p /\ request'[w].review = r.review /\ request'[w].does = r.does
        /\ \A v \in Workers : v # w => request'[v] = request[v]
    BY <1>1, PlacedTyped DEF Goes
  <1>3. Sound(request[w].review)'
    BY <1>2, Known DEF Sound
  <1>4. CheckpointsAreSound' /\ RepliesFit' /\ ExecutingIsApproved' /\ PersistedHasRow'
    BY <1>2, <1>3, MovesOn DEF IInv
  <1>5. TypeOK'
    BY <1>2 DEF IInv, TypeOK
  <1>6. ExecutedWasApproved' /\ ShownHasRow'
    BY DEF IInv, ExecutedWasApproved, ShownHasRow
  <1> QED BY <1>4, <1>5, <1>6 DEF IInv

\* A step that ends a request of worker w.
LEMMA LastStep ==
    ASSUME IInv, NEW w \in Workers, Done(w),
           store' \in SnapshotType, store'.phase = "finalized" => row # {},
           UNCHANGED <<review, report, runs, row, approvals, received>>
    PROVE  IInv'
  <1>1. request \in [Workers -> RequestType]
    BY Known
  <1>2. /\ request' \in [Workers -> RequestType]
        /\ request'[w] = Idle
        /\ \A v \in Workers : v # w => request'[v] = request[v]
    BY <1>1, IsDone
  <1>3. Sound(review)' /\ Sound(request[w].review)'
    BY <1>2, Known, IdleIsSound DEF Sound
  <1>4. CheckpointsAreSound' /\ RepliesFit' /\ ExecutingIsApproved' /\ PersistedHasRow'
    BY <1>2, <1>3, MovesOn, IdleIsSound DEF IInv
  <1>5. TypeOK'
    BY <1>2 DEF IInv, TypeOK
  <1>6. ExecutedWasApproved' /\ ShownHasRow'
    BY DEF IInv, ExecutedWasApproved, ShownHasRow
  <1> QED BY <1>4, <1>5, <1>6 DEF IInv

LEMMA ReceiveStep ==
    ASSUME IInv, NEW w \in Workers, Receive(w)
    PROVE  IInv'
  <1>1. /\ UNCHANGED <<store, review, report, runs, row, approvals>>
        /\ received' \in 0..MaxRequests
    <2>1. MaxRequests \in Nat /\ received \in 0..MaxRequests
      BY BoundsAssumption DEF IInv, TypeOK
    <2>2. received < MaxRequests /\ received' = received + 1
      BY DEF Receive
    <2>3. received' \in 0..MaxRequests
      BY <2>1, <2>2
    <2> QED BY <2>3 DEF Receive
  <1>2. \A does \in ReviewActions \cup ReportActions :
           LET r == [Idle EXCEPT !.copy = store, !.does = does]
           IN  r \in RequestType /\ r.review = Idle.review /\ r.does = does
    BY IdleTyped, Known DEF RequestType
  <1>3. "read" \in Places \ {"executing", "persisted"}
        /\ "turning" \in Places \ {"executing", "persisted"}
    BY DEF Places
  <1>4. PICK r \in RequestType, p \in {"read", "turning"} :
          /\ Goes(w, p, r) /\ r.review = Idle.review
          /\ p = "read" => r.does \in ReviewActions
          /\ p = "turning" => r.does \in ReportActions
    BY <1>2 DEF Receive
  <1>5. [r EXCEPT !.at = p] = request'[w] /\ request'[w].at = p
        /\ request'[w].review = Idle.review /\ request'[w].does = r.does
        /\ request' \in [Workers -> RequestType]
        /\ \A v \in Workers : v # w => request'[v] = request[v]
    BY <1>3, <1>4, Known, PlacedTyped DEF Goes, RequestType
  <1>6. Sound(review)' /\ Sound(request[w].review)'
    BY <1>1, <1>5, Known, IdleIsSound DEF Sound
  <1>7. CheckpointsAreSound' /\ RepliesFit' /\ ExecutingIsApproved' /\ PersistedHasRow'
    BY <1>1, <1>4, <1>5, <1>6, MovesOn DEF IInv
  <1>8. TypeOK'
    BY <1>1, <1>5 DEF IInv, TypeOK
  <1>9. ExecutedWasApproved' /\ ShownHasRow'
    BY <1>1 DEF IInv, ExecutedWasApproved, ShownHasRow
  <1> QED BY <1>7, <1>8, <1>9 DEF IInv

LEMMA LoadReviewStep ==
    ASSUME IInv, NEW w \in Workers, LoadReview(w)
    PROVE  IInv'
  <1> DEFINE r == [request[w] EXCEPT !.review = review]
  <1>1. r \in RequestType /\ r.review = review /\ r.does = request[w].does
    BY Known DEF RequestType
  <1>2. "loaded" \in Places \ {"executing", "persisted"} /\ request[w].does \in ReviewActions
    BY DEF Places, LoadReview, IInv, RepliesFit
  <1>3. Goes(w, "loaded", r) /\ UNCHANGED <<store, review, report, runs, row, approvals, received>>
    BY DEF LoadReview
  <1>4. received \in 0..MaxRequests
    BY DEF IInv, TypeOK
  <1> HIDE DEF r
  <1> QED BY <1>1, <1>2, <1>3, <1>4, Known, QuietStep DEF Sound

LEMMA PassGateStep ==
    ASSUME IInv, NEW w \in Workers, PassGate(w)
    PROVE  IInv'
  <1> DEFINE loaded == request[w].review
             does   == request[w].does
             r      == [request[w] EXCEPT !.review = review']
  <1>1. /\ UNCHANGED <<store, report, runs, row, received>>
        /\ received \in 0..MaxRequests /\ does \in ReviewActions
        /\ "passed" \in Places \ {"executing", "persisted"}
        /\ "resumed" \in Places \ {"executing", "persisted"}
    BY DEF PassGate, Places, IInv, TypeOK, RepliesFit
  <1>2. CASE /\ loaded.at = "waiting"
             /\ does = "revise" => loaded.round < MaxRounds
             /\ review' = [loaded EXCEPT !.at = does]
             /\ approvals' = IF does = "approve" THEN approvals \cup {loaded.round}
                             ELSE approvals
             /\ Goes(w, "passed", r)
    <2>1. review' \in ReviewType /\ review'.at = does /\ review'.round = loaded.round
      BY <1>1, <1>2, Known, ReviewFields
    <2>2. r \in RequestType /\ r.review = review'
      BY <2>1, Known, RequestFields
    <2>3. approvals \subseteq approvals' /\ approvals' \subseteq Rounds
      BY <1>2, Known
    <2>4. Sound(review)'
      BY <1>1, <1>2, <2>1 DEF Sound, ReviewActions
    <2> HIDE DEF r
    <2> QED BY <1>1, <1>2, <2>1, <2>2, <2>3, <2>4, Known, QuietStep
  <1>3. CASE UNCHANGED <<review, approvals>> /\ Goes(w, "passed", request[w])
    BY <1>1, <1>3, Known, QuietStep DEF Sound
  <1>4. CASE UNCHANGED <<review, approvals>> /\ Goes(w, "resumed", request[w])
    BY <1>1, <1>4, Known, QuietStep DEF Sound
  <1> QED BY <1>2, <1>3, <1>4 DEF PassGate

LEMMA RunNodeStep ==
    ASSUME IInv, NEW w \in Workers, RunNode(w)
    PROVE  IInv'
  <1> DEFINE loaded == request[w].review
  <1>1. /\ UNCHANGED <<store, report, runs, row, approvals, received>>
        /\ received \in 0..MaxRequests
        /\ "failed" \in Places \ {"executing", "persisted"}
        /\ "resumed" \in Places \ {"executing", "persisted"}
    BY DEF RunNode, Places, IInv, TypeOK
  <1>2. CASE Goes(w, "failed", request[w]) /\ UNCHANGED review
    BY <1>1, <1>2, Known, QuietStep DEF Sound
  <1>3. ASSUME review' \in ReviewType, Sound(review)', Goes(w, "resumed", request[w])
        PROVE  IInv'
    BY <1>1, <1>3, Known, QuietStep
  <1>4. CASE loaded.at = "approve" /\ review' = [loaded EXCEPT !.at = "approved"]
             /\ Goes(w, "resumed", request[w])
    <2>1. review' \in ReviewType /\ review'.at = "approved" /\ review'.round = loaded.round
      BY <1>4, Known, ReviewFields DEF ReviewOutcomes
    <2>2. Sound(review)'
      BY <1>1, <1>4, <2>1, Known DEF Sound
    <2> QED BY <1>3, <1>4, <2>1, <2>2
  <1>5. CASE review' = [loaded EXCEPT !.at = "cancelled"] /\ Goes(w, "resumed", request[w])
    <2>1. review' \in ReviewType /\ review'.at = "cancelled"
      BY <1>5, Known, ReviewFields DEF ReviewOutcomes
    <2> QED BY <1>3, <1>5, <2>1 DEF Sound
  <1>6. CASE loaded.at = "revise" /\ review' = [at |-> "waiting", round |-> loaded.round + 1]
             /\ Goes(w, "resumed", request[w])
    <2>1. loaded.round + 1 \in Rounds
      BY <1>6, Known, RoundsAreNumbers DEF Sound
    <2>2. review' \in ReviewType /\ Sound(review)'
      BY <1>6, <2>1 DEF Sound, ReviewType
    <2> QED BY <1>3, <1>6, <2>2
  <1> QED BY <1>2, <1>4, <1>5, <1>6 DEF RunNode

LEMMA SaveReviewResultStep ==
    ASSUME IInv, NEW w \in Workers, SaveReviewResult(w)
    PROVE  IInv'
  <1> DEFINE copy == [phase |-> ReviewPhase, run |-> 0]
             r    == [request[w] EXCEPT !.copy = copy]
  <1>1. /\ UNCHANGED <<review, report, runs, row, approvals, received>> /\ store' = copy
        /\ received \in 0..MaxRequests
        /\ "approved" \in Places \ {"executing", "persisted"}
    BY DEF SaveReviewResult, Places, IInv, TypeOK
  <1>2. copy \in SnapshotType /\ copy.phase # "finalized"
    BY Known DEF ReviewPhase, SnapshotType, Phases, ReviewOutcomes, Outcomes, Runs
  <1>3. CASE Goes(w, "approved", r)
    <2>1. r \in RequestType /\ r.review = request[w].review
      BY <1>2, Known, RequestFields
    <2> HIDE DEF r, copy
    <2> QED BY <1>1, <1>2, <1>3, <2>1, Known, QuietStep DEF Sound
  <1>4. CASE Done(w)
    BY <1>1, <1>2, <1>4, LastStep
  <1> QED BY <1>3, <1>4 DEF SaveReviewResult

LEMMA SaveErrorStep ==
    ASSUME IInv, NEW w \in Workers, SaveError(w)
    PROVE  IInv'
  <1>1. store' \in SnapshotType /\ store'.phase = "error"
    BY Known, SnapshotFields DEF SaveError, Phases
  <1> QED BY <1>1, LastStep DEF SaveError

LEMMA GetApprovedPayloadStep ==
    ASSUME IInv, NEW w \in Workers, GetApprovedPayload(w)
    PROVE  IInv'
  <1> DEFINE r == [request[w] EXCEPT !.review = review]
  <1>1. /\ UNCHANGED <<store, review, report, runs, row, approvals, received>>
        /\ received \in 0..MaxRequests
        /\ "failed" \in Places \ {"executing", "persisted"} /\ "executing" \in Places
    BY DEF GetApprovedPayload, Places, IInv, TypeOK
  <1>2. CASE Goes(w, "failed", request[w])
    BY <1>1, <1>2, Known, QuietStep DEF Sound
  <1>3. CASE review.at = "approved" /\ Goes(w, "executing", r)
    <2>1. r \in RequestType /\ r.review = review
      BY Known, RequestFields
    <2> HIDE DEF r
    <2>2. /\ request' \in [Workers -> RequestType]
          /\ request'[w].at = "executing" /\ request'[w].review = review
          /\ \A v \in Workers : v # w => request'[v] = request[v]
      BY <1>1, <1>3, <2>1, Known, PlacedTyped DEF Goes, RequestType
    <2>3. Sound(review)' /\ Sound(request[w].review)'
      BY <1>1, <2>2, Known DEF Sound
    <2>4. CheckpointsAreSound' /\ RepliesFit' /\ ExecutingIsApproved' /\ PersistedHasRow'
      BY <1>1, <1>3, <2>2, <2>3, MovesOn DEF IInv
    <2>5. TypeOK' /\ ExecutedWasApproved' /\ ShownHasRow'
      BY <1>1, <2>2 DEF IInv, TypeOK, ExecutedWasApproved, ShownHasRow
    <2> QED BY <2>4, <2>5 DEF IInv
  <1> QED BY <1>2, <1>3 DEF GetApprovedPayload

\* What is appended to the runs is the round of an approved checkpoint.
LEMMA ExecuteDraftStep ==
    ASSUME IInv, NEW w \in Workers, ExecuteDraft(w)
    PROVE  IInv'
  <1> DEFINE r == [request[w] EXCEPT !.run = Len(runs')]
  <1>1. /\ UNCHANGED <<store, review, report, row, approvals, received>>
        /\ received \in 0..MaxRequests
        /\ "failed" \in Places \ {"executing", "persisted"}
        /\ "executed" \in Places \ {"executing", "persisted"}
    BY DEF ExecuteDraft, Places, IInv, TypeOK
  <1>2. CASE Goes(w, "failed", request[w]) /\ UNCHANGED runs
    BY <1>1, <1>2, Known, QuietStep DEF Sound
  <1>3. CASE /\ runs' = Append(runs, request[w].review.round)
             /\ Goes(w, "executed", r) \/ Goes(w, "failed", request[w])
    <2>1. request[w].review.round \in approvals
      BY Known DEF ExecuteDraft, IInv, ExecutingIsApproved, Sound
    <2>2. runs' \in Seq(Rounds) /\ Len(runs') \in Runs
      BY <1>3, Known DEF Runs
    <2>3. ExecutedWasApproved'
      <3>1. \A i \in DOMAIN runs : runs[i] \in approvals
        BY DEF IInv, ExecutedWasApproved
      <3>2. DOMAIN runs' = 1..(Len(runs) + 1) /\ DOMAIN runs = 1..Len(runs)
        BY <1>3, Known
      <3>3. \A i \in DOMAIN runs' :
               runs'[i] = IF i = Len(runs) + 1 THEN request[w].review.round ELSE runs[i]
        BY <1>3, <3>2, Known
      <3> QED BY <1>1, <2>1, <3>1, <3>2, <3>3, Known DEF ExecutedWasApproved
    <2>4. PICK q \in RequestType, p \in {"executed", "failed"} :
            Goes(w, p, q) /\ q.review = request[w].review
      <3>1. r \in RequestType /\ r.review = request[w].review /\ request[w] \in RequestType
        BY <2>2, Known, RequestFields
      <3> HIDE DEF r
      <3> QED BY <1>3, <3>1
    <2>5. /\ request' \in [Workers -> RequestType]
          /\ request'[w].at = p /\ request'[w].review = request[w].review
          /\ \A v \in Workers : v # w => request'[v] = request[v]
      BY <1>1, <2>4, Known, PlacedTyped DEF Goes, RequestType
    <2>6. Sound(review)' /\ Sound(request[w].review)'
      BY <1>1, <2>5, Known DEF Sound
    <2>7. CheckpointsAreSound' /\ RepliesFit' /\ ExecutingIsApproved' /\ PersistedHasRow'
      BY <1>1, <2>5, <2>6, MovesOn DEF IInv
    <2>8. TypeOK' /\ ShownHasRow'
      BY <1>1, <2>2, <2>5 DEF IInv, TypeOK, ShownHasRow
    <2> QED BY <2>3, <2>7, <2>8 DEF IInv
  <1> QED BY <1>2, <1>3 DEF ExecuteDraft

LEMMA OpenReportStep ==
    ASSUME IInv, NEW w \in Workers, OpenReport(w)
    PROVE  IInv'
  <1>1. /\ UNCHANGED <<store, review, runs, row, approvals, received>>
        /\ Goes(w, "opened", request[w])
        /\ received \in 0..MaxRequests
        /\ "opened" \in Places \ {"executing", "persisted"}
    BY DEF OpenReport, Places, IInv, TypeOK
  <1>2. report' \in ReportType
    BY Known DEF OpenReport, ReportType
  <1> QED BY <1>1, <1>2, Known, QuietStep DEF Sound

LEMMA SaveRunStep ==
    ASSUME IInv, NEW w \in Workers, SaveRun(w)
    PROVE  IInv'
  <1>1. store' \in SnapshotType /\ store'.phase = "report_interaction"
    BY Known DEF SaveRun, SnapshotType, Phases
  <1> QED BY <1>1, LastStep DEF SaveRun

LEMMA LoadReportStep ==
    ASSUME IInv, NEW w \in Workers, LoadReport(w)
    PROVE  IInv'
  <1> DEFINE r == [request[w] EXCEPT !.report = report]
  <1>1. r \in RequestType /\ r.review = request[w].review /\ r.does = request[w].does
    BY Known DEF RequestType
  <1>2. "turned" \in Places \ {"executing", "persisted"} /\ request[w].does \in ReportActions
    BY DEF Places, LoadReport, IInv, RepliesFit
  <1>3. Goes(w, "turned", r) /\ UNCHANGED <<store, review, report, runs, row, approvals, received>>
    BY DEF LoadReport
  <1>4. received \in 0..MaxRequests
    BY DEF IInv, TypeOK
  <1> HIDE DEF r
  <1> QED BY <1>1, <1>2, <1>3, <1>4, Known, QuietStep DEF Sound

LEMMA TakeTurnStep ==
    ASSUME IInv, NEW w \in Workers, TakeTurn(w)
    PROVE  IInv'
  <1>1. /\ UNCHANGED <<store, review, runs, row, approvals, received>>
        /\ Goes(w, "reported", request[w])
        /\ received \in 0..MaxRequests
        /\ "reported" \in Places \ {"executing", "persisted"}
    BY DEF TakeTurn, Places, IInv, TypeOK
  <1>2. request[w].does \in ReportActions
    BY DEF TakeTurn, IInv, RepliesFit
  <1>3. report' \in ReportType
    BY <1>2, Known DEF TakeTurn, AfterTurn, ReportType, ReportActions, Outcomes
  <1> QED BY <1>1, <1>3, Known, QuietStep DEF Sound

LEMMA ReadReportStep ==
    ASSUME IInv, NEW w \in Workers, ReadReport(w)
    PROVE  IInv'
  <1> DEFINE r == [request[w] EXCEPT !.report = report]
  <1>1. /\ UNCHANGED <<store, review, report, runs, approvals, received>>
        /\ "failed" \in Places /\ "persisted" \in Places
    BY DEF ReadReport, Places
  <1>2. r \in RequestType /\ r.review = request[w].review /\ r.report = report
        /\ r.copy = request[w].copy
    BY Known DEF RequestType
  <1>3. PICK p \in {"failed", "persisted"} :
          /\ Goes(w, p, r)
          /\ p = "persisted" /\ report.at = "finalized" => row' # {}
    BY DEF ReadReport
  <1>4. row' \subseteq Row /\ (\A x, y \in row' : x = y) /\ (row # {} => row' # {})
    <2>1. row' = row \/ row' = {[run |-> r.copy.run, report |-> report.run]}
      BY DEF ReadReport
    <2>2. [run |-> r.copy.run, report |-> report.run] \in Row
      BY <1>2, Known DEF Row, SnapshotType, ReportType
    <2>3. row \subseteq Row /\ \A x, y \in row : x = y
      BY DEF IInv, TypeOK
    <2> QED BY <2>1, <2>2, <2>3
  <1> HIDE DEF r
  <1>5. /\ request' \in [Workers -> RequestType]
        /\ request'[w].at = p /\ request'[w].review = r.review /\ request'[w].report = report
        /\ \A v \in Workers : v # w => request'[v] = request[v]
    BY <1>1, <1>2, <1>3, Known, PlacedTyped DEF Goes, RequestType
  <1>6. Sound(review)' /\ Sound(request[w].review)'
    BY <1>1, <1>2, <1>5, Known DEF Sound
  <1>7. CheckpointsAreSound' /\ RepliesFit' /\ ExecutingIsApproved' /\ PersistedHasRow'
    BY <1>1, <1>3, <1>4, <1>5, <1>6, MovesOn DEF IInv
  <1>8. TypeOK' /\ ExecutedWasApproved' /\ ShownHasRow'
    BY <1>1, <1>4, <1>5 DEF IInv, TypeOK, ExecutedWasApproved, ShownHasRow
  <1> QED BY <1>7, <1>8 DEF IInv

LEMMA SaveReportStep ==
    ASSUME IInv, NEW w \in Workers, SaveReport(w)
    PROVE  IInv'
  <1> DEFINE at == request[w].report.at
             p  == IF at \in Outcomes THEN at ELSE "report_interaction"
  <1>1. store' = [request[w].copy EXCEPT !.phase = p] /\ p \in Phases
    BY DEF SaveReport, Phases
  <1>2. store' \in SnapshotType /\ store'.phase = p
    BY <1>1, Known, SnapshotFields
  <1>3. p = "finalized" => row # {}
    BY DEF SaveReport, IInv, PersistedHasRow
  <1> QED BY <1>2, <1>3, LastStep DEF SaveReport

-----------------------------------------------------------------------------
LEMMA InitInv == Init => IInv
  <1> SUFFICES ASSUME Init PROVE IInv
    OBVIOUS
  <1>1. \A w \in Workers : request[w] = Idle
    BY DEF Init
  <1>2. Idle.copy \in SnapshotType /\ Idle.review \in ReviewType
        /\ Idle.report \in ReportType /\ Idle.copy.phase = "pending_review"
    BY IdleTyped, RequestFields DEF Idle
  <1>3. TypeOK
    BY <1>2, IdleTyped, BoundsAssumption DEF Init, TypeOK
  <1>4. CheckpointsAreSound /\ RepliesFit /\ ExecutingIsApproved /\ PersistedHasRow
    BY <1>1, IdleIsSound DEF CheckpointsAreSound, RepliesFit, ExecutingIsApproved,
                             PersistedHasRow, Init, Sound
  <1>5. ExecutedWasApproved /\ ShownHasRow
    BY <1>2 DEF Init, ExecutedWasApproved, ShownHasRow
  <1> QED BY <1>3, <1>4, <1>5 DEF IInv

LEMMA StepInv == IInv /\ [Next]_vars => IInv'
  <1> SUFFICES ASSUME IInv, [Next]_vars PROVE IInv'
    OBVIOUS
  <1>1. CASE UNCHANGED vars
    BY <1>1 DEF vars, IInv, TypeOK, CheckpointsAreSound, Sound, RepliesFit,
                ExecutingIsApproved, PersistedHasRow, ExecutedWasApproved, ShownHasRow
  <1>2. ASSUME NEW w \in Workers, Receive(w) \/ Serve(w)
        PROVE  IInv'
    BY <1>2, ReceiveStep, LoadReviewStep, PassGateStep, RunNodeStep, SaveReviewResultStep,
       SaveErrorStep, GetApprovedPayloadStep, ExecuteDraftStep, OpenReportStep, SaveRunStep,
       LoadReportStep, TakeTurnStep, ReadReportStep, SaveReportStep
       DEF Serve
  <1> QED BY <1>1, <1>2 DEF Next

\* In every state of any number of concurrent requests the invariant holds.
THEOREM Invariant == Spec => []IInv
  <1> QED BY InitInv, StepInv, PTL DEF Spec

\* The types hold with any number of workers and of requests.
THEOREM TypeCorrect == Spec => []TypeOK
  <1>1. IInv => TypeOK
    BY DEF IInv
  <1> QED BY <1>1, Invariant, PTL

\* However the requests of a thread are interleaved, no draft is executed that no user
\* approved.
THEOREM ExecutedWasApprovedThm == Spec => []ExecutedWasApproved
  <1>1. IInv => ExecutedWasApproved
    BY DEF IInv
  <1> QED BY <1>1, Invariant, PTL

-----------------------------------------------------------------------------
(* The runs that are referred to *)

\* What a request carries from one step to the next names runs that were executed.
RefersToRuns(r) ==
    /\ r.at \in {"executed", "opened"} => r.run \in DOMAIN runs
    /\ r.at \in {"turning", "turned", "reported", "persisted"} => r.copy.run \in DOMAIN runs
    /\ r.report.at # "absent" => r.report.run \in DOMAIN runs

\* So does what is stored, whoever stored it.
RunsAreExecuted ==
    /\ store.phase \in {"report_interaction", "rerun_requested", "finalized"}
           => store.run \in DOMAIN runs
    /\ report.at # "absent" => report.run \in DOMAIN runs
    /\ \A r \in row : {r.run, r.report} \subseteq DOMAIN runs
    /\ \A w \in Workers : RefersToRuns(request[w])

StoredInv == RunsAreExecuted /\ ApprovedHasItsWorker

\* Request w goes on at p with what r says; the other requests stay where they are.
LEMMA Placed ==
    ASSUME request \in [Workers -> RequestType], NEW w \in Workers,
           NEW r \in RequestType, NEW p \in Places, Goes(w, p, r)
    PROVE  /\ request'[w].at = p /\ request'[w].does = r.does /\ request'[w].copy = r.copy
           /\ request'[w].review = r.review /\ request'[w].report = r.report
           /\ request'[w].run = r.run
           /\ \A v \in Workers : v # w => request'[v] = request[v]
  <1>1. request'[w] = [r EXCEPT !.at = p]
        /\ \A v \in Workers : v # w => request'[v] = request[v]
    BY DEF Goes
  <1> QED BY <1>1 DEF RequestType

\* A request that learns one thing still knows the others.
LEMMA Learns ==
    ASSUME NEW r \in RequestType
    PROVE  /\ \A c \in SnapshotType :
                 LET q == [r EXCEPT !.copy = c]
                 IN  /\ q \in RequestType /\ q.copy = c /\ q.does = r.does
                     /\ q.review = r.review /\ q.report = r.report /\ q.run = r.run
           /\ \A c \in ReviewType :
                 LET q == [r EXCEPT !.review = c]
                 IN  /\ q \in RequestType /\ q.review = c /\ q.does = r.does
                     /\ q.copy = r.copy /\ q.report = r.report /\ q.run = r.run
           /\ \A c \in ReportType :
                 LET q == [r EXCEPT !.report = c]
                 IN  /\ q \in RequestType /\ q.report = c /\ q.does = r.does
                     /\ q.copy = r.copy /\ q.review = r.review /\ q.run = r.run
           /\ \A c \in Runs :
                 LET q == [r EXCEPT !.run = c]
                 IN  /\ q \in RequestType /\ q.run = c /\ q.does = r.does
                     /\ q.copy = r.copy /\ q.review = r.review /\ q.report = r.report
  BY DEF RequestType

OthersStay(w) == \A v \in Workers : v # w => request'[v] = request[v]

\* Worker w is now at p with these.
Carries(w, p, copy, checkpoint, session, run) ==
    /\ request'[w].at = p /\ request'[w].does = request[w].does
    /\ request'[w].copy = copy /\ request'[w].review = checkpoint
    /\ request'[w].report = session /\ request'[w].run = run
    /\ OthersStay(w)

\* It only moves on.
Moves(w, p) == Carries(w, p, request[w].copy, request[w].review, request[w].report,
                       request[w].run)

Ends(w) == request'[w] = Idle /\ OthersStay(w)

LEMMA MovesTo ==
    ASSUME IInv, NEW w \in Workers, NEW p \in Places, Goes(w, p, request[w])
    PROVE  Moves(w, p)
  BY Known, Placed DEF Moves, Carries, OthersStay

LEMMA EndsIt == ASSUME IInv, NEW w \in Workers, Done(w) PROVE Ends(w)
  BY Known, IsDone DEF Ends, OthersStay

LEMMA ReceiveDoes ==
    ASSUME IInv, NEW w \in Workers, Receive(w)
    PROVE  /\ UNCHANGED <<store, review, report, runs, row, approvals>>
           /\ request[w].at = "idle" /\ OthersStay(w)
           /\ request'[w].copy = store /\ request'[w].report = Idle.report
           /\ \/ request'[w].at = "read" /\ store.phase = "pending_review"
              \/ request'[w].at = "turning"
                 /\ store.phase \in {"report_interaction", "rerun_requested"}
  <1>1. \A does \in ReviewActions \cup ReportActions :
           LET r == [Idle EXCEPT !.copy = store, !.does = does]
           IN  r \in RequestType /\ r.copy = store /\ r.report = Idle.report
    BY IdleTyped, Known DEF RequestType
  <1>2. PICK r \in RequestType, p \in {"read", "turning"} :
          /\ Goes(w, p, r) /\ r.copy = store /\ r.report = Idle.report
          /\ p = "read" => store.phase = "pending_review"
          /\ p = "turning" => store.phase \in {"report_interaction", "rerun_requested"}
    BY <1>1 DEF Receive
  <1>3. p \in Places
    BY DEF Places
  <1>4. request'[w].at = p /\ request'[w].copy = r.copy /\ request'[w].report = r.report
        /\ OthersStay(w)
    BY <1>2, <1>3, Known, Placed DEF OthersStay
  <1> QED BY <1>2, <1>4 DEF Receive

LEMMA LoadReviewDoes ==
    ASSUME IInv, NEW w \in Workers, LoadReview(w)
    PROVE  /\ UNCHANGED <<store, review, report, runs, row, approvals>>
           /\ request[w].at = "read"
           /\ Carries(w, "loaded", request[w].copy, review, request[w].report, request[w].run)
  <1> DEFINE r == [request[w] EXCEPT !.review = review]
  <1>1. r \in RequestType /\ r.review = review /\ r.does = request[w].does
        /\ r.copy = request[w].copy /\ r.report = request[w].report /\ r.run = request[w].run
    BY Known, Learns
  <1>2. "loaded" \in Places /\ Goes(w, "loaded", r)
    BY DEF Places, LoadReview
  <1> HIDE DEF r
  <1>3. Carries(w, "loaded", request[w].copy, review, request[w].report, request[w].run)
    BY <1>1, <1>2, Known, Placed DEF Carries, OthersStay
  <1> QED BY <1>3 DEF LoadReview

LEMMA PassGateDoes ==
    ASSUME IInv, NEW w \in Workers, PassGate(w)
    PROVE  /\ UNCHANGED <<store, report, runs, row>>
           /\ request[w].at = "loaded"
           /\ \/ /\ request[w].review.at = "waiting"
                 /\ review'.at = request[w].does /\ review'.at \in ReviewActions
                 /\ Carries(w, "passed", request[w].copy, review', request[w].report,
                            request[w].run)
              \/ /\ request[w].review.at \in ReviewActions /\ Moves(w, "passed")
                 /\ UNCHANGED review
              \/ /\ request[w].review.at \in ReviewOutcomes /\ Moves(w, "resumed")
                 /\ UNCHANGED review
  <1> DEFINE r == [request[w] EXCEPT !.review = review']
  <1>1. /\ UNCHANGED <<store, report, runs, row>> /\ request[w].at = "loaded"
        /\ request[w].does \in ReviewActions /\ "passed" \in Places /\ "resumed" \in Places
    BY DEF PassGate, Places, IInv, RepliesFit
  <1>2. CASE /\ request[w].review.at = "waiting"
             /\ review' = [request[w].review EXCEPT !.at = request[w].does]
             /\ Goes(w, "passed", r)
    <2>1. review' \in ReviewType /\ review'.at = request[w].does
      BY <1>1, <1>2, Known, ReviewFields
    <2>2. r \in RequestType /\ r.review = review' /\ r.does = request[w].does
          /\ r.copy = request[w].copy /\ r.report = request[w].report
          /\ r.run = request[w].run
      BY <2>1, Known, Learns
    <2> HIDE DEF r
    <2>3. Carries(w, "passed", request[w].copy, review', request[w].report, request[w].run)
      BY <1>1, <1>2, <2>2, Known, Placed DEF Carries, OthersStay
    <2> QED BY <1>1, <1>2, <2>1, <2>3
  <1>3. CASE /\ UNCHANGED review /\ request[w].review.at \in ReviewActions
             /\ Goes(w, "passed", request[w])
    BY <1>1, <1>3, MovesTo
  <1>4. CASE /\ UNCHANGED review /\ request[w].review.at \in ReviewOutcomes
             /\ Goes(w, "resumed", request[w])
    BY <1>1, <1>4, MovesTo
  <1> QED BY <1>2, <1>3, <1>4 DEF PassGate

LEMMA RunNodeDoes ==
    ASSUME IInv, NEW w \in Workers, RunNode(w)
    PROVE  /\ UNCHANGED <<store, report, runs, row, approvals>>
           /\ request[w].at = "passed"
           /\ \/ Moves(w, "resumed") /\ review'.at \in {"waiting"} \cup ReviewOutcomes
              \/ Moves(w, "failed") /\ UNCHANGED review
  <1>1. /\ UNCHANGED <<store, report, runs, row, approvals>> /\ request[w].at = "passed"
        /\ "failed" \in Places /\ "resumed" \in Places
    BY DEF RunNode, Places
  <1>2. CASE Goes(w, "failed", request[w]) /\ UNCHANGED review
    BY <1>1, <1>2, MovesTo
  <1>3. CASE /\ \/ review' = [request[w].review EXCEPT !.at = "approved"]
                \/ review' = [request[w].review EXCEPT !.at = "cancelled"]
                \/ review' = [at |-> "waiting", round |-> request[w].review.round + 1]
             /\ Goes(w, "resumed", request[w])
    <2>1. \A a \in ReviewOutcomes : [request[w].review EXCEPT !.at = a].at = a
      BY Known, ReviewFields
    <2>2. review'.at \in {"waiting", "approved", "cancelled"}
      <3>1. CASE review' = [request[w].review EXCEPT !.at = "approved"]
        BY <2>1, <3>1 DEF ReviewOutcomes
      <3>2. CASE review' = [request[w].review EXCEPT !.at = "cancelled"]
        BY <2>1, <3>2 DEF ReviewOutcomes
      <3>3. CASE review' = [at |-> "waiting", round |-> request[w].review.round + 1]
        BY <3>3
      <3> QED BY <1>3, <3>1, <3>2, <3>3
    <2>3. review'.at \in {"waiting"} \cup ReviewOutcomes
      BY <2>2 DEF ReviewOutcomes
    <2> QED BY <1>1, <1>3, <2>3, MovesTo
  <1> QED BY <1>2, <1>3 DEF RunNode

LEMMA SaveReviewResultDoes ==
    ASSUME IInv, NEW w \in Workers, SaveReviewResult(w)
    PROVE  /\ UNCHANGED <<review, report, runs, row, approvals>>
           /\ request[w].at = "resumed" /\ store'.phase = ReviewPhase
           /\ \/ /\ store'.phase = "approved"
                 /\ Carries(w, "approved", store', request[w].review, request[w].report,
                            request[w].run)
              \/ store'.phase # "approved" /\ Ends(w)
  <1> DEFINE copy == [phase |-> ReviewPhase, run |-> 0]
             r    == [request[w] EXCEPT !.copy = copy]
  <1>1. copy \in SnapshotType /\ copy.phase = ReviewPhase
    BY Known DEF ReviewPhase, SnapshotType, Phases, ReviewOutcomes, Outcomes, Runs
  <1>2. store' = copy /\ "approved" \in Places
    BY DEF SaveReviewResult, Places
  <1>3. CASE copy.phase = "approved" /\ Goes(w, "approved", r)
    <2>1. r \in RequestType /\ r.review = request[w].review /\ r.does = request[w].does
          /\ r.copy = copy /\ r.report = request[w].report /\ r.run = request[w].run
      BY <1>1, Known, Learns
    <2> HIDE DEF r, copy
    <2>2. Carries(w, "approved", copy, request[w].review, request[w].report, request[w].run)
      BY <1>2, <1>3, <2>1, Known, Placed DEF Carries, OthersStay
    <2> QED BY <1>1, <1>2, <1>3, <2>2 DEF SaveReviewResult
  <1>4. CASE copy.phase # "approved" /\ Done(w)
    BY <1>1, <1>2, <1>4, EndsIt DEF SaveReviewResult
  <1> QED BY <1>3, <1>4 DEF SaveReviewResult

LEMMA SaveErrorDoes ==
    ASSUME IInv, NEW w \in Workers, SaveError(w)
    PROVE  /\ UNCHANGED <<review, report, runs, row, approvals>>
           /\ request[w].at = "failed" /\ store'.phase = "error" /\ Ends(w)
  <1>1. store'.phase = "error"
    BY Known, SnapshotFields DEF SaveError, Phases
  <1> QED BY <1>1, EndsIt DEF SaveError

LEMMA GetApprovedPayloadDoes ==
    ASSUME IInv, NEW w \in Workers, GetApprovedPayload(w)
    PROVE  /\ UNCHANGED <<store, review, report, runs, row, approvals>>
           /\ request[w].at = "approved"
           /\ \/ /\ review.at = "approved"
                 /\ Carries(w, "executing", request[w].copy, review, request[w].report,
                            request[w].run)
              \/ review.at # "approved" /\ Moves(w, "failed")
  <1> DEFINE r == [request[w] EXCEPT !.review = review]
  <1>1. r \in RequestType /\ r.review = review /\ r.does = request[w].does
        /\ r.copy = request[w].copy /\ r.report = request[w].report /\ r.run = request[w].run
    BY Known, Learns
  <1>2. "executing" \in Places /\ "failed" \in Places
    BY DEF Places
  <1>3. \/ review.at = "approved" /\ Goes(w, "executing", r)
        \/ review.at # "approved" /\ Goes(w, "failed", request[w])
    BY DEF GetApprovedPayload
  <1> HIDE DEF r
  <1>4. ASSUME Goes(w, "executing", r)
        PROVE  Carries(w, "executing", request[w].copy, review, request[w].report,
                       request[w].run)
    BY <1>1, <1>2, <1>4, Known, Placed DEF Carries, OthersStay
  <1>5. UNCHANGED <<store, review, report, runs, row, approvals>> /\ request[w].at = "approved"
    BY DEF GetApprovedPayload
  <1> QED BY <1>2, <1>3, <1>4, <1>5, MovesTo

LEMMA ExecuteDraftDoes ==
    ASSUME IInv, NEW w \in Workers, ExecuteDraft(w)
    PROVE  /\ UNCHANGED <<store, review, report, row, approvals>>
           /\ request[w].at = "executing"
           /\ \/ /\ runs' = Append(runs, request[w].review.round)
                 /\ Carries(w, "executed", request[w].copy, request[w].review,
                            request[w].report, Len(runs) + 1)
              \/ /\ runs' = Append(runs, request[w].review.round) /\ Moves(w, "failed")
              \/ UNCHANGED runs /\ Moves(w, "failed")
  <1> DEFINE r == [request[w] EXCEPT !.run = Len(runs')]
  <1>1. "executed" \in Places /\ "failed" \in Places
    BY DEF Places
  <1>2. ASSUME runs' = Append(runs, request[w].review.round), Goes(w, "executed", r)
        PROVE  Carries(w, "executed", request[w].copy, request[w].review,
                       request[w].report, Len(runs) + 1)
    <2>1. Len(runs') \in Runs /\ Len(runs') = Len(runs) + 1
      BY <1>2, Known DEF Runs
    <2>2. r \in RequestType /\ r.run = Len(runs') /\ r.review = request[w].review
          /\ r.does = request[w].does /\ r.copy = request[w].copy
          /\ r.report = request[w].report
      BY <2>1, Known, Learns
    <2>3. Goes(w, "executed", r)
      BY <1>2
    <2> HIDE DEF r
    <2> QED BY <1>1, <2>1, <2>2, <2>3, Known, Placed DEF Carries, OthersStay
  <1>3. /\ UNCHANGED <<store, review, report, row, approvals>> /\ request[w].at = "executing"
        /\ \/ runs' = Append(runs, request[w].review.round) /\ Goes(w, "executed", r)
           \/ runs' = Append(runs, request[w].review.round) /\ Goes(w, "failed", request[w])
           \/ UNCHANGED runs /\ Goes(w, "failed", request[w])
    BY DEF ExecuteDraft
  <1> HIDE DEF r
  <1> QED BY <1>1, <1>2, <1>3, MovesTo

LEMMA OpenReportDoes ==
    ASSUME IInv, NEW w \in Workers, OpenReport(w)
    PROVE  /\ UNCHANGED <<store, review, runs, row, approvals>>
           /\ request[w].at = "executed"
           /\ report' = [at |-> "waiting", run |-> request[w].run] /\ Moves(w, "opened")
  <1>1. "opened" \in Places
    BY DEF Places
  <1> QED BY <1>1, MovesTo DEF OpenReport

LEMMA SaveRunDoes ==
    ASSUME IInv, NEW w \in Workers, SaveRun(w)
    PROVE  /\ UNCHANGED <<review, report, runs, row, approvals>>
           /\ request[w].at = "opened" /\ Ends(w)
           /\ store' = [phase |-> "report_interaction", run |-> request[w].run]
  BY EndsIt DEF SaveRun

LEMMA LoadReportDoes ==
    ASSUME IInv, NEW w \in Workers, LoadReport(w)
    PROVE  /\ UNCHANGED <<store, review, report, runs, row, approvals>>
           /\ request[w].at = "turning"
           /\ Carries(w, "turned", request[w].copy, request[w].review, report, request[w].run)
  <1> DEFINE r == [request[w] EXCEPT !.report = report]
  <1>1. r \in RequestType /\ r.review = request[w].review /\ r.does = request[w].does
        /\ r.copy = request[w].copy /\ r.report = report /\ r.run = request[w].run
    BY Known, Learns
  <1>2. "turned" \in Places /\ Goes(w, "turned", r)
    BY DEF Places, LoadReport
  <1> HIDE DEF r
  <1>3. Carries(w, "turned", request[w].copy, request[w].review, report, request[w].run)
    BY <1>1, <1>2, Known, Placed DEF Carries, OthersStay
  <1> QED BY <1>3 DEF LoadReport

LEMMA TakeTurnDoes ==
    ASSUME IInv, NEW w \in Workers, TakeTurn(w)
    PROVE  /\ UNCHANGED <<store, review, runs, row, approvals>>
           /\ request[w].at = "turned" /\ Moves(w, "reported")
           /\ \/ /\ request[w].report.at = "waiting" /\ report'.run = request[w].report.run
                 /\ report'.at \in {"waiting"} \cup Outcomes
              \/ request[w].report.at # "waiting" /\ UNCHANGED report
  <1>1. "reported" \in Places /\ request[w].does \in ReportActions
    BY DEF Places, TakeTurn, IInv, RepliesFit
  <1>2. ASSUME request[w].report.at = "waiting"
        PROVE  report'.run = request[w].report.run /\ report'.at \in {"waiting"} \cup Outcomes
    BY <1>1, <1>2, Known DEF TakeTurn, AfterTurn, ReportType, ReportActions, Outcomes
  <1> QED BY <1>1, <1>2, MovesTo DEF TakeTurn

LEMMA ReadReportDoes ==
    ASSUME IInv, NEW w \in Workers, ReadReport(w)
    PROVE  /\ UNCHANGED <<store, review, report, runs, approvals>>
           /\ request[w].at = "reported"
           /\ \E p \in {"persisted", "failed"} :
                /\ Carries(w, p, request[w].copy, request[w].review, report, request[w].run)
                /\ p = "persisted" => row' = IF report.at = "finalized"
                                             THEN {[run    |-> request[w].copy.run,
                                                    report |-> report.run]}
                                             ELSE row
                /\ p = "failed" => row' = row /\ report.at = "finalized"
  <1> DEFINE r == [request[w] EXCEPT !.report = report]
  <1>1. r \in RequestType /\ r.review = request[w].review /\ r.does = request[w].does
        /\ r.copy = request[w].copy /\ r.report = report /\ r.run = request[w].run
    BY Known, Learns
  <1>2. PICK p \in {"persisted", "failed"} :
          /\ Goes(w, p, r)
          /\ p = "persisted" => row' = IF report.at = "finalized"
                                       THEN {[run |-> r.copy.run, report |-> report.run]}
                                       ELSE row
          /\ p = "failed" => row' = row /\ report.at = "finalized"
    BY DEF ReadReport
  <1>3. p \in Places
    BY DEF Places
  <1> HIDE DEF r
  <1>4. Carries(w, p, request[w].copy, request[w].review, report, request[w].run)
    BY <1>1, <1>2, <1>3, Known, Placed DEF Carries, OthersStay
  <1> QED BY <1>1, <1>2, <1>4 DEF ReadReport

LEMMA SaveReportDoes ==
    ASSUME IInv, NEW w \in Workers, SaveReport(w)
    PROVE  /\ UNCHANGED <<review, report, runs, row, approvals>>
           /\ request[w].at = "persisted" /\ Ends(w)
           /\ store'.phase = IF request[w].report.at \in Outcomes THEN request[w].report.at
                             ELSE "report_interaction"
           /\ store'.run = request[w].copy.run
  <1>1. request[w].copy \in SnapshotType
    BY Known
  <1> QED BY <1>1, EndsIt DEF SaveReport, SnapshotType

-----------------------------------------------------------------------------
(* Whatever the interleaving: what is stored names runs that were executed, and the *)
(* phase "approved" has a request that will leave it                                *)

Pipeline == {"approved", "executing", "executed", "opened", "failed"}

LEMMA RunsOnlyGrow ==
    ASSUME IInv, NEW r \in Rounds, \/ runs' = runs
                                  \/ runs' = Append(runs, r)
    PROVE  /\ DOMAIN runs = 1..Len(runs) /\ DOMAIN runs \subseteq DOMAIN runs'
           /\ runs' = Append(runs, r) => Len(runs) + 1 \in DOMAIN runs'
  <1>1. runs \in Seq(Rounds)
    BY DEF IInv, TypeOK
  <1>2. DOMAIN runs = 1..Len(runs) /\ Len(runs) \in Nat
    BY <1>1
  <1>3. CASE runs' = runs
    <2>1. runs # Append(runs, r)
      BY <1>1
    <2> QED BY <1>2, <1>3, <2>1
  <1>4. CASE runs' = Append(runs, r)
    <2>1. DOMAIN runs' = 1..(Len(runs) + 1)
      BY <1>1, <1>4
    <2> QED BY <1>2, <1>4, <2>1
  <1> QED BY <1>3, <1>4

\* A step of worker w keeps the invariant if what it stores and what its request knows
\* is right, and if it does not leave the phase "approved" behind.
LEMMA StoredMoves ==
    ASSUME RunsAreExecuted, ApprovedHasItsWorker, NEW w \in Workers, OthersStay(w),
           DOMAIN runs \subseteq DOMAIN runs',
           store'.phase \in {"report_interaction", "rerun_requested", "finalized"}
               => store'.run \in DOMAIN runs',
           report'.at # "absent" => report'.run \in DOMAIN runs',
           \A r \in row' : {r.run, r.report} \subseteq DOMAIN runs',
           RefersToRuns(request[w])',
           store'.phase = "approved" =>
               \/ request'[w].at \in Pipeline
               \/ store.phase = "approved" /\ request[w].at \notin Pipeline
    PROVE  StoredInv'
  <1>1. ASSUME NEW v \in Workers PROVE RefersToRuns(request[v])'
    <2>1. CASE v = w
      BY <2>1
    <2>2. CASE v # w
      BY <2>2 DEF RunsAreExecuted, RefersToRuns, OthersStay
    <2> QED BY <2>1, <2>2
  <1>2. RunsAreExecuted'
    BY <1>1 DEF RunsAreExecuted
  <1>3. ApprovedHasItsWorker'
    BY DEF ApprovedHasItsWorker, OthersStay, Pipeline
  <1> QED BY <1>2, <1>3 DEF StoredInv

\* A step that stores nothing and moves a request on, which refers to the same runs.
LEMMA StoredQuiet ==
    ASSUME IInv, StoredInv, NEW w \in Workers, NEW p, NEW c,
           Carries(w, p, request[w].copy, c, request[w].report, request[w].run),
           UNCHANGED <<store, report, row>>,
           \/ runs' = runs
           \/ runs' = Append(runs, request[w].review.round),
           p \in {"executed", "opened"} => request[w].at \in {"executed", "opened"},
           p \in {"turning", "turned", "reported", "persisted"}
               => request[w].at \in {"turning", "turned", "reported", "persisted"},
           request[w].at \in Pipeline => p \in Pipeline
    PROVE  StoredInv'
  <1>1. RunsAreExecuted /\ ApprovedHasItsWorker /\ RefersToRuns(request[w])
    BY DEF StoredInv, RunsAreExecuted
  <1>2. DOMAIN runs \subseteq DOMAIN runs'
    BY Known, RunsOnlyGrow
  <1>3. RefersToRuns(request[w])'
    BY <1>1, <1>2 DEF RefersToRuns, Carries
  <1>4. /\ store'.phase \in {"report_interaction", "rerun_requested", "finalized"}
             => store'.run \in DOMAIN runs'
        /\ report'.at # "absent" => report'.run \in DOMAIN runs'
        /\ \A r \in row' : {r.run, r.report} \subseteq DOMAIN runs'
    BY <1>1, <1>2 DEF RunsAreExecuted
  <1>5. store'.phase = "approved" =>
            \/ request'[w].at \in Pipeline
            \/ store.phase = "approved" /\ request[w].at \notin Pipeline
    BY DEF Carries
  <1>6. OthersStay(w)
    BY DEF Carries
  <1> QED BY <1>1, <1>2, <1>3, <1>4, <1>5, <1>6, StoredMoves

\* A step that saves another phase than "approved" and answers.
LEMMA StoredEnds ==
    ASSUME IInv, StoredInv, NEW w \in Workers, Ends(w),
           UNCHANGED <<report, runs, row>>, store'.phase # "approved",
           store'.phase \in {"report_interaction", "rerun_requested", "finalized"}
               => store'.run \in DOMAIN runs
    PROVE  StoredInv'
  <1>1. RunsAreExecuted /\ ApprovedHasItsWorker /\ OthersStay(w)
    BY DEF StoredInv, Ends
  <1>2. RefersToRuns(request[w])'
    BY DEF RefersToRuns, Ends, Idle
  <1>3. /\ report'.at # "absent" => report'.run \in DOMAIN runs'
        /\ \A r \in row' : {r.run, r.report} \subseteq DOMAIN runs'
    BY <1>1 DEF RunsAreExecuted
  <1> QED BY <1>1, <1>2, <1>3, StoredMoves

LEMMA StoredInit == Init => StoredInv
  <1> SUFFICES ASSUME Init PROVE StoredInv
    OBVIOUS
  <1>1. \A w \in Workers : request[w] = Idle
    BY DEF Init
  <1>2. \A w \in Workers : RefersToRuns(request[w])
    BY <1>1 DEF RefersToRuns, Idle
  <1>3. store.phase = "pending_review" /\ report.at = "absent" /\ row = {}
    BY DEF Init, Idle
  <1> QED BY <1>2, <1>3 DEF StoredInv, RunsAreExecuted, ApprovedHasItsWorker

LEMMA StoredReceive ==
    ASSUME IInv, StoredInv, NEW w \in Workers, Receive(w)
    PROVE  StoredInv'
  <1>1. RunsAreExecuted /\ ApprovedHasItsWorker
    BY DEF StoredInv
  <1>2. UNCHANGED <<store, report, runs, row>> /\ OthersStay(w) /\ request[w].at = "idle"
    BY ReceiveDoes
  <1>3. RefersToRuns(request[w])'
    BY <1>1, ReceiveDoes DEF RefersToRuns, RunsAreExecuted, Idle
  <1>4. request[w].at \notin Pipeline
    BY <1>2 DEF Pipeline
  <1>5. /\ store'.phase \in {"report_interaction", "rerun_requested", "finalized"}
             => store'.run \in DOMAIN runs'
        /\ report'.at # "absent" => report'.run \in DOMAIN runs'
        /\ \A r \in row' : {r.run, r.report} \subseteq DOMAIN runs'
    BY <1>1, <1>2 DEF RunsAreExecuted
  <1> QED BY <1>1, <1>2, <1>3, <1>4, <1>5, StoredMoves

LEMMA StoredReview ==
    ASSUME IInv, StoredInv, NEW w \in Workers, LoadReview(w) \/ PassGate(w) \/ RunNode(w)
    PROVE  StoredInv'
  <1>1. CASE LoadReview(w)
    <2>1. /\ UNCHANGED <<store, report, runs, row>> /\ request[w].at = "read"
          /\ Carries(w, "loaded", request[w].copy, review, request[w].report, request[w].run)
      BY <1>1, LoadReviewDoes
    <2> QED BY <2>1, StoredQuiet DEF Pipeline
  <1>2. CASE PassGate(w)
    <2>1. /\ UNCHANGED <<store, report, runs, row>> /\ request[w].at = "loaded"
          /\ \E p \in {"passed", "resumed"}, c \in {review', request[w].review} :
                Carries(w, p, request[w].copy, c, request[w].report, request[w].run)
      BY <1>2, PassGateDoes DEF Moves
    <2> QED BY <2>1, StoredQuiet DEF Pipeline
  <1>3. CASE RunNode(w)
    <2>1. /\ UNCHANGED <<store, report, runs, row>> /\ request[w].at = "passed"
          /\ \E p \in {"resumed", "failed"} :
                Carries(w, p, request[w].copy, request[w].review, request[w].report,
                        request[w].run)
      BY <1>3, RunNodeDoes DEF Moves
    <2> QED BY <2>1, StoredQuiet DEF Pipeline
  <1> QED BY <1>1, <1>2, <1>3

LEMMA StoredSaveReview ==
    ASSUME IInv, StoredInv, NEW w \in Workers, SaveReviewResult(w)
    PROVE  StoredInv'
  <1>1. store'.phase \in {"pending_review", "approved", "cancelled", "error"}
    BY SaveReviewResultDoes DEF ReviewPhase, ReviewOutcomes
  <1>2. UNCHANGED <<report, runs, row>> /\ request[w].at = "resumed"
    BY SaveReviewResultDoes
  <1>3. CASE store'.phase # "approved" /\ Ends(w)
    BY <1>1, <1>2, <1>3, StoredEnds
  <1>4. CASE Carries(w, "approved", store', request[w].review, request[w].report,
                     request[w].run)
    <2>1. RunsAreExecuted /\ ApprovedHasItsWorker /\ RefersToRuns(request[w])
      BY DEF StoredInv, RunsAreExecuted
    <2>2. RefersToRuns(request[w])'
      BY <1>2, <1>4, <2>1 DEF RefersToRuns, Carries
    <2>3. OthersStay(w) /\ request'[w].at \in Pipeline
      BY <1>4 DEF Carries, Pipeline
    <2>4. /\ report'.at # "absent" => report'.run \in DOMAIN runs'
          /\ \A r \in row' : {r.run, r.report} \subseteq DOMAIN runs'
      BY <1>2, <2>1 DEF RunsAreExecuted
    <2>5. store'.phase \notin {"report_interaction", "rerun_requested", "finalized"}
      BY <1>1
    <2>6. DOMAIN runs \subseteq DOMAIN runs'
      BY <1>2
    <2> QED BY <2>1, <2>2, <2>3, <2>4, <2>5, <2>6, StoredMoves
  <1> QED BY <1>3, <1>4, SaveReviewResultDoes

LEMMA StoredPipeline ==
    ASSUME IInv, StoredInv, NEW w \in Workers,
           SaveError(w) \/ GetApprovedPayload(w) \/ ExecuteDraft(w) \/ OpenReport(w)
               \/ SaveRun(w)
    PROVE  StoredInv'
  <1>0. RunsAreExecuted /\ ApprovedHasItsWorker /\ RefersToRuns(request[w])
    BY DEF StoredInv, RunsAreExecuted
  <1>1. CASE SaveError(w)
    <2>1. UNCHANGED <<report, runs, row>> /\ store'.phase = "error" /\ Ends(w)
      BY <1>1, SaveErrorDoes
    <2> QED BY <2>1, StoredEnds
  <1>2. CASE GetApprovedPayload(w)
    <2>1. /\ UNCHANGED <<store, report, runs, row>> /\ request[w].at = "approved"
          /\ \E p \in {"executing", "failed"}, c \in {review, request[w].review} :
                Carries(w, p, request[w].copy, c, request[w].report, request[w].run)
      BY <1>2, GetApprovedPayloadDoes DEF Moves
    <2> QED BY <2>1, StoredQuiet DEF Pipeline
  <1>3. CASE ExecuteDraft(w)
    <2>1. UNCHANGED <<store, report, row>> /\ request[w].at = "executing"
      BY <1>3, ExecuteDraftDoes
    <2>2. ASSUME Moves(w, "failed"),
                 runs' = runs \/ runs' = Append(runs, request[w].review.round)
          PROVE  StoredInv'
      BY <2>1, <2>2, StoredQuiet DEF Moves, Pipeline
    <2>3. CASE /\ runs' = Append(runs, request[w].review.round)
               /\ Carries(w, "executed", request[w].copy, request[w].review,
                          request[w].report, Len(runs) + 1)
      <3>1. DOMAIN runs \subseteq DOMAIN runs' /\ Len(runs) + 1 \in DOMAIN runs'
        BY <2>3, Known, RunsOnlyGrow
      <3>2. RefersToRuns(request[w])'
        BY <1>0, <2>3, <3>1 DEF RefersToRuns, Carries
      <3>3. OthersStay(w) /\ request'[w].at \in Pipeline
        BY <2>3 DEF Carries, Pipeline
      <3>4. /\ store'.phase \in {"report_interaction", "rerun_requested", "finalized"}
                 => store'.run \in DOMAIN runs'
            /\ report'.at # "absent" => report'.run \in DOMAIN runs'
            /\ \A r \in row' : {r.run, r.report} \subseteq DOMAIN runs'
        BY <1>0, <2>1, <3>1 DEF RunsAreExecuted
      <3> QED BY <1>0, <3>1, <3>2, <3>3, <3>4, StoredMoves
    <2> QED BY <1>3, <2>2, <2>3, ExecuteDraftDoes
  <1>4. CASE OpenReport(w)
    <2>1. /\ UNCHANGED <<store, runs, row>> /\ request[w].at = "executed"
          /\ report' = [at |-> "waiting", run |-> request[w].run] /\ Moves(w, "opened")
      BY <1>4, OpenReportDoes
    <2>2. request[w].run \in DOMAIN runs
      BY <1>0, <2>1 DEF RefersToRuns
    <2>3. RefersToRuns(request[w])'
      BY <1>0, <2>1, <2>2 DEF RefersToRuns, Moves, Carries
    <2>4. OthersStay(w) /\ request'[w].at \in Pipeline
      BY <2>1 DEF Moves, Carries, Pipeline
    <2>5. /\ store'.phase \in {"report_interaction", "rerun_requested", "finalized"}
               => store'.run \in DOMAIN runs'
          /\ report'.run \in DOMAIN runs'
          /\ \A r \in row' : {r.run, r.report} \subseteq DOMAIN runs'
      BY <1>0, <2>1, <2>2 DEF RunsAreExecuted
    <2>6. DOMAIN runs \subseteq DOMAIN runs'
      BY <2>1
    <2> QED BY <1>0, <2>3, <2>4, <2>5, <2>6, StoredMoves
  <1>5. CASE SaveRun(w)
    <2>1. /\ UNCHANGED <<report, runs, row>> /\ request[w].at = "opened" /\ Ends(w)
          /\ store'.phase = "report_interaction" /\ store'.run = request[w].run
      BY <1>5, SaveRunDoes
    <2>2. request[w].run \in DOMAIN runs
      BY <1>0, <2>1 DEF RefersToRuns
    <2> QED BY <2>1, <2>2, StoredEnds
  <1> QED BY <1>1, <1>2, <1>3, <1>4, <1>5

LEMMA StoredReport ==
    ASSUME IInv, StoredInv, NEW w \in Workers,
           LoadReport(w) \/ TakeTurn(w) \/ ReadReport(w) \/ SaveReport(w)
    PROVE  StoredInv'
  <1>0. RunsAreExecuted /\ ApprovedHasItsWorker /\ RefersToRuns(request[w])
    BY DEF StoredInv, RunsAreExecuted
  <1>1. CASE LoadReport(w)
    <2>1. /\ UNCHANGED <<store, report, runs, row>> /\ request[w].at = "turning"
          /\ Carries(w, "turned", request[w].copy, request[w].review, report,
                     request[w].run)
      BY <1>1, LoadReportDoes
    <2>2. RefersToRuns(request[w])'
      BY <1>0, <2>1 DEF RefersToRuns, RunsAreExecuted, Carries
    <2>3. OthersStay(w) /\ request[w].at \notin Pipeline
      BY <2>1 DEF Carries, Pipeline
    <2> QED BY <1>0, <2>1, <2>2, <2>3, StoredMoves DEF RunsAreExecuted
  <1>2. CASE TakeTurn(w)
    <2>1. /\ UNCHANGED <<store, runs, row>> /\ request[w].at = "turned"
          /\ Moves(w, "reported")
          /\ \/ request[w].report.at = "waiting" /\ report'.run = request[w].report.run
             \/ UNCHANGED report
      BY <1>2, TakeTurnDoes
    <2>2. report'.at # "absent" => report'.run \in DOMAIN runs'
      BY <1>0, <2>1 DEF RefersToRuns, RunsAreExecuted
    <2>3. RefersToRuns(request[w])'
      BY <1>0, <2>1 DEF RefersToRuns, Moves, Carries
    <2>4. OthersStay(w) /\ request[w].at \notin Pipeline
      BY <2>1 DEF Moves, Carries, Pipeline
    <2> QED BY <1>0, <2>1, <2>2, <2>3, <2>4, StoredMoves DEF RunsAreExecuted
  <1>3. CASE ReadReport(w)
    <2>1. UNCHANGED <<store, report, runs>> /\ request[w].at = "reported"
      BY <1>3, ReadReportDoes
    <2>2. PICK p \in {"persisted", "failed"} :
            /\ Carries(w, p, request[w].copy, request[w].review, report, request[w].run)
            /\ \/ row' = row
               \/ /\ report.at = "finalized"
                  /\ row' = {[run |-> request[w].copy.run, report |-> report.run]}
      BY <1>3, ReadReportDoes
    <2>3. request[w].copy.run \in DOMAIN runs
      BY <1>0, <2>1 DEF RefersToRuns
    <2>4. \A r \in row' : {r.run, r.report} \subseteq DOMAIN runs'
      BY <1>0, <2>1, <2>2, <2>3 DEF RunsAreExecuted
    <2>5. RefersToRuns(request[w])'
      BY <1>0, <2>1, <2>2, <2>3 DEF RefersToRuns, RunsAreExecuted, Carries
    <2>6. OthersStay(w) /\ request[w].at \notin Pipeline
      BY <2>1, <2>2 DEF Carries, Pipeline
    <2> QED BY <1>0, <2>1, <2>4, <2>5, <2>6, StoredMoves DEF RunsAreExecuted
  <1>4. CASE SaveReport(w)
    <2>1. /\ UNCHANGED <<report, runs, row>> /\ request[w].at = "persisted" /\ Ends(w)
          /\ store'.phase # "approved" /\ store'.run = request[w].copy.run
      BY <1>4, SaveReportDoes DEF Outcomes
    <2>2. request[w].copy.run \in DOMAIN runs
      BY <1>0, <2>1 DEF RefersToRuns
    <2> QED BY <2>1, <2>2, StoredEnds
  <1> QED BY <1>1, <1>2, <1>3, <1>4

LEMMA StoredStep == IInv /\ StoredInv /\ [Next]_vars => StoredInv'
  <1> SUFFICES ASSUME IInv, StoredInv, [Next]_vars PROVE StoredInv'
    OBVIOUS
  <1>1. CASE UNCHANGED vars
    BY <1>1 DEF vars, StoredInv, RunsAreExecuted, RefersToRuns, ApprovedHasItsWorker
  <1>2. ASSUME NEW w \in Workers, Receive(w) \/ Serve(w)
        PROVE  StoredInv'
    BY <1>2, StoredReceive, StoredReview, StoredSaveReview, StoredPipeline, StoredReport
       DEF Serve
  <1> QED BY <1>1, <1>2 DEF Next

\* However the requests of a thread are interleaved, the runs that are stored, carried
\* from step to step and recorded are runs that were executed.
THEOREM StoredRunsExist == Spec => []StoredInv
  <1> QED BY StoredInit, StoredStep, Invariant, PTL DEF Spec

\* However the requests of a thread are interleaved, what is shown as finalized has a
\* recorded final report, and what is recorded are runs that were executed.
THEOREM FinalizedHasRowThm == Spec => []FinalizedHasRow
  <1>1. IInv /\ StoredInv => FinalizedHasRow
    BY DEF IInv, ShownHasRow, StoredInv, RunsAreExecuted, FinalizedHasRow
  <1> QED BY <1>1, Invariant, StoredRunsExist, PTL

\* A thread is never stranded in "approved", where no message is accepted: a request is
\* under way that will save another phase, however many requests saved this one.
THEOREM ApprovedIsNeverStranded == Spec => []ApprovedHasItsWorker
  <1>1. StoredInv => ApprovedHasItsWorker
    BY DEF StoredInv
  <1> QED BY <1>1, StoredRunsExist, PTL

\* Every run that is recorded, and every run whose report is recorded, executed a draft
\* that a user approved.
THEOREM RecordedRunsWereApproved ==
    Spec => [](\A r \in row : {runs[r.run], runs[r.report]} \subseteq approvals)
  <1>1. IInv /\ StoredInv => \A r \in row : {runs[r.run], runs[r.report]} \subseteq approvals
    BY DEF IInv, ExecutedWasApproved, StoredInv, RunsAreExecuted
  <1> QED BY <1>1, Invariant, StoredRunsExist, PTL

-----------------------------------------------------------------------------
(* Requests that do not overlap *)

UnderReview ==
    store.phase = "pending_review" /\ report.at = "absent" /\ runs = <<>> /\ row = {}

UnderExecution == store.phase = "approved" /\ review.at = "approved" /\ row = {}

UnderReport ==
    /\ store.phase \in {"report_interaction", "rerun_requested"} /\ store.run = 1
    /\ report.at # "absent" /\ report.run = 1 /\ Len(runs) = 1
    /\ store.phase = "rerun_requested" => report.at = "rerun_requested"

\* Between two turns the graph waits unless a rerun was asked for.
TurnIsOver == row = {} /\ (store.phase = "report_interaction" => report.at = "waiting")

OnlyRow == {[run |-> 1, report |-> 1]}

\* Nobody is served: the snapshot tells the truth about both graphs and about the row.
Resting ==
    \/ UnderReview /\ review.at = "waiting"
    \/ UnderReport /\ TurnIsOver
    \/ store.phase \in {"cancelled", "error"} /\ row = {}
    \/ store.phase = "finalized" /\ row = OnlyRow /\ Len(runs) = 1

\* What the one request that is served has learnt is still so.
Serving(r) ==
    \/ r.at = "read"      /\ UnderReview /\ review.at = "waiting"
    \/ r.at = "loaded"    /\ UnderReview /\ review.at = "waiting" /\ r.review = review
    \/ r.at = "passed"    /\ UnderReview /\ review.at \in ReviewActions /\ r.review = review
    \/ r.at = "resumed"   /\ UnderReview /\ review.at \in {"waiting"} \cup ReviewOutcomes
    \/ r.at = "approved"  /\ UnderExecution /\ runs = <<>>
    \/ r.at = "executing" /\ UnderExecution /\ runs = <<>>
    \/ r.at = "executed"  /\ UnderExecution /\ Len(runs) = 1 /\ r.run = 1
    \/ r.at = "opened"    /\ UnderExecution /\ Len(runs) = 1 /\ r.run = 1
                          /\ report.at = "waiting" /\ report.run = 1
    \/ r.at = "turning"   /\ UnderReport /\ TurnIsOver /\ r.copy = store
    \/ r.at = "turned"    /\ UnderReport /\ TurnIsOver /\ r.copy = store /\ r.report = report
    \/ r.at = "reported"  /\ UnderReport /\ row = {} /\ r.copy = store
    \/ r.at = "persisted" /\ UnderReport /\ r.copy = store /\ r.report = report
                          /\ row = IF report.at = "finalized" THEN OnlyRow ELSE {}
    \/ r.at = "failed"    /\ row = {}
                          /\ store.phase \in {"pending_review", "approved",
                                              "report_interaction"}

SerialInv ==
    /\ Len(runs) <= 1
    /\ (\A w \in Workers : request[w].at = "idle") => Resting
    /\ \A w \in Workers : request[w].at # "idle" => Serving(request[w])

\* What a step of worker w has to establish: a request ends where the snapshot is true,
\* or has come to a place of which it still knows the truth.
LEMMA SerialMoves ==
    ASSUME NEW w \in Workers, OthersStay(w), Len(runs') <= 1,
           \A v \in Workers : v # w => request[v].at = "idle",
           request'[w].at = "idle" => Resting',
           request'[w].at # "idle" => Serving(request[w])'
    PROVE  SerialInv'
  <1>1. \A v \in Workers : v # w => request'[v].at = "idle"
    BY DEF OthersStay
  <1>2. (\A v \in Workers : request'[v].at = "idle") => Resting'
    OBVIOUS
  <1>3. ASSUME NEW v \in Workers, request'[v].at # "idle" PROVE Serving(request[v])'
    <2>1. v = w
      BY <1>1, <1>3
    <2> QED BY <1>3, <2>1
  <1> QED BY <1>2, <1>3 DEF SerialInv

LEMMA SerialInit == Init => SerialInv
  <1> SUFFICES ASSUME Init PROVE SerialInv
    OBVIOUS
  <1>1. \A w \in Workers : request[w].at = "idle"
    BY DEF Init, Idle
  <1>2. Resting
    BY DEF Init, Idle, Resting, UnderReview
  <1>3. Len(runs) <= 1
    BY DEF Init
  <1> QED BY <1>1, <1>2, <1>3 DEF SerialInv

\* A request is received only when none is served.
LEMMA SerialReceive ==
    ASSUME IInv, SerialInv, OneAtATime, OneAtATime', NEW w \in Workers, Receive(w)
    PROVE  SerialInv'
  <1>1. /\ UNCHANGED <<store, review, report, runs, row>> /\ request[w].at = "idle"
        /\ OthersStay(w) /\ request'[w].copy = store
        /\ \/ request'[w].at = "read" /\ store.phase = "pending_review"
           \/ request'[w].at = "turning"
              /\ store.phase \in {"report_interaction", "rerun_requested"}
    BY ReceiveDoes
  <1>2. \A v \in Workers : v # w => request'[v].at = "idle"
    BY <1>1 DEF OneAtATime
  <1>3. \A v \in Workers : request[v].at = "idle"
    BY <1>1, <1>2 DEF OthersStay
  <1>4. Resting /\ Len(runs) <= 1
    BY <1>3 DEF SerialInv
  <1>5. Serving(request[w])'
    <2>1. CASE request'[w].at = "read" /\ store.phase = "pending_review"
      BY <1>1, <1>4, <2>1 DEF Resting, UnderReview, UnderReport, Serving
    <2>2. CASE request'[w].at = "turning"
               /\ store.phase \in {"report_interaction", "rerun_requested"}
      <3>1. UnderReport /\ TurnIsOver
        BY <1>4, <2>2 DEF Resting, UnderReview
      <3>2. UnderReport' /\ TurnIsOver'
        BY <1>1, <3>1 DEF UnderReport, TurnIsOver
      <3> QED BY <1>1, <2>2, <3>2 DEF Serving
    <2> QED BY <1>1, <2>1, <2>2
  <1> QED BY <1>1, <1>3, <1>4, <1>5, SerialMoves

\* The others are idle while one is served, which knows the truth.
LEMMA Alone ==
    ASSUME SerialInv, OneAtATime, NEW w \in Workers, request[w].at # "idle"
    PROVE  /\ \A v \in Workers : v # w => request[v].at = "idle"
           /\ Serving(request[w]) /\ Len(runs) <= 1
  BY DEF SerialInv, OneAtATime

LEMMA SerialReview ==
    ASSUME IInv, SerialInv, OneAtATime, NEW w \in Workers,
           LoadReview(w) \/ PassGate(w) \/ RunNode(w)
    PROVE  SerialInv'
  <1>1. CASE LoadReview(w)
    <2>1. /\ UNCHANGED <<store, review, report, runs, row>> /\ request[w].at = "read"
          /\ Carries(w, "loaded", request[w].copy, review, request[w].report, request[w].run)
      BY <1>1, LoadReviewDoes
    <2>2. /\ \A v \in Workers : v # w => request[v].at = "idle"
          /\ Len(runs) <= 1 /\ UnderReview /\ review.at = "waiting"
      BY <2>1, Alone DEF Serving
    <2>3. Serving(request[w])'
      BY <2>1, <2>2 DEF Serving, UnderReview, Carries
    <2> QED BY <2>1, <2>2, <2>3, SerialMoves DEF Carries
  <1>2. CASE PassGate(w)
    <2>1. UNCHANGED <<store, report, runs, row>> /\ request[w].at = "loaded"
      BY <1>2, PassGateDoes
    <2>2. /\ \A v \in Workers : v # w => request[v].at = "idle"
          /\ Len(runs) <= 1 /\ UnderReview
          /\ review.at = "waiting" /\ request[w].review = review
      BY <2>1, Alone DEF Serving
    <2>3. review'.at \in ReviewActions
          /\ Carries(w, "passed", request[w].copy, review', request[w].report, request[w].run)
      BY <1>2, <2>2, PassGateDoes DEF ReviewActions, ReviewOutcomes
    <2>4. Serving(request[w])'
      BY <2>1, <2>2, <2>3 DEF Serving, UnderReview, Carries
    <2> QED BY <2>1, <2>2, <2>3, <2>4, SerialMoves DEF Carries
  <1>3. CASE RunNode(w)
    <2>1. /\ UNCHANGED <<store, report, runs, row>> /\ request[w].at = "passed"
          /\ \/ Moves(w, "resumed") /\ review'.at \in {"waiting"} \cup ReviewOutcomes
             \/ Moves(w, "failed")
      BY <1>3, RunNodeDoes
    <2>2. /\ \A v \in Workers : v # w => request[v].at = "idle"
          /\ Len(runs) <= 1 /\ UnderReview
      BY <2>1, Alone DEF Serving
    <2>3. Serving(request[w])'
      BY <2>1, <2>2 DEF Serving, UnderReview, Moves, Carries
    <2> QED BY <2>1, <2>2, <2>3, SerialMoves DEF Moves, Carries
  <1> QED BY <1>1, <1>2, <1>3

LEMMA SerialSaves ==
    ASSUME IInv, SerialInv, OneAtATime, NEW w \in Workers,
           SaveReviewResult(w) \/ SaveError(w) \/ SaveRun(w) \/ SaveReport(w)
    PROVE  SerialInv'
  <1>1. CASE SaveReviewResult(w)
    <2>1. /\ UNCHANGED <<review, report, runs, row>> /\ request[w].at = "resumed"
          /\ store'.phase = ReviewPhase
          /\ \/ store'.phase = "approved" /\ OthersStay(w) /\ request'[w].at = "approved"
             \/ store'.phase # "approved" /\ Ends(w)
      BY <1>1, SaveReviewResultDoes DEF Carries
    <2>2. /\ \A v \in Workers : v # w => request[v].at = "idle"
          /\ Len(runs) <= 1 /\ UnderReview /\ review.at \in {"waiting"} \cup ReviewOutcomes
      BY <2>1, Alone DEF Serving
    <2>3. \/ store'.phase = "pending_review" /\ review.at = "waiting"
          \/ store'.phase = "approved" /\ review.at = "approved"
          \/ store'.phase = "cancelled"
      BY <2>1, <2>2 DEF ReviewPhase, ReviewOutcomes
    <2>4. CASE store'.phase = "approved"
      BY <2>1, <2>2, <2>3, <2>4, SerialMoves DEF Serving, UnderReview, UnderExecution
    <2>5. CASE store'.phase # "approved"
      <3>1. Resting'
        BY <2>1, <2>2, <2>3, <2>5 DEF Resting, UnderReview
      <3> QED BY <2>1, <2>2, <2>5, <3>1, SerialMoves DEF Ends, Idle
    <2> QED BY <2>4, <2>5
  <1>2. CASE SaveError(w)
    <2>1. /\ UNCHANGED <<review, report, runs, row>> /\ request[w].at = "failed"
          /\ store'.phase = "error" /\ Ends(w)
      BY <1>2, SaveErrorDoes
    <2>2. /\ \A v \in Workers : v # w => request[v].at = "idle"
          /\ Len(runs) <= 1 /\ row = {}
      BY <2>1, Alone DEF Serving
    <2>3. Resting'
      BY <2>1, <2>2 DEF Resting
    <2> QED BY <2>1, <2>2, <2>3, SerialMoves DEF Ends, Idle
  <1>3. CASE SaveRun(w)
    <2>1. /\ UNCHANGED <<review, report, runs, row>> /\ request[w].at = "opened" /\ Ends(w)
          /\ store'.phase = "report_interaction" /\ store'.run = request[w].run
      BY <1>3, SaveRunDoes
    <2>2. /\ \A v \in Workers : v # w => request[v].at = "idle"
          /\ Len(runs) = 1 /\ row = {} /\ request[w].run = 1
          /\ report.at = "waiting" /\ report.run = 1
      BY <2>1, Alone DEF Serving, UnderExecution
    <2>3. Resting'
      BY <2>1, <2>2 DEF Resting, UnderReport, TurnIsOver
    <2> QED BY <2>1, <2>2, <2>3, SerialMoves DEF Ends, Idle
  <1>4. CASE SaveReport(w)
    <2>1. /\ UNCHANGED <<review, report, runs, row>> /\ request[w].at = "persisted" /\ Ends(w)
          /\ store'.phase = IF request[w].report.at \in Outcomes THEN request[w].report.at
                            ELSE "report_interaction"
          /\ store'.run = request[w].copy.run
      BY <1>4, SaveReportDoes
    <2>2. /\ \A v \in Workers : v # w => request[v].at = "idle"
          /\ Len(runs) = 1 /\ UnderReport /\ request[w].copy = store
          /\ request[w].report = report
          /\ row = IF report.at = "finalized" THEN OnlyRow ELSE {}
      BY <2>1, Alone DEF Serving, UnderReport
    <2>3. report.at \in {"absent", "waiting"} \cup Outcomes /\ report.at # "absent"
      BY <2>2, Known DEF UnderReport, ReportType
    <2>4. Resting'
      <3>1. CASE report.at = "waiting"
        BY <2>1, <2>2, <3>1 DEF Resting, UnderReport, TurnIsOver, Outcomes
      <3>2. CASE report.at = "rerun_requested"
        BY <2>1, <2>2, <3>2 DEF Resting, UnderReport, TurnIsOver, Outcomes
      <3>3. CASE report.at = "cancelled"
        BY <2>1, <2>2, <3>3 DEF Resting, Outcomes
      <3>4. CASE report.at = "finalized"
        BY <2>1, <2>2, <3>4 DEF Resting, Outcomes, OnlyRow
      <3> QED BY <2>3, <3>1, <3>2, <3>3, <3>4 DEF Outcomes
    <2> QED BY <2>1, <2>2, <2>4, SerialMoves DEF Ends, Idle
  <1> QED BY <1>1, <1>2, <1>3, <1>4

LEMMA SerialPipeline ==
    ASSUME IInv, SerialInv, OneAtATime, NEW w \in Workers,
           GetApprovedPayload(w) \/ ExecuteDraft(w) \/ OpenReport(w)
    PROVE  SerialInv'
  <1>1. CASE GetApprovedPayload(w)
    <2>1. UNCHANGED <<store, review, report, runs, row>> /\ request[w].at = "approved"
      BY <1>1, GetApprovedPayloadDoes
    <2>2. /\ \A v \in Workers : v # w => request[v].at = "idle"
          /\ Len(runs) <= 1 /\ UnderExecution /\ runs = <<>>
      BY <2>1, Alone DEF Serving
    <2>3. request'[w].at = "executing" /\ OthersStay(w)
      BY <1>1, <2>2, GetApprovedPayloadDoes DEF UnderExecution, Carries
    <2> QED BY <2>1, <2>2, <2>3, SerialMoves DEF Serving, UnderExecution
  <1>2. CASE ExecuteDraft(w)
    <2>1. UNCHANGED <<store, review, report, row>> /\ request[w].at = "executing"
      BY <1>2, ExecuteDraftDoes
    <2>2. /\ \A v \in Workers : v # w => request[v].at = "idle"
          /\ UnderExecution /\ runs = <<>>
      BY <2>1, Alone DEF Serving
    <2>3. Len(runs) = 0 /\ Len(runs) + 1 = 1 /\ Len(Append(runs, request[w].review.round)) = 1
      BY <2>2, Known
    <2>4. \/ /\ runs' = Append(runs, request[w].review.round)
             /\ Carries(w, "executed", request[w].copy, request[w].review,
                        request[w].report, 1)
          \/ runs' = Append(runs, request[w].review.round) /\ Moves(w, "failed")
          \/ runs' = runs /\ Moves(w, "failed")
      BY <1>2, <2>3, ExecuteDraftDoes
    <2>5. /\ Len(runs') <= 1 /\ OthersStay(w)
          /\ \/ request'[w].at = "executed" /\ request'[w].run = 1 /\ Len(runs') = 1
             \/ request'[w].at = "failed"
      <3>1. Len(runs') <= 1
        <4>1. Len(runs') \in {0, 1}
          BY <2>3, <2>4
        <4>2. \A n \in {0, 1} : n <= 1
          OBVIOUS
        <4> QED BY <4>1, <4>2
      <3>2. runs' = Append(runs, request[w].review.round) => Len(runs') = 1
        BY <2>3
      <3> QED BY <2>4, <3>1, <3>2 DEF Moves, Carries
    <2>6. Serving(request[w])'
      BY <2>1, <2>2, <2>5 DEF Serving, UnderExecution
    <2> QED BY <2>1, <2>2, <2>5, <2>6, SerialMoves
  <1>3. CASE OpenReport(w)
    <2>1. /\ UNCHANGED <<store, review, runs, row>> /\ request[w].at = "executed"
          /\ report' = [at |-> "waiting", run |-> request[w].run] /\ Moves(w, "opened")
      BY <1>3, OpenReportDoes
    <2>2. /\ \A v \in Workers : v # w => request[v].at = "idle"
          /\ UnderExecution /\ Len(runs) = 1 /\ request[w].run = 1
      BY <2>1, Alone DEF Serving
    <2>3. Serving(request[w])'
      BY <2>1, <2>2 DEF Serving, UnderExecution, Moves, Carries
    <2> QED BY <2>1, <2>2, <2>3, SerialMoves DEF Moves, Carries
  <1> QED BY <1>1, <1>2, <1>3

LEMMA SerialReport ==
    ASSUME IInv, SerialInv, OneAtATime, NEW w \in Workers,
           LoadReport(w) \/ TakeTurn(w) \/ ReadReport(w)
    PROVE  SerialInv'
  <1>1. CASE LoadReport(w)
    <2>1. /\ UNCHANGED <<store, review, report, runs, row>> /\ request[w].at = "turning"
          /\ Carries(w, "turned", request[w].copy, request[w].review, report,
                     request[w].run)
      BY <1>1, LoadReportDoes
    <2>2. /\ \A v \in Workers : v # w => request[v].at = "idle"
          /\ Len(runs) <= 1 /\ UnderReport /\ TurnIsOver /\ request[w].copy = store
      BY <2>1, Alone DEF Serving
    <2>3. UnderReport' /\ TurnIsOver'
      BY <2>1, <2>2 DEF UnderReport, TurnIsOver
    <2>4. Serving(request[w])'
      BY <2>1, <2>2, <2>3 DEF Serving, Carries
    <2> QED BY <2>1, <2>2, <2>4, SerialMoves DEF Carries
  <1>2. CASE TakeTurn(w)
    <2>1. /\ UNCHANGED <<store, review, runs, row>> /\ request[w].at = "turned"
          /\ Moves(w, "reported")
          /\ \/ /\ request[w].report.at = "waiting" /\ report'.run = request[w].report.run
                /\ report'.at \in {"waiting"} \cup Outcomes
             \/ UNCHANGED report
      BY <1>2, TakeTurnDoes
    <2>2. /\ \A v \in Workers : v # w => request[v].at = "idle"
          /\ Len(runs) <= 1 /\ UnderReport /\ TurnIsOver /\ request[w].copy = store
          /\ request[w].report = report
      BY <2>1, Alone DEF Serving
    <2>3. UnderReport' /\ row' = {}
      <3>1. CASE UNCHANGED report
        BY <2>1, <2>2, <3>1 DEF UnderReport, TurnIsOver
      <3>2. CASE /\ request[w].report.at = "waiting" /\ report'.run = request[w].report.run
                 /\ report'.at \in {"waiting"} \cup Outcomes
        BY <2>1, <2>2, <3>2 DEF UnderReport, TurnIsOver, Outcomes
      <3> QED BY <2>1, <3>1, <3>2
    <2>4. Serving(request[w])'
      BY <2>1, <2>2, <2>3 DEF Serving, Moves, Carries
    <2> QED BY <2>1, <2>2, <2>4, SerialMoves DEF Moves, Carries
  <1>3. CASE ReadReport(w)
    <2>1. UNCHANGED <<store, review, report, runs>> /\ request[w].at = "reported"
      BY <1>3, ReadReportDoes
    <2>2. /\ \A v \in Workers : v # w => request[v].at = "idle"
          /\ Len(runs) <= 1 /\ UnderReport /\ row = {} /\ request[w].copy = store
          /\ store.run = 1 /\ report.run = 1
      BY <2>1, Alone DEF Serving, UnderReport
    <2>3. PICK p \in {"persisted", "failed"} :
            /\ Carries(w, p, request[w].copy, request[w].review, report, request[w].run)
            /\ p = "persisted" => row' = IF report.at = "finalized" THEN OnlyRow ELSE {}
            /\ p = "failed" => row' = {} /\ report.at = "finalized"
      BY <1>3, <2>2, ReadReportDoes DEF OnlyRow
    <2>4. UnderReport'
      BY <2>1, <2>2 DEF UnderReport
    <2>5. CASE p = "persisted"
      <3>1. Serving(request[w])'
        BY <2>1, <2>2, <2>3, <2>4, <2>5 DEF Serving, Carries
      <3> QED BY <2>1, <2>2, <2>3, <3>1, <2>5, SerialMoves DEF Carries
    <2>6. CASE p = "failed"
      <3>1. store.phase = "report_interaction"
        BY <2>2, <2>3, <2>6 DEF UnderReport
      <3>2. Serving(request[w])'
        BY <2>1, <2>3, <2>6, <3>1 DEF Serving, Carries
      <3> QED BY <2>1, <2>2, <2>3, <3>2, <2>6, SerialMoves DEF Carries
    <2> QED BY <2>5, <2>6
  <1> QED BY <1>1, <1>2, <1>3

LEMMA SerialStep ==
    IInv /\ SerialInv /\ OneAtATime /\ OneAtATime' /\ [Next]_vars => SerialInv'
  <1> SUFFICES ASSUME IInv, SerialInv, OneAtATime, OneAtATime', [Next]_vars
               PROVE  SerialInv'
    OBVIOUS
  <1>1. CASE UNCHANGED vars
    BY <1>1 DEF vars, SerialInv, Resting, Serving, UnderReview, UnderExecution, UnderReport,
                TurnIsOver
  <1>2. ASSUME NEW w \in Workers, Receive(w) \/ Serve(w)
        PROVE  SerialInv'
    BY <1>2, SerialReceive, SerialReview, SerialSaves, SerialPipeline, SerialReport
       DEF Serve
  <1> QED BY <1>1, <1>2 DEF Next

\* As long as no two requests of a thread overlap, the snapshot tells the truth about
\* both graphs and the row between two requests.
THEOREM SnapshotIsTrue == Spec /\ []OneAtATime => []SerialInv
  <1> QED BY SerialInit, SerialStep, Invariant, PTL DEF Spec

\* What a step of w does to the snapshot, and with which runs and which row.
LEMMA SerialPhases ==
    ASSUME IInv, SerialInv, OneAtATime, NEW w \in Workers, Receive(w) \/ Serve(w)
    PROVE  /\ Len(runs) \in {0, 1}
           /\ \/ /\ store' = store
                 /\ store.phase # "approved" => runs' = runs
                 /\ store.phase = "finalized" => row' = row
              \/ /\ UNCHANGED <<runs, row>>
                 /\ \/ /\ store.phase = "pending_review" /\ Len(runs) = 0
                       /\ store'.phase \in {"pending_review", "approved", "cancelled"}
                    \/ /\ store.phase \in {"pending_review", "approved", "report_interaction"}
                       /\ store'.phase = "error"
                    \/ /\ store.phase = "approved" /\ Len(runs) = 1
                       /\ store'.phase = "report_interaction"
                    \/ /\ store.phase = "report_interaction" /\ Len(runs) = 1
                       /\ store'.phase \in {"report_interaction", "rerun_requested",
                                            "cancelled", "finalized"}
                       /\ store'.phase = "finalized" => row = OnlyRow
                    \/ store.phase = "rerun_requested" /\ store'.phase = "rerun_requested"
  <1>1. Len(runs) \in {0, 1}
    <2>1. Len(runs) \in Nat /\ Len(runs) <= 1
      BY DEF IInv, TypeOK, SerialInv
    <2>2. \A n \in Nat : n <= 1 => n \in {0, 1}
      OBVIOUS
    <2> QED BY <2>1, <2>2
  <1>2. CASE Receive(w)
    BY <1>1, <1>2, ReceiveDoes
  <1>3. CASE LoadReview(w) \/ PassGate(w) \/ RunNode(w) \/ GetApprovedPayload(w)
             \/ OpenReport(w) \/ LoadReport(w) \/ TakeTurn(w)
    <2>1. UNCHANGED <<store, runs, row>>
      BY <1>3, LoadReviewDoes, PassGateDoes, RunNodeDoes, GetApprovedPayloadDoes,
         OpenReportDoes, LoadReportDoes, TakeTurnDoes
    <2> QED BY <1>1, <2>1
  <1>4. CASE ExecuteDraft(w)
    <2>1. UNCHANGED <<store, row>> /\ request[w].at = "executing"
      BY <1>4, ExecuteDraftDoes
    <2>2. store.phase = "approved"
      BY <2>1, Alone DEF Serving, UnderExecution
    <2> QED BY <1>1, <2>1, <2>2
  <1>5. CASE ReadReport(w)
    <2>1. UNCHANGED <<store, runs>> /\ request[w].at = "reported"
      BY <1>5, ReadReportDoes
    <2>2. store.phase # "finalized"
      BY <2>1, Alone DEF Serving, UnderReport
    <2> QED BY <1>1, <2>1, <2>2
  <1>6. CASE SaveReviewResult(w)
    <2>1. UNCHANGED <<runs, row>> /\ request[w].at = "resumed" /\ store'.phase = ReviewPhase
      BY <1>6, SaveReviewResultDoes
    <2>2. UnderReview /\ review.at \in {"waiting"} \cup ReviewOutcomes
      BY <2>1, Alone DEF Serving
    <2>3. store'.phase \in {"pending_review", "approved", "cancelled"}
      BY <2>1, <2>2 DEF ReviewPhase, ReviewOutcomes
    <2>4. store.phase = "pending_review" /\ Len(runs) = 0
      BY <2>2 DEF UnderReview
    <2> QED BY <1>1, <2>1, <2>3, <2>4
  <1>7. CASE SaveError(w)
    <2>1. UNCHANGED <<runs, row>> /\ request[w].at = "failed" /\ store'.phase = "error"
      BY <1>7, SaveErrorDoes
    <2>2. store.phase \in {"pending_review", "approved", "report_interaction"}
      BY <2>1, Alone DEF Serving
    <2> QED BY <1>1, <2>1, <2>2
  <1>8. CASE SaveRun(w)
    <2>1. /\ UNCHANGED <<runs, row>> /\ request[w].at = "opened"
          /\ store'.phase = "report_interaction"
      BY <1>8, SaveRunDoes
    <2>2. store.phase = "approved" /\ Len(runs) = 1
      BY <2>1, Alone DEF Serving, UnderExecution
    <2> QED BY <1>1, <2>1, <2>2
  <1>9. CASE SaveReport(w)
    <2>1. /\ UNCHANGED <<runs, row>> /\ request[w].at = "persisted"
          /\ store'.phase = IF request[w].report.at \in Outcomes THEN request[w].report.at
                            ELSE "report_interaction"
      BY <1>9, SaveReportDoes
    <2>2. /\ Len(runs) = 1 /\ request[w].report.at = report.at
          /\ store.phase \in {"report_interaction", "rerun_requested"}
          /\ store.phase = "rerun_requested" => report.at = "rerun_requested"
          /\ report.at = "finalized" => row = OnlyRow
      BY <2>1, Alone DEF Serving, UnderReport
    <2>3. CASE store.phase = "rerun_requested"
      BY <1>1, <2>1, <2>2, <2>3 DEF Outcomes
    <2>4. CASE store.phase = "report_interaction"
      BY <1>1, <2>1, <2>2, <2>4 DEF Outcomes
    <2> QED BY <2>2, <2>3, <2>4
  <1> QED BY <1>2, <1>3, <1>4, <1>5, <1>6, <1>7, <1>8, <1>9 DEF Serve

\* As long as no two requests of a thread overlap, its phases are those of the documented
\* diagram: what breaks it is that one request works on what another has changed.
THEOREM PhasesWithoutOverlap == Spec /\ []OneAtATime => PhasesFollowTheDiagram
  <1> DEFINE Follows == store'.phase # "error" =>
                            \/ <<store.phase, store'.phase>> \in Diagram
                            \/ store.phase = "rerun_requested"
  <1>1. IInv /\ SerialInv /\ OneAtATime /\ [Next]_vars => [Follows]_store
    <2> SUFFICES ASSUME IInv, SerialInv, OneAtATime, [Next]_vars, store' # store
                 PROVE  Follows
      OBVIOUS
    <2>1. PICK w \in Workers : Receive(w) \/ Serve(w)
      BY DEF Next, vars
    <2>2. \/ /\ store.phase = "pending_review"
             /\ store'.phase \in {"pending_review", "approved", "cancelled"}
          \/ store'.phase = "error"
          \/ store.phase = "approved" /\ store'.phase = "report_interaction"
          \/ /\ store.phase = "report_interaction"
             /\ store'.phase \in {"report_interaction", "rerun_requested", "cancelled",
                                  "finalized"}
          \/ store.phase = "rerun_requested"
      BY <2>1, SerialPhases
    <2> QED BY <2>2 DEF Diagram, Outcomes
  <1> HIDE DEF Follows
  <1>2. Spec /\ []OneAtATime => [][Follows]_store
    BY <1>1, SnapshotIsTrue, Invariant, PTL DEF Spec
  <1> QED BY <1>2 DEF PhasesFollowTheDiagram, Follows

\* As long as no two requests of a thread overlap, the steps that a request is made of
\* add up to those of the workflow's callers: the thread implements WorkflowLifecycle.
THEOREM LifecycleWithoutOverlap == Spec /\ []OneAtATime => StepsOfTheLifecycle
  <1>1. IInv /\ SerialInv /\ OneAtATime /\ [Next]_vars => [Lifecycle!Next]_(Lifecycle!vars)
    <2> SUFFICES ASSUME IInv, SerialInv, OneAtATime, [Next]_vars
                 PROVE  Lifecycle!Next \/ UNCHANGED Lifecycle!vars
      OBVIOUS
    <2>1. CASE UNCHANGED vars
      BY <2>1 DEF vars, Lifecycle!vars, Ran, Recorded
    <2>2. CASE Next
      <3>1. PICK w \in Workers : Receive(w) \/ Serve(w)
        BY <2>2 DEF Next
      <3>2. CASE /\ store' = store
                 /\ store.phase # "approved" => runs' = runs
                 /\ store.phase = "finalized" => row' = row
        BY <3>2 DEF Lifecycle!vars, Ran, Recorded
      <3>3. CASE /\ store.phase = "pending_review" /\ Len(runs) = 0 /\ UNCHANGED runs
                 /\ store'.phase \in {"pending_review", "approved", "cancelled"}
        <4>1. Ran = 0 /\ Ran' = 0 /\ Recorded = 0 /\ Recorded' = 0
          BY <3>3 DEF Ran, Recorded
        <4>2. Lifecycle!Reply
          BY <3>3, <4>1 DEF Lifecycle!Reply, Lifecycle!AfterReply,
                 Lifecycle!Drawn, Lifecycle!Undrawn
        <4> QED BY <4>2 DEF Lifecycle!Next
      <3>4. CASE /\ store.phase \in {"pending_review", "report_interaction"}
                 /\ store'.phase = "error" /\ UNCHANGED runs
        <4>1. Ran' = Ran /\ Recorded = 0 /\ Recorded' = 0
          BY <3>4 DEF Ran, Recorded
        <4>2. Lifecycle!Reply
          BY <3>4, <4>1 DEF Lifecycle!Reply, Lifecycle!AfterReply,
                 Lifecycle!Drawn, Lifecycle!Undrawn
        <4> QED BY <4>2 DEF Lifecycle!Next
      <3>5. CASE /\ store.phase = "approved" /\ UNCHANGED runs /\ Len(runs) \in {0, 1}
                 /\ \/ store'.phase = "error"
                    \/ store'.phase = "report_interaction" /\ Len(runs) = 1
        <4>1. Ran = 0 /\ Ran' = Len(runs) /\ Recorded = 0 /\ Recorded' = 0
          BY <3>5 DEF Ran, Recorded
        <4>2. Lifecycle!Run
          BY <3>5, <4>1 DEF Lifecycle!Run
        <4> QED BY <4>2 DEF Lifecycle!Next
      <3>6. CASE /\ store.phase = "report_interaction" /\ Len(runs) = 1
                 /\ UNCHANGED <<runs, row>>
                 /\ store'.phase = "finalized" /\ row = OnlyRow
        <4>1. RunOf(row) = 1
          <5>1. (CHOOSE r \in OnlyRow : TRUE) \in OnlyRow
            BY DEF OnlyRow
          <5> QED BY <3>6, <5>1 DEF RunOf, OnlyRow
        <4>2. Ran = 1 /\ Ran' = 1 /\ Recorded = 0 /\ Recorded' = 1
          BY <3>6, <4>1 DEF Ran, Recorded
        <4>3. Lifecycle!Finalize
          BY <3>6, <4>2 DEF Lifecycle!Finalize
        <4> QED BY <4>3 DEF Lifecycle!Next
      <3>7. CASE /\ store.phase = "report_interaction" /\ UNCHANGED runs
                 /\ store'.phase \in {"report_interaction", "rerun_requested", "cancelled"}
        <4>1. Ran' = Ran /\ Recorded = 0 /\ Recorded' = 0
          BY <3>7 DEF Ran, Recorded
        <4>2. Lifecycle!Reply
          BY <3>7, <4>1 DEF Lifecycle!Reply, Lifecycle!AfterReply,
                 Lifecycle!Drawn, Lifecycle!Undrawn
        <4> QED BY <4>2 DEF Lifecycle!Next
      <3>8. CASE /\ store.phase = "rerun_requested" /\ UNCHANGED runs
                 /\ store'.phase = "rerun_requested"
        BY <3>8 DEF Lifecycle!vars, Ran, Recorded
      <3> QED BY <3>1, <3>2, <3>3, <3>4, <3>5, <3>6, <3>7, <3>8, SerialPhases
    <2> QED BY <2>1, <2>2
  <1>2. Spec /\ []OneAtATime => [][Lifecycle!Next]_(Lifecycle!vars)
    BY <1>1, SnapshotIsTrue, Invariant, PTL DEF Spec
  <1> QED BY <1>2 DEF StepsOfTheLifecycle

\* As long as no two requests of a thread overlap, its draft is executed at most once,
\* and the row records that run together with the report on it.
THEOREM RowWithoutOverlap == Spec /\ []OneAtATime => []RowIsOfTheRun
  <1>1. IInv /\ SerialInv /\ OneAtATime => RowIsOfTheRun
    <2> SUFFICES ASSUME IInv, SerialInv, OneAtATime
                 PROVE  row = {} \/ row = OnlyRow
      BY DEF RowIsOfTheRun, SerialInv, OnlyRow
    <2>1. CASE \A w \in Workers : request[w].at = "idle"
      BY <2>1 DEF SerialInv, Resting, UnderReview, TurnIsOver
    <2>2. CASE \E w \in Workers : request[w].at # "idle"
      <3>1. PICK w \in Workers : Serving(request[w])
        BY <2>2 DEF SerialInv
      <3> QED BY <3>1 DEF Serving, UnderReview, UnderExecution, TurnIsOver
    <2> QED BY <2>1, <2>2
  <1> QED BY <1>1, SnapshotIsTrue, Invariant, PTL
=============================================================================
