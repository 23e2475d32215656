----------------------------- MODULE ConcurrentRequests -----------------------------
(***************************************************************************)
(* Requests of one workflow thread served at the same time.                *)
(*                                                                         *)
(* The REST handlers are plain functions, so each request has a worker     *)
(* thread of its own, and all of them share one FullWorkflowOrchestrator   *)
(* (tasks/full_workflow_orchestrator.py).  Nothing is locked: a request    *)
(* reads a copy of the snapshot, lets a graph load its checkpoint, write   *)
(* one per node and be read again, and saves the copy.  Here each of these *)
(* is a step of its own; FullWorkflow is what they do one after another.   *)
(*                                                                         *)
(* The workflow starts with its first draft on the user's screen, where    *)
(* the steps of a request have consequences.                               *)
(***************************************************************************)
EXTENDS Naturals, Sequences, FiniteSets

CONSTANTS
    Workers,
    MaxRounds,     \* bound on drafts
    MaxRequests    \* bound on requests

ASSUME BoundsAssumption == /\ MaxRounds \in Nat \ {0}
                           /\ MaxRequests \in Nat

VARIABLES
    store,      \* the snapshot in InMemoryWorkflowStateStore
    review,     \* the latest checkpoint of the testcase review graph
    report,     \* the latest checkpoint of the report interaction graph
    runs,       \* rounds of the drafts executed, in order
    row,        \* what workflow_runs records: the run, and the run of its final report
    approvals,  \* rounds whose draft a user approved
    request,    \* what each worker is doing
    received    \* requests received

vars == <<store, review, report, runs, row, approvals, request, received>>

ReviewActions  == { "approve", "revise", "cancel" }
ReportActions  == { "ask", "rerun", "finalize", "cancel" }
ReviewOutcomes == { "approved", "cancelled" }
Outcomes       == { "rerun_requested", "finalized", "cancelled" }
Phases         == { "pending_review", "approved", "report_interaction", "error" }
                      \cup Outcomes

Rounds == 1..MaxRounds
\* A run is known by its place in runs, 0 is none.
Runs   == Nat

SnapshotType == [ phase : Phases, run : Runs ]

\* at says where the graph stands: at its gate, past it with a node to run, or ended.
ReviewType == [ at : {"waiting"} \cup ReviewActions \cup ReviewOutcomes, round : Rounds ]

ReportType == [ at : {"absent", "waiting"} \cup Outcomes, run : Runs ]

\* Where a worker is in continue_with_message.
Places == { "idle", "read", "loaded", "passed", "resumed", "answered", "approved",
            "executing", "executed", "opened", "turning", "turned", "reported",
            "persisted", "failed" }

RequestType == [ at     : Places,
                 does   : ReviewActions \cup ReportActions \cup {"none"},
                 copy   : SnapshotType,   \* its copy of the snapshot
                 review : ReviewType,     \* the checkpoint of the review it works on
                 report : ReportType,
                 run    : Runs ]          \* the run it made

Idle == [ at |-> "idle", does |-> "none",
          copy   |-> [phase |-> "pending_review", run |-> 0],
          review |-> [at |-> "waiting", round |-> 1],
          report |-> [at |-> "absent", run |-> 0],
          run    |-> 0 ]

Row == [ run : Runs, report : Runs ]

TypeOK ==
    /\ store \in SnapshotType
    /\ review \in ReviewType
    /\ report \in ReportType
    /\ runs \in Seq(Rounds)
    /\ row \subseteq Row /\ \A r, q \in row : r = q
    /\ approvals \subseteq Rounds
    /\ request \in [Workers -> RequestType]
    /\ received \in 0..MaxRequests

Init ==
    /\ store = Idle.copy
    /\ review = Idle.review
    /\ report = Idle.report
    /\ runs = <<>>
    /\ row = {}
    /\ approvals = {}
    /\ request = [w \in Workers |-> Idle]
    /\ received = 0

\* Worker w goes on at place p, having learnt what r says.
Goes(w, p, r) == request' = [request EXCEPT ![w] = [r EXCEPT !.at = p]]

Done(w) == request' = [request EXCEPT ![w] = Idle]

-----------------------------------------------------------------------------
(* continue_with_message: read, route, drive a graph, save *)

\* A copy of the snapshot is read and the message routed by its phase.  Other phases
\* accept no message.
Receive(w) ==
    /\ request[w].at = "idle" /\ received < MaxRequests
    /\ \/ /\ store.phase = "pending_review"
          /\ \E does \in ReviewActions :
                Goes(w, "read", [Idle EXCEPT !.copy = store, !.does = does])
       \/ /\ store.phase \in {"report_interaction", "rerun_requested"}
          /\ \E does \in ReportActions :
                Goes(w, "turning", [Idle EXCEPT !.copy = store, !.does = does])
    /\ received' = received + 1
    /\ UNCHANGED <<store, review, report, runs, row, approvals>>

\* The review graph is invoked and loads its latest checkpoint.
LoadReview(w) ==
    /\ request[w].at = "read"
    /\ Goes(w, "loaded", [request[w] EXCEPT !.review = review])
    /\ UNCHANGED <<store, review, report, runs, row, approvals, received>>

\* review_gate takes the reply, if the checkpoint waits for one: a graph loaded past
\* its gate goes on with what it was told before, one that has ended does nothing.
PassGate(w) ==
    LET loaded == request[w].review
        does   == request[w].does
    IN  /\ request[w].at = "loaded"
        /\ \/ /\ loaded.at = "waiting"
              /\ does = "revise" => loaded.round < MaxRounds
              /\ review' = [loaded EXCEPT !.at = does]
              /\ approvals' = IF does = "approve" THEN approvals \cup {loaded.round}
                              ELSE approvals
              /\ Goes(w, "passed", [request[w] EXCEPT !.review = review'])
           \/ /\ loaded.at \in ReviewActions
              /\ Goes(w, "passed", request[w])
              /\ UNCHANGED <<review, approvals>>
           \/ /\ loaded.at \in ReviewOutcomes
              /\ Goes(w, "resumed", request[w])
              /\ UNCHANGED <<review, approvals>>
        /\ UNCHANGED <<store, report, runs, row, received>>

\* The node behind the gate writes its checkpoint; the draft of another round may raise.
RunNode(w) ==
    LET loaded == request[w].review
    IN  /\ request[w].at = "passed"
        /\ \/ /\ loaded.at = "approve"
              /\ review' = [loaded EXCEPT !.at = "approved"]
              /\ Goes(w, "resumed", request[w])
           \/ /\ loaded.at = "cancel"
              /\ review' = [loaded EXCEPT !.at = "cancelled"]
              /\ Goes(w, "resumed", request[w])
           \/ /\ loaded.at = "revise"
              /\ review' = [at |-> "waiting", round |-> loaded.round + 1]
              /\ Goes(w, "resumed", request[w])
           \/ /\ loaded.at = "revise"
              /\ Goes(w, "failed", request[w])
              /\ UNCHANGED review
        /\ UNCHANGED <<store, report, runs, row, approvals, received>>

\* Mutant: a checkpoint between two nodes is a phase of its own.
ReviewPhase_Idle ==
    CASE review.at = "waiting"        -> "pending_review"
      [] review.at \in ReviewOutcomes -> review.at
      [] OTHER                        -> "idle"

\* The status is that of the checkpoint that is the latest now; "idle" has no phase.
ReviewPhase ==
    CASE review.at = "waiting"        -> "pending_review"
      [] review.at \in ReviewOutcomes -> review.at
      [] OTHER                        -> "error"

\* resume_review reads the graph again, and the snapshot is rebuilt and saved.
SaveReviewResult(w) ==
    LET copy == [phase |-> ReviewPhase, run |-> 0]
    IN  /\ request[w].at = "resumed"
        /\ store' = copy
        /\ IF copy.phase = "approved" THEN Goes(w, "approved", [request[w] EXCEPT !.copy = copy])
                                      ELSE Done(w)
        /\ UNCHANGED <<review, report, runs, row, approvals, received>>

\* Mutant: only the caller is told.
SaveError_NotSaved(w) ==
    /\ request[w].at = "failed"
    /\ Done(w)
    /\ UNCHANGED <<store, review, report, runs, row, approvals, received>>

\* An exception ends the request: the copy is saved in phase "error".
SaveError(w) ==
    /\ request[w].at = "failed"
    /\ store' = [request[w].copy EXCEPT !.phase = "error"]
    /\ Done(w)
    /\ UNCHANGED <<review, report, runs, row, approvals, received>>

-----------------------------------------------------------------------------
(* _run_post_approval_pipeline *)

\* Mutant: the status that was saved is trusted.
GetApprovedPayload_Unchecked(w) ==
    /\ request[w].at = "approved"
    /\ Goes(w, "executing", [request[w] EXCEPT !.review = review])
    /\ UNCHANGED <<store, review, report, runs, row, approvals, received>>

\* get_approved_execution_payload reads the graph once more.
GetApprovedPayload(w) ==
    /\ request[w].at = "approved"
    /\ IF review.at = "approved"
       THEN Goes(w, "executing", [request[w] EXCEPT !.review = review])
       ELSE Goes(w, "failed", request[w])
    /\ UNCHANGED <<store, review, report, runs, row, approvals, received>>

\* The draft is executed, validated and reported on, or the pipeline raises.
ExecuteDraft(w) ==
    /\ request[w].at = "executing"
    /\ \/ /\ runs' = Append(runs, request[w].review.round)
          /\ \/ Goes(w, "executed", [request[w] EXCEPT !.run = Len(runs')])
             \/ Goes(w, "failed", request[w])
       \/ /\ Goes(w, "failed", request[w])
          /\ UNCHANGED runs
    /\ UNCHANGED <<store, review, report, row, approvals, received>>

\* The report graph starts over with the report of this run.
OpenReport(w) ==
    /\ request[w].at = "executed"
    /\ report' = [at |-> "waiting", run |-> request[w].run]
    /\ Goes(w, "opened", request[w])
    /\ UNCHANGED <<store, review, runs, row, approvals, received>>

SaveRun(w) ==
    /\ request[w].at = "opened"
    /\ store' = [phase |-> "report_interaction", run |-> request[w].run]
    /\ Done(w)
    /\ UNCHANGED <<review, report, runs, row, approvals, received>>

-----------------------------------------------------------------------------
(* _continue_report_interaction *)

LoadReport(w) ==
    /\ request[w].at = "turning"
    /\ Goes(w, "turned", [request[w] EXCEPT !.report = report])
    /\ UNCHANGED <<store, review, report, runs, row, approvals, received>>

AfterTurn(loaded, does) ==
    [loaded EXCEPT !.at = CASE does = "ask"      -> "waiting"
                            [] does = "rerun"    -> "rerun_requested"
                            [] does = "finalize" -> "finalized"
                            [] does = "cancel"   -> "cancelled"]

\* A turn of the report graph, if it waits for one; what it took to be sure of the
\* user's wish is in ReportSession.
TakeTurn(w) ==
    /\ request[w].at = "turned"
    /\ IF request[w].report.at = "waiting"
       THEN report' = AfterTurn(request[w].report, request[w].does)
       ELSE UNCHANGED report
    /\ Goes(w, "reported", request[w])
    /\ UNCHANGED <<store, review, runs, row, approvals, received>>

\* Mutant: a finalized report is saved as finalized whether or not it was recorded.
ReadReport_RowLater(w) ==
    /\ request[w].at = "reported"
    /\ Goes(w, "persisted", [request[w] EXCEPT !.report = report])
    /\ UNCHANGED <<store, review, report, runs, row, approvals, received>>

\* The graph is read again.  A finalized one is recorded with the payload of the copy;
\* persist_finalized_run may raise.
ReadReport(w) ==
    LET r == [request[w] EXCEPT !.report = report]
    IN  /\ request[w].at = "reported"
        /\ IF report.at = "finalized"
           THEN \/ /\ row' = {[run |-> r.copy.run, report |-> report.run]}
                   /\ Goes(w, "persisted", r)
                \/ Goes(w, "failed", r) /\ UNCHANGED row
           ELSE Goes(w, "persisted", r) /\ UNCHANGED row
        /\ UNCHANGED <<store, review, report, runs, approvals, received>>

SaveReport(w) ==
    LET at == request[w].report.at
    IN  /\ request[w].at = "persisted"
        /\ store' = [request[w].copy EXCEPT
                       !.phase = IF at \in Outcomes THEN at ELSE "report_interaction"]
        /\ Done(w)
        /\ UNCHANGED <<review, report, runs, row, approvals, received>>

-----------------------------------------------------------------------------
Serve(w) ==
    \/ LoadReview(w) \/ PassGate(w) \/ RunNode(w) \/ SaveReviewResult(w) \/ SaveError(w)
    \/ GetApprovedPayload(w) \/ ExecuteDraft(w) \/ OpenReport(w) \/ SaveRun(w)
    \/ LoadReport(w) \/ TakeTurn(w) \/ ReadReport(w) \/ SaveReport(w)

Next == \E w \in Workers : Receive(w) \/ Serve(w)

\* A request that was received is served: the calls it makes return or raise.
Fairness == \A w \in Workers : WF_vars(Serve(w))

Spec == Init /\ [][Next]_vars /\ Fairness
-----------------------------------------------------------------------------
(* Properties *)

\* Whatever the order in which requests are served, what is executed is a draft that a
\* user approved on seeing it: the approval is read again after it was saved, when
\* another request may have moved the graph on.
ExecutedWasApproved == \A i \in DOMAIN runs : runs[i] \in approvals

\* A thread is shown as finalized only if a final report is recorded, although the
\* snapshot, the row and the graph are written by requests that know nothing of each
\* other; and what is recorded are runs that were executed.
FinalizedHasRow ==
    /\ store.phase = "finalized" => row # {}
    /\ \A r \in row : {r.run, r.report} \subseteq DOMAIN runs

\* No message is accepted in phase "approved": whoever saves it must leave it, also
\* when the pipeline raises or another request saves the phase a second time.
ApprovedIsLeft == store.phase = "approved" ~> store.phase # "approved"

Diagram ==
    { <<"pending_review", "pending_review">>, <<"pending_review", "approved">>,
      <<"pending_review", "cancelled">>, <<"approved", "report_interaction">>,
      <<"report_interaction", "report_interaction">> }
    \cup { <<"report_interaction", o>> : o \in Outcomes }

\* The phases a thread goes through are those of the documented diagram, in which an
\* approved draft is executed once and an ended workflow stays so.  A report session
\* that asked for a rerun still answers, and any phase may turn into "error".
PhasesFollowTheDiagram ==
    [][store'.phase # "error" => \/ <<store.phase, store'.phase>> \in Diagram
                                 \/ store.phase = "rerun_requested"]_store
-----------------------------------------------------------------------------
(* What is left of it when requests overlap, and what holds when they do not *)

\* A thread is left in phase "approved", where no message is accepted, only while a
\* request is under way that will save another phase.
ApprovedHasItsWorker ==
    store.phase = "approved" =>
        \E w \in Workers :
            request[w].at \in {"approved", "executing", "executed", "opened", "failed"}

\* No request of the thread is received before the one before it is answered.
OneAtATime ==
    \A v, w \in Workers : request[v].at # "idle" /\ request[w].at # "idle" => v = w

\* The approved draft is executed once, and the row names that run and its report.
RowIsOfTheRun == Len(runs) <= 1 /\ \A r \in row : r.run = r.report

\* To the callers a run has happened when its phase is saved, and so has its record.
Ran == IF store.phase = "approved" THEN 0 ELSE Len(runs)

RunOf(rows) == (CHOOSE r \in rows : TRUE).run

Recorded == IF store.phase = "finalized" THEN RunOf(row) ELSE 0

Lifecycle ==
    INSTANCE WorkflowLifecycle WITH phase <- store.phase, runs <- Ran, recorded <- Recorded

\* From the first draft on, the thread goes through the phases that callers rely on.
StepsOfTheLifecycle == [][Lifecycle!Next]_(Lifecycle!vars)
=============================================================================
