---------------------------- MODULE FullWorkflowProofs ----------------------------
(***************************************************************************)
(* FullWorkflow implements WorkflowLifecycle: whatever the language models *)
(* decide and whichever step fails, the callers see the phases in the      *)
(* documented order, runs only after an approval, and a row only for the   *)
(* last run of a finalized workflow.                                       *)
(*                                                                         *)
(* Each of the two graphs keeps its own promises inside the workflow,      *)
(* where a restart may lose one checkpoint of the process and keep files.  *)
(*                                                                         *)
(* And it is safe, for every catalog, every decision of the language       *)
(* models and every bound: a message can be carried out wherever the       *)
(* router sends it, what is executed is what the user approved last, once, *)
(* and what a finalized workflow lists and records is there. The snapshot, *)
(* the two graphs, the pending replies, the files and the row are written  *)
(* at different moments; SafetyInv relates them.                           *)
(***************************************************************************)
EXTENDS FullWorkflow, FiniteSetTheorems, TLAPS

\* The fields the lifecycle reads are there.
SnapshotShape == {"phase", "run"} \subseteq DOMAIN snapshot

\* A report under discussion is of the last run.
ReportIsOfLastRun == snapshot.phase = "report_interaction" => snapshot.run = Len(executions)

\* A report graph that asked for a rerun has ended, and with no other outcome.
RerunHasEnded ==
    snapshot.phase = "rerun_requested" =>
        node = "ended" /\ rerunRequested /\ ~finalized /\ ~cancelled

\* A report graph that waits has not asked for a rerun.
WaitingHasNoRerun == node = "waiting" => ~rerunRequested

\* Execution counts as runs do: what a single execution looks like does not matter.
ExecutionsAreASequence == \E S : executions \in Seq(S)

LifecycleInv ==
    /\ ExecutionsAreASequence
    /\ SnapshotShape
    /\ ReportIsOfLastRun
    /\ RerunHasEnded
    /\ WaitingHasNoRerun

-----------------------------------------------------------------------------
(* What the router makes of a message *)

\* The phase an intent that moves the workflow is for.
PhaseFits(intent, phase) ==
    /\ intent = "resume_target_selection" => phase = "pending_target_selection"
    /\ intent \in {"ask_scope_recommendation", "apply_scope_recommendation",
                   "resume_scope_confirmation"}
          => phase = "pending_scope_confirmation"
    /\ intent = "resume_review" => phase = "pending_review"
    /\ intent = "continue_report_interaction" => phase \in ReportPhases
    /\ intent = "start_new_workflow" => phase \in {"none", "finalized", "cancelled"}

\* The keyword rules keep to the phase, whatever tests a text passes.
LEMMA RulesFitThePhase ==
    ASSUME NEW text, NEW phase, NEW recommended
    PROVE  PhaseFits(Rule(text, phase, recommended), phase)
  <1>1. ASSUME NEW otherwise, PhaseFits(otherwise, phase)
        PROVE  PhaseFits(Meta(text, otherwise), phase)
    BY <1>1 DEF Meta, PhaseFits
  <1>2. CASE phase = "none"
    BY <1>1, <1>2 DEF Rule, PhaseFits
  <1>3. CASE phase = "pending_target_selection"
    BY <1>3 DEF Rule, TargetRule, Meta, PhaseFits
  <1>4. CASE phase = "pending_scope_confirmation"
    BY <1>4 DEF Rule, ScopeRule, Meta, PhaseFits
  <1>5. CASE phase = "pending_review"
    BY <1>5 DEF Rule, ReviewRule, Meta, PhaseFits
  <1>6. CASE phase \in ReportPhases
    BY <1>6 DEF Rule, ReportRule, Meta, PhaseFits, ReportPhases
  <1>7. CASE phase \in {"finalized", "cancelled"}
    BY <1>7 DEF Rule, TerminalRule, Meta, PhaseFits, ReportPhases
  <1>8. CASE phase \notin {"none", "pending_target_selection", "pending_review",
                          "pending_scope_confirmation", "finalized", "cancelled"}
                          \cup ReportPhases
    BY <1>8 DEF Rule, Meta, PhaseFits
  <1> QED BY <1>2, <1>3, <1>4, <1>5, <1>6, <1>7, <1>8

\* Neither a text nor an answer of the language model makes a message something that
\* only another phase can carry out.
THEOREM IntentsFitThePhase ==
    ASSUME NEW text, NEW answer, NEW phase, NEW recommended
    PROVE  PhaseFits(Decide(text, answer, phase, recommended), phase)
  <1> DEFINE rule == Rule(text, phase, recommended)
  <1>1. PhaseFits(rule, phase)
    BY RulesFitThePhase
  <1>2. ASSUME AsksModel(text, phase, rule)
        PROVE  PhaseFits(PhasePolicy(answer, rule, phase, recommended), phase)
    <2>1. CASE phase = "pending_scope_confirmation"
      BY <1>1, <2>1 DEF PhasePolicy, OwnAnswers, PhaseFits
    <2>2. CASE phase = "pending_review"
      BY <1>1, <2>2 DEF PhasePolicy, OwnAnswers, PhaseFits
    <2>3. CASE phase \in ReportPhases
      BY <1>1, <2>3 DEF PhasePolicy, OwnAnswers, PhaseFits, ReportPhases
    <2> QED BY <1>2, <2>1, <2>2, <2>3 DEF AsksModel
  <1> QED BY <1>1, <1>2 DEF Decide

\* What a message is routed to is for the phase of the snapshot.
LEMMA RoutedFits ==
    ASSUME NEW intent, Routed(intent)
    PROVE  PhaseFits(intent, snapshot.phase)
  <1>1. PICK phase \in Phases, recommended \in BOOLEAN, text \in Texts, answer \in Answers :
            [ phase |-> snapshot.phase, recommended |-> snapshot.recommended,
              intent |-> intent ]
          = [ phase |-> phase, recommended |-> recommended,
              intent |-> Decide(text, answer, phase, recommended) ]
    BY RoutesAssumption DEF Routed, Routings
  <1>2. snapshot.phase = phase /\ intent = Decide(text, answer, phase, recommended)
    BY <1>1
  <1> QED BY <1>2, IntentsFitThePhase

-----------------------------------------------------------------------------
(* What the calls of the review orchestrator can answer *)

\* A start never comes back with a decided review.
LEMMA StartAnswers ==
    ASSUME Review!StartReviewFromText
    PROVE  result' \notin {"approved", "cancelled"}
  BY DEF Review!StartReviewFromText, Review!ContinueAfterTargetSelected,
         Review!StartReview, Review!Report, Review!DraftShown, Review!DraftRaises

\* Selecting a target never approves anything.
LEMMA TargetSelectionAnswers ==
    ASSUME Review!ResumeTargetSelection
    PROVE  result' # "approved"
  BY DEF Review!ResumeTargetSelection, Review!NothingToSelect,
         Review!CancelTargetSelection, Review!InvalidTargetSelection,
         Review!SelectTarget, Review!ContinueAfterTargetSelected,
         Review!StartReview, Review!Report, Review!DraftShown, Review!DraftRaises

\* A scope reply never goes back to the target, nor decides the review.
LEMMA ScopeAnswers ==
    ASSUME Review!ResumeScopeConfirmation
    PROVE  result' \notin {"pending_target_selection", "approved", "cancelled"}
  BY DEF Review!ResumeScopeConfirmation, Review!NothingToConfirm, Review!ScopeUnclear,
         Review!ConfirmScope, Review!FinalizeScopeSelection,
         Review!StartReview, Review!Report, Review!DraftShown, Review!DraftRaises

\* A reply to a draft never goes back to target or scope.
LEMMA ReviewAnswers ==
    ASSUME Review!ResumeReview
    PROVE  result' \notin {"pending_target_selection", "pending_scope_confirmation"}
  BY DEF Review!ResumeReview, Review!ResumeNothing, Review!EndReview, Review!Revise,
         Review!RetryDraft, Review!Redraft, Review!Report, Review!DraftShown,
         Review!DraftRaises

\* The phases a review result is mapped to.
LEMMA PhaseOfRange ==
    ASSUME NEW status
    PROVE  /\ PhaseOf(status) \in ReplyPhases \cup {"approved", "cancelled", "error"}
           /\ PhaseOf(status) # "error" => PhaseOf(status) = status
  BY DEF PhaseOf, ReplyPhases

\* Replacing the fields of a snapshot that a review result decides.
LEMMA ReplacedFields ==
    ASSUME NEW r, "phase" \in DOMAIN r, NEW p, NEW q, NEW s, NEW n, NEW f, NEW d, NEW c
    PROVE  LET u == [r EXCEPT !.phase = p, !.request = q, !.recommended = s, !.run = n,
                              !.refs = f, !.finalized = d, !.cancelled = c]
           IN  u.phase = p /\ DOMAIN u = DOMAIN r
  OBVIOUS

\* The snapshot built from a review result.
LEMMA HandledPhase ==
    ASSUME NEW prior, "phase" \in DOMAIN prior, NEW request, NEW status, NEW drafted
    PROVE  /\ HandleReviewResult(prior, request, status, drafted).phase = PhaseOf(status)
           /\ DOMAIN HandleReviewResult(prior, request, status, drafted) = DOMAIN prior
  BY ReplacedFields, Zenon DEF HandleReviewResult

-----------------------------------------------------------------------------
(* What a turn of the report graph can do *)

\* Only a graph that waits takes a message, and one that asks for a rerun ends.
LEMMA TurnEndsOnRerun ==
    ASSUME WaitingHasNoRerun, NEW m \in Messages, Session!Turn(m)
    PROVE  /\ node = "waiting"
           /\ node' \in {"waiting", "ended", "broken"}
           /\ node' # "ended" => ~rerunRequested'
  <1>1. CASE Session!ConfirmDestructiveAction(m)
    BY <1>1 DEF Session!ConfirmDestructiveAction, Session!Receive, Session!Reply,
                WaitingHasNoRerun
  <1>2. CASE Session!ConfirmationDeclined(m)
    BY <1>2 DEF Session!ConfirmationDeclined, Session!Receive, Session!Reply,
                WaitingHasNoRerun
  <1>3. CASE Session!AnswerQuestion(m)
    BY <1>3 DEF Session!AnswerQuestion, Session!Receive, Session!Reply, WaitingHasNoRerun
  <1>4. CASE Session!ReviseReportText(m)
    BY <1>4 DEF Session!ReviseReportText, Session!Receive, Session!Reply,
                WaitingHasNoRerun
  <1>5. CASE Session!ShareReport(m)
    BY <1>5 DEF Session!ShareReport, Session!Receive, Session!Reply, WaitingHasNoRerun
  <1>6. CASE Session!PrepareRerun(m)
    BY <1>6 DEF Session!PrepareRerun, Session!Receive
  <1>7. CASE Session!FinalizeSession(m)
    BY <1>7 DEF Session!FinalizeSession, Session!Receive
  <1>8. CASE Session!CancelSession(m)
    BY <1>8 DEF Session!CancelSession, Session!Receive
  <1>9. CASE Session!NodeRaises(m)
    BY <1>9 DEF Session!NodeRaises, Session!Receive, WaitingHasNoRerun
  <1> QED BY <1>1, <1>2, <1>3, <1>4, <1>5, <1>6, <1>7, <1>8, <1>9 DEF Session!Turn

-----------------------------------------------------------------------------
(* One call: the invariant is kept and the lifecycle takes a step or stutters *)

LifecycleVars == <<snapshot.phase, Len(executions), row>>

LEMMA StartStep ==
    ASSUME LifecycleInv, StartFromText
    PROVE  LifecycleInv' /\ [Lifecycle!Next]_LifecycleVars
  <1>1. /\ UNCHANGED <<executions, row, node, finalized, cancelled, rerunRequested>>
        /\ snapshot.phase # "approved"
    BY DEF StartFromText, DraftWritten, sessionVars, recordVars
  <1>2. result' \notin {"approved", "cancelled"}
    BY StartAnswers DEF StartFromText
  <1>3. CASE snapshot' = snapshot
    BY <1>1, <1>3 DEF LifecycleInv, ExecutionsAreASequence, SnapshotShape, ReportIsOfLastRun, RerunHasEnded,
                      WaitingHasNoRerun, LifecycleVars
  <1>4. CASE snapshot' = HandleReviewResult(NoSnapshot, starts', result', Drafted)
    <2>1. /\ snapshot'.phase = PhaseOf(result')
          /\ DOMAIN snapshot' = DOMAIN NoSnapshot
      BY <1>4, HandledPhase DEF NoSnapshot
    <2>2. /\ snapshot'.phase \in ReplyPhases \cup {"error"}
          /\ SnapshotShape'
      BY <1>2, <2>1, PhaseOfRange DEF NoSnapshot, SnapshotShape
    <2>3. LifecycleInv'
      BY <1>1, <2>2 DEF LifecycleInv, ExecutionsAreASequence, ReportIsOfLastRun, RerunHasEnded,
                        WaitingHasNoRerun, ReplyPhases
    <2>4. Lifecycle!Start
      BY <1>1, <2>2 DEF Lifecycle!Start, ReplyPhases
    <2> QED BY <2>3, <2>4 DEF Lifecycle!Next
  <1> QED BY <1>3, <1>4 DEF StartFromText

\* A reply to the review orchestrator: the snapshot fails or is built from the result.
LEMMA SavedReply ==
    ASSUME LifecycleInv, NEW drafted, SaveReviewResult(drafted)
    PROVE  /\ SnapshotShape'
           /\ \/ snapshot'.phase = "error"
              \/ /\ snapshot'.phase = result'
                 /\ result' \in ReplyPhases \cup {"approved", "cancelled"}
  <1>1. "phase" \in DOMAIN snapshot
    BY DEF LifecycleInv, SnapshotShape
  <1>2. CASE snapshot' = Failed(snapshot)
    BY <1>1, <1>2 DEF Failed, LifecycleInv, SnapshotShape
  <1>3. CASE snapshot' = HandleReviewResult(snapshot, snapshot.request, result', drafted)
    <2>1. /\ snapshot'.phase = PhaseOf(result')
          /\ DOMAIN snapshot' = DOMAIN snapshot
      BY <1>1, <1>3, HandledPhase
    <2> QED BY <2>1, PhaseOfRange DEF LifecycleInv, SnapshotShape, ReplyPhases
  <1> QED BY <1>2, <1>3 DEF SaveReviewResult

\* A call that moves the snapshot to a phase before the run, and no report.
LEMMA BeforeTheRun ==
    ASSUME LifecycleInv, SnapshotShape', snapshot'.phase \notin ReportPhases,
           UNCHANGED <<executions, node, rerunRequested>>
    PROVE  LifecycleInv'
  BY DEF LifecycleInv, ExecutionsAreASequence, ReportIsOfLastRun, RerunHasEnded,
         WaitingHasNoRerun, ReportPhases

\* A call that leaves the snapshot and the report session alone.
LEMMA SnapshotKept ==
    ASSUME LifecycleInv, snapshot'.phase = snapshot.phase, snapshot'.run = snapshot.run,
           SnapshotShape', UNCHANGED <<executions, node, rerunRequested, finalized, cancelled>>
    PROVE  LifecycleInv'
  BY DEF LifecycleInv, ExecutionsAreASequence, ReportIsOfLastRun, RerunHasEnded,
         WaitingHasNoRerun

LEMMA TargetSelectionStep ==
    ASSUME LifecycleInv, ResumeTargetSelection
    PROVE  LifecycleInv' /\ [Lifecycle!Next]_LifecycleVars
  <1>1. /\ UNCHANGED <<executions, row, node, finalized, cancelled, rerunRequested>>
        /\ snapshot.phase = "pending_target_selection"
    BY RoutedFits DEF ResumeTargetSelection, DraftWritten, sessionVars, recordVars,
                      PhaseFits
  <1>2. result' # "approved"
    BY TargetSelectionAnswers DEF ResumeTargetSelection
  <1>3. CASE UNCHANGED snapshot
    BY <1>1, <1>3, SnapshotKept DEF LifecycleInv, SnapshotShape, LifecycleVars
  <1>4. CASE SaveReviewResult(Drafted)
    <2>1. /\ SnapshotShape'
          /\ snapshot'.phase \in ReplyPhases \cup {"cancelled", "error"}
      BY <1>2, <1>4, SavedReply DEF ReplyPhases
    <2>2. LifecycleInv'
      BY <1>1, <2>1, BeforeTheRun DEF ReplyPhases, ReportPhases
    <2>3. Lifecycle!Reply
      BY <1>1, <2>1 DEF Lifecycle!Reply, Lifecycle!AfterReply,
             Lifecycle!Drawn, Lifecycle!Undrawn, ReplyPhases
    <2> QED BY <2>2, <2>3 DEF Lifecycle!Next
  <1> QED BY <1>3, <1>4 DEF ResumeTargetSelection

LEMMA RecommendationStep ==
    ASSUME LifecycleInv, AskScopeRecommendation
    PROVE  LifecycleInv' /\ [Lifecycle!Next]_LifecycleVars
  <1>1. UNCHANGED <<executions, row, node, finalized, cancelled, rerunRequested>>
    BY DEF AskScopeRecommendation, reportVars, sessionVars, recordVars
  <1>2. /\ snapshot'.phase = snapshot.phase
        /\ snapshot'.run = snapshot.run
        /\ SnapshotShape'
    BY DEF AskScopeRecommendation, LifecycleInv, SnapshotShape
  <1> QED BY <1>1, <1>2, SnapshotKept DEF LifecycleVars

LEMMA ScopeConfirmationStep ==
    ASSUME LifecycleInv, ResumeScopeConfirmation
    PROVE  LifecycleInv' /\ [Lifecycle!Next]_LifecycleVars
  <1>1. /\ UNCHANGED <<executions, row, node, finalized, cancelled, rerunRequested>>
        /\ snapshot.phase = "pending_scope_confirmation"
    BY RoutedFits DEF ResumeScopeConfirmation, DraftWritten, sessionVars, recordVars,
                      PhaseFits
  <1>2. /\ SnapshotShape'
        /\ snapshot'.phase \in {"pending_scope_confirmation", "pending_review", "error"}
    <2>1. result' \notin {"pending_target_selection", "approved", "cancelled"}
      BY ScopeAnswers DEF ResumeScopeConfirmation
    <2>2. SaveReviewResult(Drafted)
      BY DEF ResumeScopeConfirmation
    <2> QED BY <2>1, <2>2, SavedReply DEF ReplyPhases
  <1>3. LifecycleInv'
    BY <1>1, <1>2, BeforeTheRun DEF ReportPhases
  <1>4. Lifecycle!Reply
    BY <1>1, <1>2 DEF Lifecycle!Reply, Lifecycle!AfterReply,
           Lifecycle!Drawn, Lifecycle!Undrawn
  <1> QED BY <1>3, <1>4 DEF Lifecycle!Next

LEMMA ReviewStep ==
    ASSUME LifecycleInv, ResumeReview
    PROVE  LifecycleInv' /\ [Lifecycle!Next]_LifecycleVars
  <1>1. /\ UNCHANGED <<executions, row, node, finalized, cancelled, rerunRequested>>
        /\ snapshot.phase = "pending_review"
    BY RoutedFits DEF ResumeReview, DraftWritten, sessionVars, recordVars, PhaseFits
  <1>2. /\ SnapshotShape'
        /\ snapshot'.phase \in {"pending_review", "approved", "cancelled", "error"}
    <2>1. result' \notin {"pending_target_selection", "pending_scope_confirmation"}
      BY ReviewAnswers DEF ResumeReview
    <2>2. SaveReviewResult(TRUE)
      BY DEF ResumeReview
    <2> QED BY <2>1, <2>2, SavedReply DEF ReplyPhases
  <1>3. LifecycleInv'
    BY <1>1, <1>2, BeforeTheRun DEF ReportPhases
  <1>4. Lifecycle!Reply
    BY <1>1, <1>2 DEF Lifecycle!Reply, Lifecycle!AfterReply,
           Lifecycle!Drawn, Lifecycle!Undrawn
  <1> QED BY <1>3, <1>4 DEF Lifecycle!Next

-----------------------------------------------------------------------------
(* The run *)

\* One more execution is one more run.
LEMMA AppendCounts ==
    ASSUME ExecutionsAreASequence, NEW e, executions' = Append(executions, e)
    PROVE  ExecutionsAreASequence' /\ Len(executions') = Len(executions) + 1
  <1>1. PICK S : executions \in Seq(S)
    BY DEF ExecutionsAreASequence
  <1>2. executions \in Seq(S \cup {e})
    BY <1>1
  <1>3. /\ Append(executions, e) \in Seq(S \cup {e})
        /\ Len(Append(executions, e)) = Len(executions) + 1
    BY <1>2
  <1> QED BY <1>3 DEF ExecutionsAreASequence

\* The snapshot of a run whose report is open.
LEMMA ReportOpened ==
    ASSUME NEW r, {"phase", "run"} \subseteq DOMAIN r, NEW p, NEW n, NEW f, NEW t
    PROVE  LET u == [r EXCEPT !.phase = p, !.run = n, !.refs = f, !.tracked = t]
           IN  u.phase = p /\ u.run = n /\ DOMAIN u = DOMAIN r
  OBVIOUS

LEMMA FailedSnapshot ==
    ASSUME SnapshotShape, snapshot' = Failed(snapshot)
    PROVE  SnapshotShape' /\ snapshot'.phase = "error"
  BY DEF Failed, SnapshotShape

LEMMA PipelineStep ==
    ASSUME LifecycleInv, RunPostApprovalPipeline
    PROVE  LifecycleInv' /\ [Lifecycle!Next]_LifecycleVars
  <1>1. /\ snapshot.phase = "approved"
        /\ UNCHANGED row
        /\ ExecutionsAreASequence /\ SnapshotShape /\ WaitingHasNoRerun
    BY DEF RunPostApprovalPipeline, LifecycleInv
  <1>2. CASE /\ Session!StartReportInteractionSession(DraftAt[feedback + 1])
             /\ executions' = Append(executions, Executed)
             /\ snapshot' = [snapshot EXCEPT
                               !.phase = "report_interaction",
                               !.run = Len(executions'),
                               !.refs = @ \cup {"execution", "validation", "staged"},
                               !.tracked = @ \cup artifacts']
    <2>1. ExecutionsAreASequence' /\ Len(executions') = Len(executions) + 1
      BY <1>1, <1>2, AppendCounts
    <2>2. /\ snapshot'.phase = "report_interaction"
          /\ snapshot'.run = Len(executions')
          /\ DOMAIN snapshot' = DOMAIN snapshot
      <3> DEFINE f == snapshot.refs \cup {"execution", "validation", "staged"}
                 t == snapshot.tracked \cup artifacts'
                 n == Len(executions')
      <3>1. snapshot' = [snapshot EXCEPT !.phase = "report_interaction", !.run = n,
                                         !.refs = f, !.tracked = t]
        BY <1>2
      <3>2. {"phase", "run"} \subseteq DOMAIN snapshot
        BY <1>1 DEF SnapshotShape
      <3> HIDE DEF f, t, n
      <3>3. snapshot'.phase = "report_interaction" /\ snapshot'.run = n
            /\ DOMAIN snapshot' = DOMAIN snapshot
        BY <3>1, <3>2, ReportOpened, Zenon
      <3> QED BY <3>3 DEF n
    <2>3. ~rerunRequested'
      BY <1>2 DEF Session!StartReportInteractionSession, Session!ResetSession
    <2>4. LifecycleInv'
      BY <1>1, <2>1, <2>2, <2>3 DEF LifecycleInv, SnapshotShape, ReportIsOfLastRun,
                                    RerunHasEnded, WaitingHasNoRerun
    <2>5. Lifecycle!Run
      BY <1>1, <2>1, <2>2 DEF Lifecycle!Run
    <2> QED BY <2>4, <2>5 DEF Lifecycle!Next
  <1>3. ASSUME snapshot' = Failed(snapshot), WaitingHasNoRerun',
               \/ executions' = executions
               \/ executions' = Append(executions, Executed)
        PROVE  LifecycleInv' /\ [Lifecycle!Next]_LifecycleVars
    <2>1. /\ ExecutionsAreASequence'
          /\ Len(executions') \in {Len(executions), Len(executions) + 1}
      BY <1>1, <1>3, AppendCounts DEF ExecutionsAreASequence
    <2>2. SnapshotShape' /\ snapshot'.phase = "error"
      BY <1>1, <1>3, FailedSnapshot
    <2>3. LifecycleInv'
      BY <1>3, <2>1, <2>2 DEF LifecycleInv, ReportIsOfLastRun, RerunHasEnded
    <2>4. Lifecycle!Run
      BY <1>1, <2>1, <2>2 DEF Lifecycle!Run
    <2> QED BY <2>3, <2>4 DEF Lifecycle!Next
  <1>4. CASE /\ Session!BootstrapRaises(DraftAt[feedback + 1])
             /\ executions' = Append(executions, Executed)
             /\ snapshot' = Failed(snapshot)
    <2>1. WaitingHasNoRerun'
      BY <1>4 DEF Session!BootstrapRaises, WaitingHasNoRerun
    <2> QED BY <1>3, <1>4, <2>1
  <1>5. CASE /\ Session!ReportsWritten(Session!Reports)
             /\ executions' \in {executions, Append(executions, Executed)}
             /\ snapshot' = Failed(snapshot)
    <2>1. WaitingHasNoRerun'
      BY <1>1, <1>5 DEF Session!ReportsWritten, Session!sessionVars, WaitingHasNoRerun
    <2> QED BY <1>3, <1>5, <2>1
  <1> QED BY <1>2, <1>4, <1>5 DEF RunPostApprovalPipeline

-----------------------------------------------------------------------------
(* The report interaction *)

\* The snapshot of a report that was finalized, of one that was cancelled.
LEMMA FinalizedSaved ==
    ASSUME NEW r, {"phase", "run"} \subseteq DOMAIN r, NEW p, NEW f, NEW a, NEW d, NEW c,
           NEW b
    PROVE  LET u == [[r EXCEPT !.tracked = a] EXCEPT !.phase = p, !.refs = f,
                           !.finalized = d, !.cancelled = c, !.rerun = b]
           IN  u.phase = p /\ DOMAIN u = DOMAIN r
  OBVIOUS

LEMMA CancelledSaved ==
    ASSUME NEW r, {"phase", "run"} \subseteq DOMAIN r, NEW p, NEW f, NEW a, NEW t, NEW d,
           NEW c, NEW b
    PROVE  LET u == [[r EXCEPT !.tracked = a] EXCEPT !.phase = p, !.refs = f,
                           !.tracked = t, !.cancelled = c, !.finalized = d, !.rerun = b]
           IN  u.phase = p /\ DOMAIN u = DOMAIN r
  OBVIOUS

LEMMA FinalizedSnapshot ==
    ASSUME SnapshotShape, NEW p, snapshot' = Finalized(p)
    PROVE  SnapshotShape' /\ snapshot'.phase = p
  <1> DEFINE a == snapshot.tracked \cup artifacts'
             f == Updated.refs \cup {"final"}
  <1>1. snapshot' = [[snapshot EXCEPT !.tracked = a] EXCEPT !.phase = p, !.refs = f,
                        !.finalized = TRUE, !.cancelled = FALSE, !.rerun = FALSE]
    BY DEF Finalized, Updated
  <1>2. {"phase", "run"} \subseteq DOMAIN snapshot
    BY DEF SnapshotShape
  <1> HIDE DEF a, f
  <1>3. snapshot'.phase = p /\ DOMAIN snapshot' = DOMAIN snapshot
    BY <1>1, <1>2, FinalizedSaved, Zenon
  <1> QED BY <1>2, <1>3 DEF SnapshotShape

LEMMA CancelledSnapshot ==
    ASSUME SnapshotShape, SaveCancelled
    PROVE  SnapshotShape' /\ snapshot'.phase = "cancelled"
  <1> DEFINE a == snapshot.tracked \cup artifacts'
             f == Updated.refs \ {"staged", "final"}
             t == {}
  <1>1. snapshot' = [[snapshot EXCEPT !.tracked = a] EXCEPT !.phase = "cancelled",
                        !.refs = f, !.tracked = t, !.cancelled = TRUE,
                        !.finalized = FALSE, !.rerun = FALSE]
    BY DEF SaveCancelled, Updated
  <1>2. {"phase", "run"} \subseteq DOMAIN snapshot
    BY DEF SnapshotShape
  <1> HIDE DEF a, f, t
  <1>3. snapshot'.phase = "cancelled" /\ DOMAIN snapshot' = DOMAIN snapshot
    BY <1>1, <1>2, CancelledSaved, Zenon
  <1> QED BY <1>2, <1>3 DEF SnapshotShape

\* The snapshot of a report that stays open or whose rerun was asked for.
LEMMA OpenSnapshot ==
    ASSUME SnapshotShape, NEW p, NEW b,
           \/ snapshot' = [Updated EXCEPT !.phase = p]
           \/ snapshot' = [Updated EXCEPT !.phase = p, !.rerun = b]
    PROVE  SnapshotShape' /\ snapshot'.phase = p /\ snapshot'.run = snapshot.run
  BY DEF SnapshotShape, Updated

LEMMA InteractionStep ==
    ASSUME LifecycleInv, NEW m \in Messages, ContinueReportInteraction(m)
    PROVE  LifecycleInv' /\ [Lifecycle!Next]_LifecycleVars
  <1>1. /\ snapshot.phase \in {"report_interaction", "rerun_requested"}
        /\ UNCHANGED executions
        /\ ExecutionsAreASequence' /\ SnapshotShape
    BY RoutedFits DEF ContinueReportInteraction, ReportPhases, LifecycleInv,
                      ExecutionsAreASequence, PhaseFits
  <1>2. CASE snapshot.phase = "rerun_requested"
    <2>1. /\ node = "ended" /\ rerunRequested /\ ~finalized /\ ~cancelled
          /\ ~Session!Turn(m)
      BY <1>2, TurnEndsOnRerun DEF LifecycleInv, RerunHasEnded
    <2>2. UNCHANGED <<node, rerunRequested, finalized, cancelled>>
      BY <2>1 DEF ContinueReportInteraction, reportVars, sessionVars
    <2>3. SaveRerunRequested
      BY <2>1, <2>2 DEF ContinueReportInteraction, SaveFinalized, SaveCancelled,
                        SaveInteraction
    <2>4. SnapshotShape' /\ snapshot'.phase = "rerun_requested"
      BY <1>1, <2>3, OpenSnapshot DEF SaveRerunRequested
    <2>5. LifecycleInv'
      BY <1>1, <2>1, <2>2, <2>4 DEF LifecycleInv, ReportIsOfLastRun, RerunHasEnded,
                                    WaitingHasNoRerun
    <2>6. UNCHANGED LifecycleVars
      BY <1>1, <1>2, <2>3, <2>4 DEF LifecycleVars, SaveRerunRequested
    <2> QED BY <2>5, <2>6
  <1>3. CASE snapshot.phase = "report_interaction"
    <2>1. snapshot.run = Len(executions)
      BY <1>3 DEF LifecycleInv, ReportIsOfLastRun
    <2>2. /\ node' \in {"waiting", "ended", "broken"}
          /\ node' # "ended" => ~rerunRequested'
      BY TurnEndsOnRerun DEF ContinueReportInteraction, LifecycleInv, reportVars,
                             sessionVars
    <2>3. WaitingHasNoRerun'
      BY <2>2 DEF WaitingHasNoRerun
    <2>4. ASSUME SnapshotShape', snapshot'.phase \in {"finalized", "cancelled", "error"}
          PROVE  LifecycleInv'
      BY <1>1, <2>3, <2>4 DEF LifecycleInv, ReportIsOfLastRun, RerunHasEnded
    <2>5. ASSUME UNCHANGED row, snapshot'.phase \in Lifecycle!AfterReply["report_interaction"]
          PROVE  Lifecycle!Next
      BY <1>1, <1>3, <2>5 DEF Lifecycle!Next, Lifecycle!Reply, Lifecycle!AfterReply,
             Lifecycle!Drawn, Lifecycle!Undrawn
    <2>6. CASE snapshot' = Failed(snapshot) /\ UNCHANGED row
      <3>1. SnapshotShape' /\ snapshot'.phase = "error"
        BY <1>1, <2>6, FailedSnapshot
      <3> QED BY <2>4, <2>5, <2>6, <3>1 DEF Lifecycle!AfterReply,
             Lifecycle!Drawn, Lifecycle!Undrawn
    <2>7. CASE SaveFinalized
      <3>1. CASE row' = snapshot.run /\ snapshot' = Finalized("finalized")
        <4>1. SnapshotShape' /\ snapshot'.phase = "finalized"
          BY <1>1, <3>1, FinalizedSnapshot
        <4>2. Lifecycle!Finalize
          BY <1>1, <1>3, <2>1, <3>1, <4>1 DEF Lifecycle!Finalize
        <4> QED BY <2>4, <4>1, <4>2 DEF Lifecycle!Next
      <3>2. CASE row' = row /\ snapshot' = Finalized("error")
        <4>1. SnapshotShape' /\ snapshot'.phase = "error"
          BY <1>1, <3>2, FinalizedSnapshot
        <4> QED BY <2>4, <2>5, <3>2, <4>1 DEF Lifecycle!AfterReply,
               Lifecycle!Drawn, Lifecycle!Undrawn
      <3> QED BY <2>7, <3>1, <3>2 DEF SaveFinalized
    <2>8. CASE SaveCancelled
      <3>1. SnapshotShape' /\ snapshot'.phase = "cancelled"
        BY <1>1, <2>8, CancelledSnapshot
      <3>2. UNCHANGED row
        BY <2>8 DEF SaveCancelled
      <3> QED BY <2>4, <2>5, <3>1, <3>2 DEF Lifecycle!AfterReply,
             Lifecycle!Drawn, Lifecycle!Undrawn
    <2>9. CASE SaveRerunRequested
      <3>1. SnapshotShape' /\ snapshot'.phase = "rerun_requested"
        BY <1>1, <2>9, OpenSnapshot DEF SaveRerunRequested
      <3>2. UNCHANGED row /\ node' = "ended" /\ rerunRequested' /\ ~finalized' /\ ~cancelled'
        BY <2>2, <2>9 DEF SaveRerunRequested
      <3>3. LifecycleInv'
        BY <1>1, <2>3, <3>1, <3>2 DEF LifecycleInv, ReportIsOfLastRun, RerunHasEnded
      <3> QED BY <2>5, <3>1, <3>2, <3>3 DEF Lifecycle!AfterReply,
             Lifecycle!Drawn, Lifecycle!Undrawn
    <2>10. CASE SaveInteraction
      <3>1. /\ SnapshotShape' /\ snapshot'.phase = "report_interaction"
            /\ snapshot'.run = snapshot.run
        BY <1>1, <2>10, OpenSnapshot DEF SaveInteraction
      <3>2. UNCHANGED row
        BY <2>10 DEF SaveInteraction
      <3>3. LifecycleInv'
        BY <1>1, <2>1, <2>3, <3>1 DEF LifecycleInv, ReportIsOfLastRun, RerunHasEnded
      <3> QED BY <2>5, <3>1, <3>2, <3>3 DEF Lifecycle!AfterReply,
             Lifecycle!Drawn, Lifecycle!Undrawn
    <2> QED BY <2>6, <2>7, <2>8, <2>9, <2>10 DEF ContinueReportInteraction
  <1> QED BY <1>1, <1>2, <1>3

-----------------------------------------------------------------------------
(* The process, and the whole specification *)

LEMMA RestartStep ==
    ASSUME LifecycleInv, ProcessRestart
    PROVE  LifecycleInv' /\ [Lifecycle!Next]_LifecycleVars
  <1>1. /\ UNCHANGED <<executions, row>>
        /\ snapshot' = NoSnapshot
    BY DEF ProcessRestart, recordVars
  <1>2. SnapshotShape' /\ snapshot'.phase = "none"
    BY <1>1 DEF NoSnapshot, SnapshotShape
  <1>3. WaitingHasNoRerun'
    BY DEF ProcessRestart, CheckpointsKept, CheckpointsLost, sessionVars, LifecycleInv,
           WaitingHasNoRerun
  <1>4. LifecycleInv'
    BY <1>1, <1>2, <1>3 DEF LifecycleInv, ExecutionsAreASequence, ReportIsOfLastRun,
                            RerunHasEnded
  <1>5. Lifecycle!Stop
    BY <1>1, <1>2 DEF Lifecycle!Stop
  <1> QED BY <1>4, <1>5 DEF Lifecycle!Next

LEMMA EveryStep ==
    ASSUME LifecycleInv, [Next]_vars
    PROVE  LifecycleInv' /\ [Lifecycle!Next]_LifecycleVars
  <1>1. CASE UNCHANGED vars
    BY <1>1, SnapshotKept DEF vars, reportVars, sessionVars, recordVars, LifecycleInv,
                              SnapshotShape, LifecycleVars
  <1>2. CASE StartFromText
    BY <1>2, StartStep
  <1>3. CASE ResumeTargetSelection
    BY <1>3, TargetSelectionStep
  <1>4. CASE AskScopeRecommendation
    BY <1>4, RecommendationStep
  <1>5. CASE ResumeScopeConfirmation
    BY <1>5, ScopeConfirmationStep
  <1>6. CASE ResumeReview
    BY <1>6, ReviewStep
  <1>7. CASE RunPostApprovalPipeline
    BY <1>7, PipelineStep
  <1>8. ASSUME NEW m \in Messages, ContinueReportInteraction(m)
        PROVE  LifecycleInv' /\ [Lifecycle!Next]_LifecycleVars
    BY <1>8, InteractionStep
  <1>9. CASE ProcessRestart
    BY <1>9, RestartStep
  <1> QED BY <1>1, <1>2, <1>3, <1>4, <1>5, <1>6, <1>7, <1>8, <1>9 DEF Next

LEMMA InitialStep ==
    Init => LifecycleInv /\ Lifecycle!Init
  <1> SUFFICES ASSUME Init PROVE LifecycleInv /\ Lifecycle!Init
    OBVIOUS
  <1>1. /\ snapshot = NoSnapshot /\ executions = <<>> /\ row = 0
        /\ ~rerunRequested
    BY DEF Init, Session!Init
  <1>2. executions \in Seq({}) /\ Len(executions) = 0
    BY <1>1
  <1>3. SnapshotShape /\ snapshot.phase = "none"
    BY <1>1 DEF NoSnapshot, SnapshotShape
  <1> QED BY <1>1, <1>2, <1>3 DEF LifecycleInv, ExecutionsAreASequence,
                ReportIsOfLastRun, RerunHasEnded, WaitingHasNoRerun, Lifecycle!Init

\* The facts the lifecycle rests on hold in every reachable state: a report under
\* discussion is of the last run, and a graph that asked for a rerun takes no message.
THEOREM InvariantHolds == Spec => []LifecycleInv
  <1>1. Init => LifecycleInv
    BY InitialStep
  <1>2. LifecycleInv /\ [Next]_vars => LifecycleInv'
    BY EveryStep
  <1> QED BY <1>1, <1>2, PTL DEF Spec

\* The orchestrator implements the lifecycle: no sequence of replies, failures and
\* restarts executes a workflow that is not approved, records a run other than the last
\* one or before its report is finalized, or goes from a phase to one that is neither its
\* successor in the documented diagram nor listed as one the diagram lacks.
THEOREM Implements == Spec => ImplementsLifecycle
  <1>1. Init => Lifecycle!Init
    BY InitialStep
  <1>2. LifecycleInv /\ [Next]_vars => [Lifecycle!Next]_LifecycleVars
    BY EveryStep
  <1>3. Spec => Lifecycle!Init /\ [][Lifecycle!Next]_LifecycleVars
    BY <1>1, <1>2, InvariantHolds, PTL DEF Spec
  <1> QED BY <1>3 DEF ImplementsLifecycle, Lifecycle!Spec, Lifecycle!vars, LifecycleVars

-----------------------------------------------------------------------------
(* The review within the workflow *)

\* A started review has a target and some of its operations, within the scope the user
\* confirmed until feedback changes it, and what is drafted is those operations.
ReviewIsScoped ==
    /\ graph # "absent" => /\ target \in Targets
                           /\ contexts # {} /\ contexts \subseteq Catalog[target]
    /\ graph = "absent" => chosen = {}
    /\ chosen # {} /\ feedback = 0 => contexts \subseteq chosen
    /\ graph \in {"waiting", "approved", "cancelled"} => drafts = contexts

GraphInv == Review!GraphOK /\ ReviewIsScoped

ReviewInv == Review!PendingOK /\ starts \in 0..MaxStarts /\ GraphInv

\* A call that only reports leaves the review as it was.
LEMMA ReportKeepsGraph ==
    ASSUME GraphInv, NEW status \in Review!Statuses, Review!Report(status)
    PROVE  GraphInv'
  BY DEF GraphInv, ReviewIsScoped, Review!Report, Review!graphVars, Review!GraphOK

\* A review that starts, drafted or not, is scoped.
LEMMA StartIsScoped ==
    ASSUME GraphInv, NEW t \in Targets, NEW operations \in SUBSET Catalog[t],
           NEW scope \in SUBSET Operations, NEW request \in 1..MaxStarts,
           scope # {} => operations \subseteq scope,
           Review!StartReview(t, operations, scope, request)
    PROVE  GraphInv'
  <1>1. operations \subseteq Operations /\ 0 \in 0..MaxFeedback /\ request \in 0..MaxStarts
    BY DesignAssumption, StartsAssumption
  <1>2. /\ target' = t /\ contexts' = operations /\ operations # {} /\ feedback' = 0
        /\ reviewOf' = request /\ chosen' = scope
    BY DEF Review!StartReview
  <1>3. /\ initialScope' \subseteq Operations /\ drafts' \subseteq Operations
        /\ preview' \subseteq Operations /\ result' \in Review!Statuses
        /\ \/ graph' = "waiting" /\ drafts' = contexts'
           \/ graph' = "broken"
    BY <1>1, <1>2 DEF Review!StartReview, Review!DraftShown, Review!DraftRaises, GraphInv,
                      Review!GraphOK, Review!Statuses
  <1>4. Review!GraphOK'
    BY <1>1, <1>2, <1>3 DEF Review!GraphOK
  <1>5. ReviewIsScoped'
    BY <1>2, <1>3 DEF ReviewIsScoped
  <1> QED BY <1>4, <1>5 DEF GraphInv

ScopesOK == pendingScopes \subseteq Review!ScopeEntry /\ \A e, f \in pendingScopes : e = f

\* With the target known: the entry that may be set, or the review that may start, is of
\* that target.
LEMMA ContinueIsScoped ==
    ASSUME GraphInv, ScopesOK, NEW t \in Targets, NEW request \in 1..MaxStarts,
           Review!ContinueAfterTargetSelected(t, request)
    PROVE  GraphInv' /\ ScopesOK'
  <1>1. CASE /\ Review!Report("raised") \/ Review!Report("invalid_function")
             /\ UNCHANGED pendingScopes
    BY <1>1, ReportKeepsGraph DEF Review!Statuses, ScopesOK
  <1>2. CASE /\ \E k \in Limits :
                    pendingScopes' = {[request |-> request, target |-> t, limit |-> k,
                                       recommended |-> FALSE]}
             /\ Review!Report("pending_scope_confirmation")
    <2>1. GraphInv'
      BY <1>2, ReportKeepsGraph DEF Review!Statuses
    <2> QED BY <1>2, <2>1 DEF ScopesOK, Review!ScopeEntry
  <1>3. CASE /\ \E wanted \in SUBSET Catalog[t], k \in Limits :
                    Review!StartReview(t, Review!FirstOf(wanted, k), {}, request)
             /\ UNCHANGED pendingScopes
    <2>1. PICK wanted \in SUBSET Catalog[t], k \in Limits :
              Review!StartReview(t, Review!FirstOf(wanted, k), {}, request)
      BY <1>3
    <2>2. Review!FirstOf(wanted, k) \in SUBSET Catalog[t]
      BY DEF Review!FirstOf
    <2> QED BY <1>3, <2>1, <2>2, StartIsScoped DEF ScopesOK
  <1> QED BY <1>1, <1>2, <1>3 DEF Review!ContinueAfterTargetSelected

\* Finalizing a scope starts the review within it, or leaves the entry.
LEMMA FinalizedIsScoped ==
    ASSUME GraphInv, ScopesOK, NEW entry \in pendingScopes, NEW d \in Decisions,
           Review!FinalizeScopeSelection(entry, d)
    PROVE  GraphInv' /\ ScopesOK'
  <1> DEFINE scope == Review!ScopedOperations(d, Catalog[entry.target])
             cut   == Review!FirstOf(scope, entry.limit)
  <1>1. /\ entry.target \in Targets /\ entry.request \in 1..MaxStarts
        /\ Catalog[entry.target] \subseteq Operations
    BY DesignAssumption DEF ScopesOK, Review!ScopeEntry
  <1>2. scope \subseteq Catalog[entry.target]
    BY DEF Review!ScopedOperations, Review!PickedOperations, Review!ExpandGroups
  <1>3. cut \subseteq scope
    BY DEF Review!FirstOf
  <1>4. CASE Review!Report("pending_scope_confirmation") /\ UNCHANGED pendingScopes
    BY <1>4, ReportKeepsGraph DEF Review!Statuses, ScopesOK
  <1>5. CASE /\ scope # {} /\ pendingScopes' = {}
             /\ Review!StartReview(entry.target, cut, scope, entry.request)
    <2> HIDE DEF scope, cut
    <2>1. GraphInv'
      BY <1>1, <1>2, <1>3, <1>5, StartIsScoped
    <2> QED BY <1>5, <2>1 DEF ScopesOK
  <1> QED BY <1>4, <1>5 DEF Review!FinalizeScopeSelection

\* Whatever the feedback, what is drafted next are operations of the same target.
LEMMA RefinedIsTestable ==
    ASSUME NEW d \in Refinements, NEW all, NEW current \in SUBSET all, current # {}
    PROVE  Review!Refine(current, all, d) \in SUBSET all /\ Review!Refine(current, all, d) # {}
  <1>1. Review!Proposed(current, all, d) \subseteq all
    <2>1. Review!Patched(current, all, d) \subseteq all
      BY DEF Review!Patched
    <2>2. d.mode \in Review!RefineModes
      BY DesignAssumption DEF Review!RefinementType
    <2> QED BY <2>1, <2>2 DEF Review!Proposed, Review!RefineModes, Review!PatchModes,
                              Review!KeepModes
  <1> QED BY <1>1 DEF Review!Refine

\* Another round of a scoped review is scoped.
LEMMA RedraftIsScoped ==
    ASSUME GraphInv, graph \in {"waiting", "broken"}, feedback' \in 0..MaxFeedback,
           feedback' = 0 => feedback = 0, Review!Redraft
    PROVE  GraphInv'
  <1>1. /\ target \in Targets /\ contexts # {} /\ contexts \subseteq Catalog[target]
        /\ Catalog[target] \subseteq Operations
    BY DesignAssumption DEF GraphInv, ReviewIsScoped
  <1>2. /\ contexts' # {} /\ contexts' \subseteq Catalog[target]
        /\ UNCHANGED <<target, chosen, reviewOf>>
    BY <1>1, RefinedIsTestable DEF Review!Redraft
  <1>3. feedback' = 0 => contexts' = contexts
    <2>1. 0 \in Nat /\ ~(0 > 0)
      OBVIOUS
    <2> QED BY <2>1 DEF Review!Redraft
  <1>4. /\ initialScope' \subseteq Operations /\ drafts' \subseteq Operations
        /\ preview' \subseteq Operations /\ result' \in Review!Statuses
        /\ \/ graph' = "waiting" /\ drafts' = contexts'
           \/ graph' = "broken"
    BY <1>1, <1>2 DEF Review!Redraft, Review!DraftShown, Review!DraftRaises, GraphInv,
                      Review!GraphOK, Review!Statuses
  <1>5. Review!GraphOK'
    BY <1>1, <1>2, <1>4 DEF GraphInv, Review!GraphOK
  <1>6. ReviewIsScoped'
    BY <1>1, <1>2, <1>3, <1>4 DEF GraphInv, ReviewIsScoped
  <1> QED BY <1>5, <1>6 DEF GraphInv

-----------------------------------------------------------------------------

\* A start is of the next request, and what it leaves waiting is of that one.
LEMMA StartKeepsReview ==
    ASSUME ReviewInv, Review!StartReviewFromText
    PROVE  ReviewInv'
  <1>1. starts' \in 1..MaxStarts /\ starts' \in 0..MaxStarts
    BY StartsAssumption DEF ReviewInv, Review!StartReviewFromText
  <1>2. CASE /\ Review!Report("raised") \/ Review!Report("target_not_found")
             /\ UNCHANGED Review!pendingVars
    <2>1. GraphInv'
      BY <1>2, ReportKeepsGraph DEF ReviewInv, Review!Statuses
    <2> QED BY <1>1, <1>2, <2>1 DEF ReviewInv, Review!PendingOK, Review!pendingVars
  <1>3. CASE /\ \E found \in (SUBSET Targets) \ {{}} :
                    pendingTargets' = {[request |-> starts', candidates |-> found]}
             /\ Review!Report("pending_target_selection")
             /\ UNCHANGED pendingScopes
    <2>1. GraphInv'
      BY <1>3, ReportKeepsGraph DEF ReviewInv, Review!Statuses
    <2>2. Review!PendingOK'
      BY <1>1, <1>3 DEF ReviewInv, Review!PendingOK, Review!TargetEntry
    <2> QED BY <1>1, <2>1, <2>2 DEF ReviewInv
  <1>4. CASE /\ \E t \in Targets : Review!ContinueAfterTargetSelected(t, starts')
             /\ UNCHANGED pendingTargets
    <2>1. PICK t \in Targets : Review!ContinueAfterTargetSelected(t, starts')
      BY <1>4
    <2>2. GraphInv' /\ ScopesOK'
      BY <1>1, <2>1, ContinueIsScoped DEF ReviewInv, Review!PendingOK, ScopesOK
    <2> QED BY <1>1, <1>4, <2>2 DEF ReviewInv, Review!PendingOK, ScopesOK
  <1> QED BY <1>2, <1>3, <1>4 DEF Review!StartReviewFromText

\* A target selection goes on with the candidate chosen.
LEMMA TargetSelectionKeepsReview ==
    ASSUME ReviewInv, Review!ResumeTargetSelection
    PROVE  ReviewInv'
  <1>1. CASE Review!NothingToSelect \/ Review!CancelTargetSelection
             \/ Review!InvalidTargetSelection
    <2>1. GraphInv'
      BY <1>1, ReportKeepsGraph
      DEF ReviewInv, Review!NothingToSelect, Review!CancelTargetSelection,
          Review!InvalidTargetSelection, Review!Statuses
    <2> QED BY <1>1, <2>1
            DEF ReviewInv, Review!PendingOK, Review!NothingToSelect, Review!pendingVars,
                Review!CancelTargetSelection, Review!InvalidTargetSelection
  <1>2. CASE Review!SelectTarget
    <2>1. PICK entry \in pendingTargets, t \in Targets :
              Review!ContinueAfterTargetSelected(t, entry.request)
      BY <1>2 DEF Review!SelectTarget
    <2>2. entry.request \in 1..MaxStarts
      BY <2>1 DEF ReviewInv, Review!PendingOK, Review!TargetEntry
    <2>3. GraphInv' /\ ScopesOK'
      BY <2>1, <2>2, ContinueIsScoped DEF ReviewInv, Review!PendingOK, ScopesOK
    <2> QED BY <1>2, <2>3 DEF ReviewInv, Review!PendingOK, ScopesOK, Review!SelectTarget
  <1> QED BY <1>1, <1>2 DEF Review!ResumeTargetSelection

\* A recommendation changes one field of the entry that waits.
LEMMA RecommendationKeepsReview ==
    ASSUME ReviewInv, NEW recommended \in BOOLEAN,
           Review!RememberScopeRecommendation(recommended)
    PROVE  ReviewInv'
  <1>1. \A e \in Review!ScopeEntry :
            [e EXCEPT !.recommended = recommended] \in Review!ScopeEntry
    BY DEF Review!ScopeEntry
  <1>2. /\ pendingScopes' = { [e EXCEPT !.recommended = recommended] : e \in pendingScopes }
        /\ UNCHANGED <<pendingTargets, Review!graphVars, Review!shownVars, starts>>
    BY DEF Review!RememberScopeRecommendation
  <1>3. ScopesOK
    BY DEF ReviewInv, Review!PendingOK, ScopesOK
  <1>4. pendingScopes' \subseteq Review!ScopeEntry
    BY <1>1, <1>2, <1>3 DEF ScopesOK
  <1>5. \A e, f \in pendingScopes' : e = f
    BY <1>2, <1>3 DEF ScopesOK
  <1> QED BY <1>2, <1>4, <1>5 DEF ReviewInv, Review!PendingOK, GraphInv, ReviewIsScoped,
                                  Review!GraphOK, Review!graphVars, Review!shownVars

\* A reply to the scope question starts the review of the entry's target, or nothing.
LEMMA ScopeConfirmationKeepsReview ==
    ASSUME ReviewInv, Review!ResumeScopeConfirmation
    PROVE  ReviewInv'
  <1>1. CASE Review!NothingToConfirm \/ Review!ScopeUnclear
    <2>1. GraphInv'
      BY <1>1, ReportKeepsGraph DEF ReviewInv, Review!NothingToConfirm,
                                    Review!ScopeUnclear, Review!Statuses
    <2> QED BY <1>1, <2>1 DEF ReviewInv, Review!PendingOK, Review!NothingToConfirm,
                              Review!ScopeUnclear, Review!pendingVars
  <1>2. CASE Review!ConfirmScope
    <2>1. PICK entry \in pendingScopes, d \in Decisions :
              Review!FinalizeScopeSelection(entry, d)
      BY <1>2 DEF Review!ConfirmScope
    <2>2. GraphInv' /\ ScopesOK'
      BY <2>1, FinalizedIsScoped DEF ReviewInv, Review!PendingOK, ScopesOK
    <2> QED BY <1>2, <2>2 DEF ReviewInv, Review!PendingOK, ScopesOK, Review!ConfirmScope
  <1> QED BY <1>1, <1>2 DEF Review!ResumeScopeConfirmation

\* A reply to a draft ends the review or asks for another round.
LEMMA ReplyKeepsReview ==
    ASSUME ReviewInv, Review!ResumeReview
    PROVE  ReviewInv'
  <1>1. CASE Review!ResumeNothing
    <2>1. GraphInv'
      BY <1>1, ReportKeepsGraph DEF ReviewInv, Review!ResumeNothing, Review!Statuses
    <2> QED BY <1>1, <2>1 DEF ReviewInv, Review!PendingOK, Review!ResumeNothing,
                              Review!pendingVars
  <1>2. ASSUME NEW status \in {"approved", "cancelled"}, Review!EndReview(status)
        PROVE  ReviewInv'
    BY <1>2 DEF Review!EndReview, Review!pendingVars, ReviewInv, Review!PendingOK, GraphInv,
                ReviewIsScoped, Review!GraphOK, Review!Statuses
  <1>3. CASE Review!Revise \/ Review!RetryDraft
    <2>1. /\ graph \in {"waiting", "broken"} /\ feedback' \in 0..MaxFeedback
          /\ feedback' = 0 => feedback = 0
          /\ Review!Redraft
      BY <1>3, DesignAssumption DEF Review!Revise, Review!RetryDraft, ReviewInv, GraphInv,
                                    Review!GraphOK
    <2>2. GraphInv'
      BY <2>1, RedraftIsScoped DEF ReviewInv
    <2> QED BY <2>1, <2>2 DEF ReviewInv, Review!PendingOK, Review!Redraft,
                              Review!pendingVars
  <1> QED BY <1>1, <1>2, <1>3 DEF Review!ResumeReview

\* Every step of the workflow.
LEMMA ReviewKeptScoped ==
    ASSUME ReviewInv, [Next]_vars
    PROVE  ReviewInv'
  <1>1. CASE UNCHANGED reviewVars
    BY <1>1 DEF reviewVars, ReviewInv, Review!PendingOK, GraphInv, ReviewIsScoped,
                Review!GraphOK
  <1>2. CASE UNCHANGED vars
    BY <1>1, <1>2 DEF vars
  <1>3. CASE StartFromText
    BY <1>3, StartKeepsReview DEF StartFromText
  <1>4. CASE ResumeTargetSelection
    BY <1>4, TargetSelectionKeepsReview DEF ResumeTargetSelection
  <1>5. CASE AskScopeRecommendation
    BY <1>5, RecommendationKeepsReview DEF AskScopeRecommendation
  <1>6. CASE ResumeScopeConfirmation
    BY <1>6, ScopeConfirmationKeepsReview DEF ResumeScopeConfirmation
  <1>7. CASE ResumeReview
    BY <1>7, ReplyKeepsReview DEF ResumeReview
  <1>8. CASE RunPostApprovalPipeline \/ \E m \in Messages : ContinueReportInteraction(m)
    BY <1>1, <1>8 DEF RunPostApprovalPipeline, ContinueReportInteraction
  <1>9. CASE ProcessRestart
    <2>1. /\ pendingTargets' = {} /\ pendingScopes' = {} /\ starts' = starts
          /\ result' = "none" /\ preview' = {}
      BY <1>9 DEF ProcessRestart
    <2>2. CASE CheckpointsKept
      BY <2>1, <2>2 DEF CheckpointsKept, ReviewInv, Review!PendingOK, GraphInv,
                        ReviewIsScoped, Review!GraphOK, Review!Statuses
    <2>3. CASE CheckpointsLost
      <3>1. 0 \in 0..MaxFeedback /\ 0 \in 0..MaxStarts
        BY DesignAssumption, StartsAssumption
      <3> QED BY <2>1, <2>3, <3>1 DEF CheckpointsLost, ReviewInv, Review!PendingOK,
                                      GraphInv, ReviewIsScoped, Review!GraphOK,
                                      Review!Statuses
    <2> QED BY <1>9, <2>2, <2>3 DEF ProcessRestart
  <1> QED BY <1>2, <1>3, <1>4, <1>5, <1>6, <1>7, <1>8, <1>9 DEF Next

\* A thread without a review.
LEMMA InitiallyScoped == Init => ReviewInv
  <1>1. 0 \in 0..MaxFeedback /\ 0 \in 0..MaxStarts
    BY DesignAssumption, StartsAssumption
  <1> QED BY <1>1 DEF Init, Review!Init, ReviewInv, Review!PendingOK, GraphInv,
                      ReviewIsScoped, Review!GraphOK, Review!Statuses

\* In every state of the workflow.
LEMMA ReviewHolds == Spec => []ReviewInv
  BY InitiallyScoped, ReviewKeptScoped, PTL DEF Spec

-----------------------------------------------------------------------------
(* The report session within the workflow *)

\* The checkpoint of the session is lost with the process; its files are not.
SessionLost ==
    /\ node' = "absent" /\ lastIntent' = "none" /\ response' = "none"
    /\ latestMessage' = Session!NoMessage
    /\ finalized' = FALSE /\ cancelled' = FALSE /\ rerunRequested' = FALSE
    /\ finalPath' = FALSE /\ markdown' = 0 /\ artifacts' = {}
    /\ disk \subseteq disk' /\ disk' \subseteq Session!File \cup disk
    /\ UNCHANGED <<finalText, sessions>>

\* The round of a draft is one that has a file.
LEMMA RoundHasAFile ==
    ASSUME ReviewInv'
    PROVE  RoundDraft \in Drafts
  <1>1. feedback' \in 0..MaxFeedback
    BY Zenon DEF ReviewInv, GraphInv, Review!GraphOK
  <1>a. MaxFeedback \in Nat
    BY DesignAssumption, Zenon
  <1>b. \A n \in Nat : \A r \in 0..n : r + 1 \in 1..(n + 1)
    OBVIOUS
  <1>2. feedback' + 1 \in 1..(MaxFeedback + 1)
    BY <1>1, <1>a, <1>b, Zenon
  <1>3. \A round \in 1..(MaxFeedback + 1) : DraftAt[round] \in Drafts
    BY Zenon DEF Drafts
  <1> QED BY <1>2, <1>3, Zenon DEF RoundDraft

\* A draft, written or half written, is a report beside the session.
LEMMA DraftIsAReport ==
    ASSUME ReviewInv', DraftWritten
    PROVE  Session!ReportsWritten(Session!Reports \cup Drafts)
  <1>1. disk' = disk \cup {} \/ disk' = disk \cup {RoundDraft}
    BY DEF DraftWritten
  <1>2. {} \in SUBSET (Session!Reports \cup Drafts)
        /\ {RoundDraft} \in SUBSET (Session!Reports \cup Drafts)
    BY RoundHasAFile
  <1> QED BY <1>1, <1>2 DEF DraftWritten, Session!ReportsWritten, Session!sessionVars,
                            sessionVars

\* The workflow moves the session and its files by the session's own operations only,
\* or loses the checkpoint.
LEMMA SessionSteps ==
    ASSUME ReviewInv, [Next]_vars
    PROVE  Session!Next \/ SessionLost \/ UNCHANGED Session!vars
  <1>0. ReviewInv'
    BY ReviewKeptScoped
  <1>1. CASE UNCHANGED reportVars
    BY <1>1 DEF reportVars, fileVars, sessionVars, Session!vars, Session!fileVars,
                Session!sessionVars
  <1>2. CASE UNCHANGED vars \/ AskScopeRecommendation
    BY <1>1, <1>2 DEF vars, AskScopeRecommendation
  <1>3. CASE StartFromText \/ ResumeTargetSelection \/ ResumeScopeConfirmation \/ ResumeReview
    BY <1>0, <1>3, DraftIsAReport DEF StartFromText, ResumeTargetSelection,
                                      ResumeScopeConfirmation, ResumeReview, Session!Next
  <1>4. CASE RunPostApprovalPipeline
    <2>1. DraftAt[feedback + 1] \in Drafts
      <3>1. feedback + 1 \in 1..(MaxFeedback + 1)
        BY DesignAssumption DEF ReviewInv, GraphInv, Review!GraphOK
      <3> QED BY <3>1 DEF Drafts
    <2>2. Session!ReportsWritten(Session!Reports)
              => Session!ReportsWritten(Session!Reports \cup Drafts)
      BY DEF Session!ReportsWritten
    <2> QED BY <1>4, <2>1, <2>2 DEF RunPostApprovalPipeline, Session!Next
  <1>5. ASSUME NEW m \in Messages, ContinueReportInteraction(m)
        PROVE  Session!Next \/ UNCHANGED Session!vars
    <2>1. CASE Session!Turn(m)
      BY <2>1 DEF Session!Next
    <2>2. CASE UNCHANGED reportVars
      BY <2>2 DEF reportVars, fileVars, sessionVars, Session!vars, Session!fileVars,
                  Session!sessionVars
    <2> QED BY <1>5, <2>1, <2>2 DEF ContinueReportInteraction
  <1>6. CASE ProcessRestart
    <2>1. PICK written \in SUBSET Session!Reports : disk' = disk \cup written
      BY <1>6 DEF ProcessRestart
    <2>2. UNCHANGED <<finalText, sessions>>
      BY <1>6 DEF ProcessRestart
    <2>3. CASE CheckpointsKept
      <3>1. UNCHANGED Session!sessionVars
        BY <2>3 DEF CheckpointsKept, sessionVars, Session!sessionVars
      <3> QED BY <2>1, <2>2, <3>1 DEF Session!ReportsWritten, Session!Next
    <2>4. CASE CheckpointsLost
      BY <2>1, <2>2, <2>4 DEF CheckpointsLost, SessionLost, Session!File
    <2> QED BY <1>6, <2>3, <2>4 DEF ProcessRestart
  <1> QED BY <1>2, <1>3, <1>4, <1>5, <1>6 DEF Next

\* What the agent makes of a text is a message, and no text that asks for a change of the
\* report or the run is called a cancellation or a finalization.
LEMMA MessagesAreSafe ==
    ASSUME NEW m \in Messages
    PROVE  /\ m \in Session!MessageType
           /\ m.intent \in {"cancel_report", "finalize_report"} => ~m.change
  <1>1. PICK t \in Session!TextType : \E answer \in Session!DecisionType :
            m = Session!Message(t, answer)
    BY ReportAssumption
  <1>2. PICK answer \in Session!DecisionType : m = Session!Message(t, answer)
    BY <1>1
  <1> DEFINE d       == IF Session!Accepted(answer) THEN answer ELSE Session!Heuristic(t)
             changes == Session!Rewrites(t) \/ Session!Reruns(t)
  <1>3. Session!Heuristic(t) \in Session!DecisionType
    BY DEF Session!Heuristic, Session!Decision, Session!DecisionType, Session!Intents
  <1>4. d \in Session!DecisionType
    BY <1>3
  <1> HIDE DEF d
  <1>5. /\ Session!SafetyDisambiguation(t, d) \in Session!DecisionType
        /\ changes => Session!SafetyDisambiguation(t, d).intent
                          \notin {"cancel_report", "finalize_report"}
    BY <1>4 DEF Session!SafetyDisambiguation, Session!AtLeast, Session!Decision,
                Session!DecisionType, Session!Intents
  <1>6. changes => t.command = "none"
    BY DEF Session!TextType, Session!Rewrites, Session!Reruns
  <1>7. /\ Session!Detect(t, answer) \in Session!DecisionType
        /\ changes => Session!Detect(t, answer).intent
                          \notin {"cancel_report", "finalize_report"}
    <2>1. \/ Session!Detect(t, answer) = Session!Decision("cancel_report", 99) /\ ~changes
          \/ Session!Detect(t, answer) = Session!Decision("finalize_report", 98) /\ ~changes
          \/ Session!Detect(t, answer) = Session!SafetyDisambiguation(t, d)
      BY <1>6 DEF Session!Detect, d
    <2>2. /\ Session!Decision("cancel_report", 99) \in Session!DecisionType
          /\ Session!Decision("finalize_report", 98) \in Session!DecisionType
      BY DEF Session!Decision, Session!DecisionType, Session!Intents
    <2> QED BY <1>5, <2>1, <2>2
  <1>8. /\ m.intent = Session!Detect(t, answer).intent /\ m.change = changes
        /\ changes \in BOOLEAN
    BY <1>2 DEF Session!Message, Session!Rewrites, Session!Reruns
  <1>9. m \in Session!MessageType
    <2>1. /\ t.exact \in {"yes", "no", "neither"}
          /\ t.saysYes \in BOOLEAN /\ t.saysNo \in BOOLEAN
      BY DEF Session!TextType
    <2>2. /\ Session!Detect(t, answer).intent \in Session!Intents
          /\ Session!Detect(t, answer).confidence \in 0..100
      BY <1>7 DEF Session!DecisionType
    <2>3. (Session!Rewrites(t) \/ Session!Reruns(t)) \in BOOLEAN
      BY DEF Session!Rewrites, Session!Reruns
    <2> QED BY <1>2, <2>1, <2>2, <2>3 DEF Session!Message, Session!MessageType
  <1> QED BY <1>7, <1>8, <1>9

\* The promises of a session that one operation cannot keep without the others.
SessionInv ==
    /\ Session!TypeOK
    /\ Session!PendingMatchesQuestion
    /\ Session!EndedWithOneOutcome
    /\ Session!FinalReportIsTheTextShown
    /\ Session!TrackedFilesMatchDisk
    /\ node = "waiting" => "final" \notin artifacts
    /\ node \in {"waiting", "ended"} /\ ~cancelled =>
          Session!Reports \subseteq artifacts /\ artifacts \cap Drafts # {}

\* A new session, also one whose first node raises, has nothing of an earlier one but
\* its files.
LEMMA SessionStarts ==
    ASSUME SessionInv, NEW draft \in Drafts,
           Session!StartReportInteractionSession(draft) \/ Session!BootstrapRaises(draft)
    PROVE  SessionInv'
  <1>1. /\ sessions' \in 0..MaxSessions /\ 0 \in 0..MaxRevisions
        /\ Session!NoMessage \in Session!MessageType
    <2>1. Session!NoMessage \in Session!MessageType
      BY SMT DEF Session!NoMessage, Session!MessageType, Session!Intents
    <2> QED BY <2>1, ReportAssumption DEF SessionInv, Session!TypeOK, Session!BootstrapRaises,
                                          Session!StartReportInteractionSession
  <1>2. CASE Session!StartReportInteractionSession(draft)
    <2>1. /\ node' = "waiting" /\ response' = "report" /\ lastIntent' = "none"
          /\ latestMessage' = Session!NoMessage /\ markdown' = 0 /\ finalPath' = FALSE
          /\ finalized' = FALSE /\ cancelled' = FALSE /\ rerunRequested' = FALSE
          /\ artifacts' = Session!Reports \cup {draft, "session"}
          /\ disk' = disk \cup Session!Reports \cup {draft, "session"}
          /\ UNCHANGED finalText
      BY <1>2 DEF Session!StartReportInteractionSession, Session!ResetSession,
                  Session!PersistSnapshot
    <2>2. Session!TypeOK'
      BY <1>1, <2>1 DEF SessionInv, Session!TypeOK, Session!Responses, Session!File
    <2>3. Session!TrackedFilesMatchDisk'
      BY <2>1 DEF SessionInv, Session!TypeOK, Session!TrackedFilesMatchDisk, Session!File,
                  Session!Reports
    <2>4. Session!PendingMatchesQuestion'
      BY <2>1 DEF Session!PendingMatchesQuestion, Session!Pending, Session!Awaiting,
                  Session!Question, Session!Kinds
    <2>5. Session!EndedWithOneOutcome' /\ Session!FinalReportIsTheTextShown'
      BY <2>1 DEF Session!EndedWithOneOutcome, Session!FinalReportIsTheTextShown
    <2>6. "final" \notin artifacts'
      BY <2>1, ReportAssumption DEF Session!Reports
    <2> QED BY <2>1, <2>2, <2>3, <2>4, <2>5, <2>6 DEF SessionInv
  <1>3. CASE Session!BootstrapRaises(draft)
    <2>1. /\ node' = "broken" /\ lastIntent' = "none"
          /\ latestMessage' = Session!NoMessage /\ markdown' = 0 /\ finalPath' = FALSE
          /\ finalized' = FALSE /\ cancelled' = FALSE /\ rerunRequested' = FALSE
          /\ artifacts' = {} /\ UNCHANGED <<response, finalText>>
          /\ disk' \subseteq disk \cup Session!Reports \cup {draft, "session"}
      BY <1>3 DEF Session!BootstrapRaises, Session!ResetSession
    <2>2. Session!TypeOK'
      BY <1>1, <2>1 DEF SessionInv, Session!TypeOK, Session!File
    <2> QED BY <2>1, <2>2
            DEF SessionInv, Session!PendingMatchesQuestion, Session!EndedWithOneOutcome,
                Session!FinalReportIsTheTextShown, Session!TrackedFilesMatchDisk
  <1> QED BY <1>2, <1>3

\* What every node that only talks does to the session.
LEMMA Talks ==
    ASSUME SessionInv, NEW m \in Messages, Session!Receive(m), NEW kind, Session!Reply(kind),
           kind \in Session!Responses, markdown' \in 0..MaxRevisions,
           lastIntent' \in Session!Intents \cup { "awaiting_confirm_cancel",
                                                  "awaiting_confirm_finalize" },
           \A k \in Session!Kinds : Session!Pending(k)' <=> kind = Session!Question[k]
    PROVE  SessionInv'
  <1>1. /\ node = "waiting" /\ node' = "waiting" /\ response' = kind /\ latestMessage' = m
        /\ artifacts' = artifacts \cup {"session"} /\ disk' = disk \cup {"session"}
        /\ UNCHANGED <<finalized, cancelled, rerunRequested, finalPath, finalText, sessions>>
    BY DEF Session!Receive, Session!Reply, Session!PersistSnapshot
  <1>2. finalized = FALSE /\ cancelled = FALSE /\ rerunRequested = FALSE
    BY <1>1 DEF SessionInv, Session!TypeOK, Session!EndedWithOneOutcome
  <1>3. Session!TypeOK'
    BY <1>1, MessagesAreSafe DEF SessionInv, Session!TypeOK, Session!File
  <1>4. Session!TrackedFilesMatchDisk'
    BY <1>1 DEF SessionInv, Session!TrackedFilesMatchDisk
  <1> QED BY <1>1, <1>2, <1>3, <1>4
          DEF SessionInv, Session!PendingMatchesQuestion, Session!EndedWithOneOutcome,
              Session!FinalReportIsTheTextShown

\* A node that ends the session gives it the one outcome it has.
LEMMA Ends ==
    ASSUME SessionInv, NEW m \in Messages, Session!Receive(m), node' = "ended",
           response' \in Session!Responses, lastIntent' \in Session!Intents,
           UNCHANGED markdown,
           \/ /\ rerunRequested' = TRUE
              /\ Session!PersistSnapshot(artifacts, disk)
              /\ UNCHANGED <<finalized, cancelled, finalPath, finalText>>
           \/ /\ finalized' = TRUE /\ finalPath' = TRUE /\ finalText' = markdown
              /\ Session!PersistSnapshot(artifacts \cup {"final"}, disk \cup {"final"})
              /\ UNCHANGED <<cancelled, rerunRequested>>
           \/ /\ cancelled' = TRUE
              /\ \E kept \in SUBSET artifacts :
                     Session!PersistSnapshot({}, disk \ (artifacts \ kept))
              /\ UNCHANGED <<finalized, rerunRequested, finalPath, finalText>>
    PROVE  SessionInv'
  <1>1. node = "waiting" /\ latestMessage' = m /\ UNCHANGED sessions
    BY DEF Session!Receive
  <1>2. finalized = FALSE /\ cancelled = FALSE /\ rerunRequested = FALSE
    BY <1>1 DEF SessionInv, Session!TypeOK, Session!EndedWithOneOutcome
  <1>3. Session!TypeOK'
    BY <1>1, MessagesAreSafe DEF SessionInv, Session!TypeOK, Session!File,
                                 Session!PersistSnapshot
  <1>4. Session!TrackedFilesMatchDisk' /\ Session!EndedWithOneOutcome'
    BY <1>1, <1>2 DEF SessionInv, Session!TrackedFilesMatchDisk, Session!EndedWithOneOutcome,
                      Session!PersistSnapshot
  <1>5. Session!FinalReportIsTheTextShown'
    BY <1>1, <1>2 DEF Session!FinalReportIsTheTextShown, Session!PersistSnapshot
  <1>6. ~cancelled' => Session!Reports \subseteq artifacts' /\ artifacts' \cap Drafts # {}
    BY <1>1, <1>2 DEF SessionInv, Session!PersistSnapshot
  <1> QED BY <1>1, <1>3, <1>4, <1>5, <1>6 DEF SessionInv, Session!PendingMatchesQuestion

\* Every turn, whichever node it leads to and whether or not that raises.
LEMMA TurnKeepsSession ==
    ASSUME SessionInv, NEW m \in Messages, Session!Turn(m)
    PROVE  SessionInv'
  <1> USE DEF Session!Pending, Session!Awaiting, Session!Question, Session!Kinds
  <1>1. ASSUME Session!Receive(m), NEW k \in Session!Kinds, lastIntent' = Session!Awaiting[k],
               Session!Reply(Session!Question[k]), UNCHANGED markdown
        PROVE  SessionInv'
    <2>1. markdown' \in 0..MaxRevisions
      BY <1>1 DEF SessionInv, Session!TypeOK
    <2> QED BY <1>1, <2>1, Talks DEF Session!Responses
  <1>2. CASE Session!ConfirmDestructiveAction(m)
    BY <1>1, <1>2 DEF Session!ConfirmDestructiveAction
  <1>3. ASSUME Session!Receive(m), NEW kind \in {"declined", "answer", "summary", "revised"},
               NEW i \in Session!Intents, lastIntent' = i, Session!Reply(kind),
               markdown' \in 0..MaxRevisions
        PROVE  SessionInv'
    BY <1>3, Talks DEF Session!Responses, Session!Intents
  <1>4. CASE Session!ConfirmationDeclined(m)
    BY <1>3, <1>4 DEF Session!ConfirmationDeclined, Session!Intents, SessionInv,
                      Session!TypeOK
  <1>5. CASE Session!AnswerQuestion(m)
    BY <1>3, <1>5 DEF Session!AnswerQuestion, Session!Intents, SessionInv, Session!TypeOK
  <1>6. CASE Session!ReviseReportText(m)
    <2>1. markdown' \in 0..MaxRevisions
      BY <1>6, ReportAssumption DEF Session!ReviseReportText, SessionInv, Session!TypeOK
    <2> QED BY <1>3, <1>6, <2>1 DEF Session!ReviseReportText, Session!Intents
  <1>7. CASE Session!ShareReport(m)
    BY <1>3, <1>7 DEF Session!ShareReport, Session!Intents, SessionInv, Session!TypeOK
  <1>8. CASE Session!PrepareRerun(m)
    BY <1>8, Ends DEF Session!PrepareRerun, Session!Intents, Session!Responses
  <1>9. CASE Session!FinalizeSession(m)
    BY <1>9, Ends DEF Session!FinalizeSession, Session!Intents, Session!Responses
  <1>10. CASE Session!CancelSession(m)
    BY <1>10, Ends DEF Session!CancelSession, Session!Intents, Session!Responses
  <1>11. CASE Session!NodeRaises(m)
    <2>1. /\ node = "waiting" /\ node' = "broken" /\ response' = "none"
          /\ latestMessage' = m
          /\ UNCHANGED <<finalized, cancelled, rerunRequested, finalPath, markdown,
                         artifacts, sessions>>
      BY <1>11 DEF Session!NodeRaises, Session!Receive
    <2>2. finalized = FALSE /\ cancelled = FALSE /\ rerunRequested = FALSE
      BY <2>1 DEF SessionInv, Session!TypeOK, Session!EndedWithOneOutcome
    <2>3. lastIntent' \in Session!Intents \cup { "confirmation_declined",
              "awaiting_confirm_cancel", "awaiting_confirm_finalize" }
      BY <1>11 DEF Session!NodeRaises, Session!Intents
    <2>4. disk' \subseteq disk \cup {"final", "session"} /\ finalText' \in 0..MaxRevisions
      BY <1>11, ReportAssumption DEF Session!NodeRaises, Session!fileVars, SessionInv,
                                     Session!TypeOK
    <2>5. Session!TypeOK'
      BY <2>1, <2>3, <2>4, MessagesAreSafe DEF SessionInv, Session!TypeOK, Session!File,
                                               Session!Responses
    <2> QED BY <2>1, <2>2, <2>5
            DEF SessionInv, Session!PendingMatchesQuestion, Session!EndedWithOneOutcome,
                Session!FinalReportIsTheTextShown, Session!TrackedFilesMatchDisk
  <1> QED BY <1>2, <1>4, <1>5, <1>6, <1>7, <1>8, <1>9, <1>10, <1>11 DEF Session!Turn

\* Every step of the workflow.
LEMMA SessionIsKept ==
    ASSUME ReviewInv, SessionInv, [Next]_vars
    PROVE  SessionInv'
  <1>1. CASE UNCHANGED Session!vars
    BY <1>1 DEF Session!vars, Session!sessionVars, Session!fileVars, SessionInv,
                Session!TypeOK, Session!PendingMatchesQuestion, Session!Pending,
                Session!EndedWithOneOutcome, Session!FinalReportIsTheTextShown,
                Session!TrackedFilesMatchDisk
  <1>2. CASE Session!ReportsWritten(Session!Reports \cup Drafts)
    <2>1. PICK written \in SUBSET (Session!Reports \cup Drafts) : disk' = disk \cup written
      BY <1>2 DEF Session!ReportsWritten
    <2>2. UNCHANGED <<Session!sessionVars, finalText, sessions>>
      BY <1>2 DEF Session!ReportsWritten
    <2> QED BY <2>1, <2>2
            DEF Session!sessionVars, SessionInv, Session!TypeOK, Session!File,
                Session!PendingMatchesQuestion, Session!Pending,
                Session!EndedWithOneOutcome, Session!FinalReportIsTheTextShown,
                Session!TrackedFilesMatchDisk
  <1>3. CASE SessionLost
    <2>1. Session!NoMessage \in Session!MessageType /\ 0 \in 0..MaxRevisions
      <3>1. Session!NoMessage \in Session!MessageType
        BY SMT DEF Session!NoMessage, Session!MessageType, Session!Intents
      <3> QED BY <3>1, ReportAssumption
    <2> QED BY <1>3, <2>1
            DEF SessionLost, SessionInv, Session!TypeOK, Session!Responses,
                Session!PendingMatchesQuestion, Session!EndedWithOneOutcome,
                Session!FinalReportIsTheTextShown, Session!TrackedFilesMatchDisk
  <1> QED BY <1>1, <1>2, <1>3, SessionSteps, SessionStarts, TurnKeepsSession
          DEF Session!Next

\* In every state of the workflow.
LEMMA SessionHolds == Spec => []SessionInv
  <1>1. Init => SessionInv
    <2> SUFFICES ASSUME Init PROVE SessionInv
      OBVIOUS
    <2>1. Session!NoMessage \in Session!MessageType
      BY SMT DEF Session!NoMessage, Session!MessageType, Session!Intents
    <2>2. 0 \in 0..MaxRevisions /\ 0 \in 0..MaxSessions
      BY ReportAssumption
    <2> QED BY <2>1, <2>2
            DEF Init, Session!Init, SessionInv, Session!TypeOK, Session!Responses,
                Session!PendingMatchesQuestion, Session!EndedWithOneOutcome,
                Session!FinalReportIsTheTextShown, Session!TrackedFilesMatchDisk
  <1>2. ReviewInv /\ SessionInv /\ [Next]_vars => SessionInv'
    BY SessionIsKept
  <1> QED BY <1>1, <1>2, ReviewHolds, PTL DEF Spec

\* The session inside the workflow keeps what a session alone promises: its record of an
\* open question is the question on the screen, it ends with one outcome, what it tracks
\* is on disk and what it does not track is a final report or a draft of a round that was
\* not approved, and the official report is the text last shown; also when reviews and
\* pipelines of other requests write beside it and restarts keep half of the state.
THEOREM SessionKeepsItsWord ==
    Spec => [](/\ Session!PendingMatchesQuestion /\ Session!EndedWithOneOutcome
               /\ Session!FinalReportIsTheTextShown /\ Session!TrackedFilesMatchDisk)
  <1>1. SessionInv =>
            /\ Session!PendingMatchesQuestion /\ Session!EndedWithOneOutcome
            /\ Session!FinalReportIsTheTextShown /\ Session!TrackedFilesMatchDisk
    BY DEF SessionInv
  <1> QED BY <1>1, SessionHolds, PTL

\* A turn that gives the session an outcome it did not have is the node of that outcome.
LEMMA OutcomesAreCommitted ==
    ASSUME ReviewInv, SessionInv, [Next]_vars, NEW k \in Session!Kinds,
           Session!Outcome(k)', ~Session!Outcome(k)
    PROVE  \E m \in Messages :
               /\ node = "waiting" /\ latestMessage' = m /\ Session!Commits(k, m)
               /\ k = "cancel" => Session!CancelSession(m)
  <1>1. /\ ~SessionLost /\ ~UNCHANGED Session!vars
        /\ ~Session!ReportsWritten(Session!Reports \cup Drafts)
        /\ \A draft : /\ ~Session!StartReportInteractionSession(draft)
                      /\ ~Session!BootstrapRaises(draft)
    BY DEF Session!Kinds, Session!Outcome, SessionLost, Session!vars, Session!sessionVars,
           Session!ReportsWritten, Session!StartReportInteractionSession,
           Session!BootstrapRaises, Session!ResetSession
  <1>2. PICK m \in Messages : Session!Turn(m)
    BY <1>1, SessionSteps DEF Session!Next
  <1>3. CASE Session!FinalizeSession(m) \/ Session!CancelSession(m)
    BY <1>3 DEF Session!FinalizeSession, Session!CancelSession, Session!Receive,
                Session!Outcome, Session!Kinds
  <1>4. CASE ~Session!FinalizeSession(m) /\ ~Session!CancelSession(m)
    <2>1. UNCHANGED <<finalized, cancelled>>
      BY <1>2, <1>4
      DEF Session!Turn, Session!ConfirmDestructiveAction, Session!ConfirmationDeclined,
          Session!AnswerQuestion, Session!ReviseReportText, Session!ShareReport,
          Session!PrepareRerun, Session!NodeRaises, Session!Reply
    <2> QED BY <2>1 DEF Session!Outcome
  <1> QED BY <1>3, <1>4

\* No workflow is cancelled or finalized but by a message that consents to that outcome,
\* judged by what the user was shown, through restarts and failed runs.
THEOREM WorkflowEndsByConsent == Spec => Session!DestructiveActionsAreConsented
  <1> DEFINE Step == \A k \in Session!Kinds : Session!Outcome(k)' /\ ~Session!Outcome(k)
                         => Session!Consented(k, response, latestMessage')
  <1>1. ReviewInv /\ SessionInv /\ [Next]_vars => [Step]_(Session!vars)
    <2> SUFFICES ASSUME ReviewInv, SessionInv, [Next]_vars, NEW k \in Session!Kinds,
                        Session!Outcome(k)', ~Session!Outcome(k)
                 PROVE  Session!Consented(k, response, latestMessage')
      OBVIOUS
    <2>1. PICK m \in Messages :
              node = "waiting" /\ latestMessage' = m /\ Session!Commits(k, m)
      BY OutcomesAreCommitted
    <2>2. \A j \in Session!Kinds : Session!Pending(j) <=> response = Session!Question[j]
      BY <2>1 DEF SessionInv, Session!PendingMatchesQuestion
    <2>3. CASE Session!Pending(k) /\ Session!ClassifyConfirmationReply(m) = "yes"
      BY <2>1, <2>2, <2>3 DEF Session!Consented
    <2>4. CASE /\ Session!NothingPending /\ m.intent = Session!Commit[k]
               /\ ~Session!ShouldConfirm(k, m)
      <3>1. \A j \in Session!Kinds : response # Session!Question[j]
        BY <2>2, <2>4 DEF Session!NothingPending
      <3>2. m.confidence >= Session!Threshold[k]
        BY <2>4, MessagesAreSafe DEF Session!ShouldConfirm, Session!MessageType,
                                     Session!Threshold, Session!Kinds
      <3>3. ~m.change
        BY <2>4, MessagesAreSafe DEF Session!Commit, Session!Kinds
      <3> QED BY <2>1, <2>4, <3>1, <3>2, <3>3 DEF Session!Consented
    <2> QED BY <2>1, <2>3, <2>4 DEF Session!Commits
  <1> QED BY <1>1, ReviewHolds, SessionHolds, PTL DEF Spec, Session!DestructiveActionsAreConsented

\* The official report of a workflow outlives every later one on the thread.
THEOREM OfficialReportOutlives == Spec => Session!FinalReportsSurvive
  <1> DEFINE Step == "final" \in disk => "final" \in disk'
  <1>1. ReviewInv /\ SessionInv /\ [Next]_vars => [Step]_(Session!vars)
    <2> SUFFICES ASSUME ReviewInv, SessionInv, [Next]_vars, "final" \in disk
                 PROVE  "final" \in disk'
      OBVIOUS
    <2>1. CASE SessionLost \/ UNCHANGED Session!vars
      BY <2>1 DEF SessionLost, Session!vars, Session!fileVars
    <2>2. CASE \/ Session!ReportsWritten(Session!Reports \cup Drafts)
               \/ \E draft \in Drafts : \/ Session!StartReportInteractionSession(draft)
                                       \/ Session!BootstrapRaises(draft)
      BY <2>2 DEF Session!ReportsWritten, Session!StartReportInteractionSession,
                  Session!BootstrapRaises, Session!PersistSnapshot
    <2>3. ASSUME NEW m \in Messages, Session!Turn(m)
          PROVE  "final" \in disk'
      <3>1. "final" \notin artifacts
        BY <2>3 DEF SessionInv, Session!Turn, Session!ConfirmDestructiveAction,
                    Session!ConfirmationDeclined, Session!AnswerQuestion,
                    Session!ReviseReportText, Session!ShareReport, Session!PrepareRerun,
                    Session!FinalizeSession, Session!CancelSession, Session!NodeRaises,
                    Session!Receive
      <3>2. CASE Session!CancelSession(m)
        BY <3>1, <3>2 DEF Session!CancelSession, Session!PersistSnapshot
      <3>3. CASE Session!NodeRaises(m)
        BY <3>1, <3>3 DEF Session!NodeRaises, Session!fileVars
      <3>4. CASE ~Session!CancelSession(m) /\ ~Session!NodeRaises(m)
        BY <2>3, <3>4 DEF Session!Turn, Session!ConfirmDestructiveAction,
                          Session!ConfirmationDeclined, Session!AnswerQuestion,
                          Session!ReviseReportText, Session!ShareReport,
                          Session!PrepareRerun, Session!FinalizeSession, Session!Reply,
                          Session!PersistSnapshot
      <3> QED BY <3>2, <3>3, <3>4
    <2> QED BY <2>1, <2>2, <2>3, SessionSteps DEF Session!Next
  <1> QED BY <1>1, ReviewHolds, SessionHolds, PTL DEF Spec, Session!FinalReportsSurvive

\* A cancelled workflow leaves neither the approved draft nor a report of a pipeline, one
\* that failed or was interrupted included, unless the platform refuses to delete it; an
\* earlier official report and the drafts of the other rounds are left.
THEOREM CancelledWorkflowKeepsOtherDrafts == Spec => Session!CancelDeletesReports
  <1> DEFINE Deleted == /\ disk' \subseteq Undeletable \cup {"session", "final"}
                                              \cup (Drafts \ artifacts)
                        /\ artifacts \cap Drafts # {}
             Step    == cancelled' /\ ~cancelled => Deleted
  <1>1. ReviewInv /\ SessionInv /\ [Next]_vars => [Step]_(Session!vars)
    <2> SUFFICES ASSUME ReviewInv, SessionInv, [Next]_vars, cancelled', ~cancelled
                 PROVE  Deleted
      OBVIOUS
    <2>1. PICK m \in Messages : node = "waiting" /\ Session!CancelSession(m)
      BY OutcomesAreCommitted DEF Session!Outcome, Session!Kinds
    <2> QED BY <2>1 DEF Session!CancelSession, Session!PersistSnapshot, SessionInv,
                        Session!TrackedFilesMatchDisk
  <1> QED BY <1>1, ReviewHolds, SessionHolds, PTL DEF Spec, Session!CancelDeletesReports

-----------------------------------------------------------------------------
(* What is written at different moments: the invariant *)

\* A snapshot has all of its fields, whichever call saved it.
SnapshotFields == DOMAIN snapshot = DOMAIN NoSnapshot

\* The phase that is saved and the entry or graph that takes the next message stand
\* together; a recommendation is in the snapshot only if it is in the entry.
RepliesAreExpected ==
    /\ \A entry \in pendingScopes : "recommended" \in DOMAIN entry
    /\ snapshot.phase = "pending_target_selection" => pendingTargets # {}
    /\ snapshot.phase = "pending_scope_confirmation" =>
          /\ pendingScopes # {}
          /\ snapshot.recommended => \A entry \in pendingScopes : entry.recommended
    /\ snapshot.phase = "pending_review"     => graph \in {"waiting", "broken"}
    /\ snapshot.phase = "approved"           => graph = "approved"
    /\ snapshot.phase = "report_interaction" => node = "waiting"

\* A review that can still be redrafted has operations, and a draft that waits for its
\* approval, or has it, is the one on the user's screen.
DraftsAreShown ==
    /\ graph \in {"waiting", "broken"} => contexts # {}
    /\ \/ snapshot.phase = "pending_review" /\ graph = "waiting"
       \/ snapshot.phase = "approved"
       => drafts = preview /\ preview # {}

ExecutedReviews == { executions[i].review : i \in DOMAIN executions }

\* A request waits in one place at most, and no longer once its review has started.
RequestsAreFresh ==
    /\ starts \in Nat /\ reviewOf \in 0..starts /\ ExecutedReviews \subseteq 1..starts
    /\ \A entry \in pendingTargets \cup pendingScopes :
          /\ entry.request \in 1..starts
          /\ entry.request \notin ExecutedReviews \cup {reviewOf}
    /\ \A e \in pendingTargets, f \in pendingScopes : e.request # f.request

\* A review that may still be approved, or that is about to be executed, was not yet.
ReviewIsUnexecuted ==
    graph \in {"waiting", "broken"} \/ snapshot.phase = "approved"
        => reviewOf \in (1..starts) \ ExecutedReviews

\* A session that takes messages has no outcome and tracks no final report, and what a
\* session tracks is there.
SessionIsClean ==
    /\ node = "waiting" => /\ ~finalized /\ ~cancelled /\ ~rerunRequested
                           /\ "final" \notin artifacts
    /\ node \in {"waiting", "ended"} => artifacts \subseteq disk

\* Before the run a snapshot lists drafts only, and an approved one that of its round.
OnlyDraftIsListed ==
    /\ snapshot.phase \in ReplyPhases \cup {"approved"} =>
          snapshot.refs \subseteq Drafts /\ snapshot.tracked = {}
    /\ snapshot.phase = "approved" => snapshot.refs = {DraftAt[feedback + 1]}

\* The run under discussion is that of the review the graph has approved, unless a
\* start that failed has moved the graph on.
RunIsOfTheReview ==
    snapshot.phase = "report_interaction" =>
        /\ snapshot.run = Len(executions) /\ Len(executions) > 0
        /\ graph = "approved" => executions[Len(executions)].review = reviewOf

DesignInv ==
    RepliesAreExpected /\ DraftsAreShown /\ RequestsAreFresh /\ ReviewIsUnexecuted

ReportInv ==
    /\ SessionIsClean /\ OnlyDraftIsListed /\ RunIsOfTheReview
    /\ ListedReportsExist /\ FinalizedIsRecorded

SafetyInv == LifecycleInv /\ SnapshotFields /\ ReviewInv /\ DesignInv /\ ReportInv

-----------------------------------------------------------------------------
(* What the calls of the review orchestrator do *)

ReviewKept == UNCHANGED <<graph, contexts, drafts, preview, reviewOf>>

\* A draft was asked for, and shown unless that raised.
DraftAsked ==
    /\ contexts' # {}
    /\ \/ /\ graph' = "waiting" /\ result' = "pending_review"
          /\ drafts' = contexts' /\ preview' = drafts'
       \/ graph' = "broken" /\ result' = "raised"

\* A start on some operations asks for a draft.
LEMMA StartAsks ==
    ASSUME NEW t, NEW operations, NEW scope, NEW request,
           Review!StartReview(t, operations, scope, request)
    PROVE  DraftAsked /\ reviewOf' = request
  BY DEF Review!StartReview, Review!DraftShown, Review!DraftRaises, DraftAsked

\* With the target known the call reports, asks for the scope, or starts the review;
\* the last two are of the request it was given.
LEMMA ContinueAsks ==
    ASSUME NEW t, NEW request, Review!ContinueAfterTargetSelected(t, request)
    PROVE  \/ /\ ReviewKept /\ UNCHANGED pendingScopes
              /\ result' \in {"raised", "invalid_function"}
           \/ /\ ReviewKept /\ result' = "pending_scope_confirmation"
              /\ \E k \in Limits :
                    pendingScopes' = {[request |-> request, target |-> t, limit |-> k,
                                       recommended |-> FALSE]}
           \/ /\ DraftAsked /\ reviewOf' = request /\ UNCHANGED pendingScopes
  BY StartAsks DEF Review!ContinueAfterTargetSelected, Review!Report, Review!graphVars,
                   ReviewKept

\* A scope that is finalized pops its entry and starts the review of its request.
LEMMA FinalizeAsks ==
    ASSUME NEW entry \in pendingScopes, NEW d, Review!FinalizeScopeSelection(entry, d)
    PROVE  \/ /\ ReviewKept /\ UNCHANGED pendingScopes
              /\ result' = "pending_scope_confirmation"
           \/ /\ DraftAsked /\ reviewOf' = entry.request /\ pendingScopes' = {}
  BY StartAsks DEF Review!FinalizeScopeSelection, Review!Report, Review!graphVars,
                   ReviewKept

\* Whatever the feedback, a refined scope is not empty if the scope was not.
LEMMA RefineKeepsSome ==
    ASSUME NEW current, current # {}, NEW all, NEW d
    PROVE  Review!Refine(current, all, d) # {}
  BY DEF Review!Refine

\* Another round asks for a draft of the same review.
LEMMA RedraftAsks ==
    ASSUME contexts # {}, Review!Redraft
    PROVE  DraftAsked /\ reviewOf' = reviewOf
  BY RefineKeepsSome DEF Review!Redraft, Review!DraftShown, Review!DraftRaises, DraftAsked

\* A start is of a new request; the calls that can still be answered with a question
\* have left what the answer needs.
LEMMA StartDoes ==
    ASSUME Review!StartReviewFromText
    PROVE  /\ starts' = starts + 1
           /\ \/ /\ ReviewKept /\ UNCHANGED <<pendingTargets, pendingScopes>>
                 /\ result' \in {"raised", "invalid_function", "target_not_found"}
              \/ /\ ReviewKept /\ UNCHANGED pendingScopes
                 /\ result' = "pending_target_selection"
                 /\ \E found :
                       pendingTargets' = {[request |-> starts', candidates |-> found]}
              \/ /\ ReviewKept /\ UNCHANGED pendingTargets
                 /\ result' = "pending_scope_confirmation"
                 /\ \E t, k : pendingScopes' = {[request |-> starts', target |-> t,
                                                 limit |-> k, recommended |-> FALSE]}
              \/ /\ DraftAsked /\ reviewOf' = starts'
                 /\ UNCHANGED <<pendingTargets, pendingScopes>>
  <1>1. starts' = starts + 1
    BY DEF Review!StartReviewFromText
  <1>2. CASE /\ Review!Report("raised") \/ Review!Report("target_not_found")
             /\ UNCHANGED Review!pendingVars
    BY <1>1, <1>2 DEF Review!Report, Review!graphVars, Review!pendingVars, ReviewKept
  <1>3. CASE /\ \E found \in (SUBSET Targets) \ {{}} :
                    pendingTargets' = {[request |-> starts', candidates |-> found]}
             /\ Review!Report("pending_target_selection")
             /\ UNCHANGED pendingScopes
    <2>1. ReviewKept /\ result' = "pending_target_selection"
      BY <1>3 DEF Review!Report, Review!graphVars, ReviewKept
    <2>2. \E found : pendingTargets' = {[request |-> starts', candidates |-> found]}
      BY <1>3
    <2> QED BY <1>1, <1>3, <2>1, <2>2
  <1>4. CASE /\ \E t \in Targets : Review!ContinueAfterTargetSelected(t, starts')
             /\ UNCHANGED pendingTargets
    <2>1. PICK t \in Targets : Review!ContinueAfterTargetSelected(t, starts')
      BY <1>4
    <2> QED BY <1>1, <1>4, <2>1, ContinueAsks
  <1> QED BY <1>2, <1>3, <1>4 DEF Review!StartReviewFromText

\* A target selection goes on with the request of its entry and pops the entry, unless
\* the reply named no candidate.
LEMMA TargetSelectionDoes ==
    ASSUME Review!ResumeTargetSelection
    PROVE  /\ starts' = starts
           /\ \/ /\ ReviewKept /\ UNCHANGED pendingScopes
                 /\ pendingTargets' \in {pendingTargets, {}}
                 /\ result' \in {"target_not_found", "cancelled", "raised",
                                 "invalid_function"}
              \/ /\ ReviewKept /\ UNCHANGED <<pendingTargets, pendingScopes>>
                 /\ result' = "pending_target_selection" /\ pendingTargets # {}
              \/ /\ ReviewKept /\ pendingTargets' = {}
                 /\ result' = "pending_scope_confirmation"
                 /\ \E entry \in pendingTargets : \E t, k :
                       pendingScopes' = {[request |-> entry.request, target |-> t,
                                          limit |-> k, recommended |-> FALSE]}
              \/ /\ DraftAsked /\ UNCHANGED pendingScopes /\ pendingTargets' = {}
                 /\ \E entry \in pendingTargets : reviewOf' = entry.request
  <1>1. CASE Review!NothingToSelect \/ Review!CancelTargetSelection
    BY <1>1 DEF Review!NothingToSelect, Review!CancelTargetSelection, Review!Report,
                Review!graphVars, Review!pendingVars, ReviewKept
  <1>2. CASE Review!InvalidTargetSelection
    BY <1>2 DEF Review!InvalidTargetSelection, Review!Report, Review!graphVars,
                Review!pendingVars, ReviewKept
  <1>3. CASE Review!SelectTarget
    <2>1. PICK entry \in pendingTargets, t \in Targets :
              Review!ContinueAfterTargetSelected(t, entry.request)
      BY <1>3 DEF Review!SelectTarget
    <2>2. pendingTargets' = {} /\ starts' = starts
      BY <1>3 DEF Review!SelectTarget
    <2>3. CASE /\ ReviewKept /\ UNCHANGED pendingScopes
               /\ result' \in {"raised", "invalid_function"}
      BY <2>2, <2>3
    <2>4. CASE /\ ReviewKept /\ result' = "pending_scope_confirmation"
               /\ \E k \in Limits :
                    pendingScopes' = {[request |-> entry.request, target |-> t, limit |-> k,
                                       recommended |-> FALSE]}
      BY <2>2, <2>4
    <2>5. CASE DraftAsked /\ reviewOf' = entry.request /\ UNCHANGED pendingScopes
      BY <2>2, <2>5
    <2> QED BY <2>1, <2>3, <2>4, <2>5, ContinueAsks
  <1> QED BY <1>1, <1>2, <1>3 DEF Review!ResumeTargetSelection

\* A scope reply leaves the entry, or pops it and starts the review of its request.
LEMMA ScopeConfirmationDoes ==
    ASSUME Review!ResumeScopeConfirmation
    PROVE  /\ UNCHANGED <<starts, pendingTargets>>
           /\ \/ /\ ReviewKept /\ UNCHANGED pendingScopes
                 /\ result' \in {"target_not_found", "raised"}
              \/ /\ ReviewKept /\ UNCHANGED pendingScopes /\ pendingScopes # {}
                 /\ result' = "pending_scope_confirmation"
              \/ /\ DraftAsked /\ pendingScopes' = {}
                 /\ \E entry \in pendingScopes : reviewOf' = entry.request
  <1>1. CASE Review!NothingToConfirm \/ Review!ScopeUnclear
    BY <1>1 DEF Review!NothingToConfirm, Review!ScopeUnclear, Review!Report,
                Review!graphVars, Review!pendingVars, ReviewKept
  <1>2. CASE Review!ConfirmScope
    <2>1. PICK entry \in pendingScopes, d \in Decisions :
              Review!FinalizeScopeSelection(entry, d)
      BY <1>2 DEF Review!ConfirmScope
    <2>2. UNCHANGED <<starts, pendingTargets>>
      BY <1>2 DEF Review!ConfirmScope
    <2> QED BY <2>1, <2>2, FinalizeAsks
  <1> QED BY <1>1, <1>2 DEF Review!ResumeScopeConfirmation

\* A reply to a draft approves or cancels it only while the graph waits for one, or
\* repeats how the review ended; anything else drafts again.
LEMMA ReviewDoes ==
    ASSUME graph \in {"waiting", "broken"} => contexts # {}, Review!ResumeReview
    PROVE  /\ UNCHANGED <<starts, pendingTargets, pendingScopes>>
           /\ \/ /\ ReviewKept /\ graph \notin {"waiting", "broken"}
                 /\ result' \in {"raised", "approved", "cancelled"}
              \/ /\ graph = "waiting" /\ graph' \in {"approved", "cancelled"}
                 /\ result' = graph'
                 /\ UNCHANGED <<contexts, drafts, preview, reviewOf>>
              \/ /\ graph \in {"waiting", "broken"}
                 /\ DraftAsked /\ reviewOf' = reviewOf
  <1>1. CASE Review!ResumeNothing
    BY <1>1 DEF Review!ResumeNothing, Review!Report, Review!graphVars,
                Review!pendingVars, ReviewKept
  <1>2. CASE Review!EndReview("approved") \/ Review!EndReview("cancelled")
    BY <1>2 DEF Review!EndReview, Review!pendingVars
  <1>3. CASE Review!Revise \/ Review!RetryDraft
    <2>1. graph \in {"waiting", "broken"} /\ Review!Redraft
      BY <1>3 DEF Review!Revise, Review!RetryDraft
    <2>2. DraftAsked /\ reviewOf' = reviewOf
      BY <2>1, RedraftAsks
    <2>3. UNCHANGED <<starts, pendingTargets, pendingScopes>>
      BY <2>1 DEF Review!Redraft, Review!pendingVars
    <2> QED BY <2>1, <2>2, <2>3
  <1> QED BY <1>1, <1>2, <1>3 DEF Review!ResumeReview

-----------------------------------------------------------------------------
(* What a call saves *)

Fields == DOMAIN NoSnapshot

\* What every snapshot is a record of.
LEMMA FieldsAre ==
    Fields = { "phase", "request", "recommended", "run", "refs", "tracked",
               "finalized", "cancelled", "rerun" }
  BY DEF Fields, NoSnapshot

\* A snapshot with the fields replaced that a review result decides.
Reviewed(r, p, q, s, n, f, d, c) ==
    [r EXCEPT !.phase = p, !.request = q, !.recommended = s, !.run = n, !.refs = f,
              !.finalized = d, !.cancelled = c]

\* The fields of such a snapshot.
LEMMA ReviewedFields ==
    ASSUME NEW r, DOMAIN r = Fields,
           NEW p, NEW q, NEW s, NEW n, NEW f, NEW d, NEW c
    PROVE  LET u == Reviewed(r, p, q, s, n, f, d, c)
           IN  /\ DOMAIN u = Fields
               /\ u.phase = p /\ u.recommended = s /\ u.run = n
               /\ u.refs = f /\ u.tracked = r.tracked
  BY FieldsAre DEF Reviewed

\* What a reply to the review orchestrator saves: the failure, or what it answered.
SavesAnswer(drafted) ==
    /\ SnapshotFields'
    /\ \/ snapshot'.phase = "error"
       \/ /\ snapshot'.phase = result' /\ ~snapshot'.recommended
          /\ result' \in ReplyPhases \cup {"approved", "cancelled"}
          /\ snapshot'.refs = IF drafted THEN (snapshot.refs \ Drafts) \cup {RoundDraft}
                              ELSE snapshot.refs
          /\ snapshot'.tracked = snapshot.tracked

\* Saved after a reply: a failure keeps what was there, a result replaces it.
LEMMA ReplySaves ==
    ASSUME SnapshotFields, NEW drafted \in BOOLEAN, SaveReviewResult(drafted)
    PROVE  SavesAnswer(drafted)
  <1>1. DOMAIN snapshot = Fields
    BY DEF SnapshotFields, Fields
  <1>2. CASE snapshot' = Failed(snapshot)
    BY <1>1, <1>2, FieldsAre DEF Failed, SavesAnswer, SnapshotFields, Fields
  <1>3. CASE snapshot' = HandleReviewResult(snapshot, snapshot.request, result', drafted)
    <2> DEFINE p  == PhaseOf(result')
               f  == IF drafted THEN (snapshot.refs \ Drafts) \cup {RoundDraft}
                     ELSE snapshot.refs
               no == FALSE
               c  == result' = "cancelled"
    <2>1. snapshot' = Reviewed(snapshot, p, snapshot.request, no, 0, f, no, c)
      BY <1>3 DEF HandleReviewResult, Reviewed
    <2> HIDE DEF p, f, no, c
    <2>2. /\ DOMAIN snapshot' = Fields
          /\ snapshot'.phase = p /\ snapshot'.recommended = no /\ snapshot'.refs = f
          /\ snapshot'.tracked = snapshot.tracked
      BY <1>1, <2>1, ReviewedFields
    <2>3. \/ snapshot'.phase = "error"
          \/ /\ snapshot'.phase = result'
             /\ result' \in ReplyPhases \cup {"approved", "cancelled"}
      BY <2>2 DEF p, PhaseOf
    <2>4. SnapshotFields'
      BY <2>2 DEF SnapshotFields, Fields
    <2> QED BY <2>2, <2>3, <2>4 DEF SavesAnswer, f, no
  <1> QED BY <1>2, <1>3 DEF SaveReviewResult

\* A start that does not raise replaces the snapshot.
LEMMA StartSaves ==
    ASSUME SnapshotFields,
           snapshot' = HandleReviewResult(NoSnapshot, starts', result', Drafted)
    PROVE  /\ SnapshotFields'
           /\ \/ snapshot'.phase = "error"
              \/ /\ snapshot'.phase = result' /\ ~snapshot'.recommended
                 /\ result' \in ReplyPhases \cup {"approved", "cancelled"}
                 /\ snapshot'.refs \subseteq {RoundDraft} /\ snapshot'.tracked = {}
  <1>1. /\ DOMAIN NoSnapshot = Fields
        /\ NoSnapshot.refs = {} /\ NoSnapshot.tracked = {}
    BY DEF Fields, NoSnapshot
  <1>2. /\ SnapshotFields'
        /\ snapshot'.phase = PhaseOf(result') /\ ~snapshot'.recommended
        /\ snapshot'.refs \subseteq {RoundDraft} /\ snapshot'.tracked = {}
    <2> DEFINE p  == PhaseOf(result')
               f  == IF Drafted THEN (NoSnapshot.refs \ Drafts) \cup {RoundDraft}
                     ELSE NoSnapshot.refs
               no == FALSE
               c  == result' = "cancelled"
    <2>1. snapshot' = Reviewed(NoSnapshot, p, starts', no, 0, f, no, c)
      BY DEF HandleReviewResult, Reviewed
    <2> HIDE DEF p, f, no, c
    <2>2. /\ DOMAIN snapshot' = Fields
          /\ snapshot'.phase = p /\ snapshot'.recommended = no /\ snapshot'.refs = f
          /\ snapshot'.tracked = NoSnapshot.tracked
      BY <1>1, <2>1, ReviewedFields
    <2> QED BY <1>1, <2>2 DEF SnapshotFields, Fields, p, f, no
  <1> QED BY <1>2 DEF PhaseOf

\* Drafting only adds the draft report, and leaves the report session alone.
LEMMA DraftWrites ==
    ASSUME DraftWritten
    PROVE  /\ disk \subseteq disk' /\ UNCHANGED <<sessionVars, sessions>>
           /\ result' = "pending_review" => RoundDraft \in disk'
  BY DEF DraftWritten

-----------------------------------------------------------------------------
(* Test design keeps its part of the invariant *)

\* A start leaves the phase it came from alone, or the one its answer asks for.
LEMMA StartKeepsDesign ==
    ASSUME SnapshotFields, DesignInv, StartFromText
    PROVE  SnapshotFields' /\ DesignInv'
  <1>1. /\ UNCHANGED <<executions, node>> /\ snapshot.phase # "approved"
        /\ ExecutedReviews' = ExecutedReviews
    BY DEF StartFromText, recordVars, ExecutedReviews, DraftWritten, sessionVars
  <1>2. Review!StartReviewFromText
    BY DEF StartFromText
  <1>3. \/ snapshot' = snapshot /\ result' = "raised"
        \/ snapshot'.phase = "error"
        \/ /\ snapshot'.phase = result' /\ ~snapshot'.recommended
           /\ result' \in ReplyPhases \cup {"approved", "cancelled"}
    BY StartSaves DEF StartFromText
  <1>4. SnapshotFields'
    BY StartSaves DEF StartFromText, SnapshotFields
  <1>5. starts' = starts + 1
    BY <1>2, StartDoes
  <1>6. RequestsAreFresh'
    <2>1. /\ starts \in Nat /\ reviewOf \in 0..starts /\ ExecutedReviews \subseteq 1..starts
          /\ \A entry \in pendingTargets \cup pendingScopes :
                entry.request \in 1..starts /\ entry.request # reviewOf
                /\ entry.request \notin ExecutedReviews
          /\ \A e \in pendingTargets, f \in pendingScopes : e.request # f.request
      BY DEF DesignInv, RequestsAreFresh
    <2>2. /\ starts' \in Nat /\ reviewOf \in 0..starts' /\ starts' \notin ExecutedReviews
          /\ ExecutedReviews' \subseteq 1..starts' /\ starts' \in 1..starts'
          /\ starts' # reviewOf
          /\ \A n \in 1..starts : n \in 1..starts' /\ n # starts'
      BY <1>1, <1>5, <2>1
    <2>3. CASE reviewOf' = reviewOf /\ UNCHANGED <<pendingTargets, pendingScopes>>
      BY <1>1, <2>1, <2>2, <2>3 DEF RequestsAreFresh
    <2>4. CASE /\ reviewOf' = reviewOf /\ UNCHANGED pendingScopes
               /\ \E found : pendingTargets' = {[request |-> starts', candidates |-> found]}
      BY <1>1, <2>1, <2>2, <2>4 DEF RequestsAreFresh
    <2>5. CASE /\ reviewOf' = reviewOf /\ UNCHANGED pendingTargets
               /\ \E t, k : pendingScopes' = {[request |-> starts', target |-> t,
                                               limit |-> k, recommended |-> FALSE]}
      BY <1>1, <2>1, <2>2, <2>5 DEF RequestsAreFresh
    <2>6. CASE reviewOf' = starts' /\ UNCHANGED <<pendingTargets, pendingScopes>>
      BY <1>1, <2>1, <2>2, <2>6 DEF RequestsAreFresh
    <2> QED BY <1>2, <2>3, <2>4, <2>5, <2>6, StartDoes DEF ReviewKept
  <1>7. /\ snapshot'.phase # "approved"
        /\ \/ ReviewKept
           \/ DraftAsked /\ reviewOf' = starts'
    BY <1>1, <1>2, <1>3, StartDoes, StartAnswers
  <1>8. ReviewIsUnexecuted'
    <2>1. /\ starts' \notin ExecutedReviews /\ starts' \in 1..starts'
          /\ \A n \in 1..starts : n \in 1..starts'
      BY <1>5 DEF DesignInv, RequestsAreFresh
    <2> QED BY <1>1, <1>7, <2>1 DEF DesignInv, ReviewIsUnexecuted, ReviewKept
  <1>9. result' = "pending_review" => DraftAsked
    BY <1>2, StartDoes
  <1>10. DraftsAreShown'
    BY <1>1, <1>3, <1>7, <1>9 DEF DesignInv, DraftsAreShown, DraftAsked, ReviewKept
  <1>11. RepliesAreExpected'
    <2>1. CASE snapshot' = snapshot /\ result' = "raised"
      <3>1. UNCHANGED <<pendingTargets, pendingScopes>>
        BY <1>2, <2>1, StartDoes
      <3> QED BY <1>1, <1>7, <2>1, <3>1 DEF DesignInv, RepliesAreExpected, ReviewKept,
                                            DraftAsked
    <2>2. \A entry \in pendingScopes' : "recommended" \in DOMAIN entry
      BY <1>2, StartDoes DEF DesignInv, RepliesAreExpected
    <2>3. CASE snapshot'.phase = "error"
      BY <2>2, <2>3 DEF RepliesAreExpected
    <2>4. CASE /\ snapshot'.phase = result' /\ ~snapshot'.recommended
               /\ result' \in ReplyPhases \cup {"approved", "cancelled"}
      <3>1. /\ result' = "pending_target_selection" => pendingTargets' # {}
            /\ result' = "pending_scope_confirmation" => pendingScopes' # {}
        BY <1>2, StartDoes DEF DraftAsked
      <3> QED BY <1>7, <1>9, <2>2, <2>4, <3>1
              DEF RepliesAreExpected, DraftAsked, ReplyPhases
    <2> QED BY <1>3, <2>1, <2>3, <2>4
  <1> QED BY <1>4, <1>6, <1>8, <1>10, <1>11 DEF DesignInv

\* A selection that the review orchestrator knows nothing of keeps the snapshot.
LEMMA TargetSelectionKeepsDesign ==
    ASSUME SnapshotFields, DesignInv, ResumeTargetSelection
    PROVE  SnapshotFields' /\ DesignInv'
  <1>1. /\ UNCHANGED <<executions, node>> /\ ExecutedReviews' = ExecutedReviews
        /\ snapshot.phase = "pending_target_selection"
    BY RoutedFits DEF ResumeTargetSelection, recordVars, ExecutedReviews, DraftWritten,
                      sessionVars, PhaseFits
  <1>2. Review!ResumeTargetSelection
    BY DEF ResumeTargetSelection
  <1>3. \/ snapshot' = snapshot /\ result' = "target_not_found"
        \/ SavesAnswer(Drafted)
    BY ReplySaves DEF ResumeTargetSelection, Drafted
  <1>4. SnapshotFields'
    BY <1>3 DEF SavesAnswer, SnapshotFields
  <1>5. RequestsAreFresh'
    <2>1. CASE /\ ReviewKept /\ UNCHANGED pendingScopes
               /\ pendingTargets' \in {pendingTargets, {}}
      BY <1>1, <1>2, <2>1, TargetSelectionDoes DEF DesignInv, RequestsAreFresh, ReviewKept
    <2>2. CASE /\ ReviewKept /\ pendingTargets' = {}
               /\ \E entry \in pendingTargets : \E t, k :
                     pendingScopes' = {[request |-> entry.request, target |-> t,
                                        limit |-> k, recommended |-> FALSE]}
      BY <1>1, <1>2, <2>2, TargetSelectionDoes DEF DesignInv, RequestsAreFresh, ReviewKept
    <2>3. CASE /\ UNCHANGED pendingScopes /\ pendingTargets' = {}
               /\ \E entry \in pendingTargets : reviewOf' = entry.request
      BY <1>1, <1>2, <2>3, TargetSelectionDoes DEF DesignInv, RequestsAreFresh
    <2> QED BY <1>2, <2>1, <2>2, <2>3, TargetSelectionDoes
  <1>6. /\ snapshot'.phase # "approved"
        /\ \/ ReviewKept
           \/ DraftAsked /\ \E entry \in pendingTargets : reviewOf' = entry.request
    BY <1>1, <1>2, <1>3, TargetSelectionDoes, TargetSelectionAnswers DEF SavesAnswer
  <1>7. ReviewIsUnexecuted'
    BY <1>1, <1>2, <1>6, TargetSelectionDoes
    DEF DesignInv, ReviewIsUnexecuted, ReviewKept, RequestsAreFresh
  <1>8. result' = "pending_review" => DraftAsked
    BY <1>2, TargetSelectionDoes
  <1>9. DraftsAreShown'
    BY <1>1, <1>3, <1>6, <1>8 DEF DesignInv, DraftsAreShown, DraftAsked, ReviewKept,
                                  SavesAnswer
  <1>10. RepliesAreExpected'
    <2>1. \A entry \in pendingScopes' : "recommended" \in DOMAIN entry
      BY <1>2, TargetSelectionDoes DEF DesignInv, RepliesAreExpected
    <2>2. CASE snapshot' = snapshot /\ result' = "target_not_found"
      <3>1. UNCHANGED pendingTargets
        BY <2>2 DEF ResumeTargetSelection, Review!ResumeTargetSelection,
                    Review!NothingToSelect, Review!CancelTargetSelection,
                    Review!InvalidTargetSelection, Review!SelectTarget,
                    Review!ContinueAfterTargetSelected, Review!StartReview,
                    Review!Report, Review!DraftShown, Review!DraftRaises,
                    Review!pendingVars
      <3> QED BY <1>1, <2>1, <2>2, <3>1 DEF DesignInv, RepliesAreExpected
    <2>3. CASE SavesAnswer(Drafted)
      <3>1. /\ result' = "pending_target_selection" => pendingTargets' # {}
            /\ result' = "pending_scope_confirmation" => pendingScopes' # {}
        BY <1>2, TargetSelectionDoes DEF DraftAsked
      <3> QED BY <1>6, <1>8, <2>1, <2>3, <3>1 DEF RepliesAreExpected, DraftAsked,
                                                  ReplyPhases, SavesAnswer
    <2> QED BY <1>3, <2>2, <2>3
  <1> QED BY <1>4, <1>5, <1>7, <1>9, <1>10 DEF DesignInv

\* A recommendation is remembered in the snapshot and in the entry alike.
LEMMA RecommendationKeepsDesign ==
    ASSUME SnapshotFields, DesignInv, AskScopeRecommendation
    PROVE  SnapshotFields' /\ DesignInv'
  <1>1. PICK recommended \in BOOLEAN :
            /\ snapshot' = [snapshot EXCEPT !.recommended = recommended]
            /\ Review!RememberScopeRecommendation(recommended)
    BY DEF AskScopeRecommendation
  <1>2. /\ UNCHANGED <<executions, node>> /\ ExecutedReviews' = ExecutedReviews
        /\ ReviewKept /\ UNCHANGED <<pendingTargets, starts>>
    BY <1>1 DEF AskScopeRecommendation, recordVars, reportVars, sessionVars, ReviewKept,
                ExecutedReviews, Review!RememberScopeRecommendation, Review!graphVars,
                Review!shownVars
  <1>3. pendingScopes' = { [e EXCEPT !.recommended = recommended] : e \in pendingScopes }
    BY <1>1 DEF Review!RememberScopeRecommendation
  <1>4. /\ SnapshotFields' /\ snapshot'.phase = snapshot.phase
        /\ snapshot'.recommended = recommended
    BY <1>1, FieldsAre DEF SnapshotFields, Fields
  <1>5. /\ \A f \in pendingScopes' : \E e \in pendingScopes :
               f = [e EXCEPT !.recommended = recommended]
        /\ pendingScopes # {} => pendingScopes' # {}
    BY <1>3
  <1>6. \A f \in pendingScopes' :
            /\ "recommended" \in DOMAIN f /\ f.recommended = recommended
            /\ \E e \in pendingScopes : f.request = e.request
    <2>1. \A e \in pendingScopes : "recommended" \in DOMAIN e
      BY DEF DesignInv, RepliesAreExpected
    <2>2. ASSUME NEW e, "recommended" \in DOMAIN e, NEW f,
                 f = [e EXCEPT !.recommended = recommended]
          PROVE  "recommended" \in DOMAIN f /\ f.recommended = recommended
                 /\ f.request = e.request
      BY <2>2
    <2> QED BY <1>5, <2>1, <2>2
  <1>7. RequestsAreFresh'
    BY <1>2, <1>6 DEF DesignInv, RequestsAreFresh, ReviewKept
  <1>8. ReviewIsUnexecuted' /\ DraftsAreShown'
    BY <1>2, <1>4 DEF DesignInv, ReviewIsUnexecuted, DraftsAreShown, ReviewKept
  <1>9. RepliesAreExpected'
    BY <1>2, <1>4, <1>5, <1>6 DEF DesignInv, RepliesAreExpected, ReviewKept
  <1> QED BY <1>4, <1>7, <1>8, <1>9 DEF DesignInv

\* A scope reply that finalizes the scope starts the review of the request that waited.
LEMMA ScopeConfirmationKeepsDesign ==
    ASSUME SnapshotFields, DesignInv, ResumeScopeConfirmation
    PROVE  SnapshotFields' /\ DesignInv'
  <1>1. /\ UNCHANGED <<executions, node>> /\ ExecutedReviews' = ExecutedReviews
    BY DEF ResumeScopeConfirmation, recordVars, ExecutedReviews, DraftWritten, sessionVars
  <1>2. Review!ResumeScopeConfirmation
    BY DEF ResumeScopeConfirmation
  <1>3. SavesAnswer(Drafted)
    BY ReplySaves DEF ResumeScopeConfirmation, Drafted
  <1>4. SnapshotFields'
    BY <1>3 DEF SavesAnswer
  <1>5. RequestsAreFresh'
    BY <1>1, <1>2, ScopeConfirmationDoes DEF DesignInv, RequestsAreFresh, ReviewKept
  <1>6. /\ snapshot'.phase # "approved"
        /\ \/ ReviewKept
           \/ DraftAsked /\ \E entry \in pendingScopes : reviewOf' = entry.request
    BY <1>2, <1>3, ScopeConfirmationDoes, ScopeAnswers DEF SavesAnswer
  <1>7. ReviewIsUnexecuted'
    BY <1>1, <1>2, <1>6, ScopeConfirmationDoes
    DEF DesignInv, ReviewIsUnexecuted, ReviewKept, RequestsAreFresh
  <1>8. result' = "pending_review" => DraftAsked
    BY <1>2, ScopeConfirmationDoes
  <1>9. DraftsAreShown'
    BY <1>3, <1>6, <1>8 DEF DesignInv, DraftsAreShown, DraftAsked, ReviewKept, SavesAnswer
  <1>10. RepliesAreExpected'
    <2>1. \A entry \in pendingScopes' : "recommended" \in DOMAIN entry
      BY <1>2, ScopeConfirmationDoes DEF DesignInv, RepliesAreExpected
    <2>2. /\ result' # "pending_target_selection"
          /\ result' = "pending_scope_confirmation" => pendingScopes' # {}
      BY <1>2, ScopeConfirmationDoes DEF DraftAsked
    <2> QED BY <1>3, <1>6, <1>8, <2>1, <2>2 DEF RepliesAreExpected, DraftAsked,
                                                ReplyPhases, SavesAnswer
  <1> QED BY <1>4, <1>5, <1>7, <1>9, <1>10 DEF DesignInv

\* The phase becomes "approved" only with the graph, on the draft that was shown.
LEMMA ReviewKeepsDesign ==
    ASSUME SnapshotFields, DesignInv, ResumeReview
    PROVE  SnapshotFields' /\ DesignInv'
  <1>1. /\ UNCHANGED <<executions, node>> /\ ExecutedReviews' = ExecutedReviews
        /\ snapshot.phase = "pending_review"
        /\ graph \in {"waiting", "broken"} /\ contexts # {}
    BY RoutedFits DEF ResumeReview, recordVars, ExecutedReviews, DraftWritten, sessionVars,
                      PhaseFits, DesignInv, RepliesAreExpected, DraftsAreShown
  <1>2. Review!ResumeReview
    BY DEF ResumeReview
  <1>3. SavesAnswer(TRUE)
    BY ReplySaves DEF ResumeReview
  <1>4. SnapshotFields'
    BY <1>3 DEF SavesAnswer
  <1>5. /\ UNCHANGED <<starts, pendingTargets, pendingScopes, reviewOf>>
        /\ \/ /\ graph = "waiting" /\ graph' \in {"approved", "cancelled"}
              /\ result' = graph' /\ UNCHANGED <<contexts, drafts, preview>>
           \/ DraftAsked
    BY <1>1, <1>2, ReviewDoes
  <1>6. RequestsAreFresh' /\ ReviewIsUnexecuted'
    BY <1>1, <1>5 DEF DesignInv, RequestsAreFresh, ReviewIsUnexecuted
  <1>7. DraftsAreShown'
    BY <1>1, <1>3, <1>5 DEF DesignInv, DraftsAreShown, DraftAsked, SavesAnswer
  <1>8. RepliesAreExpected'
    BY <1>3, <1>5 DEF DesignInv, RepliesAreExpected, DraftAsked, ReplyPhases, SavesAnswer
  <1> QED BY <1>4, <1>6, <1>7, <1>8 DEF DesignInv

-----------------------------------------------------------------------------
(* A reply or a start keeps the report part of the invariant *)

\* Files are only added and the session is left alone.
LEMMA SessionKept ==
    ASSUME SessionIsClean, UNCHANGED sessionVars, disk \subseteq disk'
    PROVE  SessionIsClean'
  BY DEF SessionIsClean, sessionVars

\* A call that saves the phase it found, or fails, keeps what is listed and recorded:
\* the graph it may have moved on is no longer approved.
LEMMA ListedKept ==
    ASSUME ReportInv, UNCHANGED <<sessionVars, executions, row>>, disk \subseteq disk',
           snapshot' = snapshot, snapshot.phase # "approved",
           graph' = "approved" => UNCHANGED <<graph, reviewOf>>
    PROVE  ReportInv'
  <1>1. SessionIsClean'
    BY SessionKept DEF ReportInv
  <1>2. UNCHANGED finalized
    BY DEF sessionVars
  <1>3. OnlyDraftIsListed' /\ RunIsOfTheReview'
    BY DEF ReportInv, OnlyDraftIsListed, RunIsOfTheReview
  <1>4. ListedReportsExist'
    BY DEF ReportInv, ListedReportsExist
  <1>5. FinalizedIsRecorded'
    BY <1>2 DEF ReportInv, FinalizedIsRecorded
  <1> QED BY <1>1, <1>3, <1>4, <1>5 DEF ReportInv

\* A call that saves a phase before the run, or an end without a run, lists the draft.
LEMMA DraftListed ==
    ASSUME ReportInv, UNCHANGED <<sessionVars, row>>, disk \subseteq disk',
           \/ snapshot'.phase \in {"error", "cancelled"}
           \/ /\ snapshot'.phase \in ReplyPhases \cup {"approved"}
              /\ snapshot'.refs \subseteq Drafts /\ snapshot'.tracked = {}
              /\ snapshot'.phase = "approved" => snapshot'.refs = {RoundDraft}
    PROVE  ReportInv'
  <1>1. SessionIsClean'
    BY SessionKept DEF ReportInv
  <1>2. OnlyDraftIsListed' /\ RunIsOfTheReview' /\ FinalizedIsRecorded'
    BY DEF OnlyDraftIsListed, RunIsOfTheReview, FinalizedIsRecorded, ReplyPhases, RoundDraft
  <1>3. ListedReportsExist'
    BY DEF ReportInv, ListedReportsExist, ReplyPhases, ReportPhases
  <1> QED BY <1>1, <1>2, <1>3 DEF ReportInv

\* A start replaces the snapshot, or raises and leaves one whose report is still there;
\* the graph it may have moved on is then no longer the approved one.
LEMMA StartKeepsReport ==
    ASSUME SnapshotFields, ReviewInv', DesignInv, ReportInv, StartFromText
    PROVE  ReportInv'
  <1>1. /\ UNCHANGED <<sessionVars, executions, row>> /\ disk \subseteq disk'
        /\ snapshot.phase # "approved"
    BY DraftWrites DEF StartFromText, recordVars
  <1>2. CASE snapshot' = snapshot
    <2>1. graph' = "approved" => UNCHANGED <<graph, reviewOf>>
      BY StartDoes DEF StartFromText, ReviewKept, DraftAsked
    <2> QED BY <1>1, <1>2, <2>1, ListedKept
  <1>3. CASE snapshot' = HandleReviewResult(NoSnapshot, starts', result', Drafted)
    <2>1. result' \notin {"approved", "cancelled"}
      BY StartAnswers DEF StartFromText
    <2> QED BY <1>1, <1>3, <2>1, StartSaves, RoundHasAFile, DraftListed DEF ReplyPhases
  <1> QED BY <1>2, <1>3 DEF StartFromText

\* A target selection lists nothing but the draft.
LEMMA TargetSelectionKeepsReport ==
    ASSUME SnapshotFields, ReviewInv', DesignInv, ReportInv, ResumeTargetSelection
    PROVE  ReportInv'
  <1>1. /\ UNCHANGED <<sessionVars, executions, row>> /\ disk \subseteq disk'
        /\ snapshot.phase = "pending_target_selection"
    BY DraftWrites, RoutedFits DEF ResumeTargetSelection, recordVars, PhaseFits
  <1>2. CASE UNCHANGED snapshot
    <2>1. graph' = "approved" => UNCHANGED <<graph, reviewOf>>
      BY TargetSelectionDoes DEF ResumeTargetSelection, ReviewKept, DraftAsked
    <2> QED BY <1>1, <1>2, <2>1, ListedKept
  <1>3. CASE SaveReviewResult(Drafted)
    <2>1. SavesAnswer(Drafted) /\ result' # "approved"
      BY <1>3, ReplySaves, TargetSelectionAnswers DEF Drafted, ResumeTargetSelection
    <2>2. snapshot.refs \subseteq Drafts /\ snapshot.tracked = {}
      BY <1>1 DEF ReportInv, OnlyDraftIsListed, ReplyPhases
    <2> QED BY <1>1, <2>1, <2>2, RoundHasAFile, DraftListed
            DEF SavesAnswer, ReplyPhases
  <1> QED BY <1>2, <1>3 DEF ResumeTargetSelection

\* A recommendation changes nothing that is listed or recorded.
LEMMA RecommendationKeepsReport ==
    ASSUME SnapshotFields, ReportInv, AskScopeRecommendation
    PROVE  ReportInv'
  <1>1. PICK recommended \in BOOLEAN :
            /\ snapshot' = [snapshot EXCEPT !.recommended = recommended]
            /\ Review!RememberScopeRecommendation(recommended)
    BY DEF AskScopeRecommendation
  <1>2. /\ UNCHANGED <<reportVars, executions, row, graph, reviewOf, feedback>>
    BY <1>1 DEF AskScopeRecommendation, recordVars, Review!graphVars,
                Review!RememberScopeRecommendation
  <1>3. /\ snapshot'.phase = snapshot.phase /\ snapshot'.run = snapshot.run
        /\ snapshot'.refs = snapshot.refs /\ snapshot'.tracked = snapshot.tracked
    BY <1>1, FieldsAre DEF SnapshotFields, Fields
  <1>4. UNCHANGED <<sessionVars, disk, finalized>>
    BY <1>2 DEF reportVars, fileVars, sessionVars
  <1>5. SessionIsClean'
    BY <1>4, SessionKept DEF ReportInv
  <1>6. OnlyDraftIsListed' /\ RunIsOfTheReview'
    BY <1>2, <1>3 DEF ReportInv, OnlyDraftIsListed, RunIsOfTheReview
  <1>7. ListedReportsExist' /\ FinalizedIsRecorded'
    BY <1>2, <1>3, <1>4 DEF ReportInv, ListedReportsExist, FinalizedIsRecorded
  <1> QED BY <1>5, <1>6, <1>7 DEF ReportInv

\* A scope reply lists nothing but the draft.
LEMMA ScopeConfirmationKeepsReport ==
    ASSUME SnapshotFields, ReviewInv', DesignInv, ReportInv, ResumeScopeConfirmation
    PROVE  ReportInv'
  <1>1. /\ UNCHANGED <<sessionVars, executions, row>> /\ disk \subseteq disk'
        /\ snapshot.phase = "pending_scope_confirmation"
    BY DraftWrites, RoutedFits DEF ResumeScopeConfirmation, recordVars, PhaseFits
  <1>2. SavesAnswer(Drafted) /\ result' # "approved"
    BY ReplySaves, ScopeAnswers DEF Drafted, ResumeScopeConfirmation
  <1>3. snapshot.refs \subseteq Drafts /\ snapshot.tracked = {}
    BY <1>1 DEF ReportInv, OnlyDraftIsListed, ReplyPhases
  <1> QED BY <1>1, <1>2, <1>3, RoundHasAFile, DraftListed
          DEF SavesAnswer, ReplyPhases

\* An approval finds the draft report listed and written.
LEMMA ReviewKeepsReport ==
    ASSUME SnapshotFields, ReviewInv', DesignInv, ReportInv, ResumeReview
    PROVE  ReportInv'
  <1>1. /\ UNCHANGED <<sessionVars, executions, row>> /\ disk \subseteq disk'
        /\ snapshot.phase = "pending_review"
    BY DraftWrites, RoutedFits DEF ResumeReview, recordVars, PhaseFits
  <1>2. SavesAnswer(TRUE)
    BY ReplySaves DEF ResumeReview
  <1>3. snapshot.refs \subseteq Drafts /\ snapshot.tracked = {}
    BY <1>1 DEF ReportInv, OnlyDraftIsListed, ReplyPhases
  <1> QED BY <1>1, <1>2, <1>3, RoundHasAFile, DraftListed
          DEF SavesAnswer, ReplyPhases

-----------------------------------------------------------------------------
(* The run keeps it *)

\* One more execution is that of one more review.
LEMMA AppendExecutes ==
    ASSUME ExecutionsAreASequence, NEW e, executions' = Append(executions, e)
    PROVE  /\ Len(executions') = Len(executions) + 1 /\ Len(executions) \in Nat
           /\ executions'[Len(executions')] = e
           /\ ExecutedReviews' = ExecutedReviews \cup {e.review}
  <1>1. PICK S : executions \in Seq(S)
    BY DEF ExecutionsAreASequence
  <1>2. executions \in Seq(S \cup {e})
    BY <1>1
  <1>3. /\ Len(executions) \in Nat /\ DOMAIN executions = 1..Len(executions)
        /\ Len(executions') = Len(executions) + 1
        /\ DOMAIN executions' = 1..Len(executions) + 1
        /\ \A i \in 1..Len(executions) : executions'[i] = executions[i]
        /\ executions'[Len(executions) + 1] = e
    BY <1>2
  <1> QED BY <1>3 DEF ExecutedReviews

\* The snapshot of a run whose report is open.
Opened(r, p, n, f, t) == [r EXCEPT !.phase = p, !.run = n, !.refs = f, !.tracked = t]

\* The fields of such a snapshot.
LEMMA OpenedFields ==
    ASSUME NEW r, DOMAIN r = Fields, NEW p, NEW n, NEW f, NEW t
    PROVE  LET u == Opened(r, p, n, f, t)
           IN  /\ DOMAIN u = Fields
               /\ u.phase = p /\ u.run = n /\ u.refs = f /\ u.tracked = t
  BY FieldsAre DEF Opened

\* The review that was approved is executed, and no other waits or can be approved in
\* its place; the reports the snapshot lists are those just written.
LEMMA PipelineKeeps ==
    ASSUME SafetyInv, RunPostApprovalPipeline
    PROVE  SnapshotFields' /\ DesignInv' /\ ReportInv'
  <1>1. /\ DOMAIN snapshot = Fields /\ ExecutionsAreASequence
        /\ snapshot.phase = "approved" /\ graph = "approved"
        /\ reviewOf \in (1..starts) \ ExecutedReviews
        /\ snapshot.refs = {DraftAt[feedback + 1]} /\ snapshot.refs \subseteq Drafts
        /\ snapshot.tracked = {} /\ SessionIsClean /\ (row > 0 => "final" \in disk)
    BY DEF SafetyInv, DesignInv, ReportInv, LifecycleInv, SnapshotFields, Fields,
           RunPostApprovalPipeline, RepliesAreExpected, ReviewIsUnexecuted,
           OnlyDraftIsListed, ListedReportsExist
  <1>2. UNCHANGED <<pendingTargets, pendingScopes, graph, contexts, drafts, reviewOf,
                    preview, starts, row>>
    BY DEF RunPostApprovalPipeline, reviewVars
  <1>3. ASSUME executions' = executions \/ executions' = Append(executions, Executed)
        PROVE  RequestsAreFresh'
    <2>1. ExecutedReviews' \in {ExecutedReviews, ExecutedReviews \cup {reviewOf}}
      BY <1>1, <1>3, AppendExecutes DEF Executed, ExecutedReviews
    <2> QED BY <1>1, <1>2, <2>1 DEF SafetyInv, DesignInv, RequestsAreFresh
  <1>4. ASSUME snapshot' = Failed(snapshot), SessionIsClean', disk \subseteq disk',
               executions' = executions \/ executions' = Append(executions, Executed)
        PROVE  SnapshotFields' /\ DesignInv' /\ ReportInv'
    <2>1. snapshot'.phase = "error" /\ SnapshotFields'
      BY <1>1, <1>4, FieldsAre DEF Failed, SnapshotFields, Fields
    <2>2. RequestsAreFresh'
      BY <1>3, <1>4
    <2>3. DesignInv'
      BY <1>1, <1>2, <2>1, <2>2 DEF SafetyInv, DesignInv, RepliesAreExpected,
                                    DraftsAreShown, ReviewIsUnexecuted
    <2>4. ReportInv'
      BY <1>1, <1>2, <1>4, <2>1 DEF ReportInv, OnlyDraftIsListed, RunIsOfTheReview,
                                    ListedReportsExist, FinalizedIsRecorded,
                                    ReplyPhases, ReportPhases
    <2> QED BY <2>1, <2>3, <2>4
  <1>5. CASE /\ Session!StartReportInteractionSession(DraftAt[feedback + 1])
             /\ executions' = Append(executions, Executed)
             /\ snapshot' = [snapshot EXCEPT
                               !.phase = "report_interaction",
                               !.run = Len(executions'),
                               !.refs = @ \cup {"execution", "validation", "staged"},
                               !.tracked = @ \cup artifacts']
    <2>1. /\ node' = "waiting" /\ ~finalized' /\ ~cancelled' /\ ~rerunRequested'
          /\ artifacts' = Session!Reports \cup snapshot.refs \cup {"session"}
          /\ disk' = disk \cup Session!Reports \cup snapshot.refs \cup {"session"}
          /\ "final" \notin artifacts'
      BY <1>1, <1>5, ReportAssumption
      DEF Session!StartReportInteractionSession, Session!ResetSession,
          Session!PersistSnapshot, Session!Reports
    <2>2. /\ Len(executions') = Len(executions) + 1 /\ Len(executions) \in Nat
          /\ executions'[Len(executions')].review = reviewOf
      BY <1>1, <1>5, AppendExecutes DEF Executed
    <2>3. /\ SnapshotFields' /\ snapshot'.phase = "report_interaction"
          /\ snapshot'.run = Len(executions')
          /\ snapshot'.refs = snapshot.refs \cup Session!Reports
          /\ snapshot'.tracked = artifacts'
      <3> DEFINE n == Len(executions')
                 f == snapshot.refs \cup {"execution", "validation", "staged"}
                 t == snapshot.tracked \cup artifacts'
      <3>1. snapshot' = Opened(snapshot, "report_interaction", n, f, t)
        BY <1>5 DEF Opened
      <3> HIDE DEF n, f, t
      <3>2. /\ DOMAIN snapshot' = Fields /\ snapshot'.phase = "report_interaction"
            /\ snapshot'.run = n /\ snapshot'.refs = f /\ snapshot'.tracked = t
        BY <1>1, <3>1, OpenedFields
      <3>3. f = snapshot.refs \cup Session!Reports /\ t = artifacts'
        BY <1>1 DEF f, t, Session!Reports
      <3> QED BY <3>2, <3>3 DEF n, SnapshotFields, Fields
    <2>4. DesignInv'
      BY <1>1, <1>2, <1>3, <1>5, <2>1, <2>3
      DEF SafetyInv, DesignInv, RepliesAreExpected, DraftsAreShown, ReviewIsUnexecuted
    <2>5. SessionIsClean' /\ OnlyDraftIsListed'
      BY <2>1, <2>3 DEF SessionIsClean, OnlyDraftIsListed, ReplyPhases
    <2>6. RunIsOfTheReview' /\ FinalizedIsRecorded'
      BY <1>2, <2>2, <2>3 DEF RunIsOfTheReview, FinalizedIsRecorded
    <2>7. ListedReportsExist'
      BY <1>1, <1>2, <2>1, <2>3 DEF ListedReportsExist
    <2> QED BY <2>3, <2>4, <2>5, <2>6, <2>7 DEF ReportInv
  <1>6. CASE /\ Session!BootstrapRaises(DraftAt[feedback + 1])
             /\ executions' = Append(executions, Executed)
             /\ snapshot' = Failed(snapshot)
    <2>1. SessionIsClean' /\ disk \subseteq disk'
      BY <1>6 DEF Session!BootstrapRaises, SessionIsClean
    <2> QED BY <1>4, <1>6, <2>1
  <1>7. CASE /\ Session!ReportsWritten(Session!Reports)
             /\ executions' \in {executions, Append(executions, Executed)}
             /\ snapshot' = Failed(snapshot)
    <2>1. UNCHANGED sessionVars /\ disk \subseteq disk'
      BY <1>7 DEF Session!ReportsWritten, Session!sessionVars, sessionVars
    <2>2. SessionIsClean'
      BY <1>1, <2>1, SessionKept
    <2> QED BY <1>4, <1>7, <2>1, <2>2
  <1> QED BY <1>5, <1>6, <1>7 DEF RunPostApprovalPipeline

-----------------------------------------------------------------------------
(* The report interaction keeps it *)

\* What a turn leaves: a session that ended has an outcome, one that did not is clean;
\* only a cancellation deletes files, and never an official report.
TurnLeaves ==
    /\ SessionIsClean'
    /\ "final" \in disk => "final" \in disk'
    /\ finalized' => ~cancelled' /\ "final" \in disk'
    /\ node' \in {"waiting", "ended", "broken"}
    /\ node' # "broken" => /\ artifacts' \subseteq disk'
                           /\ ~cancelled' => disk \subseteq disk'
    /\ node' = "ended" => finalized' \/ cancelled' \/ rerunRequested'

\* A node that only talks, or asks for a rerun, adds the session files.
LEMMA TalkLeaves ==
    ASSUME SessionIsClean, node = "waiting",
           Session!PersistSnapshot(artifacts, disk),
           UNCHANGED <<finalized, cancelled>>,
           \/ node' = "waiting" /\ UNCHANGED rerunRequested
           \/ node' = "ended" /\ rerunRequested'
    PROVE  TurnLeaves
  BY DEF Session!PersistSnapshot, SessionIsClean, TurnLeaves

\* Every turn of the report graph.
LEMMA TurnDoes ==
    ASSUME SessionIsClean, NEW m \in Messages, Session!Turn(m)
    PROVE  TurnLeaves
  <1>1. CASE \/ Session!ConfirmDestructiveAction(m) \/ Session!ConfirmationDeclined(m)
             \/ Session!AnswerQuestion(m) \/ Session!ReviseReportText(m)
             \/ Session!ShareReport(m)
    <2>1. node = "waiting" /\ \E kind : Session!Reply(kind)
      BY <1>1 DEF Session!ConfirmDestructiveAction, Session!ConfirmationDeclined,
                  Session!AnswerQuestion, Session!ReviseReportText, Session!ShareReport,
                  Session!Receive
    <2> QED BY <2>1, TalkLeaves DEF Session!Reply
  <1>2. CASE Session!PrepareRerun(m)
    BY <1>2, TalkLeaves DEF Session!PrepareRerun, Session!Receive
  <1>3. CASE Session!FinalizeSession(m)
    BY <1>3 DEF Session!FinalizeSession, Session!Receive, Session!PersistSnapshot,
                SessionIsClean, TurnLeaves
  <1>4. CASE Session!CancelSession(m)
    <2>1. PICK kept \in SUBSET (artifacts \cap Undeletable) :
              Session!PersistSnapshot({}, disk \ (artifacts \ kept))
      BY <1>4 DEF Session!CancelSession
    <2>2. /\ artifacts' = {"session"} /\ "session" \in disk'
          /\ "final" \in disk => "final" \in disk'
      BY <1>4, <2>1 DEF Session!CancelSession, Session!Receive, Session!PersistSnapshot,
                        SessionIsClean
    <2>3. node = "waiting" /\ node' = "ended" /\ cancelled' /\ UNCHANGED finalized
      BY <1>4 DEF Session!CancelSession, Session!Receive
    <2> QED BY <2>2, <2>3 DEF SessionIsClean, TurnLeaves
  <1>5. CASE Session!NodeRaises(m)
    <2>1. /\ node = "waiting" /\ node' = "broken"
          /\ UNCHANGED <<finalized, cancelled, rerunRequested, artifacts>>
      BY <1>5 DEF Session!NodeRaises, Session!Receive
    <2>2. "final" \in disk => "final" \in disk'
      BY <1>5, <2>1 DEF Session!NodeRaises, Session!fileVars, SessionIsClean
    <2> QED BY <2>1, <2>2 DEF SessionIsClean, TurnLeaves
  <1> QED BY <1>1, <1>2, <1>3, <1>4, <1>5 DEF Session!Turn

\* The snapshot with the fields replaced that a report result decides: an outcome, a
\* cancellation, or a phase in which the report stays open.
Closed(r, a, p, f, d, c, b) ==
    [[r EXCEPT !.tracked = a] EXCEPT !.phase = p, !.refs = f, !.finalized = d,
                                     !.cancelled = c, !.rerun = b]
Dropped(r, a, p, f, t, c, d, b) ==
    [[r EXCEPT !.tracked = a] EXCEPT !.phase = p, !.refs = f, !.tracked = t,
                                     !.cancelled = c, !.finalized = d, !.rerun = b]
KeptOpen(r, a, p)        == [[r EXCEPT !.tracked = a] EXCEPT !.phase = p]
AskedAgain(r, a, p, b)   == [[r EXCEPT !.tracked = a] EXCEPT !.phase = p, !.rerun = b]

\* The fields of such a snapshot.
LEMMA ClosedFields ==
    ASSUME NEW r, DOMAIN r = Fields, NEW a, NEW p, NEW f, NEW d, NEW c, NEW b
    PROVE  LET u == Closed(r, a, p, f, d, c, b)
           IN  /\ DOMAIN u = Fields /\ u.phase = p
               /\ u.run = r.run /\ u.refs = f /\ u.tracked = a
  BY FieldsAre DEF Closed

\* The fields of the snapshot of a cancelled report.
LEMMA DroppedFields ==
    ASSUME NEW r, DOMAIN r = Fields, NEW a, NEW p, NEW f, NEW t, NEW c, NEW d, NEW b
    PROVE  LET u == Dropped(r, a, p, f, t, c, d, b)
           IN  DOMAIN u = Fields /\ u.phase = p
  BY FieldsAre DEF Dropped

\* The fields of the snapshot of a report that stays open, or is to be run again.
LEMMA OpenFields ==
    ASSUME NEW r, DOMAIN r = Fields, NEW a, NEW p, NEW b,
           NEW u, u = KeptOpen(r, a, p) \/ u = AskedAgain(r, a, p, b)
    PROVE  /\ DOMAIN u = Fields /\ u.phase = p
           /\ u.run = r.run /\ u.refs = r.refs /\ u.tracked = a
  BY FieldsAre DEF KeptOpen, AskedAgain

\* What the report orchestrator may save after a turn.
SavesReport ==
    /\ SnapshotFields'
    /\ \/ snapshot'.phase \in {"error", "cancelled"} /\ UNCHANGED row
       \/ /\ snapshot'.phase = "finalized" /\ finalized' /\ row' = snapshot.run
          /\ snapshot'.run = snapshot.run
          /\ snapshot'.refs = snapshot.refs \cup {"final"}
          /\ snapshot'.tracked = snapshot.tracked \cup artifacts'
       \/ /\ \/ snapshot'.phase = "rerun_requested"
             \/ snapshot'.phase = "report_interaction" /\ ~finalized' /\ ~rerunRequested'
          /\ ~cancelled' /\ node' # "broken" /\ UNCHANGED row
          /\ snapshot'.run = snapshot.run /\ snapshot'.refs = snapshot.refs
          /\ snapshot'.tracked = snapshot.tracked \cup artifacts'

\* Each way a message of the report interaction is saved.
LEMMA InteractionSaves ==
    ASSUME SnapshotFields, NEW m \in Messages, ContinueReportInteraction(m)
    PROVE  SavesReport /\ (snapshot'.phase # "error" => node' # "broken")
  <1> DEFINE a == snapshot.tracked \cup artifacts'
             yes == TRUE
             no  == FALSE
  <1>1. DOMAIN snapshot = Fields
    BY DEF SnapshotFields, Fields
  <1>2. CASE node' = "broken" /\ snapshot' = Failed(snapshot) /\ UNCHANGED row
    <2>1. DOMAIN snapshot' = Fields /\ snapshot'.phase = "error"
      BY <1>1, <1>2, FieldsAre DEF Failed
    <2> QED BY <1>2, <2>1 DEF SavesReport, SnapshotFields, Fields
  <1>3. CASE node' # "broken" /\ SaveFinalized
    <2> DEFINE f == snapshot.refs \cup {"final"}
    <2>1. PICK p \in {"finalized", "error"} :
              /\ snapshot' = Finalized(p)
              /\ p = "finalized" => row' = snapshot.run
              /\ p = "error" => UNCHANGED row
      BY <1>3 DEF SaveFinalized
    <2>2. Updated.refs = snapshot.refs
      BY <1>1, FieldsAre DEF Updated
    <2>3. snapshot' = Closed(snapshot, a, p, f, yes, no, no)
      BY <2>1, <2>2 DEF Finalized, Updated, Closed
    <2> HIDE DEF a, f, yes, no
    <2>4. /\ DOMAIN snapshot' = Fields /\ snapshot'.phase = p
          /\ snapshot'.run = snapshot.run /\ snapshot'.refs = f /\ snapshot'.tracked = a
      BY <1>1, <2>3, ClosedFields
    <2> QED BY <1>3, <2>1, <2>4 DEF SavesReport, SaveFinalized, SnapshotFields, Fields,
                                    a, f
  <1>4. CASE node' # "broken" /\ SaveCancelled
    <2> DEFINE f == Updated.refs \ {"staged", "final"}
               t == {}
    <2>1. snapshot' = Dropped(snapshot, a, "cancelled", f, t, yes, no, no) /\ UNCHANGED row
      BY <1>4 DEF SaveCancelled, Updated, Dropped
    <2> HIDE DEF a, f, t, yes, no
    <2>2. DOMAIN snapshot' = Fields /\ snapshot'.phase = "cancelled"
      BY <1>1, <2>1, DroppedFields
    <2> QED BY <1>4, <2>1, <2>2 DEF SavesReport, SnapshotFields, Fields
  <1>5. CASE node' # "broken" /\ SaveRerunRequested
    <2>1. /\ snapshot' = AskedAgain(snapshot, a, "rerun_requested", yes)
          /\ ~cancelled' /\ UNCHANGED row
      BY <1>5 DEF SaveRerunRequested, Updated, AskedAgain
    <2> HIDE DEF a, yes
    <2>2. /\ DOMAIN snapshot' = Fields /\ snapshot'.phase = "rerun_requested"
          /\ snapshot'.run = snapshot.run /\ snapshot'.refs = snapshot.refs
          /\ snapshot'.tracked = a
      BY <1>1, <2>1, OpenFields
    <2> QED BY <1>5, <2>1, <2>2 DEF SavesReport, SnapshotFields, Fields, a
  <1>6. CASE node' # "broken" /\ SaveInteraction
    <2>1. /\ snapshot' = KeptOpen(snapshot, a, "report_interaction")
          /\ ~finalized' /\ ~cancelled' /\ ~rerunRequested' /\ UNCHANGED row
      BY <1>6 DEF SaveInteraction, Updated, KeptOpen
    <2> HIDE DEF a
    <2>2. /\ DOMAIN snapshot' = Fields /\ snapshot'.phase = "report_interaction"
          /\ snapshot'.run = snapshot.run /\ snapshot'.refs = snapshot.refs
          /\ snapshot'.tracked = a
      BY <1>1, <2>1, OpenFields
    <2> QED BY <1>6, <2>1, <2>2 DEF SavesReport, SnapshotFields, Fields, a
  <1> QED BY <1>2, <1>3, <1>4, <1>5, <1>6 DEF ContinueReportInteraction

\* A turn, or a message to a session that has asked for a rerun, keeps the invariant:
\* the phase it saves is that of the session, and what it lists is there.
LEMMA InteractionKeeps ==
    ASSUME SafetyInv, NEW m \in Messages, ContinueReportInteraction(m)
    PROVE  SnapshotFields' /\ DesignInv' /\ ReportInv'
  <1>1. /\ UNCHANGED <<pendingTargets, pendingScopes, graph, contexts, drafts, reviewOf,
                       preview, starts, executions>>
        /\ snapshot.phase \in {"report_interaction", "rerun_requested"}
        /\ SavesReport
        /\ snapshot'.phase # "error" => node' # "broken"
    BY RoutedFits, InteractionSaves DEF ContinueReportInteraction, reviewVars, PhaseFits,
                                        ReportPhases, SafetyInv
  <1>2. /\ TurnLeaves
        /\ snapshot.phase = "rerun_requested" =>
              /\ ~finalized' /\ ~cancelled' /\ rerunRequested'
    <2>1. CASE Session!Turn(m)
      <3>1. node = "waiting"
        BY <2>1, TurnEndsOnRerun DEF SafetyInv, LifecycleInv
      <3> QED BY <2>1, <3>1, TurnDoes DEF SafetyInv, ReportInv, LifecycleInv, RerunHasEnded
    <2>2. CASE node = "ended" /\ UNCHANGED reportVars
      <3>1. /\ node = "ended" /\ UNCHANGED <<disk, node, finalized, cancelled,
                                             rerunRequested, artifacts>>
        BY <2>2 DEF reportVars, sessionVars, fileVars
      <3>2. /\ snapshot.phase = "rerun_requested"
            /\ rerunRequested /\ ~finalized /\ ~cancelled
        BY <1>1, <3>1 DEF SafetyInv, DesignInv, RepliesAreExpected, LifecycleInv,
                          RerunHasEnded
      <3> QED BY <3>1, <3>2 DEF TurnLeaves, SafetyInv, ReportInv, SessionIsClean
    <2> QED BY <2>1, <2>2 DEF ContinueReportInteraction
  <1>3. snapshot'.phase = "report_interaction" => node' = "waiting"
    BY <1>1, <1>2 DEF SavesReport, TurnLeaves
  <1>4. DesignInv'
    <2>1. snapshot'.phase \in {"error", "cancelled", "finalized", "rerun_requested",
                               "report_interaction"}
      BY <1>1 DEF SavesReport
    <2>2. RepliesAreExpected' /\ DraftsAreShown'
      BY <1>1, <1>3, <2>1 DEF SafetyInv, DesignInv, RepliesAreExpected, DraftsAreShown
    <2>3. RequestsAreFresh' /\ ReviewIsUnexecuted'
      BY <1>1, <2>1 DEF SafetyInv, DesignInv, RequestsAreFresh, ReviewIsUnexecuted,
                        ExecutedReviews
    <2> QED BY <2>2, <2>3 DEF DesignInv
  <1>5. /\ Session!Reports \subseteq snapshot.refs /\ snapshot.refs \cap Drafts # {}
        /\ snapshot.refs \cup snapshot.tracked \subseteq disk
    BY <1>1 DEF SafetyInv, ReportInv, ListedReportsExist, ReportPhases
  <1>6. OnlyDraftIsListed' /\ SessionIsClean'
    BY <1>1, <1>2 DEF SavesReport, OnlyDraftIsListed, ReplyPhases, TurnLeaves
  <1>7. RunIsOfTheReview'
    BY <1>1, <1>2 DEF SafetyInv, ReportInv, RunIsOfTheReview, SavesReport
  <1>8. snapshot'.phase = "finalized" =>
            /\ snapshot.phase = "report_interaction" /\ node' # "broken"
            /\ finalized' /\ ~cancelled' /\ "final" \in disk' /\ disk \subseteq disk'
    BY <1>1, <1>2 DEF SavesReport, TurnLeaves
  <1>9. FinalizedIsRecorded'
    BY <1>1, <1>8 DEF SafetyInv, ReportInv, RunIsOfTheReview, SavesReport,
                      FinalizedIsRecorded
  <1>10. ListedReportsExist'
    <2>1. row' > 0 => "final" \in disk'
      BY <1>1, <1>2, <1>8 DEF SafetyInv, ReportInv, ListedReportsExist, SavesReport,
                              TurnLeaves
    <2>2. ASSUME snapshot'.phase \in ReportPhases \cup {"finalized"}
          PROVE  /\ Session!Reports \subseteq snapshot'.refs /\ snapshot'.refs \cap Drafts # {}
                 /\ snapshot'.refs \cup snapshot'.tracked \subseteq disk'
      BY <1>1, <1>2, <1>5, <1>8, <2>2 DEF SavesReport, TurnLeaves, ReportPhases
    <2> QED BY <2>1, <2>2 DEF ListedReportsExist
  <1> QED BY <1>1, <1>4, <1>6, <1>7, <1>9, <1>10 DEF SavesReport, ReportInv

-----------------------------------------------------------------------------
(* The process, and every step, keep it *)

\* A restart forgets the snapshot and the replies that were waited for; whether or not
\* the checkpoints survive, none of them is of a review that was executed and could be
\* approved again.
LEMMA RestartKeeps ==
    ASSUME SafetyInv, ProcessRestart
    PROVE  SnapshotFields' /\ DesignInv' /\ ReportInv'
  <1>1. /\ snapshot' = NoSnapshot /\ pendingTargets' = {} /\ pendingScopes' = {}
        /\ UNCHANGED <<starts, executions, row>> /\ disk \subseteq disk'
    BY DEF ProcessRestart, recordVars
  <1>2. \/ UNCHANGED <<graph, contexts, reviewOf, node, finalized, cancelled,
                       rerunRequested, artifacts>>
        \/ /\ graph' = "absent" /\ reviewOf' = 0 /\ node' = "absent"
    BY DEF ProcessRestart, CheckpointsKept, CheckpointsLost, sessionVars
  <1>3. SnapshotFields' /\ snapshot'.phase = "none"
    BY <1>1 DEF SnapshotFields, NoSnapshot
  <1>4. ExecutedReviews' = ExecutedReviews
    BY <1>1 DEF ExecutedReviews
  <1>5. RepliesAreExpected' /\ DraftsAreShown'
    BY <1>1, <1>2, <1>3 DEF SafetyInv, DesignInv, RepliesAreExpected, DraftsAreShown
  <1>6. RequestsAreFresh' /\ ReviewIsUnexecuted'
    BY <1>1, <1>2, <1>3, <1>4 DEF SafetyInv, DesignInv, RequestsAreFresh,
                                  ReviewIsUnexecuted
  <1>7. SessionIsClean' /\ OnlyDraftIsListed' /\ RunIsOfTheReview'
    BY <1>1, <1>2, <1>3 DEF SafetyInv, ReportInv, SessionIsClean, OnlyDraftIsListed,
                            RunIsOfTheReview, ReplyPhases
  <1>8. ListedReportsExist' /\ FinalizedIsRecorded'
    BY <1>1, <1>3 DEF SafetyInv, ReportInv, ListedReportsExist, FinalizedIsRecorded,
                      ReportPhases
  <1> QED BY <1>3, <1>5, <1>6, <1>7, <1>8 DEF DesignInv, ReportInv

\* A step that changes nothing.
LEMMA StutterKeeps ==
    ASSUME SafetyInv, UNCHANGED vars
    PROVE  SnapshotFields' /\ DesignInv' /\ ReportInv'
  <1>1. UNCHANGED <<snapshot, executions, row, disk, node, finalized, cancelled,
                    rerunRequested, artifacts, graph, contexts, drafts, preview, feedback,
                    reviewOf, starts, pendingTargets, pendingScopes>>
    BY DEF vars, reviewVars, reportVars, sessionVars, fileVars, recordVars
  <1>2. SnapshotFields' /\ DesignInv'
    BY <1>1 DEF SafetyInv, SnapshotFields, DesignInv, RepliesAreExpected, DraftsAreShown,
                RequestsAreFresh, ReviewIsUnexecuted, ExecutedReviews
  <1>3. ReportInv'
    BY <1>1 DEF SafetyInv, ReportInv, SessionIsClean, OnlyDraftIsListed, RunIsOfTheReview,
                ListedReportsExist, FinalizedIsRecorded
  <1> QED BY <1>2, <1>3

\* Every call, and the restart, keeps the invariant.
LEMMA EveryStepKeeps ==
    ASSUME SafetyInv, [Next]_vars
    PROVE  SafetyInv'
  <1>1. LifecycleInv' /\ ReviewInv'
    BY EveryStep, ReviewKeptScoped DEF SafetyInv
  <1>2. SnapshotFields /\ DesignInv /\ ReportInv
    BY DEF SafetyInv
  <1>3. CASE UNCHANGED vars
    BY <1>1, <1>3, StutterKeeps DEF SafetyInv
  <1>4. CASE StartFromText
    BY <1>1, <1>2, <1>4, StartKeepsDesign, StartKeepsReport DEF SafetyInv
  <1>5. CASE ResumeTargetSelection
    BY <1>1, <1>2, <1>5, TargetSelectionKeepsDesign, TargetSelectionKeepsReport
    DEF SafetyInv
  <1>6. CASE AskScopeRecommendation
    BY <1>1, <1>2, <1>6, RecommendationKeepsDesign, RecommendationKeepsReport
    DEF SafetyInv
  <1>7. CASE ResumeScopeConfirmation
    BY <1>1, <1>2, <1>7, ScopeConfirmationKeepsDesign, ScopeConfirmationKeepsReport
    DEF SafetyInv
  <1>8. CASE ResumeReview
    BY <1>1, <1>2, <1>8, ReviewKeepsDesign, ReviewKeepsReport DEF SafetyInv
  <1>9. CASE RunPostApprovalPipeline
    BY <1>1, <1>9, PipelineKeeps DEF SafetyInv
  <1>10. ASSUME NEW m \in Messages, ContinueReportInteraction(m)
         PROVE  SafetyInv'
    BY <1>1, <1>10, InteractionKeeps DEF SafetyInv
  <1>11. CASE ProcessRestart
    BY <1>1, <1>11, RestartKeeps DEF SafetyInv
  <1> QED BY <1>3, <1>4, <1>5, <1>6, <1>7, <1>8, <1>9, <1>10, <1>11 DEF Next

\* A thread without a workflow.
LEMMA InitiallySafe == Init => SafetyInv
  <1> SUFFICES ASSUME Init PROVE SafetyInv
    OBVIOUS
  <1>1. /\ snapshot = NoSnapshot /\ executions = <<>> /\ row = 0
        /\ pendingTargets = {} /\ pendingScopes = {} /\ graph = "absent"
        /\ reviewOf = 0 /\ starts = 0 /\ node = "absent"
    BY DEF Init, Review!Init, Session!Init
  <1>2. SnapshotFields /\ snapshot.phase = "none"
    BY <1>1 DEF SnapshotFields, NoSnapshot
  <1>3. ExecutedReviews = {}
    BY <1>1 DEF ExecutedReviews
  <1>4. DesignInv
    BY <1>1, <1>2, <1>3 DEF DesignInv, RepliesAreExpected, DraftsAreShown,
                            RequestsAreFresh, ReviewIsUnexecuted
  <1>5. ReportInv
    BY <1>1, <1>2 DEF ReportInv, SessionIsClean, OnlyDraftIsListed, RunIsOfTheReview,
                      ListedReportsExist, FinalizedIsRecorded, ReplyPhases, ReportPhases
  <1> QED BY <1>2, <1>4, <1>5, InitialStep, InitiallyScoped DEF SafetyInv

\* The snapshot, the graphs, the pending replies, the files and the row stay related in
\* every reachable state, whatever fails between their writes.
THEOREM SafetyHolds == Spec => []SafetyInv
  <1>1. Init => SafetyInv
    BY InitiallySafe
  <1>2. SafetyInv /\ [Next]_vars => SafetyInv'
    BY EveryStepKeeps
  <1> QED BY <1>1, <1>2, PTL DEF Spec

-----------------------------------------------------------------------------
(* What the callers rely on *)

\* The latest recommendation is applied only where the snapshot has one.
LEMMA RecommendationIsThere ==
    ASSUME NEW text, NEW answer, NEW phase, NEW recommended \in BOOLEAN,
           Decide(text, answer, phase, recommended) = "apply_scope_recommendation"
    PROVE  recommended
  <1> DEFINE rule == Rule(text, phase, recommended)
  <1>1. rule = "apply_scope_recommendation" => recommended
    BY DEF Rule, Meta, TargetRule, ScopeRule, ReviewRule, ReportRule, TerminalRule
  <1>2. CASE AsksModel(text, phase, rule)
    BY <1>1, <1>2 DEF Decide, PhasePolicy, OwnAnswers, AsksModel
  <1>3. CASE ~AsksModel(text, phase, rule)
    BY <1>1, <1>3 DEF Decide
  <1> QED BY <1>2, <1>3

\* Whatever a message is taken for can be carried out, and the phases that wait for the
\* pipeline or for a report find their graph where they need it.
THEOREM PhaseIsAnswered == Spec => []PhaseCanBeAnswered
  <1>1. SafetyInv => PhaseCanBeAnswered
    <2> SUFFICES ASSUME SafetyInv PROVE PhaseCanBeAnswered
      OBVIOUS
    <2>1. RepliesAreExpected /\ RerunHasEnded
      BY DEF SafetyInv, DesignInv, LifecycleInv
    <2>2. ASSUME NEW route \in Routes, route.phase = snapshot.phase,
                 route.recommended = snapshot.recommended
          PROVE  Needs(route.intent)
      <3>1. PICK phase \in Phases, recommended \in BOOLEAN, text \in Texts,
                 answer \in Answers :
                route = [ phase |-> phase, recommended |-> recommended,
                          intent |-> Decide(text, answer, phase, recommended) ]
        BY RoutesAssumption DEF Routings
      <3>2. /\ route.intent = Decide(text, answer, phase, recommended)
            /\ phase = snapshot.phase /\ recommended = snapshot.recommended
        BY <2>2, <3>1
      <3>3. PhaseFits(route.intent, snapshot.phase)
        BY <3>2, IntentsFitThePhase
      <3>4. route.intent = "apply_scope_recommendation" => snapshot.recommended
        BY <3>2, RecommendationIsThere
      <3> HIDE DEF Needs
      <3> QED BY <2>1, <3>3, <3>4 DEF Needs, PhaseFits, RepliesAreExpected,
                                      RerunHasEnded, ReportPhases
    <2> QED BY <2>1, <2>2 DEF PhaseCanBeAnswered, RepliesAreExpected, RerunHasEnded
  <1> QED BY <1>1, SafetyHolds, PTL

\* A finalized workflow is recorded: the row is of its run, the last one, and the
\* official report exists.
THEOREM FinalizedRunIsRecorded == Spec => []FinalizedIsRecorded
  <1>1. SafetyInv => FinalizedIsRecorded
    BY DEF SafetyInv, ReportInv
  <1> QED BY <1>1, SafetyHolds, PTL

\* The final report of a row exists, whatever the thread did later, and so do the files of
\* a report under discussion or finalized, cancellations of earlier sessions and failed
\* pipelines included.  A cancelled or failed thread may list files that are gone.
THEOREM ListedReportsAreThere == Spec => []ListedReportsExist
  <1>1. SafetyInv => ListedReportsExist
    BY DEF SafetyInv, ReportInv
  <1> QED BY <1>1, SafetyHolds, PTL

\* Only the pipeline executes, and what it hands to the execution engine is the draft
\* the user saw last and approved, of a review that was not executed before.
THEOREM OnlyApprovedIsExecuted == Spec => ExecutionsAreApproved
  <1> DEFINE Approved == executions' # executions =>
                 /\ graph = "approved" /\ preview # {}
                 /\ executions' = Append(executions,
                                         [review |-> reviewOf, operations |-> preview])
                 /\ \A i \in DOMAIN executions : executions[i].review # reviewOf
  <1>1. SafetyInv /\ [Next]_vars => [Approved]_vars
    <2> SUFFICES ASSUME SafetyInv, Next, executions' # executions PROVE Approved
      OBVIOUS
    <2>1. RunPostApprovalPipeline
      BY DEF Next, StartFromText, ResumeTargetSelection, AskScopeRecommendation,
             ResumeScopeConfirmation, ResumeReview, ContinueReportInteraction,
             ProcessRestart, recordVars
    <2>2. /\ snapshot.phase = "approved" /\ executions' = Append(executions, Executed)
      BY <2>1 DEF RunPostApprovalPipeline
    <2>3. /\ graph = "approved" /\ drafts = preview /\ preview # {}
          /\ reviewOf \notin ExecutedReviews
      BY <2>2 DEF SafetyInv, DesignInv, RepliesAreExpected, DraftsAreShown,
                  ReviewIsUnexecuted
    <2> QED BY <2>2, <2>3 DEF Executed, ExecutedReviews
  <1>2. Spec => [][Approved]_vars
    BY <1>1, SafetyHolds, PTL DEF Spec
  <1> QED BY <1>2 DEF ExecutionsAreApproved

-----------------------------------------------------------------------------
(* The counts that bound each other *)

\* A review is executed once, so the bound on the starts bounds the executions.
ExecutedOnce ==
    \A i, j \in DOMAIN executions : executions[i].review = executions[j].review => i = j

\* What the type invariant needs besides its own: a run that a snapshot is of was
\* executed, and may become the one the row records.
TypeInv ==
    /\ snapshot \in SnapshotType /\ snapshot.run \in 0..Len(executions)
    /\ executions \in Seq(Execution) /\ ExecutedOnce
    /\ row \in 0..Len(executions)

\* As many executions as there are reviews, at most.
LEMMA ExecutionsAreBounded ==
    ASSUME NEW e \in Seq(Execution), NEW n \in Nat,
           \A i \in DOMAIN e : e[i].review \in 1..n,
           \A i, j \in DOMAIN e : e[i].review = e[j].review => i = j
    PROVE  Len(e) <= n
  <1> SUFFICES ASSUME Len(e) > n PROVE FALSE
    BY DEF Execution
  <1> DEFINE f == [i \in 1..Len(e) |-> e[i].review]
  <1>1. /\ Len(e) \in Nat /\ DOMAIN e = 1..Len(e)
        /\ 1 \in Int /\ n \in Int /\ Len(e) \in Int
    OBVIOUS
  <1>2. /\ IsFiniteSet(1..Len(e))
        /\ Cardinality(1..Len(e)) = IF 1 > Len(e) THEN 0 ELSE Len(e) - 1 + 1
    BY <1>1, FS_Interval
  <1>3. /\ IsFiniteSet(1..n)
        /\ Cardinality(1..n) = IF 1 > n THEN 0 ELSE n - 1 + 1
    BY <1>1, FS_Interval
  <1>4. Cardinality(1..n) < Cardinality(1..Len(e))
    BY <1>1, <1>2, <1>3
  <1>5. f \in [1..Len(e) -> 1..n] /\ \A x \in 1..Len(e) : f[x] = e[x].review
    BY <1>1
  <1>6. \A x, y \in 1..Len(e) : f[x] = f[y] => x = y
    BY <1>1, <1>5
  <1> HIDE DEF f
  <1>7. \E x, y \in 1..Len(e) : x # y /\ f[x] = f[y]
    BY <1>2, <1>3, <1>4, <1>5, FS_PigeonHole
  <1> QED BY <1>6, <1>7

-----------------------------------------------------------------------------
(* What is saved is a snapshot *)

\* Every report but the final one is written by the pipeline.
LEMMA FilesAre ==
    Session!File = Drafts \cup {"execution", "validation", "staged", "session", "final"}
  BY DEF Session!File, Session!Reports

\* Of a review result.
LEMMA ReviewedTyped ==
    ASSUME NEW r \in SnapshotType, NEW p \in Phases, NEW q \in 0..MaxStarts,
           NEW s \in BOOLEAN, NEW n \in 0..MaxStarts, NEW f \in SUBSET Session!File,
           NEW d \in BOOLEAN, NEW c \in BOOLEAN
    PROVE  Reviewed(r, p, q, s, n, f, d, c) \in SnapshotType
  BY DEF Reviewed, SnapshotType

\* Of a run whose report is open.
LEMMA OpenedTyped ==
    ASSUME NEW r \in SnapshotType, NEW p \in Phases, NEW n \in 0..MaxStarts,
           NEW f \in SUBSET Session!File, NEW t \in SUBSET Session!File
    PROVE  Opened(r, p, n, f, t) \in SnapshotType
  BY DEF Opened, SnapshotType

\* Of a report that is final.
LEMMA ClosedTyped ==
    ASSUME NEW r \in SnapshotType, NEW p \in Phases, NEW a \in SUBSET Session!File,
           NEW f \in SUBSET Session!File, NEW d \in BOOLEAN, NEW c \in BOOLEAN,
           NEW b \in BOOLEAN
    PROVE  /\ Closed(r, a, p, f, d, c, b) \in SnapshotType
           /\ Closed(r, a, p, f, d, c, b).run = r.run
  BY DEF Closed, SnapshotType

\* Of a report that was dropped.
LEMMA DroppedTyped ==
    ASSUME NEW r \in SnapshotType, NEW p \in Phases, NEW a \in SUBSET Session!File,
           NEW f \in SUBSET Session!File, NEW t \in SUBSET Session!File,
           NEW c \in BOOLEAN, NEW d \in BOOLEAN, NEW b \in BOOLEAN
    PROVE  /\ Dropped(r, a, p, f, t, c, d, b) \in SnapshotType
           /\ Dropped(r, a, p, f, t, c, d, b).run = r.run
  BY DEF Dropped, SnapshotType

\* Of a report that stays open.
LEMMA KeptOpenTyped ==
    ASSUME NEW r \in SnapshotType, NEW p \in Phases, NEW a \in SUBSET Session!File
    PROVE  KeptOpen(r, a, p) \in SnapshotType /\ KeptOpen(r, a, p).run = r.run
  BY DEF KeptOpen, SnapshotType

\* Of a report that is to be run again.
LEMMA AskedAgainTyped ==
    ASSUME NEW r \in SnapshotType, NEW p \in Phases, NEW a \in SUBSET Session!File,
           NEW b \in BOOLEAN
    PROVE  AskedAgain(r, a, p, b) \in SnapshotType /\ AskedAgain(r, a, p, b).run = r.run
  BY DEF AskedAgain, SnapshotType

\* What a review result leads to is a snapshot whatever the review orchestrator answers,
\* and one of no run.
LEMMA HandledTyped ==
    ASSUME ReviewInv', NEW prior \in SnapshotType, NEW request \in 0..MaxStarts, NEW status,
           NEW drafted \in BOOLEAN
    PROVE  /\ HandleReviewResult(prior, request, status, drafted) \in SnapshotType
           /\ HandleReviewResult(prior, request, status, drafted).run = 0
  <1> DEFINE p  == PhaseOf(status)
             f  == IF drafted THEN (prior.refs \ Drafts) \cup {RoundDraft} ELSE prior.refs
             no == FALSE
             c  == status = "cancelled"
  <1>1. HandleReviewResult(prior, request, status, drafted)
            = Reviewed(prior, p, request, no, 0, f, no, c)
    BY DEF HandleReviewResult, Reviewed
  <1>2. p \in Phases /\ no \in BOOLEAN /\ c \in BOOLEAN /\ 0 \in 0..MaxStarts
    BY StartsAssumption DEF PhaseOf, ReplyPhases, Phases
  <1>3. f \in SUBSET Session!File
    BY FilesAre, RoundHasAFile DEF SnapshotType
  <1>4. DOMAIN prior = Fields
    BY FieldsAre DEF SnapshotType
  <1> HIDE DEF p, f, no, c
  <1> QED BY <1>1, <1>2, <1>3, <1>4, ReviewedTyped, ReviewedFields

\* A failure keeps all but the phase.
LEMMA FailedTyped ==
    ASSUME NEW r \in SnapshotType
    PROVE  Failed(r) \in SnapshotType /\ Failed(r).run = r.run
  BY DEF Failed, SnapshotType, Phases

\* The first snapshot.
LEMMA NoSnapshotTyped == NoSnapshot \in SnapshotType /\ NoSnapshot.run = 0
  <1>1. 0 \in 0..MaxStarts
    BY StartsAssumption
  <1> QED BY <1>1 DEF NoSnapshot, SnapshotType, Phases

-----------------------------------------------------------------------------
(* Every step keeps the types *)

\* Nothing is executed or recorded, and the snapshot is of the run it was of, or of none.
LEMMA RecordsKept ==
    ASSUME TypeInv, UNCHANGED recordVars, snapshot' \in SnapshotType,
           snapshot'.run \in {0, snapshot.run}
    PROVE  TypeInv'
  <1>1. UNCHANGED <<executions, row>> /\ Len(executions) \in Nat
    BY DEF recordVars, TypeInv
  <1> QED BY <1>1 DEF TypeInv, ExecutedOnce

\* A start or a reply saves a snapshot of no run, or keeps the one it found.
LEMMA DesignKeepsTypes ==
    ASSUME TypeInv, ReviewInv', UNCHANGED recordVars,
           \/ snapshot' = snapshot
           \/ \E drafted \in BOOLEAN :
                 \/ snapshot' = HandleReviewResult(NoSnapshot, starts', result', drafted)
                 \/ SaveReviewResult(drafted)
    PROVE  TypeInv'
  <1>1. snapshot \in SnapshotType /\ snapshot.request \in 0..MaxStarts
        /\ starts' \in 0..MaxStarts
    BY DEF TypeInv, SnapshotType, ReviewInv
  <1>2. CASE snapshot' = snapshot
    BY <1>1, <1>2, RecordsKept
  <1>3. ASSUME NEW drafted \in BOOLEAN,
               \/ snapshot' = HandleReviewResult(NoSnapshot, starts', result', drafted)
               \/ SaveReviewResult(drafted)
        PROVE  TypeInv'
    <2>1. snapshot' \in SnapshotType /\ snapshot'.run \in {0, snapshot.run}
      BY <1>1, <1>3, HandledTyped, FailedTyped, NoSnapshotTyped DEF SaveReviewResult
    <2> QED BY <2>1, RecordsKept
  <1> QED BY <1>2, <1>3

\* The run is of a review that was not executed before.
LEMMA PipelineKeepsTypes ==
    ASSUME TypeInv, SafetyInv, SafetyInv', ReviewInv, ReviewInv', SessionInv',
           RunPostApprovalPipeline
    PROVE  TypeInv'
  <1>1. /\ Len(executions) \in Nat /\ DOMAIN executions = 1..Len(executions)
        /\ executions \in Seq(Execution) /\ row \in 0..Len(executions)
        /\ snapshot \in SnapshotType /\ snapshot.run \in 0..Len(executions)
        /\ UNCHANGED row /\ artifacts' \in SUBSET Session!File
    BY DEF TypeInv, RunPostApprovalPipeline, SessionInv, Session!TypeOK
  <1>2. /\ reviewOf \in (1..starts) \ ExecutedReviews
        /\ starts \in 0..MaxStarts /\ starts' \in 0..MaxStarts
        /\ drafts \in SUBSET Operations
        /\ ExecutedReviews' \subseteq 1..starts'
    BY DEF SafetyInv, DesignInv, ReviewIsUnexecuted, RunPostApprovalPipeline, ReviewInv,
           GraphInv, Review!GraphOK, RequestsAreFresh
  <1>3. Executed \in Execution /\ Executed.review = reviewOf
    BY <1>2, StartsAssumption DEF Executed, Execution
  <1>4. ASSUME executions' = executions \/ executions' = Append(executions, Executed)
        PROVE  /\ executions' \in Seq(Execution) /\ ExecutedOnce'
               /\ Len(executions') \in Nat /\ Len(executions') >= Len(executions)
    <2>1. CASE executions' = executions
      BY <1>1, <2>1 DEF TypeInv, ExecutedOnce
    <2>2. CASE executions' = Append(executions, Executed)
      <3>1. /\ executions' \in Seq(Execution) /\ Len(executions') = Len(executions) + 1
            /\ DOMAIN executions' = 1..(Len(executions) + 1)
            /\ \A i \in 1..Len(executions) : executions'[i] = executions[i]
            /\ executions'[Len(executions) + 1] = Executed
        BY <1>1, <1>3, <2>2
      <3>2. \A i \in 1..Len(executions) : executions[i].review # reviewOf
        BY <1>1, <1>2 DEF ExecutedReviews
      <3>3. \A i \in 1..(Len(executions) + 1) :
                i \in 1..Len(executions) \/ i = Len(executions) + 1
        BY <1>1
      <3>4. ExecutedOnce'
        BY <1>1, <1>3, <3>1, <3>2, <3>3 DEF TypeInv, ExecutedOnce
      <3> QED BY <1>1, <3>1, <3>4
    <2> QED BY <1>4, <2>1, <2>2
  <1>5. ASSUME executions' = executions \/ executions' = Append(executions, Executed)
        PROVE  Len(executions') \in 0..MaxStarts
    <2>1. /\ executions' \in Seq(Execution) /\ ExecutedOnce' /\ Len(executions') \in Nat
      BY <1>4, <1>5
    <2>2. /\ \A i \in DOMAIN executions' : executions'[i].review \in 1..starts'
          /\ starts' \in Nat
      BY <1>2, StartsAssumption DEF ExecutedReviews
    <2>3. Len(executions') <= starts'
      BY <2>1, <2>2, ExecutionsAreBounded DEF ExecutedOnce
    <2> QED BY <1>2, <2>1, <2>3, StartsAssumption
  <1>6. ASSUME snapshot' = Failed(snapshot),
               executions' = executions \/ executions' = Append(executions, Executed)
        PROVE  TypeInv'
    <2>1. snapshot' \in SnapshotType /\ snapshot'.run = snapshot.run
      BY <1>1, <1>6, FailedTyped
    <2>2. /\ executions' \in Seq(Execution) /\ ExecutedOnce'
          /\ Len(executions') \in Nat /\ Len(executions') >= Len(executions)
      BY <1>4, <1>6
    <2> QED BY <1>1, <2>1, <2>2 DEF TypeInv
  <1>7. CASE /\ executions' = Append(executions, Executed)
             /\ snapshot' = [snapshot EXCEPT
                               !.phase = "report_interaction",
                               !.run = Len(executions'),
                               !.refs = @ \cup {"execution", "validation", "staged"},
                               !.tracked = @ \cup artifacts']
    <2> DEFINE n == Len(executions')
               f == snapshot.refs \cup {"execution", "validation", "staged"}
               t == snapshot.tracked \cup artifacts'
    <2>1. snapshot' = Opened(snapshot, "report_interaction", n, f, t)
      BY <1>7 DEF Opened
    <2>2. f \in SUBSET Session!File /\ t \in SUBSET Session!File
      BY <1>1, FilesAre DEF SnapshotType
    <2>3. DOMAIN snapshot = Fields /\ "report_interaction" \in Phases
      BY <1>1, FieldsAre DEF SnapshotType, Phases
    <2>4. n \in 0..MaxStarts
      BY <1>5, <1>7
    <2> HIDE DEF n, f, t
    <2>5. snapshot' \in SnapshotType /\ snapshot'.run = n
      BY <1>1, <2>1, <2>2, <2>3, <2>4, OpenedTyped, OpenedFields
    <2>6. /\ executions' \in Seq(Execution) /\ ExecutedOnce'
          /\ Len(executions') \in Nat /\ Len(executions') >= Len(executions)
      BY <1>4, <1>7
    <2> QED BY <1>1, <2>5, <2>6 DEF TypeInv, n
  <1> QED BY <1>6, <1>7 DEF RunPostApprovalPipeline

\* However a message of the report interaction is saved.
LEMMA InteractionKeepsTypes ==
    ASSUME TypeInv, SessionInv', NEW m \in Messages, ContinueReportInteraction(m)
    PROVE  TypeInv'
  <1> DEFINE a == snapshot.tracked \cup artifacts'
             f == snapshot.refs \cup {"final"}
             g == snapshot.refs \ {"staged", "final"}
             none == {}
             yes == TRUE
             no  == FALSE
  <1>1. /\ snapshot \in SnapshotType /\ DOMAIN snapshot = Fields
        /\ snapshot.run \in 0..Len(executions) /\ Len(executions) \in Nat
        /\ UNCHANGED executions /\ executions \in Seq(Execution) /\ ExecutedOnce
        /\ row \in 0..Len(executions)
    BY FieldsAre DEF TypeInv, SnapshotType, ContinueReportInteraction
  <1>2. /\ a \in SUBSET Session!File /\ f \in SUBSET Session!File
        /\ g \in SUBSET Session!File /\ none \in SUBSET Session!File
    BY <1>1, FilesAre DEF SnapshotType, SessionInv, Session!TypeOK
  <1>3. /\ yes \in BOOLEAN /\ no \in BOOLEAN
        /\ {"finalized", "error", "cancelled", "rerun_requested", "report_interaction"}
              \subseteq Phases
    BY DEF Phases
  <1>4. Updated.refs = snapshot.refs
    BY <1>1, FieldsAre DEF Updated
  <1>5. row' \in {row, snapshot.run}
    BY DEF ContinueReportInteraction, SaveFinalized, SaveCancelled, SaveRerunRequested,
           SaveInteraction
  <1>6. \/ snapshot' = Failed(snapshot)
        \/ snapshot' = Closed(snapshot, a, "finalized", f, yes, no, no)
        \/ snapshot' = Closed(snapshot, a, "error", f, yes, no, no)
        \/ snapshot' = Dropped(snapshot, a, "cancelled", g, none, yes, no, no)
        \/ snapshot' = AskedAgain(snapshot, a, "rerun_requested", yes)
        \/ snapshot' = KeptOpen(snapshot, a, "report_interaction")
    <2>1. CASE SaveFinalized
      BY <1>4, <2>1 DEF SaveFinalized, Finalized, Updated, Closed
    <2>2. CASE SaveCancelled
      BY <1>4, <2>2 DEF SaveCancelled, Updated, Dropped
    <2>3. CASE SaveRerunRequested \/ SaveInteraction
      BY <2>3 DEF SaveRerunRequested, SaveInteraction, Updated, AskedAgain, KeptOpen
    <2> QED BY <2>1, <2>2, <2>3 DEF ContinueReportInteraction
  <1> HIDE DEF a, f, g, none, yes, no
  <1>7. snapshot' \in SnapshotType /\ snapshot'.run = snapshot.run
    <2>1. CASE snapshot' = Failed(snapshot)
      BY <1>1, <2>1, FailedTyped
    <2>2. ASSUME NEW p \in {"finalized", "error"},
                 snapshot' = Closed(snapshot, a, p, f, yes, no, no)
          PROVE  snapshot' \in SnapshotType /\ snapshot'.run = snapshot.run
      <3>1. p \in Phases
        BY <1>3
      <3> QED BY <1>1, <1>2, <1>3, <2>2, <3>1, ClosedTyped
    <2>3. CASE snapshot' = Dropped(snapshot, a, "cancelled", g, none, yes, no, no)
      BY <1>1, <1>2, <1>3, <2>3, DroppedTyped
    <2>4. CASE \/ snapshot' = AskedAgain(snapshot, a, "rerun_requested", yes)
               \/ snapshot' = KeptOpen(snapshot, a, "report_interaction")
      BY <1>1, <1>2, <1>3, <2>4, AskedAgainTyped, KeptOpenTyped
    <2> QED BY <1>6, <2>1, <2>2, <2>3, <2>4
  <1> QED BY <1>1, <1>5, <1>7 DEF TypeInv, ExecutedOnce

\* Every call, and the restart.
LEMMA TypesAreKept ==
    ASSUME TypeInv, SafetyInv, SafetyInv', ReviewInv, ReviewInv', SessionInv', [Next]_vars
    PROVE  TypeInv'
  <1>1. CASE UNCHANGED vars
    BY <1>1, RecordsKept DEF vars, TypeInv
  <1>2. CASE \/ StartFromText \/ ResumeTargetSelection
             \/ ResumeScopeConfirmation \/ ResumeReview
    <2>1. Drafted \in BOOLEAN /\ TRUE \in BOOLEAN
      BY DEF Drafted
    <2> QED BY <1>2, <2>1, DesignKeepsTypes
            DEF StartFromText, ResumeTargetSelection, ResumeScopeConfirmation, ResumeReview
  <1>3. CASE AskScopeRecommendation
    <2>1. PICK b \in BOOLEAN : snapshot' = [snapshot EXCEPT !.recommended = b]
      BY <1>3 DEF AskScopeRecommendation
    <2>2. snapshot' \in SnapshotType /\ snapshot'.run = snapshot.run
      BY <2>1 DEF TypeInv, SnapshotType
    <2> QED BY <1>3, <2>2, RecordsKept DEF AskScopeRecommendation
  <1>4. CASE RunPostApprovalPipeline
    BY <1>4, PipelineKeepsTypes
  <1>5. ASSUME NEW m \in Messages, ContinueReportInteraction(m)
        PROVE  TypeInv'
    BY <1>5, InteractionKeepsTypes
  <1>6. CASE ProcessRestart
    BY <1>6, NoSnapshotTyped, RecordsKept DEF ProcessRestart
  <1> QED BY <1>1, <1>2, <1>3, <1>4, <1>5, <1>6 DEF Next

\* The variables of the workflow and of its two graphs keep their types; above all, there
\* are never more executions than requests, and the row is of one of them.
THEOREM WorkflowIsTyped == Spec => []TypeOK
  <1>1. Init => TypeInv
    <2> SUFFICES ASSUME Init PROVE TypeInv
      OBVIOUS
    <2>1. snapshot = NoSnapshot /\ executions = <<>> /\ row = 0
      BY DEF Init
    <2> QED BY <2>1, NoSnapshotTyped DEF TypeInv, ExecutedOnce
  <1>2. TypeInv /\ SafetyInv /\ SafetyInv' /\ ReviewInv /\ ReviewInv' /\ SessionInv'
            /\ [Next]_vars => TypeInv'
    BY TypesAreKept
  <1>3. TypeInv /\ ReviewInv /\ SessionInv => TypeOK
    BY DEF TypeOK, TypeInv, ReviewInv, GraphInv, Review!TypeOK, SessionInv
  <1> QED BY <1>1, <1>2, <1>3, SafetyHolds, ReviewHolds, SessionHolds, PTL DEF Spec

-----------------------------------------------------------------------------
(* The scope of what is executed *)

\* Only operations of the selected target are executed, and, unless feedback asked for
\* others, only those of the scope the user confirmed.
THEOREM ExecutionStaysInScope ==
    Spec => [][executions' # executions =>
                   /\ target \in Targets
                   /\ executions'[Len(executions')].operations \subseteq Catalog[target]
                   /\ executions'[Len(executions')].operations # {}
                   /\ chosen # {} /\ feedback = 0 =>
                         executions'[Len(executions')].operations \subseteq chosen]_vars
  <1> DEFINE last == executions'[Len(executions')].operations
             InScope == executions' # executions =>
                 /\ target \in Targets /\ last \subseteq Catalog[target] /\ last # {}
                 /\ chosen # {} /\ feedback = 0 => last \subseteq chosen
  <1>1. SafetyInv /\ ReviewInv /\ [Next]_vars => [InScope]_vars
    <2> SUFFICES ASSUME SafetyInv, ReviewInv, Next, executions' # executions PROVE InScope
      OBVIOUS
    <2>1. RunPostApprovalPipeline
      BY DEF Next, StartFromText, ResumeTargetSelection, AskScopeRecommendation,
             ResumeScopeConfirmation, ResumeReview, ContinueReportInteraction,
             ProcessRestart, recordVars
    <2>2. snapshot.phase = "approved" /\ executions' = Append(executions, Executed)
      BY <2>1 DEF RunPostApprovalPipeline
    <2>3. last = drafts
      BY <2>2, AppendExecutes DEF SafetyInv, LifecycleInv, Executed
    <2>4. graph = "approved"
      BY <2>2 DEF SafetyInv, DesignInv, RepliesAreExpected
    <2> HIDE DEF last
    <2> QED BY <2>3, <2>4 DEF ReviewInv, GraphInv, ReviewIsScoped
  <1> QED BY <1>1, SafetyHolds, ReviewHolds, PTL DEF Spec
=============================================================================
