------------------------------- MODULE FullWorkflow -------------------------------
(***************************************************************************)
(* One workflow thread end to end: FullWorkflowOrchestrator                *)
(* (tasks/full_workflow_orchestrator.py) over the test design of           *)
(* ReviewSession and the report interaction of ReportSession.              *)
(*                                                                         *)
(* The orchestrator owns a snapshot per thread.  A call reads a copy of    *)
(* it, routes the message by its phase, drives one of the two graphs, and  *)
(* saves the copy again; a call that raises first saves nothing.  The two  *)
(* graphs, the pending replies, the report files and the database row live *)
(* elsewhere and move before the snapshot is saved.                        *)
(*                                                                         *)
(* Calls are served one at a time here, an approval in two steps: the      *)
(* snapshot of phase "approved" is saved, then the pipeline runs.          *)
(* Messages that get a question back, only show something (help, status,   *)
(* catalog) or start a workflow on a thread of its own change nothing.     *)
(***************************************************************************)
EXTENDS Naturals, FiniteSets, Sequences, ConversationRouting

CONSTANTS
    Operations, Ids, GroupOf,                 \* see ApiCatalog, ScopeSelection
    Targets, Catalog, Limits, Decisions, Refinements, NoTarget,
    MaxFeedback, MaxStarts,                   \* see ReviewSession
    Messages, Undeletable, MaxRevisions, MaxSessions, \* see ReportSession
    DraftAt,                                  \* the draft report file of each round
    Routes                                    \* what the router makes of a message

\* Report files are named by target and thread; they are those of one target here.
ASSUME OneTargetAssumption == \E t \in Targets : Targets = {t}

ASSUME RoutesAssumption == Routes = Routings
ASSUME StartsAssumption == MaxStarts \in Nat

VARIABLES
    pendingTargets, pendingScopes,            \* the variables of ReviewSession
    graph, target, contexts, initialScope, drafts, feedback, reviewOf, chosen,
    result, preview, starts,
    node, lastIntent, response, latestMessage,  \* the variables of ReportSession
    finalized, cancelled, rerunRequested, finalPath, markdown, artifacts,
    disk, finalText, sessions,
    snapshot,      \* WorkflowContextSnapshot of the thread
    executions,    \* executed drafts, oldest first
    row            \* the execution the row in workflow_runs records, 0 if none

Drafts == { DraftAt[round] : round \in 1..(MaxFeedback + 1) }

Review  == INSTANCE ReviewSession
Session == INSTANCE ReportSession

\* What the two sessions ask of their constants.
ASSUME DesignAssumption ==
    /\ Catalog \in [Targets -> (SUBSET Operations) \ {{}}]
    /\ NoTarget \notin Targets
    /\ Decisions \subseteq Review!DecisionType
    /\ Refinements \subseteq Review!RefinementType
    /\ MaxFeedback \in Nat
ASSUME ReportAssumption ==
    /\ \A m \in Messages : \E text \in Session!TextType :
          /\ text.exact = m.exact /\ text.saysYes = m.saysYes /\ text.saysNo = m.saysNo
          /\ \E answer \in Session!DecisionType : m = Session!Message(text, answer)
    /\ Drafts \cap (Session!Reports \cup {"session", "final"}) = {}
    /\ MaxRevisions \in Nat /\ MaxSessions \in Nat

reviewVars   == <<pendingTargets, pendingScopes, graph, target, contexts, initialScope,
                  drafts, feedback, reviewOf, chosen, result, preview, starts>>
sessionVars  == <<node, lastIntent, response, latestMessage, finalized, cancelled,
                  rerunRequested, finalPath, markdown, artifacts>>
fileVars     == <<disk, finalText>>
reportVars   == <<sessionVars, fileVars, sessions>>
recordVars   == <<executions, row>>
vars         == <<reviewVars, reportVars, snapshot, recordVars>>

ReplyPhases == { "pending_target_selection", "pending_scope_confirmation",
                 "pending_review" }

\* request numbers the start whose text is original_user_text, run the execution the
\* final report payload is of; refs are the report paths, tracked artifact_paths.
SnapshotType == [ phase       : Phases,
                  request     : 0..MaxStarts,
                  recommended : BOOLEAN,
                  run         : 0..MaxStarts,
                  refs        : SUBSET Session!File,
                  tracked     : SUBSET Session!File,
                  finalized   : BOOLEAN,
                  cancelled   : BOOLEAN,
                  rerun       : BOOLEAN ]

NoSnapshot == [ phase |-> "none", request |-> 0, recommended |-> FALSE, run |-> 0,
                refs |-> {}, tracked |-> {},
                finalized |-> FALSE, cancelled |-> FALSE, rerun |-> FALSE ]

Execution == [ review : 1..MaxStarts, operations : SUBSET Operations ]

TypeOK ==
    /\ Review!TypeOK
    /\ Session!TypeOK
    /\ snapshot \in SnapshotType
    /\ executions \in Seq(Execution)
    /\ row \in 0..Len(executions)

Init ==
    /\ Review!Init
    /\ Session!Init
    /\ snapshot = NoSnapshot
    /\ executions = <<>> /\ row = 0

-----------------------------------------------------------------------------
(* Test design *)

\* continue_with_message goes by the intent that the router finds in the message.
Routed(intent) ==
    [ phase |-> snapshot.phase, recommended |-> snapshot.recommended,
      intent |-> intent ] \in Routes

\* Mutant: the snapshot is saved in the phase it had.
Failed_KeepsPhase(snap) == snap

\* _mark_error_snapshot
Failed(snap) == [snap EXCEPT !.phase = "error"]

\* Mutant: a status without a phase of its own is taken as the phase.
PhaseOf_Unmapped(status) == status

PhaseOf(status) == IF status \in ReplyPhases \cup {"approved", "cancelled"}
                   THEN status ELSE "error"

\* The draft report of the round the review graph is in: a round more than it got
\* feedback, for a draft that raises keeps the feedback and repeats the round.
RoundDraft == DraftAt[feedback' + 1]

\* _handle_review_result builds a new snapshot out of the prior one, which names one
\* draft.  The latest scope recommendation and the payload of an earlier run are not
\* carried over.
HandleReviewResult(prior, request, status, drafted) ==
    [ prior EXCEPT !.phase = PhaseOf(status),
                   !.request = request,
                   !.recommended = FALSE,
                   !.run = 0,
                   !.refs = IF drafted THEN (@ \ Drafts) \cup {RoundDraft} ELSE @,
                   !.finalized = FALSE,
                   !.cancelled = (status = "cancelled") ]

\* A result built from the review graph's checkpoint names the draft report.
Drafted == result' = "pending_review"

\* Drafting writes the draft report of the round beside those of the rounds before; a
\* round that raises may have written its own.
DraftWritten ==
    /\ CASE result' = "pending_review" -> disk' = disk \cup {RoundDraft}
         [] result' = "raised" /\ graph' = "broken" ->
                disk' \in {disk, disk \cup {RoundDraft}}
         [] OTHER -> disk' = disk
    /\ UNCHANGED <<sessionVars, finalText, sessions>>

\* start_from_text, also on a thread that has a workflow: the snapshot is replaced,
\* unless the start raises.
StartFromText ==
    /\ snapshot.phase # "approved"
    /\ Review!StartReviewFromText
    /\ DraftWritten
    /\ snapshot' = IF result' = "raised" THEN snapshot
                   ELSE HandleReviewResult(NoSnapshot, starts', result', Drafted)
    /\ UNCHANGED recordVars

\* continue_with_message after the review orchestrator has answered.
SaveReviewResult(drafted) ==
    snapshot' = IF result' = "raised" THEN Failed(snapshot)
                ELSE HandleReviewResult(snapshot, snapshot.request, result', drafted)

\* A selection the review orchestrator knows nothing of keeps the phase
\* (_build_invalid_target_selection_result).
ResumeTargetSelection ==
    /\ Routed("resume_target_selection")
    /\ Review!ResumeTargetSelection
    /\ DraftWritten
    /\ IF result' = "target_not_found" THEN UNCHANGED snapshot
       ELSE SaveReviewResult(Drafted)
    /\ UNCHANGED recordVars

\* The recommendation agent raises before anything is saved, or its answer is saved
\* in the snapshot and handed to the review orchestrator.
AskScopeRecommendation ==
    /\ Routed("ask_scope_recommendation")
    /\ \E recommended \in BOOLEAN :
           /\ snapshot' = [snapshot EXCEPT !.recommended = recommended]
           /\ Review!RememberScopeRecommendation(recommended)
    /\ UNCHANGED <<reportVars, recordVars>>

\* A reply, or the message composed from the latest recommendation.
ResumeScopeConfirmation ==
    /\ \/ Routed("resume_scope_confirmation")
       \/ Routed("apply_scope_recommendation")
    /\ Review!ResumeScopeConfirmation
    /\ DraftWritten
    /\ SaveReviewResult(Drafted)
    /\ UNCHANGED recordVars

ResumeReview ==
    /\ Routed("resume_review")
    /\ Review!ResumeReview
    /\ DraftWritten
    /\ SaveReviewResult(TRUE)
    /\ UNCHANGED recordVars

-----------------------------------------------------------------------------
(* The pipeline after an approval *)

\* Mutant: what is executed is what the graph was given, not what it drafted.
Executed_InitialScope == [review |-> reviewOf, operations |-> initialScope]

\* get_approved_execution_payload, and the drafts handed to the execution engine.
Executed == [review |-> reviewOf, operations |-> drafts]

\* _run_post_approval_pipeline: execution, validation and reporting, any of which may
\* raise with some of the reports written, then the report session.
RunPostApprovalPipeline ==
    /\ snapshot.phase = "approved"
    /\ \/ /\ Session!StartReportInteractionSession(DraftAt[feedback + 1])
          /\ executions' = Append(executions, Executed)
          /\ snapshot' = [snapshot EXCEPT
                            !.phase = "report_interaction",
                            !.run = Len(executions'),
                            !.refs = @ \cup {"execution", "validation", "staged"},
                            !.tracked = @ \cup artifacts']
       \/ /\ Session!BootstrapRaises(DraftAt[feedback + 1])
          /\ executions' = Append(executions, Executed)
          /\ snapshot' = Failed(snapshot)
       \/ /\ Session!ReportsWritten(Session!Reports)
          /\ executions' \in {executions, Append(executions, Executed)}
          /\ snapshot' = Failed(snapshot)
    /\ UNCHANGED <<reviewVars, row>>

-----------------------------------------------------------------------------
(* Report interaction *)

\* The snapshot with what the report graph returned.
Updated == [snapshot EXCEPT !.tracked = @ \cup artifacts']

Finalized(phase) ==
    [Updated EXCEPT !.phase = phase, !.refs = @ \cup {"final"},
                    !.finalized = TRUE, !.cancelled = FALSE, !.rerun = FALSE]

\* Mutant: the snapshot is saved as finalized before the row is written.
SaveFinalized_RowLast ==
    /\ finalized'
    /\ row' \in {row, snapshot.run}
    /\ snapshot' = Finalized("finalized")

\* Mutant: the row is written, then the call fails.
SaveFinalized_FailsAfterRow ==
    /\ finalized'
    /\ row' = snapshot.run
    /\ snapshot' \in {Finalized("finalized"), Finalized("error")}

\* persist_finalized_run writes the row of the thread, or raises and the finalized
\* snapshot is saved in phase "error".
SaveFinalized ==
    /\ finalized'
    /\ \/ row' = snapshot.run /\ snapshot' = Finalized("finalized")
       \/ row' = row          /\ snapshot' = Finalized("error")

SaveCancelled ==
    /\ cancelled' /\ ~finalized'
    /\ snapshot' = [Updated EXCEPT !.phase = "cancelled",
                                   !.refs = @ \ {"staged", "final"},
                                   !.tracked = {},
                                   !.cancelled = TRUE,
                                   !.finalized = FALSE,
                                   !.rerun = FALSE]
    /\ UNCHANGED row

SaveRerunRequested ==
    /\ rerunRequested' /\ ~finalized' /\ ~cancelled'
    /\ snapshot' = [Updated EXCEPT !.phase = "rerun_requested", !.rerun = TRUE]
    /\ UNCHANGED row

SaveInteraction ==
    /\ ~finalized' /\ ~cancelled' /\ ~rerunRequested'
    /\ snapshot' = [Updated EXCEPT !.phase = "report_interaction"]
    /\ UNCHANGED row

\* A report graph that has ended takes no message and returns its last values.
ContinueReportInteraction(m) ==
    /\ Routed("continue_report_interaction")
    /\ \/ Session!Turn(m)
       \/ node = "ended" /\ UNCHANGED reportVars
    /\ \/ node' = "broken" /\ snapshot' = Failed(snapshot) /\ UNCHANGED row
       \/ /\ node' # "broken"
          /\ SaveFinalized \/ SaveCancelled \/ SaveRerunRequested \/ SaveInteraction
    /\ UNCHANGED <<reviewVars, executions>>

-----------------------------------------------------------------------------
(* The process *)

CheckpointsKept ==
    UNCHANGED <<graph, target, contexts, initialScope, drafts, feedback, reviewOf, chosen,
                sessionVars>>

CheckpointsLost ==
    /\ graph' = "absent" /\ target' = NoTarget
    /\ contexts' = {} /\ initialScope' = {} /\ drafts' = {} /\ feedback' = 0
    /\ reviewOf' = 0 /\ chosen' = {}
    /\ node' = "absent" /\ lastIntent' = "none" /\ response' = "none"
    /\ latestMessage' = Session!NoMessage
    /\ finalized' = FALSE /\ cancelled' = FALSE /\ rerunRequested' = FALSE
    /\ finalPath' = FALSE /\ markdown' = 0 /\ artifacts' = {}

\* The process stops between two calls, or while the pipeline writes its reports.
\* Snapshots and pending replies are lost, checkpoints only with the "memory"
\* checkpointer and not with "sqlite".  Files and the row survive.
ProcessRestart ==
    /\ snapshot.phase # "none"
    /\ snapshot' = NoSnapshot
    /\ pendingTargets' = {} /\ pendingScopes' = {}
    /\ CheckpointsKept \/ CheckpointsLost
    /\ result' = "none" /\ preview' = {}
    /\ \E written \in SUBSET Session!Reports :
           /\ written # {} => snapshot.phase = "approved"
           /\ disk' = disk \cup written
    /\ UNCHANGED <<starts, sessions, finalText, recordVars>>

Next ==
    \/ StartFromText
    \/ ResumeTargetSelection
    \/ AskScopeRecommendation
    \/ ResumeScopeConfirmation
    \/ ResumeReview
    \/ RunPostApprovalPipeline
    \/ \E m \in Messages : ContinueReportInteraction(m)
    \/ ProcessRestart

Spec == Init /\ [][Next]_vars
-----------------------------------------------------------------------------
(* Properties *)

\* What an intent is carried out on.
Needs(intent) ==
    CASE intent = "resume_target_selection" -> pendingTargets # {}
      [] intent \in {"ask_scope_recommendation", "resume_scope_confirmation"} ->
             pendingScopes # {}
      [] intent = "apply_scope_recommendation" ->
             pendingScopes # {} /\ \A entry \in pendingScopes : entry.recommended
      [] intent = "resume_review" -> graph \in {"waiting", "broken"}
      [] intent = "continue_report_interaction" ->
             node = "waiting" \/ (node = "ended" /\ rerunRequested)
      [] OTHER -> TRUE

\* Whatever a message is taken for can be carried out: the entry, the recommendation or
\* the graph that the router's intent goes to stands where it is needed.  The snapshot
\* the router reads is saved after the graphs have moved, and replaced or kept when a
\* start fails; the language model's intent need not be one of the phase.
PhaseCanBeAnswered ==
    /\ \A route \in Routes :
          /\ route.phase = snapshot.phase
          /\ route.recommended = snapshot.recommended
          => Needs(route.intent)
    /\ snapshot.phase = "approved"           => graph = "approved"
    /\ snapshot.phase = "report_interaction" => node = "waiting"
    /\ snapshot.phase = "rerun_requested"    => node = "ended" /\ rerunRequested

\* The execution engine gets the draft the user saw last and approved, and no review
\* is executed twice.
ExecutionsAreApproved ==
    [][executions' # executions =>
           /\ graph = "approved" /\ preview # {}
           /\ executions' = Append(executions, [review |-> reviewOf, operations |-> preview])
           /\ \A i \in DOMAIN executions : executions[i].review # reviewOf]_vars

\* A workflow is in phase "finalized" only if its run, the last one executed, is the
\* one the database row records, with the text the user saw in the final report.
FinalizedIsRecorded ==
    snapshot.phase = "finalized" =>
        /\ row = snapshot.run /\ row = Len(executions) /\ row > 0
        /\ finalized /\ "final" \in snapshot.refs \cap disk
        /\ graph = "approved" => executions[row].review = reviewOf

\* The files that are listed exist: those of a row whatever the thread did later, and
\* those of the snapshot while its report is under discussion or finalized.
ListedReportsExist ==
    /\ row > 0 => "final" \in disk
    /\ snapshot.phase \in ReportPhases \cup {"finalized"} =>
          /\ Session!Reports \subseteq snapshot.refs /\ snapshot.refs \cap Drafts # {}
          /\ snapshot.refs \cup snapshot.tracked \subseteq disk

Lifecycle == INSTANCE WorkflowLifecycle WITH
                 phase <- snapshot.phase, runs <- Len(executions), recorded <- row

\* Through failures and restarts, phases, runs and the recorded run change together only as
\* the lifecycle lets them: a run comes only after an approval, a row only with the report
\* of the last run, and no call leads to a phase that is neither in the documented diagram
\* nor among the arrows the lifecycle lists beside it.
ImplementsLifecycle == Lifecycle!Spec
=============================================================================
