------------------------------ MODULE HeadlessService ------------------------------
(***************************************************************************)
(* HeadlessWorkflowService over one workflow thread, called by clients     *)
(* that do not wait for each other (REST, one worker thread per request).  *)
(*                                                                         *)
(* A call first reads the snapshot and checks the operation against its    *)
(* phase, then sends a text message to the orchestrator, and cancel and    *)
(* finalize may send a second one when the answer looks like a question.   *)
(* Each of these is a step of its own here, and steps of other clients     *)
(* come in between; a message is answered in one step of FullWorkflow.     *)
(* Calls that are rejected or only read change nothing and are left out.   *)
(***************************************************************************)
EXTENDS FullWorkflow

CONSTANT Clients

VARIABLE calls    \* the last call of each client

serviceVars == <<vars, calls>>

\* The texts cancel_workflow and finalize_workflow send unless the client gives its
\* own: "hủy", "lưu" and "đồng ý".  As a reply to a question the first two say
\* neither yes nor no.
CancelMessage  == [ exact |-> "neither", saysYes |-> FALSE, saysNo |-> FALSE,
                    change |-> FALSE, intent |-> "cancel_report", confidence |-> 99 ]
FinalizeMessage == [ exact |-> "neither", saysYes |-> FALSE, saysNo |-> FALSE,
                     change |-> FALSE, intent |-> "finalize_report", confidence |-> 98 ]
ConfirmationMessage == [ exact |-> "yes", saysYes |-> TRUE, saysNo |-> FALSE,
                         change |-> FALSE, intent |-> "finalize_report",
                         confidence |-> 98 ]

\* continue_workflow passes the client's text on, rerun_workflow makes it a request
\* to run again.
MessageOf ==
    [ continue |-> Messages,
      cancel   |-> {CancelMessage},
      finalize |-> {FinalizeMessage},
      rerun    |-> { m \in Messages : m.intent = "revise_and_rerun" } ]

ServiceOperations == DOMAIN MessageOf

ASSUME TextsOfTheServiceAssumption ==
    {CancelMessage, FinalizeMessage, ConfirmationMessage} \subseteq Messages

\* step says where the call is; told is the outcome its response reports, of the
\* review number about.
Call == [ operation : ServiceOperations \cup {"none"},
          step      : {"idle", "checked", "confirming", "executing"},
          told      : {"none", "finalized", "cancelled"},
          about     : 0..MaxStarts ]

NoCall == [ operation |-> "none", step |-> "idle", told |-> "none", about |-> 0 ]

CallsOK == calls \in [Clients -> Call]

ServiceInit == Init /\ calls = [c \in Clients |-> NoCall]

-----------------------------------------------------------------------------
(* Checking a call *)

Terminal == {"finalized", "cancelled", "rerun_requested", "error"}

\* The phases whose snapshot lets an operation through.
Admits(operation) ==
    CASE operation = "continue"             -> Phases \ (Terminal \cup {"none"})
      [] operation = "cancel"               -> Phases \ {"none", "finalized", "cancelled"}
      [] operation \in {"finalize", "rerun"} -> {"report_interaction"}

CheckCall(c) ==
    /\ calls[c].step = "idle"
    /\ \E operation \in ServiceOperations :
           /\ snapshot.phase \in Admits(operation)
           /\ calls' = [calls EXCEPT ![c] = [NoCall EXCEPT !.operation = operation,
                                                           !.step = "checked"]]
    /\ UNCHANGED vars

\* start_workflow on this thread: one message, nothing to check.
StartWorkflow(c) ==
    /\ calls[c].step = "idle"
    /\ StartFromText
    /\ calls' = [calls EXCEPT ![c] = NoCall]
-----------------------------------------------------------------------------
(* Sending a message *)

\* continue_with_message, by the phase of the snapshot it finds, which need not be
\* the one that was checked.  A text that is not the client's own selects no target.
Delivered(operation, m) ==
    \/ /\ ResumeTargetSelection
       /\ CASE operation = "continue" -> TRUE
            [] operation = "cancel"   -> result' \in {"cancelled", "target_not_found"}
            [] OTHER -> result' \in {"pending_target_selection", "target_not_found"}
    \/ AskScopeRecommendation
    \/ ResumeScopeConfirmation
    \/ ResumeReview
    \/ ContinueReportInteraction(m)

Told(phase) == [ NoCall EXCEPT !.told = phase, !.about = starts' ]

\* Mutant: the response reports what was asked for.
Returned_AsAsked(call) ==
    CASE call.operation = "cancel"   -> Told("cancelled")
      [] call.operation = "finalize" -> Told("finalized")
      [] OTHER                       -> NoCall

\* Mutant: the response repeats the phase, whatever it is.
Returned_AnyPhase(call) == Told(snapshot'.phase)

\* The response gives the phase of the snapshot the call left.
Returned(call) ==
    IF snapshot'.phase \in {"finalized", "cancelled"}
    THEN Told(snapshot'.phase) ELSE NoCall

\* Mutant: the call returns without executing what it has approved.
Answered_NotExecuted(call, prompted) ==
    IF call.step = "checked" /\ call.operation \in {"cancel", "finalize"} /\ prompted
    THEN { Returned(call), [call EXCEPT !.step = "confirming"] }
    ELSE { Returned(call) }

\* An approval is executed in the call that gave it.  With auto_confirm, an answer
\* that looks like a question is answered.
Answered(call, prompted) ==
    IF snapshot.phase = "pending_review" /\ snapshot'.phase = "approved"
    THEN { [call EXCEPT !.step = "executing"] }
    ELSE IF /\ call.step = "checked"
            /\ call.operation \in {"cancel", "finalize"}
            /\ prompted
    THEN { Returned(call), [call EXCEPT !.step = "confirming"] }
    ELSE { Returned(call) }

\* _looks_like_confirmation_prompt on what the report graph answered.
Prompted == /\ snapshot'.phase = "report_interaction"
            /\ response' \in {"asks_cancel", "asks_finalize"}

\* One continue_with_message of the call.  A text that is not routed gets help, the
\* status or a question back, or starts a workflow on a thread of its own; a question
\* the language model words may look like a confirmation prompt.
Exchange(c, messages) ==
    \E prompted \in BOOLEAN :
        /\ \/ /\ \E m \in messages : Delivered(calls[c].operation, m)
              /\ prompted = Prompted
           \/ /\ UNCHANGED vars
              /\ prompted => snapshot.phase = "report_interaction"
        /\ \E call \in Answered(calls[c], prompted) : calls' = [calls EXCEPT ![c] = call]

SendMessage(c) ==
    /\ calls[c].step = "checked"
    /\ Exchange(c, MessageOf[calls[c].operation])

\* Mutant: the confirmation is sent only to a report that still is under discussion.
AutoConfirm_Rechecks(c) ==
    /\ calls[c].step = "confirming"
    /\ snapshot.phase = "report_interaction"
    /\ Exchange(c, {ConfirmationMessage})

AutoConfirm(c) ==
    /\ calls[c].step = "confirming"
    /\ Exchange(c, {ConfirmationMessage})

ExecuteApproved(c) ==
    /\ calls[c].step = "executing"
    /\ RunPostApprovalPipeline
    /\ calls' = [calls EXCEPT ![c] = Returned(@)]

ServiceRestart ==
    /\ ProcessRestart
    /\ calls' = [c \in Clients |-> NoCall]

Step(c) == SendMessage(c) \/ AutoConfirm(c) \/ ExecuteApproved(c)

ServiceNext ==
    \/ \E c \in Clients : StartWorkflow(c) \/ CheckCall(c) \/ Step(c)
    \/ ServiceRestart

\* Every request has a thread of the server's pool, which goes on while the process
\* runs: the language model, HTTP and file calls in a step return or raise.
Fairness == \A c \in Clients : WF_serviceVars(Step(c))

ServiceSpec == ServiceInit /\ [][ServiceNext]_serviceVars /\ Fairness
-----------------------------------------------------------------------------
(* Properties *)

\* A workflow whose phase is "approved" takes no message, so some call must still be
\* executing it; and only one is, or the draft would run twice.
ApprovedIsBeingExecuted ==
    /\ snapshot.phase = "approved" <=> \E c \in Clients : calls[c].step = "executing"
    /\ \A c, d \in Clients :
          calls[c].step = "executing" /\ calls[d].step = "executing" => c = d

\* What the contract calls a terminal phase is left only by a new start (or with the
\* process), also by calls that were let through before the workflow got there.
TerminalPhaseIsKept ==
    [][snapshot.phase \in Terminal
           => snapshot'.phase \in {snapshot.phase, "none"} \/ starts' # starts]_serviceVars

\* No two clients are told different outcomes of one review, nor one that the report
\* did not have.
OneOutcomeIsTold ==
    \A c \in Clients : calls[c].told # "none" /\ calls[c].about = starts
        => \/ snapshot.phase = calls[c].told
           \/ snapshot.phase = "none"

\* A call for one outcome never brings about the other by answering the question that
\* is open.
OnlyTheAskedOutcome ==
    [][\A c \in Clients : calls'[c] # calls[c] =>
           /\ calls[c].operation = "cancel" /\ lastIntent = "awaiting_confirm_finalize"
                  => ~finalized'
           /\ calls[c].operation = "finalize" /\ lastIntent = "awaiting_confirm_cancel"
                  => ~cancelled']_serviceVars

\* A call returns whatever the other clients do between its steps.
CallsReturn ==
    \A c \in Clients : calls[c].step # "idle" ~> calls[c].step = "idle"
=============================================================================
