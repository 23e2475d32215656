------------------------------ MODULE ReportSession ------------------------------
(***************************************************************************)
(* The final-report interaction session of one workflow thread: the        *)
(* LangGraph graph of core/report_interaction_graph.py driven by           *)
(* WorkflowRuntimeBridge, with the InteractiveReportService that owns the  *)
(* report files.                                                           *)
(*                                                                         *)
(* One user message is one graph invocation: wait_for_user_message,        *)
(* detect_intent, the node detect_intent routes to, and the checkpoint the *)
(* graph stops at (the interrupt, or END).  Every node ends by writing the *)
(* session snapshot files, so that write belongs to each action.           *)
(***************************************************************************)
EXTENDS Integers, FiniteSets, ReportIntent

CONSTANTS
    Messages,      \* the user messages considered, see ReportIntent
    Drafts,        \* draft reports, a file for each feedback round of a review
    Undeletable,   \* files the platform may refuse to delete
    MaxRevisions,  \* bound: rewrites of the report text in one session
    MaxSessions    \* bound: sessions opened on the thread, restarts included

NoMessage == [ exact |-> "neither", saysYes |-> FALSE, saysNo |-> FALSE,
               change |-> FALSE, intent |-> "unknown", confidence |-> 0 ]

\* Each file stands for the .json and .md pair the code writes together, at a path
\* fixed by target and thread.  The pipeline writes the reports; every feedback round
\* of a review writes a draft of its own, and only the approved one becomes known to
\* the session.
Reports == {"execution", "validation", "staged"}
File    == Reports \cup Drafts \cup {"session", "final"}

ASSUME MessagesAssumption ==
    \A m \in Messages : \E text \in TextType :
        /\ text.exact = m.exact /\ text.saysYes = m.saysYes /\ text.saysNo = m.saysNo
        /\ \E answer \in DecisionType : m = Message(text, answer)
ASSUME DraftsAssumption      == Drafts \cap (Reports \cup {"session", "final"}) = {}
ASSUME UndeletableAssumption == Undeletable \subseteq File
ASSUME BoundsAssumption      == MaxRevisions \in Nat /\ MaxSessions \in Nat

Kinds    == {"cancel", "finalize"}
\* Mutant: the marker of one question is written with another name.
Awaiting_Renamed == [cancel   |-> "awaiting_confirm_cancel",
                     finalize |-> "awaiting_confirmation"]

Awaiting == [cancel   |-> "awaiting_confirm_cancel",
             finalize |-> "awaiting_confirm_finalize"]
Commit   == [cancel |-> "cancel_report", finalize |-> "finalize_report"]
Question == [cancel |-> "asks_cancel",   finalize |-> "asks_finalize"]

\* A destructive intent below this confidence is asked about first.
Threshold == [cancel |-> 92, finalize |-> 88]

VARIABLES
    node,           \* where the graph's checkpoint stands
    lastIntent,     \* last_intent; also encodes the pending confirmation
    response,       \* what the assistant's last message was
    latestMessage,  \* latest_user_message
    finalized, cancelled, rerunRequested,
    finalPath,      \* final_report_*_path is set
    markdown,       \* final_report_markdown, as the number of rewrites
    artifacts,      \* artifact_paths
    disk,           \* files that exist
    finalText,      \* the text in final_summary.md, as a number of rewrites
    sessions        \* sessions opened so far

sessionVars == <<node, lastIntent, response, latestMessage, finalized, cancelled,
                 rerunRequested, finalPath, markdown, artifacts>>
fileVars    == <<disk, finalText>>
vars        == <<sessionVars, fileVars, sessions>>

Responses == { "none", "report", "answer", "revised", "summary", "declined", "rerun",
               "finalized", "cancelled", "asks_cancel", "asks_finalize" }

TypeOK ==
    /\ node \in {"absent", "waiting", "ended", "broken"}
    /\ lastIntent \in Intents \cup { "none", "confirmation_declined",
                                     "awaiting_confirm_cancel",
                                     "awaiting_confirm_finalize" }
    /\ response \in Responses
    /\ latestMessage \in MessageType
    /\ finalized \in BOOLEAN /\ cancelled \in BOOLEAN /\ rerunRequested \in BOOLEAN
    /\ finalPath \in BOOLEAN
    /\ markdown \in 0..MaxRevisions
    /\ artifacts \subseteq File
    /\ disk \subseteq File
    /\ finalText \in 0..MaxRevisions
    /\ sessions \in 0..MaxSessions

Init ==
    /\ node = "absent" /\ lastIntent = "none" /\ response = "none"
    /\ latestMessage = NoMessage
    /\ finalized = FALSE /\ cancelled = FALSE /\ rerunRequested = FALSE
    /\ finalPath = FALSE /\ markdown = 0 /\ artifacts = {}
    /\ disk = {} /\ finalText = 0 /\ sessions = 0

-----------------------------------------------------------------------------
(* The intent of a message *)

\* A whole reply decides; otherwise any token that says yes, before any that says no.
ClassifyConfirmationReply(m) ==
    CASE m.exact # "neither"                             -> m.exact
      [] m.exact = "neither" /\ m.saysYes                -> "yes"
      [] m.exact = "neither" /\ ~m.saysYes /\ m.saysNo   -> "no"
      [] m.exact = "neither" /\ ~m.saysYes /\ ~m.saysNo  -> "unknown"

\* The confirmation in progress is remembered in last_intent only.
Pending(k) == lastIntent = Awaiting[k]
NothingPending == \A k \in Kinds : ~Pending(k)

ShouldConfirm(k, m) == m.intent = Commit[k] /\ m.confidence < Threshold[k]

\* detect_intent followed by route_after_intent: what the message leads to.
Commits(k, m) ==
    \/ Pending(k) /\ ClassifyConfirmationReply(m) = "yes"
    \/ NothingPending /\ m.intent = Commit[k] /\ ~ShouldConfirm(k, m)

Asks(k, m) ==
    \/ Pending(k) /\ ClassifyConfirmationReply(m) = "unknown"
    \/ NothingPending /\ ShouldConfirm(k, m)

Declines(m) == ~NothingPending /\ ClassifyConfirmationReply(m) = "no"

Requests(intent, m) == NothingPending /\ m.intent = intent

-----------------------------------------------------------------------------
(* The nodes *)

\* Resuming the interrupt: only a graph that waits takes a message.
Receive(m) ==
    /\ node = "waiting"
    /\ latestMessage' = m
    /\ UNCHANGED sessions

\* persist_session_snapshot: (re)write the session files and track them.
PersistSnapshot(tracked, files) ==
    /\ artifacts' = tracked \cup {"session"}
    /\ disk' = files \cup {"session"}

\* A node that only talks returns to the interrupt.
Reply(kind) ==
    /\ response' = kind
    /\ node' = "waiting"
    /\ PersistSnapshot(artifacts, disk)
    /\ UNCHANGED <<finalized, cancelled, rerunRequested, finalPath, finalText>>

\* A review writes the draft of its round, a pipeline that then fails writes some of
\* its reports: both happen between sessions, or beside one that is still open.
ReportsWritten(files) ==
    /\ \E written \in SUBSET files : disk' = disk \cup written
    /\ UNCHANGED <<sessionVars, finalText, sessions>>

\* Mutant: the flag of a cancelled session survives into the next one.
ResetSession_KeepsCancelled ==
    /\ lastIntent' = "none" /\ latestMessage' = NoMessage
    /\ finalized' = FALSE /\ rerunRequested' = FALSE
    /\ finalPath' = FALSE /\ markdown' = 0
    /\ UNCHANGED cancelled

\* initial_state of start_report_interaction_session: a new session starts clean.
ResetSession ==
    /\ lastIntent' = "none" /\ latestMessage' = NoMessage
    /\ finalized' = FALSE /\ cancelled' = FALSE /\ rerunRequested' = FALSE
    /\ finalPath' = FALSE /\ markdown' = 0

\* The post-approval pipeline has just written the reports of the approved draft; the
\* graph is invoked from its entry point, whatever an earlier session on the same
\* thread left.
StartReportInteractionSession(draft) ==
    /\ sessions < MaxSessions
    /\ sessions' = sessions + 1
    /\ ResetSession
    /\ node' = "waiting" /\ response' = "report"
    /\ PersistSnapshot(Reports \cup {draft}, disk \cup Reports \cup {draft})
    /\ UNCHANGED finalText

\* bootstrap_session raises: the input was checkpointed, the node was not.
BootstrapRaises(draft) ==
    /\ sessions < MaxSessions
    /\ sessions' = sessions + 1
    /\ ResetSession
    /\ node' = "broken" /\ artifacts' = {}
    /\ disk' \in {disk \cup Reports \cup {draft}, disk \cup Reports \cup {draft, "session"}}
    /\ UNCHANGED <<response, finalText>>

ConfirmDestructiveAction(m) ==
    /\ Receive(m)
    /\ \E k \in Kinds : /\ Asks(k, m)
                        /\ lastIntent' = Awaiting[k]
                        /\ Reply(Question[k])
    /\ UNCHANGED markdown

\* Mutant: the declined question stays pending.
ConfirmationDeclined_StaysPending(m) ==
    /\ Receive(m)
    /\ Declines(m)
    /\ UNCHANGED lastIntent
    /\ Reply("declined")
    /\ UNCHANGED markdown

ConfirmationDeclined(m) ==
    /\ Receive(m)
    /\ Declines(m)
    /\ lastIntent' = "unknown"
    /\ Reply("declined")
    /\ UNCHANGED markdown

AnswerQuestion(m) ==
    /\ Receive(m)
    /\ \E i \in {"ask_report_question", "unknown"} : Requests(i, m) /\ lastIntent' = i
    /\ Reply("answer")
    /\ UNCHANGED markdown

ReviseReportText(m) ==
    /\ Receive(m)
    /\ Requests("revise_report_text", m)
    /\ markdown < MaxRevisions
    /\ lastIntent' = "revise_report_text"
    /\ markdown' = markdown + 1
    /\ Reply("revised")

ShareReport(m) ==
    /\ Receive(m)
    /\ Requests("share_report", m)
    /\ lastIntent' = "share_report"
    /\ Reply("summary")
    /\ UNCHANGED markdown

\* Mutant: the staged report is cleaned up when a rerun is asked for.
PrepareRerun_CleansStaging(m) ==
    /\ Receive(m)
    /\ Requests("revise_and_rerun", m)
    /\ lastIntent' = "revise_and_rerun"
    /\ rerunRequested' = TRUE
    /\ response' = "rerun" /\ node' = "ended"
    /\ PersistSnapshot(artifacts \ {"staged"}, disk \ {"staged"})
    /\ UNCHANGED <<finalized, cancelled, finalPath, markdown, finalText>>

PrepareRerun(m) ==
    /\ Receive(m)
    /\ Requests("revise_and_rerun", m)
    /\ lastIntent' = "revise_and_rerun"
    /\ rerunRequested' = TRUE
    /\ response' = "rerun" /\ node' = "ended"
    /\ PersistSnapshot(artifacts, disk)
    /\ UNCHANGED <<finalized, cancelled, finalPath, markdown, finalText>>

\* Mutant: the staged text is copied, the rewrites are forgotten.
FinalizeSession_StagedText(m) ==
    /\ Receive(m)
    /\ Commits("finalize", m)
    /\ lastIntent' = "finalize_report"
    /\ finalized' = TRUE /\ finalPath' = TRUE
    /\ finalText' = 0
    /\ response' = "finalized" /\ node' = "ended"
    /\ PersistSnapshot(artifacts \cup {"final"}, disk \cup {"final"})
    /\ UNCHANGED <<cancelled, rerunRequested, markdown>>

\* Copies the staged files, then overwrites the .md with the text last shown.
FinalizeSession(m) ==
    /\ Receive(m)
    /\ Commits("finalize", m)
    /\ lastIntent' = "finalize_report"
    /\ finalized' = TRUE /\ finalPath' = TRUE
    /\ finalText' = markdown
    /\ response' = "finalized" /\ node' = "ended"
    /\ PersistSnapshot(artifacts \cup {"final"}, disk \cup {"final"})
    /\ UNCHANGED <<cancelled, rerunRequested, markdown>>

\* Mutant: the deleted files stay tracked.
CancelSession_KeepsTracking(m) ==
    /\ Receive(m)
    /\ Commits("cancel", m)
    /\ lastIntent' = "cancel_report"
    /\ cancelled' = TRUE
    /\ response' = "cancelled" /\ node' = "ended"
    /\ \E kept \in SUBSET (artifacts \cap Undeletable) :
           PersistSnapshot(artifacts, disk \ (artifacts \ kept))
    /\ UNCHANGED <<finalized, rerunRequested, finalPath, markdown, finalText>>

\* Mutant: the reports of the pipeline are left where they are.
CancelSession_StagedOnly(m) ==
    /\ Receive(m)
    /\ Commits("cancel", m)
    /\ lastIntent' = "cancel_report"
    /\ cancelled' = TRUE
    /\ response' = "cancelled" /\ node' = "ended"
    /\ PersistSnapshot({}, disk \ {"staged", "session"})
    /\ UNCHANGED <<finalized, rerunRequested, finalPath, markdown, finalText>>

\* Deletes every tracked file and the session directory; a deletion that fails is
\* swallowed.  The snapshot written last brings the session files back.
CancelSession(m) ==
    /\ Receive(m)
    /\ Commits("cancel", m)
    /\ lastIntent' = "cancel_report"
    /\ cancelled' = TRUE
    /\ response' = "cancelled" /\ node' = "ended"
    /\ \E kept \in SUBSET (artifacts \cap Undeletable) :
           PersistSnapshot({}, disk \ (artifacts \ kept))
    /\ UNCHANGED <<finalized, rerunRequested, finalPath, markdown, finalText>>

\* A node raises (a report file cannot be written).  detect_intent was
\* checkpointed, the node was not: the flags and artifact_paths keep their old
\* values while the node's file operations may have happened in part (the staged
\* text, revision 0, is copied before the current text overwrites it).
NodeRaises(m) ==
    /\ Receive(m)
    /\ node' = "broken"
    /\ response' = "none"
    /\ \/ \E k \in Kinds : Asks(k, m) /\ lastIntent' = Awaiting[k]
                           /\ UNCHANGED fileVars
       \/ Declines(m) /\ lastIntent' = "confirmation_declined" /\ UNCHANGED fileVars
       \/ \E i \in Intents \ {"cancel_report", "finalize_report"} :
              Requests(i, m) /\ lastIntent' = i /\ UNCHANGED fileVars
       \/ /\ Commits("finalize", m) /\ lastIntent' = "finalize_report"
          /\ disk' \in {disk, disk \cup {"final"}}
          /\ finalText' \in {finalText, 0, markdown}
       \/ /\ Commits("cancel", m) /\ lastIntent' = "cancel_report"
          /\ \E kept \in SUBSET (artifacts \cap Undeletable) :
                 disk' \in { disk \ (artifacts \ kept),
                             (disk \ (artifacts \ kept)) \cup {"session"} }
          /\ UNCHANGED finalText
    /\ UNCHANGED <<finalized, cancelled, rerunRequested, finalPath, markdown,
                   artifacts>>

Turn(m) ==
    \/ ConfirmDestructiveAction(m) \/ ConfirmationDeclined(m)
    \/ AnswerQuestion(m) \/ ReviseReportText(m) \/ ShareReport(m)
    \/ PrepareRerun(m) \/ FinalizeSession(m) \/ CancelSession(m)
    \/ NodeRaises(m)

Next ==
    \/ ReportsWritten(Reports \cup Drafts)
    \/ \E draft \in Drafts :
           StartReportInteractionSession(draft) \/ BootstrapRaises(draft)
    \/ \E m \in Messages : Turn(m)

Spec == Init /\ [][Next]_vars

-----------------------------------------------------------------------------
(* Properties *)

\* The question the graph thinks it asked is the question the user last saw, and
\* it asks nothing when the user saw none: last_intent is the only record of an
\* open confirmation and every node overwrites it.
PendingMatchesQuestion ==
    node = "waiting" => \A k \in Kinds : Pending(k) <=> response = Question[k]

Outcome(k) == IF k = "cancel" THEN cancelled ELSE finalized

\* Shown this, the user who sends m asks for k: a "yes" to that very question,
\* or, with no question open, a request the intent agent is sure of, in a text that
\* asks for no rewrite or rerun.
Consented(k, shown, m) ==
    \/ shown = Question[k] /\ ClassifyConfirmationReply(m) = "yes"
    \/ /\ \A j \in Kinds : shown # Question[j]
       /\ m.intent = Commit[k] /\ m.confidence >= Threshold[k] /\ ~m.change

\* A session is cancelled or finalized only by a message that consents to that
\* outcome, judged by what the user was shown and not by the graph's own record.
DestructiveActionsAreConsented ==
    [][\A k \in Kinds : Outcome(k)' /\ ~Outcome(k)
                           => Consented(k, response, latestMessage')]_vars

\* artifact_paths and the disk agree after every completed turn, restarts on the
\* same thread and failed pipelines included: nothing tracked is missing, and until
\* a cancellation what is not tracked is an earlier final report or a draft of another
\* round, which the session never hears of.
TrackedFilesMatchDisk ==
    node \in {"waiting", "ended"} =>
        /\ artifacts \subseteq disk
        /\ ~cancelled => /\ disk \subseteq artifacts \cup Drafts \cup {"final"}
                        /\ artifacts \cap Drafts # {}

\* A cancellation deletes the approved draft and every report of a pipeline, also of
\* one that failed beside the session; what stays is what the platform refuses to
\* delete, the final report of an earlier session and, in the code as it is, the
\* drafts of the other feedback rounds.
CancelDeletesReports ==
    [][cancelled' /\ ~cancelled
           => /\ disk' \subseteq Undeletable \cup {"session", "final"} \cup (Drafts \ artifacts)
              /\ artifacts \cap Drafts # {}]_vars

\* A session ends with exactly one outcome, and no outcome of an earlier session
\* on the thread shows in a later one.
EndedWithOneOutcome ==
    LET outcomes == {finalized, cancelled, rerunRequested} IN
    /\ node # "ended" => TRUE \notin outcomes
    /\ node = "ended" => /\ TRUE \in outcomes
                         /\ ~(finalized /\ cancelled)
                         /\ ~(finalized /\ rerunRequested)
                         /\ ~(cancelled /\ rerunRequested)

\* The official report carries the text the user last saw, all rewrites included.
FinalReportIsTheTextShown ==
    finalized => "final" \in disk \cap artifacts /\ finalPath /\ finalText = markdown

\* No later session, cancelled or failed, deletes the final report of an earlier one.
FinalReportsSurvive == []["final" \in disk => "final" \in disk']_vars

\* The prompt asks for a yes or a no: a reply that says no is not carried out.
RefusalIsHonoured ==
    [][\A k \in Kinds : Pending(k) /\ latestMessage'.saysNo /\ ~Outcome(k)
                           => ~Outcome(k)']_vars
=============================================================================
