--------------------------- MODULE ReportSessionProofs ---------------------------
(***************************************************************************)
(* What ReportSession promises for every set of messages and every bound.  *)
(***************************************************************************)
EXTENDS ReportSession, TLAPS

USE DEF File, Reports, Kinds, sessionVars, fileVars

\* No message is outside the message type, and starting without one is typed too.
LEMMA NoMessageTyped == NoMessage \in MessageType
  BY SMT DEF NoMessage, MessageType, Intents

\* The safety layer keeps a decision a decision.
LEMMA SafetyTyped ==
  ASSUME NEW t \in TextType, NEW d \in DecisionType
  PROVE  SafetyDisambiguation(t, d) \in DecisionType
  BY DEF SafetyDisambiguation, AtLeast, Decision, DecisionType, Intents

LEMMA HeuristicTyped ==
  ASSUME NEW t \in TextType
  PROVE  Heuristic(t) \in DecisionType
  BY DEF Heuristic, Decision, DecisionType, Intents

LEMMA DetectTyped ==
  ASSUME NEW t \in TextType, NEW answer \in DecisionType
  PROVE  Detect(t, answer) \in DecisionType
  <1>1. Decision("cancel_report", 99) \in DecisionType
        /\ Decision("finalize_report", 98) \in DecisionType
    BY DEF Decision, DecisionType, Intents
  <1>2. (IF Accepted(answer) THEN answer ELSE Heuristic(t)) \in DecisionType
    BY HeuristicTyped
  <1> QED
    BY <1>1, <1>2, SafetyTyped DEF Detect

LEMMA MessageTyped ==
  ASSUME NEW t \in TextType, NEW answer \in DecisionType
  PROVE  Message(t, answer) \in MessageType
  <1>1. t.exact \in {"yes", "no", "neither"} /\ t.saysYes \in BOOLEAN /\ t.saysNo \in BOOLEAN
    BY DEF TextType
  <1>2. Detect(t, answer).intent \in Intents /\ Detect(t, answer).confidence \in 0..100
    BY DetectTyped DEF DecisionType
  <1>3. (Rewrites(t) \/ Reruns(t)) \in BOOLEAN
    BY DEF Rewrites, Reruns
  <1> QED
    BY <1>1, <1>2, <1>3 DEF Message, MessageType

LEMMA MessagesTyped == \A m \in Messages : m \in MessageType
  BY MessagesAssumption, MessageTyped

\* What the agent promises the graph: no text that asks for a rewrite or a rerun is
\* called a cancellation or a finalization, whatever the model answered and however
\* sure it was.
THEOREM ChangesAreNeverDestructive ==
  ASSUME NEW t \in TextType, NEW answer \in DecisionType, Rewrites(t) \/ Reruns(t)
  PROVE  Detect(t, answer).intent \notin {"cancel_report", "finalize_report"}
  <1>1. t.command \in {"none", "cancel", "finalize"} /\ t.signals # {}
    BY DEF TextType, Rewrites, Reruns
  <1>2. t.command = "none"
    BY <1>1 DEF TextType
  <1> DEFINE d == IF Accepted(answer) THEN answer ELSE Heuristic(t)
  <1>3. d \in DecisionType
    BY HeuristicTyped
  <1>4. Detect(t, answer) = SafetyDisambiguation(t, d)
    BY <1>2 DEF Detect
  <1> HIDE DEF d
  <1>5. SafetyDisambiguation(t, d).intent \notin {"cancel_report", "finalize_report"}
    BY <1>3 DEF SafetyDisambiguation, AtLeast, Decision, DecisionType
  <1> QED
    BY <1>4, <1>5

LEMMA DestructiveMessagesAskNoChange ==
  ASSUME NEW m \in Messages, m.intent \in {"cancel_report", "finalize_report"}
  PROVE  ~m.change
  <1>1. PICK text \in TextType : \E answer \in DecisionType : m = Message(text, answer)
    BY MessagesAssumption
  <1>2. PICK answer \in DecisionType : m = Message(text, answer)
    BY <1>1
  <1>3. m.intent = Detect(text, answer).intent /\ m.change = (Rewrites(text) \/ Reruns(text))
    BY <1>2 DEF Message
  <1> QED
    BY <1>3, ChangesAreNeverDestructive

-----------------------------------------------------------------------------

\* Type correctness: every handler of the graph keeps every field of its state,
\* the tracked files and the disk within their types.
THEOREM TypeCorrect == Spec => []TypeOK
  <1>1. Init => TypeOK
    <2>1. 0 \in 0..MaxRevisions /\ 0 \in 0..MaxSessions
      BY BoundsAssumption
    <2> QED
      BY <2>1, NoMessageTyped DEF Init, TypeOK, Responses
  <1>2. TypeOK /\ [Next]_vars => TypeOK'
    <2> SUFFICES ASSUME TypeOK, [Next]_vars PROVE TypeOK'
      OBVIOUS
    <2> USE DEF TypeOK, Responses
    <2>0. /\ 0 \in 0..MaxRevisions
          /\ sessions < MaxSessions => sessions + 1 \in 0..MaxSessions
      BY BoundsAssumption
    <2>1. CASE \E draft \in Drafts : StartReportInteractionSession(draft)
      BY <2>1, <2>0, NoMessageTyped
      DEF StartReportInteractionSession, ResetSession, PersistSnapshot
    <2>2. CASE \E draft \in Drafts : BootstrapRaises(draft)
      BY <2>2, <2>0, NoMessageTyped DEF BootstrapRaises, ResetSession
    <2>3. ASSUME NEW m \in Messages, Turn(m) PROVE TypeOK'
      <3>1. m \in MessageType
        BY MessagesTyped
      <3>2. CASE ConfirmDestructiveAction(m)
        BY <3>1, <3>2 DEF ConfirmDestructiveAction, Receive, Reply, PersistSnapshot,
                          Awaiting, Question
      <3>3. CASE ConfirmationDeclined(m)
        BY <3>1, <3>3 DEF ConfirmationDeclined, Receive, Reply, PersistSnapshot, Intents
      <3>4. CASE AnswerQuestion(m)
        BY <3>1, <3>4 DEF AnswerQuestion, Receive, Reply, PersistSnapshot, Intents
      <3>5. CASE ReviseReportText(m)
        BY <3>1, <3>5, BoundsAssumption
        DEF ReviseReportText, Receive, Reply, PersistSnapshot, Intents
      <3>6. CASE ShareReport(m)
        BY <3>1, <3>6 DEF ShareReport, Receive, Reply, PersistSnapshot, Intents
      <3>7. CASE PrepareRerun(m)
        BY <3>1, <3>7 DEF PrepareRerun, Receive, PersistSnapshot, Intents
      <3>8. CASE FinalizeSession(m)
        BY <3>1, <3>8 DEF FinalizeSession, Receive, PersistSnapshot, Intents
      <3>9. CASE CancelSession(m)
        BY <3>1, <3>9 DEF CancelSession, Receive, PersistSnapshot, Intents
      <3>10. CASE NodeRaises(m)
        <4>1. lastIntent' \in Intents \cup { "confirmation_declined",
                     "awaiting_confirm_cancel", "awaiting_confirm_finalize" }
          BY <3>10 DEF NodeRaises, Awaiting, Intents
        <4>2. disk' \subseteq File /\ finalText' \in 0..MaxRevisions
          BY <3>10, <2>0 DEF NodeRaises
        <4> QED
          BY <3>1, <3>10, <4>1, <4>2 DEF NodeRaises, Receive
      <3> QED
        BY <2>3, <3>2, <3>3, <3>4, <3>5, <3>6, <3>7, <3>8, <3>9, <3>10 DEF Turn
    <2>4. CASE UNCHANGED vars
      BY <2>4 DEF vars
    <2>5. CASE ReportsWritten(Reports \cup Drafts)
      BY <2>5 DEF ReportsWritten
    <2> QED
      BY <2>1, <2>2, <2>3, <2>4, <2>5 DEF Next
  <1> QED
    BY <1>1, <1>2, PTL DEF Spec

-----------------------------------------------------------------------------

\* The graph's record of an open confirmation and the question on the user's
\* screen never drift apart, whichever node ran last.
THEOREM PendingIsShown == Spec => []PendingMatchesQuestion
  <1> USE DEF PendingMatchesQuestion, Pending, Awaiting, Question
  <1>1. Init => PendingMatchesQuestion
    BY DEF Init
  <1>2. PendingMatchesQuestion /\ [Next]_vars => PendingMatchesQuestion'
    <2> SUFFICES ASSUME PendingMatchesQuestion, [Next]_vars
                 PROVE  PendingMatchesQuestion'
      OBVIOUS
    <2>1. CASE \E draft \in Drafts : StartReportInteractionSession(draft)
      BY <2>1 DEF StartReportInteractionSession, ResetSession
    <2>2. CASE \E draft \in Drafts : BootstrapRaises(draft)
      BY <2>2 DEF BootstrapRaises
    <2>3. ASSUME NEW m \in Messages, Turn(m) PROVE PendingMatchesQuestion'
      <3>1. CASE ConfirmDestructiveAction(m)
        BY <3>1 DEF ConfirmDestructiveAction, Reply
      <3>2. CASE ConfirmationDeclined(m)
        BY <3>2 DEF ConfirmationDeclined, Reply
      <3>3. CASE AnswerQuestion(m)
        BY <3>3 DEF AnswerQuestion, Reply
      <3>4. CASE ReviseReportText(m)
        BY <3>4 DEF ReviseReportText, Reply
      <3>5. CASE ShareReport(m)
        BY <3>5 DEF ShareReport, Reply
      <3>6. CASE PrepareRerun(m) \/ FinalizeSession(m) \/ CancelSession(m)
        BY <3>6 DEF PrepareRerun, FinalizeSession, CancelSession
      <3>7. CASE NodeRaises(m)
        BY <3>7 DEF NodeRaises
      <3> QED
        BY <2>3, <3>1, <3>2, <3>3, <3>4, <3>5, <3>6, <3>7 DEF Turn
    <2>4. CASE UNCHANGED vars
      BY <2>4 DEF vars
    <2>5. CASE ReportsWritten(Reports \cup Drafts)
      BY <2>5 DEF ReportsWritten
    <2> QED
      BY <2>1, <2>2, <2>3, <2>4, <2>5 DEF Next
  <1> QED
    BY <1>1, <1>2, PTL DEF Spec

\* A message commits to an outcome only if it consents to it as the user saw it.
LEMMA CommitIsConsent ==
  ASSUME PendingMatchesQuestion, node = "waiting",
         NEW k \in Kinds, NEW m \in Messages, Commits(k, m)
  PROVE  Consented(k, response, m)
  <1>1. CASE Pending(k) /\ ClassifyConfirmationReply(m) = "yes"
    BY <1>1 DEF PendingMatchesQuestion, Consented
  <1>2. CASE NothingPending /\ m.intent = Commit[k] /\ ~ShouldConfirm(k, m)
    <2>1. \A j \in Kinds : response # Question[j]
      BY <1>2 DEF PendingMatchesQuestion, NothingPending
    <2>2. m.confidence >= Threshold[k]
      BY <1>2, MessagesTyped DEF ShouldConfirm, MessageType, Threshold
    <2>3. ~m.change
      BY <1>2, DestructiveMessagesAskNoChange DEF Commit
    <2> QED
      BY <1>2, <2>1, <2>2, <2>3 DEF Consented
  <1> QED
    BY <1>1, <1>2 DEF Commits

\* Nothing is cancelled or finalized behind the user's back: the question shown and
\* the reply given decide, for any sequence of messages, failures and restarts.
THEOREM Consent == Spec => DestructiveActionsAreConsented
  <1> DEFINE Step == \A k \in Kinds : Outcome(k)' /\ ~Outcome(k)
                         => Consented(k, response, latestMessage')
  <1>1. TypeOK /\ PendingMatchesQuestion /\ [Next]_vars => [Step]_vars
    <2> SUFFICES ASSUME TypeOK, PendingMatchesQuestion, [Next]_vars PROVE [Step]_vars
      OBVIOUS
    <2>1. CASE \E draft \in Drafts :
                    StartReportInteractionSession(draft) \/ BootstrapRaises(draft)
      BY <2>1 DEF StartReportInteractionSession, BootstrapRaises, ResetSession, Outcome
    <2>2. ASSUME NEW m \in Messages, Turn(m) PROVE Step
      <3>1. m \in MessageType /\ node = "waiting" /\ latestMessage' = m
        BY <2>2, MessagesTyped
        DEF Turn, ConfirmDestructiveAction, ConfirmationDeclined, AnswerQuestion,
            ReviseReportText, ShareReport, PrepareRerun, FinalizeSession,
            CancelSession, NodeRaises, Receive
      <3>2. CASE FinalizeSession(m)
        <4>1. Consented("finalize", response, m)
          BY <3>1, <3>2, CommitIsConsent DEF FinalizeSession
        <4> QED
          BY <3>1, <3>2, <4>1 DEF FinalizeSession, Outcome
      <3>3. CASE CancelSession(m)
        <4>1. Consented("cancel", response, m)
          BY <3>1, <3>3, CommitIsConsent DEF CancelSession
        <4> QED
          BY <3>1, <3>3, <4>1 DEF CancelSession, Outcome
      <3>4. CASE ~FinalizeSession(m) /\ ~CancelSession(m)
        BY <2>2, <3>4
        DEF Turn, ConfirmDestructiveAction, ConfirmationDeclined, AnswerQuestion,
            ReviseReportText, ShareReport, PrepareRerun, NodeRaises, Reply, Outcome
      <3> QED
        BY <3>2, <3>3, <3>4
    <2>3. CASE UNCHANGED vars \/ ReportsWritten(Reports \cup Drafts)
      BY <2>3 DEF ReportsWritten, Outcome
    <2> QED
      BY <2>1, <2>2, <2>3 DEF Next
  <1> QED
    BY <1>1, TypeCorrect, PendingIsShown, PTL
    DEF Spec, DestructiveActionsAreConsented

\* A reply that is a yes as a whole, or that has a yes word in it.
SaysYes(m) == m.exact = "yes" \/ (m.exact = "neither" /\ m.saysYes)

\* With a question open, the session ends only in what the question asks for, and only
\* on a reply that is a yes or has a yes word in it: a refusal that is carried out all
\* the same (RefusalIsHonoured) is one whose words say yes as well as no.
THEOREM OnlyYesAnswersTheQuestion ==
    Spec => [][\A k \in Kinds : ~NothingPending /\ Outcome(k)' /\ ~Outcome(k)
                   => Pending(k) /\ SaysYes(latestMessage')]_vars
  <1> DEFINE Answered == \A k \in Kinds : ~NothingPending /\ Outcome(k)' /\ ~Outcome(k)
                             => Pending(k) /\ SaysYes(latestMessage')
  <1>1. TypeOK /\ [Next]_vars => [Answered]_vars
    <2> SUFFICES ASSUME TypeOK, Next PROVE Answered
      OBVIOUS
    <2>1. CASE \E draft \in Drafts :
                    StartReportInteractionSession(draft) \/ BootstrapRaises(draft)
      BY <2>1 DEF StartReportInteractionSession, BootstrapRaises, ResetSession, Outcome
    <2>2. ASSUME NEW m \in Messages, Turn(m) PROVE Answered
      <3>1. ASSUME NEW k \in Kinds, Commits(k, m), ~NothingPending
            PROVE  Pending(k) /\ SaysYes(m)
        <4>1. m.exact \in {"yes", "no", "neither"} /\ m.saysYes \in BOOLEAN
              /\ m.saysNo \in BOOLEAN
          BY MessagesTyped DEF MessageType
        <4>2. Pending(k) /\ ClassifyConfirmationReply(m) = "yes"
          BY <3>1 DEF Commits
        <4> QED BY <4>1, <4>2 DEF ClassifyConfirmationReply, SaysYes
      <3>2. CASE FinalizeSession(m)
        <4>1. /\ Commits("finalize", m) /\ latestMessage' = m
              /\ UNCHANGED cancelled
          BY <3>2 DEF FinalizeSession, Receive
        <4> QED BY <3>1, <4>1 DEF Outcome
      <3>3. CASE CancelSession(m)
        <4>1. /\ Commits("cancel", m) /\ latestMessage' = m
              /\ UNCHANGED finalized
          BY <3>3 DEF CancelSession, Receive
        <4> QED BY <3>1, <4>1 DEF Outcome
      <3>4. CASE ~FinalizeSession(m) /\ ~CancelSession(m)
        BY <2>2, <3>4
        DEF Turn, ConfirmDestructiveAction, ConfirmationDeclined, AnswerQuestion,
            ReviseReportText, ShareReport, PrepareRerun, NodeRaises, Reply, Outcome
      <3> QED BY <3>2, <3>3, <3>4
    <2>3. CASE ReportsWritten(Reports \cup Drafts)
      BY <2>3 DEF ReportsWritten, Outcome
    <2> QED BY <2>1, <2>2, <2>3 DEF Next
  <1>2. Spec => [][Answered]_vars
    BY <1>1, TypeCorrect, PTL DEF Spec
  <1> QED BY <1>2

-----------------------------------------------------------------------------

\* A session ends with exactly one outcome: no flag of an earlier session on the
\* thread shows in a later one, and no node sets two of them.
THEOREM OneOutcome == Spec => []EndedWithOneOutcome
  <1> USE DEF EndedWithOneOutcome
  <1>1. Init => EndedWithOneOutcome
    BY DEF Init
  <1>2. TypeOK /\ EndedWithOneOutcome /\ [Next]_vars => EndedWithOneOutcome'
    <2> SUFFICES ASSUME TypeOK, EndedWithOneOutcome, [Next]_vars
                 PROVE  EndedWithOneOutcome'
      OBVIOUS
    <2>1. CASE \E draft \in Drafts :
                    StartReportInteractionSession(draft) \/ BootstrapRaises(draft)
      BY <2>1 DEF StartReportInteractionSession, BootstrapRaises, ResetSession
    <2>2. ASSUME NEW m \in Messages, Turn(m) PROVE EndedWithOneOutcome'
      <3>1. node = "waiting"
        BY <2>2 DEF Turn, ConfirmDestructiveAction, ConfirmationDeclined,
            AnswerQuestion, ReviseReportText, ShareReport, PrepareRerun,
            FinalizeSession, CancelSession, NodeRaises, Receive
      <3>2. CASE PrepareRerun(m) \/ FinalizeSession(m) \/ CancelSession(m)
        BY <3>1, <3>2 DEF PrepareRerun, FinalizeSession, CancelSession, TypeOK
      <3>3. CASE ~(PrepareRerun(m) \/ FinalizeSession(m) \/ CancelSession(m))
        BY <2>2, <3>1, <3>3 DEF Turn, ConfirmDestructiveAction, ConfirmationDeclined,
            AnswerQuestion, ReviseReportText, ShareReport, NodeRaises, Reply
      <3> QED
        BY <3>2, <3>3
    <2>3. CASE UNCHANGED vars
      BY <2>3 DEF vars
    <2>4. CASE ReportsWritten(Reports \cup Drafts)
      BY <2>4 DEF ReportsWritten
    <2> QED
      BY <2>1, <2>2, <2>3, <2>4 DEF Next
  <1> QED
    BY <1>1, <1>2, TypeCorrect, PTL DEF Spec

\* The official report is complete and carries the last text, whatever was
\* rewritten before and whatever failed: only a session that has ended is
\* finalized, and only a new session may touch what it left.
THEOREM FinalTextIsLast == Spec => []FinalReportIsTheTextShown
  <1> USE DEF FinalReportIsTheTextShown
  <1>1. Init => FinalReportIsTheTextShown
    BY DEF Init
  <1>2. /\ TypeOK /\ EndedWithOneOutcome /\ FinalReportIsTheTextShown
        /\ [Next]_vars
        => FinalReportIsTheTextShown'
    <2> SUFFICES ASSUME TypeOK, EndedWithOneOutcome, FinalReportIsTheTextShown,
                        [Next]_vars
                 PROVE  FinalReportIsTheTextShown'
      OBVIOUS
    <2>1. CASE \E draft \in Drafts :
                    StartReportInteractionSession(draft) \/ BootstrapRaises(draft)
      BY <2>1 DEF StartReportInteractionSession, BootstrapRaises, ResetSession
    <2>2. ASSUME NEW m \in Messages, Turn(m) PROVE FinalReportIsTheTextShown'
      <3>1. ~finalized
        BY <2>2 DEF EndedWithOneOutcome, TypeOK, Turn, ConfirmDestructiveAction,
            ConfirmationDeclined, AnswerQuestion, ReviseReportText, ShareReport,
            PrepareRerun, FinalizeSession, CancelSession, NodeRaises, Receive
      <3>2. CASE FinalizeSession(m)
        BY <3>2 DEF FinalizeSession, PersistSnapshot
      <3>3. CASE ~FinalizeSession(m)
        BY <2>2, <3>1, <3>3 DEF Turn, ConfirmDestructiveAction, ConfirmationDeclined,
            AnswerQuestion, ReviseReportText, ShareReport, PrepareRerun,
            CancelSession, NodeRaises, Reply
      <3> QED
        BY <3>2, <3>3
    <2>3. CASE UNCHANGED vars
      BY <2>3 DEF vars
    <2>4. CASE ReportsWritten(Reports \cup Drafts)
      BY <2>4 DEF ReportsWritten
    <2> QED
      BY <2>1, <2>2, <2>3, <2>4 DEF Next
  <1> QED
    BY <1>1, <1>2, TypeCorrect, OneOutcome, PTL DEF Spec

-----------------------------------------------------------------------------

\* A session that still takes messages tracks no final report: this is why
\* cancelling it can delete none.
NoFinalTracked == node = "waiting" => "final" \notin artifacts

LEMMA WaitingTracksNoFinal == Spec => []NoFinalTracked
  <1> USE DEF NoFinalTracked
  <1>1. Init => NoFinalTracked
    BY DEF Init
  <1>2. NoFinalTracked /\ [Next]_vars => NoFinalTracked'
    <2> SUFFICES ASSUME NoFinalTracked, [Next]_vars PROVE NoFinalTracked'
      OBVIOUS
    <2>1. CASE \E draft \in Drafts :
                    StartReportInteractionSession(draft) \/ BootstrapRaises(draft)
      BY <2>1, DraftsAssumption
         DEF StartReportInteractionSession, BootstrapRaises, PersistSnapshot
    <2>2. ASSUME NEW m \in Messages, Turn(m) PROVE NoFinalTracked'
      BY <2>2 DEF Turn, ConfirmDestructiveAction, ConfirmationDeclined,
          AnswerQuestion, ReviseReportText, ShareReport, PrepareRerun,
          FinalizeSession, CancelSession, NodeRaises, Receive, Reply,
          PersistSnapshot
    <2>3. CASE UNCHANGED vars
      BY <2>3 DEF vars
    <2>4. CASE ReportsWritten(Reports \cup Drafts)
      BY <2>4 DEF ReportsWritten
    <2> QED
      BY <2>1, <2>2, <2>3, <2>4 DEF Next
  <1> QED
    BY <1>1, <1>2, PTL DEF Spec

\* Once written, the official report outlives every later session on the thread:
\* cancelled, failed half way, or started over.
THEOREM FinalReportsKept == Spec => FinalReportsSurvive
  <1> DEFINE Step == "final" \in disk => "final" \in disk'
  <1>1. NoFinalTracked /\ [Next]_vars => [Step]_vars
    <2> SUFFICES ASSUME NoFinalTracked, [Next]_vars, "final" \in disk
                 PROVE  "final" \in disk'
      OBVIOUS
    <2>1. CASE \E draft \in Drafts :
                    StartReportInteractionSession(draft) \/ BootstrapRaises(draft)
      BY <2>1 DEF StartReportInteractionSession, BootstrapRaises, PersistSnapshot
    <2>2. ASSUME NEW m \in Messages, Turn(m) PROVE "final" \in disk'
      <3>1. "final" \notin artifacts
        BY <2>2 DEF NoFinalTracked, Turn, ConfirmDestructiveAction,
            ConfirmationDeclined, AnswerQuestion, ReviseReportText, ShareReport,
            PrepareRerun, FinalizeSession, CancelSession, NodeRaises, Receive
      <3>2. CASE CancelSession(m)
        BY <3>1, <3>2 DEF CancelSession, PersistSnapshot
      <3>3. CASE NodeRaises(m)
        BY <3>1, <3>3 DEF NodeRaises
      <3>4. CASE ~CancelSession(m) /\ ~NodeRaises(m)
        BY <2>2, <3>4 DEF Turn, ConfirmDestructiveAction, ConfirmationDeclined,
            AnswerQuestion, ReviseReportText, ShareReport, PrepareRerun,
            FinalizeSession, Reply, PersistSnapshot
      <3> QED
        BY <3>2, <3>3, <3>4
    <2>3. CASE UNCHANGED vars
      BY <2>3 DEF vars
    <2>4. CASE ReportsWritten(Reports \cup Drafts)
      BY <2>4 DEF ReportsWritten
    <2> QED
      BY <2>1, <2>2, <2>3, <2>4 DEF Next
  <1> QED
    BY <1>1, WaitingTracksNoFinal, PTL DEF Spec, FinalReportsSurvive

\* A session that was not cancelled tracks every report of its pipeline, so reports
\* written beside it are tracked as well, and the approved draft.
AllReportsTracked ==
    node \in {"waiting", "ended"} /\ ~cancelled =>
        Reports \subseteq artifacts /\ artifacts \cap Drafts # {}

LEMMA WaitingTracksReports == Spec => []AllReportsTracked
  <1> USE DEF AllReportsTracked
  <1>1. Init => AllReportsTracked
    BY DEF Init
  <1>2. TypeOK /\ EndedWithOneOutcome /\ AllReportsTracked /\ [Next]_vars => AllReportsTracked'
    <2> SUFFICES ASSUME TypeOK, EndedWithOneOutcome, AllReportsTracked, [Next]_vars PROVE AllReportsTracked'
      OBVIOUS
    <2>1. CASE \E draft \in Drafts :
                    StartReportInteractionSession(draft) \/ BootstrapRaises(draft)
      BY <2>1 DEF StartReportInteractionSession, BootstrapRaises, PersistSnapshot
    <2>2. ASSUME NEW m \in Messages, Turn(m) PROVE AllReportsTracked'
      <3>1. node = "waiting" /\ ~cancelled
        BY <2>2 DEF EndedWithOneOutcome, TypeOK, Turn, ConfirmDestructiveAction,
            ConfirmationDeclined, AnswerQuestion, ReviseReportText, ShareReport,
            PrepareRerun, FinalizeSession, CancelSession, NodeRaises, Receive
      <3> QED
        BY <2>2, <3>1 DEF Turn, ConfirmDestructiveAction, ConfirmationDeclined,
            AnswerQuestion, ReviseReportText, ShareReport, PrepareRerun,
            FinalizeSession, CancelSession, NodeRaises, Reply, PersistSnapshot
    <2>3. CASE UNCHANGED vars
      BY <2>3 DEF vars
    <2>4. CASE ReportsWritten(Reports \cup Drafts)
      BY <2>4 DEF ReportsWritten
    <2> QED
      BY <2>1, <2>2, <2>3, <2>4 DEF Next
  <1> QED
    BY <1>1, <1>2, TypeCorrect, OneOutcome, PTL DEF Spec

\* What the session tracks is on disk after every completed turn, the approved draft
\* included, and until a cancellation what is on disk untracked is a final report or a
\* draft of another feedback round, which no operation tells the session of.
THEOREM TrackingIsExact == Spec => []TrackedFilesMatchDisk
  <1> USE DEF TrackedFilesMatchDisk, PersistSnapshot
  <1>1. Init => TrackedFilesMatchDisk
    BY DEF Init
  <1>2. /\ TypeOK /\ EndedWithOneOutcome /\ AllReportsTracked
        /\ TrackedFilesMatchDisk /\ [Next]_vars
        => TrackedFilesMatchDisk'
    <2> SUFFICES ASSUME TypeOK, EndedWithOneOutcome, AllReportsTracked,
                        TrackedFilesMatchDisk, [Next]_vars
                 PROVE  TrackedFilesMatchDisk'
      OBVIOUS
    <2>1. CASE \E draft \in Drafts : StartReportInteractionSession(draft)
      BY <2>1 DEF StartReportInteractionSession, TypeOK
    <2>2. CASE \E draft \in Drafts : BootstrapRaises(draft)
      BY <2>2 DEF BootstrapRaises
    <2>3. ASSUME NEW m \in Messages, Turn(m) PROVE TrackedFilesMatchDisk'
      <3>0. ~cancelled
        BY <2>3 DEF EndedWithOneOutcome, TypeOK, Turn, ConfirmDestructiveAction,
            ConfirmationDeclined, AnswerQuestion, ReviseReportText, ShareReport,
            PrepareRerun, FinalizeSession, CancelSession, NodeRaises, Receive
      <3>1. CASE FinalizeSession(m)
        BY <3>0, <3>1 DEF FinalizeSession, Receive
      <3>2. CASE CancelSession(m)
        BY <3>2 DEF CancelSession, Receive
      <3>3. CASE NodeRaises(m)
        BY <3>3 DEF NodeRaises
      <3>4. CASE ~FinalizeSession(m) /\ ~CancelSession(m) /\ ~NodeRaises(m)
        BY <2>3, <3>0, <3>4 DEF Turn, ConfirmDestructiveAction, ConfirmationDeclined,
            AnswerQuestion, ReviseReportText, ShareReport, PrepareRerun, Receive,
            Reply
      <3> QED
        BY <3>1, <3>2, <3>3, <3>4
    <2>4. CASE UNCHANGED vars
      BY <2>4 DEF vars
    <2>5. CASE ReportsWritten(Reports \cup Drafts)
      BY <2>5 DEF ReportsWritten, AllReportsTracked
    <2> QED
      BY <2>1, <2>2, <2>3, <2>4, <2>5 DEF Next
  <1> QED
    BY <1>1, <1>2, TypeCorrect, OneOutcome, WaitingTracksReports, PTL DEF Spec

\* A cancellation leaves nothing of the thread on disk but what cannot be deleted, an
\* earlier final report and the drafts of other feedback rounds than the approved one,
\* for any sequence of failed pipelines and restarts.
THEOREM CancelDeletesTheReports == Spec => CancelDeletesReports
  <1> DEFINE Deleted == /\ disk' \subseteq Undeletable \cup {"session", "final"}
                                              \cup (Drafts \ artifacts)
                        /\ artifacts \cap Drafts # {}
             Step    == cancelled' /\ ~cancelled => Deleted
  <1>1. TypeOK /\ TrackedFilesMatchDisk /\ [Next]_vars => [Step]_vars
    <2> SUFFICES ASSUME TypeOK, TrackedFilesMatchDisk, [Next]_vars, cancelled', ~cancelled
                 PROVE  Deleted
      OBVIOUS
    <2>1. PICK m \in Messages : CancelSession(m)
      BY DEF Next, vars, ReportsWritten, StartReportInteractionSession, BootstrapRaises,
             ResetSession, Turn, ConfirmDestructiveAction, ConfirmationDeclined,
             AnswerQuestion, ReviseReportText, ShareReport, PrepareRerun,
             FinalizeSession, NodeRaises, Reply
    <2> QED
      BY <2>1 DEF CancelSession, Receive, PersistSnapshot, TrackedFilesMatchDisk
  <1> QED
    BY <1>1, TypeCorrect, TrackingIsExact, PTL DEF Spec, CancelDeletesReports
=============================================================================
