--------------------------- MODULE HeadlessServiceProofs ---------------------------
(***************************************************************************)
(* Any number of clients that do not wait for each other: what the service *)
(* does is what one orchestrator may do, so the safety of FullWorkflow is  *)
(* theirs; the responses agree with what became of the workflow; and what  *)
(* became of it is what some client's text or call asked for.              *)
(***************************************************************************)
EXTENDS HeadlessService, FullWorkflowProofs

-----------------------------------------------------------------------------
(* The invariant *)

\* A call that sends a message was let through for an operation of the service.
CheckedIsKnown ==
    \A c \in Clients : calls[c].step = "checked" => calls[c].operation \in ServiceOperations

\* No response is about a review that was not started.
ToldIsPast == \A c \in Clients : calls[c].about \in 0..starts

StartsAreCounted == starts \in 0..MaxStarts

ServiceInv ==
    /\ CallsOK /\ CheckedIsKnown /\ ToldIsPast /\ StartsAreCounted
    /\ ApprovedIsBeingExecuted /\ OneOutcomeIsTold

-----------------------------------------------------------------------------
(* What a message may do to the workflow *)

\* Whatever the service sends, it is one of the messages that are considered.
LEMMA ServiceTexts ==
    /\ \A operation \in ServiceOperations : MessageOf[operation] \subseteq Messages
    /\ {ConfirmationMessage} \subseteq Messages
  BY TextsOfTheServiceAssumption DEF MessageOf, ServiceOperations

\* A session that has asked for a rerun takes no message, and its phase stays.
LEMMA RerunStays ==
    ASSUME SafetyInv, NEW m \in Messages, ContinueReportInteraction(m),
           snapshot.phase = "rerun_requested"
    PROVE  snapshot'.phase = "rerun_requested"
  <1>1. /\ node = "ended" /\ rerunRequested /\ ~finalized /\ ~cancelled
        /\ ~Session!Turn(m) /\ SnapshotShape
    BY TurnEndsOnRerun DEF SafetyInv, LifecycleInv, RerunHasEnded
  <1>2. UNCHANGED <<node, rerunRequested, finalized, cancelled>>
    BY <1>1 DEF ContinueReportInteraction, reportVars, sessionVars
  <1>3. SaveRerunRequested
    BY <1>1, <1>2 DEF ContinueReportInteraction, SaveFinalized, SaveCancelled,
                      SaveInteraction
  <1> QED BY <1>1, <1>3, OpenSnapshot DEF SaveRerunRequested

\* Only the lifecycle's reply to a draft approves.
LEMMA ApprovalMoves ==
    ASSUME LifecycleInv, Next, snapshot'.phase = "approved"
    PROVE  snapshot.phase \in {"approved", "pending_review"}
  <1>1. [Lifecycle!Next]_LifecycleVars
    BY EveryStep
  <1> QED BY <1>1 DEF LifecycleVars, Lifecycle!Next, Lifecycle!Start, Lifecycle!Reply,
                      Lifecycle!AfterReply,
                             Lifecycle!Drawn, Lifecycle!Undrawn, Lifecycle!Run, Lifecycle!Finalize,
                      Lifecycle!Stop

\* What a message finds and what it may lead to, sent by whatever call and however late.
Moves ==
    /\ starts' = starts
    /\ snapshot.phase \in Terminal \cup {"none", "approved"} => snapshot'.phase = snapshot.phase
    /\ snapshot'.phase = "approved" => snapshot.phase \in {"approved", "pending_review"}

\* A message that is delivered is a call of the orchestrator, of a phase that waits.
LEMMA DeliveredMoves ==
    ASSUME SafetyInv, NEW operation, NEW m \in Messages, Delivered(operation, m)
    PROVE  Next /\ Moves
  <1>1. Next
    BY DEF Delivered, Next
  <1>2. starts' = starts
    <2>1. CASE ResumeTargetSelection \/ ResumeScopeConfirmation
      BY <2>1, TargetSelectionDoes, ScopeConfirmationDoes
      DEF ResumeTargetSelection, ResumeScopeConfirmation
    <2>2. CASE ResumeReview
      BY <2>2, ReviewDoes DEF ResumeReview, SafetyInv, DesignInv, DraftsAreShown
    <2>3. CASE AskScopeRecommendation
      BY <2>3 DEF AskScopeRecommendation, Review!RememberScopeRecommendation
    <2>4. CASE ContinueReportInteraction(m)
      BY <2>4 DEF ContinueReportInteraction, reviewVars
    <2> QED BY <2>1, <2>2, <2>3, <2>4 DEF Delivered
  <1>3. /\ snapshot.phase \in ReplyPhases \cup ReportPhases
        /\ snapshot.phase = "rerun_requested" => snapshot'.phase = "rerun_requested"
    <2>1. CASE ResumeTargetSelection
      BY <2>1, RoutedFits DEF ResumeTargetSelection, PhaseFits, ReplyPhases
    <2>2. CASE AskScopeRecommendation
      BY <2>2, RoutedFits DEF AskScopeRecommendation, PhaseFits, ReplyPhases
    <2>3. CASE ResumeScopeConfirmation
      BY <2>3, RoutedFits DEF ResumeScopeConfirmation, PhaseFits, ReplyPhases
    <2>4. CASE ResumeReview
      BY <2>4, RoutedFits DEF ResumeReview, PhaseFits, ReplyPhases
    <2>5. CASE ContinueReportInteraction(m)
      BY <2>5, RoutedFits, RerunStays DEF ContinueReportInteraction, PhaseFits
    <2> QED BY <2>1, <2>2, <2>3, <2>4, <2>5 DEF Delivered
  <1>4. snapshot'.phase = "approved" => snapshot.phase \in {"approved", "pending_review"}
    BY <1>1, ApprovalMoves DEF SafetyInv
  <1> QED BY <1>1, <1>2, <1>3, <1>4 DEF Moves, Terminal, ReplyPhases, ReportPhases

\* A message that only gets help, the status or a question back moves nothing.
LEMMA UnroutedMoves ==
    ASSUME UNCHANGED vars
    PROVE  Moves
  BY DEF vars, reviewVars, Moves

-----------------------------------------------------------------------------
(* What a call makes of the answer *)

\* The call of a client that waits for nothing.
LEMMA IdleCall == NoCall \in Call /\ NoCall.step = "idle" /\ NoCall.told = "none"
  BY StartsAssumption DEF NoCall, Call

\* The fields of a call that was let through.
LEMMA CheckedCall ==
    ASSUME NEW operation \in ServiceOperations
    PROVE  LET call == [NoCall EXCEPT !.operation = operation, !.step = "checked"]
           IN  /\ call \in Call /\ call.operation = operation /\ call.step = "checked"
               /\ call.told = "none" /\ call.about = 0
  <1>1. ASSUME NEW call \in Call
        PROVE  LET next == [call EXCEPT !.operation = operation, !.step = "checked"]
               IN  /\ next \in Call /\ next.operation = operation /\ next.step = "checked"
                   /\ next.told = call.told /\ next.about = call.about
    BY DEF Call
  <1>2. NoCall \in Call /\ NoCall.told = "none" /\ NoCall.about = 0
    BY IdleCall DEF NoCall
  <1> QED BY <1>1, <1>2

\* The fields of a call that goes on with another step.
LEMMA NextCall ==
    ASSUME NEW call \in Call, NEW step \in {"confirming", "executing"}
    PROVE  LET next == [call EXCEPT !.step = step]
           IN  /\ next \in Call /\ next.step = step
               /\ next.told = call.told /\ next.about = call.about
  BY DEF Call

\* The fields of a call that returned: it tells the outcome the workflow has, or none.
LEMMA ReturnedCall ==
    ASSUME starts' \in 0..MaxStarts, NEW call
    PROVE  /\ Returned(call) \in Call /\ Returned(call).step = "idle"
           /\ Returned(call).about \in {0, starts'}
           /\ Returned(call).told # "none" => Returned(call).told = snapshot'.phase
  <1>1. ASSUME NEW phase \in {"finalized", "cancelled"}
        PROVE  /\ Told(phase) \in Call /\ Told(phase).step = "idle"
               /\ Told(phase).about = starts' /\ Told(phase).told = phase
    BY DEF Told, NoCall, Call
  <1>2. NoCall \in Call /\ NoCall.step = "idle" /\ NoCall.told = "none" /\ NoCall.about = 0
    BY IdleCall DEF NoCall
  <1> QED BY <1>1, <1>2 DEF Returned

-----------------------------------------------------------------------------
(* Every step is one of the orchestrator, and keeps the invariant *)

\* The other clients keep what they were told; client c gets a call that is sound.
LEMMA CallMoves ==
    ASSUME ServiceInv, Moves, NEW c \in Clients, calls[c].step \in {"checked", "confirming"},
           NEW call \in Call, calls' = [calls EXCEPT ![c] = call],
           call.step # "checked",
           call.step = "executing" <=>
               snapshot.phase = "pending_review" /\ snapshot'.phase = "approved",
           call.about \in 0..starts',
           call.told # "none" =>
               \/ call.told = snapshot'.phase
               \/ call.told = calls[c].told /\ call.about = calls[c].about
    PROVE  ServiceInv'
  <1>1. /\ calls' \in [Clients -> Call] /\ calls'[c] = call
        /\ \A d \in Clients \ {c} : calls'[d] = calls[d]
    BY DEF ServiceInv, CallsOK
  <1>2. starts' = starts
    BY DEF Moves
  <1>3. CallsOK' /\ CheckedIsKnown' /\ ToldIsPast' /\ StartsAreCounted'
    BY <1>1, <1>2 DEF ServiceInv, CallsOK, CheckedIsKnown, ToldIsPast, StartsAreCounted
  <1>4. /\ snapshot.phase = "approved" <=> \E d \in Clients : calls[d].step = "executing"
        /\ \A d, e \in Clients :
              calls[d].step = "executing" /\ calls[e].step = "executing" => d = e
    BY DEF ServiceInv, ApprovedIsBeingExecuted
  <1>5. /\ snapshot.phase = "approved" => snapshot'.phase = "approved"
        /\ snapshot'.phase = "approved" => snapshot.phase \in {"approved", "pending_review"}
    BY DEF Moves
  <1>6. ApprovedIsBeingExecuted'
    <2>1. snapshot'.phase = "approved" <=> \E d \in Clients : calls'[d].step = "executing"
      BY <1>1, <1>4, <1>5
    <2>2. \A d, e \in Clients :
             calls'[d].step = "executing" /\ calls'[e].step = "executing" => d = e
      BY <1>1, <1>4
    <2> QED BY <2>1, <2>2 DEF ApprovedIsBeingExecuted
  <1>7. OneOutcomeIsTold'
    <2>1. \A d \in Clients : calls[d].told # "none" /\ calls[d].about = starts
              => snapshot'.phase \in {calls[d].told, "none"}
      BY DEF ServiceInv, OneOutcomeIsTold, Moves, CallsOK, Call, Terminal
    <2> QED BY <1>1, <1>2, <2>1 DEF OneOutcomeIsTold
  <1> QED BY <1>3, <1>6, <1>7 DEF ServiceInv

\* A message is a call of the orchestrator or moves nothing, and its answer is sound.
LEMMA ExchangeStep ==
    ASSUME SafetyInv, ServiceInv, NEW c \in Clients,
           calls[c].step \in {"checked", "confirming"},
           NEW messages \in SUBSET Messages, Exchange(c, messages)
    PROVE  [Next]_vars /\ ServiceInv'
  <1>1. PICK prompted \in BOOLEAN :
            /\ \/ \E m \in messages : Delivered(calls[c].operation, m)
               \/ UNCHANGED vars
            /\ \E call \in Answered(calls[c], prompted) : calls' = [calls EXCEPT ![c] = call]
    BY DEF Exchange
  <1>2. [Next]_vars /\ Moves
    BY <1>1, DeliveredMoves, UnroutedMoves
  <1>3. PICK call \in Answered(calls[c], prompted) : calls' = [calls EXCEPT ![c] = call]
    BY <1>1
  <1>4. /\ calls[c] \in Call /\ starts' = starts /\ starts' \in 0..MaxStarts
        /\ calls[c].about \in 0..starts
    BY <1>2 DEF ServiceInv, CallsOK, ToldIsPast, StartsAreCounted, Moves
  <1>5. CASE snapshot.phase = "pending_review" /\ snapshot'.phase = "approved"
    <2>1. call = [calls[c] EXCEPT !.step = "executing"]
      BY <1>3, <1>5 DEF Answered
    <2>2. /\ call \in Call /\ call.step = "executing"
          /\ call.told = calls[c].told /\ call.about = calls[c].about
      BY <1>4, <2>1, NextCall
    <2> QED BY <1>2, <1>3, <1>4, <1>5, <2>2, CallMoves
  <1>6. CASE /\ ~(snapshot.phase = "pending_review" /\ snapshot'.phase = "approved")
             /\ call = [calls[c] EXCEPT !.step = "confirming"]
    <2>1. /\ call \in Call /\ call.step = "confirming"
          /\ call.told = calls[c].told /\ call.about = calls[c].about
      BY <1>4, <1>6, NextCall
    <2> QED BY <1>2, <1>3, <1>4, <1>6, <2>1, CallMoves
  <1>7. CASE /\ ~(snapshot.phase = "pending_review" /\ snapshot'.phase = "approved")
             /\ call = Returned(calls[c])
    <2>1. /\ call \in Call /\ call.step = "idle"
          /\ call.about \in 0..starts'
          /\ call.told # "none" => call.told = snapshot'.phase
      BY <1>4, <1>7, ReturnedCall
    <2> QED BY <1>2, <1>3, <1>7, <2>1, CallMoves
  <1> QED BY <1>3, <1>5, <1>6, <1>7 DEF Answered

\* A client may be let through at any time; nothing moves yet.
LEMMA CheckStep ==
    ASSUME ServiceInv, NEW c \in Clients, CheckCall(c)
    PROVE  [Next]_vars /\ ServiceInv'
  <1>1. PICK operation \in ServiceOperations :
            calls' = [calls EXCEPT ![c] = [NoCall EXCEPT !.operation = operation,
                                                         !.step = "checked"]]
    BY DEF CheckCall
  <1> DEFINE call == [NoCall EXCEPT !.operation = operation, !.step = "checked"]
  <1>2. /\ call \in Call /\ call.operation = operation /\ call.step = "checked"
        /\ call.told = "none" /\ call.about = 0
    BY CheckedCall
  <1>3. calls' = [calls EXCEPT ![c] = call]
    BY <1>1
  <1> HIDE DEF call
  <1>4. calls[c].step = "idle" /\ UNCHANGED vars /\ UNCHANGED <<snapshot, starts>>
    BY DEF CheckCall, vars, reviewVars
  <1>5. /\ calls' \in [Clients -> Call] /\ calls'[c] = call
        /\ \A d \in Clients \ {c} : calls'[d] = calls[d]
    BY <1>2, <1>3 DEF ServiceInv, CallsOK
  <1>6. CallsOK' /\ CheckedIsKnown' /\ ToldIsPast' /\ StartsAreCounted'
    BY <1>2, <1>4, <1>5 DEF ServiceInv, CallsOK, CheckedIsKnown, ToldIsPast,
                            StartsAreCounted
  <1>7. ApprovedIsBeingExecuted'
    BY <1>2, <1>4, <1>5 DEF ServiceInv, ApprovedIsBeingExecuted
  <1>8. OneOutcomeIsTold'
    BY <1>2, <1>4, <1>5 DEF ServiceInv, OneOutcomeIsTold
  <1> QED BY <1>4, <1>6, <1>7, <1>8 DEF ServiceInv

\* What clients were told is about an earlier review once a new one is started.
LEMMA StartCallStep ==
    ASSUME SafetyInv, ServiceInv, NEW c \in Clients, StartWorkflow(c)
    PROVE  [Next]_vars /\ ServiceInv'
  <1>1. /\ StartFromText /\ calls[c].step = "idle"
        /\ calls' = [calls EXCEPT ![c] = NoCall]
    BY DEF StartWorkflow
  <1>2. snapshot.phase # "approved" /\ snapshot'.phase # "approved"
    <2>1. result' # "approved"
      BY <1>1, StartAnswers DEF StartFromText
    <2>2. \/ snapshot' = snapshot
          \/ snapshot'.phase \in {"error", result'}
      BY <1>1, StartSaves DEF StartFromText, SafetyInv
    <2> QED BY <1>1, <2>1, <2>2 DEF StartFromText
  <1>3. starts' = starts + 1 /\ starts' \in 0..MaxStarts /\ starts \in Nat
    BY <1>1, StartsAssumption DEF StartFromText, Review!StartReviewFromText, ServiceInv,
                                  StartsAreCounted
  <1>4. /\ calls' \in [Clients -> Call] /\ calls'[c] = NoCall
        /\ \A d \in Clients \ {c} : calls'[d] = calls[d]
    BY <1>1, IdleCall DEF ServiceInv, CallsOK
  <1>5. \A d \in Clients : calls[d].about \in 0..starts' /\ calls[d].about # starts'
    BY <1>3 DEF ServiceInv, ToldIsPast
  <1>6. NoCall.about = 0 /\ NoCall.step = "idle" /\ NoCall.told = "none"
    BY DEF NoCall
  <1>7. CallsOK' /\ CheckedIsKnown' /\ ToldIsPast' /\ StartsAreCounted'
    BY <1>3, <1>4, <1>5, <1>6 DEF ServiceInv, CallsOK, CheckedIsKnown, ToldIsPast,
                                  StartsAreCounted
  <1>8. ApprovedIsBeingExecuted'
    BY <1>2, <1>4, <1>6 DEF ServiceInv, ApprovedIsBeingExecuted
  <1>9. OneOutcomeIsTold'
    BY <1>4, <1>5, <1>6 DEF OneOutcomeIsTold
  <1> QED BY <1>1, <1>7, <1>8, <1>9 DEF ServiceInv, Next

\* The pipeline leaves phase "approved", however it ends.
LEMMA PipelineMoves ==
    ASSUME SafetyInv, RunPostApprovalPipeline
    PROVE  /\ snapshot.phase = "approved" /\ starts' = starts
           /\ snapshot'.phase \in {"report_interaction", "error"}
  <1>1. snapshot.phase = "approved" /\ starts' = starts
    BY DEF RunPostApprovalPipeline, reviewVars
  <1>2. SnapshotShape /\ DOMAIN snapshot = Fields
    BY DEF SafetyInv, LifecycleInv, SnapshotFields, Fields
  <1>3. CASE snapshot' = Failed(snapshot)
    BY <1>1, <1>2, <1>3, FailedSnapshot
  <1>4. CASE snapshot' = [snapshot EXCEPT
                            !.phase = "report_interaction",
                            !.run = Len(executions'),
                            !.refs = @ \cup {"execution", "validation", "staged"},
                            !.tracked = @ \cup artifacts']
    <2> DEFINE n == Len(executions')
               f == snapshot.refs \cup {"execution", "validation", "staged"}
               t == snapshot.tracked \cup artifacts'
    <2>1. snapshot' = Opened(snapshot, "report_interaction", n, f, t)
      BY <1>4 DEF Opened
    <2> HIDE DEF n, f, t
    <2> QED BY <1>1, <1>2, <2>1, OpenedFields
  <1> QED BY <1>1, <1>3, <1>4 DEF RunPostApprovalPipeline

\* The call that has approved executes, alone, and returns.
LEMMA ExecuteStep ==
    ASSUME SafetyInv, ServiceInv, NEW c \in Clients, ExecuteApproved(c)
    PROVE  [Next]_vars /\ ServiceInv'
  <1>1. /\ RunPostApprovalPipeline /\ calls[c].step = "executing"
        /\ calls' = [calls EXCEPT ![c] = Returned(calls[c])]
    BY DEF ExecuteApproved
  <1>2. /\ snapshot.phase = "approved" /\ starts' = starts
        /\ snapshot'.phase \in {"report_interaction", "error"}
    BY <1>1, PipelineMoves
  <1>3. /\ Returned(calls[c]) \in Call /\ Returned(calls[c]).step = "idle"
        /\ Returned(calls[c]).about \in 0..starts /\ Returned(calls[c]).told = "none"
    BY <1>2, IdleCall DEF Returned, ServiceInv, StartsAreCounted, NoCall
  <1>4. /\ calls' \in [Clients -> Call] /\ calls'[c] = Returned(calls[c])
        /\ \A d \in Clients \ {c} : calls'[d] = calls[d] /\ calls[d].step # "executing"
    BY <1>1, <1>3 DEF ServiceInv, CallsOK, ApprovedIsBeingExecuted
  <1>5. CallsOK' /\ CheckedIsKnown' /\ ToldIsPast' /\ StartsAreCounted'
    BY <1>2, <1>3, <1>4 DEF ServiceInv, CallsOK, CheckedIsKnown, ToldIsPast,
                            StartsAreCounted
  <1>6. ApprovedIsBeingExecuted'
    BY <1>2, <1>3, <1>4 DEF ApprovedIsBeingExecuted
  <1>7. OneOutcomeIsTold'
    BY <1>2, <1>3, <1>4 DEF ServiceInv, OneOutcomeIsTold, CallsOK, Call
  <1> QED BY <1>1, <1>5, <1>6, <1>7 DEF ServiceInv, Next

\* A restart ends every call and forgets the phase.
LEMMA ServiceRestartStep ==
    ASSUME ServiceInv, ServiceRestart
    PROVE  [Next]_vars /\ ServiceInv'
  <1>1. /\ ProcessRestart /\ calls' = [c \in Clients |-> NoCall]
        /\ starts' = starts /\ snapshot'.phase = "none"
    BY DEF ServiceRestart, ProcessRestart, NoSnapshot
  <1>2. \A c \in Clients : calls'[c] = NoCall
    BY <1>1
  <1>3. NoCall \in Call /\ NoCall.about = 0 /\ NoCall.step = "idle" /\ NoCall.told = "none"
    BY IdleCall DEF NoCall
  <1>4. CallsOK' /\ StartsAreCounted'
    BY <1>1, <1>3 DEF ServiceInv, CallsOK, StartsAreCounted
  <1>5. CheckedIsKnown' /\ ToldIsPast' /\ ApprovedIsBeingExecuted' /\ OneOutcomeIsTold'
    BY <1>1, <1>2, <1>3 DEF ServiceInv, StartsAreCounted, CheckedIsKnown, ToldIsPast,
                            ApprovedIsBeingExecuted, OneOutcomeIsTold
  <1> QED BY <1>1, <1>4, <1>5 DEF ServiceInv, Next

\* Every step of the service.
LEMMA EveryServiceStep ==
    ASSUME SafetyInv, ServiceInv, [ServiceNext]_serviceVars
    PROVE  [Next]_vars /\ ServiceInv'
  <1>1. CASE UNCHANGED serviceVars
    BY <1>1 DEF serviceVars, vars, reviewVars, ServiceInv, CallsOK, CheckedIsKnown,
                ToldIsPast, StartsAreCounted, ApprovedIsBeingExecuted, OneOutcomeIsTold
  <1>2. ASSUME NEW c \in Clients, StartWorkflow(c)
        PROVE  [Next]_vars /\ ServiceInv'
    BY <1>2, StartCallStep
  <1>3. ASSUME NEW c \in Clients, CheckCall(c)
        PROVE  [Next]_vars /\ ServiceInv'
    BY <1>3, CheckStep
  <1>4. ASSUME NEW c \in Clients, SendMessage(c)
        PROVE  [Next]_vars /\ ServiceInv'
    <2>1. /\ calls[c].step = "checked" /\ calls[c].operation \in ServiceOperations
          /\ Exchange(c, MessageOf[calls[c].operation])
      BY <1>4 DEF SendMessage, ServiceInv, CheckedIsKnown
    <2>2. MessageOf[calls[c].operation] \in SUBSET Messages
      BY <2>1, ServiceTexts
    <2> QED BY <2>1, <2>2, ExchangeStep
  <1>5. ASSUME NEW c \in Clients, AutoConfirm(c)
        PROVE  [Next]_vars /\ ServiceInv'
    BY <1>5, ServiceTexts, ExchangeStep DEF AutoConfirm
  <1>6. ASSUME NEW c \in Clients, ExecuteApproved(c)
        PROVE  [Next]_vars /\ ServiceInv'
    BY <1>6, ExecuteStep
  <1>7. CASE ServiceRestart
    BY <1>7, ServiceRestartStep
  <1> QED BY <1>1, <1>2, <1>3, <1>4, <1>5, <1>6, <1>7 DEF ServiceNext, Step

\* No client has called yet.
LEMMA InitialCalls == ServiceInit => ServiceInv
  <1> SUFFICES ASSUME ServiceInit PROVE ServiceInv
    OBVIOUS
  <1>1. /\ calls = [c \in Clients |-> NoCall] /\ snapshot.phase = "none" /\ starts = 0
    BY DEF ServiceInit, Init, Review!Init, NoSnapshot
  <1>2. \A c \in Clients : calls[c] = NoCall
    BY <1>1
  <1>3. NoCall \in Call /\ NoCall.about = 0 /\ NoCall.step = "idle" /\ NoCall.told = "none"
    BY IdleCall DEF NoCall
  <1>4. CallsOK /\ StartsAreCounted
    BY <1>1, <1>3, StartsAssumption DEF CallsOK, StartsAreCounted
  <1>5. CheckedIsKnown /\ ToldIsPast /\ ApprovedIsBeingExecuted /\ OneOutcomeIsTold
    BY <1>1, <1>2, <1>3 DEF CheckedIsKnown, ToldIsPast, ApprovedIsBeingExecuted,
                            OneOutcomeIsTold
  <1> QED BY <1>4, <1>5 DEF ServiceInv

-----------------------------------------------------------------------------
(* The service *)

\* What a call carries from one step to the next agrees with the workflow that has
\* moved on in between, and the workflow stays safe.
THEOREM ServiceIsSafe == ServiceSpec => [](SafetyInv /\ ServiceInv)
  <1>1. ServiceInit => SafetyInv /\ ServiceInv
    BY InitiallySafe, InitialCalls DEF ServiceInit
  <1>2. SafetyInv /\ ServiceInv /\ [ServiceNext]_serviceVars => (SafetyInv /\ ServiceInv)'
    BY EveryServiceStep, EveryStepKeeps
  <1> QED BY <1>1, <1>2, PTL DEF ServiceSpec

\* However the calls of the clients interleave, the orchestrator sees what it might see
\* of one user: the service implements FullWorkflow, and with it the lifecycle.
THEOREM ServiceImplements == ServiceSpec => Spec
  <1>1. ServiceInit => Init
    BY DEF ServiceInit
  <1>2. SafetyInv /\ ServiceInv /\ [ServiceNext]_serviceVars => [Next]_vars
    BY EveryServiceStep
  <1> QED BY <1>1, <1>2, ServiceIsSafe, PTL DEF ServiceSpec, Spec

\* Calls keep their type.
THEOREM CallsAreTyped == ServiceSpec => []CallsOK
  <1>1. ServiceInv => CallsOK
    BY DEF ServiceInv
  <1> QED BY <1>1, ServiceIsSafe, PTL

\* A workflow is in phase "approved" exactly while one call executes it.
THEOREM ApprovedHasItsCall == ServiceSpec => []ApprovedIsBeingExecuted
  <1>1. ServiceInv => ApprovedIsBeingExecuted
    BY DEF ServiceInv
  <1> QED BY <1>1, ServiceIsSafe, PTL

\* No two clients are told different outcomes of one review.
THEOREM OutcomesAgree == ServiceSpec => []OneOutcomeIsTold
  <1>1. ServiceInv => OneOutcomeIsTold
    BY DEF ServiceInv
  <1> QED BY <1>1, ServiceIsSafe, PTL

\* A terminal phase is left by a new start or with the process only, also by calls that
\* were let through before.
THEOREM TerminalIsKept == ServiceSpec => TerminalPhaseIsKept
  <1> DEFINE Kept == snapshot.phase \in Terminal =>
                         snapshot'.phase \in {snapshot.phase, "none"} \/ starts' # starts
  <1>1. SafetyInv /\ ServiceInv /\ [ServiceNext]_serviceVars => [Kept]_serviceVars
    <2> SUFFICES ASSUME SafetyInv, ServiceInv, ServiceNext PROVE Kept
      OBVIOUS
    <2>1. ASSUME NEW c \in Clients, StartWorkflow(c)
          PROVE  Kept
      <3>1. starts \in Nat /\ starts' = starts + 1
        BY <2>1, StartDoes DEF StartWorkflow, StartFromText, ServiceInv, StartsAreCounted
      <3> QED BY <3>1
    <2>2. ASSUME NEW c \in Clients, CheckCall(c)
          PROVE  Kept
      BY <2>2 DEF CheckCall, vars
    <2>3. ASSUME NEW c \in Clients, NEW messages \in SUBSET Messages, Exchange(c, messages)
          PROVE  Kept
      BY <2>3, DeliveredMoves, UnroutedMoves DEF Exchange, Moves
    <2>4. ASSUME NEW c \in Clients, SendMessage(c) \/ AutoConfirm(c)
          PROVE  Kept
      BY <2>3, <2>4, ServiceTexts DEF SendMessage, AutoConfirm, ServiceInv, CheckedIsKnown
    <2>5. ASSUME NEW c \in Clients, ExecuteApproved(c)
          PROVE  Kept
      BY <2>5, PipelineMoves DEF ExecuteApproved, Terminal
    <2>6. CASE ServiceRestart
      BY <2>6 DEF ServiceRestart, ProcessRestart, NoSnapshot
    <2> QED BY <2>1, <2>2, <2>4, <2>5, <2>6 DEF ServiceNext, Step
  <1>2. ServiceSpec => [][Kept]_serviceVars
    BY <1>1, ServiceIsSafe, PTL DEF ServiceSpec
  <1> QED BY <1>2 DEF TerminalPhaseIsKept

-----------------------------------------------------------------------------
(* What becomes of a report session *)

\* A message of a call for one outcome says nothing that could be taken for the other.
LEMMA TextsCommitTo ==
    /\ ~Session!Commits("finalize", CancelMessage)
    /\ ~Session!Commits("cancel", FinalizeMessage)
    /\ Session!Commits("cancel", ConfirmationMessage) => Session!Pending("cancel")
    /\ Session!Commits("finalize", ConfirmationMessage) => ~Session!Pending("cancel")
  <1>1. /\ Session!ClassifyConfirmationReply(CancelMessage) = "unknown"
        /\ CancelMessage.intent = "cancel_report"
    BY DEF CancelMessage, Session!ClassifyConfirmationReply
  <1>2. /\ Session!ClassifyConfirmationReply(FinalizeMessage) = "unknown"
        /\ FinalizeMessage.intent = "finalize_report"
    BY DEF FinalizeMessage, Session!ClassifyConfirmationReply
  <1>3. ConfirmationMessage.intent = "finalize_report"
    BY DEF ConfirmationMessage
  <1>4. "cancel" \in Session!Kinds /\ "finalize" \in Session!Kinds
    BY DEF Session!Kinds
  <1>5. /\ Session!Commit["cancel"] = "cancel_report"
        /\ Session!Commit["finalize"] = "finalize_report"
    BY DEF Session!Commit
  <1>6. Session!Pending("finalize") => ~Session!Pending("cancel")
    BY DEF Session!Pending, Session!Awaiting
  <1>7. Session!NothingPending => ~Session!Pending("cancel")
    BY <1>4 DEF Session!NothingPending
  <1> QED BY <1>1, <1>2, <1>3, <1>5, <1>6, <1>7 DEF Session!Commits

\* Only a message changes what became of a session; a start or a restart forgets it.
LEMMA OnlyMessagesEnd ==
    ASSUME NEW k \in Session!Kinds, ~Session!Outcome(k),
           \/ StartFromText \/ RunPostApprovalPipeline \/ ProcessRestart \/ UNCHANGED vars
    PROVE  ~Session!Outcome(k)'
  <1>1. ~finalized \/ ~cancelled
    BY DEF Session!Outcome, Session!Kinds
  <1>2. CASE StartFromText \/ UNCHANGED vars
    <2>1. UNCHANGED <<finalized, cancelled>>
      BY <1>2 DEF StartFromText, DraftWritten, vars, reportVars, sessionVars
    <2> QED BY <2>1 DEF Session!Outcome
  <1>3. CASE RunPostApprovalPipeline
    <2>1. UNCHANGED <<finalized, cancelled>> \/ (~finalized' /\ ~cancelled')
      BY <1>3 DEF RunPostApprovalPipeline, Session!StartReportInteractionSession,
                  Session!BootstrapRaises, Session!ResetSession, Session!ReportsWritten,
                  Session!sessionVars
    <2> QED BY <2>1 DEF Session!Outcome
  <1>4. CASE ProcessRestart
    <2>1. UNCHANGED <<finalized, cancelled>> \/ (~finalized' /\ ~cancelled')
      BY <1>4 DEF ProcessRestart, CheckpointsKept, CheckpointsLost, sessionVars
    <2> QED BY <2>1 DEF Session!Outcome
  <1> QED BY <1>2, <1>3, <1>4

\* A message of a call that ends a session commits to that outcome.
LEMMA ExchangeCommits ==
    ASSUME ReviewInv, SessionInv, [Next]_vars, NEW k \in Session!Kinds,
           ~Session!Outcome(k), Session!Outcome(k)',
           NEW c, NEW messages \in SUBSET Messages, Exchange(c, messages)
    PROVE  \E m \in messages : Session!Commits(k, m)
  <1>1. PICK n \in Messages : latestMessage' = n /\ Session!Commits(k, n)
    BY OutcomesAreCommitted
  <1>2. ~UNCHANGED <<finalized, cancelled>>
    BY DEF Session!Outcome
  <1>3. PICK m \in messages : Delivered(calls[c].operation, m)
    BY <1>2 DEF Exchange, vars, reportVars, sessionVars
  <1>4. ContinueReportInteraction(m)
    BY <1>2, <1>3 DEF Delivered, ResumeTargetSelection, AskScopeRecommendation,
                      ResumeScopeConfirmation, ResumeReview, DraftWritten, reportVars,
                      sessionVars
  <1>5. Session!Turn(m)
    BY <1>2, <1>4 DEF ContinueReportInteraction, reportVars, sessionVars
  <1>6. latestMessage' = m
    BY <1>5 DEF Session!Turn, Session!ConfirmDestructiveAction,
                Session!ConfirmationDeclined, Session!AnswerQuestion,
                Session!ReviseReportText, Session!ShareReport, Session!PrepareRerun,
                Session!FinalizeSession, Session!CancelSession, Session!NodeRaises,
                Session!Receive
  <1> QED BY <1>1, <1>6

\* Whatever the other clients do, a report is cancelled or finalized by a text of a
\* client's own, by a call that asks for that outcome, or by a confirmation: of the
\* cancellation if that is the question that is open, of the final report if it is not.
THEOREM OutcomesAreAskedFor ==
    ServiceSpec =>
        [][\A k \in Session!Kinds : Session!Outcome(k)' /\ ~Session!Outcome(k) =>
               \E c \in Clients :
                  \/ SendMessage(c) /\ calls[c].operation \in {"continue", "rerun", k}
                  \/ AutoConfirm(c) /\ (k = "cancel" <=> Session!Pending("cancel"))
          ]_serviceVars
  <1> DEFINE Asked(k) ==
                 \E c \in Clients :
                    \/ SendMessage(c) /\ calls[c].operation \in {"continue", "rerun", k}
                    \/ AutoConfirm(c) /\ (k = "cancel" <=> Session!Pending("cancel"))
             OnlyAsked == \A k \in Session!Kinds :
                         Session!Outcome(k)' /\ ~Session!Outcome(k) => Asked(k)
  <1>1. SafetyInv /\ ServiceInv /\ SessionInv /\ [ServiceNext]_serviceVars
            => [OnlyAsked]_serviceVars
    <2> SUFFICES ASSUME SafetyInv, ServiceInv, SessionInv, ServiceNext,
                        NEW k \in Session!Kinds, Session!Outcome(k)', ~Session!Outcome(k)
                 PROVE  Asked(k)
      OBVIOUS
    <2>1. ReviewInv /\ [Next]_vars
      BY EveryServiceStep DEF SafetyInv
    <2>2. k \in {"cancel", "finalize"}
      BY DEF Session!Kinds
    <2>3. ASSUME NEW c \in Clients, SendMessage(c)
          PROVE  Asked(k)
      <3>1. /\ calls[c].operation \in ServiceOperations
            /\ Exchange(c, MessageOf[calls[c].operation])
        BY <2>3 DEF SendMessage, ServiceInv, CheckedIsKnown
      <3>2. MessageOf[calls[c].operation] \in SUBSET Messages
        BY <3>1, ServiceTexts
      <3>3. PICK m \in MessageOf[calls[c].operation] : Session!Commits(k, m)
        BY <2>1, <3>1, <3>2, ExchangeCommits
      <3>4. MessageOf["cancel"] = {CancelMessage} /\ MessageOf["finalize"] = {FinalizeMessage}
        BY DEF MessageOf
      <3>5. ~(calls[c].operation = "cancel" /\ k = "finalize")
            /\ ~(calls[c].operation = "finalize" /\ k = "cancel")
        BY <3>3, <3>4, TextsCommitTo
      <3>6. calls[c].operation \in {"continue", "cancel", "finalize", "rerun"}
        BY <3>1 DEF ServiceOperations, MessageOf
      <3>7. calls[c].operation \in {"continue", "rerun", k}
        BY <2>2, <3>5, <3>6
      <3> QED BY <2>3, <3>7
    <2>4. ASSUME NEW c \in Clients, AutoConfirm(c)
          PROVE  Asked(k)
      <3>1. Session!Commits(k, ConfirmationMessage)
        BY <2>1, <2>4, ServiceTexts, ExchangeCommits DEF AutoConfirm
      <3>2. k = "cancel" <=> Session!Pending("cancel")
        BY <2>2, <3>1, TextsCommitTo
      <3> QED BY <2>4, <3>2
    <2>5. ~StartFromText /\ ~RunPostApprovalPipeline /\ ~ProcessRestart /\ ~UNCHANGED vars
      BY OnlyMessagesEnd
    <2> QED BY <2>3, <2>4, <2>5 DEF ServiceNext, Step, StartWorkflow, CheckCall,
                                    ExecuteApproved, ServiceRestart
  <1> HIDE DEF OnlyAsked
  <1>2. ServiceSpec => [][OnlyAsked]_serviceVars
    BY <1>1, ServiceIsSafe, ServiceImplements, SessionHolds, PTL DEF ServiceSpec
  <1> QED BY <1>2 DEF OnlyAsked

\* Whatever the interleaving of the clients' calls, the callers see the lifecycle of one
\* workflow: runs only after an approval, and a row only of the last run.
THEOREM ServiceIsALifecycle == ServiceSpec => ImplementsLifecycle
  <1> QED BY ServiceImplements, Implements, PTL

\* cancel_workflow is let through in phase pending_scope_confirmation, but nothing that a
\* client does there cancels the workflow.
THEOREM ScopeIsNeverCancelled ==
    ServiceSpec => [][snapshot.phase = "pending_scope_confirmation"
                          => snapshot'.phase # "cancelled"]_serviceVars
  <1> DEFINE Stays == snapshot.phase = "pending_scope_confirmation"
                          => snapshot'.phase # "cancelled"
  <1>1. SafetyInv /\ ServiceInv /\ [ServiceNext]_serviceVars => [Stays]_serviceVars
    <2> SUFFICES ASSUME SafetyInv, ServiceInv, [ServiceNext]_serviceVars PROVE Stays
      OBVIOUS
    <2>1. [Lifecycle!Next]_LifecycleVars
      BY EveryServiceStep, EveryStep DEF SafetyInv
    <2> QED BY <2>1 DEF LifecycleVars, Lifecycle!Next, Lifecycle!Start, Lifecycle!Reply,
                        Lifecycle!AfterReply,
                               Lifecycle!Drawn, Lifecycle!Undrawn, Lifecycle!Run, Lifecycle!Finalize,
                        Lifecycle!Stop
  <1> HIDE DEF Stays
  <1>2. ServiceSpec => [][Stays]_serviceVars
    BY <1>1, ServiceIsSafe, PTL DEF ServiceSpec
  <1> QED BY <1>2 DEF Stays
=============================================================================
