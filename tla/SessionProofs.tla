---------------------------- MODULE SessionProofs ----------------------------
(***************************************************************************)
(* Proofs about Session, for every set of identifiers, variables, values   *)
(* and environment templates, with and without a helper or a parent token; *)
(* last, that Session implements SessionApi.                               *)
(***************************************************************************)
EXTENDS Session, WellFoundedInduction, TLAPS

USE DEF flags, envs, status, canc, run

-----------------------------------------------------------------------------
(* What the steps of the future and of a cancel handle leave alone.          *)

\* The action's future touches its own state, the channel and the history.
LEMMA FutureFrame ==
  Future => /\ pc = "driving"
            /\ UNCHANGED <<state, flags, envs, status, canc, helper, pc, op, actionEnv,
                           pipeCancel, accepted>>
<1>1. ASSUME NEW m \in ActionMessage, Emit(m)
      PROVE  /\ pc = "driving"
             /\ UNCHANGED <<state, flags, envs, status, canc, helper, pc, op, actionEnv,
                            pipeCancel, accepted>>
  BY <1>1 DEF Emit, FutureStep
<1> QED
  BY Zenon, <1>1 DEF Future, Launch, FutureError, ObserveCancel, TimeoutExpires, Complete, FutureStep

\* A handle touches the cancel state and the helper's pipe.
LEMMA HandleFrame == Handle => HandleStep
BY DEF Handle, HandleCancel, HandleSend, HandleReturn

\* Every way an action ends leaves the cancel state and the future fresh, and
\* the history as it was.
LEMMA EndFrame ==
  SetupFails \/ DriveError \/ Settle =>
    /\ cancel' = NoCancel /\ fut' = NoFuture /\ pc' = "idle"
    /\ UNCHANGED <<flags, parentCancelled, handle, msgs, accepted>>
BY DEF SetupFails, DriveError, Settle, FailAction, EndAction

\* What applying a message can do to the cancel state.
LEMMA ApplyFrame ==
  ApplyMessage =>
    /\ \/ UNCHANGED <<state, cancel, pipeCancel, accepted>>
       \/ handle = "idle" /\ state = "Running" /\ CancelMarkFailed
    /\ UNCHANGED <<flags, environments, environmentsEntered, wrapEnvFileRecords, actionState,
                   parentCancelled, handle, helper, pc, op, actionEnv, fut>>
BY Zenon DEF ApplyMessage, CancelMarkFailed

-----------------------------------------------------------------------------
(* Type correctness, one group of variables at a time.                       *)

\* Recording one change keeps the table of changes well typed.
LEMMA RecordTypes ==
  ASSUME NEW f \in [EnvId -> [VarName -> Change]],
         NEW i \in EnvId, NEW name \in VarName, NEW change \in Change
  PROVE  [f EXCEPT ![i][name] = change] \in [EnvId -> [VarName -> Change]]
<1>1. [f[i] EXCEPT ![name] = change] \in [VarName -> Change]
  OBVIOUS
<1> QED
  BY <1>1

\* The environment stack and its tables keep their types.
LEMMA EnvTypes == TypeOK /\ [Next]_vars => EnvTypeOK'
<1> SUFFICES ASSUME TypeOK, [Next]_vars PROVE EnvTypeOK'
  OBVIOUS
<1> USE ConstantsAssumption DEF ConstantsAssumption, TypeOK, EnvTypeOK
<1>1. ASSUME NEW id \in EnvId, NEW env \in Environment, EnterEnvironment(id, env)
      PROVE  EnvTypeOK'
  BY <1>1 DEF EnterEnvironment, Push, Change
<1>2. ASSUME NEW id \in EnvId, NEW env \in Environment, NEW done \in SUBSET VarName,
             EnterVariablesFail(id, env, done)
      PROVE  EnvTypeOK'
  BY <1>2 DEF EnterVariablesFail, Push, Change
<1>3. ASSUME NEW id \in EnvId, NEW keep \in BOOLEAN, ExitEnvironment(id, keep)
      PROVE  EnvTypeOK'
  BY <1>3 DEF ExitEnvironment
<1>4. CASE SetupFails \/ SetupDone
  BY SMTT(30), <1>4 DEF SetupFails, SetupDone, AllocatedFiles, WrappingEnvs, WrapEnvs, Range
<1>5. CASE ApplyMessage
  <2> DEFINE m == Head(msgs)
  <2>1. m \in ActionMessage
    BY <1>5 DEF ApplyMessage, FutureTypeOK
  <2>2. /\ m.kind \in {"setEnv", "redactedEnv"} => m.name \in VarName /\ m.value \in Change
        /\ m.kind = "unsetEnv" => m.name \in VarName
    BY <2>1 DEF ActionMessage, Change
  <2>3. \/ UNCHANGED createdEnvVars
        \/ \E name \in VarName, change \in Change : RecordChange(name, change)
    <3>1. Unset \in Change
      BY DEF Change
    <3> QED
      BY <1>5, <2>2, <3>1, Zenon DEF ApplyMessage
  <2>4. ASSUME NEW name \in VarName, NEW change \in Change, RecordChange(name, change)
        PROVE  createdEnvVars' \in [EnvId -> [VarName -> Change]]
    <3>1. CASE op.id \in EnvId
      <4>1. createdEnvVars' = [createdEnvVars EXCEPT ![op.id][name] = change]
        BY <2>4, <3>1, Zenon DEF RecordChange
      <4>2. createdEnvVars \in [EnvId -> [VarName -> Change]]
        BY DEF EnvTypeOK
      <4> HIDE DEF TypeOK, EnvTypeOK
      <4> QED
        BY <3>1, <4>1, <4>2, RecordTypes, Zenon
    <3>2. CASE op.id \notin EnvId
      BY <2>4, <3>2 DEF RecordChange
    <3> QED
      BY <3>1, <3>2
  <2>5. createdEnvVars' \in [EnvId -> [VarName -> Change]]
    BY <2>3, <2>4
  <2> QED
    BY <1>5, <2>5 DEF ApplyMessage
<1>6. CASE \/ RunTask \/ RunSubprocess \/ Cleanup \/ SetAction \/ DriveError \/ Decide
           \/ Settle \/ Future \/ Handle \/ ParentCancel \/ UNCHANGED vars
  BY Zenon, <1>6, FutureFrame, HandleFrame DEF
     RunTask, RunSubprocess, Cleanup, SetAction, DriveError, Decide, Settle,
     HandleStep, ParentCancel, vars
<1> QED
  BY Zenon, <1>1, <1>2, <1>3, <1>4, <1>5, <1>6 DEF Next, Call, Drive

\* The owner's control state, the session state and the status keep their types.
LEMMA OwnerTypes == TypeOK /\ [Next]_vars => OwnerTypeOK'
<1> SUFFICES ASSUME TypeOK, [Next]_vars PROVE OwnerTypeOK'
  OBVIOUS
<1> USE DEF TypeOK, OwnerTypeOK, SessionState, ActionState, Terminal, Operation, NoOp
<1>1. ASSUME NEW id \in EnvId, NEW env \in Environment, EnterEnvironment(id, env)
      PROVE  OwnerTypeOK'
  BY <1>1 DEF EnterEnvironment, BeginAction, FinishWithoutAction
<1>2. ASSUME NEW id \in EnvId, NEW keep \in BOOLEAN, ExitEnvironment(id, keep)
      PROVE  OwnerTypeOK'
  BY SMTT(30), <1>2 DEF ExitEnvironment, BeginAction, FinishWithoutAction
<1>3. CASE RunTask \/ RunSubprocess
  BY <1>3 DEF RunTask, RunSubprocess, BeginAction
<1>4. CASE Cleanup \/ SetAction \/ SetupDone
  BY SMTT(30), <1>4 DEF Cleanup, SetAction, SetupDone
<1>5. CASE SetupFails \/ DriveError
  BY <1>5 DEF SetupFails, DriveError, FailAction, EndAction
<1>6. CASE ApplyMessage
  BY <1>6 DEF ApplyMessage, CancelMarkFailed
<1>7. CASE Decide
  BY <1>7 DEF Decide, FinalState, FutureOver, FutureTypeOK, ActionFuture
<1>8. CASE Settle
  BY <1>8 DEF Settle, EndAction
<1>9. CASE Future
  BY <1>9, FutureFrame
<1>11. CASE Handle \/ ParentCancel \/ UNCHANGED vars
  BY SMTT(30), <1>11, HandleFrame DEF HandleStep, ParentCancel, vars
<1>10. ASSUME NEW id \in EnvId, NEW env \in Environment, NEW done \in SUBSET VarName,
              EnterVariablesFail(id, env, done)
       PROVE  OwnerTypeOK'
  BY <1>10 DEF EnterVariablesFail
<1> HIDE DEF TypeOK, OwnerTypeOK, SessionState, ActionState, Terminal, Operation, NoOp
<1> QED
  BY Zenon, <1>1, <1>2, <1>3, <1>4, <1>5, <1>6, <1>7, <1>8, <1>9, <1>10, <1>11 DEF Next, Call, Drive

\* The BOOLEAN fields.
LEMMA FlagTypes == TypeOK /\ [Next]_vars => FlagTypeOK'
<1> SUFFICES ASSUME TypeOK, [Next]_vars PROVE FlagTypeOK'
  OBVIOUS
<1> USE DEF TypeOK, FlagTypeOK
<1>1. CASE Call
  BY ZenonT(60), <1>1 DEF Call, EnterEnvironment, EnterVariablesFail, ExitEnvironment, RunTask,
     RunSubprocess, Cleanup, BeginAction, FinishWithoutAction
<1>2. CASE Drive
  BY Zenon, <1>2 DEF Drive, SetAction, SetupDone, SetupFails, ApplyMessage, CancelMarkFailed,
     DriveError, Decide, Settle, FailAction, EndAction
<1>3. CASE Future
  BY <1>3, FutureFrame
<1>4. CASE Handle \/ ParentCancel \/ UNCHANGED vars
  BY Zenon, <1>4 DEF Handle, HandleCancel, HandleSend, HandleReturn, HandleStep, ParentCancel, vars
<1> HIDE DEF TypeOK, FlagTypeOK
<1> QED
  BY Zenon, <1>1, <1>2, <1>3, <1>4 DEF Next

\* The state shared with a cancel handle.
LEMMA CancelTypes == TypeOK /\ [Next]_vars => CancelTypeOK'
<1> SUFFICES ASSUME TypeOK, [Next]_vars PROVE CancelTypeOK'
  OBVIOUS
<1> USE DEF TypeOK, CancelTypeOK
<1>1. CASE Call
  BY Zenon, <1>1 DEF Call, EnterEnvironment, EnterVariablesFail, ExitEnvironment, RunTask,
     RunSubprocess, Cleanup, BeginAction, FinishWithoutAction
<1>2. CASE SetAction \/ SetupDone \/ Decide
  BY Zenon, <1>2 DEF SetAction, SetupDone, Decide, CancelShared
<1>3. CASE SetupFails \/ DriveError \/ Settle
  <2>1. NoCancel \in CancelShared
    BY DEF NoCancel, CancelShared
  <2> QED
    BY <1>3, <2>1, EndFrame
<1>4. CASE ApplyMessage
  <2>1. [token |-> "cancelled", request |-> TRUE, markFailed |-> TRUE] \in CancelShared
    BY DEF CancelShared
  <2>2. cancel' \in CancelShared
    BY <1>4, <2>1, ApplyFrame, Zenon DEF CancelMarkFailed
  <2>3. handle' = handle /\ accepted' \in {accepted, "mark"}
    BY <1>4, ApplyFrame DEF CancelMarkFailed
  <2> QED
    BY <2>2, <2>3
<1>5. CASE Future
  BY <1>5, FutureFrame
<1>6. CASE Handle
  BY Zenon, <1>6 DEF Handle, HandleCancel, HandleSend, HandleReturn, HandleStep, CancelShared
<1>7. CASE ParentCancel \/ UNCHANGED vars
  BY <1>7 DEF ParentCancel, vars, CancelShared
<1> HIDE DEF TypeOK, CancelTypeOK
<1> QED
  BY Zenon, <1>1, <1>2, <1>3, <1>4, <1>5, <1>6, <1>7 DEF Next, Drive

\* The future and the channel.
LEMMA FutureTypes == TypeOK /\ [Next]_vars => FutureTypeOK'
<1> SUFFICES ASSUME TypeOK, [Next]_vars PROVE FutureTypeOK'
  OBVIOUS
<1> USE DEF TypeOK, FutureTypeOK
<1>1. CASE Call
  BY Zenon, <1>1 DEF Call, EnterEnvironment, EnterVariablesFail, ExitEnvironment, RunTask,
     RunSubprocess, Cleanup, BeginAction, FinishWithoutAction
<1>2. CASE ApplyMessage
  BY <1>2 DEF ApplyMessage
<1>3. CASE SetAction \/ SetupDone \/ Decide
  BY Zenon, <1>3 DEF SetAction, SetupDone, Decide, NoFuture, ActionFuture
<1>4. CASE SetupFails \/ DriveError \/ Settle
  <2>1. NoFuture \in ActionFuture
    BY DEF NoFuture, ActionFuture
  <2> QED
    BY <1>4, <2>1, EndFrame
<1>5. ASSUME NEW m \in ActionMessage, Emit(m)
      PROVE  FutureTypeOK'
  <2>1. msgs' \in Seq(ActionMessage)
    BY <1>5 DEF Emit
  <2>2. (fut.sawFail \/ m.kind = "fail") \in BOOLEAN
    OBVIOUS
  <2>3. fut' = [fut EXCEPT !.sawFail = fut.sawFail \/ m.kind = "fail"]
    BY <1>5 DEF Emit, FutureStep
  <2> QED
    BY Zenon, <2>1, <2>2, <2>3 DEF ActionFuture
<1>6. CASE Launch \/ FutureError \/ ObserveCancel \/ TimeoutExpires
  BY Zenon, <1>6 DEF Launch, FutureError, ObserveCancel, TimeoutExpires, FutureStep, ActionFuture
<1>7. ASSUME NEW z \in BOOLEAN, Complete(z)
      PROVE  FutureTypeOK'
  <2>1. Classify(z) \in Terminal
    BY DEF Classify, ExitState, Terminal
  <2> QED
    BY Zenon, <1>7, <2>1 DEF Complete, FutureStep, ActionFuture
<1>8. CASE Handle \/ ParentCancel \/ UNCHANGED vars
  BY <1>8, HandleFrame DEF HandleStep, ParentCancel, vars
<1> HIDE DEF TypeOK, FutureTypeOK
<1> QED
  BY Zenon, <1>1, <1>2, <1>3, <1>4, <1>5, <1>6, <1>7, <1>8 DEF Next, Drive, Future

\* The initial state is well typed.
LEMMA InitTypes == Init => TypeOK
<1> SUFFICES ASSUME Init PROVE TypeOK
  OBVIOUS
<1>1. EnvTypeOK
  BY DEF Init, EnvTypeOK, NoVars, Change
<1>2. OwnerTypeOK
  BY ConstantsAssumption DEF ConstantsAssumption, Init,
     OwnerTypeOK, SessionState, ActionState, Operation, NoOp
<1>3. FlagTypeOK
  BY Zenon DEF Init, FlagTypeOK
<1>4. CancelTypeOK
  BY DEF Init, CancelTypeOK, NoCancel, CancelShared
<1>5. FutureTypeOK
  BY DEF Init, FutureTypeOK, NoFuture, ActionFuture
<1> QED
  BY <1>1, <1>2, <1>3, <1>4, <1>5 DEF TypeOK

\* Every field of the session keeps its type in every reachable state.
THEOREM TypeCorrect == Spec => []TypeOK
<1>1. TypeOK /\ [Next]_vars => TypeOK'
  BY EnvTypes, OwnerTypes, FlagTypes, CancelTypes, FutureTypes DEF TypeOK
<1> QED
  BY InitTypes, <1>1, PTL DEF Spec

-----------------------------------------------------------------------------
(* Safety.  The invariants are inductive together, with ControlInv.          *)

SafetyInv ==
  /\ TypeOK /\ ControlInv /\ NeverWedged /\ CancelStateFresh /\ EndingOnlyIsFinal
  /\ HelperComesBack /\ AcceptedCancelIsHonoured

\* An operation starts in an idle, running session: nothing is registered.
LEMMA CallFrame ==
  ASSUME SafetyInv, Call
  PROVE  /\ pc = "idle" /\ ~cleanupCalled
         /\ UNCHANGED <<canc, fut, pipeCancel, msgs>>
<1> USE DEF SafetyInv, ControlInv, FutureInv
<1>1. CASE RunTask \/ RunSubprocess \/ Cleanup
  BY <1>1 DEF RunTask, RunSubprocess, BeginAction, Cleanup
<1>2. ASSUME NEW id \in EnvId, NEW keep \in BOOLEAN, ExitEnvironment(id, keep)
      PROVE  /\ pc = "idle" /\ ~cleanupCalled
             /\ UNCHANGED <<canc, fut, pipeCancel, msgs>>
  BY <1>2 DEF ExitEnvironment, BeginAction, FinishWithoutAction
<1>3. ASSUME NEW id \in EnvId, NEW env \in Environment,
             EnterEnvironment(id, env) \/ \E done \in SUBSET VarName : EnterVariablesFail(id, env, done)
      PROVE  /\ pc = "idle" /\ ~cleanupCalled
             /\ UNCHANGED <<canc, fut, pipeCancel, msgs>>
  BY Zenon, <1>3 DEF EnterEnvironment, EnterVariablesFail, Enterable, BeginAction, FinishWithoutAction
<1> HIDE DEF SafetyInv, ControlInv, FutureInv
<1> QED
  BY Zenon, <1>1, <1>2, <1>3 DEF Call

\* A step of the future either keeps it going or ends it: in Err, or as
\* Classify says.
LEMMA FutureResult ==
  ASSUME TypeOK, Future
  PROVE  /\ fut.phase # "done"
         /\ \/ fut'.phase \notin {"none", "done"}
            \/ fut'.phase = "done" /\ fut'.res = "Err"
            \/ fut'.phase = "done" /\ \E z \in BOOLEAN : fut'.res = Classify(z)
         /\ fut'.phase = "done" => fut'.res \in Terminal \cup {"Err"}
<1> DEFINE Goal == /\ fut.phase # "done"
                   /\ \/ fut'.phase \notin {"none", "done"}
                      \/ fut'.phase = "done" /\ fut'.res = "Err"
                      \/ fut'.phase = "done" /\ \E z \in BOOLEAN : fut'.res = Classify(z)
                   /\ fut'.phase = "done" => fut'.res \in Terminal \cup {"Err"}
<1>1. fut \in ActionFuture
  BY DEF TypeOK, FutureTypeOK
<1>2. CASE Launch \/ FutureError \/ ObserveCancel \/ TimeoutExpires
  BY Zenon, <1>1, <1>2 DEF Launch, FutureError, ObserveCancel, TimeoutExpires, FutureStep, Alive,
     ActionFuture
<1>3. ASSUME NEW m \in ActionMessage, Emit(m)
      PROVE  Goal
  <2>1. fut'.phase = fut.phase /\ fut.phase \in {"running", "stopping"}
    BY <1>1, <1>3 DEF Emit, FutureStep, Alive, ActionFuture
  <2> QED
    BY <2>1
<1>4. ASSUME NEW z \in BOOLEAN, Complete(z)
      PROVE  Goal
  <2>1. Classify(z) \in Terminal
    BY DEF Classify, ExitState, Terminal
  <2>2. /\ fut'.phase = "done" /\ fut'.res = Classify(z)
        /\ fut.phase \in {"running", "stopping"}
    BY <1>1, <1>4 DEF Complete, FutureStep, Alive, ActionFuture
  <2> QED
    BY <2>1, <2>2
<1> QED
  BY <1>2, <1>3, <1>4 DEF Future

\* What a call makes of the session: an action begins, it is over at once,
\* static variables fail, or the session is cleaned up.
CallBegins ==
  /\ pc' = "starting" /\ state' = "Running" /\ actionState' = "Running"
  /\ accepted' = "none" /\ UNCHANGED <<cleanupCalled, helper>>
  /\ op'.kind = "exit" \/ (state = "Ready" /\ UNCHANGED endingOnly)

CallIsOver ==
  /\ pc' = "idle" /\ actionState' = "Success" /\ accepted' = "none"
  /\ UNCHANGED <<cleanupCalled, helper>>
  /\ \/ state' \in {"Ready", "ReadyEnding"} /\ (endingOnly' => state' = "ReadyEnding")
     \/ state = "Ready" /\ UNCHANGED <<state, endingOnly>>

CallFails ==
  /\ pc' = "idle" /\ state = "Ready"
  /\ UNCHANGED <<state, flags, actionState, accepted, helper>>

CallCleansUp ==
  /\ pc' = "idle" /\ state' = "Ended" /\ cleanupCalled'
  /\ UNCHANGED <<endingOnly, actionState, accepted>>
  /\ UNCHANGED helper \/ (helper = "session" /\ helper' = "down")

\* Every call begins an action, ends at once or cleans up.
LEMMA CallOutcome ==
  ASSUME Call
  PROVE  CallBegins \/ CallIsOver \/ CallFails \/ CallCleansUp
<1>1. CASE RunTask \/ RunSubprocess
  BY <1>1 DEF RunTask, RunSubprocess, BeginAction, CallBegins
<1>2. CASE Cleanup
  BY <1>2 DEF Cleanup, CallCleansUp
<1>3. ASSUME NEW id \in EnvId, NEW keep \in BOOLEAN, ExitEnvironment(id, keep)
      PROVE  CallBegins \/ CallIsOver
  BY SMTT(30), <1>3 DEF ExitEnvironment, BeginAction, FinishWithoutAction, CallBegins, CallIsOver
<1>4. ASSUME NEW id \in EnvId, NEW env \in Environment, EnterEnvironment(id, env)
      PROVE  CallBegins \/ CallIsOver
  BY <1>4 DEF EnterEnvironment, Enterable, BeginAction, FinishWithoutAction, CallBegins, CallIsOver
<1>5. ASSUME NEW id \in EnvId, NEW env \in Environment, NEW done \in SUBSET VarName,
             EnterVariablesFail(id, env, done)
      PROVE  CallFails
  BY <1>5 DEF EnterVariablesFail, Enterable, CallFails
<1> QED
  BY Zenon, <1>1, <1>2, <1>3, <1>4, <1>5 DEF Call

\* NeverWedged is preserved.
LEMMA NeverWedgedStep == SafetyInv /\ [Next]_vars => NeverWedged'
<1> SUFFICES ASSUME SafetyInv, [Next]_vars PROVE NeverWedged'
  OBVIOUS
<1> USE DEF SafetyInv, NeverWedged
<1>1. CASE Call
  BY <1>1, CallFrame, CallOutcome DEF CallBegins, CallIsOver, CallFails, CallCleansUp
<1>2. CASE SetAction \/ SetupDone
  BY <1>2 DEF SetAction, SetupDone
<1>3. CASE SetupFails \/ DriveError
  BY <1>3 DEF SetupFails, DriveError, FailAction, EndAction
<1>4. CASE ApplyMessage
  BY <1>4, ApplyFrame DEF CancelMarkFailed
<1>5. CASE Decide
  BY <1>5 DEF Decide, FutureOver
<1>6. CASE Settle
  BY <1>6 DEF Settle, EndAction, ControlInv, FutureInv, Terminal
<1>7. CASE Future
  BY <1>7, FutureFrame
<1>8. CASE Handle \/ ParentCancel \/ UNCHANGED vars
  BY <1>8, HandleFrame DEF HandleStep, ParentCancel, vars
<1> HIDE DEF SafetyInv, NeverWedged
<1> QED
  BY Zenon, <1>1, <1>2, <1>3, <1>4, <1>5, <1>6, <1>7, <1>8 DEF Next, Drive

\* CancelStateFresh is preserved.
LEMMA CancelStateFreshStep == SafetyInv /\ [Next]_vars => CancelStateFresh'
<1> SUFFICES ASSUME SafetyInv, [Next]_vars PROVE CancelStateFresh'
  OBVIOUS
<1> USE DEF SafetyInv, CancelStateFresh
<1>1. CASE Call
  BY <1>1, CallFrame
<1>2. CASE SetAction \/ SetupDone \/ Decide
  BY <1>2 DEF SetAction, SetupDone, Decide
<1>3. CASE SetupFails \/ DriveError \/ Settle
  <2>1. handle = "idle" /\ msgs = <<>>
    BY <1>3 DEF SetupFails, DriveError, Settle, FutureOver, ControlInv, FutureInv
  <2> QED
    BY <1>3, <2>1, EndFrame
<1>4. CASE ApplyMessage
  <2>1. pc = "driving" /\ pc' = pc
    BY <1>4, ApplyFrame DEF ApplyMessage
  <2> QED
    BY <2>1
<1>5. CASE Future
  BY <1>5, FutureFrame
<1>6. CASE Handle
  <2>1. cancel.token # "none"
    BY <1>6 DEF Handle, HandleCancel, HandleSend, HandleReturn, ControlInv, DeliveryInv
  <2>2. pc \notin {"idle", "starting"}
    BY <2>1 DEF NoCancel
  <2> QED
    BY <1>6, <2>2, HandleFrame DEF HandleStep
<1>7. CASE ParentCancel
  <2>1. cancel = NoCancel => cancel' = cancel
    BY <1>7 DEF ParentCancel, NoCancel
  <2> QED
    BY <1>7, <2>1 DEF ParentCancel
<1>8. CASE UNCHANGED vars
  BY <1>8 DEF vars
<1> HIDE DEF SafetyInv, CancelStateFresh
<1> QED
  BY Zenon, <1>1, <1>2, <1>3, <1>4, <1>5, <1>6, <1>7, <1>8 DEF Next, Drive

\* EndingOnlyIsFinal is preserved.
LEMMA EndingOnlyStep == SafetyInv /\ [Next]_vars => EndingOnlyIsFinal'
<1> SUFFICES ASSUME SafetyInv, [Next]_vars PROVE EndingOnlyIsFinal'
  OBVIOUS
<1> USE DEF SafetyInv, EndingOnlyIsFinal
<1>1. CASE Call
  BY Zenon, <1>1, CallFrame, CallOutcome DEF CallBegins, CallIsOver, CallFails, CallCleansUp
<1>2. CASE SetAction \/ SetupDone \/ Decide
  BY Zenon, <1>2 DEF SetAction, SetupDone, Decide, FutureOver
<1>3. CASE SetupFails \/ DriveError
  BY Zenon, <1>3 DEF SetupFails, DriveError, FailAction, EndAction
<1>4. CASE ApplyMessage
  <2>1. pc = "driving"
    BY <1>4 DEF ApplyMessage
  <2> QED
    BY Zenon, <1>4, <2>1, ApplyFrame DEF CancelMarkFailed
<1>5. CASE Settle
  BY <1>5 DEF Settle, EndAction
<1>6. CASE Future
  BY Zenon, <1>6, FutureFrame
<1>7. CASE Handle \/ ParentCancel \/ UNCHANGED vars
  BY Zenon, <1>7, HandleFrame DEF HandleStep, ParentCancel, vars
<1> HIDE DEF SafetyInv, EndingOnlyIsFinal
<1> QED
  BY Zenon, <1>1, <1>2, <1>3, <1>4, <1>5, <1>6, <1>7 DEF Next, Drive

\* HelperComesBack is preserved.
LEMMA HelperStep == SafetyInv /\ [Next]_vars => HelperComesBack'
<1> SUFFICES ASSUME SafetyInv, [Next]_vars PROVE HelperComesBack'
  OBVIOUS
<1> USE DEF SafetyInv, HelperComesBack
<1>1. CASE Call
  BY <1>1, CallFrame, CallOutcome DEF CallBegins, CallIsOver, CallFails, CallCleansUp
<1>2. CASE SetAction \/ SetupDone \/ Decide
  BY <1>2 DEF SetAction, SetupDone, Decide, FutureOver
<1>3. CASE SetupFails \/ DriveError \/ Settle
  BY <1>3 DEF SetupFails, DriveError, Settle, FutureOver, FailAction, EndAction
<1>4. CASE ApplyMessage
  BY <1>4, ApplyFrame
<1>5. CASE Future
  BY <1>5, FutureFrame
<1>6. CASE Handle \/ ParentCancel \/ UNCHANGED vars
  BY <1>6, HandleFrame DEF HandleStep, ParentCancel, vars
<1> HIDE DEF SafetyInv, HelperComesBack
<1> QED
  BY Zenon, <1>1, <1>2, <1>3, <1>4, <1>5, <1>6 DEF Next, Drive

\* AcceptedCancelIsHonoured is preserved.
LEMMA AcceptedStep == SafetyInv /\ [Next]_vars => AcceptedCancelIsHonoured'
<1> SUFFICES ASSUME SafetyInv, [Next]_vars PROVE AcceptedCancelIsHonoured'
  OBVIOUS
<1> USE DEF SafetyInv, AcceptedCancelIsHonoured
<1>1. CASE Call
  BY <1>1, CallFrame, CallOutcome DEF CallBegins, CallIsOver, CallFails, CallCleansUp
<1>2. CASE SetAction \/ SetupDone
  BY <1>2 DEF SetAction, SetupDone
<1>3. CASE SetupFails \/ DriveError
  BY <1>3 DEF SetupFails, DriveError, FailAction, EndAction
<1>4. CASE ApplyMessage
  <2>1. pc' = "driving"
    BY <1>4, ApplyFrame DEF ApplyMessage
  <2> QED
    BY <2>1
<1>5. CASE Decide
  BY <1>5 DEF Decide, FutureOver, FinalState, ControlInv, DeliveryInv, TypeOK, CancelTypeOK
<1>6. CASE Settle
  BY <1>6, EndFrame DEF Settle
<1>7. CASE Future
  BY <1>7, FutureFrame
<1>8. CASE Handle
  <2>1. pc' = pc /\ actionState' = actionState
    BY <1>8, HandleFrame DEF HandleStep
  <2>2. pc # "idle"
    <3>1. cancel.token # "none"
      BY <1>8 DEF Handle, HandleCancel, HandleSend, HandleReturn, ControlInv, DeliveryInv
    <3> QED
      BY <3>1 DEF CancelStateFresh, NoCancel
  <2>3. pc = "settling" => accepted' = accepted
    BY <1>8 DEF Handle, HandleCancel, HandleSend, HandleReturn, ControlInv, FutureInv
  <2> QED
    BY <2>1, <2>2, <2>3
<1>9. CASE ParentCancel \/ UNCHANGED vars
  BY <1>9 DEF ParentCancel, vars
<1> HIDE DEF SafetyInv, AcceptedCancelIsHonoured
<1> QED
  BY Zenon, <1>1, <1>2, <1>3, <1>4, <1>5, <1>6, <1>7, <1>8, <1>9 DEF Next, Drive

\* FutureInv is preserved.
LEMMA FutureInvStep == SafetyInv /\ [Next]_vars => FutureInv'
<1> SUFFICES ASSUME SafetyInv, [Next]_vars PROVE FutureInv'
  OBVIOUS
<1> USE DEF SafetyInv, ControlInv, FutureInv
<1>1. CASE Call
  <2>1. fut' = fut /\ ~cleanupCalled
    BY <1>1, CallFrame
  <2>2. pc' \in {"idle", "starting"} /\ (cleanupCalled' <=> state' = "Ended")
    <3> HIDE DEF SafetyInv, ControlInv, FutureInv
    <3> QED
      BY <1>1, <2>1, CallOutcome DEF CallBegins, CallIsOver, CallFails, CallCleansUp
  <2> QED
    BY <2>1, <2>2
<1>2. CASE SetAction
  BY <1>2 DEF SetAction, CancelStateFresh
<1>3. CASE SetupDone
  BY <1>3 DEF SetupDone, NoFuture
<1>4. CASE SetupFails \/ DriveError \/ Settle
  <2>1. pc # "idle"
    BY <1>4 DEF SetupFails, DriveError, FutureOver, Settle
  <2>2. ~cleanupCalled
    BY <2>1 DEF NeverWedged
  <2>3. state' # "Ended"
    BY <1>4 DEF SetupFails, DriveError, Settle, FailAction, EndAction
  <2>4. fut'.phase # "done"
    BY SMTT(30), <1>4, EndFrame DEF NoFuture
  <2> QED
    BY SMTT(30), <1>4, <2>2, <2>3, <2>4, EndFrame
<1>5. CASE ApplyMessage
  <2>1. pc = "driving" /\ pc' = pc /\ fut' = fut /\ cleanupCalled' = cleanupCalled
    BY <1>5, ApplyFrame DEF ApplyMessage
  <2>2. state' = state \/ (state = "Running" /\ state' = "Canceling")
    BY <1>5, ApplyFrame DEF CancelMarkFailed
  <2> QED
    BY <2>1, <2>2
<1>6. CASE Decide
  BY <1>6 DEF Decide, FutureOver, FinalState, Terminal
<1>7. CASE Future
  <2>1. fut'.phase # "none" /\ (fut'.phase = "done" => fut'.res \in Terminal \cup {"Err"})
    BY <1>7, FutureResult
  <2> QED
    BY SMTT(30), <1>7, <2>1, FutureFrame
<1>8. CASE Handle \/ ParentCancel \/ UNCHANGED vars
  <2>1. UNCHANGED <<cleanupCalled, state, pc, fut, msgs, actionState>>
    <3> HIDE DEF SafetyInv, ControlInv, FutureInv
    <3> QED
      BY <1>8, HandleFrame DEF HandleStep, ParentCancel, vars
  <2> QED
    BY <2>1
<1> HIDE DEF SafetyInv, ControlInv, FutureInv
<1> QED
  BY Zenon, <1>1, <1>2, <1>3, <1>4, <1>5, <1>6, <1>7, <1>8 DEF Next, Drive

\* DeliveryInv is preserved: nothing but the end of the action takes a
\* delivered cancel back, and a future that ends after it does not succeed.
LEMMA DeliveryInvStep == SafetyInv /\ [Next]_vars => DeliveryInv'
<1> SUFFICES ASSUME SafetyInv, [Next]_vars PROVE DeliveryInv'
  OBVIOUS
<1> USE DEF SafetyInv, ControlInv, DeliveryInv
<1>0. cancel \in CancelShared /\ accepted \in {"none", "cancel", "mark"} /\ fut \in ActionFuture
  BY DEF TypeOK, CancelTypeOK, FutureTypeOK
<1>1. CASE Call
  <2>1. /\ cancel' = cancel /\ handle' = handle /\ handle = "idle"
        /\ pc' = "idle" \/ (pc' = "starting" /\ accepted' = "none")
    BY <1>1, CallFrame, CallOutcome
       DEF CallBegins, CallIsOver, CallFails, CallCleansUp, CancelStateFresh
  <2> QED
    BY <2>1
<1>2. CASE SetAction
  <2>1. /\ cancel'.token # "none" /\ handle' = "idle" /\ accepted' = "none" /\ pc' = "setup"
    BY <1>0, <1>2 DEF SetAction, CancelShared
  <2> QED
    BY <2>1
<1>3. CASE SetupDone
  <2>1. fut'.phase # "done"
    BY <1>3 DEF SetupDone, NoFuture
  <2> QED
    BY <1>3, <2>1 DEF SetupDone
<1>4. CASE SetupFails \/ DriveError \/ Settle
  <2>1. handle = "idle"
    BY <1>4 DEF SetupFails, DriveError, FutureOver, Settle
  <2> QED
    BY <1>4, <2>1, EndFrame
<1>5. CASE ApplyMessage
  <2>1. pc = "driving" /\ pc' = pc /\ fut' = fut /\ handle' = handle
    BY <1>5, ApplyFrame DEF ApplyMessage
  <2>2. CASE UNCHANGED <<state, cancel, pipeCancel, accepted>>
    BY <2>1, <2>2
  <2>3. CASE handle = "idle" /\ state = "Running" /\ CancelMarkFailed
    <3>1. cancel'.token = "cancelled" /\ cancel'.request = TRUE /\ cancel'.markFailed = TRUE
      <4> HIDE DEF SafetyInv, ControlInv, DeliveryInv
      <4> QED
        BY <2>3 DEF CancelMarkFailed
    <3>2. fut.phase = "done" => accepted' = accepted
      <4> HIDE DEF SafetyInv, ControlInv, DeliveryInv
      <4> QED
        BY <2>3 DEF CancelMarkFailed
    <3> QED
      BY <2>1, <2>3, <3>1, <3>2
  <2> QED
    BY <1>5, <2>2, <2>3, ApplyFrame
<1>6. CASE Decide
  BY <1>6 DEF Decide, FutureOver
<1>7. CASE Future
  <2>1. UNCHANGED <<cancel, handle, accepted, pc>> /\ pc = "driving"
    BY <1>7, FutureFrame
  <2>2. accepted # "none" /\ fut'.phase = "done" => fut'.res # "Success"
    <3>1. ASSUME NEW z \in BOOLEAN, accepted # "none" PROVE Classify(z) # "Success"
      BY <2>1, <3>1 DEF Classify
    <3> QED
      BY <1>7, <3>1, FutureResult
  <2> QED
    BY <2>1, <2>2
<1>8. ASSUME NEW mark \in BOOLEAN, HandleCancel(mark)
      PROVE  DeliveryInv'
  <2>1. /\ cancel'.token = cancel.token /\ cancel'.request = cancel.request
        /\ cancel.markFailed => cancel'.markFailed
    BY <1>0, <1>8 DEF HandleCancel, CancelShared
  <2> QED
    BY <1>8, <2>1 DEF HandleCancel, HandleStep
<1>9. CASE HandleSend
  <2>1. /\ cancel'.token = cancel.token /\ cancel'.request
        /\ cancel'.markFailed = cancel.markFailed
    BY <1>0, <1>9 DEF HandleSend, CancelShared
  <2> QED
    BY <1>9, <2>1 DEF HandleSend, HandleStep
<1>10. CASE HandleReturn
  <2>1. /\ cancel'.token = "cancelled" /\ cancel'.request /\ handle' = "idle"
        /\ cancel'.markFailed = cancel.markFailed
    BY <1>0, <1>10 DEF HandleReturn, CancelShared
  <2>2. UNCHANGED <<pc, fut>>
    BY <1>10 DEF HandleReturn, HandleStep
  <2>3. pc # "starting"
    BY <1>10 DEF HandleReturn, CancelStateFresh
  <2>4. \/ accepted' = accepted
        \/ fut.phase # "done" /\ (accepted' = "mark" => cancel.markFailed)
    BY <1>10 DEF HandleReturn
  <2> QED
    BY <2>1, <2>2, <2>3, <2>4
<1>11. CASE ParentCancel
  <2>1. /\ cancel'.token = cancel.token \/ (cancel.token # "none" /\ cancel'.token = "cancelled")
        /\ cancel'.request = cancel.request /\ cancel'.markFailed = cancel.markFailed
    BY <1>0, <1>11 DEF ParentCancel, CancelShared
  <2> QED
    BY <1>11, <2>1 DEF ParentCancel
<1>12. CASE UNCHANGED vars
  BY <1>12 DEF vars
<1> HIDE DEF SafetyInv, ControlInv, DeliveryInv
<1> QED
  BY Zenon, <1>1, <1>2, <1>3, <1>4, <1>5, <1>6, <1>7, <1>8, <1>9, <1>10, <1>11, <1>12
     DEF Next, Drive, Handle

\* The invariants hold at the start.
LEMMA InitSafety == Init => SafetyInv
<1> SUFFICES ASSUME Init PROVE SafetyInv
  OBVIOUS
<1>1. ControlInv
  BY DEF Init, ControlInv, FutureInv, DeliveryInv, NoFuture, NoCancel
<1>2. NeverWedged /\ CancelStateFresh
  BY DEF Init, NeverWedged, CancelStateFresh
<1>3. EndingOnlyIsFinal /\ HelperComesBack /\ AcceptedCancelIsHonoured
  BY ConstantsAssumption DEF ConstantsAssumption, Init,
     EndingOnlyIsFinal, HelperComesBack, AcceptedCancelIsHonoured
<1> QED
  BY <1>1, <1>2, <1>3, InitTypes DEF SafetyInv

\* The conjunction of the invariants is an invariant of the session.
THEOREM Safety == Spec => []SafetyInv
<1>1. SafetyInv /\ [Next]_vars => SafetyInv'
  <2> SUFFICES ASSUME SafetyInv, [Next]_vars PROVE SafetyInv'
    OBVIOUS
  <2>1. TypeOK'
    BY EnvTypes, OwnerTypes, FlagTypes, CancelTypes, FutureTypes DEF SafetyInv, TypeOK
  <2> QED
    BY <2>1, NeverWedgedStep, CancelStateFreshStep, EndingOnlyStep, HelperStep, AcceptedStep,
       FutureInvStep, DeliveryInvStep DEF SafetyInv, ControlInv
<1> QED
  BY InitSafety, <1>1, PTL DEF Spec

\* No path of an operation leaves the session Running or Canceling with nobody
\* driving an action, or an action reported Running that is over.
THEOREM NoWedgedSession == Spec => []NeverWedged
<1>1. SafetyInv => NeverWedged
  BY DEF SafetyInv
<1> QED
  BY Safety, <1>1, PTL

\* Every action starts from fresh cancel state.
THEOREM FreshCancelState == Spec => []CancelStateFresh
<1>1. SafetyInv => CancelStateFresh
  BY DEF SafetyInv
<1> QED
  BY Safety, <1>1, PTL

\* A session that is being torn down runs nothing but onExit actions.
THEOREM TeardownIsFinal == Spec => []EndingOnlyIsFinal
<1>1. SafetyInv => EndingOnlyIsFinal
  BY DEF SafetyInv
<1> QED
  BY Safety, <1>1, PTL

\* The helper an action borrowed is back whenever the owner is idle.
THEOREM HelperIsReturned == Spec => []HelperComesBack
<1>1. SafetyInv => HelperComesBack
  BY DEF SafetyInv
<1> QED
  BY Safety, <1>1, PTL

\* A cancel delivered in time is never followed by Success.
THEOREM CancelIsHonoured == Spec => []AcceptedCancelIsHonoured
<1>1. SafetyInv => AcceptedCancelIsHonoured
  BY DEF SafetyInv
<1> QED
  BY Safety, <1>1, PTL

-----------------------------------------------------------------------------
(* The stack of environments: it always describes the same environments as   *)
(* the map, and it never holds two wrap environments.                        *)

StackInv == TypeOK /\ StackMatchesEnvironments /\ OneWrapLayer

\* Only the environment being entered is added to the stack, and only when it
\* is the first one with a wrap hook.
LEMMA PushStack ==
  ASSUME StackInv, NEW id \in EnvId, NEW env \in Environment, NEW recorded,
         Enterable(id, env), Push(id, env, recorded)
  PROVE  StackMatchesEnvironments' /\ OneWrapLayer'
<1> USE DEF StackInv, TypeOK, EnvTypeOK
<1>1. environments[id] = NoEnv /\ env # NoEnv
  BY ConstantsAssumption DEF ConstantsAssumption, Enterable
<1>2. environments' = [environments EXCEPT ![id] = env]
  BY DEF Push
<1>3. environmentsEntered' = Append(environmentsEntered, id)
  BY DEF Push
<1>4. wrapEnvFileRecords' = wrapEnvFileRecords
  BY DEF Push
<1>5. \A n \in DOMAIN environmentsEntered : environmentsEntered[n] # id
  BY <1>1 DEF StackMatchesEnvironments
<1>6. /\ DOMAIN environmentsEntered' = DOMAIN environmentsEntered \cup {Len(environmentsEntered) + 1}
      /\ Len(environmentsEntered) + 1 \notin DOMAIN environmentsEntered
      /\ environmentsEntered'[Len(environmentsEntered) + 1] = id
      /\ \A n \in DOMAIN environmentsEntered : environmentsEntered'[n] = environmentsEntered[n]
  BY <1>3, SMTT(30)
<1>7. StackMatchesEnvironments'
  <2>1. ASSUME NEW i \in EnvId
        PROVE  environments'[i] # NoEnv <=> \E n \in DOMAIN environmentsEntered' :
                                                environmentsEntered'[n] = i
    <3>1. CASE i = id
      BY <1>1, <1>2, <1>6, <3>1
    <3>2. CASE i # id
      <4>1. environments'[i] = environments[i]
        BY <1>2, <3>2
      <4> QED
        BY <1>6, <3>2, <4>1 DEF StackMatchesEnvironments
    <3> QED
      BY <3>1, <3>2
  <2>2. ASSUME NEW m \in DOMAIN environmentsEntered', NEW n \in DOMAIN environmentsEntered',
               environmentsEntered'[m] = environmentsEntered'[n]
        PROVE  m = n
    BY <1>5, <1>6, <2>2, SMTT(30) DEF StackMatchesEnvironments
  <2> QED
    BY <2>1, <2>2 DEF StackMatchesEnvironments
<1>8. OneWrapLayer'
  <2>1. env.wrap # {} => \A i \in EnvId : environments[i] # NoEnv => environments[i].wrap = {}
    <3> SUFFICES ASSUME env.wrap # {}, NEW i \in EnvId, environments[i] # NoEnv
                 PROVE  environments[i].wrap = {}
      OBVIOUS
    <3>1. WrapEnvs(NoId) = {}
      BY SMTT(30) DEF Enterable, HasAnyWrapHook
    <3>2. i \in Range(environmentsEntered) \ {NoId}
      BY ConstantsAssumption DEF ConstantsAssumption, StackMatchesEnvironments, Range
    <3> QED
      BY <3>1, <3>2, SMTT(30) DEF WrapEnvs, HasAnyWrapHook
  <2>2. \A i \in EnvId : environments'[i] = IF i = id THEN env ELSE environments[i]
    BY <1>2, SMTT(30)
  <2>3. id \notin wrapEnvFileRecords
    BY <1>1 DEF OneWrapLayer
  <2> QED
    BY <1>4, <2>1, <2>2, <2>3 DEF OneWrapLayer
<1> QED
  BY <1>7, <1>8, SMTT(30)

\* An exit removes the last environment from the stack, the map and the cache.
LEMMA ExitStack ==
  ASSUME StackInv, NEW id \in EnvId, NEW keep \in BOOLEAN, ExitEnvironment(id, keep)
  PROVE  StackMatchesEnvironments' /\ OneWrapLayer'
<1> USE DEF StackInv, TypeOK, EnvTypeOK
<1> DEFINE len == Len(environmentsEntered)
<1>1. environmentsEntered # <<>> /\ id = environmentsEntered[len]
  BY DEF ExitEnvironment, Innermost
<1>2. len \in Nat /\ len # 0 /\ DOMAIN environmentsEntered = 1..len
  BY <1>1
<1>3. environments' = [environments EXCEPT ![id] = NoEnv]
  BY DEF ExitEnvironment
<1>4. environmentsEntered' = SubSeq(environmentsEntered, 1, len - 1)
  BY DEF ExitEnvironment
<1>5. /\ DOMAIN environmentsEntered' = 1..(len - 1)
      /\ \A n \in 1..(len - 1) : environmentsEntered'[n] = environmentsEntered[n]
  BY <1>2, <1>4
<1>6. \A i \in EnvId : environments'[i] = IF i = id THEN NoEnv ELSE environments[i]
  BY <1>3, SMTT(30)
<1>7. StackMatchesEnvironments'
  <2>1. ASSUME NEW m \in 1..len, NEW n \in 1..len, environmentsEntered[m] = environmentsEntered[n]
        PROVE  m = n
    BY <1>2, <2>1, SMTT(30) DEF StackMatchesEnvironments
  <2>2. \A n \in 1..(len - 1) : environmentsEntered[n] # id
    BY <1>1, <1>2, <2>1
  <2>3. ASSUME NEW i \in EnvId
        PROVE  environments'[i] # NoEnv <=> \E n \in DOMAIN environmentsEntered' :
                                                environmentsEntered'[n] = i
    <3>1. CASE i = id
      BY Zenon, <1>5, <1>6, <2>2, <3>1
    <3>2. CASE i # id
      <4>1. environments[i] # NoEnv <=> \E n \in 1..len : environmentsEntered[n] = i
        BY Zenon, <1>2 DEF StackMatchesEnvironments
      <4>2. (\E n \in 1..len : environmentsEntered[n] = i)
              <=> \E n \in 1..(len - 1) : environmentsEntered[n] = i
        BY <1>1, <1>2, <3>2
      <4> QED
        BY Zenon, <1>5, <1>6, <3>2, <4>1, <4>2
    <3> QED
      BY <3>1, <3>2
  <2>4. ASSUME NEW m \in DOMAIN environmentsEntered', NEW n \in DOMAIN environmentsEntered',
               environmentsEntered'[m] = environmentsEntered'[n]
        PROVE  m = n
    <3>1. m \in 1..(len - 1) /\ n \in 1..(len - 1)
      BY <1>5
    <3>2. environmentsEntered[m] = environmentsEntered[n]
      BY <1>5, <2>4, <3>1
    <3>3. m \in 1..len /\ n \in 1..len
      BY <1>2, <3>1, SMTT(30)
    <3> HIDE DEF len
    <3> QED
      BY <2>1, <3>2, <3>3
  <2> QED
    BY <2>3, <2>4 DEF StackMatchesEnvironments
<1>8. OneWrapLayer'
  <2>1. wrapEnvFileRecords' \subseteq wrapEnvFileRecords
    BY DEF ExitEnvironment
  <2>2. id \notin wrapEnvFileRecords'
    BY DEF ExitEnvironment, HasAnyWrapHook, OneWrapLayer
  <2> QED
    BY <1>6, <2>1, <2>2 DEF OneWrapLayer
<1> QED
  BY <1>7, <1>8

\* Paths are cached for environments on the stack that have a wrap hook.
LEMMA AllocatedWraps ==
  ASSUME StackInv
  PROVE  \A i \in AllocatedFiles(op) : environments[i] # NoEnv /\ environments[i].wrap # {}
<1> SUFFICES ASSUME NEW i \in AllocatedFiles(op)
             PROVE  environments[i] # NoEnv /\ environments[i].wrap # {}
  OBVIOUS
<1>1. i \in WrapEnvs(op.id)
  BY DEF AllocatedFiles, WrappingEnvs
<1>2. i \in Range(environmentsEntered) /\ environments[i].wrap # {}
  BY <1>1 DEF WrapEnvs, HasAnyWrapHook
<1>3. i \in EnvId /\ \E n \in DOMAIN environmentsEntered : environmentsEntered[n] = i
  BY <1>2 DEF Range, StackInv, TypeOK, EnvTypeOK
<1> QED
  BY <1>2, <1>3 DEF StackInv, StackMatchesEnvironments

\* The stack invariant is preserved.
LEMMA StackStep == StackInv /\ [Next]_vars => StackInv'
<1> SUFFICES ASSUME StackInv, [Next]_vars PROVE StackInv'
  OBVIOUS
<1>1. TypeOK'
  BY EnvTypes, OwnerTypes, FlagTypes, CancelTypes, FutureTypes DEF StackInv, TypeOK
<1>2. ASSUME NEW id \in EnvId, NEW env \in Environment, EnterEnvironment(id, env)
      PROVE  StackMatchesEnvironments' /\ OneWrapLayer'
  BY <1>2, PushStack DEF EnterEnvironment
<1>3. ASSUME NEW id \in EnvId, NEW env \in Environment, NEW done \in SUBSET VarName,
             EnterVariablesFail(id, env, done)
      PROVE  StackMatchesEnvironments' /\ OneWrapLayer'
  BY <1>3, PushStack DEF EnterVariablesFail
<1>4. ASSUME NEW id \in EnvId, NEW keep \in BOOLEAN, ExitEnvironment(id, keep)
      PROVE  StackMatchesEnvironments' /\ OneWrapLayer'
  BY <1>4, ExitStack
<1>5. CASE SetupFails \/ SetupDone
  <2>1. UNCHANGED <<environments, environmentsEntered>>
    BY <1>5 DEF SetupFails, SetupDone
  <2>2. wrapEnvFileRecords' \subseteq wrapEnvFileRecords \cup AllocatedFiles(op)
    BY <1>5 DEF SetupFails, SetupDone
  <2>3. StackMatchesEnvironments'
    BY <2>1, Zenon DEF StackInv, StackMatchesEnvironments
  <2>4. \A i \in wrapEnvFileRecords' : environments[i] # NoEnv /\ environments[i].wrap # {}
    BY <2>2, AllocatedWraps DEF StackInv, OneWrapLayer
  <2>5. OneWrapLayer'
    BY <2>1, <2>4, Zenon DEF StackInv, OneWrapLayer
  <2> QED
    BY <1>1, <2>3, <2>5 DEF StackInv
<1>6. CASE \/ RunTask \/ RunSubprocess \/ Cleanup \/ SetAction \/ DriveError \/ Decide
           \/ Settle \/ ApplyMessage \/ Future \/ Handle \/ ParentCancel \/ UNCHANGED vars
  <2>1. UNCHANGED <<environments, environmentsEntered, wrapEnvFileRecords>>
    <3>1. CASE RunTask \/ RunSubprocess \/ Cleanup
      BY <3>1 DEF RunTask, RunSubprocess, Cleanup
    <3>2. CASE SetAction \/ DriveError \/ Decide \/ Settle
      BY <3>2 DEF SetAction, DriveError, Decide, Settle
    <3>3. CASE ApplyMessage \/ Future
      BY <3>3, ApplyFrame, FutureFrame
    <3>4. CASE Handle \/ ParentCancel \/ UNCHANGED vars
      BY <3>4, HandleFrame DEF HandleStep, ParentCancel, vars
    <3> QED
      BY <1>6, <3>1, <3>2, <3>3, <3>4
  <2>2. StackMatchesEnvironments'
    BY <2>1, Zenon DEF StackInv, StackMatchesEnvironments
  <2>3. OneWrapLayer'
    BY <2>1, Zenon DEF StackInv, OneWrapLayer
  <2> QED
    BY <1>1, <2>2, <2>3 DEF StackInv
<1> QED
  BY <1>1, <1>2, <1>3, <1>4, <1>5, <1>6 DEF StackInv, Next, Call, Drive

\* A new session has an empty stack.
LEMMA InitStack == Init => StackInv
<1> SUFFICES ASSUME Init PROVE StackInv
  OBVIOUS
<1>1. StackMatchesEnvironments
  BY DEF Init, StackMatchesEnvironments
<1>2. OneWrapLayer
  BY DEF Init, OneWrapLayer
<1> QED
  BY <1>1, <1>2, InitTypes DEF StackInv

\* The stack and the map always describe the same environments.
THEOREM StackMatches == Spec => []StackMatchesEnvironments
<1>1. StackInv => StackMatchesEnvironments
  BY DEF StackInv
<1> QED
  BY <1>1, InitStack, StackStep, PTL DEF Spec

\* At most one layer of wrap hooks, and only its files are cached.
THEOREM SingleWrapLayer == Spec => []OneWrapLayer
<1>1. StackInv => OneWrapLayer
  BY DEF StackInv
<1> QED
  BY <1>1, InitStack, StackStep, PTL DEF Spec

-----------------------------------------------------------------------------
(* Environment variables.                                                    *)

\* The positions up to n whose environments change a variable, the topmost of
\* them, and the value a variable has with the first n environments.
Changing(entered, n, v) == {m \in 1..n : createdEnvVars[entered[m]][v] # NoChange}
Topmost(ns) == CHOOSE n \in ns : \A m \in ns : m <= n
Visible(entered, n, v) ==
  LET ns == Changing(entered, n, v)
  IN  IF ns = {} THEN NoChange ELSE createdEnvVars[entered[Topmost(ns)]][v]

\* A nonempty set of natural numbers has a least element.
LEMMA LeastOf ==
  ASSUME NEW T, T \subseteq Nat, T # {}
  PROVE  \E x \in T : \A y \in T : x <= y
<1>1. PICK x \in T : \A y \in T : ~ (<<y, x>> \in OpToRel(<, Nat))
  BY WFMin, NatLessThanWellFounded, Zenon
<1>2. \A y \in T : ~ (y < x)
  BY <1>1, Zenon DEF OpToRel
<1> QED
  BY <1>2

\* A nonempty set of positions has a topmost one.
LEMMA TopmostOf ==
  ASSUME NEW n \in Nat, NEW ns, ns \subseteq 1..n, ns # {}
  PROVE  Topmost(ns) \in ns /\ \A m \in ns : m <= Topmost(ns)
<1> DEFINE T == {n - m : m \in ns}
<1>0. \A m \in ns : m \in Nat /\ n - m \in Nat
  OBVIOUS
<1>1. T \subseteq Nat /\ T # {}
  BY <1>0, Zenon
<1>2. PICK x \in T : \A y \in T : x <= y
  <2> HIDE DEF T
  <2> QED
    BY <1>1, LeastOf, Zenon
<1>3. PICK t \in ns : x = n - t
  BY <1>2
<1>4. \A m \in ns : m <= t
  <2> SUFFICES ASSUME NEW m \in ns PROVE m <= t
    OBVIOUS
  <2>1. n - m \in T
    OBVIOUS
  <2>2. n - t <= n - m
    BY <1>2, <1>3, <2>1, Zenon
  <2>3. m \in Nat /\ t \in Nat
    OBVIOUS
  <2> QED
    BY <2>2, <2>3
<1> QED
  BY <1>3, <1>4, Zenon DEF Topmost

\* One more environment hides the others' value exactly when it has its own.
LEMMA VisibleStep ==
  ASSUME NEW entered, NEW n \in Nat, n # 0, NEW v
  PROVE  Visible(entered, n, v) =
           IF createdEnvVars[entered[n]][v] = NoChange THEN Visible(entered, n - 1, v)
           ELSE createdEnvVars[entered[n]][v]
<1> DEFINE c(m) == createdEnvVars[entered[m]][v]
<1>1. 1..n = 1..(n - 1) \cup {n} /\ n \in 1..n
  OBVIOUS
<1>2. CASE c(n) = NoChange
  <2>1. Changing(entered, n, v) = Changing(entered, n - 1, v)
    BY <1>1, <1>2 DEF Changing
  <2> QED
    BY <1>2, <2>1, Zenon DEF Visible
<1>3. CASE c(n) # NoChange
  <2> DEFINE ns == Changing(entered, n, v)
  <2>1. ns \subseteq 1..n /\ n \in ns
    BY <1>1, <1>3 DEF Changing
  <2> HIDE DEF ns
  <2>2. Topmost(ns) \in ns /\ n <= Topmost(ns)
    BY <2>1, TopmostOf, Zenon
  <2>3. Topmost(ns) = n
    <3>1. Topmost(ns) \in 1..n
      BY <2>1, <2>2, Zenon
    <3> QED
      BY <2>2, <3>1
  <2> QED
    BY <1>3, <2>1, <2>3, Zenon DEF Visible, ns
<1> QED
  BY <1>2, <1>3

\* evaluate_env_vars computes the innermost change of every variable: the
\* values that are visible satisfy its recursion, and only they do.
LEMMA EvaluatesInnermost ==
  ASSUME NEW entered \in Seq(EnvId)
  PROVE  \A v \in VarName : EvaluateEnvVars(entered)[v] = InnermostChange(entered, v)
<1> DEFINE len == Len(entered)
           Step(f, n) == IF n = 0 THEN NoVars ELSE Override(f[n - 1], createdEnvVars[entered[n]])
           upTo == CHOOSE f : f = [n \in 0..len |-> Step(f, n)]
           g == [n \in 0..len |-> [v \in VarName |-> Visible(entered, n, v)]]
<1>1. len \in Nat /\ DOMAIN entered = 1..len
  BY SMTT(30)
<1>2. ASSUME NEW n \in 0..len PROVE g[n] = Step(g, n)
  <2>1. CASE n = 0
    <3>1. \A v \in VarName : Visible(entered, 0, v) = NoChange
      BY DEF Visible, Changing
    <3>2. g[0] = [v \in VarName |-> Visible(entered, 0, v)]
      BY <2>1, SMTT(30)
    <3> QED
      BY <2>1, <3>1, <3>2, Zenon DEF NoVars
  <2>2. CASE n # 0
    <3>1. n \in Nat /\ n - 1 \in 0..len
      BY <2>2, <1>1
    <3>2. g[n - 1] = [v \in VarName |-> Visible(entered, n - 1, v)]
          /\ g[n] = [v \in VarName |-> Visible(entered, n, v)]
      BY <3>1
    <3>3. \A v \in VarName : Visible(entered, n, v) =
             IF createdEnvVars[entered[n]][v] = NoChange THEN Visible(entered, n - 1, v)
             ELSE createdEnvVars[entered[n]][v]
      BY <2>2, <3>1, VisibleStep
    <3> HIDE DEF g
    <3>4. Override(g[n - 1], createdEnvVars[entered[n]]) =
            [v \in VarName |-> IF createdEnvVars[entered[n]][v] = NoChange
                               THEN Visible(entered, n - 1, v) ELSE createdEnvVars[entered[n]][v]]
      BY <3>2 DEF Override
    <3> QED
      BY <2>2, <3>2, <3>3, <3>4
  <2> QED
    BY <2>1, <2>2
<1>3. g = [n \in 0..len |-> Step(g, n)]
  <2>1. g = [n \in 0..len |-> g[n]]
    OBVIOUS
  <2> HIDE DEF g, Step
  <2> QED
    BY <1>2, <2>1
<1>4. upTo = [n \in 0..len |-> Step(upTo, n)]
  <2> HIDE DEF g, Step
  <2> QED
    BY <1>3, Zenon
<1>5. \A n \in 0..len : upTo[n] = g[n]
  <2> DEFINE T == {n \in 0..len : upTo[n] # g[n]}
  <2>1. SUFFICES ASSUME T # {} PROVE FALSE
    BY Zenon
  <2>2. PICK n \in T : \A m \in T : n <= m
    <3>1. T \subseteq 0..len
      BY Zenon
    <3> HIDE DEF T
    <3>2. T \subseteq Nat
      BY <1>1, <3>1
    <3> QED
      BY <2>1, <3>2, LeastOf, Zenon
  <2> HIDE DEF upTo, g
  <2>3. n \in 0..len /\ upTo[n] # g[n]
    BY Zenon
  <2>4. n # 0
    <3>1. 0 \in 0..len
      BY <1>1
    <3>2. upTo[0] = NoVars /\ g[0] = NoVars
      BY <1>2, <1>4, <3>1
    <3> QED
      BY <2>3, <3>2
  <2>5. n - 1 \in 0..len /\ n - 1 \notin T
    BY <1>1, <2>2, <2>3, <2>4
  <2>6. upTo[n - 1] = g[n - 1]
    BY <2>5
  <2>7. upTo[n] = Override(upTo[n - 1], createdEnvVars[entered[n]])
        /\ g[n] = Override(g[n - 1], createdEnvVars[entered[n]])
    <3> HIDE DEF T
    <3> QED
      BY <1>2, <1>4, <2>3, <2>4
  <2> QED
    BY <2>3, <2>6, <2>7
<1>6. EvaluateEnvVars(entered) = upTo[len]
  BY Zenon DEF EvaluateEnvVars
<1>7. g[len] = [v \in VarName |-> Visible(entered, len, v)]
  BY <1>1
<1>8. \A v \in VarName : Visible(entered, len, v) = InnermostChange(entered, v)
  <2> SUFFICES ASSUME NEW v \in VarName
               PROVE  Visible(entered, len, v) = InnermostChange(entered, v)
    OBVIOUS
  <2> DEFINE S == {n \in DOMAIN entered : createdEnvVars[entered[n]][v] # NoChange}
  <2>1. S = Changing(entered, len, v)
    BY <1>1, Zenon DEF Changing
  <2>2. InnermostChange(entered, v) =
          IF S = {} THEN NoChange ELSE createdEnvVars[entered[Topmost(S)]][v]
    BY DEF InnermostChange, Topmost
  <2> HIDE DEF S
  <2> QED
    BY <2>1, <2>2, Zenon DEF Visible
<1> HIDE DEF upTo, g
<1> QED
  BY <1>1, <1>5, <1>6, <1>7, <1>8

\* What the operation in flight says of the stack: an environment being entered
\* is the innermost one, one being exited is already gone.
OperationInv ==
  pc # "idle" =>
    /\ op.kind = "enter" => environmentsEntered # <<>> /\ op.id = Innermost
    /\ op.kind = "exit" => op.id \in EnvId /\ environments[op.id] = NoEnv
    /\ op.kind \in {"task", "subprocess"} => op.id = NoId

\* exit_environment evaluates the variables before it pops the environment.
ExitSnapshot ==
  pc = "starting" /\ op.kind = "exit" =>
    \A v \in VarName : actionEnv[v] = InnermostChange(Append(environmentsEntered, op.id), v)

VariablesInv == StackInv /\ OperationInv /\ ExitSnapshot /\ SeesLiveVariables

\* What the step says of the variables the session offers.
OffersFollow ==
  \A v \in VarName :
     InnermostChange(environmentsEntered, v)' # InnermostChange(environmentsEntered, v) =>
       \/ environmentsEntered' # environmentsEntered
       \/ pc = "driving" /\ op.kind = "enter" /\ op.id = Innermost

\* A step that leaves the stack and the recorded changes alone changes no value.
LEMMA SameVariables ==
  ASSUME UNCHANGED <<createdEnvVars, environmentsEntered>>
  PROVE  /\ \A v : InnermostChange(environmentsEntered, v)' = InnermostChange(environmentsEntered, v)
         /\ \A v : op' = op => InnermostChange(Append(environmentsEntered, op.id), v)' =
                                 InnermostChange(Append(environmentsEntered, op.id), v)
         /\ OffersFollow
<1>1. createdEnvVars' = createdEnvVars /\ environmentsEntered' = environmentsEntered
  OBVIOUS
<1>2. \A v : InnermostChange(environmentsEntered, v)' = InnermostChange(environmentsEntered, v)
  BY <1>1 DEF InnermostChange
<1>3. ASSUME op' = op, NEW v
      PROVE  InnermostChange(Append(environmentsEntered, op.id), v)' =
               InnermostChange(Append(environmentsEntered, op.id), v)
  BY <1>1, <1>3 DEF InnermostChange
<1> QED
  BY <1>2, <1>3, Zenon DEF OffersFollow

\* So does a step that leaves the owner where it is.
LEMMA SameView ==
  ASSUME VariablesInv,
         UNCHANGED <<createdEnvVars, environmentsEntered, environments, pc, op, actionEnv>>
  PROVE  OperationInv' /\ ExitSnapshot' /\ SeesLiveVariables'
<1>1. /\ createdEnvVars' = createdEnvVars /\ environmentsEntered' = environmentsEntered
      /\ environments' = environments /\ pc' = pc /\ op' = op /\ actionEnv' = actionEnv
  OBVIOUS
<1>2. OperationInv'
  BY <1>1, Zenon DEF VariablesInv, OperationInv, Innermost
<1>3. ExitSnapshot'
  BY <1>1, SameVariables, Zenon DEF VariablesInv, ExitSnapshot
<1>4. SeesLiveVariables'
  <2>1. CASE op.kind = "exit"
    BY <1>1, <2>1, SameVariables, Zenon DEF VariablesInv, SeesLiveVariables
  <2>2. CASE op.kind # "exit"
    BY <1>1, <2>2, SameVariables, Zenon DEF VariablesInv, SeesLiveVariables
  <2> QED
    BY <2>1, <2>2
<1> QED
  BY <1>2, <1>3, <1>4

\* The steps that leave the environments and the recorded changes alone.
LEMMA QuietVariables ==
  ASSUME VariablesInv,
         \/ RunTask \/ RunSubprocess \/ Cleanup \/ SetupFails \/ SetupDone \/ DriveError \/ Decide
         \/ Settle \/ Future \/ Handle \/ ParentCancel \/ UNCHANGED vars
  PROVE  OperationInv' /\ ExitSnapshot' /\ SeesLiveVariables' /\ OffersFollow
<1>1. UNCHANGED <<createdEnvVars, environmentsEntered, environments>>
  <2>1. CASE RunTask \/ RunSubprocess \/ Cleanup
    BY <2>1, Zenon DEF RunTask, RunSubprocess, Cleanup
  <2>2. CASE SetupFails \/ SetupDone \/ DriveError \/ Decide \/ Settle
    BY <2>2, Zenon DEF SetupFails, SetupDone, DriveError, Decide, Settle
  <2>3. CASE Future \/ Handle \/ ParentCancel \/ UNCHANGED vars
    BY <2>3, FutureFrame, HandleFrame, Zenon DEF HandleStep, ParentCancel, vars
  <2> QED
    BY <2>1, <2>2, <2>3
<1>2. OffersFollow
  BY <1>1, SameVariables, Zenon
<1>3. CASE RunTask \/ RunSubprocess
  <2>1. pc' = "starting" /\ op'.kind \in {"task", "subprocess"} /\ op'.id = NoId
    BY <1>3 DEF RunTask, RunSubprocess, BeginAction
  <2>2. op'.kind # "exit" /\ op'.kind # "enter" /\ pc' # "setup"
    BY <2>1
  <2> QED
    BY <1>2, <2>1, <2>2, Zenon DEF OperationInv, ExitSnapshot, SeesLiveVariables
<1>4. CASE SetupFails \/ DriveError \/ Settle
  <2>1. pc' = "idle"
    BY <1>4, EndFrame
  <2> QED
    BY <1>2, <2>1 DEF OperationInv, ExitSnapshot, SeesLiveVariables
<1>5. CASE SetupDone \/ Decide
  <2>1. pc # "idle" /\ pc' \in {"driving", "settling"} /\ op' = op
    BY <1>5 DEF SetupDone, Decide, FutureOver
  <2>2. pc' # "starting" /\ pc' # "setup"
    BY <2>1
  <2>3. OperationInv'
    BY <1>1, <2>1, Zenon DEF VariablesInv, OperationInv, Innermost
  <2> QED
    BY <1>2, <2>2, <2>3, Zenon DEF ExitSnapshot, SeesLiveVariables
<1>6. CASE Cleanup \/ Future \/ Handle \/ ParentCancel \/ UNCHANGED vars
  <2>1. UNCHANGED <<pc, op, actionEnv>>
    BY <1>6, FutureFrame, HandleFrame, Zenon DEF Cleanup, HandleStep, ParentCancel, vars
  <2> QED
    BY <1>1, <1>2, <2>1, SameView
<1> QED
  BY <1>3, <1>4, <1>5, <1>6

\* Entering and exiting change the stack, and only they do.
LEMMA StackMoves ==
  ASSUME VariablesInv,
         \/ \E id \in EnvId, env \in Environment : EnterEnvironment(id, env)
         \/ \E id \in EnvId, env \in Environment, done \in SUBSET VarName :
               EnterVariablesFail(id, env, done)
         \/ \E id \in EnvId, keep \in BOOLEAN : ExitEnvironment(id, keep)
  PROVE  OperationInv' /\ ExitSnapshot' /\ SeesLiveVariables' /\ OffersFollow
<1>0. environmentsEntered \in Seq(EnvId)
  BY DEF VariablesInv, StackInv, TypeOK, EnvTypeOK
<1>1. ASSUME NEW id \in EnvId, NEW env \in Environment, EnterEnvironment(id, env)
      PROVE  OperationInv' /\ ExitSnapshot' /\ SeesLiveVariables' /\ OffersFollow
  <2>1. pc = "idle" /\ environmentsEntered' = Append(environmentsEntered, id)
    BY <1>1 DEF EnterEnvironment, Enterable, Push
  <2>2. /\ environmentsEntered' # environmentsEntered /\ environmentsEntered' # <<>>
        /\ environmentsEntered'[Len(environmentsEntered')] = id
    BY <1>0, <2>1, SMTT(30)
  <2>3. \/ pc' = "idle"
        \/ pc' = "starting" /\ op' = [kind |-> "enter", id |-> id]
    BY <1>1, <2>1 DEF EnterEnvironment, BeginAction, FinishWithoutAction
  <2>4. pc' # "setup" /\ (pc' # "idle" => pc' = "starting" /\ op'.kind = "enter" /\ op'.id = id)
    BY <2>3
  <2> QED
    BY <2>2, <2>4, Zenon DEF OperationInv, ExitSnapshot, SeesLiveVariables, OffersFollow, Innermost
<1>2. ASSUME NEW id \in EnvId, NEW env \in Environment, NEW done \in SUBSET VarName,
             EnterVariablesFail(id, env, done)
      PROVE  OperationInv' /\ ExitSnapshot' /\ SeesLiveVariables' /\ OffersFollow
  <2>1. pc' = "idle" /\ environmentsEntered' = Append(environmentsEntered, id)
    BY <1>2 DEF EnterVariablesFail, Enterable, Push
  <2>2. environmentsEntered' # environmentsEntered
    BY <1>0, <2>1
  <2> QED
    BY <2>1, <2>2, Zenon DEF OperationInv, ExitSnapshot, SeesLiveVariables, OffersFollow
<1>3. ASSUME NEW id \in EnvId, NEW keep \in BOOLEAN, ExitEnvironment(id, keep)
      PROVE  OperationInv' /\ ExitSnapshot' /\ SeesLiveVariables' /\ OffersFollow
  <2> DEFINE len == Len(environmentsEntered)
  <2>1. /\ pc = "idle" /\ environmentsEntered # <<>> /\ id = environmentsEntered[len]
        /\ environmentsEntered' = SubSeq(environmentsEntered, 1, len - 1)
        /\ createdEnvVars' = createdEnvVars
        /\ environments' = [environments EXCEPT ![id] = NoEnv]
    BY <1>3 DEF ExitEnvironment, Innermost
  <2>2. /\ environmentsEntered' # environmentsEntered
        /\ Append(environmentsEntered', id) = environmentsEntered
    BY <1>0, <2>1
  <2>3. environments'[id] = NoEnv
    BY <2>1, SMTT(30) DEF VariablesInv, StackInv, TypeOK, EnvTypeOK
  <2>4. \/ pc' = "idle"
        \/ /\ pc' = "starting" /\ op' = [kind |-> "exit", id |-> id]
           /\ actionEnv' = EvaluateEnvVars(environmentsEntered)
    BY <1>3, <2>1, Zenon DEF ExitEnvironment, BeginAction, FinishWithoutAction
  <2>5. pc' # "setup" /\ (pc' # "idle" => pc' = "starting" /\ op'.kind = "exit" /\ op'.id = id)
    BY <2>4
  <2>6. OperationInv' /\ SeesLiveVariables' /\ OffersFollow
    BY <2>2, <2>3, <2>5, Zenon DEF OperationInv, SeesLiveVariables, OffersFollow
  <2>7. ExitSnapshot'
    <3> SUFFICES ASSUME pc' = "starting"
                 PROVE  \A v \in VarName :
                          actionEnv'[v] = InnermostChange(Append(environmentsEntered, op.id), v)'
      BY Zenon DEF ExitSnapshot
    <3>1. actionEnv' = EvaluateEnvVars(environmentsEntered) /\ op'.id = id
      BY <2>4
    <3>2. /\ createdEnvVars' = createdEnvVars
          /\ Append(environmentsEntered', op'.id) = environmentsEntered
      BY <2>1, <2>2, <3>1, Zenon
    <3>3. \A v : InnermostChange(Append(environmentsEntered, op.id), v)' =
                   InnermostChange(environmentsEntered, v)
      BY ONLY <3>2 DEF InnermostChange
    <3> QED
      BY <1>0, <3>1, <3>3, EvaluatesInnermost, Zenon
  <2> QED
    BY <2>6, <2>7, SMTT(30)
<1> QED
  BY <1>1, <1>2, <1>3, Zenon

\* The action is set up with what evaluate_env_vars gives.
LEMMA SetupVariables ==
  ASSUME VariablesInv, SetAction
  PROVE  OperationInv' /\ ExitSnapshot' /\ SeesLiveVariables' /\ OffersFollow
<1>1. /\ environmentsEntered \in Seq(EnvId)
      /\ op.kind \in {"enter", "exit", "task", "subprocess"}
  BY DEF VariablesInv, StackInv, TypeOK, EnvTypeOK, OwnerTypeOK, Operation
<1>2. /\ pc = "starting" /\ pc' = "setup" /\ op' = op
      /\ UNCHANGED <<createdEnvVars, environmentsEntered, environments>>
  BY DEF SetAction
<1>3. pc # "idle" /\ pc' # "starting"
  BY <1>2
<1>4. OperationInv' /\ ExitSnapshot'
  BY <1>2, <1>3, Zenon DEF VariablesInv, OperationInv, ExitSnapshot, Innermost
<1>5. OffersFollow
  BY <1>2, SameVariables, Zenon
<1>6. CASE op.kind = "exit"
  <2>1. actionEnv' = actionEnv
    BY <1>6 DEF SetAction
  <2>2. \A v \in VarName : actionEnv'[v] = InnermostChange(Append(environmentsEntered, op.id), v)'
    BY <1>2, <1>6, <2>1, SameVariables, Zenon DEF VariablesInv, ExitSnapshot
  <2> QED
    BY <1>2, <1>4, <1>5, <1>6, <2>2, Zenon DEF SeesLiveVariables
<1>7. CASE op.kind \in {"enter", "task"}
  <2>1. actionEnv' = EvaluateEnvVars(environmentsEntered)
    BY <1>7 DEF SetAction
  <2>2. \A v \in VarName : actionEnv'[v] = InnermostChange(environmentsEntered, v)'
    BY <1>1, <1>2, <2>1, SameVariables, EvaluatesInnermost, Zenon
  <2>3. op.kind # "exit"
    BY <1>7
  <2> QED
    BY <1>2, <1>4, <1>5, <2>2, <2>3, Zenon DEF SeesLiveVariables
<1>8. CASE op.kind = "subprocess"
  BY <1>2, <1>4, <1>5, <1>8, Zenon DEF SeesLiveVariables
<1> QED
  BY <1>1, <1>6, <1>7, <1>8

\* Changes recorded for an environment that is not on the stack are not seen.
LEMMA UnseenChanges ==
  ASSUME NEW entered \in Seq(EnvId), NEW v,
         \A n \in DOMAIN entered : createdEnvVars'[entered[n]] = createdEnvVars[entered[n]],
         entered = environmentsEntered, environmentsEntered' = environmentsEntered
  PROVE  InnermostChange(environmentsEntered, v)' = InnermostChange(environmentsEntered, v)
<1> DEFINE S == {n \in DOMAIN entered : createdEnvVars[entered[n]][v] # NoChange}
           R == {n \in DOMAIN entered : createdEnvVars'[entered[n]][v] # NoChange}
<1>1. S = R /\ S \subseteq DOMAIN entered
  BY Zenon
<1>2. InnermostChange(environmentsEntered, v) =
        IF S = {} THEN NoChange ELSE createdEnvVars[entered[Topmost(S)]][v]
  BY DEF InnermostChange, Topmost
<1>3. InnermostChange(environmentsEntered, v)' =
        IF R = {} THEN NoChange ELSE createdEnvVars'[entered[Topmost(R)]][v]
  BY DEF InnermostChange, Topmost
<1>4. S \subseteq 1..Len(entered) /\ Len(entered) \in Nat
  BY <1>1
<1> HIDE DEF S, R
<1>5. S # {} => Topmost(S) \in DOMAIN entered
  BY <1>1, <1>4, TopmostOf, Zenon
<1> QED
  BY <1>1, <1>2, <1>3, <1>5, Zenon

\* What an action prints goes to the environment it belongs to: the innermost
\* one while it is being entered, one that is gone while it is being exited.
LEMMA PrintedVariables ==
  ASSUME VariablesInv, ApplyMessage
  PROVE  OperationInv' /\ ExitSnapshot' /\ SeesLiveVariables' /\ OffersFollow
<1>1. /\ environmentsEntered \in Seq(EnvId)
      /\ createdEnvVars \in [EnvId -> [VarName -> Change]]
      /\ op.kind \in {"enter", "exit", "task", "subprocess"}
  BY DEF VariablesInv, StackInv, TypeOK, EnvTypeOK, OwnerTypeOK, Operation
<1>2. pc = "driving" /\ UNCHANGED <<pc, op, environmentsEntered, environments, actionEnv>>
  BY ApplyFrame, Zenon DEF ApplyMessage
<1>3. pc' # "starting" /\ pc' # "setup" /\ pc # "idle"
  BY <1>2
<1>4. OperationInv' /\ ExitSnapshot' /\ SeesLiveVariables'
  BY <1>2, <1>3, Zenon DEF VariablesInv, OperationInv, ExitSnapshot, SeesLiveVariables, Innermost
<1>5. \/ createdEnvVars' = createdEnvVars
      \/ /\ op.id \in EnvId
         /\ \E name, change : createdEnvVars' = [createdEnvVars EXCEPT ![op.id][name] = change]
  BY Zenon DEF ApplyMessage, RecordChange
<1>6. CASE createdEnvVars' = createdEnvVars
  BY <1>2, <1>4, <1>6, SameVariables, Zenon
<1>7. CASE op.id \in EnvId /\ createdEnvVars' # createdEnvVars
  <2>1. PICK name, change : createdEnvVars' = [createdEnvVars EXCEPT ![op.id][name] = change]
    BY <1>5, <1>7, Zenon
  <2>2. \A i \in EnvId : i # op.id => createdEnvVars'[i] = createdEnvVars[i]
    BY <1>1, <2>1
  <2>3. op.kind \notin {"task", "subprocess"}
    BY <1>3, <1>7, ConstantsAssumption DEF ConstantsAssumption, VariablesInv, OperationInv
  <2>4. CASE op.kind = "enter"
    BY <1>2, <1>3, <1>4, <2>4, Zenon DEF VariablesInv, OperationInv, OffersFollow
  <2>5. CASE op.kind = "exit"
    <3>1. environments[op.id] = NoEnv
      BY <1>3, <2>5, Zenon DEF VariablesInv, OperationInv
    <3>2. \A n \in DOMAIN environmentsEntered : environmentsEntered[n] # op.id
      BY <1>7, <3>1, Zenon DEF VariablesInv, StackInv, StackMatchesEnvironments
    <3>3. \A n \in DOMAIN environmentsEntered :
             createdEnvVars'[environmentsEntered[n]] = createdEnvVars[environmentsEntered[n]]
      <4>1. \A n \in DOMAIN environmentsEntered : environmentsEntered[n] \in EnvId
        BY <1>1
      <4> QED
        BY <2>2, <3>2, <4>1, Zenon
    <3>4. \A v \in VarName :
             InnermostChange(environmentsEntered, v)' = InnermostChange(environmentsEntered, v)
      BY <1>1, <1>2, <3>3, UnseenChanges, Zenon
    <3> QED
      BY <1>4, <3>4, Zenon DEF OffersFollow
  <2> QED
    BY <1>1, <2>3, <2>4, <2>5
<1> QED
  BY <1>5, <1>6, <1>7

\* The variables' invariant is preserved, and every step keeps to the stack.
LEMMA VariablesStep ==
  ASSUME VariablesInv, [Next]_vars
  PROVE  VariablesInv' /\ OffersFollow
<1>1. StackInv'
  BY StackStep DEF VariablesInv
<1>2. OperationInv' /\ ExitSnapshot' /\ SeesLiveVariables' /\ OffersFollow
  <2>1. CASE \/ RunTask \/ RunSubprocess \/ Cleanup \/ SetupFails \/ SetupDone \/ DriveError
             \/ Decide \/ Settle \/ Future \/ Handle \/ ParentCancel \/ UNCHANGED vars
    BY <2>1, QuietVariables, Zenon
  <2>2. CASE \/ \E id \in EnvId, env \in Environment : EnterEnvironment(id, env)
             \/ \E id \in EnvId, env \in Environment, done \in SUBSET VarName :
                   EnterVariablesFail(id, env, done)
             \/ \E id \in EnvId, keep \in BOOLEAN : ExitEnvironment(id, keep)
    BY <2>2, StackMoves, Zenon
  <2>3. CASE SetAction
    BY <2>3, SetupVariables, Zenon
  <2>4. CASE ApplyMessage
    BY <2>4, PrintedVariables, Zenon
  <2> QED
    BY <2>1, <2>2, <2>3, <2>4, Zenon DEF Next, Call, Drive
<1> QED
  BY <1>1, <1>2, Zenon DEF VariablesInv

\* The variables the session offers change only when an environment is entered
\* or exited, or under the onEnter action of the innermost one; every action
\* starts with those of the environments around it.
THEOREM VariablesKeepToTheStack == Spec => VariablesFollowTheStack
<1>1. Init => VariablesInv
  <2> SUFFICES ASSUME Init PROVE VariablesInv
    OBVIOUS
  <2>1. pc = "idle"
    BY DEF Init
  <2> QED
    BY <2>1, InitStack DEF VariablesInv, OperationInv, ExitSnapshot, SeesLiveVariables
<1>2. VariablesInv /\ [Next]_vars => VariablesInv'
  BY VariablesStep
<1>3. VariablesInv /\ [Next]_vars =>
        [ /\ SeesLiveVariables'
          /\ \A v \in VarName :
               InnermostChange(environmentsEntered, v)' # InnermostChange(environmentsEntered, v) =>
                 \/ environmentsEntered' # environmentsEntered
                 \/ /\ pc = "driving" /\ op.kind = "enter"
                    /\ op.id = Innermost ]_vars
  BY VariablesStep, Zenon DEF VariablesInv, OffersFollow
<1> QED
  BY <1>1, <1>2, <1>3, PTL DEF Spec, VariablesFollowTheStack

-----------------------------------------------------------------------------
(* Session implements SessionApi: every step maps to a step of SessionApi or *)
(* to a stutter.                                                            *)

\* What the refinement needs besides the safety invariants: a registered token
\* follows the parent, a session without a helper never gets one, and the
\* status a settling action reports is a success exactly when its future was.
VerdictInv ==
  /\ parentCancelled /\ cancel.token # "none" => cancel.token = "cancelled"
  /\ InitialHelper = {"absent"} => helper = "absent"
  /\ pc = "settling" => /\ fut.res # "Err"
                        /\ actionState = "Success" <=> fut.res = "Success"

RefinementInv == SafetyInv /\ StackInv /\ VerdictInv

\* The parent token, the helper and the reported status are followed.
LEMMA VerdictStep == RefinementInv /\ [Next]_vars => VerdictInv'
<1> SUFFICES ASSUME RefinementInv, [Next]_vars PROVE VerdictInv'
  OBVIOUS
<1> USE DEF RefinementInv, VerdictInv
<1>0. cancel \in CancelShared /\ fut \in ActionFuture
  BY DEF StackInv, TypeOK, CancelTypeOK, FutureTypeOK
<1>1. CASE Call
  <2>1. pc' # "settling" /\ (UNCHANGED helper \/ helper = "session")
    BY <1>1, CallFrame, CallOutcome DEF CallBegins, CallIsOver, CallFails, CallCleansUp
  <2> QED
    BY <1>1, <2>1, CallFrame
<1>2. CASE SetAction
  BY <1>0, <1>2 DEF SetAction, CancelShared
<1>3. CASE SetupDone
  BY <1>3 DEF SetupDone
<1>4. CASE SetupFails \/ DriveError \/ Settle
  <2>1. helper = "absent" => helper' = "absent"
    BY <1>4 DEF SetupFails, DriveError, Settle, FailAction, EndAction
  <2> QED
    BY <1>4, <2>1, EndFrame, SMTT(30) DEF NoCancel
<1>5. CASE ApplyMessage
  <2>1. cancel' = cancel \/ cancel'.token = "cancelled"
    BY <1>5, ApplyFrame DEF CancelMarkFailed
  <2> QED
    BY <1>5, <2>1, ApplyFrame, SMTT(30) DEF ApplyMessage
<1>6. CASE Decide
  BY <1>6 DEF Decide, FutureOver, FinalState
<1>7. CASE Future
  BY <1>7, FutureFrame
<1>8. CASE Handle
  <2>1. cancel'.token = cancel.token \/ cancel'.token = "cancelled"
    BY <1>0, <1>8 DEF Handle, HandleCancel, HandleSend, HandleReturn, CancelShared
  <2>2. HandleStep
    BY <1>8, HandleFrame
  <2>3. cancel'.token = "none" <=> cancel.token = "none"
    BY <1>0, <1>8, <2>1 DEF Handle, HandleCancel, HandleSend, HandleReturn, CancelShared,
       SafetyInv, ControlInv, DeliveryInv
  <2> QED
    BY <2>1, <2>2, <2>3 DEF HandleStep
<1>9. CASE ParentCancel
  BY <1>0, <1>9 DEF ParentCancel, CancelShared
<1>10. CASE UNCHANGED vars
  BY <1>10 DEF vars
<1> QED
  BY Zenon, <1>1, <1>2, <1>3, <1>4, <1>5, <1>6, <1>7, <1>8, <1>9, <1>10 DEF Next, Drive

-----------------------------------------------------------------------------
(* Step simulation.                                                          *)

LastOk == pc = "idle" /\ actionState = "Success"

\* While nothing a caller sees changes, SessionApi stutters.
LEMMA Stutters ==
  ASSUME CallerState' = CallerState, FutureVerdict' = FutureVerdict, LastOk' = LastOk,
         UNCHANGED <<environmentsEntered, endingOnly, parentCancelled>>
  PROVE  UNCHANGED Api!apiVars
BY DEF Api!apiVars, LastOk

\* A call that announces an action starts it for the caller.
LEMMA BeginStarts ==
  ASSUME RefinementInv, NEW o, pc = "idle", BeginAction(o)
  PROVE  Api!Starts
<1>1. CallerState' = "Busy" /\ LastOk' = FALSE
  BY DEF BeginAction, CallerState, LastOk
<1>2. FutureVerdict = "none" /\ FutureVerdict' = "none"
  BY DEF BeginAction, FutureVerdict, RefinementInv, SafetyInv, CancelStateFresh, NoFuture
<1>3. UNCHANGED parentCancelled
  BY DEF BeginAction
<1> QED
  BY <1>1, <1>2, <1>3 DEF Api!Starts, LastOk

\* A call without an action returns at once.
LEMMA FinishReturns ==
  ASSUME RefinementInv, NEW s, pc = "idle", FinishWithoutAction(s)
  PROVE  Api!ReturnsAtOnce(s)
<1>1. CallerState' = s /\ LastOk' = TRUE
  BY DEF FinishWithoutAction, CallerState, LastOk
<1>2. FutureVerdict = "none" /\ FutureVerdict' = "none"
  BY DEF FinishWithoutAction, FutureVerdict
<1>3. UNCHANGED parentCancelled
  BY DEF FinishWithoutAction
<1> QED
  BY <1>1, <1>2, <1>3 DEF Api!ReturnsAtOnce, LastOk

\* enter_environment is ApiEnter.
LEMMA EnterRefines ==
  ASSUME RefinementInv, NEW id \in EnvId, NEW env \in Environment, EnterEnvironment(id, env)
  PROVE  Api!ApiNext
<1>1. pc = "idle" /\ state = "Ready" /\ environments[id] = NoEnv
  BY DEF EnterEnvironment, Enterable
<1>2. CallerState = "Ready" /\ id \notin Api!OnStack
  BY <1>1 DEF CallerState, Api!OnStack, RefinementInv, StackInv, StackMatchesEnvironments
<1>3. environmentsEntered' = Append(environmentsEntered, id) /\ UNCHANGED endingOnly
  BY DEF EnterEnvironment, Push
<1>4. env.onEnter \in BOOLEAN
  BY ConstantsAssumption DEF ConstantsAssumption
<1>5. IF env.onEnter THEN Api!Starts ELSE Api!ReturnsAtOnce("Ready")
  <2>1. CASE env.onEnter
    BY <1>1, <2>1, BeginStarts DEF EnterEnvironment
  <2>2. CASE ~env.onEnter
    BY <1>1, <2>2, FinishReturns DEF EnterEnvironment
  <2> QED
    BY <2>1, <2>2
<1>6. Api!ApiEnter(id, env.onEnter)
  BY <1>2, <1>3, <1>5 DEF Api!ApiEnter
<1> QED
  BY <1>4, <1>6 DEF Api!ApiNext

\* enter_environment with a variable that does not resolve is ApiEnterFails.
LEMMA EnterFailRefines ==
  ASSUME RefinementInv, NEW id \in EnvId, NEW env \in Environment, NEW done \in SUBSET VarName,
         EnterVariablesFail(id, env, done)
  PROVE  Api!ApiNext
<1>1. pc = "idle" /\ state = "Ready" /\ environments[id] = NoEnv
  BY DEF EnterVariablesFail, Enterable
<1>2. CallerState = "Ready" /\ id \notin Api!OnStack
  BY <1>1 DEF CallerState, Api!OnStack, RefinementInv, StackInv, StackMatchesEnvironments
<1>3. environmentsEntered' = Append(environmentsEntered, id)
  BY DEF EnterVariablesFail, Push
<1>4. UNCHANGED <<CallerState, FutureVerdict, LastOk, endingOnly, parentCancelled>>
  BY DEF EnterVariablesFail, CallerState, FutureVerdict, LastOk
<1>5. Api!ApiEnterFails(id)
  BY <1>2, <1>3, <1>4, SMTT(30) DEF Api!ApiEnterFails, LastOk
<1> QED
  BY <1>5 DEF Api!ApiNext

\* exit_environment is ApiExit.
LEMMA ExitRefines ==
  ASSUME RefinementInv, NEW id \in EnvId, NEW keep \in BOOLEAN, ExitEnvironment(id, keep)
  PROVE  Api!ApiNext
<1>1. pc = "idle" /\ state \in {"Ready", "ReadyEnding"}
  BY DEF ExitEnvironment
<1>2. environmentsEntered # <<>> /\ id = environmentsEntered[Len(environmentsEntered)]
  BY DEF ExitEnvironment, Innermost
<1>3. /\ environmentsEntered' = SubSeq(environmentsEntered, 1, Len(environmentsEntered) - 1)
      /\ endingOnly' = (endingOnly \/ ~keep)
  BY Zenon DEF ExitEnvironment
<1>4. environments[id].onExit \in BOOLEAN
  <2>1. environments[id] \in Environment
    <3>1. environmentsEntered \in Seq(EnvId)
      BY DEF RefinementInv, StackInv, TypeOK, EnvTypeOK
    <3>2. Len(environmentsEntered) \in DOMAIN environmentsEntered
      BY <1>2, <3>1
    <3>3. environments[id] # NoEnv
      BY <1>2, <3>2 DEF RefinementInv, StackInv, StackMatchesEnvironments
    <3> QED
      BY <3>3 DEF RefinementInv, StackInv, TypeOK, EnvTypeOK
  <2> QED
    BY <2>1, ConstantsAssumption DEF ConstantsAssumption
<1>5. IF environments[id].onExit THEN Api!Starts
      ELSE Api!ReturnsAtOnce(IF endingOnly' THEN "ReadyEnding" ELSE "Ready")
  <2>1. CASE environments[id].onExit
    BY <1>1, <2>1, BeginStarts, SMTT(30) DEF ExitEnvironment
  <2>2. CASE ~environments[id].onExit
    BY <1>1, <2>2, FinishReturns DEF ExitEnvironment
  <2> QED
    BY <2>1, <2>2, SMTT(30)
<1>6. Api!ApiExit(id, keep, environments[id].onExit)
  BY <1>1, <1>2, <1>3, <1>5 DEF Api!ApiExit, CallerState
<1> QED
  BY <1>4, <1>6 DEF Api!ApiNext

\* Every call of the owner is a call of SessionApi.
LEMMA CallRefines ==
  ASSUME RefinementInv, Call
  PROVE  Api!ApiNext
<1>1. CASE RunTask \/ RunSubprocess
  <2>1. pc = "idle" /\ CallerState = "Ready" /\ UNCHANGED <<environmentsEntered, endingOnly>>
    BY <1>1 DEF RunTask, RunSubprocess, CallerState
  <2>2. Api!Starts
    BY <1>1, <2>1, BeginStarts DEF RunTask, RunSubprocess
  <2>3. Api!ApiRun
    BY <2>1, <2>2 DEF Api!ApiRun
  <2> QED
    BY <2>3 DEF Api!ApiNext
<1>2. CASE Cleanup
  <2>1. pc = "idle" /\ pc' = "idle" /\ state' = "Ended" /\ ~cleanupCalled
        /\ UNCHANGED <<actionState, environmentsEntered, endingOnly, parentCancelled>>
    BY <1>2 DEF Cleanup
  <2>2. CallerState \in {"Ready", "ReadyEnding"}
    BY <2>1 DEF RefinementInv, SafetyInv, ControlInv, FutureInv, NeverWedged, TypeOK, OwnerTypeOK,
       SessionState, CallerState
  <2>3. UNCHANGED <<FutureVerdict, LastOk>> /\ CallerState' = "Ended"
    BY <2>1 DEF FutureVerdict, LastOk, CallerState
  <2>4. Api!ApiCleanup
    BY <2>1, <2>2, <2>3 DEF Api!ApiCleanup, LastOk
  <2> QED
    BY <2>4 DEF Api!ApiNext
<1> QED
  BY Zenon, <1>1, <1>2, EnterRefines, EnterFailRefines, ExitRefines DEF Call

\* The setup of an action, the messages it sends and the decision about its
\* status are invisible to the caller, who waits.
LEMMA DriveStutters ==
  ASSUME RefinementInv, SetAction \/ SetupDone \/ ApplyMessage \/ Decide
  PROVE  UNCHANGED Api!apiVars
<1>1. /\ pc # "idle" /\ pc' # "idle"
      /\ UNCHANGED <<environmentsEntered, endingOnly, parentCancelled>>
  BY ApplyFrame DEF SetAction, SetupDone, Decide, FutureOver, ApplyMessage
<1>2. fut' = fut \/ (fut = NoFuture /\ fut'.phase = "launching")
  BY DEF RefinementInv, SafetyInv, ControlInv, FutureInv, SetAction, SetupDone, Decide, ApplyMessage, NoFuture
<1>3. FutureVerdict' = FutureVerdict
  BY <1>1, <1>2 DEF FutureVerdict, NoFuture
<1> QED
  BY <1>1, <1>3, Stutters DEF CallerState, LastOk

\* Every way an action ends is ApiFinish.
LEMMA EndRefines ==
  ASSUME RefinementInv, SetupFails \/ DriveError \/ Settle
  PROVE  Api!ApiFinish
<1>1. /\ pc # "idle" /\ pc' = "idle" /\ fut' = NoFuture
      /\ UNCHANGED <<environmentsEntered, endingOnly, parentCancelled>>
  BY EndFrame DEF SetupFails, DriveError, Settle, FutureOver
<1>2. CallerState = "Busy" /\ CallerState' = state' /\ FutureVerdict' = "none"
  BY <1>1 DEF CallerState, FutureVerdict
<1>3. /\ LastOk' <=> FutureVerdict = "ok"
      /\ state' = IF FutureVerdict = "ok" /\ ~endingOnly THEN "Ready" ELSE "ReadyEnding"
  <2>1. CASE SetupFails
    BY <1>1, <2>1 DEF SetupFails, FailAction, EndAction, FutureVerdict, LastOk, NoFuture,
       RefinementInv, SafetyInv, ControlInv, FutureInv
  <2>2. CASE DriveError
    BY <1>1, <2>2 DEF DriveError, FailAction, EndAction, FutureVerdict, LastOk
  <2>3. CASE Settle
    <3>1. /\ pc = "settling" /\ actionState' = actionState
          /\ state' = IF (endingOnly /\ ~(HasHelper /\ op.kind = "subprocess")) \/ actionState # "Success"
                      THEN "ReadyEnding" ELSE "Ready"
      BY <2>3 DEF Settle, EndAction
    <3>2. FutureVerdict = "ok" <=> actionState = "Success"
      BY <3>1 DEF FutureVerdict, RefinementInv, VerdictInv, SafetyInv, ControlInv, FutureInv
    <3>3. endingOnly => op.kind = "exit"
      BY <3>1 DEF RefinementInv, SafetyInv, EndingOnlyIsFinal
    <3> QED
      BY <1>1, <3>1, <3>2, <3>3 DEF LastOk
  <2> QED
    BY <2>1, <2>2, <2>3
<1> QED
  BY <1>1, <1>2, <1>3, SMTT(30) DEF Api!ApiFinish, LastOk

\* A step of the future is invisible until it ends, and then ApiDecide: without
\* a helper it is no success once the parent token is cancelled.
LEMMA FutureRefines ==
  ASSUME RefinementInv, Future
  PROVE  Api!ApiNext \/ UNCHANGED Api!apiVars
<1>1. /\ pc = "driving" /\ pc' = "driving"
      /\ UNCHANGED <<environmentsEntered, endingOnly, parentCancelled, cancel, helper>>
  BY FutureFrame
<1>2. TypeOK
  BY DEF RefinementInv, SafetyInv
<1>3. CallerState = "Busy" /\ CallerState' = "Busy" /\ LastOk = FALSE /\ LastOk' = FALSE
  BY <1>1 DEF CallerState, LastOk
<1>4. fut.phase # "done" /\ FutureVerdict = "none"
  BY <1>2, FutureResult DEF FutureVerdict
<1>5. CASE fut'.phase # "done"
  BY <1>1, <1>3, <1>4, <1>5, Stutters, Zenon DEF FutureVerdict
<1>6. CASE fut'.phase = "done"
  <2>1. FutureVerdict' = IF fut'.res = "Success" THEN "ok" ELSE "bad"
    BY <1>1, <1>6 DEF FutureVerdict
  <2>2. fut'.res = "Success" => ~(InitialHelper = {"absent"} /\ parentCancelled)
    <3> SUFFICES ASSUME fut'.res = "Success", InitialHelper = {"absent"}, parentCancelled
                 PROVE  FALSE
      OBVIOUS
    <3>1. ~HasHelper /\ cancel.token = "cancelled"
      BY <1>1 DEF HasHelper, RefinementInv, VerdictInv, SafetyInv, ControlInv, DeliveryInv
    <3>2. PICK z \in BOOLEAN : fut'.res = Classify(z)
      BY <1>2, <1>6, FutureResult
    <3> QED
      BY <3>1, <3>2 DEF Classify
  <2>3. Api!ApiDecide(fut'.res = "Success")
    BY <1>1, <1>3, <1>4, <2>1, <2>2 DEF Api!ApiDecide, LastOk
  <2>4. (fut'.res = "Success") \in BOOLEAN
    OBVIOUS
  <2> QED
    BY <2>3, <2>4, Zenon DEF Api!ApiNext
<1> QED
  BY <1>5, <1>6

\* A handle works on state no caller sees.
LEMMA HandleStutters ==
  ASSUME Handle
  PROVE  UNCHANGED Api!apiVars
<1>1. HandleStep
  BY HandleFrame
<1> QED
  BY <1>1, Stutters DEF HandleStep, CallerState, FutureVerdict, LastOk

\* Cancelling the parent token is ApiCancelToken.
LEMMA ParentRefines ==
  ASSUME RefinementInv, ParentCancel
  PROVE  Api!ApiNext
<1>1. ~parentCancelled /\ parentCancelled'
      /\ UNCHANGED <<state, pc, actionState, fut, environmentsEntered, endingOnly>>
  BY Zenon DEF ParentCancel
<1>2. UNCHANGED <<CallerState, FutureVerdict, LastOk>>
  BY <1>1 DEF CallerState, FutureVerdict, LastOk
<1>3. parentCancelled' = TRUE
  BY DEF ParentCancel
<1>4. Api!ApiCancelToken
  BY <1>1, <1>2, <1>3 DEF Api!ApiCancelToken, LastOk
<1> QED
  BY <1>4 DEF Api!ApiNext

\* Every step of a session is a step of SessionApi, or a stutter.
LEMMA StepRefines == RefinementInv /\ [Next]_vars => [Api!ApiNext]_(Api!apiVars)
<1> SUFFICES ASSUME RefinementInv, [Next]_vars
             PROVE  Api!ApiNext \/ UNCHANGED Api!apiVars
  OBVIOUS
<1>1. CASE Call
  BY <1>1, CallRefines
<1>2. CASE Drive
  <2>1. CASE SetupFails \/ DriveError \/ Settle
    BY <2>1, EndRefines DEF Api!ApiNext
  <2> QED
    BY Zenon, <1>2, <2>1, DriveStutters DEF Drive
<1>3. CASE Future
  BY <1>3, FutureRefines
<1>4. CASE Handle
  BY <1>4, HandleStutters
<1>5. CASE ParentCancel
  BY <1>5, ParentRefines
<1>6. CASE UNCHANGED vars
  BY <1>6, Stutters DEF vars, CallerState, FutureVerdict, LastOk
<1> QED
  BY Zenon, <1>1, <1>2, <1>3, <1>4, <1>5, <1>6 DEF Next

\* A new session is SessionApi's initial state.
LEMMA InitRefines == Init => Api!ApiInit /\ VerdictInv
BY DEF Init, Api!ApiInit, VerdictInv, CallerState, FutureVerdict, NoFuture, NoCancel

\* A session keeps every promise of SessionApi, with any environments, any
\* number of cancels, and with and without a helper.
THEOREM SessionImplementsApi == Spec => ImplementsApi
<1>1. RefinementInv /\ [Next]_vars => VerdictInv'
  BY VerdictStep
<1>2. RefinementInv <=> SafetyInv /\ StackInv /\ VerdictInv
  BY DEF RefinementInv
<1> HIDE DEF flags, envs, status, canc, run
<1> QED
  BY Safety, InitStack, StackStep, InitRefines, StepRefines, <1>1, <1>2, PTL DEF Spec, ImplementsApi, Api!ApiSpec
=============================================================================
