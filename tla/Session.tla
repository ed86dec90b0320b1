------------------------------- MODULE Session -------------------------------
(***************************************************************************)
(* The lifecycle of an openjd-sessions Session (session.rs): a stack of    *)
(* environments, at most one action in flight, the cancel state that is    *)
(* shared with SessionCancelHandle, and the message channel between the    *)
(* action's future and drive_action.                                       *)
(*                                                                         *)
(* Who runs:                                                               *)
(*   - the owner of the Session (&mut self): the caller's operations, the  *)
(*     setup of an action and drive_action.  Its control state is pc;      *)
(*   - a holder of a SessionCancelHandle, on a thread of its own.  Its     *)
(*     control state is handle: a delivery holds the shared lock from its  *)
(*     first step to its last, so the owner's locking steps wait for it;   *)
(*   - the holder of the parent CancellationToken;                         *)
(*   - the action's future and the process behind it (fut), reduced here   *)
(*     to what drive_action can see.                                       *)
(* A call the code rejects (Err before any assignment) changes nothing and *)
(* is a stuttering step.                                                   *)
(***************************************************************************)
EXTENDS Naturals, Sequences, Functions

CONSTANTS EnvId,             \* identifiers callers use for environments
          VarName, Value,    \* environment variables and their values
          Environment,       \* environment templates a caller may enter
          InitialHelper,     \* "session": actions run through a cross-user helper; "absent": not
          HasParentToken,    \* SessionConfig::cancel_token was given
          RetainWorkingDir,  \* SessionConfig::retain_working_dir
          RedactionsEnabled, \* Session::redactions_enabled()
          MaxPending,        \* bound on messages waiting in the channel
          NoEnv, NoId,       \* no environment, no identifier
          NoChange, Unset    \* a variable left alone, a variable removed

WrapHook == {"enter", "exit", "task"}
Change == Value \cup {NoChange, Unset}

ASSUME ConstantsAssumption ==
  /\ Environment \subseteq [onEnter : BOOLEAN, onExit : BOOLEAN,
                            wrap : SUBSET WrapHook, files : BOOLEAN,
                            variables : [VarName -> Value \cup {NoChange}]]
  /\ NoEnv \notin Environment
  /\ NoId \notin EnvId
  /\ {NoChange, Unset} \cap Value = {} /\ NoChange # Unset
  /\ InitialHelper \subseteq {"session", "absent"}
  /\ {HasParentToken, RetainWorkingDir, RedactionsEnabled} \subseteq BOOLEAN
  /\ MaxPending \in Nat \ {0}

VARIABLES
  state,               \* SessionState
  endingOnly,          \* ending_only
  cleanupCalled,
  environments,        \* id -> the environment stored under it, or NoEnv
  environmentsEntered, \* the stack, outermost first
  createdEnvVars,      \* id -> variable -> last change recorded for it
  wrapEnvFileRecords,  \* ids whose embedded-file paths are cached
  actionState,         \* ActionStatusFields::state
  failMessage,         \* fail_message is Some
  cancel,              \* CancelShared: token, request (the watch fired), markFailed
  parentCancelled,     \* the parent token is cancelled
  handle,              \* progress of a SessionCancelHandle::cancel call
  helper,              \* where the CrossUserHelper value is
  pc, op,              \* the owner's control point and the operation it is in
  actionEnv,           \* env vars evaluated for the action
  fut,                 \* the action's future
  pipeCancel,          \* the helper has been told to stop the running process
  msgs,                \* messages sent by the future, not yet applied
  accepted             \* history: a cancel (with mark_action_failed or without)
                       \* was delivered before the future ended

envs   == <<environments, environmentsEntered, createdEnvVars, wrapEnvFileRecords>>
flags  == <<endingOnly, cleanupCalled>>
status == <<actionState, failMessage>>
canc   == <<cancel, parentCancelled, handle>>
run    == <<fut, pipeCancel, msgs>>
vars   == <<state, flags, envs, status, canc, helper, pc, op, actionEnv, run, accepted>>

SessionState == {"Ready", "Running", "Canceling", "ReadyEnding", "Ended"}
Terminal == {"Success", "Failed", "Canceled", "Timeout"}
ActionState == {"None", "Running"} \cup Terminal
ActionMessage == [kind : {"report", "fail", "cancelMarkFailed"}]
                 \cup [kind : {"setEnv", "redactedEnv"}, name : VarName, value : Value]
                 \cup [kind : {"unsetEnv"}, name : VarName]
Operation == [kind : {"enter", "exit", "task", "subprocess"}, id : EnvId \cup {NoId}]
CancelShared == [token : {"none", "live", "cancelled"}, request : BOOLEAN, markFailed : BOOLEAN]
ActionFuture == [phase : {"none", "launching", "running", "stopping", "done"},
                 res : {"None", "Err"} \cup Terminal, sawFail : BOOLEAN, timedOut : BOOLEAN]

NoCancel == [token |-> "none", request |-> FALSE, markFailed |-> FALSE]
NoFuture == [phase |-> "none", res |-> "None", sawFail |-> FALSE, timedOut |-> FALSE]
NoVars == [v \in VarName |-> NoChange]
NoOp == [kind |-> "task", id |-> NoId]

\* cross_user_helper.is_some(), wherever the helper is: dispatch takes run_via_helper.
HasHelper == helper # "absent"

Init ==
  /\ state = "Ready" /\ endingOnly = FALSE /\ cleanupCalled = FALSE
  /\ environments = [i \in EnvId |-> NoEnv]
  /\ environmentsEntered = <<>>
  /\ createdEnvVars = [i \in EnvId |-> NoVars]
  /\ wrapEnvFileRecords = {}
  /\ actionState = "None" /\ failMessage = FALSE
  /\ cancel = NoCancel /\ parentCancelled = FALSE
  /\ handle = "idle"
  /\ helper \in InitialHelper
  /\ pc = "idle" /\ op = NoOp /\ actionEnv = NoVars
  /\ fut = NoFuture /\ pipeCancel = FALSE /\ msgs = <<>>
  /\ accepted = "none"

-----------------------------------------------------------------------------
(* Environment variables and wrap hooks.                                     *)

Override(base, changes) ==
  [v \in VarName |-> IF changes[v] = NoChange THEN base[v] ELSE changes[v]]

\* The session's contribution to an action's environment: the changes of the
\* entered environments, outermost first, a later one overriding an earlier.
EvaluateEnvVars(entered) ==
  LET upTo[n \in 0..Len(entered)] ==
        IF n = 0 THEN NoVars ELSE Override(upTo[n - 1], createdEnvVars[entered[n]])
  IN  upTo[Len(entered)]

\* The environment that must be exited next.
Innermost == environmentsEntered[Len(environmentsEntered)]

HasAnyWrapHook(env) == env.wrap # {}

\* The ids of the wrap environments on the stack, apart from the one named.
WrapEnvs(self) ==
  {i \in Range(environmentsEntered) \ {self} : HasAnyWrapHook(environments[i])}

\* The innermost wrap environment, if it has the hook for this kind of action.
\* An environment never wraps its own onEnter; on exit it is already popped.
WrappingEnvs(o) ==
  LET ids == WrapEnvs(o.id)
      Position(i) == CHOOSE n \in DOMAIN environmentsEntered : environmentsEntered[n] = i
  IN  {i \in ids : /\ \A j \in ids : Position(j) <= Position(i)
                   /\ o.kind \in environments[i].wrap}

\* Mutant: file paths are cached for the environment being entered or exited.
AllocatedForInner(o) == {i \in {o.id} \cap EnvId : WrappingEnvs(o) # {}}

\* ensure_wrap_env_files: the ids whose file paths the wrap setup allocates.
AllocatedFiles(o) == {i \in WrappingEnvs(o) : environments[i].files}

-----------------------------------------------------------------------------
(* Operations of the owner.                                                  *)

\* action.reset, state := Running, notify_callback.
BeginAction(o) ==
  /\ actionState' = "Running" /\ failMessage' = FALSE
  /\ state' = "Running"
  /\ pc' = "starting" /\ op' = o
  /\ accepted' = "none"
  /\ UNCHANGED <<cleanupCalled, canc, helper, run>>

\* An environment without the script action: Success at once.
FinishWithoutAction(newState) ==
  /\ actionState' = "Success" /\ failMessage' = FALSE
  /\ state' = newState
  /\ accepted' = "none"
  /\ UNCHANGED <<cleanupCalled, canc, helper, pc, op, run, actionEnv>>

\* Mutant: no check for an identifier that is already in use.
EnterableTwice(id, env) ==
  /\ pc = "idle" /\ state = "Ready"
  /\ HasAnyWrapHook(env) => WrapEnvs(NoId) = {}

Enterable(id, env) ==
  /\ pc = "idle" /\ state = "Ready"
  /\ HasAnyWrapHook(env) => WrapEnvs(NoId) = {}
  /\ environments[id] = NoEnv

Push(id, env, recorded) ==
  /\ environments' = [environments EXCEPT ![id] = env]
  /\ environmentsEntered' = Append(environmentsEntered, id)
  /\ createdEnvVars' = [createdEnvVars EXCEPT ![id] = recorded]
  /\ UNCHANGED wrapEnvFileRecords

EnterEnvironment(id, env) ==
  /\ Enterable(id, env)
  /\ Push(id, env, env.variables)
  /\ UNCHANGED endingOnly
  /\ IF env.onEnter
     THEN BeginAction([kind |-> "enter", id |-> id]) /\ UNCHANGED actionEnv
     ELSE FinishWithoutAction(state)

\* A static variable does not resolve (or has a NUL, or is too long): the
\* environment stays on the stack with the variables recorded before it.
EnterVariablesFail(id, env, done) ==
  /\ Enterable(id, env)
  /\ \E v \in VarName \ done : env.variables[v] # NoChange
  /\ Push(id, env, [v \in VarName |-> IF v \in done THEN env.variables[v] ELSE NoChange])
  /\ UNCHANGED <<state, flags, status, canc, helper, pc, op, actionEnv, run, accepted>>

ExitEnvironment(id, keepSessionRunning) ==
  /\ pc = "idle" /\ state \in {"Ready", "ReadyEnding"}
  /\ environmentsEntered # <<>> /\ id = Innermost
  /\ endingOnly' = (endingOnly \/ ~keepSessionRunning)
  /\ environments' = [environments EXCEPT ![id] = NoEnv]
  /\ environmentsEntered' = SubSeq(environmentsEntered, 1, Len(environmentsEntered) - 1)
  /\ wrapEnvFileRecords' = IF HasAnyWrapHook(environments[id])
                           THEN wrapEnvFileRecords \ {id} ELSE wrapEnvFileRecords
  /\ UNCHANGED createdEnvVars
  /\ IF environments[id].onExit
     THEN /\ BeginAction([kind |-> "exit", id |-> id])
          /\ actionEnv' = EvaluateEnvVars(environmentsEntered)
     ELSE FinishWithoutAction(IF endingOnly' THEN "ReadyEnding" ELSE "Ready")

RunTask ==
  /\ pc = "idle" /\ state = "Ready"
  /\ BeginAction([kind |-> "task", id |-> NoId])
  /\ UNCHANGED <<endingOnly, envs, actionEnv>>

\* An empty command or a zero timeout is rejected before any change.
RunSubprocess ==
  /\ pc = "idle" /\ state = "Ready"
  /\ BeginAction([kind |-> "subprocess", id |-> NoId])
  /\ UNCHANGED <<endingOnly, envs, actionEnv>>

\* Idempotent, and allowed in every state the owner can be idle in.
Cleanup ==
  /\ pc = "idle" /\ ~cleanupCalled
  /\ cleanupCalled' = TRUE
  /\ state' = "Ended"
  /\ helper' = IF ~RetainWorkingDir /\ helper = "session" THEN "down" ELSE helper
  /\ UNCHANGED <<endingOnly, envs, status, canc, pc, op, actionEnv, run, accepted>>

-----------------------------------------------------------------------------
(* Setup of the action that BeginAction announced.                           *)

\* new_action_cancel_token and CancelFields::set_action: a child of the parent
\* token is born cancelled when the parent is.  mark_failed is not touched.
SetAction ==
  /\ pc = "starting" /\ handle = "idle"
  /\ cancel' = [cancel EXCEPT !.token = IF parentCancelled THEN "cancelled" ELSE "live",
                              !.request = FALSE]
  /\ pipeCancel' = FALSE
  /\ pc' = "setup"
  /\ actionEnv' \in CASE op.kind = "exit" -> {actionEnv}
                      [] op.kind = "subprocess" -> {NoVars, EvaluateEnvVars(environmentsEntered)}
                      [] OTHER -> {EvaluateEnvVars(environmentsEntered)}
  /\ UNCHANGED <<state, flags, envs, status, parentCancelled, handle, helper, op,
                 fut, msgs, accepted>>

\* Mutant: cancel.reset forgets mark_failed.
EndActionKeepsMark(newState) ==
  /\ cancel' = [NoCancel EXCEPT !.markFailed = cancel.markFailed]
  /\ state' = newState
  /\ pc' = "idle" /\ op' = NoOp /\ actionEnv' = NoVars
  /\ fut' = NoFuture /\ pipeCancel' = FALSE
  /\ helper' = IF helper = "runner" THEN "session" ELSE helper

\* Mutant: take_helper is skipped when the action did not succeed.
EndActionLosesHelper(newState) ==
  /\ cancel' = NoCancel
  /\ state' = newState
  /\ pc' = "idle" /\ op' = NoOp /\ actionEnv' = NoVars
  /\ fut' = NoFuture /\ pipeCancel' = FALSE
  /\ helper' = IF helper = "runner" /\ newState = "Ready" THEN "session" ELSE helper

\* The terminal bookkeeping shared by fail_action_setup and drive_action.
EndAction(newState) ==
  /\ cancel' = NoCancel
  /\ state' = newState
  /\ pc' = "idle" /\ op' = NoOp /\ actionEnv' = NoVars
  /\ fut' = NoFuture /\ pipeCancel' = FALSE
  /\ helper' = IF helper = "runner" THEN "session" ELSE helper

\* Mutant: an early return that leaves the session Running.
FailActionStaysRunning ==
  /\ actionState' = "Failed" /\ failMessage' = TRUE
  /\ EndAction(state)

FailAction ==
  /\ actionState' = "Failed" /\ failMessage' = TRUE
  /\ EndAction("ReadyEnding")

\* Path mapping, the wrapped action's scope, file paths, wrap symbols or file
\* contents fail: before or after the wrap environment's paths are cached.
SetupFails ==
  /\ pc = "setup" /\ op.kind # "subprocess" /\ handle = "idle"
  /\ wrapEnvFileRecords' \in {wrapEnvFileRecords, wrapEnvFileRecords \cup AllocatedFiles(op)}
  /\ FailAction
  /\ UNCHANGED <<flags, environments, environmentsEntered, createdEnvVars,
                 parentCancelled, handle, msgs, accepted>>

\* set_terminate_delay (a lock), the helper moves into the runner, drive_action
\* starts.  run_subprocess has no setup, and lends the helper without moving it.
SetupDone ==
  /\ pc = "setup"
  /\ pc' = "driving"
  /\ fut' = [NoFuture EXCEPT !.phase = "launching"]
  /\ IF op.kind = "subprocess"
     THEN UNCHANGED <<wrapEnvFileRecords, helper>>
     ELSE /\ handle = "idle"
          /\ wrapEnvFileRecords' = wrapEnvFileRecords \cup AllocatedFiles(op)
          /\ helper' = IF helper = "session" THEN "runner" ELSE helper
  /\ UNCHANGED <<state, flags, environments, environmentsEntered, createdEnvVars, status,
                 canc, op, actionEnv, pipeCancel, msgs, accepted>>

-----------------------------------------------------------------------------
(* The action's future.                                                      *)

FutureStep(f) ==
  /\ pc = "driving" /\ fut' = f
  /\ UNCHANGED <<state, flags, envs, status, canc, helper, pc, op, actionEnv, pipeCancel>>

Alive == fut.phase \in {"running", "stopping"}

\* The process is spawned, or the run command is written to the helper.
Launch ==
  /\ fut.phase = "launching"
  /\ FutureStep([fut EXCEPT !.phase = "running"])
  /\ UNCHANGED <<msgs, accepted>>

\* The runner returns Err: something does not resolve or does not start, or
\* the helper's pipe fails under a running action.
FutureError ==
  /\ fut.phase = "launching" \/ (HasHelper /\ Alive)
  /\ FutureStep([fut EXCEPT !.phase = "done", !.res = "Err"])
  /\ UNCHANGED <<msgs, accepted>>

\* A line of output carries a directive (process_line).
Emit(m) ==
  /\ Alive /\ Len(msgs) < MaxPending
  /\ FutureStep([fut EXCEPT !.sawFail = @ \/ m.kind = "fail"])
  /\ msgs' = Append(msgs, m)
  /\ UNCHANGED accepted

\* Mutant: the future watches the session state, which a handle cannot set.
ObserveCanceling ==
  /\ fut.phase = "running"
  /\ state = "Canceling"
  /\ FutureStep([fut EXCEPT !.phase = "stopping"])
  /\ UNCHANGED <<msgs, accepted>>

\* Through the token in a same-user session, through the helper's pipe
\* otherwise (run_via_helper has no token).
CancelReachesProcess == IF HasHelper THEN pipeCancel ELSE cancel.token = "cancelled"

\* The cancel takes hold of the process.
ObserveCancel ==
  /\ fut.phase = "running"
  /\ CancelReachesProcess
  /\ FutureStep([fut EXCEPT !.phase = "stopping"])
  /\ UNCHANGED <<msgs, accepted>>

\* A same-user timeout is ignored once a cancel is in progress.
TimeoutExpires ==
  /\ ~fut.timedOut
  /\ fut.phase = "running" \/ (HasHelper /\ fut.phase = "stopping")
  /\ FutureStep([fut EXCEPT !.phase = "stopping", !.timedOut = TRUE])
  /\ UNCHANGED <<msgs, accepted>>

ExitState(exitedZero) ==
  IF ~fut.sawFail /\ exitedZero THEN "Success" ELSE "Failed"

\* How run_subprocess and run_via_helper classify the end of the process.
Classify(exitedZero) ==
  IF HasHelper
  THEN CASE cancel.request -> "Canceled"
         [] ~cancel.request /\ fut.timedOut -> "Timeout"
         [] OTHER -> ExitState(exitedZero)
  ELSE CASE fut.timedOut -> "Timeout"
         [] ~fut.timedOut /\ cancel.token = "cancelled" -> "Canceled"
         [] OTHER -> ExitState(exitedZero)

Complete(exitedZero) ==
  /\ Alive
  /\ FutureStep([fut EXCEPT !.phase = "done", !.res = Classify(exitedZero)])
  /\ UNCHANGED <<msgs, accepted>>

-----------------------------------------------------------------------------
(* drive_action.                                                             *)

\* cancel_action as apply_message calls it: refused unless state is Running.
CancelMarkFailed ==
  IF state = "Running"
  THEN /\ state' = "Canceling"
       /\ cancel' = [token |-> "cancelled", request |-> TRUE, markFailed |-> TRUE]
       /\ pipeCancel' = (pipeCancel \/ (HasHelper /\ Alive))
       /\ accepted' = IF fut.phase = "done" THEN accepted
                      ELSE "mark"
  ELSE UNCHANGED <<state, cancel, pipeCancel, accepted>>

\* Mutant: changes go to the innermost environment, whoever printed them.
RecordInnermost(name, change) ==
  IF environmentsEntered # <<>>
  THEN createdEnvVars' = [createdEnvVars EXCEPT ![Innermost][name] = change]
  ELSE UNCHANGED createdEnvVars

RecordChange(name, change) ==
  IF op.id \in EnvId
  THEN createdEnvVars' = [createdEnvVars EXCEPT ![op.id][name] = change]
  ELSE UNCHANGED createdEnvVars

\* apply_message: in the loop while the future runs, in the drain after it;
\* run_subprocess_via_helper only drains.
ApplyMessage ==
  /\ pc = "driving" /\ msgs # <<>>
  /\ (HasHelper /\ op.kind = "subprocess") => fut.phase = "done"
  /\ msgs' = Tail(msgs)
  /\ LET m == Head(msgs) IN
     /\ failMessage' = (failMessage \/ m.kind \in {"fail", "cancelMarkFailed"})
     /\ IF m.kind = "cancelMarkFailed" THEN handle = "idle" /\ CancelMarkFailed
        ELSE UNCHANGED <<state, cancel, pipeCancel, accepted>>
     /\ CASE m.kind = "setEnv" -> RecordChange(m.name, m.value)
          [] m.kind = "redactedEnv" /\ RedactionsEnabled -> RecordChange(m.name, m.value)
          [] m.kind = "unsetEnv" -> RecordChange(m.name, Unset)
          [] OTHER -> UNCHANGED createdEnvVars
  /\ UNCHANGED <<flags, environments, environmentsEntered, wrapEnvFileRecords, actionState,
                 parentCancelled, handle, helper, pc, op, actionEnv, fut>>

FutureOver == pc = "driving" /\ fut.phase = "done" /\ msgs = <<>> /\ handle = "idle"

DriveError ==
  /\ FutureOver /\ fut.res = "Err"
  /\ FailAction
  /\ UNCHANGED <<flags, envs, parentCancelled, handle, msgs, accepted>>

FinalState ==
  IF cancel.markFailed /\ fut.res = "Canceled" THEN "Failed" ELSE fut.res

\* The final state is decided under the lock, which is then released ...
Decide ==
  /\ FutureOver /\ fut.res # "Err"
  /\ actionState' = FinalState
  /\ pc' = "settling"
  /\ UNCHANGED <<state, flags, envs, failMessage, canc, helper, op, actionEnv, run, accepted>>

\* Mutant: a successful action makes the session Ready, ending or not.
SettleIgnoresEnding ==
  /\ pc = "settling" /\ handle = "idle"
  /\ EndAction(IF actionState # "Success" THEN "ReadyEnding" ELSE "Ready")
  /\ UNCHANGED <<flags, envs, status, parentCancelled, handle, msgs, accepted>>

\* ... and taken again by cancel.reset.  run_subprocess_via_helper does not
\* look at ending_only.
Settle ==
  /\ pc = "settling" /\ handle = "idle"
  /\ LET ending == endingOnly /\ ~(HasHelper /\ op.kind = "subprocess")
     IN  EndAction(IF ending \/ actionState # "Success" THEN "ReadyEnding" ELSE "Ready")
  /\ UNCHANGED <<flags, envs, status, parentCancelled, handle, msgs, accepted>>

-----------------------------------------------------------------------------
(* Cancelation from other threads.                                           *)

HandleStep ==
  UNCHANGED <<state, flags, envs, status, parentCancelled, helper, pc, op, actionEnv,
              fut, msgs>>

\* SessionCancelHandle::cancel with an action registered: the lock is taken,
\* mark_failed set and the helper's pipe written.  A command the helper reads
\* before the run command finds it idle and is dropped.
HandleCancel(mark) ==
  /\ handle = "idle" /\ cancel.token # "none"
  /\ handle' = "piped"
  /\ cancel' = [cancel EXCEPT !.markFailed = @ \/ mark]
  /\ pipeCancel' = (pipeCancel \/ (HasHelper /\ Alive))
  /\ HandleStep /\ UNCHANGED accepted

\* Mutant: the cancel request is not sent over the watch channel.
HandleSkipsSend ==
  /\ handle = "piped"
  /\ handle' = "sent"
  /\ HandleStep /\ UNCHANGED <<cancel, pipeCancel, accepted>>

HandleSend ==
  /\ handle = "piped"
  /\ handle' = "sent"
  /\ cancel' = [cancel EXCEPT !.request = TRUE]
  /\ HandleStep /\ UNCHANGED <<pipeCancel, accepted>>

\* token.cancel(), the lock is released and the call returns true.
HandleReturn ==
  /\ handle = "sent"
  /\ handle' = "idle"
  /\ cancel' = [cancel EXCEPT !.token = "cancelled"]
  /\ accepted' = IF fut.phase = "done" THEN accepted
                 ELSE IF cancel.markFailed THEN "mark" ELSE "cancel"
  /\ HandleStep /\ UNCHANGED pipeCancel

ParentCancel ==
  /\ HasParentToken /\ ~parentCancelled
  /\ parentCancelled' = TRUE
  /\ cancel' = IF cancel.token = "none" THEN cancel
               ELSE [cancel EXCEPT !.token = "cancelled"]
  /\ UNCHANGED <<state, flags, envs, status, handle, helper, pc, op, actionEnv, run, accepted>>

-----------------------------------------------------------------------------
Call ==
  \/ \E id \in EnvId, env \in Environment : EnterEnvironment(id, env)
  \/ \E id \in EnvId, env \in Environment, done \in SUBSET VarName :
        EnterVariablesFail(id, env, done)
  \/ \E id \in EnvId, keep \in BOOLEAN : ExitEnvironment(id, keep)
  \/ RunTask
  \/ RunSubprocess
  \/ Cleanup

Drive ==
  \/ SetAction
  \/ SetupDone
  \/ SetupFails
  \/ ApplyMessage
  \/ DriveError
  \/ Decide
  \/ Settle

Future ==
  \/ Launch
  \/ FutureError
  \/ \E m \in ActionMessage : Emit(m)
  \/ ObserveCancel
  \/ TimeoutExpires
  \/ \E z \in BOOLEAN : Complete(z)

Handle ==
  \/ \E mark \in BOOLEAN : HandleCancel(mark)
  \/ HandleSend
  \/ HandleReturn

Next == Call \/ Drive \/ Future \/ Handle \/ ParentCancel

\* A process that has been told to stop is killed at the latest when its grace
\* period ends.  The owner competes with the handle for the lock: Drive is
\* strongly fair because a lock that is free again and again is obtained.
StopCompletes == fut.phase = "stopping" /\ \E z \in BOOLEAN : Complete(z)

Fairness ==
  /\ SF_vars(Drive)
  /\ WF_vars(fut.phase = "launching" /\ (Launch \/ FutureError))
  /\ WF_vars(ObserveCancel)
  /\ WF_vars(StopCompletes)
  /\ WF_vars(HandleSend \/ HandleReturn)

Spec == Init /\ [][Next]_vars

FairSpec == Spec /\ Fairness

-----------------------------------------------------------------------------
(* Properties.                                                               *)

EnvTypeOK ==
  /\ environments \in [EnvId -> Environment \cup {NoEnv}]
  /\ environmentsEntered \in Seq(EnvId)
  /\ createdEnvVars \in [EnvId -> [VarName -> Change]]
  /\ wrapEnvFileRecords \subseteq EnvId

OwnerTypeOK ==
  /\ state \in SessionState
  /\ actionState \in ActionState
  /\ helper \in {"absent", "session", "runner", "down"}
  /\ pc \in {"idle", "starting", "setup", "driving", "settling"}
  /\ op \in Operation

FlagTypeOK ==
  /\ endingOnly \in BOOLEAN /\ cleanupCalled \in BOOLEAN /\ failMessage \in BOOLEAN
  /\ parentCancelled \in BOOLEAN /\ pipeCancel \in BOOLEAN

CancelTypeOK ==
  /\ cancel \in CancelShared
  /\ handle \in {"idle", "piped", "sent"}
  /\ accepted \in {"none", "cancel", "mark"}

FutureTypeOK ==
  /\ fut \in ActionFuture
  /\ msgs \in Seq(ActionMessage)

\* The type invariant: every field of Session keeps its Rust type's values
\* (actionEnv apart, whose value SeesLiveVariables gives exactly).
TypeOK == EnvTypeOK /\ OwnerTypeOK /\ FlagTypeOK /\ CancelTypeOK /\ FutureTypeOK

\* Every way out of an action (success, failed setup, runner error, cancel)
\* leaves Running and Canceling and reports a terminal ActionStatus, so that a
\* caller polling for completion never hangs (fail_action_setup's contract).
NeverWedged ==
  /\ state \in {"Running", "Canceling"} <=> pc # "idle"
  /\ pc = "idle" => actionState # "Running"
  /\ pc \in {"starting", "setup", "driving"} => actionState = "Running"

\* No cancel outlives its action: whenever no action is registered the token,
\* the request and mark_failed are clear, no delivery is under way and no
\* message is left, so that the next action starts from fresh cancel state.
CancelStateFresh ==
  pc \in {"idle", "starting"} =>
    cancel = NoCancel /\ handle = "idle" /\ msgs = <<>> /\ fut = NoFuture

\* Once a caller starts tearing the session down (exit_environment without
\* keep_session_running) it is never Ready again and runs nothing but onExit.
EndingOnlyIsFinal ==
  endingOnly => state # "Ready" /\ (pc # "idle" => op.kind = "exit")

\* environments and environments_entered describe the same set, without
\* duplicates: every failing path of enter and exit keeps the two in step.
StackMatchesEnvironments ==
  /\ \A i \in EnvId : environments[i] # NoEnv <=> \E n \in DOMAIN environmentsEntered :
                                                     environmentsEntered[n] = i
  /\ \A m, n \in DOMAIN environmentsEntered :
        environmentsEntered[m] = environmentsEntered[n] => m = n

\* RFC 0008's single-layer rule: at most one entered environment has a wrap
\* hook, and only its embedded-file paths are cached, also when a wrapped
\* action failed half way through its setup or the environment was exited.
OneWrapLayer ==
  /\ \A i, j \in EnvId : /\ environments[i] # NoEnv /\ environments[i].wrap # {}
                         /\ environments[j] # NoEnv /\ environments[j].wrap # {}
                         => i = j
  /\ \A i \in wrapEnvFileRecords : environments[i] # NoEnv /\ environments[i].wrap # {}

\* The helper that an action's runner took is back in the session whenever the
\* owner is idle, whatever way the action ended; cleanup can shut it down.
HelperComesBack ==
  /\ helper = "runner" => pc \in {"driving", "settling"}
  /\ helper = "down" => cleanupCalled /\ pc = "idle"

\* A cancel that was delivered before the future ended is honoured: the action
\* does not end in Success, and with mark_action_failed not in Canceled either.
AcceptedCancelIsHonoured ==
  pc \in {"idle", "settling"} =>
    /\ accepted # "none" => actionState # "Success"
    /\ accepted = "mark" => actionState \notin {"Success", "Canceled"}

\* What evaluate_env_vars should give: the change of the innermost environment
\* that has one.
InnermostChange(entered, v) ==
  LET ns == {n \in DOMAIN entered : createdEnvVars[entered[n]][v] # NoChange}
  IN  IF ns = {} THEN NoChange
      ELSE createdEnvVars[entered[CHOOSE n \in ns : \A m \in ns : m <= n]][v]

\* An action runs with the variables of the environments entered around it,
\* the innermost winning; an onExit action still sees its own environment's.
SeesLiveVariables ==
  pc = "setup" /\ op.kind # "subprocess" =>
    LET around == IF op.kind = "exit" THEN Append(environmentsEntered, op.id)
                  ELSE environmentsEntered
    IN  \A v \in VarName : actionEnv[v] = InnermostChange(around, v)

\* The variables the session offers change only when an environment is entered
\* or exited, or under the onEnter action of the innermost environment: never
\* by what a task, an ad-hoc subprocess or an onExit action prints.  Every
\* action starts with those of the environments around it.
VariablesFollowTheStack ==
  [][ /\ SeesLiveVariables'
      /\ \A v \in VarName :
           InnermostChange(environmentsEntered, v)' # InnermostChange(environmentsEntered, v) =>
             \/ environmentsEntered' # environmentsEntered
             \/ /\ pc = "driving" /\ op.kind = "enter"
                /\ op.id = Innermost ]_vars

\* A cancelled action ends, also when the cancel arrives during its setup; with
\* a helper, once the cancel command was written behind the run command.
CancelEndsAction == CancelReachesProcess ~> pc = "idle"

\* What the owner's program point says of the future, the channel and the
\* session state.
FutureInv ==
  /\ cleanupCalled <=> state = "Ended"
  /\ pc = "setup" => fut = NoFuture /\ msgs = <<>>
  /\ pc \in {"driving", "settling"} => fut.phase # "none"
  /\ pc = "settling" => /\ fut.phase = "done" /\ msgs = <<>>
                        /\ actionState \in Terminal
  /\ fut.phase = "done" => fut.res \in Terminal \cup {"Err"}

\* A delivered cancel stays visible to the future: the token, the request and
\* mark_failed survive until cancel.reset.
DeliveryInv ==
  /\ handle # "idle" => cancel.token # "none"
  /\ handle = "sent" => cancel.request
  /\ pc = "starting" => accepted = "none"
  /\ pc \in {"setup", "driving", "settling"} => cancel.token # "none"
  /\ accepted # "none" /\ pc \in {"setup", "driving"} =>
       /\ cancel.token = "cancelled" /\ cancel.request
       /\ fut.phase = "done" => fut.res # "Success"
  /\ accepted = "mark" /\ pc \in {"setup", "driving"} => cancel.markFailed

\* The control facts that make the safety invariants inductive.
ControlInv == FutureInv /\ DeliveryInv

-----------------------------------------------------------------------------
(***************************************************************************)
(* Session implements SessionApi.  Setup, the runner and drive_action are  *)
(* the inside of one Busy period; the verdict falls when the action's      *)
(* future ends, before drive_action has drained its messages, so a cancel  *)
(* that arrives between the two comes too late.                            *)
(***************************************************************************)
\* What a caller sees of Running and Canceling is that the call has not returned.
CallerState == IF pc = "idle" THEN state ELSE "Busy"

FutureVerdict ==
  CASE pc # "idle" /\ fut.phase = "done" /\ fut.res = "Success" -> "ok"
    [] pc # "idle" /\ fut.phase = "done" /\ fut.res # "Success" -> "bad"
    [] OTHER -> "none"

Api == INSTANCE SessionApi
         WITH Id <- EnvId,
              TokenHonoured <- (InitialHelper = {"absent"}),
              sessState <- CallerState,
              envStack <- environmentsEntered,
              sessEnding <- endingOnly,
              tokenDown <- parentCancelled,
              verdict <- FutureVerdict,
              lastOk <- (pc = "idle" /\ actionState = "Success")

\* Every step of a Session is a step of SessionApi or changes nothing a caller
\* can see: in particular a failed, cancelled or half set-up action always ends
\* the call in ReadyEnding, an action whose process outlived the cancelled
\* parent token never counts as a success, and nothing but enter and exit
\* changes the stack.  ReadyEnding is not the end of a session that failed: an
\* exit that keeps it running makes it Ready again, here and in SessionApi
\* (NoRecovery, below).
ImplementsApi == Api!ApiSpec

-----------------------------------------------------------------------------
(* Statements of the documentation that the code does not keep.              *)

\* session.md: after a failure or a cancelation the session is ReadyEnding, and
\* "there's no recovery path": it may be torn down and nothing else.  An exit
\* with keep_session_running recovers it, because a failure does not set
\* ending_only.
NoRecovery == [][state = "ReadyEnding" => state' # "Ready"]_vars

\* SessionCancelHandle::cancel returned true, "cancellation was delivered": the
\* action is stopped.
HandleCancelIsDelivered == accepted # "none" ~> pc = "idle"

=============================================================================
