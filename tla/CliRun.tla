------------------------------- MODULE CliRun -------------------------------
(***************************************************************************)
(* The `openjd run` command (openjd-cli run/mod.rs and run/execution.rs):  *)
(* preflight, entering environments, the steps and their tasks, unwinding, *)
(* and the verdict of the run, with the signal handler running beside it.  *)
(* The Session is the one SessionApi describes; CliRun calls its actions.  *)
(*                                                                         *)
(* A job here is what the command has after selecting steps:               *)
(*   outer  the environment templates, then the job environments;          *)
(*   steps  the steps in the order they run, each with its environments    *)
(*          and a plan for its tasks.                                      *)
(* An environment has an id of its own, and says whether it has onEnter,   *)
(* onExit and wrap hooks and whether one of its variables fails to resolve. *)
(***************************************************************************)
EXTENDS SessionApi, FiniteSets

CONSTANT Job    \* the jobs to be considered

EnvironmentsOf(j) ==
    {j.outer[i] : i \in DOMAIN j.outer} \cup
    UNION {{j.steps[s].envs[i] : i \in DOMAIN j.steps[s].envs} : s \in DOMAIN j.steps}

\* A job is finite lists, the counts of a plan are numbers, and the id of an
\* environment says which of the job's environments it is.
ASSUME JobAssumption ==
    \A j \in Job :
        /\ j.outer \in Seq(EnvironmentsOf(j))
        /\ j.steps \in Seq({j.steps[s] : s \in DOMAIN j.steps})
        /\ \A s \in DOMAIN j.steps :
             /\ j.steps[s].envs \in Seq(EnvironmentsOf(j))
             /\ j.steps[s].plan.kind \in {"single", "space", "explicit", "invalid"}
             /\ j.steps[s].plan.n \in Nat
             /\ j.steps[s].plan.limit \in Nat
        /\ \A e, f \in EnvironmentsOf(j) : e.id = f.id => e = f

VARIABLES
    job,
    cliPc,          \* control point of execute
    scope,          \* "outer" or "stepEnvs": which list of environments is entered
    at,             \* index into it
    stepAt, taskAt, \* the step, and the tasks taken from its plan
    baseline,       \* environment_baseline of the step
    ledger,         \* entered_envs
    sessionFailed,  \* session_failed
    interrupted,    \* the AtomicBool the signal handler sets
    signal,         \* progress of the handler: "none" | "stored" | "sent"
    tasksRun,       \* tasks_run
    runError,       \* execution_result is Err
    exitCode,       \* of the process, 2 while it runs
    anyBad,         \* history: an action of the session was not a success
    rejected        \* history: the session refused a call

cliLocal == <<job, scope, at, stepAt, taskAt, baseline>>
cliVars == <<cliLocal, cliPc, ledger, sessionFailed, interrupted, signal, tasksRun,
             runError, exitCode, anyBad, rejected, apiVars>>

Plan == job.steps[stepAt].plan
Envs == IF scope = "outer" THEN job.outer ELSE job.steps[stepAt].envs
AllEnvs == EnvironmentsOf(job)
EnvOf(id) == CHOOSE e \in AllEnvs : e.id = id
WrapsIn(q) == Cardinality({i \in DOMAIN q : q[i].wrap})
InLedger(id) == \E i \in DOMAIN ledger : ledger[i] = id

\* is_stopping
Stopping == sessionFailed \/ interrupted

CliInit ==
    /\ ApiInit
    /\ job \in Job
    /\ cliPc = "preflight" /\ scope = "outer" /\ at = 1 /\ stepAt = 1 /\ taskAt = 0
    /\ baseline = 0 /\ ledger = <<>>
    /\ sessionFailed = FALSE /\ interrupted = FALSE /\ signal = "none"
    /\ tasksRun = 0 /\ runError = FALSE /\ exitCode = 2
    /\ anyBad = FALSE /\ rejected = FALSE

-----------------------------------------------------------------------------
(* The signal handler: two separate steps of another task.                 *)
StoreInterrupted ==
    /\ signal = "none" /\ cliPc \notin {"preflight", "done"}
    /\ signal' = "stored" /\ interrupted' = TRUE
    /\ UNCHANGED <<cliLocal, cliPc, ledger, sessionFailed, tasksRun, runError, exitCode,
                   anyBad, rejected, apiVars>>

\* Mutation: the handler only sets its flag, the session's token is left alone.
CancelTokenUnheard ==
    /\ signal = "stored" /\ cliPc # "done"
    /\ signal' = "sent"
    /\ UNCHANGED <<cliLocal, cliPc, ledger, sessionFailed, interrupted, tasksRun, runError,
                   exitCode, anyBad, rejected, apiVars>>

CancelToken ==
    /\ signal = "stored" /\ cliPc # "done"
    /\ signal' = "sent" /\ ApiCancelToken
    /\ UNCHANGED <<cliLocal, cliPc, ledger, sessionFailed, interrupted, tasksRun, runError,
                   exitCode, anyBad, rejected>>

\* The process behind the session's action ends.
ActionEnds(ok) ==
    /\ ApiDecide(ok)
    /\ UNCHANGED <<cliLocal, cliPc, ledger, sessionFailed, interrupted, signal, tasksRun,
                   runError, exitCode, anyBad, rejected>>

-----------------------------------------------------------------------------

\* reject_multiple_wrap_environments for the stack of one step.
StackIsWrappedOnce(s) == WrapsIn(job.outer) + WrapsIn(job.steps[s].envs) <= 1

\* validate_wrap_environment_stacks, before a session exists.
Preflight ==
    /\ cliPc = "preflight"
    /\ IF WrapsIn(job.outer) <= 1 /\ \A s \in DOMAIN job.steps : StackIsWrappedOnce(s)
       THEN cliPc' = "outer" /\ UNCHANGED exitCode
       ELSE cliPc' = "done" /\ exitCode' = 1
    /\ UNCHANGED <<cliLocal, ledger, sessionFailed, interrupted, signal, tasksRun, runError,
                   anyBad, rejected, apiVars>>

-----------------------------------------------------------------------------
(* RunContext::enter_environment.                                          *)
Conflicts(e) == e.wrap /\ \E i \in DOMAIN envStack : EnvOf(envStack[i]).wrap

\* The next environment of the list, unless the run is stopping.
Enter ==
    /\ cliPc \in {"outer", "stepEnvs"} /\ at <= Len(Envs) /\ ~Stopping
    /\ LET e == Envs[at]
           refused == sessState # "Ready" \/ Conflicts(e)
           done == ~refused /\ (e.varsFail \/ ~e.onEnter)
       IN  /\ CASE refused -> UNCHANGED apiVars
                [] ~refused /\ e.varsFail -> ApiEnterFails(e.id)
                [] OTHER -> ApiEnter(e.id, e.onEnter)
           /\ rejected' = (rejected \/ refused)
           /\ sessionFailed' = (refused \/ e.varsFail)
           /\ ledger' = IF done THEN Append(ledger, e.id) ELSE ledger
           /\ cliPc' = IF refused \/ done THEN cliPc ELSE "entering"
           /\ at' = IF refused \/ done THEN at + 1 ELSE at
    /\ UNCHANGED <<job, scope, stepAt, taskAt, baseline, interrupted, signal, tasksRun,
                   runError, exitCode, anyBad>>

\* Mutation: an environment whose onEnter failed is not recorded.
EnteredForgets ==
    /\ cliPc = "entering" /\ ApiFinish
    /\ ledger' = IF lastOk' THEN Append(ledger, Envs[at].id) ELSE ledger
    /\ sessionFailed' = (sessionFailed \/ ~lastOk') /\ anyBad' = (anyBad \/ ~lastOk')
    /\ cliPc' = scope /\ at' = at + 1
    /\ UNCHANGED <<job, scope, stepAt, taskAt, baseline, interrupted, signal, tasksRun,
                   runError, exitCode, rejected>>

\* The onEnter action is over.  An environment whose action failed is still on
\* the session's stack and is found there.
Entered ==
    /\ cliPc = "entering" /\ ApiFinish
    /\ LET last == envStack[Len(envStack)]
       IN  ledger' = IF lastOk' \/ ~InLedger(last) THEN Append(ledger, last) ELSE ledger
    /\ sessionFailed' = (sessionFailed \/ ~lastOk') /\ anyBad' = (anyBad \/ ~lastOk')
    /\ cliPc' = scope /\ at' = at + 1
    /\ UNCHANGED <<job, scope, stepAt, taskAt, baseline, interrupted, signal, tasksRun,
                   runError, exitCode, rejected>>

\* The list is finished or the run is stopping.  execute_step goes on to the
\* tasks unless session_failed: it does not look at interrupted here.
EnvsDone ==
    /\ cliPc \in {"outer", "stepEnvs"} /\ (at > Len(Envs) \/ Stopping)
    /\ cliPc' = CASE scope = "outer" -> "steps"
                  [] scope # "outer" /\ sessionFailed -> "unwindStep"
                  [] OTHER -> "tasks"
    /\ at' = 1
    /\ UNCHANGED <<job, scope, stepAt, taskAt, baseline, ledger, sessionFailed, interrupted,
                   signal, tasksRun, runError, exitCode, anyBad, rejected, apiVars>>

-----------------------------------------------------------------------------
(* run_workload's loop over the steps, and the tasks of a step.            *)
NextStep ==
    /\ cliPc = "steps"
    /\ IF stepAt > Len(job.steps) \/ Stopping
       THEN cliPc' = "unwind" /\ baseline' = 0 /\ UNCHANGED <<scope, taskAt>>
       ELSE cliPc' = "stepEnvs" /\ scope' = "stepEnvs" /\ baseline' = Len(ledger) /\ taskAt' = 0
    /\ UNCHANGED <<job, at, stepAt, ledger, sessionFailed, interrupted, signal, tasksRun,
                   runError, exitCode, anyBad, rejected, apiVars>>

\* The step has another task and the code goes on to it.  A step without a
\* parameter space has one task, which is started without asking is_stopping.
MoreTasks ==
    CASE Plan.kind = "single" -> taskAt = 0
      [] Plan.kind = "invalid" -> FALSE
      [] Plan.kind = "explicit" -> taskAt < Plan.n /\ ~Stopping
      [] OTHER -> taskAt < Plan.n /\ (Plan.limit > 0 => taskAt < Plan.limit) /\ ~Stopping

\* RunContext::run_task.  A session that is not Ready answers with Err.
StartTask ==
    /\ cliPc = "tasks" /\ MoreTasks
    /\ IF sessState = "Ready"
       THEN ApiRun /\ cliPc' = "running" /\ UNCHANGED <<runError, rejected>>
       ELSE cliPc' = "unwindStep" /\ runError' = TRUE /\ rejected' = TRUE /\ UNCHANGED apiVars
    /\ UNCHANGED <<cliLocal, ledger, sessionFailed, interrupted, signal, tasksRun, exitCode,
                   anyBad>>

\* run_task returns: Ok with the action's state, or Err when the action could
\* not be set up or its runner failed.
TaskReturns ==
    /\ cliPc = "running" /\ ApiFinish
    /\ \E err \in BOOLEAN :
         /\ verdict = "none" => err
         /\ verdict = "ok" => ~err
         /\ runError' = err
         /\ tasksRun' = IF err THEN tasksRun ELSE tasksRun + 1
         /\ sessionFailed' = (sessionFailed \/ (~err /\ ~lastOk'))
         /\ cliPc' = IF err THEN "unwindStep" ELSE "tasks"
    /\ anyBad' = (anyBad \/ ~lastOk')
    /\ taskAt' = taskAt + 1
    /\ UNCHANGED <<job, scope, at, stepAt, baseline, ledger, interrupted, signal, exitCode,
                   rejected>>

\* The plan is finished or cut short, or a parameter set or the parameter space
\* itself is not valid: then no task of the step has run.
TasksDone ==
    /\ cliPc = "tasks" /\ ~MoreTasks
    /\ runError' = (Plan.kind = "invalid")
    /\ cliPc' = "unwindStep"
    /\ UNCHANGED <<cliLocal, ledger, sessionFailed, interrupted, signal, tasksRun, exitCode,
                   anyBad, rejected, apiVars>>

-----------------------------------------------------------------------------
(* exit_environments_down_to, at the end of a step and of the run.         *)
Exit ==
    /\ cliPc \in {"unwindStep", "unwind"} /\ Len(ledger) > baseline
    /\ LET id == ledger[Len(ledger)]
       IN  /\ ledger' = SubSeq(ledger, 1, Len(ledger) - 1)
           /\ IF sessState \in {"Ready", "ReadyEnding"} /\ envStack # <<>> /\ id = envStack[Len(envStack)]
              THEN /\ ApiExit(id, TRUE, EnvOf(id).onExit)
                   /\ scope' = IF EnvOf(id).onExit THEN cliPc ELSE scope
                   /\ cliPc' = IF EnvOf(id).onExit THEN "exiting" ELSE cliPc
                   /\ UNCHANGED <<sessionFailed, rejected>>
              ELSE sessionFailed' = TRUE /\ rejected' = TRUE /\ UNCHANGED <<apiVars, scope, cliPc>>
    /\ UNCHANGED <<job, at, stepAt, taskAt, baseline, interrupted, signal, tasksRun, runError,
                   exitCode, anyBad>>

\* scope holds the loop the exit belongs to while the call is under way.
Exited ==
    /\ cliPc = "exiting" /\ ApiFinish
    /\ sessionFailed' = (sessionFailed \/ ~lastOk') /\ anyBad' = (anyBad \/ ~lastOk')
    /\ cliPc' = scope /\ scope' = "stepEnvs"
    /\ UNCHANGED <<job, at, stepAt, taskAt, baseline, ledger, interrupted, signal, tasksRun,
                   runError, exitCode, rejected>>

\* The unwinding is complete; an Err of the step is passed on only now.
Unwound ==
    /\ cliPc \in {"unwindStep", "unwind"} /\ Len(ledger) <= baseline
    /\ CASE cliPc = "unwind" -> cliPc' = "record" /\ UNCHANGED <<stepAt, baseline>>
         [] cliPc # "unwind" /\ runError -> cliPc' = "unwind" /\ baseline' = 0 /\ UNCHANGED stepAt
         [] OTHER -> cliPc' = "steps" /\ stepAt' = stepAt + 1 /\ UNCHANGED baseline
    /\ UNCHANGED <<job, scope, at, taskAt, ledger, sessionFailed, interrupted, signal,
                   tasksRun, runError, exitCode, anyBad, rejected, apiVars>>

RecordInterruption ==
    /\ cliPc = "record" /\ cliPc' = "report"
    /\ sessionFailed' = (sessionFailed \/ interrupted)
    /\ UNCHANGED <<cliLocal, ledger, interrupted, signal, tasksRun, runError, exitCode, anyBad,
                   rejected, apiVars>>

\* report_result and the end of execute; --preserve keeps the working directory
\* and so skips cleanup.
Report ==
    /\ cliPc = "report" /\ cliPc' = "done"
    /\ ApiCleanup \/ UNCHANGED apiVars
    /\ exitCode' = IF runError \/ sessionFailed THEN 1 ELSE 0
    /\ UNCHANGED <<cliLocal, ledger, sessionFailed, interrupted, signal, tasksRun, runError,
                   anyBad, rejected>>

CliStep ==
    \/ Preflight \/ Enter \/ Entered \/ EnvsDone \/ NextStep \/ StartTask \/ TaskReturns
    \/ TasksDone \/ Exit \/ Exited \/ Unwound \/ RecordInterruption \/ Report

CliNext == CliStep \/ StoreInterrupted \/ CancelToken \/ \E ok \in BOOLEAN : ActionEnds(ok)

CliSpec == CliInit /\ [][CliNext]_cliVars

-----------------------------------------------------------------------------
(* Properties.                                                             *)

\* The command's ledger and the session's stack agree whenever no enter call is
\* under way, also after enters that failed, so that every environment the
\* session entered has been exited when the command ends: "errors must not
\* bypass environment cleanup".
LedgerMatchesSession ==
    /\ envStack = IF cliPc = "entering" THEN Append(ledger, Envs[at].id) ELSE ledger
    /\ cliPc = "done" => envStack = <<>>

\* The tasks a run to completion executes.
PlanSize(p) ==
    CASE p.kind = "single" -> 1
      [] p.kind = "space" /\ p.limit > 0 /\ p.limit < p.n -> p.limit
      [] OTHER -> p.n
Planned[s \in 0..Len(job.steps)] ==
    IF s = 0 THEN 0 ELSE Planned[s - 1] + PlanSize(job.steps[s].plan)

\* Exit code 0 means that every action succeeded and every task of every step
\* ran: an interruption that stops a loop between two actions, or cancels an
\* onExit action, is never reported as success.
SuccessIsComplete ==
    exitCode = 0 => /\ ~anyBad
                    /\ tasksRun = Planned[Len(job.steps)]

\* The session refuses no call of the command: its state is always the one the
\* call needs, and the preflight check makes the session's own check of the
\* single wrap layer unreachable.  In particular no task or enter call is made
\* after an action that was not a success.
SessionNeverRefuses == ~rejected

\* The command's books agree with the session's, a successful exit code means
\* that everything ran, and the session refuses none of the command's calls
\* (run/mod.rs, run/execution.rs).
RunIsAccountable == LedgerMatchesSession /\ SuccessIsComplete /\ SessionNeverRefuses

\* Once the token is cancelled the command comes to its end, onExit actions and
\* the task of a step without parameter space included.
InterruptedRunEnds == signal = "sent" ~> cliPc = "done"
=============================================================================
