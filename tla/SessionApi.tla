----------------------------- MODULE SessionApi -----------------------------
(***************************************************************************)
(* What a Session promises the program that drives it: a stack of entered  *)
(* environments, one action at a time, and a verdict on every action.  No  *)
(* runner, helper, message channel or cancel handle is visible here.       *)
(* Session is shown to implement it (ImplementsApi), and CliRun is the     *)
(* `openjd run` command on top of it.                                      *)
(*                                                                         *)
(* The enter and exit calls of Session return when their action is over;   *)
(* between BeginX and Finish the caller waits.                             *)
(***************************************************************************)
EXTENDS Naturals, Sequences

CONSTANTS Id,             \* identifiers of environments
          TokenHonoured   \* the actions watch the parent token (no cross-user helper)

VARIABLES
    sessState,    \* "Ready" | "Busy" | "ReadyEnding" | "Ended"
    envStack,     \* the entered environments, outermost first
    sessEnding,   \* an exit was made without keep_session_running
    tokenDown,    \* the parent CancellationToken is cancelled
    verdict,      \* of the action in flight: "none" | "ok" | "bad"
    lastOk        \* action_status() of the last action is Success

apiVars == <<sessState, envStack, sessEnding, tokenDown, verdict, lastOk>>

OnStack == {envStack[i] : i \in DOMAIN envStack}

ApiInit ==
    /\ sessState = "Ready" /\ envStack = <<>> /\ sessEnding = FALSE
    /\ tokenDown = FALSE /\ verdict = "none" /\ lastOk = FALSE

Starts ==
    /\ sessState' = "Busy" /\ lastOk' = FALSE
    /\ UNCHANGED <<tokenDown, verdict>>

ReturnsAtOnce(s) ==
    /\ sessState' = s /\ lastOk' = TRUE
    /\ UNCHANGED <<tokenDown, verdict>>

\* enter_environment: with an onEnter action or without one.
ApiEnter(id, scripted) ==
    /\ sessState = "Ready" /\ id \notin OnStack
    /\ envStack' = Append(envStack, id) /\ UNCHANGED sessEnding
    /\ IF scripted THEN Starts ELSE ReturnsAtOnce("Ready")

\* enter_environment fails on a variable: no action runs, the environment stays.
ApiEnterFails(id) ==
    /\ sessState = "Ready" /\ id \notin OnStack
    /\ envStack' = Append(envStack, id)
    /\ UNCHANGED <<sessState, sessEnding, tokenDown, verdict, lastOk>>

\* exit_environment, of the innermost environment only.  What it leaves depends
\* on how it and earlier exits were made, not on whether an action failed: with
\* keep, a session that is ReadyEnding because of a failure is Ready again.
ApiExit(id, keep, scripted) ==
    /\ sessState \in {"Ready", "ReadyEnding"}
    /\ envStack # <<>> /\ id = envStack[Len(envStack)]
    /\ envStack' = SubSeq(envStack, 1, Len(envStack) - 1)
    /\ sessEnding' = (sessEnding \/ ~keep)
    /\ IF scripted THEN Starts
       ELSE ReturnsAtOnce(IF sessEnding' THEN "ReadyEnding" ELSE "Ready")

\* run_task and run_subprocess.
ApiRun ==
    /\ sessState = "Ready" /\ Starts /\ UNCHANGED <<envStack, sessEnding>>

\* The process behind the action ends.  One that ends after the token was
\* cancelled is not a success, whatever its exit code.
ApiDecide(ok) ==
    /\ sessState = "Busy" /\ verdict = "none"
    /\ ok => ~(TokenHonoured /\ tokenDown)
    /\ verdict' = IF ok THEN "ok" ELSE "bad"
    /\ UNCHANGED <<sessState, envStack, sessEnding, tokenDown, lastOk>>

\* The call returns.  An action that could not be set up was never decided and
\* is a failure; after a failure an exit or the cleanup has to come next.
ApiFinish ==
    /\ sessState = "Busy"
    /\ lastOk' = (verdict = "ok")
    /\ sessState' = IF lastOk' /\ ~sessEnding THEN "Ready" ELSE "ReadyEnding"
    /\ verdict' = "none"
    /\ UNCHANGED <<envStack, sessEnding, tokenDown>>

ApiCleanup ==
    /\ sessState \in {"Ready", "ReadyEnding"}
    /\ sessState' = "Ended"
    /\ UNCHANGED <<envStack, sessEnding, tokenDown, verdict, lastOk>>

ApiCancelToken ==
    /\ ~tokenDown /\ tokenDown' = TRUE
    /\ UNCHANGED <<sessState, envStack, sessEnding, verdict, lastOk>>

ApiNext ==
    \/ \E id \in Id, scripted \in BOOLEAN : ApiEnter(id, scripted)
    \/ \E id \in Id : ApiEnterFails(id)
    \/ \E id \in Id, keep, scripted \in BOOLEAN : ApiExit(id, keep, scripted)
    \/ ApiRun
    \/ \E ok \in BOOLEAN : ApiDecide(ok)
    \/ ApiFinish
    \/ ApiCleanup
    \/ ApiCancelToken

ApiSpec == ApiInit /\ [][ApiNext]_apiVars
=============================================================================
