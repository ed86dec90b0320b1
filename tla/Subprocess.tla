------------------------------ MODULE Subprocess ------------------------------
(***************************************************************************)
(* One call of run_subprocess (subprocess.rs, same user, POSIX): the       *)
(* select loop over the drain deadline, the cancel token, the timeout and  *)
(* the child's output, the wait for the child after it, and the delayed    *)
(* SIGKILL task, against a child and its descendants that exit, write and  *)
(* keep the pipe open as they please.                                      *)
(*                                                                         *)
(* Time is counted in seconds.  A timer that is due, a cancel the loop can *)
(* see and the death of a killed process happen before the clock moves on: *)
(* the bounds checked here are those of a host that is not overloaded.     *)
(***************************************************************************)
EXTENDS Naturals, Sequences, FiniteSets

CONSTANTS Method,          \* CancelMethod: "terminate" or "notify"
          TerminateDelay,  \* NotifyThenTerminate's terminate_delay
          Timeout,         \* SubprocessConfig::timeout, or None
          Limits,          \* time limits a caller may cancel with
          Drain,           \* STDOUT_DRAIN_AFTER_KILL
          Grace,           \* STDOUT_GRACE_TIME
          GraceKilled,     \* STDOUT_GRACE_TIME_POST_TERMINATE
          MaxTime,         \* bound on the clock
          MaxLines,        \* bound on lines in the pipe
          None

ASSUME ProcessConstants ==
  /\ Method \in {"terminate", "notify"}
  /\ {TerminateDelay, Drain, Grace, GraceKilled, MaxTime, MaxLines} \subseteq Nat
  /\ GraceKilled <= Grace
  /\ None \notin Nat \cup {"Success"} /\ Timeout \in Nat \cup {None}
  /\ Limits \subseteq Nat \cup {None}

VARIABLES
  now,              \* the clock
  callPc,           \* the call: "start", "reading", "waiting", "reaping", "done"
  child,            \* "none", "running", "exited" (a zombie), "reaped"
  exitZero,         \* the child exited with code 0
  writers,          \* who holds the write end of the pipe: the child, a
                    \* descendant in its process group, a detached descendant
  pipe,             \* lines written and not yet read
  token, limit,     \* the cancel token; the watch channel's time limit
  cancelRequested, timedOut, terminateSent, sawFail,
  drainAt, killAt,  \* drain_deadline; the delayed SIGKILL's time, or None
  waitUntil,        \* end of the bounded c.wait()
  killed,           \* SIGKILL was sent to the child
  result,           \* ActionState returned, "Err", or None
  stopAt,           \* history: when the loop saw the cancel or the timeout
  notifyEnd,        \* history: the NotifyEnd that cancel_info.json announced
  leftBy            \* history: what ended the read loop

loop == <<cancelRequested, timedOut, terminateSent, sawFail, drainAt, waitUntil>>
proc == <<child, exitZero, writers, killed>>
cancelChannel == <<token, limit>>
hist == <<stopAt, notifyEnd, leftBy>>
processVars == <<now, callPc, proc, pipe, cancelChannel, loop, killAt, result, hist>>

Line == {"plain", "fail"}

Min(a, b) == IF a <= b THEN a ELSE b
Due(t) == t # None /\ t <= now

ProcessInit ==
  /\ now = 0 /\ callPc = "start"
  /\ child = "none" /\ exitZero = FALSE /\ writers = {} /\ killed = FALSE
  /\ pipe = <<>>
  /\ token = "live" /\ limit = None
  /\ cancelRequested = FALSE /\ timedOut = FALSE /\ terminateSent = FALSE /\ sawFail = FALSE
  /\ drainAt = None /\ waitUntil = None
  /\ killAt = None /\ result = None
  /\ stopAt = None /\ notifyEnd = None /\ leftBy = None

-----------------------------------------------------------------------------
(* Signals.                                                                  *)

\* send_terminate: SIGKILL to the process group, which a detached descendant
\* has left.  A child that already exited keeps its status.
SendTerminate ==
  /\ killed' = (killed \/ child = "running")
  /\ writers' = writers \ {"member", "child"}
  /\ child' = IF child = "running" THEN "exited" ELSE child
  /\ exitZero' = exitZero

-----------------------------------------------------------------------------
(* The call.                                                                 *)

\* The arguments are rejected or the process does not start.
StartFails ==
  /\ callPc = "start"
  /\ callPc' = "done" /\ result' = "Err"
  /\ UNCHANGED <<now, proc, pipe, cancelChannel, loop, killAt, hist>>

Start ==
  /\ callPc = "start"
  /\ callPc' = "reading"
  /\ child' = "running" /\ writers' = {"child"}
  /\ UNCHANGED <<now, exitZero, killed, pipe, cancelChannel, loop, killAt, result, hist>>

DrainDue == cancelRequested /\ Due(drainAt)
CancelDue == token = "cancelled" /\ ~cancelRequested
TimeoutDue == ~cancelRequested /\ ~timedOut /\ Due(Timeout)

\* Leaving the loop starts the bounded wait.
LeaveLoop(cause) ==
  /\ callPc' = "waiting" /\ leftBy' = cause
  /\ waitUntil' = now + (IF terminateSent THEN GraceKilled ELSE Grace)

\* Mutant: the drain deadline also runs when nothing was cancelled.
DrainExpiresUnguarded ==
  /\ callPc = "reading" /\ (DrainDue \/ now >= Drain)
  /\ LeaveLoop("drain")
  /\ UNCHANGED <<now, proc, pipe, cancelChannel, cancelRequested, timedOut, terminateSent, sawFail,
                 drainAt, killAt, result, stopAt, notifyEnd>>

\* Mutant: the drain also waits for the end of the output.
DrainExpiresAtEof ==
  /\ callPc = "reading" /\ DrainDue /\ writers = {}
  /\ LeaveLoop("drain")
  /\ UNCHANGED <<now, proc, pipe, cancelChannel, cancelRequested, timedOut, terminateSent, sawFail,
                 drainAt, killAt, result, stopAt, notifyEnd>>

DrainExpires ==
  /\ callPc = "reading" /\ DrainDue
  /\ LeaveLoop("drain")
  /\ UNCHANGED <<now, proc, pipe, cancelChannel, cancelRequested, timedOut, terminateSent, sawFail,
                 drainAt, killAt, result, stopAt, notifyEnd>>

\* Mutant: the drain deadline is not armed.
StopReadingUnarmed ==
  /\ cancelRequested' = TRUE
  /\ stopAt' = now
  /\ UNCHANGED drainAt

StopReading ==
  /\ cancelRequested' = TRUE
  /\ stopAt' = now
  /\ drainAt' = now + Drain

\* The loop sees the cancel: an urgent one and CancelMethod::Terminate kill at
\* once, otherwise the group is notified and a task scheduled to kill it.
SeeCancel ==
  /\ callPc = "reading" /\ ~DrainDue /\ CancelDue
  /\ StopReading
  /\ LET delay == IF limit = None THEN TerminateDelay ELSE Min(limit, TerminateDelay) IN
     IF limit = 0 \/ Method = "terminate"
     THEN /\ SendTerminate
          /\ terminateSent' = TRUE
          /\ UNCHANGED <<killAt, notifyEnd>>
     ELSE /\ killAt' = now + delay
          /\ notifyEnd' = now + delay
          /\ UNCHANGED <<terminateSent, proc>>
  /\ UNCHANGED <<now, callPc, pipe, cancelChannel, timedOut, sawFail, waitUntil, result, leftBy>>

SeeTimeout ==
  /\ callPc = "reading" /\ ~DrainDue /\ ~CancelDue /\ TimeoutDue
  /\ StopReading
  /\ timedOut' = TRUE
  /\ SendTerminate
  /\ terminateSent' = TRUE
  /\ UNCHANGED <<now, callPc, pipe, cancelChannel, sawFail, waitUntil, killAt, result, notifyEnd, leftBy>>

\* The select is biased: output is read only when nothing above is ready.
CanRead == callPc = "reading" /\ ~DrainDue /\ ~CancelDue /\ ~TimeoutDue

ReadLine ==
  /\ CanRead /\ pipe # <<>>
  /\ pipe' = Tail(pipe)
  /\ sawFail' = (sawFail \/ Head(pipe) = "fail")
  /\ UNCHANGED <<now, callPc, proc, cancelChannel, cancelRequested, timedOut, terminateSent, drainAt,
                 waitUntil, killAt, result, hist>>

\* End of file: the pipe is empty and nobody holds its write end.
ReadEof ==
  /\ CanRead /\ pipe = <<>> /\ writers = {}
  /\ LeaveLoop("eof")
  /\ UNCHANGED <<now, proc, pipe, cancelChannel, cancelRequested, timedOut, terminateSent, sawFail,
                 drainAt, killAt, result, stopAt, notifyEnd>>

ReadError ==
  /\ CanRead
  /\ LeaveLoop("error")
  /\ UNCHANGED <<now, proc, pipe, cancelChannel, cancelRequested, timedOut, terminateSent, sawFail,
                 drainAt, killAt, result, stopAt, notifyEnd>>

\* Mutant: a cancel that the loop never saw does not count.
FinalActionStateSeen(zero) ==
  CASE timedOut -> "Timeout"
    [] ~timedOut /\ cancelRequested -> "Canceled"
    [] OTHER -> IF ~sawFail /\ zero THEN "Success" ELSE "Failed"

\* The state of the action, given whether an exit status 0 was obtained.
FinalActionState(zero) ==
  CASE timedOut -> "Timeout"
    [] ~timedOut /\ (cancelRequested \/ token = "cancelled") -> "Canceled"
    [] OTHER -> IF ~sawFail /\ zero THEN "Success" ELSE "Failed"

\* c.wait() succeeds, in time or after the kill.
Reap ==
  /\ callPc \in {"waiting", "reaping"} /\ child = "exited"
  /\ child' = "reaped"
  /\ callPc' = "done" /\ result' = FinalActionState(exitZero)
  /\ UNCHANGED <<now, exitZero, writers, killed, pipe, cancelChannel, loop, killAt, hist>>

\* c.wait() returns an error: kill, and report without an exit status.
WaitError ==
  /\ callPc = "waiting"
  /\ SendTerminate
  /\ callPc' = "done" /\ result' = FinalActionState(FALSE)
  /\ UNCHANGED <<now, pipe, cancelChannel, loop, killAt, hist>>

\* The grace time is over: kill, and wait without a bound.
WaitExpires ==
  /\ callPc = "waiting" /\ child = "running" /\ Due(waitUntil)
  /\ SendTerminate
  /\ callPc' = "reaping"
  /\ UNCHANGED <<now, pipe, cancelChannel, loop, killAt, result, hist>>

\* The task of spawn_delayed_terminate; it outlives the call.
DelayedKill ==
  /\ Due(killAt)
  /\ SendTerminate
  /\ killAt' = None
  /\ UNCHANGED <<now, callPc, pipe, cancelChannel, loop, result, hist>>

-----------------------------------------------------------------------------
(* The child and its descendants, the callers and the clock.                 *)

\* A process that holds the pipe writes a line.
Write(line) ==
  /\ writers # {} /\ Len(pipe) < MaxLines /\ callPc = "reading"
  /\ pipe' = Append(pipe, line)
  /\ UNCHANGED <<now, callPc, proc, cancelChannel, loop, killAt, result, hist>>

\* The child starts a descendant, in its process group or detached from it.
Fork(who) ==
  /\ child = "running" /\ ~killed /\ "child" \in writers
  /\ writers' = writers \cup {who}
  /\ UNCHANGED <<now, callPc, child, exitZero, killed, pipe, cancelChannel, loop, killAt, result, hist>>

\* A process closes its output, or a descendant exits.
Close(who) ==
  /\ who \in writers /\ ~(killed /\ who = "child")
  /\ writers' = writers \ {who}
  /\ UNCHANGED <<now, callPc, child, exitZero, killed, pipe, cancelChannel, loop, killAt, result, hist>>

\* The child exits by itself, with any code: also because it was notified.
ChildExits(zero) ==
  /\ child = "running" /\ ~killed
  /\ child' = "exited" /\ exitZero' = zero
  /\ writers' = writers \ {"child"}
  /\ UNCHANGED <<now, callPc, killed, pipe, cancelChannel, loop, killAt, result, hist>>

\* A delivered cancel: the time limit is sent, then the token cancelled (no
\* step of this call lies between, it looks at the limit when it sees the
\* token).  A repeated cancel replaces the limit.
Cancel(l) ==
  /\ callPc # "done"
  /\ token' = "cancelled" /\ limit' = l
  /\ UNCHANGED <<now, callPc, proc, pipe, loop, killAt, result, hist>>

\* Something is due before the clock may move.
Urgent ==
  \/ callPc = "start"
  \/ callPc = "reading" /\ (DrainDue \/ CancelDue \/ TimeoutDue)
  \/ callPc \in {"waiting", "reaping"} /\ child = "exited"
  \/ callPc = "waiting" /\ Due(waitUntil)
  \/ Due(killAt)

Tick ==
  /\ now < MaxTime /\ ~Urgent
  /\ now' = now + 1
  /\ UNCHANGED <<callPc, proc, pipe, cancelChannel, loop, killAt, result, hist>>

ProcessCall ==
  \/ StartFails
  \/ Start
  \/ DrainExpires
  \/ SeeCancel
  \/ SeeTimeout
  \/ ReadLine
  \/ ReadEof
  \/ ReadError
  \/ Reap
  \/ WaitError
  \/ WaitExpires

World ==
  \/ DelayedKill
  \/ \E line \in Line : Write(line)
  \/ \E who \in {"member", "detached"} : Fork(who)
  \/ \E who \in {"child", "member", "detached"} : Close(who)
  \/ \E zero \in BOOLEAN : ChildExits(zero)
  \/ \E l \in Limits : Cancel(l)

ProcessNext == ProcessCall \/ World \/ Tick

\* What the runtime does by itself: it polls the call and runs its timers.
\* Nothing is assumed of the child, its descendants or the callers.
Polled == Start \/ DrainExpires \/ SeeCancel \/ SeeTimeout \/ ReadEof \/ Reap \/ WaitExpires

ProcessSpec == ProcessInit /\ [][ProcessNext]_processVars

-----------------------------------------------------------------------------
(* Properties.                                                               *)

\* Once the loop has seen a cancel or the timeout, the call returns within the
\* drain time and the grace time, also when a detached descendant keeps the
\* pipe open or the child ignores signals; and a child that was notified is not
\* killed before the smaller of its notify period and the grace time is over
\* (unless waiting for it fails).
StopsInTime ==
  [][ /\ cancelRequested' /\ callPc' \in {"reading", "waiting"} => now' <= stopAt' + Drain + Grace
      /\ notifyEnd # None /\ ~killed /\ killed' =>
           now >= Min(notifyEnd, stopAt + Grace) \/ WaitError ]_processVars

\* Success is never reported for an action that was stopped, that failed, or
\* that a caller cancelled before the call looked at its result.
SuccessIsGenuine ==
  [][ result' = "Success" /\ result = None =>
        ~killed /\ exitZero /\ ~sawFail /\ ~timedOut /\ token = "live" ]_processVars

\* An action that nobody stopped had all of its output read.
OutputIsComplete ==
  callPc \in {"waiting", "reaping", "done"} /\ ~cancelRequested /\ leftBy # "error" => pipe = <<>>

\* The loop saw a cancel or the timeout, early enough for the bounded clock.
Stopped == cancelRequested /\ stopAt + Drain + Grace < MaxTime

\* A stopped action ends, whatever its descendants do: the drain deadline and
\* the kill after the grace time need no end of file.
StopEndsCall == Stopped ~> callPc = "done"

-----------------------------------------------------------------------------
(* A statement of the documentation that the code does not keep.             *)

\* subprocess.md: cancel_info.json announces when the process will be killed.
NotifyEndIsKept ==
  [][ notifyEnd # None /\ ~killed /\ killed' => now >= notifyEnd \/ WaitError ]_processVars

=============================================================================
