--------------------------- MODULE CrossUserHelper ---------------------------
(***************************************************************************)
(* Actions that run as another user: run_via_helper in the session's       *)
(* process (cross_user_helper.rs), the long-lived helper process that      *)
(* spawns the command (helper/src/main.rs, runner.rs on Unix and           *)
(* runner_win.rs on Windows), and the two pipes between them.              *)
(*                                                                         *)
(* Who runs:                                                               *)
(*   - the session's task: registers an action, writes the run command,    *)
(*     reads responses until the exit code arrives.  Its control state is  *)
(*     sess, the action it is at is cur;                                   *)
(*   - a holder of a SessionCancelHandle, on another thread.  The delivery *)
(*     holds the shared lock: it writes the helper's stdin and only then   *)
(*     fires the cancel-request channel (delivering is the time between);  *)
(*   - the helper, with control state helper.  On Unix it reads stdin      *)
(*     itself; on Windows a reader thread sorts the commands into mainQ    *)
(*     and cancelQ;                                                        *)
(*   - the command it spawned (child) and one descendant of it, which      *)
(*     share the output pipe.                                              *)
(* Commands and responses carry the action they belong to, which the       *)
(* program's messages do not: the guards never read it, the properties do. *)
(* The length of a notify period is abstracted: an armed escalation may    *)
(* fire at any time.                                                       *)
(***************************************************************************)
EXTENDS Naturals, Sequences, Functions

CONSTANTS Platforms,    \* the helpers checked: runner.rs ("unix"), runner_win.rs ("windows")
          MaxAction,    \* actions the session runs
          MaxCancel,    \* calls of the cancel handle
          MaxLine,      \* lines the commands write
          Timed,        \* actions that have a timeout
          Forking,      \* actions whose command leaves a process behind
          CloneFails,   \* actions whose cancel_writer.try_clone() may fail
          Crashes       \* actions during or after which the helper process may die

ASSUME HelperAssumption ==
  /\ Platforms \subseteq {"unix", "windows"}
  /\ CloneFails \subseteq Nat /\ Crashes \subseteq Nat /\ Timed \subseteq Nat /\ Forking \subseteq Nat
  /\ {MaxAction, MaxCancel, MaxLine} \subseteq Nat

Actions == 1 .. MaxAction
Method == {"TERMINATE", "NOTIFY_THEN_TERMINATE"}
Line == {"text", "openjd_fail"}
Code == {"zero", "nonzero"}
ActionState == {"Success", "Failed", "Canceled", "Timeout"}

VARIABLES
  platform,    \* which helper runs
  sess,        \* run_via_helper's control point
  cur,         \* the action the session is at
  requested,   \* the cancel-request channel of that action has changed
  timedOut,    \* timed_out
  sawFail,     \* saw_fail
  delivering,  \* the handle has written the pipe, and not yet the channel
  stdin,       \* commands in the helper's stdin pipe
  stdout,      \* responses on their way to the session
  helper,      \* the helper's control point
  mainQ,       \* main_rx (Windows)
  cancelQ,     \* cancel_rx (Windows)
  hrun,        \* the action whose command the helper runs
  escalation,  \* escalation_deadline is Some
  childKilled, \* child_killed (Unix)
  child,       \* the command: its exit code once it is dead
  open,        \* the command still has its end of the output pipe
  descendant,  \* a process it left behind, which holds the pipe too
  buffer,      \* lines in the output pipe
  cancels,     \* calls of the handle so far
  result,      \* what the session reported for each action
  hist         \* history: what really happened to each action

sessVars == <<sess, cur, requested, timedOut, sawFail>>
queues == <<mainQ, cancelQ>>
helperVars == <<helper, hrun, escalation, childKilled>>
process == <<child, open, descendant, buffer>>
running == <<sessVars, delivering, stdin, stdout, helperVars, queues, process, cancels, result,
             hist>>
vars == <<platform, running>>

Windows == platform = "windows"

NoResult == [state |-> "none", from |-> 0, lines |-> 0]
NoHistory == [asked |-> FALSE, signalled |-> FALSE, lines |-> 0, code |-> "none", fail |-> FALSE]

Init ==
  /\ platform \in Platforms
  /\ sess = "idle" /\ cur = 0
  /\ requested = FALSE /\ timedOut = FALSE /\ sawFail = FALSE
  /\ delivering = FALSE
  /\ stdin = <<>> /\ stdout = <<>> /\ mainQ = <<>> /\ cancelQ = <<>>
  /\ helper = "idle" /\ hrun = 0 /\ escalation = FALSE /\ childKilled = FALSE
  /\ child = "none" /\ open = FALSE /\ descendant = "none" /\ buffer = <<>>
  /\ cancels = 0
  /\ result = [n \in Actions |-> NoResult]
  /\ hist = [n \in Actions |-> NoHistory]

RunCommand(n) == [kind |-> "run", action |-> n, method |-> "none"]
CancelCommand(n, m) == [kind |-> "cancel", action |-> n, method |-> m]
Shutdown == [kind |-> "shutdown", action |-> 0, method |-> "none"]
Response(k, n, v) == [kind |-> k, action |-> n, value |-> v]

-----------------------------------------------------------------------------
(* The session's side. *)

\* set_action: fresh per-action cancel state, which the handle now finds.
Register ==
  /\ sess = "idle" /\ cur < MaxAction
  /\ sess' = "registered" /\ cur' = cur + 1
  /\ requested' = FALSE /\ timedOut' = FALSE /\ sawFail' = FALSE
  /\ UNCHANGED <<delivering, stdin, stdout, helperVars, queues, process, cancels, result, hist>>

Report(s, from, lines) == result' = [result EXCEPT ![cur] = [state |-> s, from |-> from, lines |-> lines]]

\* run_via_helper returned: sess waits for the shared lock (cancel.reset).
Return == sess' = "returned"

\* send_command: fails when the helper is gone (the pipe is broken).
SendRun ==
  /\ sess = "registered"
  /\ \/ /\ helper # "gone"
        /\ stdin' = Append(stdin, RunCommand(cur))
        /\ sess' = "waiting" /\ UNCHANGED result
     \/ /\ helper = "gone"
        /\ Report("Failed", 0, 0) /\ Return /\ UNCHANGED stdin
  /\ UNCHANGED <<cur, requested, timedOut, sawFail, delivering, stdout, helperVars, queues,
                 process, cancels, hist>>

\* Mutant of FinalState: an openjd_fail line is forgotten when the command exits with 0.
FinalStateByCode(code) ==
  IF requested THEN "Canceled"
  ELSE IF timedOut THEN "Timeout"
  ELSE IF code = "zero" THEN "Success" ELSE "Failed"

\* The order of the tests decides what a run is reported as.
FinalState(code) ==
  IF requested THEN "Canceled"
  ELSE IF timedOut THEN "Timeout"
  ELSE IF sawFail THEN "Failed"
  ELSE IF code = "zero" THEN "Success" ELSE "Failed"

\* One response: a pid or a line goes on reading, an exit code or an error ends the call.
ReadResponse ==
  /\ sess = "waiting" /\ stdout # <<>>
  /\ stdout' = Tail(stdout)
  /\ LET r == Head(stdout) IN
       \/ /\ r.kind = "pid"
          /\ UNCHANGED <<sess, sawFail, result>>
       \/ /\ r.kind = "out"
          /\ sawFail' = (sawFail \/ r.value = "openjd_fail")
          /\ result' = [result EXCEPT ![cur].lines = @ + 1]
          /\ UNCHANGED sess
       \/ /\ r.kind = "exited"
          /\ Report(FinalState(r.value), r.action, result[cur].lines)
          /\ Return /\ UNCHANGED sawFail
       \/ /\ r.kind = "error"
          /\ Report("Failed", r.action, result[cur].lines)
          /\ Return /\ UNCHANGED sawFail
  /\ UNCHANGED <<cur, requested, timedOut, delivering, stdin, helperVars, queues, process,
                 cancels, hist>>

\* next_response is None: the helper closed its stdout.
HelperClosed ==
  /\ sess = "waiting" /\ stdout = <<>> /\ helper = "gone"
  /\ Report("Failed", 0, 0) /\ Return
  /\ UNCHANGED <<cur, requested, timedOut, sawFail, delivering, stdin, stdout, helperVars, queues,
                 process, cancels, hist>>

\* The timeout writes a cancel command; a writer that cannot be cloned ends the call instead.
TimeoutFires ==
  /\ sess = "waiting" /\ ~timedOut /\ cur \in Timed
  /\ timedOut' = TRUE
  /\ \/ /\ \E m \in Method :
             stdin' = IF helper = "gone" THEN stdin ELSE Append(stdin, CancelCommand(cur, m))
        /\ hist' = [hist EXCEPT ![cur].asked = TRUE]
        /\ UNCHANGED <<sess, result>>
     \/ /\ cur \in CloneFails
        /\ Report("Failed", 0, result[cur].lines) /\ Return
        /\ UNCHANGED <<stdin, hist>>
  /\ UNCHANGED <<cur, requested, sawFail, delivering, stdout, helperVars, queues, process, cancels>>

\* The session takes the shared lock to reset the cancel state: the action is over.
EndAction ==
  /\ sess = "returned" /\ ~delivering
  /\ sess' = "idle"
  /\ requested' = FALSE /\ timedOut' = FALSE /\ sawFail' = FALSE
  /\ UNCHANGED <<cur, delivering, stdin, stdout, helperVars, queues, process, cancels, result,
                 hist>>

\* CrossUserHelper::shutdown, from Session::cleanup: the command, then the wait for the process.
ShutDown ==
  /\ sess = "idle"
  /\ sess' = "shutdown"
  /\ stdin' = IF helper = "gone" THEN stdin ELSE Append(stdin, Shutdown)
  /\ UNCHANGED <<cur, requested, timedOut, sawFail, delivering, stdout, helperVars, queues,
                 process, cancels, result, hist>>

\* The wait ends with the process; on Windows also after five seconds.
ShutDownDone ==
  /\ sess = "shutdown" /\ (helper = "gone" \/ Windows)
  /\ sess' = "closed"
  /\ UNCHANGED <<cur, requested, timedOut, sawFail, delivering, stdin, stdout, helperVars, queues,
                 process, cancels, result, hist>>

-----------------------------------------------------------------------------
(* SessionCancelHandle::cancel, under the shared lock. *)

CancelWrites ==
  /\ sess \in {"registered", "waiting", "returned"} /\ ~delivering /\ cancels < MaxCancel
  /\ delivering' = TRUE /\ cancels' = cancels + 1
  /\ \E m \in Method :
       stdin' = IF helper = "gone" THEN stdin ELSE Append(stdin, CancelCommand(cur, m))
  /\ hist' = [hist EXCEPT ![cur].asked = TRUE]
  /\ UNCHANGED <<sessVars, stdout, helperVars, queues, process, result>>

CancelRequests ==
  /\ delivering
  /\ delivering' = FALSE /\ requested' = TRUE
  /\ UNCHANGED <<sess, cur, timedOut, sawFail, stdin, stdout, helperVars, queues, process, cancels,
                 result, hist>>

-----------------------------------------------------------------------------
(* The helper's side. *)

PipeClosed == ~open /\ descendant = "none"

\* killpg(SIGKILL) on Unix, kill_process_tree on Windows: a detached descendant escapes.
KillGroup ==
  /\ child' = IF child = "running" THEN "nonzero" ELSE child
  /\ open' = FALSE
  /\ descendant' = IF descendant = "group" THEN "none" ELSE descendant
  /\ UNCHANGED buffer

\* run_command up to the pid response, or the spawn error.  The state of a run (escalation,
\* childKilled) is local to run_command: clear when no run is under way.
Spawn(n) ==
  \/ /\ child' = "running" /\ open' = TRUE /\ descendant' = "none" /\ buffer' = <<>>
     /\ helper' = "running" /\ hrun' = n
     /\ UNCHANGED <<escalation, childKilled>>
     /\ stdout' = Append(stdout, Response("pid", n, "none"))
  \/ /\ stdout' = Append(stdout, Response("error", n, "none"))
     /\ UNCHANGED <<process, helperVars>>

\* Mutant of Dispatch: a shutdown is not told from a cancel.
DispatchStays(c) ==
  \/ /\ c.kind = "run" /\ Spawn(c.action)
  \/ /\ c.kind # "run" /\ UNCHANGED <<stdout, helperVars, process>>

\* One command outside a run: a cancel has no effect, a shutdown ends the process.
Dispatch(c) ==
  \/ /\ c.kind = "run" /\ Spawn(c.action)
  \/ /\ c.kind = "cancel" /\ UNCHANGED <<stdout, helperVars, process>>
  \/ /\ c.kind = "shutdown"
     /\ helper' = "gone"
     /\ UNCHANGED <<stdout, hrun, escalation, childKilled, process>>

\* Mutant of Apply: the soft signal arms no deadline.
ApplyUnarmed(m) ==
  \/ /\ m = "TERMINATE"
     /\ KillGroup /\ childKilled' = TRUE
     /\ escalation' = (escalation /\ ~Windows)
  \/ /\ m = "NOTIFY_THEN_TERMINATE"
     /\ UNCHANGED <<escalation, childKilled, process>>

\* A cancel inside a run; childKilled is what makes the Unix runner look for the exit.
Apply(m) ==
  \/ /\ m = "TERMINATE"
     /\ KillGroup /\ childKilled' = TRUE
     /\ escalation' = (escalation /\ ~Windows)
  \/ /\ m = "NOTIFY_THEN_TERMINATE"
     /\ escalation' = TRUE /\ UNCHANGED <<childKilled, process>>
  \/ /\ m = "NOTIFY_THEN_TERMINATE" /\ Windows   \* the soft signal could not be sent
     /\ KillGroup /\ escalation' = FALSE /\ UNCHANGED childKilled

Signalled == hist' = [hist EXCEPT ![hrun].signalled = @ \/ child = "running"]

(* Unix: the main loop and the runner share one reader of stdin. *)
ReadIdle ==
  /\ ~Windows /\ helper = "idle" /\ stdin # <<>>
  /\ Dispatch(Head(stdin)) /\ stdin' = Tail(stdin)
  /\ UNCHANGED <<sessVars, delivering, queues, cancels, result, hist>>

ReadRunning ==
  /\ ~Windows /\ helper = "running" /\ stdin # <<>>
  /\ stdin' = Tail(stdin)
  /\ IF Head(stdin).kind = "cancel"
     THEN Apply(Head(stdin).method) /\ Signalled
     ELSE UNCHANGED <<escalation, childKilled, process, hist>>
  /\ UNCHANGED <<sessVars, delivering, stdout, helper, hrun, queues, cancels, result>>

(* Windows: the reader thread sorts, the main thread takes from the channels. *)
ReaderThread ==
  /\ Windows /\ helper # "gone" /\ stdin # <<>>
  /\ stdin' = Tail(stdin)
  /\ IF Head(stdin).kind = "cancel"
     THEN cancelQ' = Append(cancelQ, Head(stdin)) /\ UNCHANGED mainQ
     ELSE mainQ' = Append(mainQ, Head(stdin)) /\ UNCHANGED cancelQ
  /\ UNCHANGED <<sessVars, delivering, stdout, helperVars, process, cancels, result, hist>>

TakeMain ==
  /\ Windows /\ helper = "idle" /\ mainQ # <<>>
  /\ Dispatch(Head(mainQ)) /\ mainQ' = Tail(mainQ)
  /\ UNCHANGED <<sessVars, delivering, stdin, cancelQ, cancels, result, hist>>

TakeCancel ==
  /\ Windows /\ helper = "running" /\ cancelQ # <<>>
  /\ Apply(Head(cancelQ).method) /\ Signalled /\ cancelQ' = Tail(cancelQ)
  /\ UNCHANGED <<sessVars, delivering, stdin, stdout, helper, hrun, mainQ, cancels, result>>

\* The grace window after a soft signal is over.
Escalate ==
  /\ helper = "running" /\ escalation
  /\ KillGroup /\ Signalled
  /\ escalation' = FALSE /\ childKilled' = TRUE
  /\ UNCHANGED <<sessVars, delivering, stdin, stdout, helper, hrun, queues, cancels, result>>

Emit ==
  /\ helper \in {"running", "draining"} /\ buffer # <<>>
  /\ stdout' = Append(stdout, Response("out", hrun, Head(buffer)))
  /\ buffer' = Tail(buffer)
  /\ UNCHANGED <<sessVars, delivering, stdin, helperVars, queues, child, open, descendant, cancels,
                 result, hist>>

\* Mutant of SeeExit: the exit is reported without draining the output pipe.
SeeExitEarly ==
  /\ helper = "running" /\ child # "running"
  /\ Windows \/ childKilled \/ escalation
  /\ helper' = "waiting" /\ UNCHANGED process
  /\ UNCHANGED <<sessVars, delivering, stdin, stdout, hrun, escalation, childKilled, queues,
                 cancels, result, hist>>

\* try_wait finds the command dead: on Unix only after a signal, and the group is killed first.
SeeExit ==
  /\ helper = "running" /\ child # "running"
  /\ Windows \/ childKilled \/ escalation
  /\ helper' = "draining"
  /\ IF Windows THEN UNCHANGED process ELSE KillGroup
  /\ UNCHANGED <<sessVars, delivering, stdin, stdout, hrun, escalation, childKilled, queues,
                 cancels, result, hist>>

\* End of the output: from here on the helper only waits for the command.
SeeEof ==
  /\ helper \in {"running", "draining"} /\ buffer = <<>> /\ PipeClosed
  /\ helper' = "waiting"
  /\ UNCHANGED <<sessVars, delivering, stdin, stdout, hrun, escalation, childKilled, queues,
                 process, cancels, result, hist>>

\* child.wait(), then the answer; run_command returns and its locals are gone.
Finish ==
  /\ helper = "waiting" /\ child # "running"
  /\ stdout' = Append(stdout, Response("exited", hrun, child))
  /\ hist' = [hist EXCEPT ![hrun].code = child]
  /\ helper' = "idle" /\ escalation' = FALSE /\ childKilled' = FALSE
  /\ UNCHANGED <<sessVars, delivering, stdin, hrun, queues, process, cancels, result>>

\* The helper dies.  On Windows the job object takes the command with it.
Crash ==
  /\ cur \in Crashes /\ helper # "gone"
  /\ helper' = "gone"
  /\ IF Windows THEN KillGroup ELSE UNCHANGED process
  /\ UNCHANGED <<sessVars, delivering, stdin, stdout, hrun, escalation, childKilled, queues,
                 cancels, result, hist>>

-----------------------------------------------------------------------------
(* The command and its descendant. *)

Written == SumFunction([n \in Actions |-> hist[n].lines])

Write ==
  /\ helper # "gone" /\ (open \/ descendant # "none") /\ Written < MaxLine
  /\ \E l \in Line :
       /\ buffer' = Append(buffer, l)
       /\ hist' = [hist EXCEPT ![hrun].lines = @ + 1, ![hrun].fail = @ \/ l = "openjd_fail"]
  /\ UNCHANGED <<sessVars, delivering, stdin, stdout, helperVars, queues, child, open, descendant,
                 cancels, result>>

Fork ==
  /\ child = "running" /\ open /\ descendant = "none" /\ hrun \in Forking
  /\ descendant' \in {"group", "detached"}
  /\ UNCHANGED <<sessVars, delivering, stdin, stdout, helperVars, queues, child, open, buffer,
                 cancels, result, hist>>

ChildCloses ==
  /\ child = "running" /\ open /\ open' = FALSE
  /\ UNCHANGED <<sessVars, delivering, stdin, stdout, helperVars, queues, child, descendant, buffer,
                 cancels, result, hist>>

ChildExits ==
  /\ child = "running" /\ child' \in Code /\ open' = FALSE
  /\ UNCHANGED <<sessVars, delivering, stdin, stdout, helperVars, queues, descendant, buffer,
                 cancels, result, hist>>

DescendantExits ==
  /\ descendant # "none" /\ descendant' = "none"
  /\ UNCHANGED <<sessVars, delivering, stdin, stdout, helperVars, queues, child, open, buffer,
                 cancels, result, hist>>

Helper == ReadIdle \/ ReadRunning \/ ReaderThread \/ TakeMain \/ TakeCancel \/ Escalate \/ Emit
          \/ SeeExit \/ SeeEof \/ Finish
Session == Register \/ SendRun \/ ReadResponse \/ HelperClosed \/ TimeoutFires \/ EndAction
           \/ ShutDown \/ ShutDownDone
Processes == Write \/ Fork \/ ChildCloses \/ ChildExits \/ DescendantExits

Next ==
  /\ Session \/ CancelWrites \/ CancelRequests \/ Helper \/ Processes \/ Crash
  /\ UNCHANGED platform

Spec == Init /\ [][Next]_vars

\* The tasks and threads of both programs are scheduled, and an armed escalation comes.  Nothing
\* is assumed of the command: it may run, hold its pipe or ignore a soft signal for ever.
FairSpec ==
  /\ Spec
  /\ WF_running(SendRun) /\ WF_running(ReadResponse) /\ WF_running(HelperClosed) /\ WF_running(EndAction)
  /\ WF_running(ShutDownDone) /\ WF_running(CancelRequests)
  /\ WF_running(ReadIdle) /\ WF_running(ReadRunning) /\ WF_running(ReaderThread)
  /\ WF_running(TakeMain) /\ WF_running(TakeCancel) /\ WF_running(Escalate) /\ WF_running(Emit)
  /\ WF_running(SeeExit) /\ WF_running(SeeEof) /\ WF_running(Finish)

-----------------------------------------------------------------------------
(* Properties. *)

\* The call of an earlier action was given up without its answer: the helper died, or the writer
\* could not be cloned.
GivenUp(n) == \E m \in 1 .. n - 1 : result[m].state # "none" /\ result[m].from = 0

\* The exit code or error that ends an action's call is the one of that action: the two ends of
\* the pipes never drift apart by a run (run_via_helper reads up to the exit before it returns).
AnswersItsRun ==
  \A n \in Actions : result[n].state # "none" /\ ~GivenUp(n) => result[n].from \in {0, n}

\* When the exit of an action has arrived, every line its command wrote has arrived before it:
\* the drain after a kill and the flush at the end of the output lose nothing.
OutputArrives ==
  \A n \in Actions :
     result[n].from = n /\ hist[n].code # "none" /\ ~GivenUp(n) => result[n].lines = hist[n].lines

\* An action is reported a success only when its own command exited with 0 and wrote no
\* openjd_fail line.
SuccessIsGenuine ==
  \A n \in Actions :
     result[n].state = "Success" /\ ~GivenUp(n) => hist[n].code = "zero" /\ ~hist[n].fail

\* On Unix a command is notified or killed only for a cancel or a timeout of its own action: a
\* cancel that arrives late is dropped when the helper is idle.  (The Windows helper keeps it in
\* its channel for the next command.)
SignalWasAsked ==
  \A n \in Actions : hist[n].signalled /\ ~Windows /\ ~GivenUp(n + 1) => hist[n].asked

\* A result is that action's own, a success is a success of its command, and a signal was asked for.
ResultsAreGenuine == AnswersItsRun /\ SuccessIsGenuine /\ SignalWasAsked

\* What keeps the helper from answering: a descendant outside the group holds the pipe (on Windows
\* any descendant once the command has exited), or the command closed its output and runs on while
\* the helper waits for it.
Deaf ==
  \/ descendant = "detached"
  \/ helper = "draining" /\ descendant # "none"
  \/ helper = "waiting" /\ child = "running"

\* Unless the helper is deaf again and again, a signalled action ends.
SignalEndsAction ==
  (<>[]~Deaf) => \A n \in Actions : hist[n].signalled ~> result[n].state # "none"

\* cleanup's shutdown of the helper returns, unless a call was given up while its command ran:
\* the runner then reads the shutdown command as one that is not a cancel, and drops it.
ShutdownCompletes == sess = "shutdown" ~> (sess = "closed" \/ GivenUp(cur + 1))

=============================================================================
