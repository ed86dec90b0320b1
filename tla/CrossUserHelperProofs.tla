------------------------ MODULE CrossUserHelperProofs ------------------------
(***************************************************************************)
(* Proofs about CrossUserHelper, for both platforms, any number of         *)
(* actions, cancels and lines, and any set of actions with a timeout, a    *)
(* descendant, a failing clone or a crash: an action is given its own      *)
(* answer with all of its output.                                          *)
(*                                                                         *)
(* The messages of the program carry no identifier, so the argument is     *)
(* about where the one answer that the session waits for can be: the run   *)
(* command is queued, or its command runs, or its answer is the last       *)
(* response in the pipe.  Once a call was given up without its answer the  *)
(* two ends may be out of step for good, and nothing more is claimed.      *)
(***************************************************************************)
EXTENDS CrossUserHelper, SequenceTheorems, TLAPS

USE DEF sessVars, queues, helperVars, process, running, vars

Command == [kind : {"run", "cancel", "shutdown"}, action : 0 .. MaxAction, method : Method \cup {"none"}]
ResponseSet == [kind : {"pid", "out", "exited", "error"}, action : Actions,
                value : Line \cup Code \cup {"none"}]
Result == [state : ActionState \cup {"none"}, from : 0 .. MaxAction, lines : Nat]
History == [asked : BOOLEAN, signalled : BOOLEAN, lines : Nat, code : Code \cup {"none"}, fail : BOOLEAN]

\* The values of the fields.
SessTypes ==
  /\ sess \in {"idle", "registered", "waiting", "returned", "shutdown", "closed"}
  /\ cur \in 0 .. MaxAction /\ hrun \in 0 .. cur
PipeTypes ==
  /\ stdin \in Seq(Command) /\ mainQ \in Seq(Command) /\ cancelQ \in Seq(Command)
  /\ stdout \in Seq(ResponseSet) /\ buffer \in Seq(Line)
ProcessTypes ==
  /\ helper \in {"idle", "running", "draining", "waiting", "gone"}
  /\ child \in {"none", "running"} \cup Code
  /\ descendant \in {"none", "group", "detached"}
ResultTypes == result \in [Actions -> Result]
HistTypes == hist \in [Actions -> History]

FieldTypes == SessTypes /\ PipeTypes /\ ProcessTypes /\ ResultTypes /\ HistTypes

NoRun(q) == \A i \in DOMAIN q : q[i].kind # "run"

\* Nothing of an action's command is left when the helper is idle.
QuietInv ==
  /\ helper \in {"idle", "waiting"} => PipeClosed /\ buffer = <<>>
  /\ helper = "idle" => child # "running" /\ ~escalation
  /\ helper \in {"running", "draining", "waiting"} => child # "none" /\ hrun \in Actions

\* Every action before the current one has its result, every later one is untouched.
OrderInv ==
  /\ \A n \in Actions : n > cur => result[n] = NoResult /\ hist[n] = NoHistory
  /\ \A n \in Actions : n < cur => result[n].state # "none"
  /\ sess \in {"registered", "waiting"} => cur \in Actions /\ result[cur].state = "none"
  /\ sess \notin {"registered", "waiting"} /\ cur \in Actions => result[cur].state # "none"
  /\ sess = "returned" => cur \in Actions
  /\ \A i \in DOMAIN stdin : stdin[i].kind = "run" => stdin[i].action \in 1 .. cur
  /\ \A i \in DOMAIN mainQ : mainQ[i].kind = "run" => mainQ[i].action \in 1 .. cur

RunIn(q, n) == \E i \in DOMAIN q : q[i].kind = "run" /\ q[i].action = n

\* Nothing of the action is under way any more.
Over(n) == (hrun = n => helper \in {"idle", "gone"}) /\ ~RunIn(stdin, n) /\ ~RunIn(mainQ, n)

\* The action has an answer, and every earlier one had one.
Answered(n) == result[n].state # "none" /\ result[n].from # 0 /\ ~GivenUp(n)

\* What the properties say of an answered action, which stays so because it is over.
PastInv ==
  \A n \in Actions : Answered(n) =>
    /\ result[n].from = n
    /\ hist[n].code # "none" => result[n].lines = hist[n].lines
    /\ result[n].state = "Success" => hist[n].code = "zero" /\ ~hist[n].fail
    /\ Over(n)

\* An action without a result has no answer, and one without an answer is no success.
FromInv ==
  \A n \in Actions : /\ result[n].state = "none" => result[n].from = 0
                     /\ result[n].state = "Success" => result[n].from # 0

\* The two ends are in step: no call was given up.
InStep == ~GivenUp(cur + 1)

\* The run of an action is the only one in the queue, and a cancel behind it was asked for.
OneRun(q, n, asked) ==
  \E k \in DOMAIN q :
    /\ q[k] = RunCommand(n)
    /\ \A j \in DOMAIN q : j # k => q[j].kind # "run"
    /\ \A j \in DOMAIN q : j > k /\ q[j].kind = "cancel" => asked

Cancels(q, asked) == \A j \in DOMAIN q : q[j].kind = "cancel" => asked

\* The command has written nothing yet.
Unheard == /\ hist[cur].lines = 0 /\ ~hist[cur].fail /\ hist[cur].code = "none"
           /\ result[cur].lines = 0 /\ ~sawFail

\* No run is queued and no answer is on its way.
Silent == NoRun(stdin) /\ NoRun(mainQ) /\ stdout = <<>> /\ helper \in {"idle", "gone"}

\* The run command is queued.
Sent ==
  /\ stdout = <<>> /\ helper \in {"idle", "gone"} /\ Unheard
  /\ \/ OneRun(stdin, cur, hist[cur].asked) /\ NoRun(mainQ)
     \/ /\ NoRun(stdin) /\ OneRun(mainQ, cur, hist[cur].asked)
        /\ Cancels(stdin, hist[cur].asked)

\* The responses up to the n-th: the pid, if it is still there, comes first, and the others are lines.
Lines(q, n) == \A i \in DOMAIN q : i <= n => q[i].kind = "out" \/ (q[i].kind = "pid" /\ i = 1)
Pids(q) == IF q # <<>> /\ q[1].kind = "pid" THEN 1 ELSE 0
FailIn(q) == \E i \in DOMAIN q : q[i].kind = "out" /\ q[i].value = "openjd_fail"

\* The command runs, or the helper died while it ran.
Working ==
  /\ NoRun(stdin) /\ NoRun(mainQ) /\ Cancels(stdin, hist[cur].asked) /\ hrun = cur
  /\ helper # "idle" /\ (escalation /\ ~Windows => hist[cur].asked)
  /\ Lines(stdout, Len(stdout))
  /\ helper # "gone" =>
       /\ hist[cur].lines = result[cur].lines + (Len(stdout) - Pids(stdout)) + Len(buffer)
       /\ hist[cur].fail => sawFail \/ FailIn(stdout) \/ \E i \in DOMAIN buffer : buffer[i] = "openjd_fail"
       /\ hist[cur].code = "none"

\* The answer is the last response.
Answering ==
  /\ NoRun(stdin) /\ NoRun(mainQ) /\ helper \in {"idle", "gone"} /\ stdout # <<>>
  /\ Lines(stdout, Len(stdout) - 1)
  /\ LET last == stdout[Len(stdout)] IN
     /\ last.action = cur
     /\ \/ last.kind = "error" /\ hist[cur].code = "none"
        \/ /\ last.kind = "exited" /\ hist[cur].code = last.value
           /\ hist[cur].lines = result[cur].lines + (Len(stdout) - 1 - Pids(stdout))
           /\ hist[cur].fail => sawFail \/ FailIn(stdout)

StepInv ==
  InStep => /\ sess = "waiting" => Sent \/ Working \/ Answering
            /\ sess # "waiting" => Silent
            /\ sess = "registered" => Unheard

HelperInv == FieldTypes /\ QuietInv /\ OrderInv /\ FromInv /\ PastInv /\ StepInv /\ SignalWasAsked

-----------------------------------------------------------------------------
\* What each side sends is a message of its pipe.
LEMMA MessageTypes ==
  /\ \A n \in Actions : RunCommand(n) \in Command
  /\ \A n \in Actions, m \in Method : CancelCommand(n, m) \in Command
  /\ Shutdown \in Command
  /\ \A n \in Actions : Response("pid", n, "none") \in ResponseSet
  /\ \A n \in Actions : Response("error", n, "none") \in ResponseSet
  /\ \A n \in Actions, l \in Line : Response("out", n, l) \in ResponseSet
  /\ \A n \in Actions, c \in Code : Response("exited", n, c) \in ResponseSet
BY HelperAssumption DEF HelperAssumption, RunCommand, CancelCommand, Shutdown, Response, Command, ResponseSet, Actions

\* The fields keep their types.
LEMMA SessTypesStep == FieldTypes /\ OrderInv /\ Next => SessTypes' /\ cur' >= cur
<1> SUFFICES ASSUME FieldTypes, OrderInv, Next PROVE SessTypes' /\ cur' >= cur
  OBVIOUS
<1>0. MaxAction \in Nat
  BY HelperAssumption DEF HelperAssumption
<1>1. CASE Session
  BY <1>0, <1>1 DEF Session, Register, SendRun, ReadResponse, HelperClosed, TimeoutFires, EndAction, ShutDown, ShutDownDone,
     Return, FieldTypes, SessTypes
<1>2. CASE ReadIdle
  <2>1. UNCHANGED <<sess, cur>> /\ (UNCHANGED hrun \/ (Head(stdin).kind = "run" /\ hrun' = Head(stdin).action))
    BY Zenon, <1>2 DEF ReadIdle, Dispatch, Spawn
  <2>2. Head(stdin) = stdin[1] /\ 1 \in DOMAIN stdin
    BY <1>2 DEF ReadIdle, FieldTypes, PipeTypes
  <2> QED
    BY <1>0, <2>1, <2>2 DEF FieldTypes, SessTypes, OrderInv
<1>3. CASE TakeMain
  <2>1. UNCHANGED <<sess, cur>> /\ (UNCHANGED hrun \/ (Head(mainQ).kind = "run" /\ hrun' = Head(mainQ).action))
    BY Zenon, <1>3 DEF TakeMain, Dispatch, Spawn
  <2>2. Head(mainQ) = mainQ[1] /\ 1 \in DOMAIN mainQ
    BY <1>3 DEF TakeMain, FieldTypes, PipeTypes
  <2> QED
    BY <1>0, <2>1, <2>2 DEF FieldTypes, SessTypes, OrderInv
<1>4. CASE CancelWrites \/ CancelRequests \/ ReadRunning \/ ReaderThread \/ TakeCancel \/ Escalate \/ Emit
           \/ SeeExit \/ SeeEof \/ Finish \/ Processes \/ Crash
  <2>1. UNCHANGED <<sess, cur, hrun>>
    BY Zenon, <1>4 DEF CancelWrites, CancelRequests, ReadRunning, ReaderThread, TakeCancel, Escalate, Emit, SeeExit, SeeEof, Finish,
       Processes, Write, Fork, ChildCloses, ChildExits, DescendantExits, Crash
  <2> QED
    BY <1>0, <2>1 DEF FieldTypes, SessTypes
<1> QED
  BY <1>1, <1>2, <1>3, <1>4 DEF Next, Helper

\* Every step keeps the types of the pipes and queues.
LEMMA PipeTypesStep == FieldTypes /\ QuietInv /\ OrderInv /\ Next => PipeTypes'
<1> SUFFICES ASSUME FieldTypes, QuietInv, OrderInv, Next PROVE PipeTypes'
  OBVIOUS
<1>a. stdin \in Seq(Command)
  BY DEF FieldTypes, PipeTypes
<1>b. mainQ \in Seq(Command)
  BY DEF FieldTypes, PipeTypes
<1>c. cancelQ \in Seq(Command)
  BY DEF FieldTypes, PipeTypes
<1>d. stdout \in Seq(ResponseSet)
  BY DEF FieldTypes, PipeTypes
<1>e. buffer \in Seq(Line)
  BY DEF FieldTypes, PipeTypes
<1>1. CASE SendRun \/ TimeoutFires \/ CancelWrites \/ ShutDown
  <2>1. UNCHANGED <<mainQ, cancelQ, stdout, buffer>> /\ (UNCHANGED stdin \/ \E c \in Command : stdin' = Append(stdin, c))
    <3>1. CASE SendRun
      <4>1. cur \in Actions
        BY <3>1 DEF SendRun, OrderInv
      <4> QED
        BY <3>1, <4>1, MessageTypes DEF SendRun
    <3>2. CASE TimeoutFires
      <4>1. cur \in Actions
        BY <3>2 DEF TimeoutFires, OrderInv
      <4> QED
        BY <3>2, <4>1, MessageTypes DEF TimeoutFires
    <3>3. CASE CancelWrites
      <4>1. cur \in Actions
        BY <3>3 DEF CancelWrites, OrderInv
      <4> QED
        BY <3>3, <4>1, MessageTypes DEF CancelWrites
    <3>4. CASE ShutDown
      BY <3>4, MessageTypes DEF ShutDown
    <3> QED
      BY <1>1, <3>1, <3>2, <3>3, <3>4
  <2>2. stdin' \in Seq(Command)
    BY <1>a, <2>1
  <2> QED
    BY Zenon, <1>a, <1>b, <1>c, <1>d, <1>e, <2>1, <2>2 DEF PipeTypes
<1>2. CASE ReadResponse
  <2>1. UNCHANGED <<stdin, mainQ, cancelQ, buffer>> /\ stdout # <<>> /\ stdout' = Tail(stdout)
    BY Zenon, <1>2 DEF ReadResponse
  <2>2. stdout' \in Seq(ResponseSet)
    BY <1>d, <2>1
  <2> QED
    BY Zenon, <1>a, <1>b, <1>c, <1>e, <2>1, <2>2 DEF PipeTypes
<1>3. CASE ReadIdle \/ TakeMain
  <2>1. UNCHANGED cancelQ /\ buffer' \in {buffer, <<>>}
    BY <1>3 DEF ReadIdle, TakeMain, Dispatch, Spawn
  <2>2. \/ stdin # <<>> /\ stdin' = Tail(stdin) /\ UNCHANGED mainQ
        \/ mainQ # <<>> /\ mainQ' = Tail(mainQ) /\ UNCHANGED stdin
    BY Zenon, <1>3 DEF ReadIdle, TakeMain
  <2>3. stdout' = stdout \/ \E r \in ResponseSet : stdout' = Append(stdout, r)
    <3>1. ASSUME NEW c \in Command, Dispatch(c), c.kind = "run" => c.action \in 1 .. cur
          PROVE  stdout' = stdout \/ \E r \in ResponseSet : stdout' = Append(stdout, r)
      <4>1. c.kind = "run" => c.action \in Actions
        BY <3>1, HelperAssumption DEF HelperAssumption, FieldTypes, SessTypes, Actions
      <4> QED
        BY <3>1, <4>1, MessageTypes DEF Dispatch, Spawn
    <3>2. CASE ReadIdle
      <4>1. Head(stdin) \in Command /\ Head(stdin) = stdin[1] /\ 1 \in DOMAIN stdin
        BY <1>a, <3>2 DEF ReadIdle
      <4> QED
        BY <3>1, <3>2, <4>1 DEF ReadIdle, OrderInv
    <3>3. CASE TakeMain
      <4>1. Head(mainQ) \in Command /\ Head(mainQ) = mainQ[1] /\ 1 \in DOMAIN mainQ
        BY <1>b, <3>3 DEF TakeMain
      <4> QED
        BY <3>1, <3>3, <4>1 DEF TakeMain, OrderInv
    <3> QED
      BY <1>3, <3>2, <3>3
  <2>4. stdin' \in Seq(Command) /\ mainQ' \in Seq(Command)
    <3>1. CASE stdin # <<>> /\ stdin' = Tail(stdin) /\ UNCHANGED mainQ
      BY <1>a, <1>b, <3>1
    <3>2. CASE mainQ # <<>> /\ mainQ' = Tail(mainQ) /\ UNCHANGED stdin
      BY <1>a, <1>b, <3>2
    <3> QED
      BY <2>2, <3>1, <3>2
  <2>5. stdout' \in Seq(ResponseSet)
    BY <1>d, <2>3
  <2> QED
    <3>1. buffer' \in Seq(Line)
      BY <1>e, <2>1, EmptySeq, Zenon
    <3> QED
      BY Zenon, <1>a, <1>b, <1>c, <1>d, <1>e, <2>1, <2>4, <2>5, <3>1 DEF PipeTypes
<1>4. CASE ReadRunning \/ TakeCancel
  <2>1. UNCHANGED <<mainQ, stdout, buffer>> /\ stdin' \in {stdin, Tail(stdin)} /\ cancelQ' \in {cancelQ, Tail(cancelQ)}
        /\ (stdin' # stdin => stdin # <<>>) /\ (cancelQ' # cancelQ => cancelQ # <<>>)
    BY <1>4 DEF ReadRunning, TakeCancel, Apply, KillGroup
  <2>2. stdin' \in Seq(Command)
    BY <1>a, <2>1
  <2>3. cancelQ' \in Seq(Command)
    BY <1>c, <2>1
  <2> QED
    BY Zenon, <1>a, <1>b, <1>c, <1>d, <1>e, <2>1, <2>2, <2>3 DEF PipeTypes
<1>5. CASE ReaderThread
  <2>1. /\ UNCHANGED <<stdout, buffer>> /\ stdin # <<>> /\ stdin' = Tail(stdin)
        /\ \/ cancelQ' = Append(cancelQ, Head(stdin)) /\ UNCHANGED mainQ
           \/ mainQ' = Append(mainQ, Head(stdin)) /\ UNCHANGED cancelQ
    BY Zenon, <1>5 DEF ReaderThread
  <2>2. stdin' \in Seq(Command) /\ Head(stdin) \in Command
    BY <1>a, <2>1
  <2>3. mainQ' = mainQ \/ \E c \in Command : mainQ' = Append(mainQ, c)
    BY Zenon, <2>1, <2>2
  <2>4. cancelQ' = cancelQ \/ \E c \in Command : cancelQ' = Append(cancelQ, c)
    BY Zenon, <2>1, <2>2
  <2>5. mainQ' \in Seq(Command)
    BY <1>b, <2>3
  <2>6. cancelQ' \in Seq(Command)
    BY <1>c, <2>4
  <2> QED
    BY Zenon, <1>a, <1>b, <1>c, <1>d, <1>e, <2>1, <2>2, <2>5, <2>6 DEF PipeTypes
<1>6. CASE Emit
  <2>1. Head(buffer) \in Line /\ hrun \in Actions
    BY <1>e, <1>6 DEF Emit, QuietInv
  <2>2. Response("out", hrun, Head(buffer)) \in ResponseSet
    BY <2>1, MessageTypes
  <2>3. stdout' \in Seq(ResponseSet)
    BY <1>d, <1>6, <2>2 DEF Emit
  <2>4. buffer' \in Seq(Line)
    BY <1>e, <1>6 DEF Emit
  <2>5. UNCHANGED <<stdin, mainQ, cancelQ>>
    BY <1>6 DEF Emit
  <2> QED
    BY Zenon, <1>a, <1>b, <1>c, <2>3, <2>4, <2>5 DEF PipeTypes
<1>7. CASE Finish
  <2>1. child \in Code /\ hrun \in Actions
    BY <1>7 DEF Finish, QuietInv, FieldTypes, ProcessTypes
  <2>2. Response("exited", hrun, child) \in ResponseSet
    BY <2>1, MessageTypes
  <2>3. stdout' \in Seq(ResponseSet)
    BY <1>d, <1>7, <2>2 DEF Finish
  <2>4. UNCHANGED <<stdin, mainQ, cancelQ, buffer>>
    BY <1>7 DEF Finish
  <2> QED
    BY Zenon, <1>a, <1>b, <1>c, <1>e, <2>3, <2>4 DEF PipeTypes
<1>8. CASE Write
  <2>1. buffer' \in Seq(Line)
    BY <1>e, <1>8 DEF Write
  <2>2. UNCHANGED <<stdin, mainQ, cancelQ, stdout>>
    BY <1>8 DEF Write
  <2> QED
    BY Zenon, <1>a, <1>b, <1>c, <1>d, <2>1, <2>2 DEF PipeTypes
<1>9. CASE Register \/ HelperClosed \/ EndAction \/ ShutDownDone \/ CancelRequests \/ Escalate \/ SeeExit \/ SeeEof
           \/ Crash \/ Fork \/ ChildCloses \/ ChildExits \/ DescendantExits
  <2>1. UNCHANGED <<stdin, mainQ, cancelQ, stdout, buffer>>
    BY Zenon, <1>9 DEF Register, HelperClosed, EndAction, ShutDownDone, CancelRequests, Escalate, SeeExit, SeeEof, Crash, Fork,
       ChildCloses, ChildExits, DescendantExits, KillGroup
  <2> QED
    BY Zenon, <1>a, <1>b, <1>c, <1>d, <1>e, <2>1 DEF PipeTypes
<1> QED
  BY <1>1, <1>2, <1>3, <1>4, <1>5, <1>6, <1>7, <1>8, <1>9 DEF Next, Session, Helper, Processes

\* Every step keeps the types of the command and of what is recorded of it.
LEMMA ProcessTypesStep == FieldTypes /\ Next => ProcessTypes'
<1> SUFFICES ASSUME FieldTypes, Next PROVE ProcessTypes'
  OBVIOUS
<1> USE DEF FieldTypes, ProcessTypes, Code
<1>1. CASE Session \/ CancelWrites \/ CancelRequests \/ ReaderThread \/ Emit \/ Write
  <2>1. UNCHANGED <<helper, child, descendant>>
    BY Zenon, <1>1 DEF Session, CancelWrites, CancelRequests, ReaderThread, Emit, Write, Register, SendRun, ReadResponse,
       HelperClosed, TimeoutFires, EndAction, ShutDown, ShutDownDone
  <2> QED
    BY <2>1
<1>2. CASE ReadIdle \/ TakeMain
  BY <1>2 DEF ReadIdle, TakeMain, Dispatch, Spawn
<1>3. CASE ReadRunning \/ TakeCancel \/ Escalate
  BY <1>3 DEF ReadRunning, TakeCancel, Escalate, Apply, KillGroup
<1>4. CASE SeeExit \/ SeeEof \/ Finish \/ Crash
  BY <1>4 DEF SeeExit, SeeEof, Finish, Crash, KillGroup
<1>5. CASE Fork \/ ChildCloses \/ ChildExits \/ DescendantExits
  BY <1>5 DEF Fork, ChildCloses, ChildExits, DescendantExits
<1> QED
  BY <1>1, <1>2, <1>3, <1>4, <1>5 DEF Next, Helper, Processes

\* Only a call under way changes results, and only that of its own action.
LEMMA ResultStep ==
  ASSUME FieldTypes, OrderInv, Next
  PROVE  /\ ResultTypes'
         /\ \A n \in Actions : n # cur => result'[n] = result[n]
         /\ sess \notin {"registered", "waiting"} => result' = result
<1>0. MaxAction \in Nat /\ result \in [Actions -> Result]
  BY HelperAssumption DEF HelperAssumption, FieldTypes, ResultTypes
<1>1. CASE SendRun \/ HelperClosed \/ TimeoutFires
  <2>1. sess \in {"registered", "waiting"} /\ cur \in Actions
    BY <1>1 DEF SendRun, HelperClosed, TimeoutFires, OrderInv
  <2>2. result' = result \/ Report("Failed", 0, 0) \/ Report("Failed", 0, result[cur].lines)
    BY Zenon, <1>1 DEF SendRun, HelperClosed, TimeoutFires
  <2>3. \A l \in Nat : [state |-> "Failed", from |-> 0, lines |-> l] \in Result
    BY <1>0 DEF Result, ActionState
  <2>4. result[cur].lines \in Nat
    BY <1>0, <2>1 DEF Result
  <2> QED
    BY <1>0, <2>1, <2>2, <2>3, <2>4 DEF Report, ResultTypes
<1>2. CASE ReadResponse
  <2>1. sess = "waiting" /\ cur \in Actions
    BY <1>2 DEF ReadResponse, OrderInv
  <2>2. Head(stdout) \in ResponseSet
    BY <1>2 DEF ReadResponse, FieldTypes, PipeTypes
  <2>3. \/ result' = result
        \/ result' = [result EXCEPT ![cur].lines = @ + 1]
        \/ \E st \in ActionState : Report(st, Head(stdout).action, result[cur].lines)
    <3>1. \A c : FinalState(c) \in ActionState
      BY DEF FinalState, ActionState
    <3>2. "Failed" \in ActionState
      BY DEF ActionState
    <3> QED
      BY Zenon, <1>2, <3>1, <3>2 DEF ReadResponse
  <2>4. result[cur] \in Result /\ [result[cur] EXCEPT !.lines = @ + 1] \in Result
    BY <1>0, <2>1 DEF Result
  <2>5. \A st \in ActionState : [state |-> st, from |-> Head(stdout).action, lines |-> result[cur].lines] \in Result
    BY <1>0, <2>2, <2>4 DEF Result, ResponseSet, Actions
  <2> QED
    BY <1>0, <2>1, <2>3, <2>4, <2>5 DEF Report, ResultTypes
<1>3. CASE ~(SendRun \/ HelperClosed \/ TimeoutFires \/ ReadResponse)
  <2>1. UNCHANGED result
    BY Zenon, <1>3 DEF Next, Session, Helper, Processes, Register, EndAction, ShutDown, ShutDownDone, CancelWrites, CancelRequests,
       ReadIdle, ReadRunning, ReaderThread, TakeMain, TakeCancel, Escalate, Emit, SeeExit, SeeEof, Finish, Crash,
       Write, Fork, ChildCloses, ChildExits, DescendantExits
  <2> QED
    BY <1>0, <2>1 DEF ResultTypes
<1> QED
  BY <1>1, <1>2, <1>3

\* An answer keeps naming the run it came from.
LEMMA FromStep == FieldTypes /\ OrderInv /\ FromInv /\ Next => FromInv'
<1> SUFFICES ASSUME FieldTypes, OrderInv, FromInv, Next PROVE FromInv'
  OBVIOUS
<1>0. MaxAction \in Nat /\ result \in [Actions -> Result]
  BY HelperAssumption DEF HelperAssumption, FieldTypes, ResultTypes
<1>1. CASE SendRun \/ HelperClosed \/ TimeoutFires
  <2>1. cur \in Actions
    BY <1>1 DEF SendRun, HelperClosed, TimeoutFires, OrderInv
  <2>2. result' = result \/ \E l : Report("Failed", 0, l)
    BY Zenon, <1>1 DEF SendRun, HelperClosed, TimeoutFires
  <2> QED
    BY <1>0, <2>1, <2>2 DEF Report, FromInv
<1>2. CASE ReadResponse
  <2>1. cur \in Actions
    BY <1>2 DEF ReadResponse, OrderInv
  <2>2. Head(stdout).action # 0
    <3>1. Head(stdout) \in ResponseSet
      BY <1>2 DEF ReadResponse, FieldTypes, PipeTypes
    <3> QED
      BY <1>0, <3>1 DEF ResponseSet, Actions
  <2>3. \/ result' = result
        \/ result' = [result EXCEPT ![cur].lines = @ + 1]
        \/ \E st \in ActionState : Report(st, Head(stdout).action, result[cur].lines)
    <3>1. \A c : FinalState(c) \in ActionState
      BY DEF FinalState, ActionState
    <3>2. "Failed" \in ActionState
      BY DEF ActionState
    <3> QED
      BY Zenon, <1>2, <3>1, <3>2 DEF ReadResponse
  <2>4. CASE result' = [result EXCEPT ![cur].lines = @ + 1]
    BY <1>0, <2>1, <2>4 DEF FromInv, Result
  <2>5. CASE \E st \in ActionState : Report(st, Head(stdout).action, result[cur].lines)
    BY <1>0, <2>1, <2>2, <2>5 DEF FromInv, Report, ActionState
  <2> QED
    BY <2>3, <2>4, <2>5 DEF FromInv
<1>3. CASE ~(SendRun \/ HelperClosed \/ TimeoutFires \/ ReadResponse)
  <2>1. UNCHANGED result
    BY Zenon, <1>3 DEF Next, Session, Helper, Processes, Register, EndAction, ShutDown, ShutDownDone, CancelWrites, CancelRequests,
       ReadIdle, ReadRunning, ReaderThread, TakeMain, TakeCancel, Escalate, Emit, SeeExit, SeeEof, Finish, Crash,
       Write, Fork, ChildCloses, ChildExits, DescendantExits
  <2> QED
    BY <2>1 DEF FromInv
<1> QED
  BY <1>1, <1>2, <1>3

\* What the four kinds of update do to the history.
LEMMA AskedUpdate ==
  ASSUME HistTypes, NEW n \in Actions, hist' = [hist EXCEPT ![n].asked = TRUE]
  PROVE  /\ HistTypes' /\ \A m \in Actions : m # n => hist'[m] = hist[m]
         /\ hist'[n].asked
         /\ hist'[n].lines = hist[n].lines /\ hist'[n].code = hist[n].code
         /\ hist'[n].fail = hist[n].fail /\ hist'[n].signalled = hist[n].signalled
BY Zenon DEF HistTypes, History

\* What changes in the record of a run when its command is signalled.
LEMMA SignalledUpdate ==
  ASSUME HistTypes, NEW n \in Actions, NEW b \in BOOLEAN, hist' = [hist EXCEPT ![n].signalled = b]
  PROVE  /\ HistTypes' /\ \A m \in Actions : m # n => hist'[m] = hist[m]
         /\ hist'[n].lines = hist[n].lines /\ hist'[n].code = hist[n].code
         /\ hist'[n].fail = hist[n].fail /\ hist'[n].asked = hist[n].asked
BY DEF HistTypes, History

\* What changes when the exit of a command is recorded.
LEMMA CodeUpdate ==
  ASSUME HistTypes, NEW n \in Actions, NEW c \in Code, hist' = [hist EXCEPT ![n].code = c]
  PROVE  /\ HistTypes' /\ \A m \in Actions : m # n => hist'[m] = hist[m]
         /\ hist'[n].lines = hist[n].lines /\ hist'[n].code = c
         /\ hist'[n].fail = hist[n].fail
         /\ hist'[n].asked = hist[n].asked /\ hist'[n].signalled = hist[n].signalled
BY DEF HistTypes, History

\* What changes when a command writes a line.
LEMMA LineUpdate ==
  ASSUME HistTypes, NEW n \in Actions, NEW l \in Line,
         hist' = [hist EXCEPT ![n].lines = @ + 1, ![n].fail = @ \/ l = "openjd_fail"]
  PROVE  /\ HistTypes' /\ \A m \in Actions : m # n => hist'[m] = hist[m]
         /\ hist'[n].lines = hist[n].lines + 1 /\ hist'[n].code = hist[n].code
         /\ hist'[n].fail => hist[n].fail \/ l = "openjd_fail"
         /\ hist'[n].asked = hist[n].asked /\ hist'[n].signalled = hist[n].signalled
<1>1. PICK b \in BOOLEAN : b = (hist[n].fail \/ l = "openjd_fail")
  BY Zenon
<1>2. hist' = [hist EXCEPT ![n] = [hist[n] EXCEPT !.lines = @ + 1, !.fail = b]]
  BY <1>1, Zenon DEF HistTypes, History
<1>3. hist'[n] = [hist[n] EXCEPT !.lines = @ + 1, !.fail = b]
  BY <1>2, Zenon DEF HistTypes
<1>4. hist[n] \in History /\ hist'[n].fail = b
  <2>1. hist[n] \in History
    BY Zenon DEF HistTypes
  <2> QED
    BY <1>3, <2>1, Zenon DEF History
<1>5. hist'[n].fail => hist[n].fail \/ l = "openjd_fail"
  BY Zenon, <1>1, <1>4
<1> QED
  BY <1>2, <1>3, <1>4, <1>5 DEF HistTypes, History

\* A step that leaves alone what the command of an action did.
SameRun(n) ==
  /\ hist'[n].lines = hist[n].lines /\ hist'[n].code = hist[n].code
  /\ hist'[n].fail = hist[n].fail /\ hist'[n].signalled = hist[n].signalled

\* Only the command the helper runs adds to what happened, and a request is never forgotten.
LEMMA HistStep ==
  ASSUME FieldTypes, QuietInv, OrderInv, Next
  PROVE  /\ HistTypes'
         /\ \A n \in Actions : hist[n].asked => hist'[n].asked
         /\ \A n \in Actions : n # hrun \/ helper \in {"idle", "gone"} => SameRun(n)
         /\ \A n \in Actions : n # hrun /\ n # cur => hist'[n] = hist[n]
<1>0. HistTypes /\ hist \in [Actions -> History]
  BY DEF FieldTypes, HistTypes
<1>1. CASE TimeoutFires \/ CancelWrites
  <2>1. cur \in Actions
    BY <1>1 DEF TimeoutFires, CancelWrites, OrderInv
  <2>2. hist' = hist \/ hist' = [hist EXCEPT ![cur].asked = TRUE]
    BY Zenon, <1>1 DEF TimeoutFires, CancelWrites
  <2>3. CASE hist' = hist
    BY <1>0, <2>3 DEF SameRun, HistTypes
  <2>4. CASE hist' = [hist EXCEPT ![cur].asked = TRUE]
    BY <1>0, <2>1, <2>4, AskedUpdate, Zenon DEF SameRun
  <2> QED
    BY <2>2, <2>3, <2>4
<1>2. CASE ReadRunning \/ TakeCancel \/ Escalate
  <2>1. hrun \in Actions /\ helper = "running"
    BY <1>2 DEF ReadRunning, TakeCancel, Escalate, QuietInv
  <2>2. hist' = hist \/ Signalled
    BY Zenon, <1>2 DEF ReadRunning, TakeCancel, Escalate
  <2>3. CASE hist' = hist
    BY <1>0, <2>3 DEF SameRun, HistTypes
  <2>4. CASE Signalled
    <3>1. PICK b \in BOOLEAN : b = (hist[hrun].signalled \/ child = "running")
      BY Zenon
    <3>2. hist' = [hist EXCEPT ![hrun].signalled = b]
      BY <2>4, <3>1 DEF Signalled
    <3> QED
      BY <1>0, <2>1, <3>2, SignalledUpdate, Zenon DEF SameRun
  <2> QED
    BY <2>2, <2>3, <2>4
<1>3. CASE Finish
  <2>1. hrun \in Actions /\ helper = "waiting" /\ child \in Code
    BY <1>3 DEF Finish, QuietInv, FieldTypes, ProcessTypes
  <2>2. hist' = [hist EXCEPT ![hrun].code = child]
    BY <1>3 DEF Finish
  <2> QED
    BY <1>0, <2>1, <2>2, CodeUpdate, Zenon DEF SameRun
<1>4. CASE Write
  <2>1. helper \in {"running", "draining"} /\ hrun \in Actions
    BY <1>4 DEF Write, QuietInv, PipeClosed, FieldTypes, ProcessTypes
  <2>2. PICK l \in Line : hist' = [hist EXCEPT ![hrun].lines = @ + 1, ![hrun].fail = @ \/ l = "openjd_fail"]
    BY Zenon, <1>4 DEF Write
  <2> QED
    BY <1>0, <2>1, <2>2, LineUpdate, Zenon DEF SameRun
<1>5. CASE ~(TimeoutFires \/ CancelWrites \/ ReadRunning \/ TakeCancel \/ Escalate \/ Finish \/ Write)
  <2>1. UNCHANGED hist
    BY Zenon, <1>5 DEF Next, Session, Helper, Processes, Register, SendRun, ReadResponse, HelperClosed, EndAction, ShutDown,
       ShutDownDone, CancelRequests, ReadIdle, ReaderThread, TakeMain, Emit, SeeExit, SeeEof, Crash, Fork, ChildCloses,
       ChildExits, DescendantExits
  <2> QED
    BY <1>0, <2>1 DEF SameRun, HistTypes
<1> QED
  BY <1>1, <1>2, <1>3, <1>4, <1>5

\* An idle helper still has nothing of a command left.
LEMMA QuietStep == FieldTypes /\ OrderInv /\ QuietInv /\ Next => QuietInv'
<1> SUFFICES ASSUME FieldTypes, OrderInv, QuietInv, Next PROVE QuietInv'
  OBVIOUS
<1> USE DEF QuietInv, PipeClosed
<1>0. MaxAction \in Nat /\ cur \in 0 .. MaxAction /\ buffer \in Seq(Line)
  BY HelperAssumption DEF HelperAssumption, FieldTypes, SessTypes, PipeTypes
<1>1. CASE Session \/ CancelWrites \/ CancelRequests \/ ReaderThread
  <2>1. UNCHANGED <<helper, hrun, escalation, process>>
    BY Zenon, <1>1 DEF Session, CancelWrites, CancelRequests, ReaderThread, Register, SendRun, ReadResponse,
       HelperClosed, TimeoutFires, EndAction, ShutDown, ShutDownDone
  <2> QED
    BY <2>1
<1>2. CASE ReadIdle
  <2>1. Head(stdin) = stdin[1] /\ 1 \in DOMAIN stdin
    BY <1>2 DEF ReadIdle, FieldTypes, PipeTypes
  <2>2. Head(stdin).kind = "run" => Head(stdin).action \in Actions
    BY <1>0, <2>1 DEF OrderInv, Actions
  <2> QED
    BY <1>2, <2>2 DEF ReadIdle, Dispatch, Spawn
<1>3. CASE TakeMain
  <2>1. Head(mainQ) = mainQ[1] /\ 1 \in DOMAIN mainQ
    BY <1>3 DEF TakeMain, FieldTypes, PipeTypes
  <2>2. Head(mainQ).kind = "run" => Head(mainQ).action \in Actions
    BY <1>0, <2>1 DEF OrderInv, Actions
  <2> QED
    BY <1>3, <2>2 DEF TakeMain, Dispatch, Spawn
<1>4. CASE ReadRunning \/ TakeCancel \/ Escalate
  <2>1. helper = "running" /\ UNCHANGED <<helper, hrun>> /\ child' \in {child, "nonzero"}
    BY <1>4 DEF ReadRunning, TakeCancel, Escalate, Apply, KillGroup
  <2> QED
    BY <2>1
<1>5. CASE Emit \/ SeeExit \/ SeeEof \/ Finish \/ Crash
  BY <1>5 DEF Emit, SeeExit, SeeEof, Finish, Crash, KillGroup
<1>6. CASE Processes
  BY <1>6 DEF Processes, Write, Fork, ChildCloses, ChildExits, DescendantExits, Code
<1> QED
  BY <1>1, <1>2, <1>3, <1>4, <1>5, <1>6 DEF Next, Helper

\* How the two queues that hold run commands change.
LEMMA StdinStep ==
  ASSUME FieldTypes, OrderInv, Next
  PROVE  \/ stdin' = stdin
         \/ stdin # <<>> /\ stdin' = Tail(stdin)
         \/ SendRun /\ stdin' = Append(stdin, RunCommand(cur))
         \/ \E c \in Command : c.kind # "run" /\ stdin' = Append(stdin, c)
<1>1. CASE TimeoutFires \/ CancelWrites
  <2>1. cur \in Actions
    BY <1>1 DEF TimeoutFires, CancelWrites, OrderInv
  <2>2. stdin' = stdin \/ \E m \in Method : stdin' = Append(stdin, CancelCommand(cur, m))
    BY Zenon, <1>1 DEF TimeoutFires, CancelWrites
  <2>3. \A m \in Method : CancelCommand(cur, m) \in Command /\ CancelCommand(cur, m).kind # "run"
    BY <2>1, MessageTypes DEF CancelCommand
  <2> QED
    BY Zenon, <2>2, <2>3
<1>2. CASE ShutDown
  <2>1. Shutdown \in Command /\ Shutdown.kind # "run"
    BY MessageTypes DEF Shutdown
  <2> QED
    BY Zenon, <1>2, <2>1 DEF ShutDown
<1>3. CASE SendRun \/ ReadIdle \/ ReadRunning \/ ReaderThread
  BY Zenon, <1>3 DEF SendRun, ReadIdle, ReadRunning, ReaderThread
<1>4. CASE ~(TimeoutFires \/ CancelWrites \/ ShutDown \/ SendRun \/ ReadIdle \/ ReadRunning \/ ReaderThread)
  BY Zenon, <1>4 DEF Next, Session, Helper, Processes, Register, ReadResponse, HelperClosed, EndAction, ShutDownDone, CancelRequests,
     TakeMain, TakeCancel, Escalate, Emit, SeeExit, SeeEof, Finish, Crash, Write, Fork, ChildCloses, ChildExits, DescendantExits
<1> QED
  BY <1>1, <1>2, <1>3, <1>4

\* The Windows reader's queue keeps its order.
LEMMA MainQStep ==
  ASSUME Next
  PROVE  \/ mainQ' = mainQ
         \/ mainQ # <<>> /\ mainQ' = Tail(mainQ)
         \/ stdin # <<>> /\ mainQ' = Append(mainQ, Head(stdin))
<1>1. CASE ReaderThread \/ TakeMain
  BY Zenon, <1>1 DEF ReaderThread, TakeMain
<1>2. CASE ~(ReaderThread \/ TakeMain)
  BY Zenon, <1>2 DEF Next, Session, Helper, Processes, Register, SendRun, ReadResponse, HelperClosed, TimeoutFires, EndAction, ShutDown,
     ShutDownDone, CancelWrites, CancelRequests, ReadIdle, ReadRunning, TakeCancel, Escalate, Emit, SeeExit, SeeEof, Finish, Crash,
     Write, Fork, ChildCloses, ChildExits, DescendantExits
<1> QED
  BY <1>1, <1>2

\* A run command comes into the queues only when it is sent.
LEMMA QueuedStep ==
  ASSUME FieldTypes, OrderInv, Next, NEW n, RunIn(stdin', n) \/ RunIn(mainQ', n)
  PROVE  RunIn(stdin, n) \/ RunIn(mainQ, n) \/ (SendRun /\ n = cur)
<1>a. stdin \in Seq(Command)
  BY DEF FieldTypes, PipeTypes
<1>b. mainQ \in Seq(Command)
  BY DEF FieldTypes, PipeTypes
<1>1. CASE RunIn(stdin', n)
  <2>1. CASE stdin' = stdin
    BY <1>1, <2>1
  <2>2. CASE stdin # <<>> /\ stdin' = Tail(stdin)
    BY <1>a, <1>1, <2>2 DEF RunIn
  <2>3. CASE SendRun /\ stdin' = Append(stdin, RunCommand(cur))
    BY <1>a, <1>1, <2>3 DEF RunIn, RunCommand
  <2>4. ASSUME NEW c \in Command, c.kind # "run", stdin' = Append(stdin, c)
        PROVE  RunIn(stdin, n)
    BY <1>a, <1>1, <2>4 DEF RunIn
  <2> QED
    BY <2>1, <2>2, <2>3, <2>4, StdinStep
<1>2. CASE RunIn(mainQ', n)
  <2>1. CASE mainQ' = mainQ
    BY <1>2, <2>1
  <2>2. CASE mainQ # <<>> /\ mainQ' = Tail(mainQ)
    BY <1>b, <1>2, <2>2 DEF RunIn
  <2>3. CASE stdin # <<>> /\ mainQ' = Append(mainQ, Head(stdin))
    <3>1. PICK c \in Command : c = Head(stdin) /\ 1 \in DOMAIN stdin /\ c = stdin[1]
      BY <1>a, <2>3
    <3>2. RunIn(mainQ, n) \/ (c.kind = "run" /\ c.action = n)
      BY <1>b, <1>2, <2>3, <3>1 DEF RunIn
    <3> QED
      BY <3>1, <3>2 DEF RunIn
  <2> QED
    BY <2>1, <2>2, <2>3, MainQStep
<1> QED
  BY <1>1, <1>2

\* A command is started only for a queued run, by an idle helper.
LEMMA HrunStep ==
  ASSUME FieldTypes, Next
  PROVE  \/ hrun' = hrun /\ (helper' \in {"idle", "gone"} \/ helper \notin {"idle", "gone"})
         \/ helper = "idle" /\ helper' = "running" /\ (RunIn(stdin, hrun') \/ RunIn(mainQ, hrun'))
<1>1. CASE ReadIdle
  <2>1. 1 \in DOMAIN stdin /\ stdin[1] = Head(stdin)
    BY <1>1 DEF ReadIdle, FieldTypes, PipeTypes
  <2> QED
    BY <1>1, <2>1 DEF ReadIdle, Dispatch, Spawn, RunIn
<1>2. CASE TakeMain
  <2>1. 1 \in DOMAIN mainQ /\ mainQ[1] = Head(mainQ)
    BY <1>2 DEF TakeMain, FieldTypes, PipeTypes
  <2> QED
    BY <1>2, <2>1 DEF TakeMain, Dispatch, Spawn, RunIn
<1>3. CASE SeeExit \/ SeeEof \/ Finish \/ Crash
  BY <1>3 DEF SeeExit, SeeEof, Finish, Crash
<1>4. CASE ~(ReadIdle \/ TakeMain \/ SeeExit \/ SeeEof \/ Finish \/ Crash)
  <2>1. UNCHANGED <<helper, hrun>>
    BY Zenon, <1>4 DEF Next, Session, Helper, Processes, Register, SendRun, ReadResponse, HelperClosed, TimeoutFires, EndAction, ShutDown,
       ShutDownDone, CancelWrites, CancelRequests, ReadRunning, ReaderThread, TakeCancel, Escalate, Emit,
       Write, Fork, ChildCloses, ChildExits, DescendantExits
  <2> QED
    BY <2>1
<1> QED
  BY <1>1, <1>2, <1>3, <1>4

\* A result that is there stays as it is.
LEMMA ResultKept ==
  ASSUME FieldTypes, OrderInv, Next, NEW n \in Actions, result[n].state # "none"
  PROVE  result'[n] = result[n]
BY ResultStep DEF OrderInv

\* The control state of the session and what it means for the current result.
LEMMA SessStep ==
  ASSUME FieldTypes, OrderInv, Next
  PROVE  /\ cur' = cur \/ (cur' = cur + 1 /\ cur' \in Actions /\ sess = "idle" /\ result' = result)
         /\ sess' \in {"registered", "waiting"} => cur' \in Actions /\ result'[cur'].state = "none"
         /\ sess' \notin {"registered", "waiting"} /\ cur' \in Actions => result'[cur'].state # "none"
         /\ sess' = "returned" => cur' \in Actions
<1>0. MaxAction \in Nat /\ result \in [Actions -> Result] /\ cur \in 0 .. MaxAction /\ Actions = 1 .. MaxAction
  BY HelperAssumption DEF HelperAssumption, FieldTypes, ResultTypes, SessTypes, Actions
<1>1. CASE Register
  <2>1. sess' = "registered" /\ cur' = cur + 1 /\ cur < MaxAction /\ result' = result /\ sess = "idle"
    BY Zenon, <1>1 DEF Register
  <2>2. cur' \in Actions /\ cur' > cur
    BY <1>0, <2>1
  <2>3. result[cur'] = NoResult
    BY <2>2 DEF OrderInv
  <2> QED
    BY <2>1, <2>2, <2>3 DEF NoResult
<1>2. CASE SendRun \/ HelperClosed \/ TimeoutFires \/ ReadResponse
  <2>1. cur' = cur /\ cur \in Actions /\ result[cur].state = "none"
    BY <1>2 DEF SendRun, HelperClosed, TimeoutFires, ReadResponse, OrderInv
  <2>2. \/ sess' \in {"waiting"} /\ result' = result
        \/ sess' \in {"waiting"} /\ result' = [result EXCEPT ![cur].lines = @ + 1]
        \/ sess' = "returned" /\ \E st \in ActionState : \E f, l : Report(st, f, l)
    <3>1. \A c : FinalState(c) \in ActionState
      BY DEF FinalState, ActionState
    <3>2. "Failed" \in ActionState
      BY DEF ActionState
    <3> QED
      BY Zenon, <1>2, <3>1, <3>2 DEF SendRun, HelperClosed, TimeoutFires, ReadResponse, Return
  <2>3. CASE sess' \in {"waiting"} /\ result' = result
    BY <2>1, <2>3
  <2>4. CASE sess' \in {"waiting"} /\ result' = [result EXCEPT ![cur].lines = @ + 1]
    BY <1>0, <2>1, <2>4 DEF Result
  <2>5. CASE sess' = "returned" /\ \E st \in ActionState : \E f, l : Report(st, f, l)
    <3>1. PICK st \in ActionState : \E f, l : Report(st, f, l)
      BY <2>5
    <3>2. result'[cur].state = st
      BY <1>0, <2>1, <3>1 DEF Report
    <3> QED
      BY <2>1, <2>5, <3>2 DEF ActionState
  <2> QED
    BY <2>2, <2>3, <2>4, <2>5
<1>3. CASE EndAction \/ ShutDown \/ ShutDownDone
  <2>1. UNCHANGED <<cur, result>> /\ sess \in {"returned", "idle", "shutdown"} /\ sess' \in {"idle", "shutdown", "closed"}
    BY <1>3 DEF EndAction, ShutDown, ShutDownDone
  <2> QED
    BY <2>1 DEF OrderInv
<1>4. CASE ~(Session)
  <2>1. UNCHANGED <<sess, cur, result>>
    BY Zenon, <1>4 DEF Next, Helper, Processes, CancelWrites, CancelRequests,
       ReadIdle, ReadRunning, ReaderThread, TakeMain, TakeCancel, Escalate, Emit, SeeExit, SeeEof, Finish, Crash,
       Write, Fork, ChildCloses, ChildExits, DescendantExits
  <2> QED
    BY <2>1 DEF OrderInv
<1> QED
  BY <1>1, <1>2, <1>3, <1>4 DEF Session

\* Runs are asked for, started and answered in the order of the actions.
LEMMA OrderStep == FieldTypes /\ QuietInv /\ OrderInv /\ Next => OrderInv'
<1> SUFFICES ASSUME FieldTypes, QuietInv, OrderInv, Next PROVE OrderInv'
  OBVIOUS
<1>0. MaxAction \in Nat /\ cur \in 0 .. MaxAction /\ hrun \in 0 .. cur /\ Actions = 1 .. MaxAction /\ cur' >= cur /\ cur' \in 0 .. MaxAction
  BY HelperAssumption, SessTypesStep DEF HelperAssumption, FieldTypes, SessTypes, Actions
<1>1. \A n \in Actions : n > cur' => result'[n] = NoResult /\ hist'[n] = NoHistory
  <2> SUFFICES ASSUME NEW n \in Actions, n > cur' PROVE result'[n] = NoResult /\ hist'[n] = NoHistory
    OBVIOUS
  <2>1. n > cur /\ n # cur /\ n # hrun
    BY <1>0
  <2> QED
    BY <2>1, ResultStep, HistStep DEF OrderInv
<1>2. \A n \in Actions : n < cur' => result'[n].state # "none"
  <2> SUFFICES ASSUME NEW n \in Actions, n < cur' PROVE result'[n].state # "none"
    OBVIOUS
  <2>1. result[n].state # "none"
    BY <1>0, SessStep DEF OrderInv
  <2> QED
    BY <2>1, ResultKept
<1>3. \A n : RunIn(stdin', n) \/ RunIn(mainQ', n) => n \in 1 .. cur'
  <2> SUFFICES ASSUME NEW n, RunIn(stdin', n) \/ RunIn(mainQ', n) PROVE n \in 1 .. cur'
    OBVIOUS
  <2>1. CASE RunIn(stdin, n) \/ RunIn(mainQ, n)
    <3>1. n \in 1 .. cur
      BY <2>1 DEF RunIn, OrderInv
    <3> QED
      BY <1>0, <3>1
  <2>2. CASE SendRun /\ n = cur
    <3>1. cur \in Actions
      BY <2>2 DEF SendRun, OrderInv
    <3> QED
      BY <1>0, <2>2, <3>1
  <2> QED
    BY <2>1, <2>2, QueuedStep
<1>4. /\ \A i \in DOMAIN stdin' : stdin'[i].kind = "run" => stdin'[i].action \in 1 .. cur'
      /\ \A i \in DOMAIN mainQ' : mainQ'[i].kind = "run" => mainQ'[i].action \in 1 .. cur'
  BY Zenon, <1>3 DEF RunIn
<1> QED
  BY Zenon, <1>1, <1>2, <1>4, SessStep DEF OrderInv

\* A call that was given up stays given up.
LEMMA GivenUpStep ==
  ASSUME FieldTypes, OrderInv, Next, NEW n \in 1 .. MaxAction + 1, GivenUp(n)
  PROVE  GivenUp(n)'
<1>0. MaxAction \in Nat /\ Actions = 1 .. MaxAction
  BY HelperAssumption DEF HelperAssumption, Actions
<1>1. PICK m \in 1 .. n - 1 : result[m].state # "none" /\ result[m].from = 0
  BY DEF GivenUp
<1>2. m \in Actions
  BY <1>0
<1>3. result'[m] = result[m]
  BY <1>1, <1>2, ResultKept
<1> QED
  BY <1>1, <1>3 DEF GivenUp

\* The two ends are in step when every call so far had its answer.
LEMMA InStepMeans ==
  ASSUME NEW c \in Nat
  PROVE  GivenUp(c + 1) <=> \E m \in 1 .. c : result[m].state # "none" /\ result[m].from = 0
<1>1. 1 .. (c + 1) - 1 = 1 .. c
  OBVIOUS
<1> QED
  BY <1>1 DEF GivenUp

\* A helper that answers in step after a step did so before it.
LEMMA InStepBefore ==
  ASSUME FieldTypes, OrderInv, Next, InStep'
  PROVE  InStep
<1>0. MaxAction \in Nat /\ cur \in 0 .. MaxAction /\ cur' >= cur /\ cur' \in 0 .. MaxAction /\ Actions = 1 .. MaxAction
  BY HelperAssumption, SessTypesStep DEF HelperAssumption, FieldTypes, SessTypes, Actions
<1> SUFFICES ASSUME GivenUp(cur + 1) PROVE FALSE
  BY DEF InStep
<1>1. cur \in Nat /\ cur' \in Nat
  BY <1>0
<1>2. PICK m \in 1 .. cur : result[m].state # "none" /\ result[m].from = 0
  BY <1>1, InStepMeans
<1>3. m \in Actions /\ m \in 1 .. cur'
  BY <1>0
<1>4. result'[m] = result[m]
  BY <1>2, <1>3, ResultKept
<1>5. 1 .. (cur' + 1) - 1 = 1 .. cur'
  BY <1>1
<1>6. (GivenUp(cur + 1))'
  BY <1>2, <1>3, <1>4, <1>5, Zenon DEF GivenUp
<1> QED
  BY <1>6 DEF InStep

\* What is over stays over, and what its command did stays as it is.
LEMMA OverStep ==
  ASSUME FieldTypes, QuietInv, OrderInv, Next, NEW n \in Actions, Over(n), result[n].state # "none"
  PROVE  Over(n)' /\ SameRun(n)
<1>1. ~(SendRun /\ n = cur)
  BY DEF SendRun, OrderInv
<1>2. ~RunIn(stdin', n) /\ ~RunIn(mainQ', n)
  BY <1>1, QueuedStep DEF Over
<1>3. hrun' = n => helper' \in {"idle", "gone"}
  BY HrunStep DEF Over
<1>4. SameRun(n)
  BY HistStep DEF Over
<1> QED
  BY <1>2, <1>3, <1>4 DEF Over, RunIn

\* In step, the answer that ends a call is the last response, and that of the call's action.
LEMMA LastResponse ==
  ASSUME FieldTypes, OrderInv, StepInv, InStep, ReadResponse, Head(stdout).kind \in {"exited", "error"}
  PROVE  /\ Answering /\ stdout' = <<>> /\ Head(stdout).action = cur
         /\ Head(stdout).kind = "error" => hist[cur].code = "none"
         /\ Head(stdout).kind = "exited" =>
              /\ hist[cur].code = Head(stdout).value /\ hist[cur].lines = result[cur].lines
              /\ hist[cur].fail => sawFail
<1>0. stdout \in Seq(ResponseSet) /\ stdout # <<>> /\ sess = "waiting" /\ stdout' = Tail(stdout)
  BY DEF FieldTypes, PipeTypes, ReadResponse
<1>1. Head(stdout) = stdout[1] /\ 1 \in DOMAIN stdout /\ DOMAIN stdout = 1 .. Len(stdout) /\ Len(stdout) \in Nat \ {0}
  BY <1>0
<1>2. ~Sent
  BY <1>0 DEF Sent
<1>3. ~Working
  BY <1>1 DEF Working, Lines
<1>4. Answering
  BY <1>0, <1>2, <1>3 DEF StepInv
<1>5. Len(stdout) = 1
  BY <1>1, <1>4 DEF Answering, Lines
<1>6. Pids(stdout) = 0 /\ ~FailIn(stdout)
  BY <1>1, <1>5 DEF Pids, FailIn
<1>7. stdout' = <<>>
  BY <1>0, <1>5
<1>8. cur \in Actions /\ result[cur].lines \in Nat
  BY <1>0 DEF FieldTypes, ResultTypes, Result, OrderInv
<1>9. result[cur].lines + (1 - 1 - 0) = result[cur].lines
  BY <1>8
<1>10. LET last == stdout[1] IN
     /\ last.action = cur
     /\ \/ last.kind = "error" /\ hist[cur].code = "none"
        \/ /\ last.kind = "exited" /\ hist[cur].code = last.value
           /\ hist[cur].lines = result[cur].lines + (1 - 1 - 0)
           /\ hist[cur].fail => sawFail
  BY Zenon, <1>4, <1>5, <1>6 DEF Answering
<1> QED
  BY Zenon, <1>1, <1>4, <1>7, <1>9, <1>10

\* The step that gives an action its result, and the answer it may carry.
LEMMA ReportStep ==
  ASSUME FieldTypes, OrderInv, Next, NEW n \in Actions, result[n].state = "none", result'[n].state # "none"
  PROVE  /\ n = cur /\ sess \in {"registered", "waiting"} /\ sess' = "returned" /\ cur' = cur
         /\ \/ result'[n].from = 0
            \/ /\ ReadResponse /\ Head(stdout).kind \in {"exited", "error"} /\ sess = "waiting"
               /\ result'[n].from = Head(stdout).action /\ result'[n].lines = result[n].lines
               /\ result'[n].state = "Success" => Head(stdout).kind = "exited" /\ Head(stdout).value = "zero" /\ ~sawFail
<1>0. result \in [Actions -> Result] /\ cur' >= cur
  BY SessTypesStep DEF FieldTypes, ResultTypes
<1>1. n = cur /\ sess \in {"registered", "waiting"}
  BY ResultStep
<1>2. CASE SendRun \/ HelperClosed \/ TimeoutFires
  <2>1. cur' = cur /\ (result' = result \/ (sess' = "returned" /\ \E l : Report("Failed", 0, l)))
    BY Zenon, <1>2 DEF SendRun, HelperClosed, TimeoutFires, Return
  <2>2. PICK l : Report("Failed", 0, l) /\ sess' = "returned"
    BY <2>1
  <2> QED
    BY <1>0, <1>1, <2>1, <2>2 DEF Report
<1>3. CASE ReadResponse
  <2>1. cur' = cur /\ sess = "waiting"
    BY Zenon, <1>3 DEF ReadResponse
  <2>2. CASE result' = [result EXCEPT ![cur].lines = @ + 1]
    BY <1>0, <1>1, <2>2 DEF Result
  <2>3. CASE Head(stdout).kind = "exited" /\ Report(FinalState(Head(stdout).value), Head(stdout).action, result[cur].lines) /\ Return
    BY <1>0, <1>1, <1>3, <2>1, <2>3 DEF Report, Return, FinalState
  <2>4. CASE Head(stdout).kind = "error" /\ Report("Failed", Head(stdout).action, result[cur].lines) /\ Return
    BY <1>0, <1>1, <1>3, <2>1, <2>4 DEF Report, Return
  <2>5. result' # result
    BY Zenon
  <2> QED
    BY Zenon, <1>3, <2>2, <2>3, <2>4, <2>5 DEF ReadResponse
<1>4. CASE ~(SendRun \/ HelperClosed \/ TimeoutFires \/ ReadResponse)
  <2>1. UNCHANGED result
    BY Zenon, <1>4 DEF Next, Session, Helper, Processes, Register, EndAction, ShutDown, ShutDownDone, CancelWrites, CancelRequests,
       ReadIdle, ReadRunning, ReaderThread, TakeMain, TakeCancel, Escalate, Emit, SeeExit, SeeEof, Finish, Crash,
       Write, Fork, ChildCloses, ChildExits, DescendantExits
  <2> QED
    BY Zenon, <2>1
<1> QED
  BY <1>2, <1>3, <1>4

\* What is known of the actions that are over stays true.
LEMMA PastStep == FieldTypes /\ QuietInv /\ OrderInv /\ PastInv /\ StepInv /\ Next => PastInv'
<1> SUFFICES ASSUME FieldTypes, QuietInv, OrderInv, PastInv, StepInv, Next,
                    NEW n \in Actions, Answered(n)'
             PROVE  /\ result'[n].from = n
                    /\ hist'[n].code # "none" => result'[n].lines = hist'[n].lines
                    /\ result'[n].state = "Success" => hist'[n].code = "zero" /\ ~hist'[n].fail
                    /\ Over(n)'
  BY Zenon DEF PastInv
<1>0. MaxAction \in Nat /\ Actions = 1 .. MaxAction /\ n \in 1 .. MaxAction + 1 /\ cur \in Nat
  BY HelperAssumption DEF HelperAssumption, Actions, FieldTypes, SessTypes
<1>1. result'[n].state # "none" /\ result'[n].from # 0 /\ ~GivenUp(n)'
  BY Zenon DEF Answered
<1>2. ~GivenUp(n)
  BY <1>0, <1>1, GivenUpStep
<1>3. CASE result[n].state # "none"
  <2>1. result'[n] = result[n]
    BY <1>3, ResultKept
  <2>2. Answered(n)
    BY Zenon, <1>1, <1>2, <1>3, <2>1 DEF Answered
  <2>3. Over(n)' /\ SameRun(n)
    BY <1>3, <2>2, OverStep, SMTT(20) DEF PastInv
  <2> QED
    BY Zenon, <2>1, <2>2, <2>3 DEF PastInv, SameRun
<1>4. CASE result[n].state = "none"
  <2>1. /\ n = cur /\ ReadResponse /\ Head(stdout).kind \in {"exited", "error"} /\ sess = "waiting"
        /\ result'[n].from = Head(stdout).action /\ result'[n].lines = result[n].lines
        /\ result'[n].state = "Success" => Head(stdout).kind = "exited" /\ Head(stdout).value = "zero" /\ ~sawFail
    BY <1>1, <1>4, ReportStep
  <2>2. InStep
    <3> SUFFICES ASSUME GivenUp(cur + 1) PROVE FALSE
      BY DEF InStep
    <3>1. PICK m \in 1 .. cur : result[m].state # "none" /\ result[m].from = 0
      BY <1>0, InStepMeans
    <3>2. m # cur
      BY <1>4, <2>1, <3>1
    <3>3. m \in 1 .. n - 1
      BY <1>0, <2>1, <3>1, <3>2
    <3> QED
      BY <1>2, <3>1, <3>3 DEF GivenUp
  <2>3. /\ Answering /\ Head(stdout).action = cur
        /\ Head(stdout).kind = "error" => hist[cur].code = "none"
        /\ Head(stdout).kind = "exited" =>
             /\ hist[cur].code = Head(stdout).value /\ hist[cur].lines = result[cur].lines
             /\ hist[cur].fail => sawFail
    BY <2>1, <2>2, LastResponse
  <2>4. UNCHANGED <<hist, stdin, mainQ, helper, hrun>>
    BY Zenon, <2>1 DEF ReadResponse
  <2>5. Over(n)'
    BY Zenon, <2>3, <2>4 DEF Over, Answering, NoRun, RunIn
  <2> QED
    BY <2>1, <2>3, <2>4, <2>5, SMTT(20)
<1> QED
  BY <1>3, <1>4

-----------------------------------------------------------------------------
(* What taking from and adding to the queues and the pipe does. *)

\* Taking a message from a queue without run requests leaves none.
LEMMA NoRunTail ==
  ASSUME NEW q \in Seq(Command), q # <<>>, NoRun(q)
  PROVE  NoRun(Tail(q)) /\ Head(q).kind # "run"
BY DEF NoRun

\* Appending another message to a queue without run requests leaves none.
LEMMA NoRunAppend ==
  ASSUME NEW q \in Seq(Command), NEW c \in Command, c.kind # "run", NoRun(q)
  PROVE  NoRun(Append(q, c))
BY DEF NoRun

\* Taking a message from a queue of cancels leaves cancels.
LEMMA CancelsTail ==
  ASSUME NEW q \in Seq(Command), NEW b, q # <<>>, Cancels(q, b)
  PROVE  Cancels(Tail(q), b) /\ (Head(q).kind = "cancel" => b)
BY DEF Cancels

\* A cancel behind a queue of cancels.
LEMMA CancelsAppend ==
  ASSUME NEW q \in Seq(Command), NEW c \in Command, NEW b, Cancels(q, b), c.kind = "cancel" => b
  PROVE  Cancels(Append(q, c), b)
BY DEF Cancels

\* Taking a message from a queue with a single run request.
LEMMA OneRunTail ==
  ASSUME NEW q \in Seq(Command), NEW n, NEW b, q # <<>>, OneRun(q, n, b)
  PROVE  \/ Head(q) = RunCommand(n) /\ NoRun(Tail(q)) /\ Cancels(Tail(q), b)
         \/ Head(q).kind # "run" /\ OneRun(Tail(q), n, b)
<1>0. Head(q) = q[1] /\ DOMAIN q = 1 .. Len(q) /\ Len(q) \in Nat \ {0} /\ DOMAIN Tail(q) = 1 .. Len(q) - 1
  OBVIOUS
<1>1. \A i \in DOMAIN Tail(q) : i + 1 \in DOMAIN q /\ Tail(q)[i] = q[i + 1]
  OBVIOUS
<1>2. PICK k \in DOMAIN q :
        /\ q[k] = RunCommand(n)
        /\ \A j \in DOMAIN q : j # k => q[j].kind # "run"
        /\ \A j \in DOMAIN q : j > k /\ q[j].kind = "cancel" => b
  BY DEF OneRun
<1>3. CASE k = 1
  BY <1>0, <1>1, <1>2, <1>3 DEF NoRun, Cancels
<1>4. CASE k # 1
  <2>1. k - 1 \in DOMAIN Tail(q) /\ Tail(q)[k - 1] = q[k] /\ 1 \in DOMAIN q
    BY <1>0, <1>1, <1>2, <1>4
  <2>2. \A j \in DOMAIN Tail(q) : j # k - 1 => Tail(q)[j].kind # "run"
    BY <1>0, <1>1, <1>2
  <2>3. \A j \in DOMAIN Tail(q) : j > k - 1 /\ Tail(q)[j].kind = "cancel" => b
    BY <1>0, <1>1, <1>2
  <2>4. OneRun(Tail(q), n, b)
    BY Zenon, <1>2, <2>1, <2>2, <2>3 DEF OneRun
  <2> QED
    BY <1>0, <1>2, <1>4, <2>1, <2>4
<1> QED
  BY <1>3, <1>4

\* A message behind a queue with a single run request.
LEMMA OneRunAppend ==
  ASSUME NEW q \in Seq(Command), NEW c \in Command, NEW n, NEW a, NEW b, OneRun(q, n, a),
         c.kind # "run", c.kind = "cancel" => b, a => b
  PROVE  OneRun(Append(q, c), n, b)
BY DEF OneRun

\* A run request behind a queue without one is its only one.
LEMMA OneRunFresh ==
  ASSUME NEW q \in Seq(Command), NEW n, RunCommand(n) \in Command, NEW b, NoRun(q)
  PROVE  OneRun(Append(q, RunCommand(n)), n, b)
<1>1. DOMAIN q = 1 .. Len(q) /\ Len(q) \in Nat /\ DOMAIN Append(q, RunCommand(n)) = 1 .. Len(q) + 1
  OBVIOUS
<1>2. \A i \in 1 .. Len(q) : Append(q, RunCommand(n))[i] = q[i]
  OBVIOUS
<1>3. Append(q, RunCommand(n))[Len(q) + 1] = RunCommand(n)
  OBVIOUS
<1> QED
  BY <1>1, <1>2, <1>3 DEF OneRun, NoRun

\* The lines in a queue after its first message is taken.
LEMMA LinesTail ==
  ASSUME NEW q \in Seq(ResponseSet), NEW n \in Nat, n >= 1, q # <<>>, Lines(q, n)
  PROVE  /\ Lines(Tail(q), n - 1) /\ Head(q).kind \in {"out", "pid"}
         /\ Len(q) \in Nat /\ Len(Tail(q)) = Len(q) - 1
         /\ n > 1 \/ Len(q) = 1 => Pids(Tail(q)) = 0
         /\ Pids(q) = IF Head(q).kind = "pid" THEN 1 ELSE 0
         /\ FailIn(q) => FailIn(Tail(q)) \/ (Head(q).kind = "out" /\ Head(q).value = "openjd_fail")
<1>0. Head(q) = q[1] /\ DOMAIN q = 1 .. Len(q) /\ Len(q) \in Nat \ {0} /\ DOMAIN Tail(q) = 1 .. Len(q) - 1
      /\ Len(Tail(q)) = Len(q) - 1 /\ (Tail(q) # <<>> => Len(q) > 1)
  OBVIOUS
<1>1. \A i \in DOMAIN Tail(q) : i + 1 \in DOMAIN q /\ Tail(q)[i] = q[i + 1]
  OBVIOUS
<1>2. Lines(Tail(q), n - 1) /\ Head(q).kind \in {"out", "pid"}
  BY <1>0, <1>1 DEF Lines
<1>3. n > 1 \/ Len(q) = 1 => Pids(Tail(q)) = 0
  BY <1>0, <1>1 DEF Lines, Pids
<1>4. Pids(q) = IF Head(q).kind = "pid" THEN 1 ELSE 0
  BY <1>0 DEF Pids
<1>5. FailIn(q) => FailIn(Tail(q)) \/ (Head(q).kind = "out" /\ Head(q).value = "openjd_fail")
  <2> SUFFICES ASSUME NEW i \in DOMAIN q, q[i].kind = "out", q[i].value = "openjd_fail", i # 1 PROVE FailIn(Tail(q))
    BY <1>0 DEF FailIn
  <2>1. i - 1 \in DOMAIN Tail(q) /\ Tail(q)[i - 1] = q[i]
    BY <1>0, <1>1
  <2> QED
    BY <2>1 DEF FailIn
<1> QED
  BY <1>0, <1>2, <1>3, <1>4, <1>5

\* The last message of a queue stays its last.
LEMMA LastOfTail ==
  ASSUME NEW q \in Seq(ResponseSet), q # <<>>, Len(q) > 1
  PROVE  Tail(q) # <<>> /\ Tail(q)[Len(q) - 1] = q[Len(q)]
<1>1. Len(q) \in Nat /\ Len(Tail(q)) = Len(q) - 1 /\ DOMAIN Tail(q) = 1 .. Len(q) - 1
  OBVIOUS
<1>2. \A i \in DOMAIN Tail(q) : Tail(q)[i] = q[i + 1]
  OBVIOUS
<1>3. Len(q) - 1 \in 1 .. Len(q) - 1 /\ (Len(q) - 1) + 1 = Len(q)
  BY <1>1
<1>4. Tail(q) # <<>>
  <2>1. Len(<<>>) = 0
    OBVIOUS
  <2>2. Len(Tail(q)) # 0
    BY <1>1
  <2> QED
    BY Zenon, <2>1, <2>2
<1> QED
  BY <1>1, <1>2, <1>3, <1>4

\* The lines in a queue after another one is sent.
LEMMA LinesAppend ==
  ASSUME NEW q \in Seq(ResponseSet), NEW r \in ResponseSet, Lines(q, Len(q))
  PROVE  /\ Lines(Append(q, r), Len(q)) /\ Append(q, r) # <<>> /\ Append(q, r)[Len(q) + 1] = r
         /\ Len(q) \in Nat /\ Len(Append(q, r)) = Len(q) + 1
         /\ r.kind # "pid" => Pids(Append(q, r)) = Pids(q)
         /\ r.kind = "out" => Lines(Append(q, r), Len(q) + 1)
         /\ FailIn(q) => FailIn(Append(q, r))
         /\ r.kind = "out" /\ r.value = "openjd_fail" => FailIn(Append(q, r))
<1>1. DOMAIN q = 1 .. Len(q) /\ Len(q) \in Nat /\ DOMAIN Append(q, r) = 1 .. Len(q) + 1 /\ Len(Append(q, r)) = Len(q) + 1
      /\ Append(q, r) # <<>> /\ (q # <<>> <=> Len(q) # 0)
  OBVIOUS
<1>2. (\A i \in 1 .. Len(q) : Append(q, r)[i] = q[i]) /\ Append(q, r)[Len(q) + 1] = r
  OBVIOUS
<1>3. Lines(Append(q, r), Len(q)) /\ (r.kind = "out" => Lines(Append(q, r), Len(q) + 1))
  BY <1>1, <1>2 DEF Lines
<1>4. r.kind # "pid" => Pids(Append(q, r)) = Pids(q)
  BY <1>1, <1>2 DEF Pids
<1>5. (FailIn(q) => FailIn(Append(q, r))) /\ (r.kind = "out" /\ r.value = "openjd_fail" => FailIn(Append(q, r)))
  BY <1>1, <1>2 DEF FailIn
<1> QED
  BY <1>1, <1>2, <1>3, <1>4, <1>5

-----------------------------------------------------------------------------
(* Where the answer is, after every step. *)

\* Steps that touch nothing the phases of a call are about.
LEMMA PhaseFrame ==
  ASSUME StepInv, UNCHANGED <<platform, sess, cur, sawFail, stdin, stdout, mainQ, helper, hrun, escalation, buffer, result, hist>>
  PROVE  StepInv'
<1>1. Unheard => Unheard'
  BY DEF Unheard
<1>2. Silent => Silent'
  BY SMTT(30) DEF Silent, NoRun
<1>3. Sent => Sent'
  BY <1>1, SMTT(30) DEF Sent, NoRun, OneRun, Cancels
<1>4. Working => Working'
  BY SMTT(30) DEF Working, NoRun, Cancels, Lines, Pids, FailIn, Windows
<1>5. Answering => Answering'
  BY SMTT(30) DEF Answering, NoRun, Lines, Pids, FailIn
<1>6. InStep' => InStep
  BY DEF InStep, GivenUp
<1> QED
  BY <1>1, <1>2, <1>3, <1>4, <1>5, <1>6 DEF StepInv

\* A call that ends without an answer is given up.
LEMMA GivesUp ==
  ASSUME FieldTypes, cur \in Actions, cur' = cur, result'[cur].state # "none", result'[cur].from = 0
  PROVE  ~InStep'
<1>1. cur \in Nat /\ cur \in 1 .. (cur + 1) - 1
  BY HelperAssumption DEF HelperAssumption, Actions
<1> QED
  BY <1>1 DEF InStep, GivenUp

\* Registering an action keeps the two ends in step.
LEMMA RegisterPhase == FieldTypes /\ OrderInv /\ StepInv /\ InStep /\ Register => StepInv'
<1> SUFFICES ASSUME FieldTypes, OrderInv, StepInv, InStep, Register PROVE StepInv'
  OBVIOUS
<1>0. MaxAction \in Nat /\ cur \in 0 .. MaxAction /\ Actions = 1 .. MaxAction
  BY HelperAssumption DEF HelperAssumption, Actions, FieldTypes, SessTypes
<1>1. /\ sess = "idle" /\ sess' = "registered" /\ cur' = cur + 1 /\ cur < MaxAction /\ ~sawFail'
      /\ UNCHANGED <<stdin, stdout, mainQ, helper, result, hist>>
  BY Zenon DEF Register
<1>2. Silent
  BY <1>1 DEF StepInv
<1>3. Silent'
  BY <1>1, <1>2 DEF Silent, NoRun
<1>4. cur' \in Actions /\ cur' > cur
  BY <1>0, <1>1
<1>5. result[cur'] = NoResult /\ hist[cur'] = NoHistory
  BY <1>4 DEF OrderInv
<1>6. Unheard'
  BY <1>1, <1>5 DEF Unheard, NoResult, NoHistory
<1> QED
  BY <1>1, <1>3, <1>6 DEF StepInv

\* Sending the run request keeps the two ends in step.
LEMMA SendRunPhase == FieldTypes /\ OrderInv /\ StepInv /\ InStep /\ SendRun => StepInv'
<1> SUFFICES ASSUME FieldTypes, OrderInv, StepInv, InStep, SendRun, InStep' PROVE StepInv'
  BY DEF StepInv
<1>1. sess = "registered" /\ cur \in Actions /\ Silent /\ Unheard
  BY DEF SendRun, OrderInv, StepInv
<1>2. UNCHANGED <<cur, sawFail, stdout, mainQ, helper, hist>>
  BY Zenon DEF SendRun
<1>3. CASE helper = "gone"
  <2>1. Report("Failed", 0, 0)
    BY Zenon, <1>3 DEF SendRun
  <2>2. result'[cur].state # "none" /\ result'[cur].from = 0
    BY <1>1, <2>1 DEF Report, FieldTypes, ResultTypes
  <2> QED
    BY <1>1, <1>2, <2>2, GivesUp
<1>4. CASE helper # "gone"
  <2>1. stdin' = Append(stdin, RunCommand(cur)) /\ sess' = "waiting" /\ result' = result
    BY Zenon, <1>4 DEF SendRun
  <2>2. stdin \in Seq(Command) /\ RunCommand(cur) \in Command
    BY <1>1, MessageTypes DEF FieldTypes, PipeTypes
  <2>3. OneRun(stdin', cur, hist[cur].asked)
    BY <1>1, <2>1, <2>2, OneRunFresh DEF Silent
  <2>4. Unheard'
    BY <1>1, <1>2, <2>1 DEF Unheard
  <2>5. NoRun(mainQ')
    BY <1>1, <1>2 DEF Silent
  <2>6. Sent'
    BY Zenon, <1>1, <1>2, <2>3, <2>4, <2>5 DEF Sent, Silent, OneRun, NoRun
  <2> QED
    BY <2>1, <2>6 DEF StepInv
<1> QED
  BY <1>3, <1>4

\* The end of an action and of the helper keep the two ends in step.
LEMMA SessionEndPhase == FieldTypes /\ StepInv /\ InStep /\ (EndAction \/ ShutDown \/ ShutDownDone) => StepInv'
<1> SUFFICES ASSUME FieldTypes, StepInv, InStep, EndAction \/ ShutDown \/ ShutDownDone PROVE StepInv'
  OBVIOUS
<1>1. /\ sess \in {"returned", "idle", "shutdown"} /\ sess' \in {"idle", "shutdown", "closed"}
      /\ UNCHANGED <<stdout, mainQ, helper>>
  BY DEF EndAction, ShutDown, ShutDownDone
<1>2. Silent
  BY <1>1 DEF StepInv
<1>3. stdin' = stdin \/ stdin' = Append(stdin, Shutdown)
  BY Zenon DEF EndAction, ShutDown, ShutDownDone
<1>4. stdin \in Seq(Command) /\ Shutdown \in Command /\ Shutdown.kind # "run"
  BY MessageTypes DEF FieldTypes, PipeTypes, Shutdown
<1>5. NoRun(stdin')
  BY <1>2, <1>3, <1>4, NoRunAppend, Zenon DEF Silent
<1>6. Silent'
  BY Zenon, <1>1, <1>2, <1>5 DEF Silent, NoRun
<1> QED
  BY <1>1, <1>6 DEF StepInv

\* Reading a response: a pid or a line leaves the answer to come, the answer ends the call.
LEMMA ReadResponsePhase == FieldTypes /\ OrderInv /\ StepInv /\ InStep /\ ReadResponse /\ UNCHANGED platform => StepInv'
<1> SUFFICES ASSUME FieldTypes, OrderInv, StepInv, InStep, ReadResponse, UNCHANGED platform PROVE StepInv'
  OBVIOUS
<1>0. /\ sess = "waiting" /\ stdout # <<>> /\ stdout' = Tail(stdout)
      /\ UNCHANGED <<cur, stdin, mainQ, helper, hrun, escalation, buffer, hist>>
  BY Zenon DEF ReadResponse
<1>a. stdout \in Seq(ResponseSet) /\ cur \in Actions
  BY <1>0 DEF FieldTypes, PipeTypes, OrderInv
<1>b. result \in [Actions -> Result] /\ result[cur].lines \in Nat /\ hist[cur].lines \in Nat
  BY <1>a DEF FieldTypes, ResultTypes, HistTypes, Result, History
<1>c. Head(stdout) = stdout[1] /\ DOMAIN stdout = 1 .. Len(stdout) /\ Head(stdout) \in ResponseSet
  BY <1>0, <1>a
<1>e. Len(stdout) \in Nat /\ Len(stdout) >= 1 /\ Len(Tail(stdout)) = Len(stdout) - 1
  BY <1>0, <1>a
<1>f. Len(stdout) > 1 => Tail(stdout) # <<>> /\ Tail(stdout)[Len(stdout) - 1] = stdout[Len(stdout)]
  BY <1>0, <1>a, LastOfTail
<1>g. Len(stdout) = 2 => Tail(stdout)[1] = stdout[Len(stdout)]
  <2>1. Len(stdout) = 2 => Len(stdout) > 1 /\ Len(stdout) - 1 = 1
    OBVIOUS
  <2> QED
    BY Zenon, <1>f, <2>1
<1>d. buffer \in Seq(Line) /\ Len(buffer) \in Nat
  BY DEF FieldTypes, PipeTypes
<1>1. CASE Head(stdout).kind \in {"exited", "error"}
  <2>1. Answering /\ stdout' = <<>>
    BY <1>1, LastResponse
  <2>2. sess' = "returned"
    BY <1>1 DEF ReadResponse, Return
  <2>3. Silent'
    BY Zenon, <1>0, <2>1 DEF Silent, Answering, NoRun
  <2> QED
    BY <2>2, <2>3 DEF StepInv
<1>2. CASE Head(stdout).kind \in {"pid", "out"}
  <2>1. /\ sess' = "waiting"
        /\ Head(stdout).kind = "pid" => result' = result /\ sawFail' = sawFail
        /\ Head(stdout).kind = "out" => /\ result' = [result EXCEPT ![cur].lines = @ + 1]
                                        /\ sawFail' = (sawFail \/ Head(stdout).value = "openjd_fail")
    BY <1>0, <1>2 DEF ReadResponse
  <2>2. result'[cur].lines = result[cur].lines + (IF Head(stdout).kind = "out" THEN 1 ELSE 0)
    BY <1>a, <1>b, <1>2, <2>1 DEF Result
  <2>3. (sawFail \/ (Head(stdout).kind = "out" /\ Head(stdout).value = "openjd_fail")) => sawFail'
    BY Zenon, <1>2, <2>1
  <2>4. Working => Working'
    <3> SUFFICES ASSUME Working PROVE Working'
      OBVIOUS
    <3>1. Lines(stdout, Len(stdout))
      BY DEF Working
    <3>2. /\ Lines(Tail(stdout), Len(stdout) - 1) /\ Pids(Tail(stdout)) = 0
          /\ Pids(stdout) = IF Head(stdout).kind = "pid" THEN 1 ELSE 0
          /\ FailIn(stdout) => FailIn(Tail(stdout)) \/ (Head(stdout).kind = "out" /\ Head(stdout).value = "openjd_fail")
      <4>1. PICK n \in Nat : n = Len(stdout) /\ n >= 1
        BY <1>e
      <4>2. n > 1 \/ Len(stdout) = 1
        BY <4>1, SMTT(30)
      <4> QED
        BY <1>0, <1>a, <3>1, <4>1, <4>2, LinesTail, Zenon
    <3>3. helper # "gone" => hist[cur].lines = result'[cur].lines + (Len(Tail(stdout)) - Pids(Tail(stdout))) + Len(buffer)
      BY <1>b, <1>e, <1>d, <1>2, <2>2, <3>2 DEF Working
    <3>4. helper # "gone" /\ hist[cur].fail =>
            sawFail' \/ FailIn(Tail(stdout)) \/ \E i \in DOMAIN buffer : buffer[i] = "openjd_fail"
      BY Zenon, <2>3, <3>2 DEF Working
    <3>5. Lines(stdout', Len(stdout'))
      BY Zenon, <1>0, <1>e, <3>2
    <3>6. /\ NoRun(stdin) /\ NoRun(mainQ) /\ Cancels(stdin, hist[cur].asked) /\ hrun = cur
          /\ helper # "idle" /\ (escalation /\ ~Windows => hist[cur].asked)
          /\ helper # "gone" => hist[cur].code = "none"
      BY Zenon DEF Working
    <3> QED
      BY Zenon, <1>0, <3>3, <3>4, <3>5, <3>6 DEF Working, NoRun, Cancels, Lines, Pids, FailIn, Windows
  <2>5. Answering => Answering'
    <3> SUFFICES ASSUME Answering PROVE Answering'
      OBVIOUS
    <3>0. DEFINE last == stdout[Len(stdout)]
    <3>1. Lines(stdout, Len(stdout) - 1) /\ last.kind \in {"error", "exited"} /\ last.action = cur
      BY DEF Answering
    <3>2. Len(stdout) > 1
      BY <1>c, <1>e, <1>2, <3>1
    <3>3. /\ Lines(Tail(stdout), Len(stdout) - 2) /\ Pids(Tail(stdout)) = 0
          /\ Pids(stdout) = IF Head(stdout).kind = "pid" THEN 1 ELSE 0
          /\ FailIn(stdout) => FailIn(Tail(stdout)) \/ (Head(stdout).kind = "out" /\ Head(stdout).value = "openjd_fail")
      <4>1. PICK n \in Nat : n = Len(stdout) - 1 /\ n >= 1 /\ n - 1 = Len(stdout) - 2
        BY <1>e, <3>2, SMTT(30)
      <4>2. /\ Lines(Tail(stdout), n - 1) /\ (n > 1 => Pids(Tail(stdout)) = 0)
            /\ Pids(stdout) = IF Head(stdout).kind = "pid" THEN 1 ELSE 0
            /\ FailIn(stdout) => FailIn(Tail(stdout)) \/ (Head(stdout).kind = "out" /\ Head(stdout).value = "openjd_fail")
        BY <1>0, <1>a, <3>1, <4>1, LinesTail
      <4>3. n = 1 => Pids(Tail(stdout)) = 0
        BY <1>e, <1>g, <3>1, <4>1, SMTT(20) DEF Pids
      <4> QED
        BY <4>1, <4>2, <4>3
    <3>4. hist[cur].lines = result[cur].lines + (Len(stdout) - 1 - Pids(stdout))
            => hist[cur].lines = result'[cur].lines + (Len(Tail(stdout)) - 1 - Pids(Tail(stdout)))
      BY <1>b, <1>e, <1>2, <2>2, <3>3
    <3>5. (sawFail \/ FailIn(stdout)) => (sawFail' \/ FailIn(Tail(stdout)))
      BY Zenon, <2>3, <3>3
    <3>6. stdout' # <<>> /\ Lines(stdout', Len(stdout') - 1) /\ stdout'[Len(stdout')] = last
      <4>1. Len(Tail(stdout)) - 1 = Len(stdout) - 2
        BY <1>e
      <4> QED
        BY <1>0, <1>e, <1>f, <3>2, <3>3, <4>1
    <3>7. /\ NoRun(stdin) /\ NoRun(mainQ) /\ helper \in {"idle", "gone"}
          /\ \/ last.kind = "error" /\ hist[cur].code = "none"
             \/ /\ last.kind = "exited" /\ hist[cur].code = last.value
                /\ hist[cur].lines = result[cur].lines + (Len(stdout) - 1 - Pids(stdout))
                /\ hist[cur].fail => sawFail \/ FailIn(stdout)
      BY Zenon DEF Answering
    <3>8. \/ last.kind = "error" /\ hist[cur].code = "none"
          \/ /\ last.kind = "exited" /\ hist[cur].code = last.value
             /\ hist[cur].lines = result'[cur].lines + (Len(Tail(stdout)) - 1 - Pids(Tail(stdout)))
             /\ hist[cur].fail => sawFail' \/ FailIn(Tail(stdout))
      BY Zenon, <3>4, <3>5, <3>7
    <3> HIDE DEF last
    <3> QED
      BY Zenon, <1>0, <3>1, <3>6, <3>7, <3>8 DEF Answering, NoRun, Lines, Pids, FailIn
  <2>6. ~Sent
    BY <1>0 DEF Sent
  <2> QED
    BY Zenon, <1>0, <2>1, <2>4, <2>5, <2>6 DEF StepInv
<1>3. Head(stdout).kind \in {"exited", "error", "pid", "out"}
  BY <1>c DEF ResponseSet
<1> QED
  BY <1>1, <1>2, <1>3

\* A cancel command for the current action, from the handle or from the timeout.
LEMMA CancelPhase ==
  ASSUME FieldTypes, StepInv, InStep, cur \in Actions, hist' = [hist EXCEPT ![cur].asked = TRUE], NEW m \in Method,
         stdin' = stdin \/ stdin' = Append(stdin, CancelCommand(cur, m)),
         UNCHANGED <<platform, sess, cur, sawFail, stdout, mainQ, helper, hrun, escalation, buffer, result>>
  PROVE  StepInv'
<1>1. /\ hist'[cur].asked
      /\ hist'[cur].lines = hist[cur].lines /\ hist'[cur].code = hist[cur].code /\ hist'[cur].fail = hist[cur].fail
  BY AskedUpdate, Zenon DEF FieldTypes
<1>2. stdin \in Seq(Command) /\ CancelCommand(cur, m) \in Command /\ CancelCommand(cur, m).kind = "cancel"
  BY MessageTypes DEF FieldTypes, PipeTypes, CancelCommand
<1>3. NoRun(stdin) => NoRun(stdin')
  BY <1>2, NoRunAppend, Zenon
<1>4. OneRun(stdin, cur, hist[cur].asked) => OneRun(stdin', cur, hist'[cur].asked)
  <2>1. CASE stdin' = stdin
    BY <1>1, <2>1 DEF OneRun
  <2>2. CASE stdin' = Append(stdin, CancelCommand(cur, m))
    BY <1>1, <1>2, <2>2, OneRunAppend, Zenon
  <2> QED
    BY <2>1, <2>2, Zenon
<1>5. OneRun(mainQ, cur, hist[cur].asked) => OneRun(mainQ, cur, hist'[cur].asked)
  BY <1>1 DEF OneRun
<1>6. Cancels(stdin', hist'[cur].asked)
  BY <1>1 DEF Cancels
<1>7. Unheard => Unheard'
  BY Zenon, <1>1 DEF Unheard
<1>8. Silent => Silent'
  BY Zenon, <1>3 DEF Silent, NoRun
<1>9. Sent => Sent'
  BY Zenon, <1>3, <1>4, <1>5, <1>6, <1>7 DEF Sent, NoRun, OneRun, Cancels
<1>10. Working => Working'
  BY Zenon, <1>1, <1>3, <1>6 DEF Working, NoRun, Cancels, Lines, Pids, FailIn, Windows
<1>11. Answering => Answering'
  BY ZenonT(30), <1>1, <1>3 DEF Answering, NoRun, Lines, Pids, FailIn
<1> QED
  BY Zenon, <1>7, <1>8, <1>9, <1>10, <1>11 DEF StepInv

\* A cancel written by another thread keeps the two ends in step.
LEMMA CancelWritesPhase == FieldTypes /\ OrderInv /\ StepInv /\ InStep /\ CancelWrites /\ UNCHANGED platform => StepInv'
<1> SUFFICES ASSUME FieldTypes, OrderInv, StepInv, InStep, CancelWrites, UNCHANGED platform PROVE StepInv'
  OBVIOUS
<1>1. cur \in Actions
  BY DEF CancelWrites, OrderInv
<1>2. PICK m \in Method : stdin' = stdin \/ stdin' = Append(stdin, CancelCommand(cur, m))
  BY Zenon DEF CancelWrites
<1>3. /\ hist' = [hist EXCEPT ![cur].asked = TRUE]
      /\ UNCHANGED <<platform, sess, cur, sawFail, stdout, mainQ, helper, hrun, escalation, buffer, result>>
  BY Zenon DEF CancelWrites
<1> QED
  BY <1>1, <1>2, <1>3, CancelPhase

\* A timeout keeps the two ends in step.
LEMMA TimeoutPhase == FieldTypes /\ OrderInv /\ StepInv /\ InStep /\ TimeoutFires /\ UNCHANGED platform => StepInv'
<1> SUFFICES ASSUME FieldTypes, OrderInv, StepInv, InStep, TimeoutFires, UNCHANGED platform PROVE StepInv'
  OBVIOUS
<1>1. cur \in Actions /\ UNCHANGED <<platform, cur, sawFail, stdout, mainQ, helper, hrun, escalation, buffer>>
  BY DEF TimeoutFires, OrderInv
<1>2. CASE /\ \E m \in Method : stdin' = IF helper = "gone" THEN stdin ELSE Append(stdin, CancelCommand(cur, m))
           /\ hist' = [hist EXCEPT ![cur].asked = TRUE] /\ UNCHANGED <<sess, result>>
  <2>1. PICK m \in Method : stdin' = stdin \/ stdin' = Append(stdin, CancelCommand(cur, m))
    BY Zenon, <1>2
  <2> QED
    BY <1>1, <1>2, <2>1, CancelPhase
<1>3. CASE Report("Failed", 0, result[cur].lines)
  <2>1. result'[cur].state # "none" /\ result'[cur].from = 0
    BY <1>1, <1>3 DEF Report, FieldTypes, ResultTypes
  <2> QED
    BY <1>1, <2>1, GivesUp DEF StepInv
<1> QED
  BY Zenon, <1>2, <1>3 DEF TimeoutFires

\* A session that finds the helper gone gives nothing to be in step with.
LEMMA HelperClosedPhase == FieldTypes /\ OrderInv /\ HelperClosed => StepInv'
<1> SUFFICES ASSUME FieldTypes, OrderInv, HelperClosed PROVE StepInv'
  BY SMTT(30)
<1>1. cur \in Actions /\ cur' = cur
  BY DEF HelperClosed, OrderInv
<1>2. result'[cur].state # "none" /\ result'[cur].from = 0
  BY <1>1 DEF HelperClosed, Report, FieldTypes, ResultTypes
<1> QED
  BY <1>1, <1>2, GivesUp DEF StepInv

\* The helper takes the run of the current action: its command runs, or its error is the answer.
LEMMA SpawnPhase ==
  ASSUME FieldTypes, cur \in Actions, helper = "idle", ~escalation, Unheard, stdout = <<>>, Spawn(cur),
         NoRun(stdin'), NoRun(mainQ'), Cancels(stdin', hist[cur].asked), UNCHANGED <<cur, sawFail, result, hist>>
  PROVE  Working' \/ Answering'
<1>1. CASE /\ helper' = "running" /\ hrun' = cur /\ buffer' = <<>> /\ UNCHANGED escalation
           /\ stdout' = Append(stdout, Response("pid", cur, "none"))
  <2>1. stdout' = <<Response("pid", cur, "none")>>
    BY <1>1
  <2>2. Len(stdout') = 1 /\ DOMAIN stdout' = {1} /\ stdout'[1].kind = "pid" /\ stdout' # <<>>
    BY <2>1 DEF Response
  <2>3. Lines(stdout', Len(stdout')) /\ Pids(stdout') = 1
    BY <2>2 DEF Lines, Pids
  <2>4. Len(buffer') = 0
    BY <1>1
  <2>5. hist'[cur].lines = result'[cur].lines + (Len(stdout') - Pids(stdout')) + Len(buffer')
    BY <2>2, <2>3, <2>4 DEF Unheard
  <2>6. ~hist'[cur].fail /\ hist'[cur].code = "none" /\ ~escalation'
    BY Zenon, <1>1 DEF Unheard
  <2>7. Cancels(stdin', hist'[cur].asked)
    BY Zenon
  <2>8. helper' = "running" /\ hrun' = cur' /\ helper' # "idle" /\ cur' = cur
    BY <1>1
  <2>9. Working'
    BY Zenon, <2>3, <2>5, <2>6, <2>7, <2>8 DEF Working, NoRun, Cancels, Lines, Pids, FailIn
  <2> QED
    BY <2>9
<1>2. CASE stdout' = Append(stdout, Response("error", cur, "none")) /\ UNCHANGED helper
  <2>1. stdout' = <<Response("error", cur, "none")>>
    BY <1>2
  <2>2. /\ Len(stdout') = 1 /\ DOMAIN stdout' = {1} /\ stdout' # <<>>
        /\ stdout'[1].kind = "error" /\ stdout'[1].action = cur
    BY <2>1 DEF Response
  <2>3. Lines(stdout', Len(stdout') - 1)
    BY <2>2 DEF Lines
  <2>4. stdout'[Len(stdout')].kind = "error" /\ stdout'[Len(stdout')].action = cur'
    BY <2>2, SMTT(30)
  <2>5. hist'[cur'].code = "none" /\ helper' \in {"idle", "gone"}
    BY <1>2 DEF Unheard
  <2>6. Answering'
    BY Zenon, <2>2, <2>3, <2>4, <2>5 DEF Answering, NoRun, Lines
  <2> QED
    BY <2>6
<1> QED
  BY Zenon, <1>1, <1>2 DEF Spawn

\* A request other than run changes nothing of the run.
LEMMA DispatchOther ==
  ASSUME NEW c, Dispatch(c), c.kind # "run", helper = "idle"
  PROVE  UNCHANGED <<stdout, hrun, escalation, child, open, descendant, buffer>> /\ helper' \in {"idle", "gone"}
BY DEF Dispatch

\* The idle Unix helper reads a request and stays in step.
LEMMA ReadIdlePhase == FieldTypes /\ QuietInv /\ OrderInv /\ StepInv /\ InStep /\ ReadIdle /\ UNCHANGED platform => StepInv'
<1> SUFFICES ASSUME FieldTypes, QuietInv, OrderInv, StepInv, InStep, ReadIdle, UNCHANGED platform PROVE StepInv'
  OBVIOUS
<1>0. /\ helper = "idle" /\ stdin # <<>> /\ stdin' = Tail(stdin) /\ Dispatch(Head(stdin)) /\ ~escalation
      /\ UNCHANGED <<platform, sess, cur, sawFail, mainQ, result, hist>>
  BY Zenon DEF ReadIdle, QuietInv
<1>a. stdin \in Seq(Command)
  BY DEF FieldTypes, PipeTypes
<1>b. NoRun(stdin) => NoRun(stdin') /\ Head(stdin).kind # "run"
  BY <1>0, <1>a, NoRunTail
<1>c. Head(stdin).kind # "run" => UNCHANGED <<stdout, hrun, escalation, buffer>> /\ helper' \in {"idle", "gone"}
  BY <1>0, DispatchOther
<1>1. Unheard => Unheard'
  BY Zenon, <1>0 DEF Unheard
<1>2. Silent => Silent'
  BY Zenon, <1>0, <1>b, <1>c DEF Silent, NoRun
<1>3. ~Working
  BY <1>0 DEF Working
<1>4. Answering => Answering'
  BY Zenon, <1>0, <1>b, <1>c DEF Answering, NoRun, Lines, Pids, FailIn
<1>5. sess = "waiting" /\ Sent => Sent' \/ Working' \/ Answering'
  <2> SUFFICES ASSUME sess = "waiting", Sent PROVE Sent' \/ Working' \/ Answering'
    OBVIOUS
  <2>1. CASE NoRun(stdin) /\ OneRun(mainQ, cur, hist[cur].asked) /\ Cancels(stdin, hist[cur].asked)
    <3>1. Cancels(stdin', hist[cur].asked)
      BY <1>0, <1>a, <2>1, CancelsTail
    <3>2. Sent'
      BY ZenonT(30), <1>0, <1>b, <1>c, <1>1, <2>1, <3>1 DEF Sent, NoRun, OneRun, Cancels
    <3> QED
      BY <3>2
  <2>2. CASE OneRun(stdin, cur, hist[cur].asked) /\ NoRun(mainQ)
    <3>1. CASE Head(stdin) = RunCommand(cur) /\ NoRun(Tail(stdin)) /\ Cancels(Tail(stdin), hist[cur].asked)
      <4>1. Head(stdin).kind = "run" /\ Head(stdin).action = cur
        BY <3>1 DEF RunCommand
      <4>2. Spawn(cur)
        BY <1>0, <4>1 DEF Dispatch
      <4>3. cur \in Actions
        BY DEF OrderInv
      <4>4. Unheard /\ stdout = <<>> /\ NoRun(stdin') /\ NoRun(mainQ') /\ Cancels(stdin', hist[cur].asked)
        BY Zenon, <1>0, <2>2, <3>1 DEF Sent
      <4> QED
        BY <1>0, <4>2, <4>3, <4>4, SpawnPhase
    <3>2. CASE Head(stdin).kind # "run" /\ OneRun(Tail(stdin), cur, hist[cur].asked)
      <4>1. Sent'
        BY Zenon, <1>0, <1>c, <1>1, <2>2, <3>2 DEF Sent, NoRun, OneRun
      <4> QED
        BY <4>1
    <3> QED
      BY <1>0, <1>a, <2>2, <3>1, <3>2, OneRunTail
  <2> QED
    BY <2>1, <2>2, Zenon DEF Sent
<1> QED
  BY Zenon, <1>0, <1>1, <1>2, <1>3, <1>4, <1>5 DEF StepInv

\* The Windows main loop takes a request and stays in step.
LEMMA TakeMainPhase == FieldTypes /\ QuietInv /\ OrderInv /\ StepInv /\ InStep /\ TakeMain /\ UNCHANGED platform => StepInv'
<1> SUFFICES ASSUME FieldTypes, QuietInv, OrderInv, StepInv, InStep, TakeMain, UNCHANGED platform PROVE StepInv'
  OBVIOUS
<1>0. /\ helper = "idle" /\ mainQ # <<>> /\ mainQ' = Tail(mainQ) /\ Dispatch(Head(mainQ)) /\ ~escalation
      /\ UNCHANGED <<platform, sess, cur, sawFail, stdin, result, hist>>
  BY Zenon DEF TakeMain, QuietInv
<1>a. mainQ \in Seq(Command)
  BY DEF FieldTypes, PipeTypes
<1>b. NoRun(mainQ) => NoRun(mainQ') /\ Head(mainQ).kind # "run"
  BY <1>0, <1>a, NoRunTail
<1>c. Head(mainQ).kind # "run" => UNCHANGED <<stdout, hrun, escalation, buffer>> /\ helper' \in {"idle", "gone"}
  BY <1>0, DispatchOther
<1>1. Unheard => Unheard'
  BY Zenon, <1>0 DEF Unheard
<1>2. Silent => Silent'
  BY Zenon, <1>0, <1>b, <1>c DEF Silent, NoRun
<1>3. ~Working
  BY <1>0 DEF Working
<1>4. Answering => Answering'
  BY Zenon, <1>0, <1>b, <1>c DEF Answering, NoRun, Lines, Pids, FailIn
<1>5. sess = "waiting" /\ Sent => Sent' \/ Working' \/ Answering'
  <2> SUFFICES ASSUME sess = "waiting", Sent PROVE Sent' \/ Working' \/ Answering'
    OBVIOUS
  <2>1. CASE OneRun(stdin, cur, hist[cur].asked) /\ NoRun(mainQ)
    <3>1. Sent'
      BY Zenon, <1>0, <1>b, <1>c, <1>1, <2>1 DEF Sent, NoRun, OneRun
    <3> QED
      BY <3>1
  <2>2. CASE NoRun(stdin) /\ OneRun(mainQ, cur, hist[cur].asked) /\ Cancels(stdin, hist[cur].asked)
    <3>1. CASE Head(mainQ) = RunCommand(cur) /\ NoRun(Tail(mainQ))
      <4>1. Head(mainQ).kind = "run" /\ Head(mainQ).action = cur
        BY <3>1 DEF RunCommand
      <4>2. Spawn(cur)
        BY <1>0, <4>1 DEF Dispatch
      <4>3. cur \in Actions
        BY DEF OrderInv
      <4>4. Unheard /\ stdout = <<>> /\ NoRun(stdin') /\ NoRun(mainQ') /\ Cancels(stdin', hist[cur].asked)
        BY Zenon, <1>0, <2>2, <3>1 DEF Sent
      <4> QED
        BY <1>0, <4>2, <4>3, <4>4, SpawnPhase
    <3>2. CASE Head(mainQ).kind # "run" /\ OneRun(Tail(mainQ), cur, hist[cur].asked)
      <4>1. Sent'
        BY Zenon, <1>0, <1>c, <1>1, <2>2, <3>2 DEF Sent, NoRun, OneRun, Cancels
      <4> QED
        BY <4>1
    <3> QED
      BY <1>0, <1>a, <2>2, <3>1, <3>2, OneRunTail
  <2> QED
    BY <2>1, <2>2 DEF Sent
<1> QED
  BY Zenon, <1>0, <1>1, <1>2, <1>3, <1>4, <1>5 DEF StepInv

\* On Windows the reader thread moves the run command on, and no cancel behind it passes it.
LEMMA ReaderPhase == FieldTypes /\ OrderInv /\ StepInv /\ InStep /\ ReaderThread /\ UNCHANGED platform => StepInv'
<1> SUFFICES ASSUME FieldTypes, OrderInv, StepInv, InStep, ReaderThread, UNCHANGED platform PROVE StepInv'
  OBVIOUS
<1>0. /\ stdin # <<>> /\ stdin' = Tail(stdin)
      /\ Head(stdin).kind = "cancel" => mainQ' = mainQ
      /\ Head(stdin).kind # "cancel" => mainQ' = Append(mainQ, Head(stdin))
      /\ UNCHANGED <<platform, sess, cur, sawFail, stdout, helper, hrun, escalation, buffer, result, hist>>
  BY Zenon DEF ReaderThread
<1>a. stdin \in Seq(Command)
  BY DEF FieldTypes, PipeTypes
<1>b. mainQ \in Seq(Command)
  BY DEF FieldTypes, PipeTypes
<1>c. PICK c \in Command : c = Head(stdin)
  BY <1>0, <1>a
<1>d. mainQ' = mainQ \/ (c.kind # "cancel" /\ mainQ' = Append(mainQ, c))
  BY Zenon, <1>0, <1>c
<1>e. NoRun(stdin) => NoRun(stdin') /\ c.kind # "run"
  BY <1>0, <1>a, <1>c, NoRunTail
<1>f. NoRun(mainQ) /\ c.kind # "run" => NoRun(mainQ')
  BY <1>b, <1>d, NoRunAppend, Zenon
<1>g. Cancels(stdin, hist[cur].asked) => Cancels(stdin', hist[cur].asked)
  BY <1>0, <1>a, CancelsTail
<1>h. OneRun(mainQ, cur, hist[cur].asked) /\ c.kind # "run" => OneRun(mainQ', cur, hist[cur].asked)
  BY <1>b, <1>d, OneRunAppend, Zenon
<1>1. Unheard => Unheard'
  BY Zenon, <1>0 DEF Unheard
<1>2. Silent => Silent'
  BY Zenon, <1>0, <1>e, <1>f DEF Silent, NoRun
<1>3. Working => Working'
  BY Zenon, <1>0, <1>e, <1>f, <1>g DEF Working, NoRun, Cancels, Lines, Pids, FailIn, Windows
<1>4. Answering => Answering'
  BY ZenonT(30), <1>0, <1>e, <1>f DEF Answering, NoRun, Lines, Pids, FailIn
<1>5. sess = "waiting" /\ Sent => Sent'
  <2> SUFFICES ASSUME sess = "waiting", Sent PROVE Sent'
    OBVIOUS
  <2>1. CASE NoRun(stdin) /\ OneRun(mainQ, cur, hist[cur].asked) /\ Cancels(stdin, hist[cur].asked)
    BY Zenon, <1>0, <1>e, <1>g, <1>h, <1>1, <2>1 DEF Sent, NoRun, OneRun, Cancels
  <2>2. CASE OneRun(stdin, cur, hist[cur].asked) /\ NoRun(mainQ)
    <3>1. CASE Head(stdin) = RunCommand(cur) /\ NoRun(Tail(stdin)) /\ Cancels(Tail(stdin), hist[cur].asked)
      <4>1. c = RunCommand(cur) /\ c.kind = "run"
        BY <1>c, <3>1 DEF RunCommand
      <4>2. mainQ' = Append(mainQ, RunCommand(cur))
        BY <1>0, <1>c, <4>1
      <4>3. OneRun(mainQ', cur, hist[cur].asked)
        BY <1>b, <2>2, <4>1, <4>2, OneRunFresh
      <4> QED
        BY Zenon, <1>0, <1>1, <3>1, <4>3 DEF Sent, NoRun, OneRun, Cancels
    <3>2. CASE Head(stdin).kind # "run" /\ OneRun(Tail(stdin), cur, hist[cur].asked)
      BY Zenon, <1>0, <1>c, <1>f, <1>1, <2>2, <3>2 DEF Sent, NoRun, OneRun
    <3> QED
      BY <1>0, <1>a, <2>2, <3>1, <3>2, OneRunTail
  <2> QED
    BY <2>1, <2>2, Zenon DEF Sent
<1> QED
  BY Zenon, <1>0, <1>1, <1>2, <1>3, <1>4, <1>5 DEF StepInv

\* In step, a helper that is at work is at work for the call that waits.
LEMMA AtWork ==
  ASSUME FieldTypes, OrderInv, StepInv, InStep, helper \notin {"idle", "gone"}
  PROVE  sess = "waiting" /\ Working /\ cur \in Actions /\ hrun = cur
BY Zenon DEF StepInv, Silent, Sent, Answering, Working, OrderInv

\* Signals: the command goes on being the one that runs.
LEMMA SignalPhase ==
  ASSUME FieldTypes, QuietInv, OrderInv, StepInv, InStep, UNCHANGED platform, ReadRunning \/ TakeCancel \/ Escalate
  PROVE  StepInv' /\ (~Windows /\ ~UNCHANGED hist => hist[cur].asked)
<1>0. helper = "running"
  BY Zenon DEF ReadRunning, TakeCancel, Escalate
<1>1. sess = "waiting" /\ Working /\ cur \in Actions /\ hrun = cur
  BY <1>0, AtWork
<1>2. UNCHANGED <<platform, sess, cur, sawFail, stdout, mainQ, helper, hrun, buffer, result>>
  BY Zenon DEF ReadRunning, TakeCancel, Escalate, Apply, KillGroup
<1>a. stdin \in Seq(Command)
  BY DEF FieldTypes, PipeTypes
<1>3. /\ hist'[cur].lines = hist[cur].lines /\ hist'[cur].code = hist[cur].code
      /\ hist'[cur].fail = hist[cur].fail /\ hist'[cur].asked = hist[cur].asked
  <2>1. CASE hist' = hist
    BY <2>1
  <2>2. CASE Signalled
    <3>1. PICK b \in BOOLEAN : b = (hist[hrun].signalled \/ child = "running")
      BY Zenon
    <3>2. hist' = [hist EXCEPT ![hrun].signalled = b]
      BY <2>2, <3>1 DEF Signalled
    <3> QED
      BY <1>1, <3>2, SignalledUpdate DEF FieldTypes
  <2> QED
    BY Zenon, <2>1, <2>2 DEF ReadRunning, TakeCancel, Escalate
<1>4. /\ NoRun(stdin') /\ Cancels(stdin', hist[cur].asked)
      /\ stdin # <<>> /\ Head(stdin).kind = "cancel" => hist[cur].asked
  <2>1. stdin' = stdin \/ (stdin # <<>> /\ stdin' = Tail(stdin))
    BY Zenon DEF ReadRunning, TakeCancel, Escalate
  <2>2. NoRun(stdin) /\ Cancels(stdin, hist[cur].asked)
    BY <1>1, Zenon DEF Working
  <2>3. stdin # <<>> => NoRun(Tail(stdin))
    BY <1>a, <2>2, NoRunTail
  <2>4. stdin # <<>> => Cancels(Tail(stdin), hist[cur].asked) /\ (Head(stdin).kind = "cancel" => hist[cur].asked)
    BY <1>a, <2>2, CancelsTail
  <2> QED
    BY Zenon, <2>1, <2>2, <2>3, <2>4
<1>5. ~Windows /\ (escalation' \/ ~UNCHANGED hist) => escalation \/ (stdin # <<>> /\ Head(stdin).kind = "cancel")
  BY Zenon DEF ReadRunning, TakeCancel, Escalate
<1>6. ~Windows /\ (escalation' \/ ~UNCHANGED hist) => hist[cur].asked
  BY Zenon, <1>1, <1>4, <1>5 DEF Working
<1>7. Working'
  BY Zenon, <1>1, <1>2, <1>3, <1>4, <1>6 DEF Working, NoRun, Cancels, Lines, Pids, FailIn, Windows
<1> QED
  BY Zenon, <1>1, <1>2, <1>6, <1>7 DEF StepInv

\* A line that is passed on keeps the two ends in step.
LEMMA EmitPhase == FieldTypes /\ OrderInv /\ StepInv /\ InStep /\ Emit /\ UNCHANGED platform => StepInv'
<1> SUFFICES ASSUME FieldTypes, OrderInv, StepInv, InStep, Emit, UNCHANGED platform PROVE StepInv'
  OBVIOUS
<1>0. /\ helper \in {"running", "draining"} /\ buffer # <<>> /\ buffer' = Tail(buffer)
      /\ stdout' = Append(stdout, Response("out", hrun, Head(buffer)))
      /\ UNCHANGED <<platform, sess, cur, sawFail, stdin, mainQ, helper, hrun, escalation, result, hist>>
  BY Zenon DEF Emit
<1>1. sess = "waiting" /\ Working /\ cur \in Actions /\ hrun = cur /\ helper # "gone"
  BY <1>0, AtWork
<1>a. buffer \in Seq(Line)
  BY DEF FieldTypes, PipeTypes
<1>b. stdout \in Seq(ResponseSet)
  BY DEF FieldTypes, PipeTypes
<1>c. PICK l \in Line : l = Head(buffer)
  BY <1>0, <1>a
<1>d. Len(buffer) \in Nat /\ Len(buffer') = Len(buffer) - 1
  BY <1>0, <1>a
<1>e. (\E i \in DOMAIN buffer : buffer[i] = "openjd_fail") => l = "openjd_fail" \/ \E i \in DOMAIN buffer' : buffer'[i] = "openjd_fail"
  <2> SUFFICES ASSUME NEW i \in DOMAIN buffer, buffer[i] = "openjd_fail", l # "openjd_fail"
               PROVE  \E j \in DOMAIN buffer' : buffer'[j] = "openjd_fail"
    OBVIOUS
  <2>1. Head(buffer) = buffer[1] /\ DOMAIN buffer = 1 .. Len(buffer) /\ DOMAIN Tail(buffer) = 1 .. Len(buffer) - 1
    BY <1>0, <1>a
  <2>2. \A k \in DOMAIN Tail(buffer) : Tail(buffer)[k] = buffer[k + 1]
    BY <1>0, <1>a
  <2>3. i # 1
    BY Zenon, <1>c, <2>1
  <2>4. i - 1 \in DOMAIN Tail(buffer) /\ (i - 1) + 1 = i
    BY <1>d, <2>1, <2>3, SMTT(20)
  <2> QED
    BY <1>0, <2>2, <2>4
<1>2. PICK r \in ResponseSet : r = Response("out", cur, l) /\ r.kind = "out" /\ r.value = l
  BY <1>1, MessageTypes, Zenon DEF Response
<1>3. stdout' = Append(stdout, r) /\ Lines(stdout, Len(stdout))
  BY <1>0, <1>1, <1>c, <1>2, SMTT(30) DEF Working
<1>4. /\ Len(stdout) \in Nat /\ Len(stdout') = Len(stdout) + 1 /\ Pids(stdout') = Pids(stdout)
      /\ Lines(stdout', Len(stdout) + 1)
      /\ FailIn(stdout) => FailIn(stdout')
      /\ l = "openjd_fail" => FailIn(stdout')
  BY <1>b, <1>2, <1>3, LinesAppend
<1>5. Lines(stdout', Len(stdout'))
  BY <1>4, SMTT(30)
<1>6. hist[cur].lines = result[cur].lines + (Len(stdout') - Pids(stdout')) + Len(buffer')
  <2>1. result[cur].lines \in Nat /\ hist[cur].lines = result[cur].lines + (Len(stdout) - Pids(stdout)) + Len(buffer)
    BY <1>1 DEF Working, FieldTypes, ResultTypes, Result
  <2>2. Pids(stdout) \in Nat
    BY DEF Pids
  <2> QED
    BY <1>4, <1>d, <2>1, <2>2, SMTT(30)
<1>7. hist[cur].fail => sawFail \/ FailIn(stdout') \/ \E i \in DOMAIN buffer' : buffer'[i] = "openjd_fail"
  BY Zenon, <1>1, <1>4, <1>e DEF Working
<1>8. Working'
  BY Zenon, <1>0, <1>1, <1>5, <1>6, <1>7 DEF Working, NoRun, Cancels, Lines, Pids, FailIn, Windows
<1> QED
  BY Zenon, <1>0, <1>1, <1>8 DEF StepInv

\* The exit or the end of the output is seen: nothing the session is sent changes.
LEMMA SeePhase == FieldTypes /\ OrderInv /\ StepInv /\ InStep /\ (SeeExit \/ SeeEof) /\ UNCHANGED platform => StepInv'
<1> SUFFICES ASSUME FieldTypes, OrderInv, StepInv, InStep, SeeExit \/ SeeEof, UNCHANGED platform PROVE StepInv'
  BY SMTT(30)
<1>0. /\ helper \in {"running", "draining"} /\ helper' \in {"draining", "waiting"}
      /\ UNCHANGED <<platform, sess, cur, sawFail, stdin, stdout, mainQ, hrun, escalation, buffer, result, hist>>
  BY DEF SeeExit, SeeEof, KillGroup
<1>1. sess = "waiting" /\ Working /\ helper # "gone" /\ helper' # "gone" /\ helper' # "idle"
  BY <1>0, AtWork
<1>2. Working'
  BY Zenon, <1>0, <1>1 DEF Working, NoRun, Cancels, Lines, Pids, FailIn, Windows
<1> QED
  BY Zenon, <1>0, <1>1, <1>2 DEF StepInv

\* The command has ended and its output was read to the end: the answer follows the last line.
LEMMA FinishPhase == FieldTypes /\ QuietInv /\ OrderInv /\ StepInv /\ InStep /\ Finish /\ UNCHANGED platform => StepInv'
<1> SUFFICES ASSUME FieldTypes, QuietInv, OrderInv, StepInv, InStep, Finish, UNCHANGED platform PROVE StepInv'
  OBVIOUS
<1>0. /\ helper = "waiting" /\ child # "running" /\ stdout' = Append(stdout, Response("exited", hrun, child))
      /\ hist' = [hist EXCEPT ![hrun].code = child] /\ helper' = "idle"
      /\ UNCHANGED <<platform, sess, cur, sawFail, stdin, mainQ, buffer, result>>
  BY Zenon DEF Finish
<1>1. sess = "waiting" /\ Working /\ cur \in Actions /\ hrun = cur /\ helper # "gone"
  BY <1>0, AtWork
<1>2. child \in Code /\ Len(buffer) = 0 /\ DOMAIN buffer = {}
  BY <1>0 DEF QuietInv, FieldTypes, ProcessTypes
<1>b. stdout \in Seq(ResponseSet)
  BY DEF FieldTypes, PipeTypes
<1>3. PICK r \in ResponseSet : r = Response("exited", cur, child) /\ r.kind = "exited" /\ r.value = child /\ r.action = cur
  BY <1>1, <1>2, MessageTypes, Zenon DEF Response
<1>4. stdout' = Append(stdout, r) /\ Lines(stdout, Len(stdout))
  BY <1>0, <1>1, <1>3, SMTT(30) DEF Working
<1>5. /\ Len(stdout) \in Nat /\ Len(stdout') = Len(stdout) + 1 /\ Pids(stdout') = Pids(stdout) /\ stdout' # <<>>
      /\ Lines(stdout', Len(stdout)) /\ stdout'[Len(stdout) + 1] = r
      /\ FailIn(stdout) => FailIn(stdout')
  BY <1>b, <1>3, <1>4, LinesAppend, Zenon
<1>6. Lines(stdout', Len(stdout') - 1) /\ stdout'[Len(stdout')] = r
  <2>1. Len(stdout') - 1 = Len(stdout)
    BY <1>5
  <2> QED
    BY Zenon, <1>5, <2>1
<1>7. hist'[cur].lines = hist[cur].lines /\ hist'[cur].code = child /\ hist'[cur].fail = hist[cur].fail
  BY <1>0, <1>1, <1>2, CodeUpdate, Zenon DEF FieldTypes
<1>8. hist'[cur].lines = result[cur].lines + (Len(stdout') - 1 - Pids(stdout'))
  <2>1. result[cur].lines \in Nat /\ hist[cur].lines = result[cur].lines + (Len(stdout) - Pids(stdout)) + Len(buffer)
    BY <1>1 DEF Working, FieldTypes, ResultTypes, Result
  <2>2. Pids(stdout) \in Nat
    BY DEF Pids
  <2> QED
    BY <1>2, <1>5, <1>7, <2>1, <2>2, SMTT(30)
<1>9. hist'[cur].fail => sawFail \/ FailIn(stdout')
  BY Zenon, <1>1, <1>2, <1>5, <1>7 DEF Working
<1>10. NoRun(stdin) /\ NoRun(mainQ) /\ helper' \in {"idle", "gone"}
  BY <1>0, <1>1 DEF Working
<1>11. Answering'
  BY ZenonT(30), <1>0, <1>3, <1>5, <1>6, <1>7, <1>8, <1>9, <1>10 DEF Answering, NoRun, Lines, Pids, FailIn
<1> QED
  BY Zenon, <1>0, <1>1, <1>11 DEF StepInv

\* A crash of the helper keeps what was sent.
LEMMA CrashPhase == FieldTypes /\ StepInv /\ InStep /\ Crash /\ UNCHANGED platform => StepInv'
<1> SUFFICES ASSUME FieldTypes, StepInv, InStep, Crash, UNCHANGED platform PROVE StepInv'
  OBVIOUS
<1>0. /\ helper' = "gone"
      /\ UNCHANGED <<platform, sess, cur, sawFail, stdin, stdout, mainQ, hrun, escalation, buffer, result, hist>>
  BY Zenon DEF Crash, KillGroup
<1>1. helper' \in {"idle", "gone"} /\ helper' # "idle"
  BY <1>0
<1>2. Unheard => Unheard'
  BY Zenon, <1>0 DEF Unheard
<1>3. Silent => Silent'
  BY Zenon, <1>0, <1>1 DEF Silent, NoRun
<1>4. Sent => Sent'
  BY ZenonT(30), <1>0, <1>1, <1>2 DEF Sent, NoRun, OneRun, Cancels
<1>5. Working => Working'
  BY Zenon, <1>0, <1>1 DEF Working, NoRun, Cancels, Lines, Pids, FailIn, Windows
<1>6. Answering => Answering'
  BY Zenon, <1>0, <1>1 DEF Answering, NoRun, Lines, Pids, FailIn
<1> QED
  BY Zenon, <1>0, <1>2, <1>3, <1>4, <1>5, <1>6 DEF StepInv

\* A line the command writes keeps the two ends in step.
LEMMA WritePhase == FieldTypes /\ QuietInv /\ OrderInv /\ StepInv /\ InStep /\ Write /\ UNCHANGED platform => StepInv'
<1> SUFFICES ASSUME FieldTypes, QuietInv, OrderInv, StepInv, InStep, Write, UNCHANGED platform PROVE StepInv'
  OBVIOUS
<1>0. /\ helper # "gone" /\ (open \/ descendant # "none")
      /\ UNCHANGED <<platform, sess, cur, sawFail, stdin, stdout, mainQ, helper, hrun, escalation, result>>
  BY Zenon DEF Write
<1>1. helper \notin {"idle", "gone"}
  BY <1>0 DEF QuietInv, PipeClosed
<1>2. sess = "waiting" /\ Working /\ cur \in Actions /\ hrun = cur
  BY <1>1, AtWork
<1>3. PICK l \in Line : /\ buffer' = Append(buffer, l)
                        /\ hist' = [hist EXCEPT ![hrun].lines = @ + 1, ![hrun].fail = @ \/ l = "openjd_fail"]
  BY Zenon DEF Write
<1>4. /\ hist'[cur].lines = hist[cur].lines + 1 /\ hist'[cur].code = hist[cur].code
      /\ hist'[cur].fail => hist[cur].fail \/ l = "openjd_fail"
      /\ hist'[cur].asked = hist[cur].asked
  <2>1. HistTypes
    BY Zenon DEF FieldTypes
  <2>2. hist' = [hist EXCEPT ![cur].lines = @ + 1, ![cur].fail = @ \/ l = "openjd_fail"]
    BY <1>2, <1>3, Zenon
  <2> QED
    BY <1>2, <2>1, <2>2, LineUpdate, Zenon
<1>a. buffer \in Seq(Line)
  BY DEF FieldTypes, PipeTypes
<1>5. /\ Len(buffer) \in Nat /\ Len(buffer') = Len(buffer) + 1
      /\ (\E i \in DOMAIN buffer : buffer[i] = "openjd_fail") \/ l = "openjd_fail"
            => \E i \in DOMAIN buffer' : buffer'[i] = "openjd_fail"
  BY <1>a, <1>3
<1>6. hist'[cur].lines = result[cur].lines + (Len(stdout) - Pids(stdout)) + Len(buffer')
  <2>1. result[cur].lines \in Nat /\ hist[cur].lines = result[cur].lines + (Len(stdout) - Pids(stdout)) + Len(buffer)
    BY <1>1, <1>2 DEF Working, FieldTypes, ResultTypes, Result
  <2>2. Pids(stdout) \in Nat /\ Len(stdout) \in Nat
    BY DEF Pids, FieldTypes, PipeTypes
  <2>3. hist'[cur].lines = hist[cur].lines + 1 /\ Len(buffer) \in Nat /\ Len(buffer') = Len(buffer) + 1
    BY Zenon, <1>4, <1>5
  <2> QED
    BY <2>1, <2>2, <2>3, SMTT(30)
<1>7. hist'[cur].fail => sawFail \/ FailIn(stdout) \/ \E i \in DOMAIN buffer' : buffer'[i] = "openjd_fail"
  BY Zenon, <1>0, <1>2, <1>4, <1>5 DEF Working
<1>8. hist[cur].code = "none"
  BY <1>1, <1>2 DEF Working
<1>9. Working'
  BY Zenon, <1>0, <1>2, <1>4, <1>6, <1>7, <1>8 DEF Working, NoRun, Cancels, Lines, Pids, FailIn, Windows
<1> QED
  BY Zenon, <1>0, <1>2, <1>9 DEF StepInv

\* Every step keeps the two ends in step.
LEMMA StepInvStep == FieldTypes /\ QuietInv /\ OrderInv /\ StepInv /\ Next => StepInv'
<1> SUFFICES ASSUME FieldTypes, QuietInv, OrderInv, StepInv, Next, InStep' PROVE StepInv'
  BY Zenon DEF StepInv
<1>0. InStep /\ UNCHANGED platform
  BY InStepBefore DEF Next
<1>1. CASE Session
  BY Zenon, <1>0, <1>1, RegisterPhase, SendRunPhase, ReadResponsePhase, HelperClosedPhase, TimeoutPhase, SessionEndPhase DEF Session
<1>2. CASE CancelWrites
  BY Zenon, <1>0, <1>2, CancelWritesPhase
<1>3. CASE Helper
  BY Zenon, <1>0, <1>3, ReadIdlePhase, TakeMainPhase, ReaderPhase, SignalPhase, EmitPhase, SeePhase, FinishPhase DEF Helper
<1>4. CASE Write
  BY Zenon, <1>0, <1>4, WritePhase
<1>5. CASE Crash
  BY Zenon, <1>0, <1>5, CrashPhase
<1>6. CASE CancelRequests \/ Fork \/ ChildCloses \/ ChildExits \/ DescendantExits
  <2>1. UNCHANGED <<sess, cur, sawFail, stdin, stdout, mainQ, helper, hrun, escalation, buffer, result, hist>>
    BY Zenon, <1>6 DEF CancelRequests, Fork, ChildCloses, ChildExits, DescendantExits
  <2> QED
    BY <1>0, <2>1, PhaseFrame
<1> QED
  BY Zenon, <1>1, <1>2, <1>3, <1>4, <1>5, <1>6 DEF Next, Processes

\* On Unix a signal goes to the command of the call that waits, which was asked to stop.
LEMMA AskedStep == FieldTypes /\ QuietInv /\ OrderInv /\ PastInv /\ StepInv /\ SignalWasAsked /\ Next => SignalWasAsked'
<1> SUFFICES ASSUME FieldTypes, QuietInv, OrderInv, PastInv, StepInv, SignalWasAsked, Next,
                    NEW n \in Actions, hist'[n].signalled, ~Windows', ~GivenUp(n + 1)'
             PROVE  hist'[n].asked
  BY Zenon DEF SignalWasAsked
<1>0. MaxAction \in Nat /\ Actions = 1 .. MaxAction /\ cur \in 0 .. MaxAction /\ hrun \in 0 .. cur /\ n \in Nat /\ cur \in Nat
  BY HelperAssumption DEF HelperAssumption, Actions, FieldTypes, SessTypes
<1>1. ~Windows
  BY DEF Next, Windows
<1>2. ~GivenUp(n + 1)
  <2>1. PICK k \in 1 .. MaxAction + 1 : k = n + 1
    BY <1>0
  <2>2. ~GivenUp(k)'
    BY Zenon, <2>1
  <2> QED
    BY <2>1, <2>2, GivenUpStep
<1>3. hist[n].asked => hist'[n].asked
  BY HistStep
<1>4. CASE hist'[n].signalled = hist[n].signalled
  BY Zenon, <1>1, <1>2, <1>3, <1>4 DEF SignalWasAsked
<1>5. CASE hist'[n].signalled # hist[n].signalled
  <2>1. n = hrun /\ helper \notin {"idle", "gone"}
    BY <1>5, HistStep, Zenon DEF SameRun
  <2>2. ReadRunning \/ TakeCancel \/ Escalate
    <3>1. CASE TimeoutFires \/ CancelWrites
      <4>1. cur \in Actions
        BY <3>1 DEF TimeoutFires, CancelWrites, OrderInv
      <4>2. hist' = hist \/ hist' = [hist EXCEPT ![cur].asked = TRUE]
        BY Zenon, <3>1 DEF TimeoutFires, CancelWrites
      <4>3. hist' = [hist EXCEPT ![cur].asked = TRUE] => hist'[n].signalled = hist[n].signalled
        BY <4>1, AskedUpdate, Zenon DEF FieldTypes
      <4> QED
        BY Zenon, <1>5, <4>2, <4>3
    <3>2. CASE Finish
      <4>1. child \in Code
        BY <3>2 DEF Finish, QuietInv, FieldTypes, ProcessTypes
      <4>2. hist' = [hist EXCEPT ![n].code = child]
        BY <2>1, <3>2 DEF Finish
      <4>3. hist'[n].signalled = hist[n].signalled
        BY <4>1, <4>2, CodeUpdate, Zenon DEF FieldTypes
      <4> QED
        BY Zenon, <1>5, <4>3
    <3>3. CASE Write
      <4>1. PICK l \in Line : hist' = [hist EXCEPT ![n].lines = @ + 1, ![n].fail = @ \/ l = "openjd_fail"]
        BY <2>1, <3>3, Zenon DEF Write
      <4>2. hist'[n].signalled = hist[n].signalled
        BY <4>1, LineUpdate, Zenon DEF FieldTypes
      <4> QED
        BY Zenon, <1>5, <4>2
    <3>4. UNCHANGED hist \/ TimeoutFires \/ CancelWrites \/ Finish \/ Write \/ ReadRunning \/ TakeCancel \/ Escalate
      BY Zenon DEF Next, Session, Helper, Processes, Register, SendRun, ReadResponse, HelperClosed, EndAction, ShutDown,
         ShutDownDone, CancelRequests, ReadIdle, ReaderThread, TakeMain, Emit, SeeExit, SeeEof, Crash, Fork, ChildCloses,
         ChildExits, DescendantExits
    <3> QED
      BY Zenon, <1>5, <3>1, <3>2, <3>3, <3>4
  <2>3. CASE n < cur
    <3>1. result[n].state # "none"
      BY <2>3 DEF OrderInv
    <3>2. result[n].from # 0 /\ ~GivenUp(n)
      <4>1. ~\E m \in 1 .. n : result[m].state # "none" /\ result[m].from = 0
        BY <1>0, <1>2, InStepMeans
      <4>2. n \in 1 .. n /\ 1 .. n - 1 \subseteq 1 .. n
        BY <1>0
      <4> QED
        BY <3>1, <4>1, <4>2 DEF GivenUp
    <3>3. Over(n)
      BY <3>1, <3>2 DEF PastInv, Answered
    <3> QED
      BY <2>1, <3>3 DEF Over
  <2>4. CASE n = cur
    <3>1. InStep
      BY Zenon, <1>2, <2>4 DEF InStep
    <3>2. hist[cur].asked
      BY <1>1, <1>5, <2>2, <2>4, <3>1, SignalPhase, Zenon DEF Next
    <3> QED
      BY <1>3, <2>4, <3>2
  <2> QED
    BY <1>0, <2>1, <2>3, <2>4
<1> QED
  BY <1>4, <1>5, Zenon

-----------------------------------------------------------------------------
\* The channel starts in the invariant.
LEMMA HelperInit == Init => HelperInv
<1> SUFFICES ASSUME Init PROVE HelperInv
  OBVIOUS
<1>0. MaxAction \in Nat /\ Actions = 1 .. MaxAction /\ cur = 0
  BY HelperAssumption DEF HelperAssumption, Actions, Init
<1>a. \A S : <<>> \in Seq(S)
  BY EmptySeq
<1>1. FieldTypes
  <2>1. SessTypes /\ ProcessTypes
    BY <1>0 DEF Init, SessTypes, ProcessTypes
  <2>2. PipeTypes
    BY Zenon, <1>a DEF Init, PipeTypes
  <2>3. ResultTypes
    BY <1>0 DEF Init, ResultTypes, Result, NoResult
  <2>4. HistTypes
    BY DEF Init, HistTypes, History, NoHistory
  <2> QED
    BY <2>1, <2>2, <2>3, <2>4 DEF FieldTypes
<1>2. QuietInv
  BY DEF Init, QuietInv, PipeClosed
<1>3. OrderInv
  BY <1>0, SMTT(30) DEF Init, OrderInv, NoResult
<1>4. PastInv /\ FromInv
  <2>1. \A n \in Actions : result[n].state = "none" /\ result[n].from = 0
    BY DEF Init, NoResult
  <2> QED
    BY <2>1 DEF PastInv, Answered, FromInv
<1>5. StepInv
  BY DEF Init, StepInv, Silent, NoRun
<1>6. SignalWasAsked
  <2>1. \A n \in Actions : ~hist[n].signalled
    BY SMTT(30) DEF Init, NoHistory
  <2> QED
    BY <2>1 DEF SignalWasAsked
<1> QED
  BY <1>1, <1>2, <1>3, <1>4, <1>5, <1>6 DEF HelperInv

\* Every step, and every stutter, keeps the invariant.
LEMMA HelperStep == HelperInv /\ [Next]_vars => HelperInv'
<1> SUFFICES ASSUME HelperInv, [Next]_vars PROVE HelperInv'
  OBVIOUS
<1> USE DEF HelperInv
<1>1. CASE Next
  <2>1. FieldTypes'
    BY Zenon, <1>1, SessTypesStep, PipeTypesStep, ProcessTypesStep, ResultStep, HistStep DEF FieldTypes
  <2> QED
    BY Zenon, <1>1, <2>1, QuietStep, OrderStep, FromStep, PastStep, StepInvStep, AskedStep
<1>2. CASE UNCHANGED vars
  <2>1. FieldTypes'
    BY <1>2, SMTT(30) DEF FieldTypes, SessTypes, PipeTypes, ProcessTypes, ResultTypes, HistTypes
  <2>2. QuietInv' /\ OrderInv'
    BY <1>2, ZenonT(30) DEF QuietInv, OrderInv, PipeClosed
  <2>3. PastInv' /\ FromInv' /\ SignalWasAsked'
    BY <1>2, ZenonT(30) DEF PastInv, FromInv, Answered, GivenUp, Over, RunIn, SignalWasAsked, Windows
  <2>4. StepInv'
    BY <1>2, PhaseFrame
  <2> QED
    BY <2>1, <2>2, <2>3, <2>4, SMTT(30)
<1> QED
  BY <1>1, <1>2

\* The invariant of the channel holds in every reachable state: request, process, messages and answer
\* belong together, whoever of run_via_helper, the cancel thread and the helper steps next.
THEOREM HelperInvHolds == Spec => []HelperInv
BY HelperInit, HelperStep, PTL DEF Spec

\* run_via_helper never takes the answer of another run for its own: unless an earlier call was
\* given up, an action's result is its own command's, a success is a success of that command, and
\* on Unix a command is signalled only when its own action was cancelled or timed out.
THEOREM HelperResultsAreGenuine == Spec => []ResultsAreGenuine
<1>1. HelperInv => ResultsAreGenuine
  <2> SUFFICES ASSUME HelperInv PROVE AnswersItsRun /\ SuccessIsGenuine /\ SignalWasAsked
    BY DEF ResultsAreGenuine
  <2> QED
    BY Zenon DEF HelperInv, PastInv, FromInv, Answered, AnswersItsRun, SuccessIsGenuine
<1> QED
  BY <1>1, HelperInvHolds, PTL

\* When an action's exit has arrived, so has every line its command wrote: the drain loses nothing.
THEOREM HelperOutputArrives == Spec => []OutputArrives
<1>1. HelperInv => OutputArrives
  <2> SUFFICES ASSUME HelperInv, NEW n \in Actions, result[n].from = n, hist[n].code # "none", ~GivenUp(n)
               PROVE  result[n].lines = hist[n].lines
    BY DEF OutputArrives
  <2>1. n # 0
    BY HelperAssumption DEF HelperAssumption, Actions
  <2> QED
    BY <2>1 DEF HelperInv, PastInv, FromInv, Answered
<1> QED
  BY <1>1, HelperInvHolds, PTL
=============================================================================
