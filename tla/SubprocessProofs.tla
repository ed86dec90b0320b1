--------------------------- MODULE SubprocessProofs ---------------------------
(***************************************************************************)
(* Proofs about Subprocess, for every cancel method, every delay, timeout, *)
(* drain and grace time, and any number of lines and cancels.              *)
(***************************************************************************)
EXTENDS Subprocess, TLAPS

USE DEF loop, proc, cancelChannel, hist

Time == Nat \cup {None}

\* The values of the fields the invariants compare.
FieldTypes ==
  /\ now \in Nat
  /\ callPc \in {"start", "reading", "waiting", "reaping", "done"}
  /\ child \in {"none", "running", "exited", "reaped"}
  /\ token \in {"live", "cancelled"}
  /\ limit \in Time
  /\ stopAt \in Time /\ drainAt \in Time /\ waitUntil \in Time
  /\ killAt \in Time /\ notifyEnd \in Time

\* A child that has not exited has no exit status, and a killed one never has 0.
StatusInv ==
  /\ callPc = "start" => child = "none"
  /\ child \in {"none", "running"} => ~exitZero
  /\ killed => child \in {"exited", "reaped"} /\ ~exitZero

\* Nothing is written before the start, and the loop is left with an empty pipe
\* unless it was stopped or failed.
PipeInv == OutputIsComplete /\ (callPc = "start" => pipe = <<>>)

\* The deadlines and the clock.
DeadlineInv ==
  /\ cancelRequested =>
       /\ stopAt \in Nat /\ stopAt <= now /\ drainAt = stopAt + Drain
       /\ callPc # "start"
       /\ callPc = "reading" => now <= drainAt
       /\ callPc = "waiting" => waitUntil <= stopAt + Drain + Grace
       /\ callPc = "waiting" /\ ~terminateSent => stopAt + Grace <= waitUntil
  /\ callPc = "waiting" => waitUntil \in Nat /\ now <= waitUntil
  /\ notifyEnd # None => cancelRequested /\ ~terminateSent
  /\ killAt # None => killAt = notifyEnd
  /\ terminateSent => cancelRequested

CallInv == FieldTypes /\ StatusInv /\ PipeInv /\ DeadlineInv

\* The fields keep their types.
LEMMA FieldTypesStep == CallInv /\ [ProcessNext]_processVars => FieldTypes'
<1> SUFFICES ASSUME CallInv, [ProcessNext]_processVars PROVE FieldTypes'
  OBVIOUS
<1> USE ProcessConstants DEF ProcessConstants, CallInv, FieldTypes, Time
<1>1. CASE StartFails \/ Start \/ ReadLine \/ Reap
  BY <1>1, Zenon DEF StartFails, Start, ReadLine, Reap
<1>2. CASE DrainExpires \/ ReadEof \/ ReadError
  <2>1. /\ \E cause : LeaveLoop(cause)
        /\ UNCHANGED <<now, child, token, limit, drainAt, killAt, stopAt, notifyEnd>>
    BY Zenon, <1>2 DEF DrainExpires, ReadEof, ReadError
  <2>2. callPc' = "waiting" /\ waitUntil' \in Nat
    BY <2>1 DEF LeaveLoop
  <2> QED
    BY <2>1, <2>2
<1>3. CASE SeeCancel \/ SeeTimeout
  BY <1>3 DEF SeeCancel, SeeTimeout, StopReading, SendTerminate, Min
<1>4. CASE WaitError \/ WaitExpires \/ DelayedKill
  BY <1>4, Zenon DEF WaitError, WaitExpires, DelayedKill, SendTerminate
<1>5. ASSUME NEW line \in Line, Write(line) PROVE FieldTypes'
  BY <1>5 DEF Write
<1>6. ASSUME NEW who, Fork(who) \/ Close(who) PROVE FieldTypes'
  BY <1>6 DEF Fork, Close
<1>7. ASSUME NEW zero \in BOOLEAN, ChildExits(zero) PROVE FieldTypes'
  BY <1>7 DEF ChildExits
<1>8. ASSUME NEW l \in Limits, Cancel(l) PROVE FieldTypes'
  BY <1>8 DEF Cancel
<1>9. CASE Tick
  BY <1>9 DEF Tick
<1>10. CASE UNCHANGED processVars
  BY <1>10 DEF processVars
<1> HIDE DEF CallInv, FieldTypes
<1> QED
  BY Zenon, <1>1, <1>2, <1>3, <1>4, <1>5, <1>6, <1>7, <1>8, <1>9, <1>10 DEF ProcessNext, ProcessCall, World

\* No exit status of 0 for a child that runs or was killed.
LEMMA StatusStep == CallInv /\ [ProcessNext]_processVars => StatusInv'
<1> SUFFICES ASSUME CallInv, [ProcessNext]_processVars PROVE StatusInv'
  OBVIOUS
<1> USE DEF CallInv, FieldTypes, StatusInv
<1>1. CASE StartFails \/ Start \/ ReadLine \/ Reap
  BY <1>1 DEF StartFails, Start, ReadLine, Reap
<1>2. CASE DrainExpires \/ ReadEof \/ ReadError
  BY <1>2 DEF DrainExpires, ReadEof, ReadError, LeaveLoop
<1>3. CASE UNCHANGED <<callPc, proc>>
  BY <1>3
<1>4. CASE SendTerminate /\ (callPc' = callPc \/ callPc' # "start")
  BY <1>4, Zenon DEF SendTerminate
<1>5. CASE SeeCancel
  BY <1>3, <1>4, <1>5 DEF SeeCancel
<1>6. CASE SeeTimeout \/ WaitError \/ WaitExpires \/ DelayedKill
  BY <1>4, <1>6, Zenon DEF SeeTimeout, WaitError, WaitExpires, DelayedKill
<1>7. ASSUME NEW zero \in BOOLEAN, ChildExits(zero) PROVE StatusInv'
  BY <1>7 DEF ChildExits
<1>8. ASSUME NEW who, Fork(who) \/ Close(who) PROVE StatusInv'
  BY <1>8 DEF Fork, Close
<1>9. ASSUME NEW x, Write(x) \/ Cancel(x) PROVE StatusInv'
  BY <1>9 DEF Write, Cancel
<1>10. CASE Tick \/ UNCHANGED processVars
  BY <1>10 DEF Tick, processVars
<1> HIDE DEF CallInv, FieldTypes, StatusInv
<1> QED
  BY Zenon, <1>1, <1>2, <1>5, <1>6, <1>7, <1>8, <1>9, <1>10 DEF ProcessNext, ProcessCall, World

\* Lines are written only while the loop reads, and the loop reads them all.
LEMMA PipeStep == CallInv /\ [ProcessNext]_processVars => PipeInv'
<1> SUFFICES ASSUME CallInv, [ProcessNext]_processVars PROVE PipeInv'
  OBVIOUS
<1> USE DEF CallInv, FieldTypes, PipeInv, OutputIsComplete
<1>1. CASE StartFails \/ Start \/ ReadLine \/ Reap
  BY <1>1 DEF StartFails, Start, ReadLine, Reap, CanRead
<1>2. CASE DrainExpires \/ ReadEof \/ ReadError
  BY <1>2 DEF DrainExpires, ReadEof, ReadError, LeaveLoop, DrainDue
<1>3. CASE SeeCancel \/ SeeTimeout
  BY <1>3 DEF SeeCancel, SeeTimeout
<1>4. CASE WaitError \/ WaitExpires \/ DelayedKill
  BY <1>4, Zenon DEF WaitError, WaitExpires, DelayedKill
<1>5. ASSUME NEW line, Write(line) PROVE PipeInv'
  BY <1>5 DEF Write
<1>6. ASSUME NEW who, Fork(who) \/ Close(who) \/ ChildExits(who) \/ Cancel(who) PROVE PipeInv'
  BY <1>6 DEF Fork, Close, ChildExits, Cancel
<1>7. CASE Tick \/ UNCHANGED processVars
  BY <1>7 DEF Tick, processVars
<1> HIDE DEF CallInv, FieldTypes, PipeInv
<1> QED
  BY Zenon, <1>1, <1>2, <1>3, <1>4, <1>5, <1>6, <1>7 DEF ProcessNext, ProcessCall, World

\* The loop arms the drain deadline when it sees a cancel or the timeout, and
\* the clock does not pass a deadline that is due.
LEMMA DeadlineStep == CallInv /\ [ProcessNext]_processVars => DeadlineInv'
<1> SUFFICES ASSUME CallInv, [ProcessNext]_processVars PROVE DeadlineInv'
  OBVIOUS
<1>0. /\ Drain \in Nat /\ Grace \in Nat /\ GraceKilled \in Nat /\ TerminateDelay \in Nat
      /\ GraceKilled <= Grace /\ None \notin Nat
  BY ProcessConstants DEF ProcessConstants
<1> USE <1>0 DEF CallInv, FieldTypes, Time, DeadlineInv
<1>1. CASE StartFails \/ Start \/ ReadLine \/ Reap
  <2>1. CASE StartFails
    BY <2>1 DEF StartFails
  <2>2. CASE Start
    BY <2>2 DEF Start
  <2>3. CASE ReadLine
    BY <2>3 DEF ReadLine
  <2>4. CASE Reap
    BY <2>4 DEF Reap
  <2> QED
    BY <1>1, <2>1, <2>2, <2>3, <2>4, Zenon
<1>2. CASE DrainExpires \/ ReadEof \/ ReadError
  <2>1. /\ callPc = "reading" /\ callPc' = "waiting"
        /\ waitUntil' = now + (IF terminateSent THEN GraceKilled ELSE Grace)
        /\ UNCHANGED <<now, cancelRequested, terminateSent, drainAt, killAt, stopAt, notifyEnd>>
    BY Zenon, <1>2 DEF DrainExpires, ReadEof, ReadError, LeaveLoop, CanRead
  <2>2. waitUntil' \in Nat /\ now <= waitUntil' /\ waitUntil' <= now + Grace
    BY <2>1
  <2>3. ~terminateSent => waitUntil' = now + Grace
    BY <2>1
  <2> QED
    BY <2>1, <2>2, <2>3
<1>3. CASE SeeCancel \/ SeeTimeout
  <2>1. /\ callPc = "reading" /\ callPc' = "reading" /\ ~cancelRequested
        /\ cancelRequested' /\ stopAt' = now /\ drainAt' = now + Drain
        /\ UNCHANGED now
    BY <1>3 DEF SeeCancel, SeeTimeout, StopReading, CancelDue, TimeoutDue
  <2>2. \/ UNCHANGED <<killAt, notifyEnd>>
        \/ /\ killAt' = notifyEnd' /\ UNCHANGED terminateSent /\ SeeCancel
    BY <1>3 DEF SeeCancel, SeeTimeout
  <2> QED
    BY <2>1, <2>2
<1>4. CASE WaitError \/ WaitExpires
  <2>1. /\ callPc' \notin {"start", "reading", "waiting"}
        /\ UNCHANGED <<now, cancelRequested, terminateSent, drainAt, killAt, stopAt, notifyEnd, waitUntil>>
    BY Zenon, <1>4 DEF WaitError, WaitExpires
  <2> QED
    BY <2>1
<1>5. CASE DelayedKill
  BY <1>5 DEF DelayedKill
<1>6. ASSUME NEW x, Write(x) \/ Fork(x) \/ Close(x) \/ ChildExits(x) \/ Cancel(x) PROVE DeadlineInv'
  BY <1>6 DEF Write, Fork, Close, ChildExits, Cancel
<1>7. CASE Tick
  <2>1. /\ now' = now + 1
        /\ UNCHANGED <<callPc, cancelRequested, terminateSent, drainAt, killAt, stopAt, notifyEnd, waitUntil>>
    BY <1>7 DEF Tick
  <2>2. callPc = "reading" /\ cancelRequested => now < drainAt
    BY <1>7 DEF Tick, Urgent, DrainDue, Due
  <2>3. callPc = "waiting" => now < waitUntil
    BY <1>7 DEF Tick, Urgent, Due
  <2> QED
    BY <2>1, <2>2, <2>3
<1>8. CASE UNCHANGED processVars
  BY <1>8 DEF processVars
<1> HIDE DEF CallInv, FieldTypes, DeadlineInv
<1> QED
  BY Zenon, <1>1, <1>2, <1>3, <1>4, <1>5, <1>6, <1>7, <1>8 DEF ProcessNext, ProcessCall, World

\* The invariants hold before the process is started.
LEMMA InitCall == ProcessInit => CallInv
BY ProcessConstants
   DEF ProcessConstants, ProcessInit, CallInv, FieldTypes, Time, StatusInv, PipeInv, OutputIsComplete, DeadlineInv

\* They hold throughout the call.
THEOREM CallInvariant == ProcessSpec => []CallInv
<1>1. CallInv /\ [ProcessNext]_processVars => CallInv'
  BY FieldTypesStep, StatusStep, PipeStep, DeadlineStep DEF CallInv
<1> QED
  BY InitCall, <1>1, PTL DEF ProcessSpec

\* The output of an action that nobody stopped is read to its end.
THEOREM OutputIsRead == ProcessSpec => []OutputIsComplete
<1>1. CallInv => OutputIsComplete
  BY DEF CallInv, PipeInv
<1> QED
  BY CallInvariant, <1>1, PTL

-----------------------------------------------------------------------------
(* What a step may not do.                                                   *)

\* A result is reported by three steps only; two of them cannot report Success.
LEMMA SuccessStep ==
  ASSUME CallInv, [ProcessNext]_processVars, result' = "Success", result = None
  PROVE  ~killed /\ exitZero /\ ~sawFail /\ ~timedOut /\ token = "live"
<1> USE DEF CallInv, FieldTypes, StatusInv
<1>1. CASE Reap
  <2>1. FinalActionState(exitZero) = "Success"
    BY <1>1 DEF Reap
  <2>2. ~timedOut /\ token # "cancelled" /\ ~sawFail /\ exitZero
    BY <2>1 DEF FinalActionState
  <2> QED
    BY <2>2
<1>2. CASE WaitError \/ StartFails
  BY <1>2 DEF WaitError, StartFails, FinalActionState
<1>3. CASE ~(Reap \/ WaitError \/ StartFails)
  <2>1. result' = result
    BY Zenon, <1>3 DEF ProcessNext, ProcessCall, World, processVars, Start, DrainExpires, SeeCancel, SeeTimeout, ReadLine,
       ReadEof, ReadError, WaitExpires, DelayedKill, Write, Fork, Close, ChildExits, Cancel, Tick
  <2>2. None # "Success"
    BY ProcessConstants DEF ProcessConstants
  <2> QED
    BY <2>1, <2>2
<1> QED
  BY <1>1, <1>2, <1>3

\* Success is never reported for an action that was stopped, that failed, or
\* that was cancelled before its result was looked at.
THEOREM SuccessIsEarned == ProcessSpec => SuccessIsGenuine
<1>1. CallInv /\ [ProcessNext]_processVars =>
        [result' = "Success" /\ result = None =>
           ~killed /\ exitZero /\ ~sawFail /\ ~timedOut /\ token = "live"]_processVars
  BY SuccessStep
<1> QED
  BY CallInvariant, <1>1, PTL DEF ProcessSpec, SuccessIsGenuine

\* A child that was only notified is killed by the end of its notify period, by
\* the end of the wait, or because waiting for it failed.
LEMMA KillStep ==
  ASSUME CallInv, [ProcessNext]_processVars, notifyEnd # None, ~killed, killed'
  PROVE  now >= Min(notifyEnd, stopAt + Grace) \/ WaitError
<1>0. Drain \in Nat /\ Grace \in Nat /\ None \notin Nat
  BY ProcessConstants DEF ProcessConstants
<1> USE <1>0 DEF CallInv, FieldTypes, Time, DeadlineInv
<1>1. CASE WaitExpires
  <2>1. callPc = "waiting" /\ waitUntil <= now
    BY <1>1 DEF WaitExpires, Due
  <2>2. stopAt + Grace <= now /\ stopAt \in Nat
    BY <2>1
  <2> QED
    BY <2>2 DEF Min
<1>2. CASE DelayedKill
  BY <1>2 DEF DelayedKill, Due, Min
<1>3. CASE SeeCancel \/ SeeTimeout
  BY <1>3 DEF SeeCancel, SeeTimeout, CancelDue, TimeoutDue
<1>4. CASE ~(WaitExpires \/ DelayedKill \/ SeeCancel \/ SeeTimeout \/ WaitError)
  <2>1. killed' = killed
    BY Zenon, <1>4 DEF ProcessNext, ProcessCall, World, processVars, Start, StartFails, DrainExpires, ReadLine,
       ReadEof, ReadError, Reap, Write, Fork, Close, ChildExits, Cancel, Tick
  <2> QED
    BY <2>1
<1> QED
  BY <1>1, <1>2, <1>3, <1>4

\* The bound on the clock that the deadlines give.
InTime == cancelRequested /\ callPc \in {"reading", "waiting"} => now <= stopAt + Drain + Grace

\* In the loop and in the wait, the clock has not passed the deadlines.
LEMMA DeadlinesBound == CallInv => InTime
<1> SUFFICES ASSUME CallInv, cancelRequested, callPc \in {"reading", "waiting"}
             PROVE  now <= stopAt + Drain + Grace
  BY DEF InTime
<1>1. Drain \in Nat /\ Grace \in Nat
  BY ProcessConstants DEF ProcessConstants
<1> USE <1>1 DEF CallInv, FieldTypes, DeadlineInv
<1>2. CASE callPc = "reading"
  BY <1>2
<1>3. CASE callPc = "waiting"
  BY <1>3
<1> QED
  BY <1>2, <1>3

\* After a cancel or the timeout the call leaves the loop and the wait within
\* the drain and the grace time, and a notified child is given its time.
THEOREM CallStopsInTime == ProcessSpec => StopsInTime
<1>1. CallInv /\ InTime' /\ [ProcessNext]_processVars =>
        [/\ cancelRequested' /\ callPc' \in {"reading", "waiting"} => now' <= stopAt' + Drain + Grace
         /\ notifyEnd # None /\ ~killed /\ killed' =>
              now >= Min(notifyEnd, stopAt + Grace) \/ WaitError]_processVars
  BY KillStep DEF InTime
<1> QED
  BY CallInvariant, DeadlinesBound, <1>1, PTL DEF ProcessSpec, StopsInTime
=============================================================================
