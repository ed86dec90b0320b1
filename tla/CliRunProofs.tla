---------------------------- MODULE CliRunProofs ----------------------------
(***************************************************************************)
(* The books of the `openjd run` command, proved for every job: the ledger *)
(* of entered environments is the session's stack, an exit code of 0 means *)
(* that everything ran, and the session refuses no call.                   *)
(***************************************************************************)
EXTENDS CliRun, SequenceTheorems, FiniteSetTheorems, WellFoundedInduction, TLAPS

-----------------------------------------------------------------------------
(* The run of the command: its inductive invariant.                        *)

\* The phases in which environments of the job, or of the current step, are entered.
EntersOuter == cliPc = "outer" \/ (cliPc = "entering" /\ scope = "outer")
EntersStep == cliPc = "stepEnvs" \/ (cliPc = "entering" /\ scope = "stepEnvs")
UnwindsStep == cliPc = "unwindStep" \/ (cliPc = "exiting" /\ scope = "unwindStep")
UnwindsAll == cliPc = "unwind" \/ (cliPc = "exiting" /\ scope = "unwind")

CliTypes ==
    /\ job \in Job
    /\ at \in Nat /\ stepAt \in Nat /\ taskAt \in Nat /\ baseline \in Nat /\ tasksRun \in Nat
    /\ ledger \in Seq({e.id : e \in AllEnvs})

\* Where the command is says which list it reads and how far it has come.
PhaseInv ==
    /\ cliPc \in {"preflight", "outer", "entering", "steps", "stepEnvs", "tasks", "running",
                  "unwindStep", "exiting", "unwind", "record", "report", "done"}
    /\ cliPc \in {"outer", "stepEnvs"} => scope = cliPc
    /\ cliPc = "entering" => scope \in {"outer", "stepEnvs"} /\ at \in DOMAIN Envs
    /\ cliPc = "exiting" => scope \in {"unwindStep", "unwind"}
    /\ cliPc = "preflight" => scope = "outer"
    /\ at >= 1
    /\ cliPc \notin {"outer", "stepEnvs", "entering"} => at = 1
    /\ stepAt >= 1 /\ stepAt <= Len(job.steps) + 1
    /\ cliPc = "preflight" \/ EntersOuter => stepAt = 1
    /\ cliPc = "preflight" \/ EntersOuter \/ UnwindsAll => baseline = 0
    /\ EntersStep \/ cliPc \in {"tasks", "running"} \/ UnwindsStep => stepAt <= Len(job.steps)
    /\ EntersStep => taskAt = 0

\* The session is where the command believes it to be: an action is in flight
\* exactly while the command waits for one, and a session that can only be torn
\* down has been noticed.
CallInv ==
    /\ sessEnding = FALSE
    /\ cliPc \in {"entering", "running", "exiting"} => sessState = "Busy"
    /\ cliPc \notin {"entering", "running", "exiting", "done"} => sessState \in {"Ready", "ReadyEnding"}
    /\ cliPc = "done" => sessState # "Busy"
    /\ sessState = "ReadyEnding" => sessionFailed \/ runError
    /\ runError => UnwindsStep \/ UnwindsAll \/ cliPc \in {"record", "report", "done"}
    /\ cliPc = "tasks" /\ taskAt = 0 => ~sessionFailed
    /\ anyBad => sessionFailed \/ runError
    /\ ~rejected

\* What the ledger holds: environments of the job up to the baseline, and above
\* it those of the current step, in front of the one that is next to be entered.
LedgerInv ==
    /\ envStack = IF cliPc = "entering" THEN Append(ledger, Envs[at].id) ELSE ledger
    /\ cliPc \in {"preflight", "record", "report", "done"} => ledger = <<>>
    /\ cliPc = "entering" => ~InLedger(Envs[at].id)
    /\ cliPc \notin {"preflight", "done"} =>
         WrapsIn(job.outer) <= 1 /\ \A s \in DOMAIN job.steps : StackIsWrappedOnce(s)
    /\ \A k \in DOMAIN ledger : k <= baseline \/ EntersOuter \/ cliPc = "steps" =>
         \E i \in DOMAIN job.outer : ledger[k] = job.outer[i].id /\ (EntersOuter => i < at)
    /\ EntersStep => baseline <= Len(ledger)
    /\ EntersStep => \A k \in DOMAIN ledger : k > baseline =>
         \E i \in DOMAIN job.steps[stepAt].envs : ledger[k] = job.steps[stepAt].envs[i].id /\ i < at

\* While nothing went wrong the tasks that ran are those planned so far.
Clean == ~sessionFailed /\ ~runError /\ ~interrupted
WorkInv ==
    /\ Clean /\ (cliPc \in {"preflight", "steps"} \/ EntersOuter \/ EntersStep)
         => tasksRun = Planned[stepAt - 1]
    /\ Clean /\ cliPc \in {"tasks", "running"} =>
         /\ tasksRun = Planned[stepAt - 1] + taskAt
         /\ Plan.kind # "invalid" => taskAt <= PlanSize(Plan)
         /\ cliPc = "running" => taskAt < PlanSize(Plan)
    /\ Clean /\ UnwindsStep => tasksRun = Planned[stepAt]
    /\ Clean /\ (UnwindsAll \/ cliPc = "record") => tasksRun = Planned[Len(job.steps)]
    /\ cliPc = "report" /\ ~sessionFailed /\ ~runError => tasksRun = Planned[Len(job.steps)]
    /\ exitCode = 0 => cliPc = "done" /\ ~anyBad /\ tasksRun = Planned[Len(job.steps)]

CliInv == CliTypes /\ PhaseInv /\ CallInv /\ LedgerInv /\ WorkInv

-----------------------------------------------------------------------------
(* Jobs and the tasks they plan.                                           *)

\* The lists of a job are sequences of its environments.
LEMMA JobFacts ==
    ASSUME job \in Job
    PROVE  /\ job.outer \in Seq(AllEnvs) /\ Len(job.outer) \in Nat
           /\ DOMAIN job.outer = 1..Len(job.outer)
           /\ Len(job.steps) \in Nat /\ DOMAIN job.steps = 1..Len(job.steps)
           /\ \A s \in 1..Len(job.steps) :
                /\ job.steps[s].envs \in Seq(AllEnvs) /\ Len(job.steps[s].envs) \in Nat
                /\ DOMAIN job.steps[s].envs = 1..Len(job.steps[s].envs)
                /\ job.steps[s].plan.kind \in {"single", "space", "explicit", "invalid"}
                /\ job.steps[s].plan.n \in Nat /\ job.steps[s].plan.limit \in Nat
           /\ \A e, f \in AllEnvs : e.id = f.id => e = f
<1>1. /\ job.outer \in Seq(AllEnvs)
      /\ job.steps \in Seq({job.steps[s] : s \in DOMAIN job.steps})
      /\ \A e, f \in AllEnvs : e.id = f.id => e = f
      /\ \A s \in DOMAIN job.steps :
             /\ job.steps[s].envs \in Seq(AllEnvs)
             /\ job.steps[s].plan.kind \in {"single", "space", "explicit", "invalid"}
             /\ job.steps[s].plan.n \in Nat
             /\ job.steps[s].plan.limit \in Nat
  BY JobAssumption, Zenon DEF AllEnvs
<1>2. /\ Len(job.steps) \in Nat /\ DOMAIN job.steps = 1..Len(job.steps)
      /\ Len(job.outer) \in Nat /\ DOMAIN job.outer = 1..Len(job.outer)
  BY <1>1, LenProperties, Zenon
<1>3. ASSUME NEW s \in DOMAIN job.steps
      PROVE  /\ Len(job.steps[s].envs) \in Nat
             /\ DOMAIN job.steps[s].envs = 1..Len(job.steps[s].envs)
  BY <1>1, LenProperties, Zenon
<1> QED
  BY <1>1, <1>2, <1>3, Zenon

\* A plan has a number of tasks.
LEMMA PlanSizeIsNat ==
    ASSUME NEW p, p.n \in Nat, p.limit \in Nat
    PROVE  PlanSize(p) \in Nat
  BY DEF PlanSize

\* A nonempty set of natural numbers has a least element.
LEMMA LeastOf ==
    ASSUME NEW T, T \subseteq Nat, T # {}
    PROVE  \E x \in T : \A y \in T : x <= y
<1>1. PICK x \in T : \A y \in T : ~ (<<y, x>> \in OpToRel(<, Nat))
  BY WFMin, NatLessThanWellFounded, Zenon
<1>2. \A y \in T : ~ (y < x)
  BY <1>1, Zenon DEF OpToRel
<1> QED
  BY <1>2

\* Running sums exist: by the least length for which they would not.
LEMMA RunningSum ==
    ASSUME NEW n \in Nat, NEW c, \A s \in 1..n : c[s] \in Nat
    PROVE  \E f \in [0..n -> Nat] : f = [s \in 0..n |-> IF s = 0 THEN 0 ELSE f[s - 1] + c[s]]
<1> DEFINE Sums(k) == \E f \in [0..k -> Nat] :
                         f = [s \in 0..k |-> IF s = 0 THEN 0 ELSE f[s - 1] + c[s]]
           T == {k \in 0..n : ~Sums(k)}
<1>1. SUFFICES ASSUME T # {} PROVE FALSE
  <2>1. n \in 0..n
    OBVIOUS
  <2> HIDE DEF Sums
  <2>2. n \in T \/ Sums(n)
    BY <2>1
  <2>3. Sums(n)
    BY <1>1, <2>2
  <2> USE DEF Sums
  <2> QED
    BY <2>3, Zenon
<1>2. PICK k \in T : \A m \in T : k <= m
  <2>1. T \subseteq Nat
    OBVIOUS
  <2> HIDE DEF T
  <2> QED
    BY <1>1, <2>1, LeastOf, Zenon
<1>3. k # 0
  <2>0. ~Sums(k)
    BY <1>2, Zenon
  <2>1. SUFFICES ASSUME k = 0 PROVE Sums(k)
    BY <2>0
  <2> HIDE DEF T
  <2> DEFINE f == [s \in 0..0 |-> 0]
  <2>2. f \in [0..0 -> Nat] /\ f = [s \in 0..0 |-> IF s = 0 THEN 0 ELSE f[s - 1] + c[s]]
    OBVIOUS
  <2> QED
    BY <2>1, <2>2, Zenon
<1>4. k \in Nat /\ k \in 1..n /\ k - 1 \in 0..n /\ k - 1 \in Nat
  BY <1>2, <1>3
<1>5. Sums(k - 1)
  <2>1. ~(k <= k - 1)
    BY <1>4
  <2>2. k - 1 \notin T
    BY <1>2, <2>1, Zenon
  <2> QED
    BY <1>4, <2>2
<1>6. PICK g \in [0..(k - 1) -> Nat] :
             g = [s \in 0..(k - 1) |-> IF s = 0 THEN 0 ELSE g[s - 1] + c[s]]
  BY <1>5, Zenon
<1> DEFINE f == [s \in 0..k |-> IF s = k THEN g[k - 1] + c[k] ELSE g[s]]
<1>7. f \in [0..k -> Nat]
  BY <1>4, <1>6
<1>8. ASSUME NEW s \in 0..k PROVE f[s] = IF s = 0 THEN 0 ELSE f[s - 1] + c[s]
  <2>1. CASE s = k
    <3>1. f[k] = g[k - 1] + c[k] /\ f[k - 1] = g[k - 1]
      BY <1>4
    <3> QED
      BY <2>1, <3>1, <1>3
  <2>2. CASE s # k
    <3>1. s \in 0..(k - 1) /\ f[s] = g[s] /\ (s # 0 => s - 1 \in 0..(k - 1) /\ f[s - 1] = g[s - 1])
      BY <2>2, <1>4
    <3>2. g[s] = IF s = 0 THEN 0 ELSE g[s - 1] + c[s]
      BY <3>1, <1>6
    <3> QED
      BY <3>1, <3>2
  <2> QED
    BY <2>1, <2>2
<1>9. f = [s \in 0..k |-> IF s = 0 THEN 0 ELSE f[s - 1] + c[s]]
  <2>1. f = [s \in 0..k |-> f[s]]
    OBVIOUS
  <2> HIDE DEF f
  <2> QED
    BY <1>8, <2>1, Zenon
<1>10. Sums(k)
  <2> HIDE DEF f
  <2> QED
    BY <1>7, <1>9, Zenon
<1> QED
  BY <1>2, <1>10

\* The tasks planned up to a step are those up to the step before and its own.
LEMMA PlannedIs ==
    ASSUME job \in Job
    PROVE  /\ Planned[0] = 0
           /\ \A s \in 0..Len(job.steps) : Planned[s] \in Nat
           /\ \A s \in 1..Len(job.steps) : Planned[s] = Planned[s - 1] + PlanSize(job.steps[s].plan)
<1> DEFINE n == Len(job.steps)
           c == [s \in 1..n |-> PlanSize(job.steps[s].plan)]
           Rec(f) == f = [s \in 0..n |-> IF s = 0 THEN 0 ELSE f[s - 1] + PlanSize(job.steps[s].plan)]
<1>1. n \in Nat /\ \A s \in 1..n : c[s] \in Nat
  BY JobFacts, PlanSizeIsNat, Zenon
<1>2. \E f \in [0..n -> Nat] : f = [s \in 0..n |-> IF s = 0 THEN 0 ELSE f[s - 1] + c[s]]
  <2> HIDE DEF c, n
  <2> QED
    BY <1>1, RunningSum, Zenon
<1>3. \E f : Rec(f)
  <2>1. PICK f \in [0..n -> Nat] : f = [s \in 0..n |-> IF s = 0 THEN 0 ELSE f[s - 1] + c[s]]
    BY <1>2, Zenon
  <2>2. \A s \in 0..n : s # 0 => c[s] = PlanSize(job.steps[s].plan)
    BY <1>1
  <2> HIDE DEF c, n
  <2>3. Rec(f)
    BY <2>1, <2>2, Zenon
  <2> QED
    BY <2>3, Zenon
<1>4. Planned = CHOOSE f : Rec(f)
  BY Zenon DEF Planned
<1>5. Rec(Planned)
  <2> HIDE DEF Rec
  <2> QED
    BY <1>3, <1>4, Zenon
<1> HIDE DEF n
<1>6. ASSUME NEW s \in 1..n PROVE Planned[s] = Planned[s - 1] + PlanSize(job.steps[s].plan)
  BY <1>1, <1>5
<1>7. Planned[0] = 0
  BY <1>1, <1>5
<1>8. ASSUME NEW s \in 0..n PROVE Planned[s] \in Nat
  <2> DEFINE T == {k \in 0..n : Planned[k] \notin Nat}
  <2>1. SUFFICES ASSUME T # {} PROVE FALSE
    OBVIOUS
  <2>2. PICK k \in T : \A m \in T : k <= m
    <3>1. T \subseteq Nat
      BY <1>1
    <3> HIDE DEF T
    <3> QED
      BY <2>1, <3>1, LeastOf, Zenon
  <2>3. k \in 1..n /\ k - 1 \in 0..n /\ ~(k <= k - 1)
    BY <1>1, <1>7, <2>2
  <2>4. Planned[k - 1] \in Nat
    BY <2>2, <2>3
  <2>5. c[k] \in Nat /\ c[k] = PlanSize(job.steps[k].plan)
    BY <1>1, <2>3
  <2> HIDE DEF c
  <2> QED
    BY <1>6, <2>2, <2>3, <2>4, <2>5
<1> QED
  BY <1>6, <1>7, <1>8 DEF n

-----------------------------------------------------------------------------
(* Where the command is.                                                   *)
USE DEF cliLocal, apiVars

\* The list that is being entered is a sequence of the job's environments.
LEMMA EnvsFacts ==
    ASSUME job \in Job, PhaseInv, stepAt \in Nat, cliPc \in {"outer", "stepEnvs", "entering"}
    PROVE  /\ Envs \in Seq(AllEnvs) /\ Len(Envs) \in Nat /\ DOMAIN Envs = 1..Len(Envs)
           /\ \A i \in DOMAIN Envs : Envs[i] \in AllEnvs
           /\ EntersOuter \/ EntersStep
           /\ EntersOuter => Envs = job.outer
           /\ EntersStep => Envs = job.steps[stepAt].envs /\ stepAt \in DOMAIN job.steps
<1>1. (EntersOuter \/ EntersStep) /\ (EntersOuter => scope = "outer") /\ (EntersStep => scope = "stepEnvs")
  BY DEF PhaseInv, EntersOuter, EntersStep
<1>2. EntersStep => stepAt \in 1..Len(job.steps)
  BY JobFacts DEF PhaseInv
<1>3. /\ EntersOuter => Envs = job.outer
      /\ EntersStep => Envs = job.steps[stepAt].envs /\ stepAt \in DOMAIN job.steps
  BY <1>1, <1>2, JobFacts, Zenon DEF Envs
<1>4. Envs \in Seq(AllEnvs) /\ Len(Envs) \in Nat /\ DOMAIN Envs = 1..Len(Envs)
  BY <1>1, <1>2, <1>3, JobFacts, Zenon
<1>5. \A i \in DOMAIN Envs : Envs[i] \in AllEnvs
  BY <1>4, ElementOfSeq, Zenon
<1> QED
  BY <1>1, <1>3, <1>4, <1>5, Zenon

\* No step takes the command out of its phases.
LEMMA PhaseStep ==
    ASSUME job \in Job, at \in Nat, stepAt \in Nat, taskAt \in Nat, PhaseInv, CliNext
    PROVE  PhaseInv' /\ job' = job /\ at' \in Nat /\ stepAt' \in Nat /\ taskAt' \in Nat
<1> USE DEF EntersOuter, EntersStep, UnwindsStep, UnwindsAll
<1>a. Len(job.steps) \in Nat
  BY JobFacts
<1>1. CASE Preflight
  BY <1>1, <1>a DEF Preflight, PhaseInv
<1>2. CASE Enter
  <2>1. /\ cliPc \in {"outer", "stepEnvs"} /\ at <= Len(Envs)
        /\ (cliPc' = cliPc /\ at' = at + 1) \/ (cliPc' = "entering" /\ at' = at)
        /\ UNCHANGED <<job, scope, stepAt, taskAt, baseline>>
    BY <1>2, Zenon DEF Enter
  <2>2. Len(Envs) \in Nat /\ DOMAIN Envs = 1..Len(Envs)
    BY <2>1, EnvsFacts, Zenon
  <2>3. Envs' = Envs
    BY <2>1 DEF Envs
  <2>4. at \in DOMAIN Envs
    BY <2>1, <2>2 DEF PhaseInv
  <2> HIDE DEF Envs
  <2> QED
    BY <2>1, <2>3, <2>4, <1>a DEF PhaseInv
<1>3. CASE Entered
  BY <1>3, <1>a DEF Entered, PhaseInv
<1>4. CASE EnvsDone
  BY <1>4, <1>a DEF EnvsDone, PhaseInv
<1>5. CASE NextStep
  BY <1>5, <1>a DEF NextStep, PhaseInv
<1>6. CASE StartTask
  BY <1>6, <1>a DEF StartTask, PhaseInv
<1>7. CASE TaskReturns
  BY <1>7, <1>a DEF TaskReturns, PhaseInv
<1>8. CASE TasksDone
  BY <1>8, <1>a DEF TasksDone, PhaseInv
<1>9. CASE Exit
  BY <1>9, <1>a, Zenon DEF Exit, PhaseInv
<1>10. CASE Exited
  BY <1>10, <1>a DEF Exited, PhaseInv
<1>11. CASE Unwound
  BY <1>11, <1>a DEF Unwound, PhaseInv
<1>12. CASE RecordInterruption
  BY <1>12, <1>a DEF RecordInterruption, PhaseInv
<1>13. CASE Report
  BY <1>13, <1>a DEF Report, PhaseInv
<1>14. CASE StoreInterrupted \/ CancelToken \/ \E ok \in BOOLEAN : ActionEnds(ok)
  <2>1. UNCHANGED <<cliLocal, cliPc>>
    BY <1>14, Zenon DEF StoreInterrupted, CancelToken, ActionEnds
  <2> QED
    BY <2>1 DEF PhaseInv, Envs
<1> QED
  BY <1>1, <1>2, <1>3, <1>4, <1>5, <1>6, <1>7, <1>8, <1>9, <1>10, <1>11, <1>12, <1>13, <1>14,
     Zenon DEF CliNext, CliStep

-----------------------------------------------------------------------------
(* The single wrap layer.                                                  *)

\* One environment with wrap hooks is counted, and so are two.
LEMMA WrapsAreCounted ==
    ASSUME NEW S, NEW q \in Seq(S), NEW i \in DOMAIN q, q[i].wrap
    PROVE  /\ WrapsIn(q) \in Nat /\ WrapsIn(q) >= 1
           /\ \A j \in DOMAIN q : j # i /\ q[j].wrap => WrapsIn(q) >= 2
<1> DEFINE W == {k \in DOMAIN q : q[k].wrap}
<1>1. IsFiniteSet(W)
  <2>1. IsFiniteSet(1..Len(q)) /\ DOMAIN q = 1..Len(q)
    BY LenProperties, FS_Interval
  <2> QED
    BY <2>1, FS_Subset
<1>2. WrapsIn(q) = Cardinality(W) /\ i \in W
  BY Zenon DEF WrapsIn
<1>3. Cardinality({i}) = 1 /\ IsFiniteSet({i})
  BY FS_Singleton, Zenon
<1>4. Cardinality(W) \in Nat /\ Cardinality({i}) <= Cardinality(W)
  BY <1>1, <1>2, FS_CardinalityType, FS_Subset
<1>5. ASSUME NEW j \in W, j # i PROVE Cardinality(W) >= 2
  <2>1. IsFiniteSet({i} \cup {j}) /\ Cardinality({i} \cup {j}) = 2
    <3>1. j \notin {i}
      BY <1>5
    <3>2. IsFiniteSet({i} \cup {j}) /\ Cardinality({i} \cup {j}) = Cardinality({i}) + 1
      BY <1>3, <3>1, FS_AddElement, Zenon
    <3> QED
      BY <1>3, <3>2
  <2>2. {i} \cup {j} \subseteq W
    BY <1>2
  <2>3. Cardinality({i} \cup {j}) <= Cardinality(W)
    BY <1>1, <2>2, FS_Subset
  <2> HIDE DEF W
  <2> QED
    BY <1>4, <2>1, <2>3
<1>6. ASSUME NEW j \in DOMAIN q, j # i, q[j].wrap PROVE WrapsIn(q) >= 2
  BY <1>2, <1>5, <1>6, Zenon
<1> HIDE DEF W
<1>7. WrapsIn(q) \in Nat /\ WrapsIn(q) >= 1
  BY <1>2, <1>3, <1>4
<1> QED
  BY <1>6, <1>7, Zenon

\* The id of an environment leads back to it.
LEMMA EnvOfId ==
    ASSUME job \in Job, NEW e \in AllEnvs
    PROVE  EnvOf(e.id) = e
<1>1. \A f \in AllEnvs : f.id = e.id => f = e
  BY JobFacts, Zenon
<1> QED
  BY <1>1, Zenon DEF EnvOf

\* The session finds no second wrap layer: preflight has counted every
\* environment that can be on the stack together with the next one.
LEMMA NoConflict ==
    ASSUME CliTypes, PhaseInv, LedgerInv, cliPc \in {"outer", "stepEnvs"}, at <= Len(Envs)
    PROVE  ~Conflicts(Envs[at])
<1>1. SUFFICES ASSUME Envs[at].wrap, NEW k \in DOMAIN envStack, EnvOf(envStack[k]).wrap
               PROVE  FALSE
  BY Zenon DEF Conflicts
<1>2. /\ Len(Envs) \in Nat /\ DOMAIN Envs = 1..Len(Envs) /\ Envs \in Seq(AllEnvs)
      /\ \A i \in DOMAIN Envs : Envs[i] \in AllEnvs
      /\ EntersOuter => Envs = job.outer
      /\ EntersStep => Envs = job.steps[stepAt].envs /\ stepAt \in DOMAIN job.steps
      /\ EntersOuter \/ EntersStep
  BY EnvsFacts, Zenon DEF CliTypes
<1>3. at \in DOMAIN Envs /\ at \in Nat
  BY <1>2 DEF CliTypes, PhaseInv
<1>4. ledger = envStack /\ k \in DOMAIN ledger /\ cliPc \notin {"preflight", "done"}
  BY <1>1 DEF LedgerInv
<1>5. k \in Nat /\ baseline \in Nat
  <2>1. ledger \in Seq({e.id : e \in AllEnvs})
    BY DEF CliTypes
  <2>2. DOMAIN ledger = 1..Len(ledger)
    BY <2>1, LenProperties
  <2> QED
    BY <1>4, <2>2 DEF CliTypes
<1>6. /\ WrapsIn(job.outer) <= 1
      /\ \A s \in DOMAIN job.steps : WrapsIn(job.outer) + WrapsIn(job.steps[s].envs) <= 1
  BY <1>4 DEF LedgerInv, StackIsWrappedOnce
<1>7. job.outer \in Seq(AllEnvs) /\ \A i \in DOMAIN job.outer : job.outer[i] \in AllEnvs
  <2>1. job.outer \in Seq(AllEnvs)
    BY JobFacts DEF CliTypes
  <2> QED
    BY <2>1, ElementOfSeq
<1>8. CASE EntersOuter
  <2>1. PICK i \in DOMAIN job.outer : ledger[k] = job.outer[i].id /\ i < at
    BY <1>4, <1>8, Zenon DEF LedgerInv
  <2>2. job.outer[i].wrap
    BY <1>1, <1>4, <1>7, <2>1, EnvOfId, Zenon DEF CliTypes
  <2>3. at # i /\ i \in DOMAIN Envs /\ Envs[i].wrap /\ Envs = job.outer
    <3>1. i # at
      BY <1>2, <1>3, <1>8, <2>1
    <3> QED
      BY <1>2, <1>8, <2>1, <2>2, <3>1, Zenon
  <2>4. WrapsIn(Envs) >= 2 /\ WrapsIn(Envs) \in Nat
    BY <1>1, <1>2, <1>3, <2>3, WrapsAreCounted, Zenon
  <2> HIDE DEF WrapsIn, Envs
  <2> QED
    BY <2>3, <2>4, <1>6
<1>9. CASE EntersStep
  <2>1. Envs = job.steps[stepAt].envs /\ stepAt \in DOMAIN job.steps
    BY <1>2, <1>9, Zenon
  <2>2. WrapsIn(Envs) >= 1 /\ WrapsIn(Envs) \in Nat
    BY <1>1, <1>2, <1>3, WrapsAreCounted, Zenon
  <2>3. WrapsIn(job.outer) + WrapsIn(Envs) <= 1
    BY <1>6, <2>1, Zenon
  <2>4. CASE k <= baseline
    <3>1. PICK i \in DOMAIN job.outer : ledger[k] = job.outer[i].id
      BY <1>4, <2>4, Zenon DEF LedgerInv
    <3>2. job.outer[i].wrap
      BY <1>1, <1>4, <1>7, <3>1, EnvOfId, Zenon DEF CliTypes
    <3>3. WrapsIn(job.outer) >= 1 /\ WrapsIn(job.outer) \in Nat
      BY <1>7, <3>2, WrapsAreCounted, Zenon
    <3> HIDE DEF WrapsIn, Envs
    <3> QED
      BY <2>2, <2>3, <3>3
  <2>5. CASE k > baseline
    <3>1. PICK i \in DOMAIN Envs : ledger[k] = Envs[i].id /\ i < at
      BY <1>4, <1>9, <2>1, <2>5, Zenon DEF LedgerInv
    <3>2. Envs[i].wrap
      BY <1>1, <1>2, <1>4, <3>1, EnvOfId, Zenon DEF CliTypes
    <3>3. i # at
      BY <1>2, <1>3, <3>1
    <3>4. WrapsIn(Envs) >= 2
      BY <1>1, <1>2, <1>3, <3>2, <3>3, WrapsAreCounted, Zenon
    <3>5. WrapsIn(job.outer) \in Nat
      <4>0. Len(job.outer) \in Nat /\ DOMAIN job.outer = 1..Len(job.outer)
        BY JobFacts DEF CliTypes
      <4>1. IsFiniteSet(1..Len(job.outer)) /\ DOMAIN job.outer = 1..Len(job.outer)
        BY <4>0, FS_Interval
      <4>2. IsFiniteSet({j \in DOMAIN job.outer : job.outer[j].wrap})
        BY <4>1, FS_Subset
      <4> QED
        BY <4>2, FS_CardinalityType DEF WrapsIn
    <3> HIDE DEF WrapsIn, Envs
    <3> QED
      BY <2>2, <2>3, <3>4, <3>5
  <2> QED
    BY <1>5, <2>4, <2>5
<1> QED
  BY <1>2, <1>8, <1>9

-----------------------------------------------------------------------------
(* The calls of the session.                                               *)

\* When enter_environment is called the session is ready and takes the
\* environment.
LEMMA EnterIsTaken ==
    ASSUME CliTypes, PhaseInv, CallInv, LedgerInv, Enter
    PROVE  LET e == Envs[at] IN
           /\ sessState = "Ready" /\ ~sessionFailed /\ ~interrupted
           /\ \/ /\ e.varsFail /\ ApiEnterFails(e.id) /\ sessionFailed'
                 /\ ledger' = Append(ledger, e.id) /\ cliPc' = cliPc /\ at' = at + 1
              \/ /\ ~e.varsFail /\ ~sessionFailed' /\ ~e.onEnter /\ ApiEnter(e.id, e.onEnter)
                 /\ ledger' = Append(ledger, e.id) /\ cliPc' = cliPc /\ at' = at + 1
              \/ /\ ~e.varsFail /\ ~sessionFailed' /\ e.onEnter /\ ApiEnter(e.id, e.onEnter)
                 /\ ledger' = ledger /\ cliPc' = "entering" /\ at' = at
           /\ ~rejected'
<1>1. cliPc \in {"outer", "stepEnvs"} /\ at <= Len(Envs) /\ ~sessionFailed /\ ~interrupted
  BY Zenon DEF Enter, Stopping
<1>2. ~Conflicts(Envs[at])
  BY <1>1, NoConflict
<1>3. ~runError
  BY <1>1 DEF CallInv, UnwindsStep, UnwindsAll
<1>4. sessState = "Ready"
  BY <1>1, <1>3 DEF CallInv
<1>5. ~rejected
  BY DEF CallInv
<1> QED
  BY <1>1, <1>2, <1>4, <1>5, Zenon DEF Enter

\* The session is ready for every task that is started.
LEMMA StartIsTaken ==
    ASSUME CliTypes, PhaseInv, CallInv, StartTask
    PROVE  ApiRun /\ cliPc' = "running" /\ runError' = runError /\ rejected' = rejected
<1>1. cliPc = "tasks" /\ ~runError /\ stepAt \in DOMAIN job.steps
  BY JobFacts DEF StartTask, CallInv, UnwindsStep, UnwindsAll, CliTypes, PhaseInv
<1>2. Plan.kind \in {"single", "space", "explicit", "invalid"}
  BY <1>1, JobFacts, Zenon DEF Plan, CliTypes
<1>3. MoreTasks
  BY Zenon DEF StartTask
<1>4. ~sessionFailed
  <2>1. CASE taskAt = 0
    BY <1>1, <2>1 DEF CallInv
  <2>2. CASE taskAt # 0
    BY <1>2, <1>3, <2>2 DEF MoreTasks, Stopping
  <2> QED
    BY <2>1, <2>2
<1>5. sessState = "Ready"
  BY <1>1, <1>4 DEF CallInv
<1> QED
  BY <1>5, Zenon DEF StartTask

\* Every exit is one of the environment on top of the session's stack.
LEMMA ExitIsTaken ==
    ASSUME CliTypes, PhaseInv, CallInv, LedgerInv, Exit
    PROVE  LET id == ledger[Len(ledger)] IN
           /\ cliPc \in {"unwindStep", "unwind"} /\ Len(ledger) > baseline /\ envStack = ledger
           /\ ledger' = SubSeq(ledger, 1, Len(ledger) - 1)
           /\ ApiExit(id, TRUE, EnvOf(id).onExit)
           /\ \/ EnvOf(id).onExit /\ scope' = cliPc /\ cliPc' = "exiting"
              \/ ~EnvOf(id).onExit /\ scope' = scope /\ cliPc' = cliPc
           /\ UNCHANGED <<sessionFailed, rejected>>
<1>1. cliPc \in {"unwindStep", "unwind"} /\ Len(ledger) > baseline
  BY Zenon DEF Exit
<1>2. sessState \in {"Ready", "ReadyEnding"}
  BY <1>1 DEF CallInv
<1>3. envStack = ledger
  BY <1>1 DEF LedgerInv
<1>4. envStack # <<>>
  BY <1>1, <1>3 DEF CliTypes
<1> QED
  BY <1>1, <1>2, <1>3, <1>4, Zenon DEF Exit

\* The command's picture of the session stays right.
LEMMA CallStep ==
    ASSUME CliTypes, PhaseInv, CallInv, LedgerInv, CliNext
    PROVE  CallInv'
<1> USE DEF UnwindsStep, UnwindsAll
<1>1. CASE Preflight
  BY <1>1 DEF Preflight, CallInv
<1>2. CASE Enter
  <2>1. /\ cliPc \in {"outer", "stepEnvs"}
        /\ UNCHANGED <<taskAt, runError, anyBad, scope>>
    BY <1>2, Zenon DEF Enter
  <2>2. /\ ~rejected' /\ ~sessionFailed
        /\ \/ cliPc' = cliPc /\ sessState' = "Ready" /\ UNCHANGED sessEnding
           \/ cliPc' = "entering" /\ sessState' = "Busy" /\ UNCHANGED sessEnding
    BY <1>2, EnterIsTaken, Zenon DEF ApiEnter, ApiEnterFails, Starts, ReturnsAtOnce
  <2> QED
    BY <2>1, <2>2 DEF CallInv
<1>3. CASE Entered
  BY <1>3, Zenon DEF Entered, ApiFinish, CallInv, PhaseInv
<1>4. CASE EnvsDone
  BY <1>4 DEF EnvsDone, CallInv, PhaseInv
<1>5. CASE NextStep
  BY <1>5 DEF NextStep, CallInv
<1>6. CASE StartTask
  <2>1. /\ cliPc = "tasks" /\ sessState' = "Busy" /\ cliPc' = "running"
        /\ UNCHANGED <<scope, taskAt, sessionFailed, anyBad, runError, rejected, sessEnding>>
    BY <1>6, StartIsTaken, Zenon DEF StartTask, ApiRun, Starts
  <2> QED
    BY <2>1 DEF CallInv
<1>7. CASE TaskReturns
  <2>1. /\ cliPc = "running" /\ taskAt' = taskAt + 1 /\ UNCHANGED <<scope, rejected, sessEnding>>
        /\ sessState' = IF lastOk' /\ ~sessEnding THEN "Ready" ELSE "ReadyEnding"
        /\ (lastOk' <=> verdict = "ok") /\ (anyBad' <=> anyBad \/ ~lastOk')
    BY <1>7, Zenon DEF TaskReturns, ApiFinish
  <2>2. \/ runError' /\ cliPc' = "unwindStep" /\ ~lastOk' /\ (sessionFailed' <=> sessionFailed)
        \/ ~runError' /\ cliPc' = "tasks" /\ (sessionFailed' <=> sessionFailed \/ ~lastOk')
    <3>1. PICK err \in BOOLEAN :
                 /\ verdict = "ok" => ~err
                 /\ runError' = err
                 /\ sessionFailed' = (sessionFailed \/ (~err /\ ~lastOk'))
                 /\ cliPc' = IF err THEN "unwindStep" ELSE "tasks"
      BY <1>7, Zenon DEF TaskReturns
    <3>2. CASE err
      BY <2>1, <3>1, <3>2, Zenon
    <3>3. CASE ~err
      BY <2>1, <3>1, <3>3, Zenon
    <3> QED
      BY <3>2, <3>3, Zenon
  <2> QED
    BY <2>1, <2>2 DEF CallInv, CliTypes
<1>8. CASE TasksDone
  BY <1>8 DEF TasksDone, CallInv
<1>9. CASE Exit
  <2>1. /\ cliPc \in {"unwindStep", "unwind"} /\ ~sessEnding
        /\ UNCHANGED <<taskAt, runError, anyBad, sessionFailed, rejected>>
        /\ \/ scope' = cliPc /\ cliPc' = "exiting" /\ sessState' = "Busy" /\ sessEnding' = (sessEnding \/ ~TRUE)
           \/ scope' = scope /\ cliPc' = cliPc /\ sessState' \in {"Ready"} /\ sessEnding' = (sessEnding \/ ~TRUE)
    <3>1. sessEnding = FALSE
      BY DEF CallInv
    <3> QED
      BY <1>9, <3>1, ExitIsTaken, Zenon DEF Exit, ApiExit, Starts, ReturnsAtOnce
  <2> QED
    BY <2>1, Zenon DEF CallInv
<1>10. CASE Exited
  BY <1>10, Zenon DEF Exited, ApiFinish, CallInv, PhaseInv
<1>11. CASE Unwound
  BY <1>11 DEF Unwound, CallInv
<1>12. CASE RecordInterruption
  BY <1>12, Zenon DEF RecordInterruption, CallInv
<1>13. CASE Report
  BY <1>13 DEF Report, ApiCleanup, CallInv
<1>14. CASE StoreInterrupted \/ CancelToken \/ \E ok \in BOOLEAN : ActionEnds(ok)
  <2>1. UNCHANGED <<cliLocal, cliPc, sessionFailed, runError, anyBad, rejected, sessState, sessEnding>>
    BY <1>14, Zenon DEF StoreInterrupted, CancelToken, ActionEnds, ApiDecide, ApiCancelToken
  <2> QED
    BY <2>1 DEF CallInv
<1> QED
  BY <1>1, <1>2, <1>3, <1>4, <1>5, <1>6, <1>7, <1>8, <1>9, <1>10, <1>11, <1>12, <1>13, <1>14,
     Zenon DEF CliNext, CliStep

-----------------------------------------------------------------------------
(* The ledger.                                                             *)

\* Sequences with one element more and with one element less.
LEMMA Longer ==
    ASSUME NEW S, NEW q \in Seq(S), NEW x \in S
    PROVE  /\ Append(q, x) \in Seq(S) /\ Len(Append(q, x)) = Len(q) + 1 /\ Len(q) \in Nat
           /\ DOMAIN q = 1..Len(q) /\ DOMAIN Append(q, x) = 1..(Len(q) + 1)
           /\ \A k \in DOMAIN q : Append(q, x)[k] = q[k]
           /\ Append(q, x)[Len(q) + 1] = x
  OBVIOUS

\* The same for a sequence without its last element.
LEMMA Shorter ==
    ASSUME NEW S, NEW q \in Seq(S), Len(q) > 0
    PROVE  LET r == SubSeq(q, 1, Len(q) - 1) IN
           /\ r \in Seq(S) /\ Len(r) = Len(q) - 1 /\ Len(q) \in Nat
           /\ DOMAIN r = 1..(Len(q) - 1) /\ DOMAIN q = 1..Len(q)
           /\ \A k \in DOMAIN r : k \in DOMAIN q /\ r[k] = q[k]
<1>1. Len(q) \in Nat /\ DOMAIN q = 1..Len(q)
  OBVIOUS
<1>2. SubSeq(q, 1, Len(q) - 1) \in Seq(S) /\ Len(SubSeq(q, 1, Len(q) - 1)) = Len(q) - 1
  BY <1>1, SubSeqProperties
<1>3. \A k \in 1..(Len(q) - 1) : SubSeq(q, 1, Len(q) - 1)[k] = q[k]
  BY <1>1, SubSeqProperties
<1> DEFINE r == SubSeq(q, 1, Len(q) - 1)
<1>4. r \in Seq(S) /\ Len(r) = Len(q) - 1 /\ \A k \in 1..(Len(q) - 1) : r[k] = q[k]
  BY <1>2, <1>3
<1> HIDE DEF r
<1>5. DOMAIN r = 1..(Len(q) - 1) /\ \A k \in 1..(Len(q) - 1) : k \in DOMAIN q
  BY <1>1, <1>4
<1> QED
  BY <1>1, <1>4, <1>5, Zenon DEF r

\* The environment that is entered is recorded behind those entered before it.
LEMMA LedgerGrows ==
    ASSUME CliTypes, PhaseInv, LedgerInv, cliPc \in {"outer", "stepEnvs", "entering"},
           at \in DOMAIN Envs, at' = at + 1, cliPc' = scope,
           ledger' = Append(ledger, Envs[at].id), envStack' = Append(ledger, Envs[at].id),
           UNCHANGED <<job, scope, stepAt, baseline>>
    PROVE  LedgerInv' /\ ledger' \in Seq({e.id : e \in AllEnvs})
<1> DEFINE x == Envs[at].id
           Ids == {e.id : e \in AllEnvs}
<1>1. /\ Envs[at] \in AllEnvs
      /\ EntersOuter => Envs = job.outer
      /\ EntersStep => Envs = job.steps[stepAt].envs /\ stepAt \in DOMAIN job.steps
      /\ EntersOuter \/ EntersStep
  BY EnvsFacts, Zenon DEF CliTypes
<1>2. x \in Ids /\ ledger \in Seq(Ids) /\ at \in Nat /\ baseline \in Nat
  BY <1>1 DEF CliTypes
<1>3. /\ ledger' \in Seq(Ids) /\ Len(ledger') = Len(ledger) + 1 /\ Len(ledger) \in Nat
      /\ DOMAIN ledger = 1..Len(ledger) /\ DOMAIN ledger' = 1..(Len(ledger) + 1)
      /\ \A k \in DOMAIN ledger : ledger'[k] = ledger[k]
      /\ ledger'[Len(ledger) + 1] = x
  <2> HIDE DEF x, Ids
  <2>1. ledger' = Append(ledger, x)
    BY DEF x
  <2> QED
    BY <1>2, <2>1, Longer
<1>4. (EntersOuter' <=> EntersOuter) /\ (EntersStep' <=> EntersStep) /\ ~(EntersOuter /\ EntersStep)
  BY DEF PhaseInv, EntersOuter, EntersStep
<1>5. /\ cliPc \notin {"preflight", "done"} /\ cliPc' \in {"outer", "stepEnvs"}
      /\ EntersOuter <=> cliPc' = "outer"
  BY DEF PhaseInv, EntersOuter
<1>6. (EntersOuter => baseline = 0) /\ (EntersStep => baseline <= Len(ledger))
  BY DEF PhaseInv, LedgerInv
<1> HIDE DEF x, Ids
<1>7. ASSUME NEW k \in DOMAIN ledger', k <= baseline \/ EntersOuter
      PROVE  \E i \in DOMAIN job.outer : ledger'[k] = job.outer[i].id /\ (EntersOuter => i < at + 1)
  <2>1. CASE k \in DOMAIN ledger
    <3>1. PICK i \in DOMAIN job.outer : ledger[k] = job.outer[i].id /\ (EntersOuter => i < at)
      BY <1>7, <2>1, Zenon DEF LedgerInv
    <3>2. i \in Nat
      BY JobFacts DEF CliTypes
    <3>3. EntersOuter => i < at + 1
      BY <3>1, <3>2, <1>2
    <3> QED
      BY <2>1, <3>1, <3>3, <1>3, Zenon
  <2>2. CASE k \notin DOMAIN ledger
    <3>1. k = Len(ledger) + 1
      BY <1>3, <2>2
    <3>2. EntersOuter
      BY <1>1, <1>2, <1>3, <1>6, <1>7, <3>1
    <3>3. at \in DOMAIN job.outer /\ ledger'[k] = job.outer[at].id
      BY <1>1, <1>3, <3>1, <3>2, Zenon DEF x
    <3>4. at < at + 1
      BY <1>2
    <3> QED
      BY <3>3, <3>4, Zenon
  <2> QED
    BY <2>1, <2>2
<1>8. ASSUME EntersStep, NEW k \in DOMAIN ledger', k > baseline
      PROVE  \E i \in DOMAIN job.steps[stepAt].envs :
                 ledger'[k] = job.steps[stepAt].envs[i].id /\ i < at + 1
  <2>0. stepAt \in 1..Len(job.steps)
    BY <1>1, <1>8, JobFacts DEF CliTypes
  <2>1. CASE k \in DOMAIN ledger
    <3>1. PICK i \in DOMAIN job.steps[stepAt].envs :
                 ledger[k] = job.steps[stepAt].envs[i].id /\ i < at
      BY <1>8, <2>1, Zenon DEF LedgerInv
    <3>2. i \in Nat
      <4>1. /\ Len(job.steps[stepAt].envs) \in Nat
            /\ DOMAIN job.steps[stepAt].envs = 1..Len(job.steps[stepAt].envs)
        BY <2>0, JobFacts, Zenon DEF CliTypes
      <4> QED
        BY <4>1
    <3>3. i < at + 1
      BY <3>1, <3>2, <1>2
    <3> QED
      BY <2>1, <3>1, <3>3, <1>3, Zenon
  <2>2. CASE k \notin DOMAIN ledger
    <3>1. k = Len(ledger) + 1
      BY <1>3, <2>2
    <3>2. at \in DOMAIN job.steps[stepAt].envs /\ ledger'[k] = job.steps[stepAt].envs[at].id
      BY <1>1, <1>3, <1>8, <3>1, Zenon DEF x
    <3>3. at < at + 1
      BY <1>2
    <3> QED
      BY <3>2, <3>3, Zenon
  <2> QED
    BY <2>1, <2>2
<1>9. /\ WrapsIn(job.outer)' <= 1 /\ \A s \in DOMAIN job'.steps : StackIsWrappedOnce(s)'
  BY <1>5, Zenon DEF LedgerInv, StackIsWrappedOnce, WrapsIn
<1>10. EntersStep => baseline <= Len(ledger')
  BY <1>2, <1>3, <1>6
<1>11. envStack' = ledger'
  OBVIOUS
<1>12. cliPc' # "entering" /\ cliPc' # "steps" /\ cliPc' \notin {"preflight", "record", "report", "done"}
  BY <1>5
<1>13. LedgerInv'
  BY <1>4, <1>5, <1>7, <1>8, <1>9, <1>10, <1>11, <1>12, Zenon DEF LedgerInv
<1> QED
  BY <1>3, <1>13 DEF Ids

\* A shorter ledger still says what it said.
LEMMA LedgerShrinks ==
    ASSUME CliTypes, PhaseInv, CallInv, LedgerInv, Exit
    PROVE  LedgerInv' /\ ledger' \in Seq({e.id : e \in AllEnvs})
<1> DEFINE Ids == {e.id : e \in AllEnvs}
           id == ledger[Len(ledger)]
<1>1. /\ cliPc \in {"unwindStep", "unwind"} /\ cliPc' \in {"unwindStep", "unwind", "exiting"}
      /\ envStack' = ledger' /\ ledger' = SubSeq(ledger, 1, Len(ledger) - 1)
      /\ Len(ledger) > baseline /\ UNCHANGED <<job, stepAt, baseline>>
      /\ cliPc' = "exiting" => scope' = cliPc
  BY ExitIsTaken, Zenon DEF Exit, ApiExit
<1>2. ledger \in Seq(Ids) /\ baseline \in Nat
  BY DEF CliTypes
<1> HIDE DEF Ids
<1>3. /\ ledger' \in Seq(Ids)
      /\ \A k \in DOMAIN ledger' : k \in DOMAIN ledger /\ ledger'[k] = ledger[k]
  <2>1. Len(ledger) > 0
    BY <1>1, <1>2
  <2> QED
    BY <1>1, <1>2, <2>1, Shorter, Zenon
<1>4. ~EntersOuter' /\ ~EntersStep' /\ ~EntersOuter
  BY <1>1 DEF EntersOuter, EntersStep
<1>5. ASSUME NEW k \in DOMAIN ledger', k <= baseline
      PROVE  \E i \in DOMAIN job.outer : ledger'[k] = job.outer[i].id
  <2>1. PICK i \in DOMAIN job.outer : ledger[k] = job.outer[i].id
    BY <1>3, <1>5, Zenon DEF LedgerInv
  <2> QED
    BY <1>3, <2>1, Zenon
<1>6. /\ WrapsIn(job.outer)' <= 1 /\ \A s \in DOMAIN job'.steps : StackIsWrappedOnce(s)'
  BY <1>1, Zenon DEF LedgerInv, StackIsWrappedOnce, WrapsIn
<1>7. cliPc' \notin {"entering", "preflight", "record", "report", "done", "steps"}
  BY <1>1
<1>8. LedgerInv'
  BY <1>1, <1>4, <1>5, <1>6, <1>7, Zenon DEF LedgerInv
<1> QED
  BY <1>3, <1>8 DEF Ids

\* A step that leaves the ledger, the stack and the lists alone.
LEMMA LedgerStays ==
    ASSUME LedgerInv, UNCHANGED <<job, ledger, envStack, baseline>>,
           cliPc # "preflight", cliPc # "entering", cliPc # "done",
           ~EntersOuter', ~EntersStep', cliPc' # "entering", cliPc' # "steps",
           cliPc \in {"record", "report"} \/ cliPc' \notin {"record", "report", "done"},
           cliPc' # "preflight"
    PROVE  LedgerInv'
<1>1. /\ WrapsIn(job.outer)' <= 1 /\ \A s \in DOMAIN job'.steps : StackIsWrappedOnce(s)'
  BY Zenon DEF LedgerInv, StackIsWrappedOnce, WrapsIn
<1>2. envStack' = ledger'
  BY DEF LedgerInv
<1>3. cliPc' \in {"preflight", "record", "report", "done"} => ledger' = <<>>
  BY DEF LedgerInv
<1>4. ASSUME NEW k \in DOMAIN ledger', k <= baseline'
      PROVE  \E i \in DOMAIN job'.outer : ledger'[k] = job'.outer[i].id
  BY <1>4, Zenon DEF LedgerInv
<1> QED
  BY <1>1, <1>2, <1>3, <1>4, Zenon DEF LedgerInv

\* The ledger stays the session's stack, and keeps saying where its
\* environments come from.
LEMMA LedgerStep ==
    ASSUME CliTypes, PhaseInv, CallInv, LedgerInv, CliNext
    PROVE  LedgerInv' /\ ledger' \in Seq({e.id : e \in AllEnvs})
<1> DEFINE Ids == {e.id : e \in AllEnvs}
<1>a. ledger \in Seq(Ids) /\ at \in Nat /\ stepAt \in Nat /\ baseline \in Nat /\ job \in Job
  BY DEF CliTypes
<1>b. Len(ledger) \in Nat /\ DOMAIN ledger = 1..Len(ledger)
  <2> HIDE DEF Ids
  <2> QED
    BY <1>a, LenProperties
<1>1. CASE Preflight
  <2>1. /\ cliPc = "preflight" /\ UNCHANGED <<cliLocal, ledger, envStack>>
        /\ \/ cliPc' = "done"
           \/ /\ cliPc' = "outer" /\ WrapsIn(job.outer) <= 1
              /\ \A s \in DOMAIN job.steps : StackIsWrappedOnce(s)
    BY <1>1, Zenon DEF Preflight
  <2>2. ledger = <<>> /\ envStack = ledger
    BY <2>1 DEF LedgerInv
  <2>3. cliPc' = "outer" => WrapsIn(job.outer)' <= 1 /\ \A s \in DOMAIN job'.steps : StackIsWrappedOnce(s)'
    BY <2>1, Zenon DEF StackIsWrappedOnce, WrapsIn
  <2>4. cliPc' \in {"outer", "done"} /\ ~EntersStep' /\ cliPc' \notin {"entering", "steps"}
    BY <2>1 DEF EntersStep
  <2>5. \A k \in DOMAIN ledger' : FALSE
    BY <2>1, <2>2
  <2>6. LedgerInv'
    BY <2>1, <2>2, <2>3, <2>4, <2>5 DEF LedgerInv
  <2> QED
    BY <2>1, <2>6, <1>a
<1>2. CASE Enter
  <2>1. /\ cliPc \in {"outer", "stepEnvs"} /\ at <= Len(Envs)
        /\ UNCHANGED <<job, scope, stepAt, baseline>>
    BY <1>2, Zenon DEF Enter
  <2>2. at \in DOMAIN Envs
    <3>1. Len(Envs) \in Nat /\ DOMAIN Envs = 1..Len(Envs)
      BY <1>a, <2>1, EnvsFacts, Zenon
    <3> QED
      BY <1>a, <2>1, <3>1 DEF PhaseInv
  <2>3. envStack = ledger /\ scope = cliPc
    BY <2>1 DEF LedgerInv, PhaseInv
  <2>4. /\ envStack' = Append(ledger, Envs[at].id) /\ Envs[at].id \notin OnStack
        /\ \/ ledger' = Append(ledger, Envs[at].id) /\ cliPc' = cliPc /\ at' = at + 1
           \/ ledger' = ledger /\ cliPc' = "entering" /\ at' = at
    BY <1>2, <2>3, EnterIsTaken, Zenon DEF ApiEnter, ApiEnterFails
  <2>5. CASE ledger' = Append(ledger, Envs[at].id) /\ cliPc' = cliPc /\ at' = at + 1
    BY <2>1, <2>2, <2>3, <2>4, <2>5, LedgerGrows, Zenon
  <2>6. CASE ledger' = ledger /\ cliPc' = "entering" /\ at' = at
    <3>1. Envs' = Envs
      BY <2>1, Zenon DEF Envs
    <3>2. ~InLedger(Envs[at].id)
      BY <2>3, <2>4, Zenon DEF InLedger, OnStack
    <3>3. /\ EntersOuter' <=> EntersOuter
          /\ EntersStep' <=> EntersStep
          /\ cliPc \notin {"preflight", "done", "steps"}
      BY <2>1, <2>3, <2>6 DEF EntersOuter, EntersStep
    <3>4. WrapsIn(job.outer)' <= 1 /\ \A s \in DOMAIN job'.steps : StackIsWrappedOnce(s)'
      BY <2>1, <3>3, Zenon DEF LedgerInv, StackIsWrappedOnce, WrapsIn
    <3>5. ~InLedger(Envs[at].id)' /\ envStack' = Append(ledger', Envs'[at'].id)
      BY <2>4, <2>6, <3>1, <3>2, Zenon DEF InLedger
    <3>6. /\ cliPc' = "entering" => ~InLedger(Envs[at].id)'
          /\ cliPc' \notin {"preflight", "record", "report", "done", "steps"}
      BY <2>6, <3>5
    <3>7. \A k \in DOMAIN ledger' : k <= baseline' \/ EntersOuter' \/ cliPc' = "steps" =>
              \E i \in DOMAIN job'.outer : ledger'[k] = job'.outer[i].id /\ (EntersOuter' => i < at')
      BY <2>1, <2>6, <3>3, <3>6, Zenon DEF LedgerInv
    <3>8. EntersStep' => /\ baseline' <= Len(ledger')
                         /\ \A k \in DOMAIN ledger' : k > baseline' =>
                              \E i \in DOMAIN job'.steps[stepAt'].envs :
                                  ledger'[k] = job'.steps[stepAt'].envs[i].id /\ i < at'
      BY <2>1, <2>6, <3>3, Zenon DEF LedgerInv
    <3>9. LedgerInv'
      BY <2>6, <3>4, <3>5, <3>6, <3>7, <3>8, Zenon DEF LedgerInv
    <3> QED
      BY <1>a, <2>6, <3>9, Zenon
  <2> QED
    BY <2>4, <2>5, <2>6, Zenon
<1>3. CASE Entered
  <2>1. /\ cliPc = "entering" /\ cliPc' = scope /\ at' = at + 1 /\ envStack' = envStack
        /\ UNCHANGED <<job, scope, stepAt, baseline>>
        /\ ledger' = IF lastOk' \/ ~InLedger(envStack[Len(envStack)])
                     THEN Append(ledger, envStack[Len(envStack)]) ELSE ledger
    BY <1>3, Zenon DEF Entered, ApiFinish
  <2>2. envStack = Append(ledger, Envs[at].id) /\ at \in DOMAIN Envs /\ ~InLedger(Envs[at].id)
    BY <2>1 DEF LedgerInv, PhaseInv
  <2>3. Envs[at].id \in Ids
    <3>1. Envs[at] \in AllEnvs
      BY <1>a, <2>1, <2>2, EnvsFacts, Zenon
    <3> QED
      BY <3>1
  <2>4. envStack[Len(envStack)] = Envs[at].id
    <3> DEFINE x == Envs[at].id
    <3>1. envStack = Append(ledger, x) /\ x \in Ids
      BY <2>2, <2>3
    <3> HIDE DEF x, Ids
    <3>2. envStack[Len(envStack)] = x
      BY <1>a, <3>1
    <3> QED
      BY <3>2 DEF x
  <2>5. ledger' = Append(ledger, Envs[at].id)
    BY <2>1, <2>2, <2>4, Zenon
  <2> QED
    BY <2>1, <2>2, <2>5, LedgerGrows, Zenon
<1>4. CASE EnvsDone
  <2>1. /\ cliPc \in {"outer", "stepEnvs"} /\ UNCHANGED <<job, scope, stepAt, baseline, ledger, envStack>>
        /\ cliPc' = CASE scope = "outer" -> "steps"
                      [] scope # "outer" /\ sessionFailed -> "unwindStep"
                      [] OTHER -> "tasks"
    BY <1>4, Zenon DEF EnvsDone
  <2>2. CASE scope = "outer"
    <3>1. cliPc' = "steps" /\ EntersOuter /\ ~EntersOuter' /\ ~EntersStep'
      BY <2>1, <2>2 DEF PhaseInv, EntersOuter, EntersStep
    <3>2. envStack' = ledger'
      BY <2>1 DEF LedgerInv
    <3>3. \A k \in DOMAIN ledger' : \E i \in DOMAIN job'.outer : ledger'[k] = job'.outer[i].id
      BY <2>1, <3>1, Zenon DEF LedgerInv
    <3>4. WrapsIn(job.outer)' <= 1 /\ \A s \in DOMAIN job'.steps : StackIsWrappedOnce(s)'
      <4>1. cliPc \notin {"preflight", "done"}
        BY <2>1
      <4> QED
        BY <2>1, <4>1, Zenon DEF LedgerInv, StackIsWrappedOnce, WrapsIn
    <3>5. cliPc' # "entering" /\ cliPc' \notin {"preflight", "record", "report", "done"}
      BY <3>1
    <3>6. LedgerInv'
      BY <3>1, <3>2, <3>3, <3>4, <3>5, Zenon DEF LedgerInv
    <3> QED
      BY <1>a, <2>1, <3>6, Zenon
  <2>3. CASE scope # "outer"
    <3>1. cliPc' \in {"unwindStep", "tasks"}
      BY <2>1, <2>3
    <3>2. ~EntersOuter' /\ ~EntersStep'
      BY <3>1 DEF EntersOuter, EntersStep
    <3>3. LedgerInv'
      BY <2>1, <3>1, <3>2, LedgerStays
    <3> QED
      BY <1>a, <2>1, <3>3, Zenon
  <2> QED
    BY <2>2, <2>3
<1>5. CASE NextStep
  <2>1. cliPc = "steps" /\ UNCHANGED <<job, at, stepAt, ledger, envStack>>
    BY <1>5, Zenon DEF NextStep
  <2>2. /\ envStack' = ledger'
        /\ \A k \in DOMAIN ledger' : \E i \in DOMAIN job'.outer : ledger'[k] = job'.outer[i].id
    BY <2>1, Zenon DEF LedgerInv
  <2>3. WrapsIn(job.outer)' <= 1 /\ \A s \in DOMAIN job'.steps : StackIsWrappedOnce(s)'
    <3>1. cliPc \notin {"preflight", "done"}
      BY <2>1
    <3> QED
      BY <2>1, <3>1, Zenon DEF LedgerInv, StackIsWrappedOnce, WrapsIn
  <2>4. \/ cliPc' = "unwind" /\ baseline' = 0
        \/ cliPc' = "stepEnvs" /\ baseline' = Len(ledger)
    BY <1>5, Zenon DEF NextStep
  <2>5. baseline' <= Len(ledger') /\ (cliPc' = "stepEnvs" => \A k \in DOMAIN ledger' : ~(k > baseline'))
    BY <1>b, <2>1, <2>4
  <2>6. ~EntersOuter' /\ (EntersStep' => cliPc' = "stepEnvs")
        /\ cliPc' \notin {"entering", "preflight", "record", "report", "done"}
    BY <2>4 DEF EntersOuter, EntersStep
  <2>7. LedgerInv'
    BY <2>2, <2>3, <2>5, <2>6, Zenon DEF LedgerInv
  <2> QED
    BY <1>a, <2>1, <2>7, Zenon
<1>6. CASE StartTask \/ TaskReturns \/ TasksDone
  <2>1. /\ cliPc \in {"tasks", "running"} /\ cliPc' \in {"running", "tasks", "unwindStep"}
        /\ UNCHANGED <<job, ledger, envStack, baseline>>
    <3>1. CASE StartTask
      BY <3>1 DEF StartTask, ApiRun, Starts
    <3>2. CASE TaskReturns
      BY <3>2 DEF TaskReturns, ApiFinish
    <3>3. CASE TasksDone
      BY <3>3 DEF TasksDone
    <3> QED
      BY <1>6, <3>1, <3>2, <3>3
  <2>2. ~EntersOuter' /\ ~EntersStep'
    BY <2>1 DEF EntersOuter, EntersStep
  <2>3. LedgerInv'
    BY <2>1, <2>2, LedgerStays
  <2> QED
    BY <1>a, <2>1, <2>3, Zenon
<1>9. CASE Exit
  BY <1>9, LedgerShrinks
<1>10. CASE Exited
  <2>1. /\ cliPc = "exiting" /\ cliPc' \in {"unwindStep", "unwind"}
        /\ UNCHANGED <<job, ledger, envStack, baseline>>
    BY <1>10 DEF Exited, ApiFinish, PhaseInv
  <2>2. ~EntersOuter' /\ ~EntersStep'
    BY <2>1 DEF EntersOuter, EntersStep
  <2>3. LedgerInv'
    BY <2>1, <2>2, LedgerStays
  <2> QED
    BY <1>a, <2>1, <2>3, Zenon
<1>11. CASE Unwound
  <2>1. /\ cliPc \in {"unwindStep", "unwind"} /\ Len(ledger) <= baseline
        /\ UNCHANGED <<job, ledger, envStack>>
        /\ \/ cliPc = "unwind" /\ cliPc' = "record"
           \/ cliPc' = "unwind" /\ baseline' = 0
           \/ cliPc' = "steps" /\ baseline' = baseline
    BY <1>11, Zenon DEF Unwound
  <2>2. envStack' = ledger'
    BY <2>1 DEF LedgerInv
  <2>3. ~EntersOuter' /\ ~EntersStep' /\ cliPc' \notin {"entering", "preflight", "report", "done"}
    BY <2>1 DEF EntersOuter, EntersStep
  <2>4. cliPc' = "record" => ledger' = <<>>
    <3>1. cliPc' = "record" => Len(ledger) = 0
      BY <1>a, <1>b, <2>1 DEF PhaseInv, UnwindsAll
    <3> HIDE DEF Ids
    <3> QED
      BY <1>a, <2>1, <3>1, EmptySeq
  <2>5. \A k \in DOMAIN ledger' : k <= baseline
    BY <1>a, <1>b, <2>1
  <2>6. \A k \in DOMAIN ledger' : \E i \in DOMAIN job'.outer : ledger'[k] = job'.outer[i].id
    BY <2>1, <2>5, Zenon DEF LedgerInv
  <2>7. WrapsIn(job.outer)' <= 1 /\ \A s \in DOMAIN job'.steps : StackIsWrappedOnce(s)'
    <3>1. cliPc \notin {"preflight", "done"}
      BY <2>1
    <3> QED
      BY <2>1, <3>1, Zenon DEF LedgerInv, StackIsWrappedOnce, WrapsIn
  <2>8. cliPc' \in {"preflight", "record", "report", "done"} => ledger' = <<>>
    BY <2>3, <2>4
  <2>9. LedgerInv'
    BY <2>2, <2>3, <2>6, <2>7, <2>8, Zenon DEF LedgerInv
  <2> QED
    BY <1>a, <2>1, <2>9, Zenon
<1>12. CASE RecordInterruption \/ Report
  <2>1. /\ cliPc \in {"record", "report"} /\ cliPc' \in {"report", "done"}
        /\ UNCHANGED <<job, ledger, envStack, baseline>>
    BY <1>12 DEF RecordInterruption, Report, ApiCleanup
  <2>2. ~EntersOuter' /\ ~EntersStep'
    BY <2>1 DEF EntersOuter, EntersStep
  <2>3. LedgerInv'
    BY <2>1, <2>2, LedgerStays
  <2> QED
    BY <1>a, <2>1, <2>3, Zenon
<1>14. CASE StoreInterrupted \/ CancelToken \/ \E ok \in BOOLEAN : ActionEnds(ok)
  <2>1. UNCHANGED <<cliLocal, cliPc, ledger, envStack>>
    BY <1>14, Zenon DEF StoreInterrupted, CancelToken, ActionEnds, ApiDecide, ApiCancelToken
  <2>2. LedgerInv'
    BY <2>1, Zenon DEF LedgerInv, EntersOuter, EntersStep, StackIsWrappedOnce, WrapsIn, Envs, InLedger
  <2> QED
    BY <1>a, <2>1, <2>2, Zenon
<1> QED
  BY <1>1, <1>2, <1>3, <1>4, <1>5, <1>6, <1>9, <1>10, <1>11, <1>12, <1>14,
     Zenon DEF CliNext, CliStep

-----------------------------------------------------------------------------
(* The tasks that ran.                                                     *)

\* What went wrong is never forgotten.
LEMMA CleanBefore ==
    ASSUME CallInv, LedgerInv, PhaseInv, CliTypes, CliNext, Clean'
    PROVE  Clean
<1> USE DEF UnwindsStep, UnwindsAll
<1>1. CASE Enter
  <2>1. ~sessionFailed /\ ~interrupted /\ cliPc \in {"outer", "stepEnvs"}
    BY <1>1, Zenon DEF Enter, Stopping
  <2>2. ~runError
    BY <2>1 DEF CallInv
  <2> QED
    BY <2>1, <2>2 DEF Clean
<1>2. CASE TaskReturns
  <2>1. cliPc = "running" /\ (sessionFailed => sessionFailed') /\ interrupted' = interrupted
    BY <1>2, Zenon DEF TaskReturns
  <2>2. ~runError
    BY <2>1 DEF CallInv
  <2> QED
    BY <2>1, <2>2, Zenon DEF Clean
<1>3. CASE TasksDone
  <2>1. cliPc = "tasks" /\ sessionFailed' = sessionFailed /\ interrupted' = interrupted
    BY <1>3, Zenon DEF TasksDone
  <2>2. ~runError
    BY <2>1 DEF CallInv
  <2> QED
    BY <2>1, <2>2, Zenon DEF Clean
<1>4. CASE StartTask
  <2>1. UNCHANGED <<sessionFailed, runError, interrupted>>
    BY <1>4, StartIsTaken, Zenon DEF StartTask
  <2> QED
    BY <2>1 DEF Clean
<1>5. CASE Exit
  <2>1. UNCHANGED <<sessionFailed, runError, interrupted>>
    BY <1>5, ExitIsTaken, Zenon DEF Exit
  <2> QED
    BY <2>1 DEF Clean
<1>6. CASE Entered \/ Exited \/ RecordInterruption
  <2>1. (sessionFailed => sessionFailed') /\ UNCHANGED <<runError, interrupted>>
    BY <1>6, Zenon DEF Entered, Exited, RecordInterruption
  <2> QED
    BY <2>1 DEF Clean
<1>7. CASE Preflight \/ EnvsDone \/ NextStep \/ Unwound \/ Report
  <2>1. UNCHANGED <<sessionFailed, runError, interrupted>>
    BY <1>7, Zenon DEF Preflight, EnvsDone, NextStep, Unwound, Report
  <2> QED
    BY <2>1 DEF Clean
<1>8. CASE StoreInterrupted \/ CancelToken \/ \E ok \in BOOLEAN : ActionEnds(ok)
  <2>1. UNCHANGED <<sessionFailed, runError>> /\ (interrupted' = TRUE \/ interrupted' = interrupted)
    BY <1>8, Zenon DEF StoreInterrupted, CancelToken, ActionEnds
  <2> QED
    BY <2>1 DEF Clean
<1> QED
  BY <1>1, <1>2, <1>3, <1>4, <1>5, <1>6, <1>7, <1>8, Zenon DEF CliNext, CliStep

\* The plan of the step the command is in.
LEMMA PlanFacts ==
    ASSUME CliTypes, PhaseInv, cliPc \in {"tasks", "running"}
    PROVE  /\ stepAt \in 1..Len(job.steps) /\ stepAt - 1 \in 0..Len(job.steps)
           /\ Plan = job.steps[stepAt].plan
           /\ Plan.kind \in {"single", "space", "explicit", "invalid"}
           /\ Plan.n \in Nat /\ Plan.limit \in Nat /\ PlanSize(Plan) \in Nat
           /\ Planned[stepAt - 1] \in Nat /\ Planned[stepAt] = Planned[stepAt - 1] + PlanSize(Plan)
<1>1. job \in Job /\ stepAt \in 1..Len(job.steps) /\ stepAt - 1 \in 0..Len(job.steps)
  BY JobFacts DEF CliTypes, PhaseInv
<1>2. /\ Plan = job.steps[stepAt].plan
      /\ Plan.kind \in {"single", "space", "explicit", "invalid"}
      /\ Plan.n \in Nat /\ Plan.limit \in Nat
  BY <1>1, JobFacts, Zenon DEF Plan
<1>3. Planned[stepAt - 1] \in Nat /\ Planned[stepAt] = Planned[stepAt - 1] + PlanSize(Plan)
  BY <1>1, <1>2, PlannedIs, Zenon
<1>4. PlanSize(Plan) \in Nat
  BY <1>2, PlanSizeIsNat, Zenon
<1> QED
  BY <1>1, <1>2, <1>3, <1>4, Zenon

\* While nothing went wrong there is another task exactly as long as fewer ran
\* than are planned.
LEMMA MoreTasksCounts ==
    ASSUME CliTypes, PhaseInv, cliPc = "tasks", Clean, Plan.kind # "invalid"
    PROVE  /\ MoreTasks => taskAt < PlanSize(Plan)
           /\ ~MoreTasks /\ taskAt <= PlanSize(Plan) => taskAt = PlanSize(Plan)
<1>1. taskAt \in Nat /\ ~Stopping
  BY DEF CliTypes, Clean, Stopping
<1>2. Plan.kind \in {"single", "space", "explicit"} /\ Plan.n \in Nat /\ Plan.limit \in Nat
  BY PlanFacts
<1> QED
  BY <1>1, <1>2 DEF MoreTasks, PlanSize

\* The count of tasks follows the plans.
LEMMA WorkStep ==
    ASSUME CliTypes, PhaseInv, CallInv, LedgerInv, WorkInv, CliNext
    PROVE  WorkInv' /\ tasksRun' \in Nat
<1> USE DEF EntersOuter, EntersStep, UnwindsStep, UnwindsAll
<1>a. job' = job /\ job \in Job
  BY PhaseStep DEF CliTypes
<1>b. Planned' = Planned
  BY <1>a, Zenon DEF Planned
<1>c. Clean' => Clean
  BY CleanBefore
<1>d. tasksRun \in Nat /\ taskAt \in Nat /\ stepAt \in Nat /\ Len(job.steps) \in Nat
  BY JobFacts DEF CliTypes
<1> HIDE DEF Planned
<1>e. exitCode = 0 => cliPc = "done"
  BY DEF WorkInv
<1>1. CASE Preflight
  <2>1. /\ cliPc = "preflight" /\ cliPc' \in {"outer", "done"} /\ exitCode' \in {1, exitCode}
        /\ UNCHANGED <<scope, stepAt, taskAt, tasksRun>>
    BY <1>1 DEF Preflight
  <2>2. scope = "outer"
    BY <2>1 DEF PhaseInv
  <2> QED
    BY <1>a, <1>b, <1>c, <1>d, <1>e, <2>1, <2>2 DEF WorkInv
<1>2. CASE Enter
  <2>1. /\ cliPc \in {"outer", "stepEnvs"} /\ cliPc' \in {cliPc, "entering"}
        /\ UNCHANGED <<scope, stepAt, taskAt, tasksRun, exitCode>>
    BY <1>2, Zenon DEF Enter
  <2>2. scope = cliPc
    BY <2>1 DEF PhaseInv
  <2> QED
    BY <1>a, <1>b, <1>c, <1>d, <1>e, <2>1, <2>2 DEF WorkInv
<1>3. CASE Entered
  <2>1. /\ cliPc = "entering" /\ cliPc' = scope
        /\ UNCHANGED <<scope, stepAt, taskAt, tasksRun, exitCode>>
    BY <1>3, Zenon DEF Entered
  <2>2. scope \in {"outer", "stepEnvs"}
    BY <2>1 DEF PhaseInv
  <2> QED
    BY <1>a, <1>b, <1>c, <1>d, <1>e, <2>1, <2>2 DEF WorkInv
<1>4. CASE EnvsDone
  <2>1. /\ cliPc \in {"outer", "stepEnvs"}
        /\ UNCHANGED <<scope, stepAt, taskAt, tasksRun, exitCode>>
        /\ \/ scope = "outer" /\ cliPc' = "steps"
           \/ scope # "outer" /\ cliPc' = "unwindStep" /\ sessionFailed
           \/ scope # "outer" /\ cliPc' = "tasks"
    BY <1>4, Zenon DEF EnvsDone
  <2>2. scope = cliPc
    BY <2>1 DEF PhaseInv
  <2>3. cliPc' = "unwindStep" => ~Clean'
    BY <1>c, <2>1, Zenon DEF Clean
  <2>4. cliPc' = "tasks" => /\ EntersStep /\ taskAt = 0 /\ stepAt \in 1..Len(job.steps) /\ stepAt - 1 \in 0..Len(job.steps)
    BY <1>d, <2>1, <2>2 DEF PhaseInv
  <2>5. cliPc' = "tasks" => /\ taskAt = 0 /\ Planned[stepAt - 1] \in Nat /\ PlanSize(job.steps[stepAt].plan) \in Nat
    <3>1. cliPc' = "tasks" => Planned[stepAt - 1] \in Nat
      BY <1>a, <2>4, PlannedIs, Zenon
    <3>2. cliPc' = "tasks" => PlanSize(job.steps[stepAt].plan) \in Nat
      BY <1>a, <2>4, JobFacts, PlanSizeIsNat, Zenon
    <3> QED
      BY <2>4, <3>1, <3>2, Zenon
  <2>6. Clean' /\ cliPc' = "tasks" => tasksRun = Planned[stepAt - 1]
    BY <1>c, <2>1, <2>2, <2>4 DEF WorkInv
  <2>7. Plan' = job.steps[stepAt].plan
    BY <1>a, <2>1, Zenon DEF Plan
  <2>8. cliPc' = "tasks" /\ Clean' => /\ tasksRun' = Planned[stepAt - 1] + taskAt'
                                     /\ taskAt' <= PlanSize(Plan')
    <3> HIDE DEF PlanSize
    <3> QED
      BY <1>d, <2>1, <2>5, <2>6, <2>7
  <2>9. PlanSize(Plan)' = PlanSize(Plan')
    BY Zenon DEF PlanSize
  <2> HIDE DEF PlanSize
  <2> QED
    BY <1>a, <1>b, <1>c, <1>d, <1>e, <2>1, <2>2, <2>3, <2>8, <2>9, SMTT(30) DEF WorkInv
<1>5. CASE NextStep
  <2>1. /\ cliPc = "steps" /\ UNCHANGED <<stepAt, tasksRun, exitCode>>
        /\ \/ cliPc' = "unwind" /\ (stepAt > Len(job.steps) \/ ~Clean)
           \/ cliPc' = "stepEnvs"
    BY <1>5, Zenon DEF NextStep, Stopping, Clean
  <2>2. stepAt > Len(job.steps) => stepAt - 1 = Len(job.steps)
    BY <1>d DEF PhaseInv
  <2> QED
    BY <1>a, <1>b, <1>c, <1>d, <1>e, <2>1, <2>2 DEF WorkInv
<1>6. CASE StartTask
  <2>1. cliPc = "tasks" /\ cliPc' = "running" /\ MoreTasks /\ UNCHANGED <<scope, stepAt, taskAt, tasksRun, exitCode>>
    BY <1>6, StartIsTaken, Zenon DEF StartTask
  <2>2. Plan.kind # "invalid"
    BY <2>1 DEF MoreTasks
  <2>3. Clean => taskAt < PlanSize(Plan)
    BY <2>1, <2>2, MoreTasksCounts
  <2>4. Plan' = Plan /\ PlanSize(Plan)' = PlanSize(Plan)
    BY <1>a, <2>1, Zenon DEF Plan, PlanSize
  <2> HIDE DEF PlanSize
  <2> QED
    BY <1>a, <1>b, <1>c, <1>d, <1>e, <2>1, <2>3, <2>4, SMTT(30) DEF WorkInv
<1>7. CASE TaskReturns
  <2>1. /\ cliPc = "running" /\ UNCHANGED <<scope, stepAt, exitCode>> /\ taskAt' = taskAt + 1
        /\ \/ cliPc' = "unwindStep" /\ runError' /\ tasksRun' = tasksRun
           \/ cliPc' = "tasks" /\ tasksRun' = tasksRun + 1
    <3>1. PICK err \in BOOLEAN :
                 /\ runError' = err
                 /\ tasksRun' = IF err THEN tasksRun ELSE tasksRun + 1
                 /\ cliPc' = IF err THEN "unwindStep" ELSE "tasks"
      BY <1>7, Zenon DEF TaskReturns
    <3>2. cliPc = "running" /\ UNCHANGED <<scope, stepAt, exitCode>> /\ taskAt' = taskAt + 1
      BY <1>7, Zenon DEF TaskReturns
    <3>3. CASE err
      BY <3>1, <3>2, <3>3, Zenon
    <3>4. CASE ~err
      BY <3>1, <3>2, <3>4, Zenon
    <3> QED
      BY <3>3, <3>4, Zenon
  <2>2. cliPc' = "unwindStep" => ~Clean'
    BY <2>1 DEF Clean
  <2>3. Planned[stepAt - 1] \in Nat /\ PlanSize(Plan) \in Nat
    BY <2>1, PlanFacts
  <2>4. Plan' = Plan /\ PlanSize(Plan)' = PlanSize(Plan)
    BY <1>a, <2>1, Zenon DEF Plan, PlanSize
  <2>5. Clean => tasksRun = Planned[stepAt - 1] + taskAt /\ taskAt < PlanSize(Plan)
    BY <2>1 DEF WorkInv
  <2>6. Clean' /\ cliPc' = "tasks" => /\ tasksRun' = Planned[stepAt - 1] + taskAt'
                                     /\ taskAt' <= PlanSize(Plan)
    <3> HIDE DEF PlanSize
    <3> QED
      BY <1>c, <1>d, <2>1, <2>3, <2>5
  <2>7. tasksRun' \in Nat
    BY <1>d, <2>1
  <2> HIDE DEF PlanSize
  <2> QED
    BY <1>a, <1>b, <1>e, <2>1, <2>2, <2>4, <2>6, <2>7, SMTT(30) DEF WorkInv
<1>8. CASE TasksDone
  <2>1. cliPc = "tasks" /\ cliPc' = "unwindStep" /\ ~MoreTasks /\ UNCHANGED <<scope, stepAt, taskAt, tasksRun, exitCode>>
        /\ (Plan.kind = "invalid" => runError')
    BY <1>8, Zenon DEF TasksDone
  <2>2. Clean' => Plan.kind # "invalid"
    BY <2>1 DEF Clean
  <2>3. Clean' => tasksRun = Planned[stepAt - 1] + taskAt /\ taskAt = PlanSize(Plan)
    <3>1. Clean' => tasksRun = Planned[stepAt - 1] + taskAt /\ taskAt <= PlanSize(Plan)
      BY <1>c, <2>1, <2>2 DEF WorkInv
    <3> QED
      BY <1>c, <2>1, <2>2, <3>1, MoreTasksCounts, Zenon
  <2>4. Clean' => tasksRun = Planned[stepAt]
    BY <2>1, <2>3, PlanFacts, Zenon
  <2> QED
    BY <1>a, <1>b, <1>d, <1>e, <2>1, <2>4 DEF WorkInv
<1>9. CASE Exit
  <2>1. /\ cliPc \in {"unwindStep", "unwind"} /\ UNCHANGED <<stepAt, taskAt, tasksRun, exitCode>>
        /\ cliPc' = cliPc \/ (cliPc' = "exiting" /\ scope' = cliPc)
    BY <1>9, ExitIsTaken, Zenon DEF Exit
  <2> QED
    BY <1>a, <1>b, <1>c, <1>d, <1>e, <2>1 DEF WorkInv
<1>10. CASE Exited
  <2>1. cliPc = "exiting" /\ cliPc' = scope /\ UNCHANGED <<stepAt, taskAt, tasksRun, exitCode>>
    BY <1>10, Zenon DEF Exited
  <2>2. scope \in {"unwindStep", "unwind"}
    BY <2>1, SMTT(30) DEF PhaseInv
  <2> QED
    BY <1>a, <1>b, <1>c, <1>d, <1>e, <2>1, <2>2 DEF WorkInv
<1>11. CASE Unwound
  <2>1. /\ cliPc \in {"unwindStep", "unwind"} /\ UNCHANGED <<tasksRun, exitCode, runError>>
        /\ \/ cliPc = "unwind" /\ cliPc' = "record" /\ stepAt' = stepAt
           \/ cliPc = "unwindStep" /\ cliPc' = "unwind" /\ runError
           \/ cliPc = "unwindStep" /\ cliPc' = "steps" /\ stepAt' = stepAt + 1
    BY <1>11, Zenon DEF Unwound
  <2>2. cliPc' = "unwind" => ~Clean'
    BY <1>c, <2>1 DEF Clean
  <2>3. cliPc' = "steps" => stepAt' - 1 = stepAt
    BY <1>d, <2>1
  <2> QED
    BY <1>a, <1>b, <1>c, <1>d, <1>e, <2>1, <2>2, <2>3, SMTT(30) DEF WorkInv
<1>12. CASE RecordInterruption
  <2>1. /\ cliPc = "record" /\ cliPc' = "report" /\ UNCHANGED <<tasksRun, exitCode>>
        /\ ~sessionFailed' /\ ~runError' => Clean
    BY <1>12, Zenon DEF RecordInterruption, Clean
  <2> QED
    BY <1>a, <1>b, <1>d, <1>e, <2>1 DEF WorkInv
<1>13. CASE Report
  <2>1. /\ cliPc = "report" /\ cliPc' = "done" /\ UNCHANGED <<tasksRun, anyBad>>
        /\ exitCode' = IF runError \/ sessionFailed THEN 1 ELSE 0
    BY <1>13, Zenon DEF Report
  <2>2. exitCode' = 0 => ~runError /\ ~sessionFailed
    BY <2>1
  <2>3. exitCode' = 0 => ~anyBad
    BY <2>2 DEF CallInv
  <2> QED
    BY <1>a, <1>b, <1>d, <2>1, <2>2, <2>3 DEF WorkInv
<1>14. CASE StoreInterrupted \/ CancelToken \/ \E ok \in BOOLEAN : ActionEnds(ok)
  <2>1. UNCHANGED <<cliLocal, cliPc, tasksRun, exitCode, sessionFailed, runError, anyBad>>
    BY <1>14, Zenon DEF StoreInterrupted, CancelToken, ActionEnds
  <2>2. Plan' = Plan /\ PlanSize(Plan)' = PlanSize(Plan)
    BY <2>1, Zenon DEF Plan, PlanSize
  <2> HIDE DEF PlanSize
  <2> QED
    BY <1>a, <1>b, <1>c, <1>d, <2>1, <2>2 DEF WorkInv
<1> QED
  BY <1>1, <1>2, <1>3, <1>4, <1>5, <1>6, <1>7, <1>8, <1>9, <1>10, <1>11, <1>12, <1>13, <1>14,
     Zenon DEF CliNext, CliStep

-----------------------------------------------------------------------------
(* The theorems.                                                           *)

\* The command starts in the invariant.
LEMMA CliInvInit == CliInit => CliInv
<1>1. SUFFICES ASSUME CliInit PROVE CliInv
  OBVIOUS
<1>2. /\ job \in Job /\ ledger = <<>> /\ envStack = <<>>
      /\ cliPc = "preflight" /\ scope = "outer" /\ at = 1 /\ stepAt = 1 /\ taskAt = 0
      /\ baseline = 0 /\ tasksRun = 0 /\ exitCode = 2
      /\ sessState = "Ready" /\ sessEnding = FALSE
      /\ runError = FALSE /\ anyBad = FALSE /\ rejected = FALSE
  BY <1>1, Zenon DEF CliInit, ApiInit
<1>3. Len(job.steps) \in Nat /\ Planned[0] = 0
  BY <1>2, JobFacts, PlannedIs
<1>4. CliTypes
  BY <1>2 DEF CliTypes
<1>5. PhaseInv
  BY <1>2, <1>3 DEF PhaseInv, EntersOuter, EntersStep, UnwindsStep, UnwindsAll
<1>6. CallInv
  BY <1>2 DEF CallInv
<1>7. LedgerInv
  BY <1>2 DEF LedgerInv, EntersOuter, EntersStep
<1>8. WorkInv
  <2> HIDE DEF Planned
  <2>1. stepAt - 1 = 0
    BY <1>2
  <2> QED
    BY <1>2, <1>3, <2>1 DEF WorkInv, UnwindsStep, UnwindsAll
<1> QED
  BY <1>4, <1>5, <1>6, <1>7, <1>8 DEF CliInv

\* Every step, and every stutter, keeps the invariant.
LEMMA CliInvStep ==
    ASSUME CliInv, [CliNext]_cliVars
    PROVE  CliInv'
<1>1. CliTypes /\ PhaseInv /\ CallInv /\ LedgerInv /\ WorkInv
  BY Zenon DEF CliInv
<1>2. CASE CliNext
  <2>1. PhaseInv' /\ job' = job /\ at' \in Nat /\ stepAt' \in Nat /\ taskAt' \in Nat
    BY <1>1, <1>2, PhaseStep, Zenon DEF CliTypes
  <2>2. CallInv'
    BY <1>1, <1>2, CallStep, Zenon
  <2>3. LedgerInv' /\ ledger' \in Seq({e.id : e \in AllEnvs})
    BY <1>1, <1>2, LedgerStep, Zenon
  <2>4. WorkInv' /\ tasksRun' \in Nat
    BY <1>1, <1>2, WorkStep, Zenon
  <2>5. baseline' \in Nat
    <3>1. baseline' \in {0, baseline, Len(ledger)}
      BY <1>2, Zenon DEF CliNext, CliStep, Preflight, Enter, Entered, EnvsDone, NextStep, StartTask,
         TaskReturns, TasksDone, Exit, Exited, Unwound, RecordInterruption, Report, StoreInterrupted,
         CancelToken, ActionEnds
    <3>2. baseline \in Nat /\ Len(ledger) \in Nat
      BY <1>1, LenProperties DEF CliTypes
    <3> QED
      BY <3>1, <3>2
  <2>6. AllEnvs' = AllEnvs
    BY <2>1, Zenon DEF AllEnvs
  <2>7. CliTypes'
    BY <1>1, <2>1, <2>3, <2>4, <2>5, <2>6, Zenon DEF CliTypes
  <2> QED
    BY <2>1, <2>2, <2>3, <2>4, <2>7, Zenon DEF CliInv
<1>3. CASE UNCHANGED cliVars
  <2>1. UNCHANGED <<cliLocal, cliPc, ledger, sessionFailed, interrupted, tasksRun, runError, exitCode,
                    anyBad, rejected, sessState, envStack, sessEnding>>
    BY <1>3, Zenon DEF cliVars
  <2>2. AllEnvs' = AllEnvs /\ Envs' = Envs /\ Plan' = Plan /\ Planned' = Planned /\ PlanSize(Plan)' = PlanSize(Plan)
    <3>1. job' = job /\ scope' = scope /\ stepAt' = stepAt
      BY <2>1, Zenon DEF cliLocal
    <3>2. AllEnvs' = AllEnvs /\ Envs' = Envs /\ Plan' = Plan
      BY <3>1, Zenon DEF AllEnvs, Envs, Plan
    <3>3. Planned' = Planned
      BY <3>1, Zenon DEF Planned
    <3> QED
      BY <3>2, <3>3, Zenon
  <2>3. /\ EntersOuter' <=> EntersOuter
        /\ EntersStep' <=> EntersStep
        /\ UnwindsStep' <=> UnwindsStep
        /\ UnwindsAll' <=> UnwindsAll
    BY <2>1, Zenon DEF EntersOuter, EntersStep, UnwindsStep, UnwindsAll
  <2>4. CliTypes' /\ PhaseInv'
    BY <1>1, <2>1, <2>2, <2>3, Zenon DEF CliTypes, PhaseInv
  <2>5. CallInv'
    BY <1>1, <2>1, <2>3 DEF CallInv
  <2>6. LedgerInv'
    BY <1>1, <2>1, <2>2, <2>3, Zenon DEF LedgerInv, InLedger, StackIsWrappedOnce, WrapsIn
  <2>7. WorkInv'
    <3>1. Clean' <=> Clean
      BY <2>1 DEF Clean
    <3> HIDE DEF Planned, PlanSize
    <3> QED
      BY <1>1, <2>1, <2>2, <2>3, <3>1 DEF WorkInv
  <2> QED
    BY <2>4, <2>5, <2>6, <2>7, Zenon DEF CliInv
<1> QED
  BY <1>2, <1>3

\* The invariant says what RunIsAccountable promises.
LEMMA CliInvIsEnough == CliInv => RunIsAccountable
<1>1. SUFFICES ASSUME CliInv PROVE RunIsAccountable
  OBVIOUS
<1>2. LedgerMatchesSession
  BY <1>1 DEF CliInv, LedgerInv, LedgerMatchesSession
<1>3. SuccessIsComplete
  BY <1>1, Zenon DEF CliInv, WorkInv, SuccessIsComplete
<1>4. SessionNeverRefuses
  BY <1>1, Zenon DEF CliInv, CallInv, SessionNeverRefuses
<1> QED
  BY <1>2, <1>3, <1>4, Zenon DEF RunIsAccountable

\* The invariant holds in every reachable state of the command.
THEOREM CliInvHolds == CliSpec => []CliInv
  BY CliInvInit, CliInvStep, PTL DEF CliSpec

\* For every job, in every interleaving of the command, its actions and the
\* signal handler: the ledger of RunContext is the session's stack of
\* environments and everything is exited when the command ends, exit code 0
\* means that every action succeeded and every planned task ran, and the session
\* refuses none of the command's calls (run/mod.rs, run/execution.rs).
THEOREM RunIsAlwaysAccountable == CliSpec => []RunIsAccountable
  BY CliInvHolds, CliInvIsEnough, PTL
=============================================================================
