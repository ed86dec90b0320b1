--------------------------- MODULE TopoSortProofs ---------------------------
(***************************************************************************)
(* Proofs about the depth-first sort of TopoSort, for every dependency     *)
(* graph: what it puts into the result is in order, and it reports a cycle *)
(* exactly when there is one.                                              *)
(***************************************************************************)
EXTENDS TopoSort, FiniteSetTheorems, SequenceTheorems, WellFoundedInduction, TLAPS

TopoSpec == TopoInit /\ [][TopoNext]_topoVars

\* The values of the search's fields.
SearchTypes ==
    /\ Steps \subseteq Int /\ \A s \in Steps : deps[s] \in Seq(Steps)
    /\ topoPc \in {"validate", "sort", "sorted", "cycle"}
    /\ mark \in [Steps -> 0..2] /\ stack \in Seq(Steps) /\ order \in Seq(Steps)

\* The result holds the completed steps.
CompletedInv == \A s \in Steps : mark[s] = 2 <=> \E i \in DOMAIN order : order[i] = s

\* The entry through which a started step was visited: the topmost one for it.
Active(p) == mark[stack[p]] = 1 /\ \A q \in DOMAIN stack : q > p => stack[q] # stack[p]

\* A started step was visited through an entry of the stack.
StartedInv ==
    /\ topoPc = "validate" => stack = <<>> /\ \A s \in Steps : mark[s] = 0
    /\ topoPc = "sort" =>
         \A s \in Steps : mark[s] = 1 => \E p \in DOMAIN stack : stack[p] = s /\ Active(p)
    /\ topoPc = "sorted" => \A s \in Steps : mark[s] = 2

\* What a started step depends on is completed or stands above every entry for it.
AboveInv ==
    topoPc = "sort" =>
        \A i \in DOMAIN stack : mark[stack[i]] = 1 =>
            \A d \in DepSet(stack[i]) : mark[d] = 2 \/ \E j \in DOMAIN stack : j > i /\ stack[j] = d

\* An entry was pushed by the nearest active entry below it.
PushedInv ==
    topoPc = "sort" =>
        \A p \in DOMAIN stack : p > 1 =>
            \E q \in DOMAIN stack :
                /\ q < p /\ Active(q) /\ stack[p] \in DepSet(stack[q])
                /\ \A r \in DOMAIN stack : q < r /\ r < p => ~Active(r)

SearchInv ==
    /\ SearchTypes /\ CompletedInv /\ StartedInv /\ AboveInv /\ PushedInv
    /\ OrderRespectsDependencies
    /\ topoPc = "cycle" => Cyclic

\* The root of the search comes first in the template among the steps that are
\* not completed, and it needs everything that is on the stack.
RootInv ==
    topoPc = "sort" /\ stack # <<>> =>
        /\ \A s \in Steps : s < stack[1] => mark[s] = 2
        /\ \A p \in DOMAIN stack : p > 1 => stack[p] \in Needs(stack[1])

\* TemplateStable, at every moment of the search.
StableInv ==
    \A i \in DOMAIN order, s \in Steps :
        s < order[i] /\ (\A j \in 1..i : order[j] # s) =>
            \E u \in Steps : u <= s /\ order[i] \in Needs(u)

\* Everything in the set is depended on by something in the set.
PredClosed(T) == \A t \in T : \E u \in T : DependsOn(u, t)

\* D: the steps taken off the queue.  A step is taken off after everything that
\* depends on it, so no cycle is entered.
Counting(D) ==
    /\ D \subseteq Steps /\ counted = Cardinality(D)
    /\ inDegree \in [Steps -> Nat]
    /\ \A t \in Steps : inDegree[t] = Cardinality({u \in Steps \ D : DependsOn(u, t)})
    /\ \A t \in Steps : t \in queue <=> t \notin D /\ inDegree[t] = 0
    /\ queue \subseteq Steps
    /\ \A t \in D : inDegree[t] = 0
    /\ \A T \in SUBSET Steps : PredClosed(T) => T \cap D = {}

KahnInv ==
    /\ IsFiniteSet(Steps)
    /\ topoPc = "validate" => \E D \in SUBSET Steps : Counting(D)
    /\ topoPc # "validate" => (accepted <=> ~Cyclic)

\* What is common to the steps that touch neither the stack nor the marks.
LEMMA KahnFrame == KahnPop \/ KahnEnd => UNCHANGED <<deps, mark, stack, order>> /\ topoPc = "validate"
BY DEF KahnPop, KahnEnd

\* The dependencies stay what they are.
LEMMA DepsFrame ==
    ASSUME UNCHANGED deps
    PROVE  Steps' = Steps /\ \A s : DepSet(s)' = DepSet(s)
BY DEF Steps, DepSet

\* What a step depends on is a finite set of steps.
LEMMA DepsAreSteps ==
    ASSUME SearchTypes, NEW s \in Steps
    PROVE  DepSet(s) \subseteq Steps /\ IsFiniteSet(DepSet(s))
<1>1. deps[s] \in Seq(Steps)
  BY DEF SearchTypes
<1>2. DOMAIN deps[s] = 1..Len(deps[s]) /\ Len(deps[s]) \in Nat
  BY <1>1
<1>3. IsFiniteSet(DOMAIN deps[s])
  BY <1>2, FS_Interval
<1>4. deps[s] \in Surjection(DOMAIN deps[s], DepSet(s))
  BY <1>1, <1>2 DEF DepSet, Surjection
<1>5. DepSet(s) \subseteq Steps
  BY <1>1 DEF DepSet
<1> QED
  BY <1>3, <1>4, <1>5, FS_Surjection

\* The step on top of the stack, and the stack without it.
LEMMA TopOf ==
    ASSUME SearchTypes, stack # <<>>
    PROVE  /\ Len(stack) \in DOMAIN stack /\ Top \in Steps /\ Top = stack[Len(stack)]
           /\ Pop \in Seq(Steps) /\ DOMAIN Pop = DOMAIN stack \ {Len(stack)}
           /\ \A i \in DOMAIN Pop : Pop[i] = stack[i]
           /\ DOMAIN stack = 1..Len(stack) /\ Len(stack) \in Nat
BY DEF SearchTypes, Top, Pop

\* A first visit: the unvisited dependencies go on top of the stack, or one of
\* the dependencies is started already.
LEMMA VisitFrame ==
    ASSUME SearchTypes, Visit
    PROVE  /\ stack # <<>> /\ mark[Top] = 0 /\ topoPc = "sort"
           /\ mark' = [mark EXCEPT ![Top] = 1]
           /\ UNCHANGED <<deps, order>>
           /\ \/ /\ topoPc' = "cycle" /\ stack' = stack /\ \E d \in DepSet(Top) : mark'[d] = 1
              \/ /\ topoPc' = "sort" /\ \A d \in DepSet(Top) : mark'[d] # 1
                 /\ stack' \in Seq(Steps) /\ Len(stack') >= Len(stack)
                 /\ \A i \in DOMAIN stack : i \in DOMAIN stack' /\ stack'[i] = stack[i]
                 /\ \A i \in DOMAIN stack' : i > Len(stack) =>
                       stack'[i] \in DepSet(Top) /\ mark'[stack'[i]] = 0
                 /\ \A d \in DepSet(Top) : mark'[d] = 0 =>
                       \E i \in DOMAIN stack' : i > Len(stack) /\ stack'[i] = d
<1>1. /\ stack # <<>> /\ mark[Top] = 0 /\ topoPc = "sort"
      /\ mark' = [mark EXCEPT ![Top] = 1]
      /\ UNCHANGED <<deps, order>>
  BY DEF Visit
<1>2. CASE \E d \in DepSet(Top) : mark'[d] = 1
  BY <1>1, <1>2 DEF Visit
<1>3. CASE ~ \E d \in DepSet(Top) : mark'[d] = 1
  <2> DEFINE S == {d \in DepSet(Top) : mark'[d] = 0}
  <2>1. topoPc' = "sort"
    BY <1>1, <1>3 DEF Visit
  <2>2. PICK q \in Descending(S) : stack' = stack \o q
    BY <1>3, Zenon DEF Visit
  <2>3. q \in [1..Cardinality(S) -> S] /\ \A s \in S : \E i \in DOMAIN q : q[i] = s
    BY <2>2, Zenon DEF Descending
  <2>4. Top \in Steps /\ S \subseteq Steps
    BY <1>1, TopOf, DepsAreSteps
  <2>5. Cardinality(S) \in Nat
    BY <1>1, TopOf, DepsAreSteps, FS_Subset, FS_CardinalityType
  <2>6. q \in Seq(Steps) /\ Len(q) = Cardinality(S) /\ DOMAIN q = 1..Len(q)
    <3>1. q \in [1..Cardinality(S) -> Steps]
      BY <2>3, <2>4
    <3> HIDE DEF S
    <3>2. q \in Seq(Steps)
      BY <2>5, <3>1, SeqDef
    <3> QED
      BY <2>5, <3>1, <3>2, LenProperties
  <2>7. /\ stack' \in Seq(Steps) /\ Len(stack') = Len(stack) + Len(q)
        /\ \A i \in DOMAIN stack : i \in DOMAIN stack' /\ stack'[i] = stack[i]
        /\ \A i \in DOMAIN stack' : i > Len(stack) => i - Len(stack) \in DOMAIN q /\ stack'[i] = q[i - Len(stack)]
        /\ \A i \in DOMAIN q : Len(stack) + i \in DOMAIN stack' /\ stack'[Len(stack) + i] = q[i]
    <3> HIDE DEF S
    <3>1. stack \in Seq(Steps)
      BY DEF SearchTypes
    <3>2. /\ stack' \in Seq(Steps) /\ Len(stack') = Len(stack) + Len(q)
          /\ \A i \in 1..(Len(stack) + Len(q)) :
                stack'[i] = IF i <= Len(stack) THEN stack[i] ELSE q[i - Len(stack)]
      BY <2>2, <2>6, <3>1, ConcatProperties, Zenon
    <3>3. /\ DOMAIN stack' = 1..(Len(stack) + Len(q)) /\ DOMAIN stack = 1..Len(stack)
          /\ Len(stack) \in Nat /\ Len(q) \in Nat
      BY <2>6, <3>1, <3>2, LenProperties
    <3> QED
      BY <2>6, <3>2, <3>3
  <2>8. \A d \in S : \E i \in DOMAIN stack' : i > Len(stack) /\ stack'[i] = d
    <3>1. Len(stack) \in Nat
      BY DEF SearchTypes
    <3> SUFFICES ASSUME NEW d \in S PROVE \E i \in DOMAIN stack' : i > Len(stack) /\ stack'[i] = d
      OBVIOUS
    <3>2. PICK i \in DOMAIN q : q[i] = d
      BY <2>3
    <3>3. Len(stack) + i > Len(stack)
      BY <2>6, <3>1
    <3> QED
      BY <2>7, <3>2, <3>3
  <2>9. \A i \in DOMAIN stack' : i > Len(stack) => stack'[i] \in S
    <3> HIDE DEF S
    <3>1. \A j \in DOMAIN q : q[j] \in S
      BY <2>3
    <3> QED
      BY <2>7, <3>1, Zenon
  <2>10. Len(stack') >= Len(stack)
    BY <2>6, <2>7 DEF SearchTypes
  <2>11. \A d \in DepSet(Top) : mark'[d] # 1
    BY <1>3
  <2> QED
    BY <1>1, <2>1, <2>7, <2>8, <2>9, <2>10, <2>11, Zenon
<1> QED
  BY <1>2, <1>3

\* The fields keep their types.
LEMMA TypesStep == SearchTypes /\ TopoNext => SearchTypes'
<1> SUFFICES ASSUME SearchTypes, TopoNext PROVE SearchTypes'
  OBVIOUS
<1>0. UNCHANGED deps
  BY DEF TopoNext, KahnPop, KahnEnd, StartRoot, SortDone, PopCompleted, Complete, Visit
<1>1. Steps' = Steps /\ \A s \in Steps : deps'[s] \in Seq(Steps)
  BY <1>0, DepsFrame DEF SearchTypes
<1>2. CASE KahnPop
  BY <1>1, <1>2 DEF SearchTypes, KahnPop
<1>3. CASE KahnEnd
  BY <1>1, <1>3 DEF SearchTypes, KahnEnd
<1>4. CASE StartRoot
  BY <1>1, <1>4 DEF SearchTypes, StartRoot
<1>5. CASE SortDone
  BY <1>1, <1>5 DEF SearchTypes, SortDone, searchVars
<1>6. CASE PopCompleted
  BY <1>1, <1>6, TopOf DEF SearchTypes, PopCompleted
<1>7. CASE Complete
  BY <1>1, <1>7, TopOf DEF SearchTypes, Complete
<1>8. CASE Visit
  <2>1. Top \in Steps
    BY <1>8, TopOf, VisitFrame
  <2> QED
    BY <1>1, <1>8, <2>1, VisitFrame DEF SearchTypes
<1> QED
  BY <1>2, <1>3, <1>4, <1>5, <1>6, <1>7, <1>8 DEF TopoNext

\* Popping the top entry, whose step is completed then, keeps what is known of
\* the entries below it.
LEMMA PopKeeps ==
    ASSUME SearchTypes, StartedInv, AboveInv, PushedInv,
           topoPc = "sort", stack # <<>>, stack' = Pop, UNCHANGED <<deps, topoPc>>,
           mark[Top] # 0, mark' = [mark EXCEPT ![Top] = 2]
    PROVE  StartedInv' /\ AboveInv' /\ PushedInv'
<1> DEFINE n == Len(stack)
<1>1. /\ n \in DOMAIN stack /\ Top \in Steps /\ Top = stack[n]
      /\ DOMAIN stack' = DOMAIN stack \ {n}
      /\ \A i \in DOMAIN stack' : stack'[i] = stack[i] /\ i \in DOMAIN stack /\ i # n /\ i < n
      /\ DOMAIN stack \subseteq Nat /\ n \in Nat /\ \A i \in DOMAIN stack : i <= n /\ stack[i] \in Steps
  BY TopOf DEF SearchTypes
<1>2. Steps' = Steps /\ \A s : DepSet(s)' = DepSet(s)
  BY DepsFrame
<1>3. \A s \in Steps : mark'[s] = IF s = Top THEN 2 ELSE mark[s]
  BY <1>1 DEF SearchTypes
<1> HIDE DEF n
<1>4. \A p \in DOMAIN stack' : Active(p)' <=> Active(p)
  BY <1>1, <1>3 DEF Active
<1>5. StartedInv'
  <2> SUFFICES ASSUME NEW s \in Steps, mark'[s] = 1
               PROVE  \E p \in DOMAIN stack' : stack'[p] = s /\ Active(p)'
    BY <1>2 DEF StartedInv
  <2>1. PICK p \in DOMAIN stack : stack[p] = s /\ Active(p)
    BY <1>3 DEF StartedInv
  <2>2. s # Top
    BY <1>3
  <2> QED
    BY <1>1, <1>4, <2>1, <2>2
<1>6. AboveInv'
  <2> SUFFICES ASSUME NEW i \in DOMAIN stack', mark'[stack'[i]] = 1, NEW d \in DepSet(stack[i])
               PROVE  mark'[d] = 2 \/ \E j \in DOMAIN stack' : j > i /\ stack'[j] = d
    BY <1>1, <1>2 DEF AboveInv
  <2>1. i \in DOMAIN stack /\ stack[i] \in Steps /\ mark[stack[i]] = 1
    BY <1>1, <1>3
  <2>2. d \in Steps
    BY <2>1, DepsAreSteps
  <2>3. mark[d] = 2 \/ \E j \in DOMAIN stack : j > i /\ stack[j] = d
    BY <2>1 DEF AboveInv
  <2> QED
    BY <1>1, <1>3, <2>2, <2>3
<1>7. PushedInv'
  <2> SUFFICES ASSUME NEW p \in DOMAIN stack', p > 1
               PROVE  \E q \in DOMAIN stack' :
                        /\ q < p /\ Active(q)' /\ stack'[p] \in DepSet(stack'[q])
                        /\ \A r \in DOMAIN stack' : q < r /\ r < p => ~Active(r)'
    BY <1>2 DEF PushedInv
  <2>1. PICK q \in DOMAIN stack :
            /\ q < p /\ Active(q) /\ stack[p] \in DepSet(stack[q])
            /\ \A r \in DOMAIN stack : q < r /\ r < p => ~Active(r)
    BY <1>1 DEF PushedInv
  <2>2. q \in DOMAIN stack'
    BY <1>1, <2>1
  <2> QED
    BY <1>1, <1>4, <2>1, <2>2
<1> QED
  BY <1>5, <1>6, <1>7

\* A visit makes its entry active, and what it pushes is what its step lacks.
LEMMA VisitKeeps ==
    ASSUME SearchTypes, StartedInv, AboveInv, PushedInv, Visit, topoPc' = "sort"
    PROVE  StartedInv' /\ AboveInv' /\ PushedInv'
<1>0. PICK n \in Nat : n = Len(stack)
  BY DEF SearchTypes
<1>1. /\ n \in DOMAIN stack /\ Top \in Steps /\ Top = stack[n] /\ mark[Top] = 0
      /\ DOMAIN stack \subseteq Nat /\ n \in Nat /\ \A i \in DOMAIN stack : i <= n /\ stack[i] \in Steps
      /\ \A i \in Nat : i >= 1 /\ i <= n => i \in DOMAIN stack
  BY <1>0, TopOf, VisitFrame DEF SearchTypes
<1>2. Steps' = Steps /\ \A s : DepSet(s)' = DepSet(s)
  BY DepsFrame, VisitFrame
<1>3. \A s \in Steps : mark'[s] = IF s = Top THEN 1 ELSE mark[s]
  BY <1>1, VisitFrame DEF SearchTypes
<1>4. /\ \A d \in DepSet(Top) : mark'[d] # 1
      /\ \A i \in DOMAIN stack : i \in DOMAIN stack' /\ stack'[i] = stack[i]
      /\ \A i \in DOMAIN stack' : i > n => stack'[i] \in DepSet(Top) /\ mark'[stack'[i]] = 0
      /\ \A d \in DepSet(Top) : mark'[d] = 0 => \E i \in DOMAIN stack' : i > n /\ stack'[i] = d
      /\ stack' \in Seq(Steps) /\ topoPc = "sort"
  BY <1>0, VisitFrame
<1>5. DOMAIN stack' \subseteq Nat /\ \A i \in DOMAIN stack' : i >= 1 /\ stack'[i] \in Steps
  BY <1>4
<1>6. \A d \in DepSet(Top) : d \in Steps /\ mark'[d] \in {0, 2}
  <2>1. DepSet(Top) \subseteq Steps
    BY <1>1, DepsAreSteps
  <2>2. \A d \in Steps : mark[d] \in 0..2
    BY DEF SearchTypes
  <2> QED
    BY <1>3, <1>4, <2>1, <2>2
<1>7. \A i \in DOMAIN stack' : i <= n => i \in DOMAIN stack
  BY <1>1, <1>5
<1>8. Active(n)' /\ \A p \in DOMAIN stack : p # n => (Active(p)' <=> Active(p))
  BY <1>1, <1>3, <1>4, <1>5, <1>7 DEF Active
<1>9. \A p \in DOMAIN stack' : p > n => ~Active(p)'
  BY <1>4 DEF Active
<1>10. StartedInv'
  <2> SUFFICES ASSUME NEW s \in Steps, mark'[s] = 1
               PROVE  \E p \in DOMAIN stack' : stack'[p] = s /\ Active(p)'
    BY <1>2 DEF StartedInv
  <2>1. CASE s = Top
    BY <1>1, <1>4, <1>8, <2>1
  <2>2. CASE s # Top
    <3>1. PICK p \in DOMAIN stack : stack[p] = s /\ Active(p)
      BY <1>3, <1>4, <2>2 DEF StartedInv
    <3> QED
      BY <1>1, <1>4, <1>8, <2>2, <3>1
  <2> QED
    BY <2>1, <2>2
<1>11. AboveInv'
  <2> SUFFICES ASSUME NEW i \in DOMAIN stack', mark'[stack'[i]] = 1, NEW d \in DepSet(stack'[i])
               PROVE  mark'[d] = 2 \/ \E j \in DOMAIN stack' : j > i /\ stack'[j] = d
    BY <1>2 DEF AboveInv
  <2>1. i \in DOMAIN stack /\ stack'[i] = stack[i] /\ stack[i] \in Steps /\ i <= n
    BY <1>1, <1>4, <1>5, <1>7
  <2>2. CASE stack[i] = Top
    BY <1>1, <1>4, <1>5, <1>6, <2>1, <2>2
  <2>3. CASE stack[i] # Top
    <3>1. mark[stack[i]] = 1
      BY <1>3, <2>1, <2>3
    <3>2. mark[d] = 2 \/ \E j \in DOMAIN stack : j > i /\ stack[j] = d
      BY <1>4, <2>1, <3>1 DEF AboveInv
    <3>3. d \in Steps
      BY <2>1, DepsAreSteps
    <3> QED
      BY <1>1, <1>3, <1>4, <3>2, <3>3
  <2> QED
    BY <2>2, <2>3
<1>12. PushedInv'
  <2> SUFFICES ASSUME NEW p \in DOMAIN stack', p > 1
               PROVE  \E q \in DOMAIN stack' :
                        /\ q < p /\ Active(q)' /\ stack'[p] \in DepSet(stack'[q])
                        /\ \A r \in DOMAIN stack' : q < r /\ r < p => ~Active(r)'
    BY <1>2 DEF PushedInv
  <2>1. CASE p > n
    BY <1>1, <1>4, <1>8, <1>9, <2>1
  <2>2. CASE ~ (p > n)
    <3>0. p <= n /\ p \in DOMAIN stack
      BY <1>1, <1>5, <1>7, <2>2
    <3>1. PICK q \in DOMAIN stack :
            /\ q < p /\ Active(q) /\ stack[p] \in DepSet(stack[q])
            /\ \A r \in DOMAIN stack : q < r /\ r < p => ~Active(r)
      BY <1>4, <3>0 DEF PushedInv
    <3>2. q # n /\ Active(q)' /\ q \in DOMAIN stack' /\ stack'[p] \in DepSet(stack'[q])
      BY <1>1, <1>4, <1>8, <3>0, <3>1
    <3>3. \A r \in DOMAIN stack' : q < r /\ r < p => ~Active(r)'
      BY <1>1, <1>5, <1>7, <1>8, <3>0, <3>1
    <3> QED
      BY <3>1, <3>2, <3>3
  <2> QED
    BY <2>1, <2>2
<1> QED
  BY <1>10, <1>11, <1>12

\* A nonempty set of natural numbers has a least element.
LEMMA LeastOf ==
    ASSUME NEW T, T \subseteq Nat, T # {}
    PROVE  \E x \in T : \A y \in T : x <= y
<1>1. PICK x \in T : \A y \in T : ~ (<<y, x>> \in OpToRel(<, Nat))
  BY WFMin, NatLessThanWellFounded, Zenon
<1>2. \A y \in T : ~ (y < x)
  BY <1>1, Zenon DEF OpToRel
<1> QED
  BY <1>2

\* A started dependency closes a cycle: from its entry up to the top, each active
\* entry depends on the next one.
LEMMA CycleIsReal ==
    ASSUME SearchTypes, StartedInv, PushedInv, Visit, topoPc' = "cycle"
    PROVE  Cyclic
<1>1. /\ Len(stack) \in DOMAIN stack /\ Top \in Steps /\ Top = stack[Len(stack)] /\ mark[Top] = 0
      /\ DOMAIN stack \subseteq Nat /\ \A i \in DOMAIN stack : i >= 1 /\ i <= Len(stack) /\ stack[i] \in Steps
      /\ topoPc = "sort"
  BY TopOf, VisitFrame DEF SearchTypes
<1>2. PICK d \in DepSet(Top) : mark'[d] = 1
  BY VisitFrame
<1>3. d \in Steps /\ (d = Top \/ mark[d] = 1)
  BY <1>1, <1>2, DepsAreSteps, VisitFrame, Zenon DEF SearchTypes
<1>4. CASE d = Top
  <2>1. {Top} \in SUBSET Steps /\ \A s \in {Top} : \E t \in {Top} : DependsOn(s, t)
    BY <1>1, <1>4 DEF DependsOn
  <2> QED
    BY <2>1, Zenon DEF Cyclic
<1>5. CASE mark[d] = 1
  <2> DEFINE n == Len(stack)
  <2>1. PICK a \in DOMAIN stack : stack[a] = d /\ Active(a)
    BY <1>1, <1>3, <1>5 DEF StartedInv
  <2> DEFINE P == {p \in DOMAIN stack : p >= a /\ (Active(p) \/ p = n)}
             S == {stack[p] : p \in P}
  <2>2. ASSUME NEW p \in DOMAIN stack, p >= a, Active(p)
        PROVE  \E t \in S : DependsOn(stack[p], t)
    <3> DEFINE T == {r \in P : r > p}
    <3>1. p # n
      BY <1>1, <2>2 DEF Active
    <3>2. n \in T /\ T \subseteq Nat
      BY <1>1, <2>2, <3>1
    <3>3. PICK r \in T : \A y \in T : r <= y
      BY <3>2, LeastOf, Zenon
    <3>4. r \in DOMAIN stack /\ r > p /\ r > 1 /\ stack[r] \in S
      BY <1>1, <3>3
    <3>5. PICK q \in DOMAIN stack :
            /\ q < r /\ Active(q) /\ stack[r] \in DepSet(stack[q])
            /\ \A u \in DOMAIN stack : q < u /\ u < r => ~Active(u)
      BY <1>1, <3>4 DEF PushedInv
    <3>6. ~ (q < p)
      BY <2>2, <3>4, <3>5
    <3>7. ~ (q > p)
      <4> SUFFICES ASSUME q > p PROVE FALSE
        OBVIOUS
      <4>1. q \in T
        BY <1>1, <2>2, <3>5
      <4> QED
        BY <1>1, <3>3, <3>4, <3>5, <4>1
    <3>8. q = p
      BY <1>1, <3>6, <3>7
    <3> QED
      BY <3>4, <3>5, <3>8 DEF DependsOn
  <2>3. \E t \in S : DependsOn(Top, t)
    BY <1>1, <1>2, <2>1 DEF DependsOn
  <2>4. \A s \in S : \E t \in S : DependsOn(s, t)
    BY <1>1, <2>2, <2>3
  <2>5. S \in SUBSET Steps /\ d \in S
    BY <1>1, <2>1
  <2> QED
    BY <2>4, <2>5, Zenon DEF Cyclic
<1> QED
  BY <1>3, <1>4, <1>5

\* Completing a step appends it behind everything it depends on.
LEMMA CompleteKeepsOrder ==
    ASSUME SearchTypes, CompletedInv, AboveInv, OrderRespectsDependencies, Complete
    PROVE  OrderRespectsDependencies' /\ CompletedInv'
<1>1. /\ Len(stack) \in DOMAIN stack /\ Top \in Steps /\ Top = stack[Len(stack)] /\ mark[Top] = 1
      /\ \A i \in DOMAIN stack : i <= Len(stack) /\ i \in Nat
      /\ topoPc = "sort" /\ mark' = [mark EXCEPT ![Top] = 2] /\ order' = Append(order, Top)
  BY TopOf DEF SearchTypes, Complete
<1>2. Steps' = Steps /\ \A s : DepSet(s)' = DepSet(s)
  BY DepsFrame DEF Complete
<1>3. PICK m \in Nat : m = Len(order)
  BY DEF SearchTypes
<1>4. /\ DOMAIN order = 1..m /\ DOMAIN order' = 1..(m + 1) /\ order'[m + 1] = Top
      /\ \A i \in 1..m : order'[i] = order[i] /\ order[i] \in Steps
  BY <1>1, <1>3 DEF SearchTypes
<1>5. \A d \in DepSet(Top) : \E j \in 1..m : order[j] = d
  <2> SUFFICES ASSUME NEW d \in DepSet(Top) PROVE \E j \in 1..m : order[j] = d
    OBVIOUS
  <2>1. mark[d] = 2
    BY <1>1 DEF AboveInv
  <2>2. d \in Steps
    BY <1>1, DepsAreSteps
  <2> QED
    BY <1>4, <2>1, <2>2 DEF CompletedInv
<1>6. \A j \in 1..m : order[j] # Top
  BY <1>1, <1>4 DEF CompletedInv
<1>7. OrderRespectsDependencies'
  <2> SUFFICES ASSUME NEW i \in 1..(m + 1)
               PROVE  /\ \A d \in DepSet(order'[i]) : \E j \in 1..(i - 1) : order'[j] = d
                      /\ \A j \in 1..(m + 1) : order'[j] = order'[i] => j = i
    BY <1>2, <1>4 DEF OrderRespectsDependencies
  <2>1. CASE i = m + 1
    <3>1. i - 1 = m /\ \A j \in 1..(m + 1) : j # m + 1 => j \in 1..m
      BY <2>1
    <3> QED
      BY <1>4, <1>5, <1>6, <2>1, <3>1
  <2>2. CASE i # m + 1
    <3>1. i \in 1..m
      BY <2>2
    <3>2. /\ \A d \in DepSet(order[i]) : \E j \in 1..(i - 1) : order[j] = d
          /\ \A j \in 1..m : order[j] = order[i] => j = i
      BY <1>4, <3>1 DEF OrderRespectsDependencies
    <3>3. 1..(i - 1) \subseteq 1..m /\ \A j \in 1..(m + 1) : j # m + 1 => j \in 1..m
      BY <3>1
    <3> QED
      BY <1>4, <1>6, <3>1, <3>2, <3>3
  <2> QED
    BY <2>1, <2>2
<1>8. CompletedInv'
  <2> SUFFICES ASSUME NEW s \in Steps
               PROVE  mark'[s] = 2 <=> \E i \in 1..(m + 1) : order'[i] = s
    BY <1>2, <1>4 DEF CompletedInv
  <2>1. CASE s = Top
    BY <1>1, <1>4, <2>1 DEF SearchTypes
  <2>2. CASE s # Top
    <3>1. mark'[s] = mark[s]
      BY <1>1, <2>2 DEF SearchTypes
    <3>2. \A i \in 1..(m + 1) : i # m + 1 => i \in 1..m
      OBVIOUS
    <3>3. 1..m \subseteq 1..(m + 1)
      OBVIOUS
    <3> QED
      BY <1>4, <2>2, <3>1, <3>2, <3>3 DEF CompletedInv
  <2> QED
    BY <2>1, <2>2
<1> QED
  BY <1>7, <1>8

\* In a finite set where everything has an R-predecessor there is a set where
\* everything has an R-successor: the least set of the first kind.
LEMMA CycleBothWays ==
    ASSUME NEW R, NEW S, IsFiniteSet(S), S # {}, \A t \in S : \E u \in S : <<u, t>> \in R
    PROVE  \E T \in SUBSET S : T # {} /\ \A u \in T : \E t \in T : <<u, t>> \in R
<1> DEFINE C == {T \in SUBSET S : T # {} /\ \A t \in T : \E u \in T : <<u, t>> \in R}
           N == {Cardinality(T) : T \in C}
<1>1. \A T \in C : IsFiniteSet(T) /\ Cardinality(T) \in Nat
  BY FS_Subset, FS_CardinalityType
<1>2. S \in C /\ N \subseteq Nat
  BY <1>1, Zenon
<1>3. PICK T \in C : \A U \in C : Cardinality(T) <= Cardinality(U)
  <2>1. N # {}
    BY <1>2
  <2>2. PICK c \in N : \A y \in N : c <= y
    BY <1>2, <2>1, LeastOf, Zenon
  <2> QED
    BY <2>2, Zenon
<1>4. ASSUME NEW u \in T, \A t \in T : <<u, t>> \notin R
      PROVE  FALSE
  <2>1. T \ {u} \in C
    <3>1. \A t \in T : \E v \in T \ {u} : <<v, t>> \in R
      BY <1>4, Zenon
    <3>2. T \ {u} # {} /\ T \ {u} \in SUBSET S
      BY <3>1, Zenon
    <3> QED
      BY <3>1, <3>2
  <2>2. Cardinality(T \ {u}) = Cardinality(T) - 1
    BY <1>1, FS_RemoveElement, Zenon
  <2>3. Cardinality(T) <= Cardinality(T \ {u})
    BY <1>3, <2>1, Zenon
  <2> QED
    BY <1>1, <2>2, <2>3
<1> QED
  BY <1>3, <1>4, Zenon

\* A dependency graph has a cycle exactly when some nonempty set of its steps is
\* closed under dependents.
LEMMA CyclicIffPredClosed ==
    ASSUME IsFiniteSet(Steps)
    PROVE  Cyclic <=> \E T \in SUBSET Steps : T # {} /\ PredClosed(T)
<1>1. ASSUME NEW S \in SUBSET Steps, S # {}, \A s \in S : \E t \in S : DependsOn(s, t)
      PROVE  \E T \in SUBSET Steps : T # {} /\ PredClosed(T)
  <2> DEFINE R == {e \in Steps \X Steps : DependsOn(e[2], e[1])}
  <2>1. IsFiniteSet(S) /\ \A t \in S : \E u \in S : <<u, t>> \in R
    BY <1>1, FS_Subset
  <2> HIDE DEF R
  <2>2. PICK T \in SUBSET S : T # {} /\ \A u \in T : \E t \in T : <<u, t>> \in R
    BY <1>1, <2>1, CycleBothWays, Zenon
  <2> QED
    BY <2>2, Zenon DEF R, PredClosed
<1>2. ASSUME NEW S \in SUBSET Steps, S # {}, PredClosed(S)
      PROVE  Cyclic
  <2> DEFINE R == {e \in Steps \X Steps : DependsOn(e[1], e[2])}
  <2>1. IsFiniteSet(S) /\ \A t \in S : \E u \in S : <<u, t>> \in R
    BY <1>2, FS_Subset DEF PredClosed
  <2> HIDE DEF R
  <2>2. PICK T \in SUBSET S : T # {} /\ \A u \in T : \E t \in T : <<u, t>> \in R
    BY <1>2, <2>1, CycleBothWays, Zenon
  <2> QED
    BY <2>2, Zenon DEF R, Cyclic
<1> QED
  BY <1>1, <1>2 DEF Cyclic

\* A step is taken off the queue.
LEMMA KahnPopCounts ==
    ASSUME SearchTypes, KahnInv, KahnPop
    PROVE  \E D \in SUBSET Steps : Counting(D)'
<1>1. Steps' = Steps /\ \A s : DepSet(s)' = DepSet(s)
  BY DepsFrame DEF KahnPop
<1>2. \A u, t : DependsOn(u, t)' <=> DependsOn(u, t)
  BY <1>1 DEF DependsOn
<1>3. PICK D \in SUBSET Steps : Counting(D)
  BY DEF KahnInv, KahnPop
<1>4. PICK s \in queue :
        /\ inDegree' = [t \in Steps |-> IF DependsOn(s, t) THEN inDegree[t] - 1 ELSE inDegree[t]]
        /\ queue' = (queue \ {s}) \cup {t \in DepSet(s) : inDegree[t] = 1}
  BY DEF KahnPop
<1>5. s \in Steps /\ s \notin D /\ inDegree[s] = 0
  BY <1>3, <1>4 DEF Counting
<1> DEFINE E == D \cup {s}
           Left(X, t) == {u \in Steps \ X : DependsOn(u, t)}
<1>6. \A t \in Steps : IsFiniteSet(Left(D, t))
  BY FS_Subset DEF KahnInv
<1>7. \A t \in Steps : Left(E, t) = Left(D, t) \ {s}
  OBVIOUS
<1>8. \A t \in Steps : inDegree[t] = Cardinality(Left(D, t)) /\ inDegree[t] \in Nat
  BY <1>3 DEF Counting
<1>9. \A t \in Steps : DependsOn(s, t) <=> s \in Left(D, t)
  BY <1>5
<1>10. \A t \in Steps : Cardinality(Left(E, t)) = IF DependsOn(s, t) THEN inDegree[t] - 1 ELSE inDegree[t]
  <2> SUFFICES ASSUME NEW t \in Steps
               PROVE  Cardinality(Left(E, t)) = IF DependsOn(s, t) THEN inDegree[t] - 1 ELSE inDegree[t]
    OBVIOUS
  <2> HIDE DEF Left, E
  <2>1. Cardinality(Left(D, t) \ {s}) = IF s \in Left(D, t) THEN Cardinality(Left(D, t)) - 1 ELSE Cardinality(Left(D, t))
    BY <1>6, FS_RemoveElement, Zenon
  <2> QED
    BY <1>7, <1>8, <1>9, <2>1, Zenon
<1>11. \A t \in Steps : DependsOn(s, t) => inDegree[t] # 0
  <2> SUFFICES ASSUME NEW t \in Steps, DependsOn(s, t) PROVE inDegree[t] # 0
    OBVIOUS
  <2> HIDE DEF Left
  <2>1. Left(D, t) # {}
    BY <1>9
  <2> QED
    BY <1>6, <1>8, <2>1, FS_EmptySet
<1>12. inDegree' \in [Steps -> Nat] /\ \A t \in Steps : inDegree'[t] = Cardinality(Left(E, t))
  <2> HIDE DEF Left, E
  <2>1. \A t \in Steps : inDegree'[t] = IF DependsOn(s, t) THEN inDegree[t] - 1 ELSE inDegree[t]
    BY <1>4
  <2>2. \A t \in Steps : inDegree'[t] \in Nat
    BY <1>8, <1>11, <2>1
  <2> QED
    BY <1>4, <1>10, <2>1, <2>2
<1>13. counted' = Cardinality(E)
  <2>1. IsFiniteSet(D) /\ counted' = Cardinality(D) + 1
    BY <1>3, FS_Subset DEF KahnInv, KahnPop, Counting
  <2> QED
    BY <1>5, <2>1, FS_AddElement, Zenon
<1>14. \A t \in D : ~DependsOn(s, t) /\ inDegree'[t] = 0
  BY <1>3, <1>4, <1>11 DEF Counting
<1>15. ~DependsOn(s, s) /\ inDegree'[s] = 0
  BY <1>4, <1>5, <1>11
<1>16. /\ queue' \subseteq Steps
       /\ \A t \in Steps : t \in queue' <=> t \notin E /\ inDegree'[t] = 0
  <2> HIDE DEF Left
  <2>1. \A t \in Steps : inDegree'[t] = IF DependsOn(s, t) THEN inDegree[t] - 1 ELSE inDegree[t]
    BY <1>4
  <2>2. \A t \in Steps : t \in DepSet(s) <=> DependsOn(s, t)
    BY DEF DependsOn
  <2>3. queue \subseteq Steps /\ \A t \in Steps : t \in queue <=> t \notin D /\ inDegree[t] = 0
    BY <1>3 DEF Counting
  <2>4. DepSet(s) \cap Steps = DepSet(s)
    BY <1>5, DepsAreSteps
  <2> QED
    BY <1>4, <1>8, <1>11, <1>14, <1>15, <2>1, <2>2, <2>3, <2>4
<1>17. \A T \in SUBSET Steps : PredClosed(T) => T \cap E = {}
  <2> SUFFICES ASSUME NEW T \in SUBSET Steps, PredClosed(T), s \in T PROVE FALSE
    BY <1>3 DEF Counting
  <2>1. PICK u \in T : DependsOn(u, s)
    BY DEF PredClosed
  <2>2. u \notin D
    BY <1>3 DEF Counting
  <2>3. u \in Left(D, s)
    BY <2>1, <2>2
  <2> HIDE DEF Left
  <2> QED
    BY <1>5, <1>6, <1>8, <2>3, FS_EmptySet
<1>18. Counting(E)'
  <2>1. \A T : PredClosed(T)' <=> PredClosed(T)
    BY <1>2 DEF PredClosed
  <2>2. \A t \in Steps : Left(E, t) = {u \in Steps \ E : DependsOn(u, t)'}
    BY <1>2
  <2> QED
    BY <1>1, <1>5, <1>12, <1>13, <1>14, <1>15, <1>16, <1>17, <2>1, <2>2 DEF Counting
<1> QED
  BY <1>5, <1>18

\* The queue is empty: what is left is closed under dependents.
LEMMA KahnEndDecides ==
    ASSUME KahnInv, KahnEnd
    PROVE  accepted' <=> ~Cyclic
<1>1. PICK D \in SUBSET Steps : Counting(D)
  BY DEF KahnInv, KahnEnd
<1>2. accepted' <=> counted = Cardinality(Steps)
  BY Zenon DEF KahnEnd
<1>3. queue = {} /\ IsFiniteSet(Steps) /\ counted = Cardinality(D)
  BY <1>1 DEF KahnInv, KahnEnd, Counting
<1>4. CASE Cardinality(D) = Cardinality(Steps)
  <2>1. D = Steps
    BY <1>3, <1>4, FS_Subset
  <2>2. ~ \E T \in SUBSET Steps : T # {} /\ PredClosed(T)
    BY <1>1, <2>1 DEF Counting
  <2>3. ~Cyclic
    BY <1>3, <2>2, CyclicIffPredClosed
  <2> QED
    BY <1>2, <1>3, <1>4, <2>3
<1>5. CASE Cardinality(D) # Cardinality(Steps)
  <2> DEFINE E == Steps \ D
  <2>1. E # {}
    BY <1>5
  <2>2. PredClosed(E)
    <3> SUFFICES ASSUME NEW t \in E PROVE \E u \in E : DependsOn(u, t)
      BY DEF PredClosed
    <3>1. Cardinality({u \in Steps \ D : DependsOn(u, t)}) # 0
      BY <1>1, <1>3 DEF Counting
    <3>2. {u \in Steps \ D : DependsOn(u, t)} # {}
      BY <3>1, FS_EmptySet
    <3> QED
      BY <3>2
  <2>3. Cyclic
    BY <1>3, <2>1, <2>2, CyclicIffPredClosed
  <2> QED
    BY <1>2, <1>3, <1>5, <2>3
<1> QED
  BY <1>4, <1>5

\* A step that leaves the dependencies alone leaves their cycles alone.
LEMMA CyclicFrame ==
    ASSUME UNCHANGED deps
    PROVE  Cyclic' <=> Cyclic
BY DepsFrame DEF Cyclic, DependsOn

\* The validator's count is kept by every step.
LEMMA KahnStep == SearchTypes /\ KahnInv /\ TopoNext => KahnInv'
<1> SUFFICES ASSUME SearchTypes, KahnInv, TopoNext PROVE KahnInv'
  OBVIOUS
<1>0. UNCHANGED deps
  BY DEF TopoNext, KahnPop, KahnEnd, StartRoot, SortDone, PopCompleted, Complete, Visit
<1>1. Steps' = Steps /\ (Cyclic' <=> Cyclic) /\ IsFiniteSet(Steps)
  BY <1>0, DepsFrame, CyclicFrame DEF KahnInv
<1>2. CASE KahnPop
  BY <1>1, <1>2, KahnPopCounts DEF KahnInv, KahnPop
<1>3. CASE KahnEnd
  BY <1>1, <1>3, KahnEndDecides DEF KahnInv, KahnEnd
<1>4. CASE StartRoot \/ SortDone \/ PopCompleted \/ Complete \/ Visit
  <2>1. UNCHANGED accepted /\ topoPc = "sort" /\ topoPc' # "validate"
    BY <1>4 DEF StartRoot, SortDone, PopCompleted, Complete, Visit
  <2> QED
    BY <1>1, <2>1 DEF KahnInv
<1> QED
  BY <1>2, <1>3, <1>4 DEF TopoNext

\* The invariant of the search is kept by every step.
LEMMA SearchStep == SearchInv /\ TopoNext => SearchInv'
<1> SUFFICES ASSUME SearchInv, TopoNext PROVE SearchInv'
  OBVIOUS
<1>0. SearchTypes /\ SearchTypes'
  BY TypesStep DEF SearchInv
<1>1. UNCHANGED deps
  BY DEF TopoNext, KahnPop, KahnEnd, StartRoot, SortDone, PopCompleted, Complete, Visit
<1>2. Steps' = Steps /\ (\A s : DepSet(s)' = DepSet(s)) /\ (Cyclic' <=> Cyclic)
  BY <1>1, DepsFrame, CyclicFrame
<1>3. ASSUME UNCHANGED order PROVE OrderRespectsDependencies'
  BY <1>2, <1>3 DEF SearchInv, OrderRespectsDependencies
<1>4. ASSUME UNCHANGED <<mark, order>> PROVE CompletedInv'
  BY <1>2, <1>4 DEF SearchInv, CompletedInv
<1>5. CASE KahnPop \/ KahnEnd
  <2>1. UNCHANGED <<mark, stack, order>> /\ topoPc = "validate" /\ topoPc' \in {"validate", "sort"}
    BY <1>5, KahnFrame DEF KahnPop, KahnEnd
  <2>2. stack = <<>> /\ \A s \in Steps : mark[s] = 0
    BY <2>1 DEF SearchInv, StartedInv
  <2>3. StartedInv' /\ AboveInv' /\ PushedInv'
    BY <1>2, <2>1, <2>2 DEF StartedInv, AboveInv, PushedInv
  <2> QED
    BY <1>0, <1>3, <1>4, <2>1, <2>3 DEF SearchInv
<1>6. CASE StartRoot
  <2>1. UNCHANGED <<mark, order, topoPc>> /\ topoPc = "sort" /\ stack = <<>>
    BY <1>6 DEF StartRoot
  <2>2. PICK s \in Steps : mark[s] = 0 /\ stack' = <<s>>
    BY <1>6 DEF StartRoot
  <2>3. \A t \in Steps : mark[t] # 1
    BY <2>1 DEF SearchInv, StartedInv
  <2>4. DOMAIN stack' = {1} /\ stack'[1] = s
    BY <2>2
  <2>5. StartedInv' /\ AboveInv' /\ PushedInv'
    BY <1>2, <2>1, <2>2, <2>3, <2>4 DEF StartedInv, AboveInv, PushedInv
  <2> QED
    BY <1>0, <1>3, <1>4, <2>1, <2>5 DEF SearchInv
<1>7. CASE SortDone
  <2>1. UNCHANGED <<mark, order, stack>> /\ topoPc = "sort" /\ topoPc' = "sorted" /\ stack = <<>>
        /\ \A s \in Steps : mark[s] # 0
    BY <1>7 DEF SortDone, searchVars
  <2>2. \A s \in Steps : mark[s] \in 0..2 /\ mark[s] # 1
    BY <1>0, <2>1 DEF SearchInv, StartedInv, SearchTypes
  <2>3. \A s \in Steps : mark[s] = 2
    BY <2>1, <2>2
  <2>4. StartedInv' /\ AboveInv' /\ PushedInv'
    BY <1>2, <2>1, <2>3 DEF StartedInv, AboveInv, PushedInv
  <2> QED
    BY <1>0, <1>3, <1>4, <2>1, <2>4 DEF SearchInv
<1>8. CASE PopCompleted
  <2>1. UNCHANGED <<mark, order, topoPc>> /\ topoPc = "sort" /\ stack # <<>> /\ mark[Top] = 2 /\ stack' = Pop
    BY <1>8 DEF PopCompleted
  <2>2. mark' = [mark EXCEPT ![Top] = 2] /\ mark[Top] # 0
    BY <1>0, <2>1, TopOf DEF SearchTypes
  <2>3. StartedInv' /\ AboveInv' /\ PushedInv'
    BY <1>0, <1>1, <2>1, <2>2, PopKeeps, Zenon DEF SearchInv
  <2> QED
    BY <1>0, <1>3, <1>4, <2>1, <2>3 DEF SearchInv
<1>9. CASE Complete
  <2>1. UNCHANGED topoPc /\ topoPc = "sort" /\ stack # <<>> /\ mark[Top] # 0 /\ stack' = Pop
        /\ mark' = [mark EXCEPT ![Top] = 2]
    BY <1>9 DEF Complete
  <2>2. StartedInv' /\ AboveInv' /\ PushedInv'
    BY <1>0, <1>1, <2>1, PopKeeps DEF SearchInv
  <2>3. OrderRespectsDependencies' /\ CompletedInv'
    BY <1>0, <1>9, CompleteKeepsOrder DEF SearchInv
  <2> QED
    BY <1>0, <2>1, <2>2, <2>3 DEF SearchInv
<1>10. CASE Visit
  <2>1. CompletedInv'
    <3>1. Top \in Steps /\ mark[Top] = 0 /\ mark' = [mark EXCEPT ![Top] = 1] /\ UNCHANGED order
      BY <1>0, <1>10, TopOf, VisitFrame
    <3> QED
      BY <1>0, <1>2, <3>1 DEF SearchInv, CompletedInv, SearchTypes
  <2>2. OrderRespectsDependencies'
    BY <1>0, <1>3, <1>10, VisitFrame
  <2>3. CASE topoPc' = "sort"
    BY <1>0, <1>10, <2>1, <2>2, <2>3, VisitKeeps DEF SearchInv
  <2>4. CASE topoPc' = "cycle"
    <3>1. Cyclic'
      BY <1>0, <1>2, <1>10, <2>4, CycleIsReal DEF SearchInv
    <3>2. StartedInv' /\ AboveInv' /\ PushedInv'
      BY <2>4 DEF StartedInv, AboveInv, PushedInv
    <3> QED
      BY <1>0, <2>1, <2>2, <3>1, <3>2 DEF SearchInv
  <2> QED
    BY <1>0, <1>10, <2>3, <2>4, VisitFrame
<1> QED
  BY <1>5, <1>6, <1>7, <1>8, <1>9, <1>10 DEF TopoNext

\* A complete order rules a cycle out: the first step of a cycle in it would
\* depend on a later one.
LEMMA SortedIsAcyclic ==
    ASSUME SearchInv, topoPc = "sorted"
    PROVE  ~Cyclic /\ {order[i] : i \in DOMAIN order} = Steps
<1>1. order \in Seq(Steps) /\ \A s \in Steps : \E i \in DOMAIN order : order[i] = s
  BY DEF SearchInv, SearchTypes, StartedInv, CompletedInv
<1>2. {order[i] : i \in DOMAIN order} = Steps
  BY <1>1
<1>3. ASSUME NEW S \in SUBSET Steps, S # {}, \A s \in S : \E t \in S : DependsOn(s, t)
      PROVE  FALSE
  <2> DEFINE I == {i \in DOMAIN order : order[i] \in S}
  <2>1. I # {} /\ I \subseteq Nat
    BY <1>1, <1>3
  <2>2. PICK i \in I : \A j \in I : i <= j
    BY <2>1, LeastOf, Zenon
  <2>3. PICK t \in S : t \in DepSet(order[i])
    BY <1>3, <2>2 DEF DependsOn
  <2>4. PICK j \in 1..(i - 1) : order[j] = t
    BY <2>2, <2>3 DEF SearchInv, OrderRespectsDependencies
  <2>5. j \in I
    BY <1>1, <2>2, <2>4
  <2> QED
    BY <1>1, <2>2, <2>4, <2>5
<1> QED
  BY <1>2, <1>3 DEF Cyclic

\* A step needs what it depends on, and what that needs.
LEMMA NeedsIsClosed ==
    ASSUME SearchTypes, NEW r \in Steps
    PROVE  /\ DepSet(r) \subseteq Needs(r)
           /\ \A v \in Needs(r) : DepSet(v) \subseteq Needs(r)
<1>1. \A v \in Steps : DepSet(v) \subseteq Steps
  BY DepsAreSteps
<1> QED
  BY <1>1 DEF Needs

\* What a step needs depends on the graph alone.
LEMMA NeedsFrame ==
    ASSUME UNCHANGED deps
    PROVE  \A u : Needs(u)' = Needs(u)
<1>1. Steps' = Steps /\ \A s : DepSet(s)' = DepSet(s)
  BY DepsFrame
<1> QED
  BY <1>1 DEF Needs

\* The search keeps to the template.
LEMMA StableStep == SearchInv /\ RootInv /\ StableInv /\ TopoNext => RootInv' /\ StableInv'
<1> SUFFICES ASSUME SearchInv, RootInv, StableInv, TopoNext PROVE RootInv' /\ StableInv'
  OBVIOUS
<1>0. SearchTypes /\ UNCHANGED deps /\ SearchTypes'
  BY TypesStep, Zenon DEF SearchInv, TopoNext, KahnPop, KahnEnd, StartRoot, SortDone, PopCompleted, Complete, Visit
<1>1. Steps' = Steps /\ \A u : Needs(u)' = Needs(u)
  BY <1>0, DepsFrame, NeedsFrame
<1>2. order' = order => StableInv'
  BY <1>1 DEF StableInv
<1>3. CASE KahnPop \/ KahnEnd
  <2>1. stack' = <<>> /\ order' = order
    BY <1>3, KahnFrame DEF SearchInv, StartedInv
  <2> QED
    BY <1>2, <2>1 DEF RootInv
<1>4. CASE StartRoot
  <2>1. PICK s \in Steps : mark[s] = 0 /\ (\A t \in Steps : t < s => mark[t] # 0) /\ stack' = <<s>>
    BY <1>4 DEF StartRoot
  <2>2. topoPc = "sort" /\ stack = <<>> /\ UNCHANGED <<mark, order>>
    BY <1>4 DEF StartRoot
  <2>3. \A t \in Steps : mark[t] # 1
    BY <2>2 DEF SearchInv, StartedInv
  <2>4. \A t \in Steps : t < s => mark[t] = 2
    BY <1>0, <2>1, <2>3 DEF SearchTypes
  <2> QED
    BY <1>1, <1>2, <2>1, <2>2, <2>4 DEF RootInv
<1>5. CASE SortDone
  BY <1>2, <1>5 DEF SortDone, searchVars, RootInv
<1>6. CASE PopCompleted \/ Complete
  <2>1. topoPc = "sort" /\ stack # <<>> /\ stack' = Pop /\ UNCHANGED topoPc
    BY <1>6 DEF PopCompleted, Complete
  <2>2. \A s \in Steps : mark[s] = 2 => mark'[s] = 2
    BY <1>0, <1>6 DEF PopCompleted, Complete, SearchTypes
  <2>3. RootInv'
    <3>1. SUFFICES ASSUME Pop # <<>> PROVE RootInv'
      BY <2>1 DEF RootInv
    <3>2. 1 \in DOMAIN Pop /\ Pop[1] = stack[1]
      <4>1. Pop \in Seq(Steps) /\ \A i \in DOMAIN Pop : Pop[i] = stack[i]
        BY <1>0, <2>1, TopOf
      <4>2. 1 \in DOMAIN Pop
        BY <3>1, <4>1
      <4> QED
        BY <4>1, <4>2
    <3>3. \A i \in DOMAIN Pop : i \in DOMAIN stack /\ Pop[i] = stack[i]
      BY <1>0, <2>1, TopOf
    <3> HIDE DEF Pop
    <3> QED
      BY <1>1, <2>1, <2>2, <3>2, <3>3 DEF RootInv
  <2>4. CASE PopCompleted
    BY <1>2, <2>3, <2>4 DEF PopCompleted
  <2>5. CASE Complete
    <3>1. order' = Append(order, Top) /\ mark[Top] = 1 /\ Top \in Steps /\ order \in Seq(Steps)
      BY <1>0, <2>1, <2>5, TopOf DEF Complete, SearchTypes
    <3>2. ASSUME NEW s \in Steps, s < Top, \A j \in DOMAIN order : order[j] # s
          PROVE  \E u \in Steps : u <= s /\ Top \in Needs(u)
      <4>1. mark[s] # 2
        BY <3>2 DEF SearchInv, CompletedInv
      <4>2. stack[1] \in Steps /\ ~(s < stack[1]) /\ Len(stack) \in DOMAIN stack /\ Top = stack[Len(stack)]
        BY <1>0, <2>1, <4>1, TopOf DEF RootInv, SearchTypes
      <4>3. stack[1] <= s /\ stack[1] # Top
        <5>1. stack[1] \in Int /\ s \in Int /\ Top \in Int
          BY <1>0, <3>1, <4>2, Zenon DEF SearchTypes
        <5> QED
          BY <3>2, <4>2, <5>1
      <4>4. Len(stack) > 1
        BY <1>0, <2>1, <4>2, <4>3 DEF SearchTypes
      <4>5. Top \in Needs(stack[1])
        BY <2>1, <4>2, <4>4 DEF RootInv
      <4> QED
        BY <4>2, <4>3, <4>5
    <3>3. StableInv'
      <4> SUFFICES ASSUME NEW i \in DOMAIN order', NEW s \in Steps,
                          s < order'[i], \A j \in 1..i : order'[j] # s
                   PROVE  \E u \in Steps : u <= s /\ order'[i] \in Needs(u)
        BY <1>1 DEF StableInv
      <4>1. CASE i \in DOMAIN order
        <5>1. order'[i] = order[i] /\ \A j \in 1..i : order'[j] = order[j]
          BY <3>1, <4>1
        <5> QED
          BY <4>1, <5>1 DEF StableInv
      <4>2. CASE i \notin DOMAIN order
        <5>1. i = Len(order) + 1 /\ order'[i] = Top
          BY <3>1, <4>2
        <5>2. \A j \in DOMAIN order : j \in 1..i /\ order'[j] = order[j]
          BY <3>1, <5>1
        <5> QED
          BY <3>2, <5>1, <5>2
      <4> QED
        BY <4>1, <4>2
    <3> QED
      BY <2>3, <3>3
  <2> QED
    BY <1>6, <2>4, <2>5
<1>7. CASE Visit
  <2>1. stack # <<>> /\ topoPc = "sort" /\ order' = order /\ mark[Top] = 0 /\ mark' = [mark EXCEPT ![Top] = 1]
    BY <1>0, <1>7, VisitFrame
  <2>2. \A s \in Steps : mark[s] = 2 => mark'[s] = 2
    BY <1>0, <2>1 DEF SearchTypes
  <2>3. CASE topoPc' = "cycle"
    BY <1>2, <2>1, <2>3 DEF RootInv
  <2>4. CASE topoPc' # "cycle"
    <3>1. /\ \A i \in DOMAIN stack : stack'[i] = stack[i]
          /\ \A i \in DOMAIN stack' : i > Len(stack) => stack'[i] \in DepSet(Top)
      BY <1>0, <1>7, <2>4, VisitFrame
    <3>2. 1 \in DOMAIN stack /\ stack[1] \in Steps /\ Len(stack) \in DOMAIN stack /\ Top = stack[Len(stack)]
      BY <1>0, <2>1, TopOf DEF SearchTypes
    <3>3. DepSet(Top) \subseteq Needs(stack[1])
      <4>1. Top = stack[1] \/ Top \in Needs(stack[1])
        BY <1>0, <2>1, <3>2 DEF RootInv, SearchTypes
      <4> QED
        BY <1>0, <3>2, <4>1, NeedsIsClosed
    <3>4. \A i \in DOMAIN stack' : i > 1 => stack'[i] \in Needs(stack[1])
      <4> SUFFICES ASSUME NEW i \in DOMAIN stack', i > 1 PROVE stack'[i] \in Needs(stack[1])
        OBVIOUS
      <4>1. i \in DOMAIN stack \/ i > Len(stack)
        BY <1>0 DEF SearchTypes
      <4> QED
        BY <2>1, <3>1, <3>3, <4>1 DEF RootInv
    <3> QED
      BY <1>1, <1>2, <2>1, <2>2, <3>1, <3>2, <3>4 DEF RootInv
  <2> QED
    BY <2>3, <2>4
<1> QED
  BY <1>3, <1>4, <1>5, <1>6, <1>7 DEF TopoNext

\* A finished search has kept to the template.
LEMMA SortedIsStable ==
    ASSUME SearchInv, StableInv
    PROVE  TemplateStable
<1> SUFFICES ASSUME topoPc = "sorted", NEW s \in Steps, NEW t \in Steps,
                    s < t, Place(t) < Place(s)
             PROVE  \E u \in Steps : u <= s /\ t \in Needs(u)
  BY DEF TemplateStable
<1>1. order \in Seq(Steps) /\ \A v \in Steps : \E i \in DOMAIN order : order[i] = v
  BY DEF SearchInv, SearchTypes, StartedInv, CompletedInv
<1>2. \A v \in Steps : Place(v) \in DOMAIN order /\ order[Place(v)] = v
  BY <1>1 DEF Place
<1>3. \A j \in 1..Place(t) : order[j] # s
  <2> SUFFICES ASSUME NEW j \in 1..Place(t), order[j] = s PROVE FALSE
    OBVIOUS
  <2>1. j \in DOMAIN order
    BY <1>1, <1>2
  <2>2. j = Place(s)
    BY <1>2, <2>1 DEF SearchInv, OrderRespectsDependencies
  <2> QED
    BY <1>1, <1>2, <2>2
<1> QED
  BY <1>2, <1>3 DEF StableInv

\* The initial state.
LEMMA TopoInitially == TopoInit => SearchInv /\ KahnInv /\ RootInv /\ StableInv
<1> SUFFICES ASSUME TopoInit PROVE SearchInv /\ KahnInv /\ RootInv /\ StableInv
  OBVIOUS
<1>1. /\ Steps \subseteq Int /\ IsFiniteSet(Steps) /\ \A s \in Steps : deps[s] \in Seq(Steps)
  BY GraphsAssumption DEF TopoInit, Steps
<1>2. SearchInv
  BY <1>1 DEF TopoInit, SearchInv, SearchTypes, CompletedInv, StartedInv, AboveInv, PushedInv,
              OrderRespectsDependencies
<1>3. Counting({})
  <2>1. \A t \in Steps : IsFiniteSet({u \in Steps : DependsOn(u, t)})
    BY <1>1, FS_Subset
  <2>2. \A t \in Steps : Cardinality({u \in Steps : DependsOn(u, t)}) \in Nat
    BY <2>1, FS_CardinalityType
  <2>3. counted = Cardinality({})
    BY FS_EmptySet DEF TopoInit
  <2>4. \A t \in Steps : inDegree[t] = Cardinality({u \in Steps \ {} : DependsOn(u, t)})
    <3>1. Steps \ {} = Steps
      OBVIOUS
    <3> QED
      BY <3>1 DEF TopoInit
  <2> QED
    BY <2>2, <2>3, <2>4 DEF TopoInit, Counting
<1>4. RootInv /\ StableInv
  BY DEF TopoInit, RootInv, StableInv
<1> QED
  BY <1>1, <1>2, <1>3, <1>4 DEF KahnInv, TopoInit

\* For every finite dependency graph: topo_sorted emits each step once, behind
\* what it depends on; it ends with every step or reports a cycle that is there;
\* the validator accepts exactly the graphs it can sort; and the order departs
\* from the template's only for a step that an earlier one needs.
THEOREM SortIsCorrect == TopoSpec => []SortIsSound
<1> DEFINE Inv == SearchInv /\ KahnInv /\ RootInv /\ StableInv
<1>1. Inv /\ [TopoNext]_topoVars => Inv'
  <2>1. CASE TopoNext
    BY <2>1, SearchStep, KahnStep, StableStep DEF SearchInv
  <2>2. CASE UNCHANGED topoVars
    <3> USE <2>2 DEF topoVars
    <3>1. Steps' = Steps /\ (\A s : DepSet(s)' = DepSet(s)) /\ (Cyclic' <=> Cyclic)
      BY DepsFrame, CyclicFrame
    <3>2. \A D : Counting(D)' <=> Counting(D)
      BY <3>1 DEF Counting, PredClosed, DependsOn
    <3>3. KahnInv => KahnInv'
      BY <3>1, <3>2 DEF KahnInv
    <3>4. SearchTypes => SearchTypes'
      BY <3>1 DEF SearchTypes
    <3>5. CompletedInv => CompletedInv'
      BY <3>1 DEF CompletedInv
    <3>6. \A p : Active(p)' <=> Active(p)
      BY DEF Active
    <3>7. StartedInv /\ AboveInv /\ PushedInv => (StartedInv /\ AboveInv /\ PushedInv)'
      BY <3>1, <3>6 DEF StartedInv, AboveInv, PushedInv
    <3>8. OrderRespectsDependencies => OrderRespectsDependencies'
      BY <3>1 DEF OrderRespectsDependencies
    <3>9. RootInv /\ StableInv => RootInv' /\ StableInv'
      BY <3>1, NeedsFrame DEF RootInv, StableInv
    <3> QED
      BY <3>1, <3>3, <3>4, <3>5, <3>7, <3>8, <3>9 DEF SearchInv
  <2> QED
    BY <2>1, <2>2
<1>2. Inv => SortIsSound
  BY SortedIsAcyclic, SortedIsStable DEF SearchInv, KahnInv, SortIsSound, CycleFoundByBoth
<1> QED
  BY <1>1, <1>2, TopoInitially, PTL DEF TopoSpec
=============================================================================
