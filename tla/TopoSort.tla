------------------------------ MODULE TopoSort ------------------------------
(***************************************************************************)
(* The order in which the steps of a job run.                              *)
(*                                                                         *)
(* Two pieces of code look at the same dependency graph: the template      *)
(* validator (detect_dependency_cycles, Kahn's algorithm over the names)   *)
(* decides whether a template is accepted, and StepDependencyGraph of the  *)
(* created job (topo_sorted, a depth-first search with an explicit stack)  *)
(* orders the steps.  One behaviour of this module validates a template    *)
(* and then sorts the job created from it; a cyclic template is sorted     *)
(* too, because a Job may be built without the validator.                  *)
(*                                                                         *)
(* Steps are 1..N in template order, which is also the order of their      *)
(* indices; deps[s] lists what s depends on, in the order of the template. *)
(***************************************************************************)
EXTENDS Integers, Sequences, FiniteSets

CONSTANT Graphs     \* the dependency graphs to be considered

\* Names are resolved to steps of the same template before the graph is built.
ASSUME GraphsAssumption ==
    \A g \in Graphs : /\ DOMAIN g \subseteq Int /\ IsFiniteSet(DOMAIN g)
                      /\ \A s \in DOMAIN g : g[s] \in Seq(DOMAIN g)

VARIABLES
    deps,       \* deps[s]: the steps s depends on, as the template lists them
    topoPc,     \* "validate" | "sort" | "sorted" | "cycle"
    inDegree,   \* Kahn: how many uncounted steps depend on s
    queue,      \* Kahn: the uncounted steps nothing uncounted depends on
    counted,    \* Kahn: number of steps taken off the queue
    accepted,   \* the validator found no cycle
    mark,       \* search: 0 unvisited, 1 started, 2 completed
    stack,      \* search: the explicit stack, its top is the last element
    order       \* search: the completed steps, in the order of completion

topoVars == <<deps, topoPc, inDegree, queue, counted, accepted, mark, stack, order>>
searchVars == <<mark, stack, order>>
kahnVars == <<inDegree, queue, counted>>

Steps == DOMAIN deps
DepSet(s) == {deps[s][i] : i \in DOMAIN deps[s]}
DependsOn(s, t) == t \in DepSet(s)

TopoInit ==
    /\ deps \in Graphs
    /\ topoPc = "validate"
    /\ inDegree = [s \in Steps |-> Cardinality({t \in Steps : DependsOn(t, s)})]
    /\ queue = {s \in Steps : inDegree[s] = 0}
    /\ counted = 0 /\ accepted = FALSE
    /\ mark = [s \in Steps |-> 0] /\ stack = <<>> /\ order = <<>>

-----------------------------------------------------------------------------

(* detect_dependency_cycles.  The queue starts in the order of a hash map, *)
(* so the step popped next may be any of its members.                      *)
KahnPop ==
    /\ topoPc = "validate"
    /\ \E s \in queue :
         LET freed == {t \in DepSet(s) : inDegree[t] = 1}
         IN  /\ inDegree' = [t \in Steps |-> IF DependsOn(s, t) THEN inDegree[t] - 1
                                                                 ELSE inDegree[t]]
             /\ queue' = (queue \ {s}) \cup freed
    /\ counted' = counted + 1
    /\ UNCHANGED <<deps, topoPc, accepted, mark, stack, order>>

\* visited < step_names.len() is the error of the validator.
KahnEnd ==
    /\ topoPc = "validate" /\ queue = {}
    /\ accepted' = (counted = Cardinality(Steps))
    /\ topoPc' = "sort"
    /\ inDegree' = [s \in Steps |-> 0] /\ counted' = 0
    /\ UNCHANGED <<deps, queue, mark, stack, order>>

-----------------------------------------------------------------------------
(* topo_sorted.                                                            *)
Top == stack[Len(stack)]
Pop == SubSeq(stack, 1, Len(stack) - 1)

\* Mutation: the outer loop follows the order of a hash map.
StartRootAny ==
    /\ topoPc = "sort" /\ stack = <<>>
    /\ \E s \in Steps : mark[s] = 0 /\ stack' = <<s>>
    /\ UNCHANGED <<deps, topoPc, kahnVars, accepted, mark, order>>

\* The outer loop: the first step in template order that is unvisited.
StartRoot ==
    /\ topoPc = "sort" /\ stack = <<>>
    /\ \E s \in Steps :
         /\ mark[s] = 0 /\ \A t \in Steps : t < s => mark[t] # 0
         /\ stack' = <<s>>
    /\ UNCHANGED <<deps, topoPc, kahnVars, accepted, mark, order>>

\* The outer loop ends.
SortDone ==
    /\ topoPc = "sort" /\ stack = <<>> /\ \A s \in Steps : mark[s] # 0
    /\ topoPc' = "sorted"
    /\ UNCHANGED <<deps, kahnVars, accepted, searchVars>>

\* An entry that was completed through another path.
PopCompleted ==
    /\ topoPc = "sort" /\ stack # <<>> /\ mark[Top] = 2
    /\ stack' = Pop
    /\ UNCHANGED <<deps, topoPc, kahnVars, accepted, mark, order>>

\* Second visit: everything pushed above the entry has been completed.
Complete ==
    /\ topoPc = "sort" /\ stack # <<>> /\ mark[Top] = 1
    /\ mark' = [mark EXCEPT ![Top] = 2]
    /\ order' = Append(order, Top)
    /\ stack' = Pop
    /\ UNCHANGED <<deps, topoPc, kahnVars, accepted>>

\* dep_indices, sorted by descending template index.
Descending(S) ==
    {q \in [1..Cardinality(S) -> S] : /\ \A s \in S : \E i \in DOMAIN q : q[i] = s
                                      /\ \A i, j \in DOMAIN q : i < j => q[i] > q[j]}

\* First visit: the step is started; its unvisited dependencies are pushed, the
\* earliest in the template last.  One that is started is the end of a cycle.
Visit ==
    /\ topoPc = "sort" /\ stack # <<>> /\ mark[Top] = 0
    /\ mark' = [mark EXCEPT ![Top] = 1]
    /\ IF \E d \in DepSet(Top) : mark'[d] = 1
       THEN topoPc' = "cycle" /\ UNCHANGED stack
       ELSE /\ \E q \in Descending({d \in DepSet(Top) : mark'[d] = 0}) : stack' = stack \o q
            /\ UNCHANGED topoPc
    /\ UNCHANGED <<deps, kahnVars, accepted, order>>

TopoNext ==
    \/ KahnPop \/ KahnEnd
    \/ StartRoot \/ SortDone \/ PopCompleted \/ Complete \/ Visit

-----------------------------------------------------------------------------
(* Properties.                                                             *)

\* A nonempty set of steps each of which depends on a step of the set.
Cyclic == \E S \in SUBSET Steps : S # {} /\ \A s \in S : \E t \in S : DependsOn(s, t)

\* The position of s in order, 0 when it is not there.
Place(s) == IF \E i \in DOMAIN order : order[i] = s
            THEN CHOOSE i \in DOMAIN order : order[i] = s ELSE 0

\* At every moment of the search, not only at its end, each step in the result
\* stands behind everything it depends on, and the result repeats no step.
OrderRespectsDependencies ==
    \A i \in DOMAIN order :
        /\ \A d \in DepSet(order[i]) : \E j \in 1..(i - 1) : order[j] = d
        /\ \A j \in DOMAIN order : order[j] = order[i] => j = i

\* The search ends with all steps when the graph has no cycle and with an error
\* when it has one; the template validator, a different algorithm over the same
\* edges, accepts exactly the graphs that can be sorted.
CycleFoundByBoth ==
    /\ topoPc = "sorted" => ~Cyclic /\ accepted /\ {order[i] : i \in DOMAIN order} = Steps
    /\ topoPc = "cycle" => Cyclic /\ ~accepted

\* What u needs, directly or through other steps.
Needs(u) == {t \in Steps : \A S \in SUBSET Steps :
                (DepSet(u) \subseteq S /\ \A v \in S : DepSet(v) \subseteq S) => t \in S}

\* "Template-stable": a step runs before one that is written earlier only when
\* the earlier one, or a step written before it, needs it.
TemplateStable ==
    topoPc = "sorted" =>
        \A s, t \in Steps : s < t /\ Place(t) < Place(s) =>
            \E u \in Steps : u <= s /\ t \in Needs(u)

\* topo_sorted gives an order, the template's wherever it can be, or finds a
\* cycle, and the validator's check for cycles foresees which
\* (step_dependency_graph.rs, validate_v2023_09).
SortIsSound == OrderRespectsDependencies /\ CycleFoundByBoth /\ TemplateStable
=============================================================================
