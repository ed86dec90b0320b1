---------------------------- MODULE StepSelection ----------------------------
(***************************************************************************)
(* Which steps `openjd run` executes, and in which order: prepare_selection *)
(* and resolve_step_dependencies.  A command line is the named step, if    *)
(* any, whether dependencies are wanted and whether task parameters are    *)
(* given; steps with a parameter space are listed in Spaced.               *)
(***************************************************************************)
EXTENDS TopoSort, SequencesExt

CONSTANT Spaced     \* the steps that define a parameterSpace

\* visit, with its visited set and its output threaded through.
RECURSIVE VisitStep(_, _)
VisitStep(acc, s) ==
    IF s \in acc.visited THEN acc
    ELSE LET sub == FoldLeft(VisitStep, [acc EXCEPT !.visited = @ \cup {s}], deps[s])
         IN  [sub EXCEPT !.order = Append(@, s)]

ResolveStepDependencies(s) == VisitStep([visited |-> {}, order |-> <<>>], s).order

\* The step named on the command line, or the only step, or none.
SelectedStep(named) ==
    CASE named # {} -> named
      [] named = {} /\ Cardinality(Steps) = 1 -> Steps
      [] OTHER -> {}

\* {} is an error.  The graph of a job with several steps and none named is
\* sorted by topo_sorted, whose result is `order` once topoPc is "sorted".
StepsToRun(named, withDeps, taskParams) ==
    LET sel == SelectedStep(named) IN
    CASE taskParams /\ sel = {} -> {}
      [] taskParams /\ sel # {} /\ ~(sel \subseteq Spaced) -> {}
      [] sel = {} /\ ~taskParams -> IF topoPc = "sorted" THEN {order} ELSE {}
      [] OTHER -> {IF withDeps THEN ResolveStepDependencies(CHOOSE s \in sel : TRUE)
                   ELSE <<CHOOSE s \in sel : TRUE>>}

-----------------------------------------------------------------------------
\* A run with dependencies executes exactly what the step needs, each step once
\* and behind what it depends on, and the step itself last; a run of the whole
\* job executes every step.
SelectionIsClosed ==
    topoPc = "sorted" =>
        \A named \in {{}} \cup {{s} : s \in Steps}, withDeps, taskParams \in BOOLEAN :
            \A q \in StepsToRun(named, withDeps, taskParams) :
                LET sel == SelectedStep(named) IN
                /\ \A i, j \in DOMAIN q : q[i] = q[j] => i = j
                /\ withDeps \/ sel = {} =>
                     \A i \in DOMAIN q : \A d \in DepSet(q[i]) : \E j \in 1..(i - 1) : q[j] = d
                /\ ToSet(q) = CASE sel = {} -> Steps
                                [] sel # {} /\ withDeps -> sel \cup UNION {Needs(s) : s \in sel}
                                [] OTHER -> sel
                /\ sel # {} => {q[Len(q)]} = sel
=============================================================================
