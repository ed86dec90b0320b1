------------------------------ MODULE MCSession ------------------------------
(***************************************************************************)
(* Session for TLC: two environment identifiers, one variable with one     *)
(* value, and the templates that exercise every path of enter and exit.   *)
(***************************************************************************)
EXTENDS Session, TLC

CONSTANTS e1, e2, v1, a

Template(onEnter, onExit, wrap, files, change) ==
  [onEnter |-> onEnter, onExit |-> onExit, wrap |-> wrap, files |-> files,
   variables |-> [v \in {v1} |-> change]]

Plain    == Template(FALSE, FALSE, {}, FALSE, a)
Scripted == Template(TRUE, TRUE, {}, FALSE, NoChange)
Wrapper  == Template(FALSE, TRUE, {"enter", "exit", "task"}, TRUE, NoChange)
TaskWrap == Template(TRUE, FALSE, {"task"}, TRUE, NoChange)

MCEnvId == {e1, e2}
MCVarName == {v1}
MCValue1 == {a}
MCEnvironment == {Plain, Scripted, Wrapper, TaskWrap}
ScriptedAndWrapper == {Scripted, Wrapper}
OneEnvId == {e1}
OnlyPlain == {Plain}
NoEnvironment == {}

Symmetry == Permutations({e1, e2})
=============================================================================
