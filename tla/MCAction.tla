------------------------------ MODULE MCAction ------------------------------
(***************************************************************************)
(* One action for TLC: as the session drives it, from the call to the      *)
(* caller's cancel (Session), or as the process behind it runs and is      *)
(* stopped (Subprocess).  A behaviour is one of the two; Session sees of   *)
(* the process that it ends, and that a cancelled one ends.                *)
(***************************************************************************)
EXTENDS MCSession, Subprocess

VARIABLE view   \* "session" or "process"

actionVars == <<view, vars, processVars>>

ActionInit ==
  /\ ProcessInit
  /\ Init
  /\ \/ view = "session"
     \/ view = "process" /\ helper = "absent"

ActionNext ==
  /\ UNCHANGED view
  /\ \/ view = "session" /\ Next /\ UNCHANGED processVars
     \/ view = "process" /\ ProcessNext /\ UNCHANGED vars

OfProcess(A) == view = "process" /\ A

\* The fairness of Session, none of whose actions is enabled before a call; and
\* that of the runtime below it: it polls the call and runs its timers, and time
\* passes.
ActionFairness ==
  /\ Fairness
  /\ WF_processVars(OfProcess(Polled))
  /\ SF_processVars(OfProcess(ReadLine))
  /\ WF_processVars(OfProcess(DelayedKill))
  /\ WF_processVars(OfProcess(Tick))

ActionSpec == ActionInit /\ [][ActionNext]_actionVars /\ ActionFairness
=============================================================================
