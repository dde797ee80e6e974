----------------------------- MODULE PhaseBoard -----------------------------
(***************************************************************************)
(* What the scheduler promises about the phases of its plans, without      *)
(* attempts, ticks, lock rows or stored readiness: agents start on a phase *)
(* only when all it depends on is accepted and nobody works on a phase it  *)
(* shares a lock with; work that succeeded is accepted, once, and never    *)
(* redone.                                                                 *)
(***************************************************************************)
CONSTANTS Phases, Deps, LocksOf

VARIABLES
  working,   \* phases with an agent at work
  finished,  \* phases whose work succeeded
  passed     \* phases whose work is accepted

boardVars == <<working, finished, passed>>

BoardInit == working = {} /\ finished = {} /\ passed = {}

Start(p) ==
  /\ p \notin working \cup finished
  /\ Deps[p] \subseteq passed
  /\ \A q \in working : LocksOf[p] \cap LocksOf[q] = {}
  /\ working' = working \cup {p}
  /\ UNCHANGED <<finished, passed>>

Succeed(p) ==
  /\ p \in working
  /\ working' = working \ {p}
  /\ finished' = finished \cup {p}
  /\ UNCHANGED passed

GiveUp(p) ==
  /\ p \in working
  /\ working' = working \ {p}
  /\ UNCHANGED <<finished, passed>>

Accept(p) ==
  /\ p \in finished \ passed
  /\ passed' = passed \cup {p}
  /\ UNCHANGED <<working, finished>>

BoardNext == \E p \in Phases : Start(p) \/ Succeed(p) \/ GiveUp(p) \/ Accept(p)

BoardSpec == BoardInit /\ [][BoardNext]_boardVars
=============================================================================
