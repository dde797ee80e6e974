---------------------------- MODULE MCScheduler ----------------------------
(***************************************************************************)
(* Instances of Scheduler for TLC.  Phase ids are strings in phase_id      *)
(* order; a plan is given by its dependencies, lock names and tiers.       *)
(***************************************************************************)
EXTENDS Scheduler, Sequences, TLC

Three == {"p1", "p2", "p3"}

OneRun == [p \in Phases |-> "r1"]

\* p1 and p2 belong to a first run, p3 to a second.
TwoRuns == [p \in Phases |-> IF p = "p3" THEN "r2" ELSE "r1"]

NoDeps == [p \in Phases |-> {}]

\* p2 depends on p1; p3 is independent of both.
Fork == [p \in Phases |-> IF p = "p2" THEN {"p1"} ELSE {}]

\* p3 depends on p1 and p2.
Join == [p \in Phases |-> IF p = "p3" THEN {"p1", "p2"} ELSE {}]

\* p1, then p2, then p3.
Chain == [p \in Phases |-> IF p = "p2" THEN {"p1"}
                           ELSE IF p = "p3" THEN {"p2"} ELSE {}]

\* Every phase writes a repository of its own.
OwnRoots == [p \in Phases |-> {"write:" \o p}]

\* All phases write one repository: the usual single-repository project.
OneRoot == [p \in Phases |-> {"write:repo"}]

\* p1 and p2 have roots of their own but their tests share a port; p3 writes the root of p2.
SharedPort == [p \in Phases |->
  CASE p = "p1" -> {"write:a", "resource:port"}
    [] p = "p2" -> {"write:b", "resource:port"}
    [] OTHER -> {"write:b"}]

RankById == [p \in Phases |-> CASE p = "p1" -> 0 [] p = "p2" -> 1 [] OTHER -> 2]

AllMedium == [p \in Phases |-> 2]
AllKinds == [p \in Phases |-> CASE p = "p1" -> 2 [] p = "p2" -> 3 [] OTHER -> 0]

AllTiers == {0, 1, 2, 3}
=============================================================================
