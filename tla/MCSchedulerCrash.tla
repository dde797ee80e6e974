-------------------------- MODULE MCSchedulerCrash --------------------------
(***************************************************************************)
(* Instances of SchedulerCrash for TLC.                                    *)
(***************************************************************************)
EXTENDS SchedulerCrash, Sequences

Three == {"p1", "p2", "p3"}

OneRun == [p \in Phases |-> "r1"]

\* p2 depends on p1; p3 is independent of both.
Fork == [p \in Phases |-> IF p = "p2" THEN {"p1"} ELSE {}]

\* p1 and p3 write one repository, p2 another.
TwoRoots == [p \in Phases |-> IF p = "p2" THEN {"write:b"} ELSE {"write:a"}]

RankById == [p \in Phases |-> CASE p = "p1" -> 0 [] p = "p2" -> 1 [] OTHER -> 2]

AllMedium == [p \in Phases |-> 2]
AllTiers == {0, 1, 2, 3}
=============================================================================
