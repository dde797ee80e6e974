----------------------------- MODULE MCExecutor -----------------------------
(***************************************************************************)
(* Instances of Executor for TLC.                                          *)
(***************************************************************************)
EXTENDS Executor

\* Two phases in a copied folder and one in a git project.
ThreePhases == {"p1", "p2", "p3"}
TwoRepos == {"a", "b"}
RepoOf == [p \in ThreePhases |-> IF p = "p3" THEN "b" ELSE "a"]
=============================================================================
