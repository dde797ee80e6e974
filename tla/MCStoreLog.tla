----------------------------- MODULE MCStoreLog -----------------------------
(***************************************************************************)
(* Two runs, of which the first is the one the front end connects to, and  *)
(* two side effects, one of them the end of a process.                     *)
(***************************************************************************)
EXTENDS Ledger

TwoRuns == 1..2
TwoEffects == {"plan_write", "process_exit"}
OneExit == {"process_exit"}
=============================================================================
