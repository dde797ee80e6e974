----------------------------- MODULE MCRunStart -----------------------------
(***************************************************************************)
(* Instances of RunStart for TLC.                                          *)
(***************************************************************************)
EXTENDS RunStart

EveryFault == FaultKinds
=============================================================================
