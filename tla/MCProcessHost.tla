--------------------------- MODULE MCProcessHost ---------------------------
(***************************************************************************)
(* Instances of ProcessHost for TLC.                                       *)
(***************************************************************************)
EXTENDS ProcessHost

One == {"w1"}
=============================================================================
