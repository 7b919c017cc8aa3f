------------------------------ MODULE MCLevel1 ------------------------------
(* Bounded instances of Level1 and its callers; the constants are set in the cfg. *)
EXTENDS Level1Callers
=============================================================================
