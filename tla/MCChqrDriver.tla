---------------------------- MODULE MCChqrDriver ----------------------------
(* Bounded instances of ChqrDriver; the constants are set in the cfg. *)
EXTENDS ChqrDriver
=============================================================================
