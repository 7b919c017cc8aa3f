---------------------------- MODULE MCHqrDriver ----------------------------
(* Bounded instances of HqrDriver; the constants are set in the cfg files. *)
EXTENDS HqrDriver
=============================================================================
