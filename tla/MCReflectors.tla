---------------------------- MODULE MCReflectors ----------------------------
(* Bounded instances of Reflectors; the constants are set in the cfg. *)
EXTENDS Reflectors
=============================================================================
