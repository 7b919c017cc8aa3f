------------------------------ MODULE MCEigVec ------------------------------
(* Bounded instances of EigVec; the constants are set in the cfg. *)
EXTENDS EigVec
=============================================================================
