--------------------------- MODULE MCSchurPipeline ---------------------------
(* Bounded instances of SchurPipeline; the constants are set in the cfg. *)
EXTENDS SchurPipeline
=============================================================================
