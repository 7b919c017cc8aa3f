--------------------------- MODULE MCSchurReorder ---------------------------
(* Bounded instances of SchurReorder; the constants are set in the cfg. *)
EXTENDS SchurReorder
=============================================================================
