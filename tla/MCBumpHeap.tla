----------------------------- MODULE MCBumpHeap -----------------------------
(* Bounded instances of BumpHeap; the constants are set in the cfg files. *)
EXTENDS BumpHeap
=============================================================================
