-------------------------------- MODULE Heap --------------------------------
(***************************************************************************)
(* What a global allocator promises the code that uses it: every live      *)
(* block is inside the memory and apart from every other one, from the     *)
(* allocation that returned it to the call that frees it.  A request may   *)
(* fail, and then nothing happens.                                         *)
(***************************************************************************)
EXTENDS Integers

VARIABLES
  blocks,    \* live blocks, records with fields ptr and size
  limit      \* bytes of memory; it only grows

vars == <<blocks, limit>>

Apart(b, c) == b.ptr + b.size <= c.ptr \/ c.ptr + c.size <= b.ptr

Init == blocks = {} /\ limit \in Nat

(* A block fits when it is inside the memory and apart from the others. *)
Fits(b, others, bytes) ==
  /\ 0 <= b.ptr /\ b.ptr + b.size <= bytes
  /\ \A c \in others : Apart(b, c)

Allocate ==
  /\ limit' >= limit
  /\ \E b \in blocks' : blocks' = blocks \union {b} /\ b \notin blocks /\ Fits(b, blocks, limit')

Free ==
  /\ \E b \in blocks : blocks' = blocks \ {b}
  /\ limit' = limit

(* The new block exists beside the old one until the copy is done. *)
Reallocate ==
  /\ limit' >= limit
  /\ \E old \in blocks, new \in blocks' :
       /\ blocks' = (blocks \ {old}) \union {new}
       /\ new \notin blocks
       /\ Fits(new, blocks, limit')

Next == Allocate \/ Free \/ Reallocate

Spec == Init /\ [][Next]_vars
=============================================================================
