----------------------------- MODULE Deflation -----------------------------
(***************************************************************************)
(* What an eigenvalue iteration by deflation promises its caller: the      *)
(* eigenvalue slots are filled from the bottom of the matrix upwards, one  *)
(* or two at a time and never out of order; it concludes with every slot   *)
(* filled and info 0, or fails with info = the failing index plus one, all *)
(* the slots from info on being filled.                                    *)
(***************************************************************************)
EXTENDS Integers

CONSTANT MaxOrder     \* largest order, a natural number

VARIABLES order, slots, over, info

vars == <<order, slots, over, info>>

From(k) == k..order-1

Init ==
  /\ order \in 0..MaxOrder
  /\ slots = {}
  /\ over = FALSE
  /\ info = 0

Peel ==
  /\ ~over
  /\ \E k \in 1..order : \E size \in 1..2 :
       /\ slots = From(k)
       /\ k - size >= 0
       /\ slots' = From(k - size)
  /\ UNCHANGED <<order, over, info>>

Conclude ==
  /\ ~over
  /\ slots = From(0) \/ slots = From(1)
  /\ slots' = From(0)
  /\ over' = TRUE
  /\ info' = 0
  /\ UNCHANGED order

Fail ==
  /\ ~over
  /\ \E k \in 1..order : slots = From(k) /\ info' = k
  /\ over' = TRUE
  /\ UNCHANGED <<order, slots>>

Next == Peel \/ Conclude \/ Fail

Spec == Init /\ [][Next]_vars
=============================================================================
