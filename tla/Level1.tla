------------------------------- MODULE Level1 -------------------------------
(***************************************************************************)
(* The level-1 loops of kernels/src/scalar.rs and cplx.rs: axpy, scale,    *)
(* dot and the two- and three-column reflectors.  On wasm an unrolled body *)
(* takes one or two vectors of two or four lanes at a time and a scalar    *)
(* tail takes the rest; on other targets, and for c64 with its one lane,   *)
(* the tail is all there is.  A dot product accumulates in lanes, which    *)
(* are added up between body and tail.                                     *)
(*                                                                         *)
(* bench/src/lib.rs and svd.rs have loops of the same shapes of their own. *)
(*                                                                         *)
(* Of the numbers is kept how often an element has been worked on, and     *)
(* where the product of an element has got to in a dot product.            *)
(* StreamingBlas and JacobiSvd call these loops.                           *)
(***************************************************************************)
EXTENDS Integers

CONSTANTS
  MaxLen,   \* largest len considered
  Word      \* usize wraps at 2^32 on wasm32

(* A memory of 2^32 bytes holds at most 2^30 f32. *)
ASSUME WordAssumption == MaxLen \in Nat /\ Word \in Nat /\ MaxLen + 8 < Word

VARIABLES kernel, len, pc, i, count, held

vars == <<kernel, len, pc, i, count, held>>

(* The loops: vectors = 0 is a loop without a body. *)
Update(vectors, lanes) == [dot |-> FALSE, vectors |-> vectors, lanes |-> lanes]
Dot(vectors, lanes) == [dot |-> TRUE, vectors |-> vectors, lanes |-> lanes]

ScalarLoops == {Update(0, 1), Dot(0, 1)}     \* portable, c64
F64Loops == {Update(2, 2), Dot(2, 2)}        \* axpy, scale, dot of f64x2
F32Loops == {Update(2, 4), Dot(2, 4)}        \* of f32x4
ReflectorLoops == {Update(1, 2), Update(1, 4)}   \* refl2, refl3
HarnessLoops == {Update(2, 2), Dot(2, 2)}    \* axpy_fma, triad, swap, asum, iamax of bench
JacobiLoops == {Update(0, 1), Dot(0, 1)}     \* rot_cols, cdot

Loops == ScalarLoops \union F64Loops \union F32Loops \union ReflectorLoops
           \union HarnessLoops \union JacobiLoops

Storage == 0..MaxLen+8          \* the array and what lies behind it

(* Where a product is, if not in a lane. *)
Nowhere == -1
InSum == -2

Entry(loop) == IF loop.vectors = 0 THEN "tail" ELSE "body"

Init ==
  /\ kernel \in Loops
  /\ len \in 0..MaxLen
  /\ pc = Entry(kernel)
  /\ i = 0
  /\ count = [k \in Storage |-> 0]
  /\ held = [k \in Storage |-> Nowhere]

(* A caller enters a loop; it goes on when pc is "done". *)
CallLoop(loop, length) ==
  /\ kernel' = loop
  /\ len' = length
  /\ pc' = Entry(loop)
  /\ i' = 0
  /\ count' = [k \in Storage |-> 0]
  /\ held' = [k \in Storage |-> Nowhere]

lanes == kernel.lanes
step == kernel.vectors * lanes

FullStep_Early == (i + lanes) % Word <= len
FullStep == (i + step) % Word <= len

(* The vectors of a step; all are loaded before any is stored. *)
First == i..i+lanes-1
Second == IF kernel.vectors = 2 THEN i+lanes..i+2*lanes-1 ELSE {}

Once(b) == IF b THEN 1 ELSE 0
Worked(k) ==
  IF kernel.dot THEN Once(k \in First) + Once(k \in Second)
  ELSE Once(k \in First \union Second)

(* Lane l of acc0 or of acc1. *)
Lane(k) == IF k \in First THEN k - i ELSE k - i - lanes

Body ==
  /\ pc = "body"
  /\ FullStep
  /\ i' = i + step
  /\ count' = [k \in Storage |-> count[k] + Worked(k)]
  /\ held' = IF ~kernel.dot THEN held
             ELSE [k \in Storage |-> IF k \in First \union Second THEN Lane(k) ELSE held[k]]
  /\ UNCHANGED <<kernel, len, pc>>

(* acc = acc0 + acc1, and s the sum of the extracted lanes. *)
Extracted == 0..lanes-1

BodyEnds ==
  /\ pc = "body"
  /\ ~FullStep
  /\ pc' = "tail"
  /\ held' = IF ~kernel.dot THEN held
             ELSE [k \in Storage |-> IF held[k] \in Extracted THEN InSum ELSE held[k]]
  /\ UNCHANGED <<kernel, len, i, count>>

TailStep ==
  /\ pc = "tail"
  /\ i < len
  /\ i' = i + 1
  /\ count' = [count EXCEPT ![i] = @ + 1]
  /\ held' = IF kernel.dot THEN [held EXCEPT ![i] = InSum] ELSE held
  /\ UNCHANGED <<kernel, len, pc>>

TailEnds ==
  /\ pc = "tail"
  /\ i >= len
  /\ pc' = "done"
  /\ UNCHANGED <<kernel, len, i, count, held>>

Step == Body \/ BodyEnds \/ TailStep \/ TailEnds

Done == pc = "done" /\ UNCHANGED vars

Next == Step \/ Done

Spec == Init /\ [][Next]_vars

-----------------------------------------------------------------------------
(* Every variable stays in its range. *)
TypeOK ==
  /\ kernel \in Loops
  /\ len \in 0..MaxLen
  /\ pc \in {"body", "tail", "done"}
  /\ i \in 0..len
  /\ count \in [Storage -> 0..2]
  /\ held \in [Storage -> -2..3]

(***************************************************************************)
(* For every length, body and tail together work on every element of the   *)
(* array exactly once, and on nothing behind it; and a dot product returns *)
(* the sum of all products: none is left in a lane that is not extracted,  *)
(* or in one of the two accumulators.                                      *)
(***************************************************************************)
EachElementOnce ==
  /\ \A k \in Storage : count[k] <= IF k < len THEN 1 ELSE 0
  /\ pc = "done" => \A k \in 0..len-1 : count[k] = 1
  /\ pc = "done" /\ kernel.dot => \A k \in 0..len-1 : held[k] = InSum
=============================================================================
