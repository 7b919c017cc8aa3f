------------------------------ MODULE SchurForm ------------------------------
(***************************************************************************)
(* A quasi-triangular T as the kernels that work on a Schur form see it:   *)
(* its order, and the rows whose subdiagonal entry below is nonzero.  Such *)
(* a row and the next make a 2x2 block, a conjugate pair of eigenvalues;   *)
(* every other row is a block of its own.  A complex T has no 2x2 blocks.  *)
(***************************************************************************)
EXTENDS Integers

CONSTANT MaxN      \* largest order considered

ASSUME OrderAssumption == MaxN \in Nat

VARIABLES
  n,      \* the order
  sub     \* the first rows of the 2x2 blocks

Idx == 0..n-1
Quasi(s) == \A r \in s : r + 1 \notin s     \* 2x2 blocks do not overlap
Blocks2x2 == {s \in SUBSET (0..n-2) : Quasi(s)}
=============================================================================
