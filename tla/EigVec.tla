------------------------------- MODULE EigVec -------------------------------
(***************************************************************************)
(* Right eigenvectors from a Schur form: trevc_in_place of                 *)
(* kernels/src/eigvec.rs and its complex twin ctrevc_in_place of           *)
(* kernels/src/eigvec_cplx.rs.                                             *)
(*                                                                         *)
(* From the bottom of T upwards, the eigenvector of T of one eigenvalue,   *)
(* or of a conjugate pair in two columns of X, is found by substitution    *)
(* over the diagonal blocks above it; then V = Z X and the vectors are     *)
(* normalized, from the top of T downwards.                                *)
(*                                                                         *)
(* Of the numbers is kept which products have been subtracted from an      *)
(* entry of X, how often it was scaled, and whether it holds a component,  *)
(* a right-hand side that is still to be solved for, or the zero it was    *)
(* allocated with.                                                         *)
(* When the guarded solves scale is a choice.  A complex T has no 2x2      *)
(* blocks, which is the case sub = {}.                                     *)
(***************************************************************************)
EXTENDS SchurForm, FiniteSetsExt

VARIABLES
  pc,
  ki,         \* rows whose eigenvectors are not solved yet
  rows,       \* jj + 1: rows the current vectors still have to be solved for
  taken,      \* taken[c][r][j]: times x[j] t[r, j] was subtracted from x[r, c]
  level,      \* level[c][r]: scalings contained in x[r, c]
  holds,      \* holds[c][r]: what x[r, c] is: "zero", "rhs" or "component"
  groups,     \* history: the sets of columns solved together
  kn, normed  \* the normalization: its column, the sets normalized together

T == <<n, sub>>
X == <<taken, level, holds>>
vars == <<T, pc, ki, rows, X, groups, kn, normed>>

Init ==
  /\ n \in 0..MaxN
  /\ sub \in Blocks2x2
  /\ pc = "group"
  /\ ki = n /\ rows = 0
  /\ taken = [c \in Idx |-> [r \in Idx |-> [j \in Idx |-> 0]]]
  /\ level = [c \in Idx |-> [r \in Idx |-> 0]]
  /\ holds = [c \in Idx |-> [r \in Idx |-> "zero"]]
  /\ groups = {}
  /\ kn = 0 /\ normed = {}

(* The diagonal block that ends in row last: t[(last, last - 1)] # 0. *)
BlockEnding(last) == IF last - 1 \in sub THEN {last - 1, last} ELSE {last}

Group == BlockEnding(ki - 1)

(***************************************************************************)
(* The vectors of a block start with one component on the diagonal of each *)
(* column, the real part first, and right-hand sides -x t above the block. *)
(* Of a pair the entry beside it is set to zero in both columns.           *)
(***************************************************************************)
Started(c) ==
  [r \in Idx |-> IF r < Min(Group) THEN "rhs"
                 ELSE IF r = c THEN "component"
                 ELSE IF r \in Group THEN "zero" ELSE holds[c][r]]

Subtracted(cols, fromRows, products) ==
  [c \in Idx |-> IF c \notin cols THEN taken[c]
    ELSE [r \in Idx |-> IF r \notin fromRows THEN taken[c][r]
      ELSE [j \in Idx |-> taken[c][r][j] + (IF j \in products[c] THEN 1 ELSE 0)]]]

StartVectors ==
  /\ pc = "group"
  /\ ki > 0
  /\ rows' = Min(Group)
  /\ holds' = [c \in Idx |-> IF c \in Group THEN Started(c) ELSE holds[c]]
  /\ taken' = Subtracted(Group, 0..Min(Group)-1, [c \in Group |-> {c}])
  /\ pc' = "solve"
  /\ UNCHANGED <<T, ki, level, groups, kn, normed>>

(***************************************************************************)
(* One step of the substitution: laln2 (in ctrevc the guarded division)    *)
(* solves for the rows of one diagonal block and may scale: the new        *)
(* components contain the scaling, the rest of the vectors is scaled after *)
(* it, and the block's columns of T, times the new components, are         *)
(* subtracted above the block.                                             *)
(***************************************************************************)
ScaledRows_Remaining == 0..rows-1
ScaledRows == 0..ki-1

AboveBlock_SecondRow(block) == 0..Max(block)-1
AboveBlock(block) == 0..Min(block)-1

(* The rows of X that receive the components of a block. *)
StoredRows_SecondRow(block) == {Max(block)}
StoredRows(block) == block

laln2(block) ==
  {level, [c \in Idx |-> [r \in Idx |->
             level[c][r] + (IF c \in Group /\ r \in ScaledRows \union block THEN 1 ELSE 0)]]}

SolveBlock ==
  /\ pc = "solve"
  /\ rows > 0
  /\ LET block == BlockEnding(rows - 1)
     IN  /\ level' \in laln2(block)
         /\ taken' = Subtracted(Group, AboveBlock(block), [c \in Group |-> block])
         /\ holds' = [c \in Idx |-> [r \in Idx |->
              IF c \in Group /\ r \in StoredRows(block) THEN "component" ELSE holds[c][r]]]
         /\ rows' = Min(block)
  /\ UNCHANGED <<T, pc, ki, groups, kn, normed>>

NextGroup ==
  /\ pc = "solve"
  /\ rows = 0
  /\ ki' = Min(Group)
  /\ groups' = groups \union {Group}
  /\ pc' = "group"
  /\ UNCHANGED <<T, rows, X, kn, normed>>

(* V = Z X, a product that reads only the upper triangle of X. *)
BackTransform ==
  /\ pc = "group"
  /\ ki = 0
  /\ pc' = "normalize"
  /\ UNCHANGED <<T, ki, rows, X, groups, kn, normed>>

(* The largest component of a vector, or of both its columns, becomes 1. *)
BlockStarting_OneColumn(first) == {first}
BlockStarting(first) == IF first \in sub THEN {first, first + 1} ELSE {first}

Normalize ==
  /\ pc = "normalize"
  /\ kn < n
  /\ LET cols == BlockStarting(kn)
     IN  normed' = normed \union {cols} /\ kn' = Max(cols) + 1
  /\ UNCHANGED <<T, pc, ki, rows, X, groups>>

Finish ==
  /\ pc = "normalize"
  /\ kn = n
  /\ pc' = "done"
  /\ UNCHANGED <<T, ki, rows, X, groups, kn, normed>>

Done == pc = "done" /\ UNCHANGED vars

Step == StartVectors \/ SolveBlock \/ NextGroup \/ BackTransform \/ Normalize \/ Finish
Next == Step \/ Done
Spec == Init /\ [][Next]_vars

-----------------------------------------------------------------------------
Vectors == groups \union (IF pc = "solve" THEN {Group} ELSE {})
Unsolved(g) == IF g \in groups THEN 0 ELSE rows
BlockOf(row) == IF row \in sub THEN {row, row + 1} ELSE BlockEnding(row)

(***************************************************************************)
(* A component is computed from its row of (T - w I) x = 0 with every      *)
(* product to the right of its diagonal block subtracted exactly once, and *)
(* is not changed after that; the block's own columns are left to the 2x2  *)
(* solve.  Of a pair's own columns, the real part has only the first       *)
(* entry and the imaginary part only the second.                           *)
(***************************************************************************)
SubstitutedOnce ==
  \A g \in Vectors : \A c \in g : \A r \in Unsolved(g)..Min(g)-1 : \A j \in Idx :
    taken[c][r][j] = IF j = c \/ (j < Min(g) /\ j > Max(BlockOf(r))) THEN 1 ELSE 0

(***************************************************************************)
(* The anti-overflow scaling never distorts a vector: all its components,  *)
(* solved or not, in both columns of a pair, contain the same scalings.    *)
(***************************************************************************)
ScaledAlike ==
  \A g \in Vectors : \A c, d \in g, r, q \in 0..Max(g) : level[c][r] = level[d][q]

(***************************************************************************)
(* What the triangular product reads of X, and what it does not: when the  *)
(* substitutions are over, every row above the column's block holds a      *)
(* component and none a right-hand side that was never solved for, the     *)
(* block itself only the entry the vector started from, and nothing is     *)
(* left below the diagonal, where the product would not see it (the claim  *)
(* of eigvec.rs that pair columns "don't dip below the diagonal").         *)
(***************************************************************************)
TriangularProductReadsComponents ==
  pc \in {"normalize", "done"} => \A c, r \in Idx :
    holds[c][r] = IF r < Min(BlockOf(c)) \/ r = c THEN "component" ELSE "zero"

(***************************************************************************)
(* The pairs found bottom-up when solving are the pairs found top-down     *)
(* when normalizing: no column is left out, none is scaled apart from the  *)
(* other part of its vector.                                               *)
(***************************************************************************)
NormalizedAsSolved ==
  /\ normed \subseteq groups
  /\ pc = "done" => normed = groups /\ UNION groups = Idx
=============================================================================
