-------------------------- MODULE SchurForm_proofs --------------------------
(***************************************************************************)
(* Theorems about the components that make and use a Schur form: EigVec,   *)
(* SchurReorder and SchurPipeline, for every order, every arrangement of   *)
(* the diagonal blocks, and every crossover and threshold.                 *)
(***************************************************************************)
EXTENDS EigVec, SchurReorder, SchurPipeline, TLAPS

-----------------------------------------------------------------------------
(***************************************************************************)
(* EigVec: the eigenvectors.                                               *)
(***************************************************************************)

TypeOK ==
  /\ n \in 0..MaxN
  /\ sub \subseteq 0..n-2 /\ \A r \in sub : r + 1 \notin sub
  /\ pc \in {"group", "solve", "normalize", "done"}
  /\ ki \in 0..n /\ rows \in 0..n /\ kn \in 0..n
  /\ taken \in [Idx -> [Idx -> [Idx -> Nat]]]
  /\ level \in [Idx -> [Idx -> Nat]]
  /\ holds \in [Idx -> [Idx -> {"zero", "rhs", "component"}]]

(* The diagonal block row c belongs to. *)
FirstRow(c) == IF c - 1 \in sub THEN c - 1 ELSE c
LastRow(c) == IF c \in sub THEN c + 1 ELSE c
Block(c) == FirstRow(c)..LastRow(c)

(***************************************************************************)
(* The loops stop between blocks only: no 2x2 block lies across ki, rows   *)
(* or kn.  The columns from ki on are solved, the first kn normalized.     *)
(***************************************************************************)
Position ==
  /\ ki - 1 \notin sub /\ kn - 1 \notin sub
  /\ pc = "solve" => ki > 0 /\ rows <= FirstRow(ki - 1) /\ rows - 1 \notin sub
  /\ pc \in {"group", "solve"} => kn = 0
  /\ pc \in {"normalize", "done"} => ki = 0
  /\ pc = "done" => kn = n

Grouped ==
  /\ groups = {Block(c) : c \in ki..n-1}
  /\ normed = {Block(c) : c \in 0..kn-1}

(* Column c when its vector is solved for the rows from u on. *)
SolvedFrom(c, u) ==
  \A r \in 0..FirstRow(c)-1, s \in Idx :
    taken[c][r][s] = IF s = c \/ (s < FirstRow(c) /\ s >= u /\ s > LastRow(r)) THEN 1 ELSE 0

Alike(c) ==
  \A d \in Block(c), r \in 0..LastRow(c), s \in 0..LastRow(c) : level[c][r] = level[d][s]

(* The columns of vectors that have not been started. *)
Unstarted == IF pc = "solve" THEN FirstRow(ki - 1) ELSE ki

Columns ==
  \A c \in Idx :
    /\ c >= ki => SolvedFrom(c, 0)
    /\ pc = "solve" /\ c \in Block(ki - 1) => SolvedFrom(c, rows)
    /\ c >= Unstarted => Alike(c)
    /\ c < Unstarted => \A r \in Idx : level[c][r] = 0 /\ \A s \in Idx : taken[c][r][s] = 0

(* What column c of X holds when its vector is solved for the rows from u on. *)
Filled(c, u) ==
  \A r \in Idx :
    holds[c][r] = IF r = c \/ (u <= r /\ r < FirstRow(c)) THEN "component"
                  ELSE IF r < FirstRow(c) THEN "rhs" ELSE "zero"

Contents ==
  \A c \in Idx :
    /\ c >= ki => Filled(c, 0)
    /\ pc = "solve" /\ c \in Block(ki - 1) => Filled(c, rows)
    /\ c < Unstarted => \A r \in Idx : holds[c][r] = "zero"

IInv == TypeOK /\ Position /\ Grouped /\ Columns /\ Contents

-----------------------------------------------------------------------------
(* The blocks partition the rows. *)
LEMMA BlockFacts ==
  ASSUME TypeOK, NEW c \in Idx
  PROVE  /\ FirstRow(c) \in Idx /\ LastRow(c) \in Idx /\ FirstRow(c) <= c /\ c <= LastRow(c)
         /\ FirstRow(c) - 1 \notin sub /\ LastRow(c) \notin sub
         /\ BlockOf(c) = Block(c)
         /\ c \notin sub => BlockEnding(c) = Block(c) /\ LastRow(c) = c
         /\ c - 1 \notin sub => BlockStarting(c) = Block(c) /\ FirstRow(c) = c
         /\ \A d \in Block(c) : d \in Idx /\ FirstRow(d) = FirstRow(c) /\ LastRow(d) = LastRow(c)
<1>1. n \in Nat /\ c \in Nat /\ c < n /\ \A r \in sub : r \in Nat /\ r + 1 < n /\ r + 1 \notin sub
  BY DEF TypeOK, Idx
<1>2. CASE c \in sub
  <2>1. c - 1 \notin sub /\ c + 1 \notin sub /\ c + 1 < n
    BY <1>1, <1>2
  <2>2. FirstRow(c) = c /\ LastRow(c) = c + 1
    BY <1>2, <2>1 DEF FirstRow, LastRow
  <2>3. \A d : d \in Block(c) <=> d = c \/ d = c + 1
    BY <1>1, <2>2 DEF Block
  <2>4. FirstRow(c + 1) = c /\ LastRow(c + 1) = c + 1
    BY <1>1, <1>2, <2>1 DEF FirstRow, LastRow
  <2>5. BlockOf(c) = Block(c) /\ BlockStarting(c) = Block(c)
    BY <1>2, <2>3 DEF BlockOf, BlockStarting
  <2> QED
    BY <1>1, <1>2, <2>1, <2>2, <2>3, <2>4, <2>5 DEF Idx
<1>3. CASE c \notin sub /\ c - 1 \in sub
  <2>1. c - 2 \notin sub /\ c - 1 \in Nat
    BY <1>1, <1>3
  <2>2. FirstRow(c) = c - 1 /\ LastRow(c) = c
    BY <1>3 DEF FirstRow, LastRow
  <2>3. \A d : d \in Block(c) <=> d = c - 1 \/ d = c
    BY <1>1, <2>1, <2>2 DEF Block
  <2>4. FirstRow(c - 1) = c - 1 /\ LastRow(c - 1) = c
    BY <1>1, <1>3, <2>1 DEF FirstRow, LastRow
  <2>5. BlockOf(c) = Block(c) /\ BlockEnding(c) = Block(c)
    BY <1>3, <2>3 DEF BlockOf, BlockEnding
  <2> QED
    BY <1>1, <1>3, <2>1, <2>2, <2>3, <2>4, <2>5 DEF Idx
<1>4. CASE c \notin sub /\ c - 1 \notin sub
  <2>1. FirstRow(c) = c /\ LastRow(c) = c
    BY <1>4 DEF FirstRow, LastRow
  <2>2. \A d : d \in Block(c) <=> d = c
    BY <1>1, <2>1 DEF Block
  <2>3. BlockOf(c) = Block(c) /\ BlockEnding(c) = Block(c) /\ BlockStarting(c) = Block(c)
    BY <1>4, <2>2 DEF BlockOf, BlockEnding, BlockStarting
  <2> QED
    BY <1>1, <1>4, <2>1, <2>2, <2>3 DEF Idx
<1> QED
  BY <1>2, <1>3, <1>4

LEMMA BlockExtremes ==
  ASSUME TypeOK, NEW c \in Idx
  PROVE  Min(Block(c)) = FirstRow(c) /\ Max(Block(c)) = LastRow(c)
<1>1. FirstRow(c) \in Int /\ LastRow(c) \in Int /\ FirstRow(c) <= LastRow(c)
  <2>1. /\ FirstRow(c) \in Idx /\ LastRow(c) \in Idx
        /\ FirstRow(c) <= c /\ c <= LastRow(c)
    BY BlockFacts
  <2> QED
    BY <2>1 DEF Idx
<1> DEFINE S == Block(c)
<1>2. FirstRow(c) \in S /\ LastRow(c) \in S /\ \A y \in S : FirstRow(c) <= y /\ y <= LastRow(c) /\ y \in Int
  BY <1>1 DEF Block
<1> HIDE DEF S
<1>3. Min(S) \in S /\ \A y \in S : Min(S) <= y
  BY <1>2 DEF Min
<1>4. Max(S) \in S /\ \A y \in S : Max(S) >= y
  BY <1>2 DEF Max
<1>5. Min(S) = FirstRow(c)
  BY <1>1, <1>2, <1>3
<1>6. Max(S) = LastRow(c)
  BY <1>1, <1>2, <1>4
<1> QED
  BY <1>5, <1>6 DEF S

(* What the actions name Group and block are blocks of T. *)
LEMMA GroupFacts ==
  ASSUME TypeOK, NEW e \in 1..n, e - 1 \notin sub
  PROVE  /\ e - 1 \in Idx /\ BlockEnding(e - 1) = Block(e - 1)
         /\ Min(Block(e - 1)) = FirstRow(e - 1)
         /\ FirstRow(e - 1) \in 0..e-1 /\ FirstRow(e - 1) - 1 \notin sub
         /\ Block(e - 1) = FirstRow(e - 1)..e-1 /\ LastRow(e - 1) = e - 1
         /\ \A d \in Block(e - 1) : d \in Idx /\ Block(d) = Block(e - 1)
                                    /\ FirstRow(d) = FirstRow(e - 1) /\ LastRow(d) = e - 1
<1>1. e - 1 \in Idx
  BY DEF TypeOK, Idx
<1>2. /\ FirstRow(e - 1) \in Idx /\ FirstRow(e - 1) <= e - 1 /\ FirstRow(e - 1) - 1 \notin sub
      /\ BlockEnding(e - 1) = Block(e - 1) /\ LastRow(e - 1) = e - 1
      /\ \A d \in Block(e - 1) : d \in Idx /\ FirstRow(d) = FirstRow(e - 1)
                                 /\ LastRow(d) = LastRow(e - 1)
  BY <1>1, BlockFacts
<1>3. FirstRow(e - 1) \in 0..e-1
  BY <1>2 DEF Idx
<1>4. Min(Block(e - 1)) = FirstRow(e - 1)
  BY <1>1, BlockExtremes
<1> QED
  BY <1>1, <1>2, <1>3, <1>4 DEF Block

(* Subtracted adds one to the products named, and changes nothing else. *)
LEMMA SubtractedEntries ==
  ASSUME TypeOK, NEW cols, NEW fromRows, NEW products
  PROVE  /\ Subtracted(cols, fromRows, products) \in [Idx -> [Idx -> [Idx -> Nat]]]
         /\ \A c \in Idx, r \in Idx, s \in Idx :
              Subtracted(cols, fromRows, products)[c][r][s] =
                IF c \in cols /\ r \in fromRows /\ s \in products[c]
                THEN taken[c][r][s] + 1 ELSE taken[c][r][s]
<1>1. \A c \in Idx, r \in Idx, s \in Idx :
        taken[c] \in [Idx -> [Idx -> Nat]] /\ taken[c][r] \in [Idx -> Nat] /\ taken[c][r][s] \in Nat
  BY DEF TypeOK
<1> HIDE DEF Idx
<1>2. \A c \in Idx, r \in Idx, s \in Idx :
        Subtracted(cols, fromRows, products)[c][r][s] =
          IF c \in cols /\ r \in fromRows
          THEN taken[c][r][s] + (IF s \in products[c] THEN 1 ELSE 0) ELSE taken[c][r][s]
  BY DEF Subtracted
<1>3. \A c \in Idx, r \in Idx, s \in Idx :
        Subtracted(cols, fromRows, products)[c][r][s] =
          IF c \in cols /\ r \in fromRows /\ s \in products[c]
          THEN taken[c][r][s] + 1 ELSE taken[c][r][s]
  BY <1>1, <1>2
<1>4. Subtracted(cols, fromRows, products) \in [Idx -> [Idx -> [Idx -> Nat]]]
  BY <1>1 DEF Subtracted
<1> QED
  BY <1>3, <1>4

LEMMA InitIInv == Init => IInv
<1> SUFFICES ASSUME Init
             PROVE  IInv
  OBVIOUS
<1>1. n \in Nat
  BY OrderAssumption DEF Init
<1>2. TypeOK
  BY <1>1 DEF Init, TypeOK, Idx, Blocks2x2, Quasi
<1>3. Position
  BY <1>1 DEF Init, Position, Blocks2x2
<1>4. Grouped
  BY <1>1 DEF Init, Grouped
<1>5. Columns
  BY <1>1 DEF Init, Columns, Unstarted, Idx
<1>6. Contents
  BY <1>1 DEF Init, Contents, Unstarted, Idx
<1> QED
  BY <1>2, <1>3, <1>4, <1>5, <1>6 DEF IInv

(* The vectors of the next block start at its own rows. *)
LEMMA StartKeeps == IInv /\ StartVectors => IInv'
<1> SUFFICES ASSUME IInv, StartVectors
             PROVE  IInv'
  OBVIOUS
<1> DEFINE F == FirstRow(ki - 1)
<1>0. /\ TypeOK /\ ki \in 1..n /\ ki - 1 \notin sub /\ n \in Nat
      /\ pc = "group" /\ pc' = "solve"
      /\ UNCHANGED <<n, sub, ki, level, groups, kn, normed>>
  BY OrderAssumption DEF IInv, TypeOK, Position, StartVectors, T
<1>1. /\ Group = Block(ki - 1) /\ Min(Group) = F
      /\ F \in 0..ki-1 /\ F - 1 \notin sub /\ Block(ki - 1) = F..ki-1
      /\ \A d \in Block(ki - 1) : d \in Idx /\ FirstRow(d) = F /\ LastRow(d) = ki - 1
  BY <1>0, GroupFacts DEF Group
<1>2. /\ rows' = F
      /\ taken' = Subtracted(Block(ki - 1), 0..F-1, [c \in Block(ki - 1) |-> {c}])
      /\ holds' = [c \in Idx |-> IF c \in Block(ki - 1) THEN Started(c) ELSE holds[c]]
  BY <1>1 DEF StartVectors
<1>3. /\ Idx' = Idx /\ \A c : FirstRow(c)' = FirstRow(c) /\ LastRow(c)' = LastRow(c)
      /\ \A c : Block(c)' = Block(c)
  BY <1>0 DEF Idx, FirstRow, LastRow, Block
<1>4. \A c \in Idx, r \in Idx, s \in Idx :
        taken'[c][r][s] = IF c \in Block(ki - 1) /\ r < F /\ s = c
                          THEN taken[c][r][s] + 1 ELSE taken[c][r][s]
  <2> DEFINE P == [c \in Block(ki - 1) |-> {c}]
  <2>1. \A c \in Block(ki - 1), s \in Idx : s \in P[c] <=> s = c
    OBVIOUS
  <2>2. \A r \in Idx : r \in 0..F-1 <=> r < F
    BY <1>0, <1>1 DEF Idx
  <2>3. taken' = Subtracted(Block(ki - 1), 0..F-1, P)
    BY <1>2
  <2> HIDE DEF P, F
  <2>4. \A c \in Idx, r \in Idx, s \in Idx :
          taken'[c][r][s] = IF c \in Block(ki - 1) /\ r \in 0..F-1 /\ s \in P[c]
                            THEN taken[c][r][s] + 1 ELSE taken[c][r][s]
    <3> DEFINE rs == 0..F-1
               cs == Block(ki - 1)
    <3> HIDE DEF rs, cs
    <3>1. \A c \in Idx, r \in Idx, s \in Idx :
            Subtracted(cs, rs, P)[c][r][s] =
              IF c \in cs /\ r \in rs /\ s \in P[c] THEN taken[c][r][s] + 1 ELSE taken[c][r][s]
      BY <1>0, SubtractedEntries
    <3> QED
      BY <2>3, <3>1 DEF rs, cs
  <2> QED
    BY <2>1, <2>2, <2>4
<1>5. taken' \in [Idx -> [Idx -> [Idx -> Nat]]]
  BY <1>0, <1>2, SubtractedEntries
<1> HIDE DEF F
<1>6. TypeOK'
  <2>1. rows' \in 0..n
    BY <1>0, <1>1, <1>2
  <2>2. taken' \in [Idx' -> [Idx' -> [Idx' -> Nat]]] /\ level' \in [Idx' -> [Idx' -> Nat]]
    BY <1>0, <1>3, <1>5 DEF TypeOK
  <2>3. holds' \in [Idx' -> [Idx' -> {"zero", "rhs", "component"}]]
    <3>1. \A c \in Idx : holds[c] \in [Idx -> {"zero", "rhs", "component"}]
      BY <1>0 DEF TypeOK
    <3>2. \A c \in Idx : Started(c) \in [Idx -> {"zero", "rhs", "component"}]
      BY <3>1 DEF Started
    <3> QED
      BY <1>2, <1>3, <3>1, <3>2
  <2> QED
    BY <1>0, <2>1, <2>2, <2>3 DEF TypeOK
<1>7. Position'
  BY <1>0, <1>1, <1>2, <1>3 DEF IInv, Position, F
<1>8. Grouped'
  BY <1>0, <1>3 DEF IInv, Grouped
<1>9. Columns'
  <2> SUFFICES ASSUME NEW c \in Idx
               PROVE  /\ c >= ki => SolvedFrom(c, 0)'
                      /\ c \in Block(ki - 1) => SolvedFrom(c, rows)'
                      /\ c >= F => Alike(c)'
                      /\ c < F => \A r \in Idx : /\ level[c][r] = 0
                                                 /\ \A s \in Idx : taken'[c][r][s] = 0
    BY <1>0, <1>3 DEF Columns, Unstarted, F
  <2>0. c \in Nat /\ FirstRow(c) \in Idx /\ LastRow(c) \in Idx /\ FirstRow(c) <= c
    BY <1>0, BlockFacts DEF Idx
  <2>1. /\ c >= ki => SolvedFrom(c, 0) /\ Alike(c)
        /\ c < ki => \A r \in Idx : level[c][r] = 0 /\ \A s \in Idx : taken[c][r][s] = 0
    BY <1>0 DEF IInv, Columns, Unstarted
  <2>2. c >= ki => SolvedFrom(c, 0)'
    <3>1. c >= ki => \A r \in Idx, s \in Idx : taken'[c][r][s] = taken[c][r][s]
      BY <1>0, <1>1, <1>4, <2>0
    <3>2. \A r \in 0..FirstRow(c)-1 : r \in Idx
      BY <1>0, <2>0 DEF Idx
    <3> QED
      BY <1>3, <2>1, <3>1, <3>2 DEF SolvedFrom
  <2>3. c \in Block(ki - 1) => SolvedFrom(c, rows)'
    <3>1. c \in Block(ki - 1) => FirstRow(c) = F /\ c < ki
      BY <1>0, <1>1
    <3>2. \A r \in 0..F-1 : r \in Idx /\ r < F
      BY <1>0, <1>1 DEF Idx
    <3>3. \A s \in Idx : ~(s < F /\ s >= F)
      BY <1>0, <1>1 DEF Idx
    <3>4. c \in Block(ki - 1) => \A r \in 0..F-1, s \in Idx : taken'[c][r][s] = IF s = c THEN 1 ELSE 0
      BY <1>4, <2>1, <3>1, <3>2
    <3> QED
      BY <1>2, <1>3, <3>1, <3>3, <3>4 DEF SolvedFrom
  <2>4. c >= F => Alike(c)'
    <3>1. CASE c >= ki
      BY <1>0, <1>3, <2>1, <3>1 DEF Alike
    <3>2. CASE c >= F /\ c < ki
      <4>1. c \in Block(ki - 1) /\ Block(c) = Block(ki - 1)
        BY <1>0, <1>1, <2>0, <3>2, GroupFacts
      <4>2. \A d \in Block(c), r \in Idx : level[d][r] = 0
        <5>1. \A d \in Block(c) : d \in Idx /\ d < ki
          BY <1>0, <1>1, <4>1
        <5> QED
          BY <1>0, <5>1 DEF IInv, Columns, Unstarted
      <4>3. \A r \in 0..LastRow(c) : r \in Idx
        BY <1>0, <2>0 DEF Idx
      <4> QED
        BY <1>0, <1>3, <4>1, <4>2, <4>3 DEF Alike
    <3> QED
      BY <1>0, <2>0, <3>1, <3>2
  <2>5. c < F => c < ki /\ c \notin Block(ki - 1)
    BY <1>0, <1>1, <2>0
  <2> QED
    BY <1>4, <2>1, <2>2, <2>3, <2>4, <2>5
<1>10. Contents'
  <2> SUFFICES ASSUME NEW c \in Idx
               PROVE  /\ c >= ki => Filled(c, 0)'
                      /\ c \in Block(ki - 1) => Filled(c, rows)'
                      /\ c < F => \A r \in Idx : holds'[c][r] = "zero"
    BY <1>0, <1>3 DEF Contents, Unstarted, F
  <2>0. c \in Nat /\ \A r \in Idx : r \in Nat
    BY DEF Idx
  <2>1. /\ c >= ki => Filled(c, 0)
        /\ c < ki => \A r \in Idx : holds[c][r] = "zero"
    BY <1>0 DEF IInv, Contents, Unstarted
  <2>2. c \notin Block(ki - 1) => holds'[c] = holds[c]
    BY <1>2
  <2>3. c >= ki \/ c < F => c \notin Block(ki - 1)
    BY <1>0, <1>1, <2>0
  <2>4. c >= ki => Filled(c, 0)'
    BY <1>3, <2>1, <2>2, <2>3 DEF Filled
  <2>5. c < F => \A r \in Idx : holds'[c][r] = "zero"
    <3>1. c < F => c < ki
      BY <1>0, <1>1, <2>0
    <3> QED
      BY <2>1, <2>2, <2>3, <3>1
  <2>6. ASSUME c \in Block(ki - 1)
        PROVE  Filled(c, rows)'
    <3>1. FirstRow(c) = F /\ c < ki /\ F \in Nat
      BY <1>0, <1>1, <2>6
    <3>2. holds'[c] = Started(c) /\ \A r \in Idx : holds[c][r] = "zero"
      BY <1>2, <2>1, <2>6, <3>1
    <3>3. F <= c /\ Min(Group) = F
      <4>1. c \in F..ki-1 /\ Min(Group) = F
        BY <1>1, <2>6
      <4> QED
        BY <2>0, <3>1, <4>1
    <3> HIDE DEF F
    <3>4. ASSUME NEW r \in Idx
          PROVE  holds'[c][r] = IF r = c \/ (F <= r /\ r < F) THEN "component"
                                ELSE IF r < F THEN "rhs" ELSE "zero"
      <4>1. r \in Nat /\ ~(F <= r /\ r < F) /\ (r = c => ~(r < F))
        BY <2>0, <3>1, <3>3
      <4>2. holds'[c][r] = IF r < F THEN "rhs" ELSE IF r = c THEN "component" ELSE "zero"
        BY <3>2, <3>3 DEF Started
      <4> QED
        BY <4>1, <4>2
    <3>5. rows' = F /\ FirstRow(c)' = F /\ Idx' = Idx
      BY <1>2, <1>3, <3>1 DEF F
    <3> QED
      BY <3>4, <3>5 DEF Filled
  <2> QED
    BY <2>4, <2>5, <2>6
<1> QED
  BY <1>6, <1>7, <1>8, <1>9, <1>10 DEF IInv

(* Subtracting a solved block above itself solves for one block more. *)
LEMMA SolveKeeps == IInv /\ SolveBlock => IInv'
<1> SUFFICES ASSUME IInv, SolveBlock
             PROVE  IInv'
  OBVIOUS
<1> DEFINE F == FirstRow(ki - 1)
           E == FirstRow(rows - 1)
           B == Block(ki - 1)
<1>0. /\ TypeOK /\ ki \in 1..n /\ ki - 1 \notin sub /\ n \in Nat
      /\ rows \in 1..n /\ rows - 1 \notin sub /\ rows <= F
      /\ pc = "solve" /\ pc' = "solve"
      /\ UNCHANGED <<n, sub, ki, groups, kn, normed>>
  BY OrderAssumption DEF IInv, TypeOK, Position, SolveBlock, T
<1>1. /\ Group = B /\ F \in 0..ki-1 /\ B = F..ki-1
      /\ \A d \in B : d \in Idx /\ Block(d) = B /\ FirstRow(d) = F /\ LastRow(d) = ki - 1
  BY <1>0, GroupFacts DEF Group
<1>2. /\ BlockEnding(rows - 1) = Block(rows - 1) /\ Min(Block(rows - 1)) = E
      /\ E \in 0..rows-1 /\ E - 1 \notin sub /\ Block(rows - 1) = E..rows-1
      /\ \A d \in Block(rows - 1) : LastRow(d) = rows - 1
  BY <1>0, GroupFacts
<1>3. /\ rows' = E
      /\ taken' = Subtracted(B, 0..E-1, [c \in B |-> E..rows-1])
      /\ \/ level' = level
         \/ level' = [c \in Idx |-> [r \in Idx |->
              level[c][r] + (IF c \in B /\ r \in (0..ki-1) \union (E..rows-1) THEN 1 ELSE 0)]]
      /\ holds' = [c \in Idx |-> [r \in Idx |->
           IF c \in B /\ r \in E..rows-1 THEN "component" ELSE holds[c][r]]]
  <2> DEFINE blk == E..rows-1
  <2>1. BlockEnding(rows - 1) = blk /\ Min(blk) = E
    BY <1>2
  <2> HIDE DEF blk, E
  <2>2. /\ level' \in laln2(blk)
        /\ taken' = Subtracted(Group, 0..E-1, [c \in Group |-> blk])
        /\ rows' = E
        /\ holds' = [c \in Idx |-> [r \in Idx |->
             IF c \in Group /\ r \in blk THEN "component" ELSE holds[c][r]]]
    BY <2>1 DEF SolveBlock, AboveBlock, StoredRows
  <2>3. Group = B
    BY <1>1
  <2> HIDE DEF B
  <2>4. \/ level' = level
        \/ level' = [c \in Idx |-> [r \in Idx |->
             level[c][r] + (IF c \in B /\ r \in (0..ki-1) \union blk THEN 1 ELSE 0)]]
    BY <2>2, <2>3 DEF laln2, ScaledRows
  <2> QED
    BY <2>2, <2>3, <2>4 DEF blk
<1>4. /\ Idx' = Idx /\ \A c : FirstRow(c)' = FirstRow(c) /\ LastRow(c)' = LastRow(c)
      /\ \A c : Block(c)' = Block(c)
  BY <1>0 DEF Idx, FirstRow, LastRow, Block
<1>5. \A c \in Idx, r \in Idx, s \in Idx :
        taken'[c][r][s] = IF c \in B /\ r < E /\ s >= E /\ s < rows
                          THEN taken[c][r][s] + 1 ELSE taken[c][r][s]
  <2> DEFINE P == [c \in B |-> E..rows-1]
  <2>1. \A c \in B, s \in Idx : s \in P[c] <=> s >= E /\ s < rows
    BY <1>0, <1>2 DEF Idx
  <2>2. \A r \in Idx : r \in 0..E-1 <=> r < E
    BY <1>0, <1>2 DEF Idx
  <2>3. taken' = Subtracted(B, 0..E-1, P)
    BY <1>3
  <2> DEFINE rs == 0..E-1
  <2> HIDE DEF P, E, B, rs
  <2>4. \A c \in Idx, r \in Idx, s \in Idx :
          Subtracted(B, rs, P)[c][r][s] =
            IF c \in B /\ r \in rs /\ s \in P[c] THEN taken[c][r][s] + 1 ELSE taken[c][r][s]
    BY <1>0, SubtractedEntries
  <2> QED
    BY <2>1, <2>2, <2>3, <2>4 DEF rs
<1>6. taken' \in [Idx -> [Idx -> [Idx -> Nat]]]
  BY <1>0, <1>3, SubtractedEntries
<1>7. \/ level' = level
      \/ /\ level' \in [Idx -> [Idx -> Nat]]
         /\ \A c \in Idx, r \in Idx :
              level'[c][r] = IF c \in B /\ r < ki THEN level[c][r] + 1 ELSE level[c][r]
  <2> SUFFICES ASSUME level' # level
               PROVE  /\ level' \in [Idx -> [Idx -> Nat]]
                      /\ \A c \in Idx, r \in Idx :
                           level'[c][r] = IF c \in B /\ r < ki THEN level[c][r] + 1 ELSE level[c][r]
    OBVIOUS
  <2> DEFINE rs == (0..ki-1) \union (E..rows-1)
  <2>1. level' = [c \in Idx |-> [r \in Idx |->
                    level[c][r] + (IF c \in B /\ r \in rs THEN 1 ELSE 0)]]
    BY <1>3
  <2>2. \A r \in Idx : r \in rs <=> r < ki
    BY <1>0, <1>1, <1>2 DEF Idx
  <2>3. \A c \in Idx, r \in Idx : level[c] \in [Idx -> Nat] /\ level[c][r] \in Nat
    BY <1>0 DEF TypeOK
  <2> HIDE DEF rs, B
  <2>4. level' \in [Idx -> [Idx -> Nat]]
    BY <2>1, <2>3
  <2> QED
    BY <2>1, <2>2, <2>3, <2>4
<1> HIDE DEF E
<1>8. TypeOK'
  <2>1. rows' \in 0..n
    BY <1>0, <1>2, <1>3
  <2>2. taken' \in [Idx' -> [Idx' -> [Idx' -> Nat]]] /\ level' \in [Idx' -> [Idx' -> Nat]]
    BY <1>0, <1>4, <1>6, <1>7 DEF TypeOK
  <2>3. holds' \in [Idx' -> [Idx' -> {"zero", "rhs", "component"}]]
    <3>1. \A c, r \in Idx : holds[c][r] \in {"zero", "rhs", "component"}
      BY <1>0 DEF TypeOK
    <3> HIDE DEF B
    <3> QED
      BY <1>3, <1>4, <3>1
  <2> QED
    BY <1>0, <2>1, <2>2, <2>3 DEF TypeOK
<1>9. Position'
  <2>1. rows' <= F /\ rows' - 1 \notin sub
    BY <1>0, <1>1, <1>2, <1>3
  <2> QED
    BY <1>0, <1>4, <2>1 DEF IInv, Position
<1>10. Grouped'
  BY <1>0, <1>4 DEF IInv, Grouped
<1>11. Columns'
  <2> SUFFICES ASSUME NEW c \in Idx
               PROVE  /\ c >= ki => SolvedFrom(c, 0)'
                      /\ c \in B => SolvedFrom(c, rows)'
                      /\ c >= F => Alike(c)'
                      /\ c < F => \A r \in Idx : /\ level'[c][r] = 0
                                                 /\ \A s \in Idx : taken'[c][r][s] = 0
    BY <1>0, <1>4 DEF Columns, Unstarted
  <2>0. /\ c \in Nat /\ FirstRow(c) \in Idx /\ LastRow(c) \in Idx
        /\ FirstRow(c) <= c /\ c <= LastRow(c)
        /\ \A d \in Block(c) : d \in Idx /\ LastRow(d) = LastRow(c)
    BY <1>0, BlockFacts DEF Idx
  <2>1. /\ c >= ki => SolvedFrom(c, 0)
        /\ c \in B => SolvedFrom(c, rows)
        /\ c >= F => Alike(c)
        /\ c < F => \A r \in Idx : level[c][r] = 0 /\ \A s \in Idx : taken[c][r][s] = 0
    BY <1>0 DEF IInv, Columns, Unstarted
  <2>2. c >= ki => SolvedFrom(c, 0)'
    <3>1. c >= ki => \A r \in Idx, s \in Idx : taken'[c][r][s] = taken[c][r][s]
      BY <1>0, <1>1, <1>5, <2>0
    <3>2. \A r \in 0..FirstRow(c)-1 : r \in Idx
      BY <1>0, <2>0 DEF Idx
    <3> QED
      BY <1>4, <2>1, <3>1, <3>2 DEF SolvedFrom
  <2>3. ASSUME c \in B
        PROVE  SolvedFrom(c, rows)'
    <3>1. FirstRow(c) = F /\ c >= F
      BY <1>0, <1>1, <2>3
    <3>2. ASSUME NEW r \in 0..F-1, NEW s \in Idx
          PROVE  taken'[c][r][s] = IF s = c \/ (s < F /\ s >= E /\ s > LastRow(r)) THEN 1 ELSE 0
      <4>1. r \in Idx /\ r \in Nat /\ s \in Nat /\ E \in Nat /\ F \in Nat
        BY <1>0, <1>1, <1>2 DEF Idx
      <4>2. taken[c][r][s] = IF s = c \/ (s < F /\ s >= rows /\ s > LastRow(r)) THEN 1 ELSE 0
        BY <2>1, <2>3, <3>1 DEF SolvedFrom
      <4>3. taken'[c][r][s] = IF r < E /\ s >= E /\ s < rows
                              THEN taken[c][r][s] + 1 ELSE taken[c][r][s]
        BY <1>5, <2>3, <4>1
      <4>4. LastRow(r) \in Nat /\ r <= LastRow(r) /\ LastRow(r) <= r + 1
        BY <4>1 DEF LastRow
      <4>5. r < E => LastRow(r) < E
        BY <1>2, <4>1 DEF LastRow
      <4>6. r >= E /\ r < rows => LastRow(r) = rows - 1
        BY <1>0, <1>2, <4>1
      <4>7. rows \in Nat /\ E < rows /\ rows <= F /\ c \in Nat /\ F <= c
        BY <1>0, <1>2, <2>0, <3>1, <4>1
      <4> HIDE DEF F
      <4>8. CASE s >= E /\ s < rows
        <5>1. s # c /\ s < F /\ taken[c][r][s] = 0
          BY <4>1, <4>2, <4>7, <4>8
        <5>2. r < E <=> s > LastRow(r)
          BY <4>1, <4>4, <4>5, <4>6, <4>7, <4>8
        <5> QED
          BY <4>3, <4>8, <5>1, <5>2
      <4>9. CASE ~(s >= E /\ s < rows)
        <5>1. s >= rows <=> s >= E
          BY <4>1, <4>7, <4>9
        <5> QED
          BY <4>2, <4>3, <4>9, <5>1
      <4> QED
        BY <4>8, <4>9
    <3> QED
      BY <1>3, <1>4, <3>1, <3>2 DEF SolvedFrom
  <2>4. ASSUME c >= F
        PROVE  Alike(c)'
    <3>1. \A d \in Block(c) : d \in Idx /\ (d \in B <=> c \in B)
      <4>1. CASE c \in B
        BY <1>1, <2>0, <4>1
      <4>2. CASE c \notin B
        <5>1. c >= ki
          BY <1>0, <1>1, <2>0, <2>4, <4>2
        <5>2. \A d \in B : LastRow(d) < ki
          BY <1>0, <1>1
        <5>3. \A d \in Block(c) : d \in Idx /\ ~(LastRow(d) < ki)
          BY <1>0, <2>0, <5>1 DEF Idx
        <5> QED
          BY <4>2, <5>2, <5>3
      <4> QED
        BY <4>1, <4>2
    <3>2. \A r \in 0..LastRow(c) : r \in Idx /\ (c \in B => r < ki)
      BY <1>0, <1>1, <2>0 DEF Idx
    <3>3. \A d \in Block(c), r \in 0..LastRow(c), s \in 0..LastRow(c) : level[c][r] = level[d][s]
      BY <2>1, <2>4 DEF Alike
    <3>4. \A d \in Block(c), r \in 0..LastRow(c), s \in 0..LastRow(c) : level'[c][r] = level'[d][s]
      <4> HIDE DEF B
      <4> QED
        BY <1>7, <3>1, <3>2, <3>3
    <3> QED
      BY <1>4, <3>4 DEF Alike
  <2>5. c < F => c \notin B
    BY <1>0, <1>1, <2>0
  <2>6. c < F => \A r \in Idx : level'[c][r] = 0 /\ \A s \in Idx : taken'[c][r][s] = 0
    <3> HIDE DEF B, F
    <3> QED
      BY <1>5, <1>7, <2>1, <2>5
  <2> QED
    BY <2>2, <2>3, <2>4, <2>6
<1>12. Contents'
  <2> SUFFICES ASSUME NEW c \in Idx
               PROVE  /\ c >= ki => Filled(c, 0)'
                      /\ c \in B => Filled(c, rows)'
                      /\ c < F => \A r \in Idx : holds'[c][r] = "zero"
    BY <1>0, <1>4 DEF Contents, Unstarted
  <2>0. c \in Nat /\ \A r \in Idx : r \in Nat
    BY DEF Idx
  <2>1. /\ c >= ki => Filled(c, 0)
        /\ c \in B => Filled(c, rows)
        /\ c < F => \A r \in Idx : holds[c][r] = "zero"
    BY <1>0 DEF IInv, Contents, Unstarted
  <2>2. \A r \in Idx : holds'[c][r] = IF c \in B /\ E <= r /\ r < rows THEN "component" ELSE holds[c][r]
    <3>1. \A r \in Idx : r \in E..rows-1 <=> E <= r /\ r < rows
      BY <1>0, <1>2, <2>0
    <3> HIDE DEF B
    <3> QED
      BY <1>3, <3>1
  <2>3. c >= ki \/ c < F => c \notin B
    BY <1>0, <1>1, <2>0
  <2>4. c >= ki => Filled(c, 0)'
    BY <1>4, <2>1, <2>2, <2>3 DEF Filled
  <2>5. c < F => \A r \in Idx : holds'[c][r] = "zero"
    BY <2>1, <2>2, <2>3
  <2>6. ASSUME c \in B
        PROVE  Filled(c, rows)'
    <3>1. FirstRow(c) = F /\ F <= c /\ F \in Nat
      BY <1>0, <1>1, <2>6
    <3>2. E \in Nat /\ rows \in Nat /\ E < rows /\ rows <= F
      BY <1>0, <1>2
    <3>3. \A r \in Idx : holds[c][r] = IF r = c \/ (rows <= r /\ r < F) THEN "component"
                                       ELSE IF r < F THEN "rhs" ELSE "zero"
      BY <2>1, <2>6, <3>1 DEF Filled
    <3> HIDE DEF F
    <3>4. \A r \in Idx : holds'[c][r] = IF r = c \/ (E <= r /\ r < F) THEN "component"
                                        ELSE IF r < F THEN "rhs" ELSE "zero"
      BY <2>0, <2>2, <2>6, <3>1, <3>2, <3>3
    <3> QED
      BY <1>3, <1>4, <3>1, <3>4 DEF Filled
  <2> QED
    BY <2>4, <2>5, <2>6
<1> QED
  BY <1>8, <1>9, <1>10, <1>11, <1>12 DEF IInv

(* A vector solved down to row 0 is done. *)
LEMMA NextGroupKeeps == IInv /\ NextGroup => IInv'
<1> SUFFICES ASSUME IInv, NextGroup
             PROVE  IInv'
  OBVIOUS
<1> DEFINE F == FirstRow(ki - 1)
           B == Block(ki - 1)
<1>0. /\ TypeOK /\ ki \in 1..n /\ ki - 1 \notin sub /\ n \in Nat
      /\ pc = "solve" /\ pc' = "group" /\ rows = 0 /\ rows' = 0
      /\ UNCHANGED <<n, sub, taken, level, holds, kn, normed>>
  BY OrderAssumption DEF IInv, TypeOK, Position, NextGroup, T, X
<1>1. /\ Group = B /\ Min(Group) = F /\ F \in 0..ki-1 /\ F - 1 \notin sub /\ B = F..ki-1
      /\ \A d \in B : Block(d) = B
  BY <1>0, GroupFacts DEF Group
<1>2. ki' = F /\ groups' = groups \union {B}
  BY <1>1 DEF NextGroup
<1>3. /\ Idx' = Idx /\ \A c : FirstRow(c)' = FirstRow(c) /\ LastRow(c)' = LastRow(c)
      /\ \A c : Block(c)' = Block(c)
  BY <1>0 DEF Idx, FirstRow, LastRow, Block
<1>4. TypeOK'
  BY <1>0, <1>1, <1>2, <1>3 DEF TypeOK
<1>5. Position'
  BY <1>0, <1>1, <1>2 DEF IInv, Position
<1>6. Grouped'
  <2>1. \A c \in F..n-1 : c \in ki..n-1 \/ c \in B
    BY <1>0, <1>1
  <2>2. (\A c \in ki..n-1 : c \in F..n-1) /\ F \in B /\ F \in F..n-1
    BY <1>0, <1>1
  <2>3. groups = {Block(c) : c \in ki..n-1} /\ normed = {Block(c) : c \in 0..kn-1}
    BY DEF IInv, Grouped
  <2> HIDE DEF B, F
  <2>4. groups \union {B} = {Block(c) : c \in F..n-1}
    BY <1>1, <2>1, <2>2, <2>3
  <2> QED
    BY <1>0, <1>2, <1>3, <2>3, <2>4 DEF Grouped
<1>7. Columns'
  <2> SUFFICES ASSUME NEW c \in Idx
               PROVE  /\ c >= F => SolvedFrom(c, 0) /\ Alike(c)
                      /\ c < F => \A r \in Idx : /\ level[c][r] = 0
                                                 /\ \A s \in Idx : taken[c][r][s] = 0
    <3>1. Unstarted' = F /\ ki' = F /\ pc' # "solve"
      BY <1>0, <1>2 DEF Unstarted
    <3>2. \A c : SolvedFrom(c, 0)' <=> SolvedFrom(c, 0)
      BY <1>0, <1>3 DEF SolvedFrom
    <3>3. \A c : Alike(c)' <=> Alike(c)
      BY <1>0, <1>3 DEF Alike
    <3> HIDE DEF F
    <3> QED
      BY <1>0, <1>3, <3>1, <3>2, <3>3 DEF Columns
  <2>1. /\ c >= ki => SolvedFrom(c, 0)
        /\ c \in B => SolvedFrom(c, 0)
        /\ c >= F => Alike(c)
        /\ c < F => \A r \in Idx : level[c][r] = 0 /\ \A s \in Idx : taken[c][r][s] = 0
    BY <1>0 DEF IInv, Columns, Unstarted
  <2>2. c >= F => c >= ki \/ c \in B
    BY <1>0, <1>1 DEF Idx
  <2> QED
    BY <2>1, <2>2
<1>8. Contents'
  <2>1. Unstarted' = F /\ ki' = F /\ pc' # "solve"
    BY <1>0, <1>2 DEF Unstarted
  <2>2. \A c : Filled(c, 0)' <=> Filled(c, 0)
    BY <1>0, <1>3 DEF Filled
  <2>3. \A c \in Idx : /\ c >= ki \/ c \in B => Filled(c, 0)
                       /\ c < F => \A r \in Idx : holds[c][r] = "zero"
    BY <1>0 DEF IInv, Contents, Unstarted
  <2>4. \A c \in Idx : c >= F => c >= ki \/ c \in B
    BY <1>0, <1>1 DEF Idx
  <2> HIDE DEF F, B
  <2> QED
    BY <1>0, <1>3, <2>1, <2>2, <2>3, <2>4 DEF Contents
<1> QED
  BY <1>4, <1>5, <1>6, <1>7, <1>8 DEF IInv

(* The normalization passes over one block. *)
LEMMA NormalizeKeeps == IInv /\ Normalize => IInv'
<1> SUFFICES ASSUME IInv, Normalize
             PROVE  IInv'
  OBVIOUS
<1>0. /\ TypeOK /\ kn \in Idx /\ kn \in 0..n-1 /\ kn - 1 \notin sub /\ n \in Nat
      /\ pc = "normalize" /\ pc' = "normalize" /\ ki = 0
      /\ UNCHANGED <<n, sub, ki, rows, taken, level, holds, groups>>
  <2>1. TypeOK /\ n \in Nat /\ kn \in 0..n /\ pc = "normalize" /\ kn < n
    BY OrderAssumption DEF IInv, TypeOK, Normalize
  <2>2. kn - 1 \notin sub /\ ki = 0
    BY <2>1 DEF IInv, Position
  <2>3. kn \in 0..n-1 /\ kn \in Idx
    BY <2>1 DEF Idx
  <2>4. pc' = "normalize" /\ UNCHANGED <<n, sub, ki, rows, taken, level, holds, groups>>
    BY <2>1 DEF Normalize, T, X
  <2> QED
    BY <2>1, <2>2, <2>3, <2>4
<1> DEFINE L == LastRow(kn)
<1>1. /\ BlockStarting(kn) = Block(kn) /\ Max(Block(kn)) = L /\ L \notin sub
      /\ L \in kn..n-1 /\ Block(kn) = kn..L /\ \A d \in Block(kn) : Block(d) = Block(kn)
  <2>1. /\ FirstRow(kn) = kn /\ L \in Idx /\ kn <= L /\ L \notin sub
        /\ BlockStarting(kn) = Block(kn)
        /\ \A d \in Block(kn) : FirstRow(d) = FirstRow(kn) /\ LastRow(d) = L
    <3> HIDE DEF L
    <3>1. kn \in Idx /\ TypeOK /\ L = LastRow(kn)
      BY <1>0 DEF L
    <3> QED
      BY <1>0, <3>1, BlockFacts
  <2>2. Max(Block(kn)) = L
    BY <1>0, BlockExtremes
  <2>3. L \in kn..n-1
    BY <1>0, <2>1 DEF Idx
  <2> QED
    BY <2>1, <2>2, <2>3 DEF Block
<1>2. kn' = L + 1 /\ normed' = normed \union {Block(kn)}
  BY <1>1 DEF Normalize
<1> HIDE DEF L
<1>3. /\ Idx' = Idx /\ \A c : FirstRow(c)' = FirstRow(c) /\ LastRow(c)' = LastRow(c)
      /\ \A c : Block(c)' = Block(c)
  BY <1>0 DEF Idx, FirstRow, LastRow, Block
<1>4. kn' \in 0..n /\ kn' - 1 = L
  BY <1>0, <1>1, <1>2
<1>5. TypeOK'
  BY <1>0, <1>3, <1>4 DEF TypeOK
<1>6. Position'
  BY <1>0, <1>1, <1>4 DEF IInv, Position
<1>7. Grouped'
  <2>0. kn \in Nat /\ L \in Nat /\ kn <= L
    BY <1>0, <1>1
  <2>1. \A c \in 0..L : c \in 0..kn-1 \/ c \in Block(kn)
    BY <1>1, <2>0
  <2>2. (\A c \in 0..kn-1 : c \in 0..L) /\ kn \in 0..L
    BY <2>0
  <2>3. groups = {Block(c) : c \in ki..n-1} /\ normed = {Block(c) : c \in 0..kn-1}
    BY DEF IInv, Grouped
  <2>4. normed \union {Block(kn)} = {Block(c) : c \in 0..L}
    BY <1>1, <2>1, <2>2, <2>3
  <2>5. normed' = {Block(c) : c \in 0..kn'-1}
    BY <1>2, <1>4, <2>4
  <2> QED
    BY <1>0, <1>3, <2>3, <2>5 DEF Grouped
<1>8. Columns'
  BY <1>0, <1>3 DEF IInv, Columns, Unstarted, SolvedFrom, Alike
<1>9. Contents'
  BY <1>0, <1>3 DEF IInv, Contents, Unstarted, Filled
<1> QED
  BY <1>5, <1>6, <1>7, <1>8, <1>9 DEF IInv

(* BackTransform and Finish move on when their loops have ended. *)
LEMMA OthersKeep ==
  IInv /\ (BackTransform \/ Finish \/ UNCHANGED vars) => IInv'
<1> SUFFICES ASSUME IInv, BackTransform \/ Finish \/ UNCHANGED vars
             PROVE  IInv'
  OBVIOUS
<1>0. /\ pc \in {"group", "solve", "normalize", "done"} /\ n \in Nat
      /\ \/ pc = "group" /\ ki = 0 /\ pc' = "normalize"
         \/ pc = "normalize" /\ kn = n /\ pc' = "done"
         \/ pc' = pc
      /\ UNCHANGED <<n, sub, ki, rows, taken, level, holds, groups, kn, normed>>
  BY OrderAssumption DEF IInv, TypeOK, BackTransform, Finish, vars, T, X
<1>1. /\ Idx' = Idx /\ \A c : FirstRow(c)' = FirstRow(c) /\ LastRow(c)' = LastRow(c)
      /\ \A c : Block(c)' = Block(c)
  BY <1>0 DEF Idx, FirstRow, LastRow, Block
<1>2. TypeOK'
  BY <1>0, <1>1 DEF IInv, TypeOK
<1>3. Position'
  BY <1>0, <1>1 DEF IInv, Position
<1>4. Grouped'
  BY <1>0, <1>1 DEF IInv, Grouped
<1>5. Columns'
  BY <1>0, <1>1 DEF IInv, Columns, Unstarted, SolvedFrom, Alike
<1>6. Contents'
  BY <1>0, <1>1 DEF IInv, Contents, Unstarted, Filled
<1> QED
  BY <1>2, <1>3, <1>4, <1>5, <1>6 DEF IInv

(* The invariant the properties follow from. *)
THEOREM InvariantHolds == Spec => []IInv
<1>1. IInv /\ [Next]_vars => IInv'
  <2> SUFFICES ASSUME IInv, [Next]_vars
               PROVE  IInv'
    OBVIOUS
  <2>1. CASE StartVectors
    BY <2>1, StartKeeps
  <2>2. CASE SolveBlock
    BY <2>2, SolveKeeps
  <2>3. CASE NextGroup
    BY <2>3, NextGroupKeeps
  <2>4. CASE Normalize
    BY <2>4, NormalizeKeeps
  <2>5. CASE BackTransform \/ Finish \/ UNCHANGED vars
    BY <2>5, OthersKeep
  <2> QED
    BY <2>1, <2>2, <2>3, <2>4, <2>5 DEF Next, Step, Done
<1> QED
  BY InitIInv, <1>1, PTL DEF Spec

(* The type invariant: no index of T or X is out of bounds. *)
THEOREM TypeCorrect == Spec => []TypeOK
<1>1. IInv => TypeOK
  BY DEF IInv
<1> QED
  BY InvariantHolds, <1>1, PTL

-----------------------------------------------------------------------------
(* What the properties say of a set of columns. *)
LEMMA VectorFacts ==
  ASSUME IInv, NEW g \in Vectors, NEW c \in g
  PROVE  /\ c \in Idx /\ g = Block(c)
         /\ Min(g) = FirstRow(c) /\ Max(g) = LastRow(c)
         /\ c >= Unstarted /\ SolvedFrom(c, Unsolved(g))
<1>0. TypeOK /\ n \in Nat /\ ki \in 0..n /\ ki - 1 \notin sub
  BY OrderAssumption DEF IInv, TypeOK, Position
<1>1. ASSUME NEW e \in Idx, g = Block(e)
      PROVE  /\ c \in Idx /\ g = Block(c)
             /\ Min(g) = FirstRow(c) /\ Max(g) = LastRow(c)
  <2>1. c \in Idx /\ FirstRow(c) = FirstRow(e) /\ LastRow(c) = LastRow(e)
    BY <1>0, <1>1, BlockFacts
  <2> QED
    BY <1>0, <1>1, <2>1, BlockExtremes DEF Block
<1>2. CASE g \in groups
  <2>1. PICK e \in ki..n-1 : g = Block(e)
    BY <1>2 DEF IInv, Grouped
  <2>2. e \in Idx
    BY <1>0, <2>1 DEF Idx
  <2>3. /\ c \in Idx /\ g = Block(c)
        /\ Min(g) = FirstRow(c) /\ Max(g) = LastRow(c)
    BY <1>1, <2>1, <2>2
  <2>4. FirstRow(e) >= ki
    BY <1>0, <2>1 DEF FirstRow
  <2>5. c >= ki
    BY <1>0, <2>1, <2>4 DEF Block, FirstRow
  <2>6. c >= Unstarted
    <3>1. CASE pc = "solve"
      <4>1. ki \in 1..n
        BY <1>0, <3>1 DEF IInv, Position
      <4>2. FirstRow(ki - 1) \in 0..ki-1
        BY <1>0, <4>1, GroupFacts
      <4> QED
        BY <1>0, <2>3, <2>5, <3>1, <4>1, <4>2 DEF Unstarted, Idx
    <3>2. CASE pc # "solve"
      BY <2>5, <3>2 DEF Unstarted
    <3> QED
      BY <3>1, <3>2
  <2>7. SolvedFrom(c, 0)
    BY <2>3, <2>5 DEF IInv, Columns
  <2> QED
    BY <1>2, <2>3, <2>6, <2>7 DEF Unsolved
<1>3. CASE pc = "solve" /\ g = Group /\ g \notin groups
  <2>1. ki \in 1..n
    BY <1>0, <1>3 DEF IInv, Position
  <2>2. g = Block(ki - 1) /\ ki - 1 \in Idx /\ Block(ki - 1) = FirstRow(ki - 1)..ki-1
    BY <1>0, <1>3, <2>1, GroupFacts DEF Group
  <2>3. /\ c \in Idx /\ g = Block(c)
        /\ Min(g) = FirstRow(c) /\ Max(g) = LastRow(c)
    BY <1>1, <2>2
  <2>4. c >= Unstarted
    <3>1. FirstRow(ki - 1) \in 0..ki-1 /\ c \in FirstRow(ki - 1)..ki-1
      BY <1>0, <2>1, <2>2, GroupFacts
    <3> QED
      BY <1>0, <1>3, <3>1 DEF Unstarted
  <2>5. SolvedFrom(c, rows)
    BY <1>3, <2>2, <2>3 DEF IInv, Columns
  <2> QED
    BY <1>3, <2>3, <2>4, <2>5 DEF Unsolved
<1> QED
  BY <1>2, <1>3 DEF Vectors

(***************************************************************************)
(* Substitution: each component is computed from its row of (T - w I) x = 0 *)
(* with every product to the right of its block subtracted exactly once.   *)
(***************************************************************************)
THEOREM SubstitutionIsExact == Spec => []SubstitutedOnce
<1>1. ASSUME IInv
      PROVE  SubstitutedOnce
  <2> SUFFICES ASSUME NEW g \in Vectors, NEW c \in g,
                      NEW r \in Unsolved(g)..Min(g)-1, NEW j \in Idx
               PROVE  taken[c][r][j] =
                        IF j = c \/ (j < Min(g) /\ j > Max(BlockOf(r))) THEN 1 ELSE 0
    BY DEF SubstitutedOnce
  <2>0. TypeOK /\ n \in Nat /\ j \in Nat /\ rows \in Nat
    <3>1. TypeOK /\ n \in Nat /\ rows \in Nat
      BY <1>1, OrderAssumption DEF IInv, TypeOK
    <3> QED
      BY <3>1 DEF Idx
  <2>1. c \in Idx /\ Min(g) = FirstRow(c) /\ SolvedFrom(c, Unsolved(g))
    BY <1>1, VectorFacts
  <2>2. FirstRow(c) \in Idx
    BY <2>0, <2>1, BlockFacts
  <2>3. Unsolved(g) \in Nat
    BY <2>0 DEF Unsolved
  <2>4. r \in Idx /\ r \in 0..FirstRow(c)-1 /\ r >= Unsolved(g) /\ r \in Nat
    <3>1. r \in Unsolved(g)..FirstRow(c)-1
      BY <2>1
    <3> QED
      BY <2>0, <2>2, <2>3, <3>1 DEF Idx
  <2>5. LastRow(r) \in Idx /\ LastRow(r) >= r /\ Max(BlockOf(r)) = LastRow(r)
    BY <2>0, <2>4, BlockFacts, BlockExtremes
  <2>6. taken[c][r][j] =
          IF j = c \/ (j < FirstRow(c) /\ j >= Unsolved(g) /\ j > LastRow(r)) THEN 1 ELSE 0
    BY <2>1, <2>4 DEF SolvedFrom
  <2>7. j > LastRow(r) => j >= Unsolved(g)
    BY <2>0, <2>3, <2>4, <2>5 DEF Idx
  <2> QED
    BY <2>1, <2>5, <2>6, <2>7
<1> QED
  BY InvariantHolds, <1>1, PTL

(* Scaling: all components of a vector contain the same scalings. *)
THEOREM ScalingIsUniform == Spec => []ScaledAlike
<1>1. ASSUME IInv
      PROVE  ScaledAlike
  <2> SUFFICES ASSUME NEW g \in Vectors, NEW c \in g, NEW d \in g,
                      NEW r \in 0..Max(g), NEW q \in 0..Max(g)
               PROVE  level[c][r] = level[d][q]
    BY DEF ScaledAlike
  <2>1. c \in Idx /\ g = Block(c) /\ Max(g) = LastRow(c) /\ c >= Unstarted
    BY <1>1, VectorFacts
  <2>2. Alike(c)
    BY <1>1, <2>1 DEF IInv, Columns
  <2> QED
    BY <2>1, <2>2 DEF Alike
<1> QED
  BY InvariantHolds, <1>1, PTL

(***************************************************************************)
(* When the triangular product V = Z X is formed, what it reads of X are   *)
(* components and zeros, and what it does not read is zero.                *)
(***************************************************************************)
THEOREM ProductReadsComponents == Spec => []TriangularProductReadsComponents
<1>1. ASSUME IInv
      PROVE  TriangularProductReadsComponents
  <2> SUFFICES ASSUME pc \in {"normalize", "done"}, NEW c \in Idx, NEW r \in Idx
               PROVE  holds[c][r] = IF r < Min(BlockOf(c)) \/ r = c THEN "component" ELSE "zero"
    BY DEF TriangularProductReadsComponents
  <2>0. TypeOK /\ ki = 0 /\ c \in Nat /\ r \in Nat
    <3>1. TypeOK /\ ki = 0
      BY <1>1 DEF IInv, Position
    <3> QED
      BY <3>1 DEF Idx
  <2>1. Filled(c, 0)
    BY <1>1, <2>0 DEF IInv, Contents
  <2>2. Min(BlockOf(c)) = FirstRow(c)
    BY <2>0, BlockFacts, BlockExtremes
  <2> QED
    BY <2>0, <2>1, <2>2 DEF Filled
<1> QED
  BY InvariantHolds, <1>1, PTL

(* The columns solved together are those normalized together, and all are. *)
THEOREM PairsNormalizedTogether == Spec => []NormalizedAsSolved
<1>1. ASSUME IInv
      PROVE  NormalizedAsSolved
  <2>0. /\ TypeOK /\ n \in Nat /\ kn \in 0..n
        /\ groups = {Block(c) : c \in ki..n-1} /\ normed = {Block(c) : c \in 0..kn-1}
    BY <1>1, OrderAssumption DEF IInv, TypeOK, Grouped
  <2>1. kn > 0 => ki = 0
    BY <1>1 DEF IInv, TypeOK, Position
  <2>2. normed \subseteq groups
    <3>1. \A c \in 0..kn-1 : c \in ki..n-1
      BY <2>0, <2>1
    <3> QED
      BY <2>0, <3>1
  <2>3. ASSUME pc = "done"
        PROVE  normed = groups /\ UNION groups = Idx
    <3>1. ki = 0 /\ kn = n
      BY <1>1, <2>3 DEF IInv, Position
    <3>2. groups = {Block(c) : c \in Idx} /\ normed = groups
      BY <2>0, <3>1 DEF Idx
    <3>3. \A c \in Idx : c \in Block(c) /\ Block(c) \subseteq Idx
      <4>1. \A c \in Idx : /\ FirstRow(c) \in Idx /\ LastRow(c) \in Idx
                           /\ FirstRow(c) <= c /\ c <= LastRow(c)
        BY <2>0, BlockFacts
      <4>2. \A c \in Idx : c \in Nat /\ FirstRow(c) \in Nat /\ LastRow(c) \in Nat /\ LastRow(c) < n
        BY <2>0, <4>1 DEF Idx
      <4>3. \A c \in Idx : c \in FirstRow(c)..LastRow(c)
        BY <4>1, <4>2
      <4>4. \A c \in Idx : \A d \in FirstRow(c)..LastRow(c) : d \in Idx
        BY <2>0, <4>2 DEF Idx
      <4> QED
        BY <4>3, <4>4 DEF Block
    <3> QED
      BY <3>2, <3>3
  <2> QED
    BY <2>2, <2>3 DEF NormalizedAsSolved
<1> QED
  BY InvariantHolds, <1>1, PTL

-----------------------------------------------------------------------------
(***************************************************************************)
(* SchurReorder: what holds throughout *_schur_select and *_schur_move.    *)
(***************************************************************************)

ReorderTypeOK ==
  /\ n \in 1..MaxN
  /\ sub \in Blocks2x2 /\ sub0 \in Blocks2x2
  /\ op \in {"select", "move"} /\ select \subseteq Idx /\ ifst \in Idx /\ dest \in Idx
  /\ eig \in [Idx -> Idx]
  /\ k \in 0..n /\ ks \in 0..n /\ pair \in BOOLEAN
  /\ here \in Idx /\ size \in 1..2 /\ ilst \in Idx
  /\ phase \in {"call", "scan", "moving", "ok", "rejected"} /\ ret \in 0..n

(* From row lo on T is the input. *)
InputFrom(lo) == \A r \in lo..n-1 : eig[r] = r /\ (r \in sub <=> r \in sub0)

Increasing(rows_) == \A r, q \in rows_ : r < q => eig[r] < eig[q]

(***************************************************************************)
(* The scan has dealt with the rows before Passed: the chosen among them   *)
(* come first, either kind in order.                                       *)
(***************************************************************************)
Passed == IF pair THEN k + 1 ELSE k

(* The rows before p are dealt with, and the chosen among them are those before c. *)
ScanAt(c, p) ==
  /\ 0 <= c /\ c <= p /\ p <= n /\ c - 1 \notin sub /\ p - 1 \notin sub
  /\ InputFrom(p)
  /\ \A r \in 0..c-1 : eig[r] \in Chosen
  /\ \A r \in c..p-1 : eig[r] \notin Chosen
  /\ \A r \in 0..p-1 : eig[r] < p
  /\ Increasing(0..c-1) /\ Increasing(c..p-1)

Scanning ==
  phase = "scan" => op = "select" /\ (pair <=> k - 1 \in sub0) /\ ScanAt(ks, Passed)

(* The rows of the block schur_move moves, and the row it came from. *)
Moved == here..here+size-1
Origin == IF op = "select" THEN k ELSE Start(sub0, ifst)
Front == IF op = "select" THEN ks ELSE 0

Moving ==
  phase = "moving" =>
    /\ here + size <= n /\ here - 1 \notin sub /\ here + size - 1 \notin sub
    /\ size = BlockSize(sub0, Origin) /\ (here \in sub => size = 2)
    /\ eig[here] = Origin /\ eig[here + size - 1] = Origin + size - 1
    /\ Increasing((Front..n-1) \ Moved)
    /\ \/ ilst <= here /\ ilst - 1 \notin sub
       \/ here <= ilst /\ ilst + size <= n /\ ilst + size - 1 \notin sub

MovingUp ==
  phase = "moving" /\ op = "select" =>
    /\ ilst = ks /\ ks <= here /\ here <= k /\ ks < k /\ k + size <= n
    /\ (pair <=> k \in sub0) /\ k \in Chosen /\ k - 1 \notin sub0
    /\ ks - 1 \notin sub /\ k + size - 1 \notin sub
    /\ InputFrom(k + size)
    /\ \A r \in 0..ks-1 : eig[r] \in Chosen /\ eig[r] < k
    /\ \A r \in (ks..k+size-1) \ Moved : eig[r] \notin Chosen /\ eig[r] < k
    /\ Increasing(0..ks-1)

(* What the exchanges of schur_move keep: T is a Schur form of the same matrix. *)
SameMatrix ==
  /\ \A r \in Idx : \E q \in Idx : eig[q] = r
  /\ Quasi(sub)
  /\ \A r \in sub : eig[r] \in sub0 /\ eig[r + 1] = eig[r] + 1

AtCall == phase = "call" => k = 0 /\ ks = 0 /\ pair = FALSE /\ InputFrom(0)

GoalNear == phase = "moving" /\ op = "move" => ilst \in dest-1..dest+1

ReorderInv ==
  /\ ReorderTypeOK /\ SameMatrix
  /\ AtCall /\ Scanning /\ Moving /\ MovingUp /\ GoalNear
  /\ SelectionLeads /\ RejectionIsPartial /\ MoveLands

-----------------------------------------------------------------------------
(* What an exchange of the blocks at a (s rows) and a + s (t rows) leaves. *)
Exchanged(a, s, t) ==
  /\ eig' \in [Idx -> Idx] /\ sub' \in Blocks2x2 /\ SameMatrix'
  /\ \A r \in Idx : r < a \/ r >= a + s + t => eig'[r] = eig[r]
  /\ \A r \in a..a+t-1 : eig'[r] = eig[r + s]
  /\ \A r \in a+t..a+t+s-1 : eig'[r] = eig[r - t]
  /\ \A r \in Int : r < a \/ r >= a + s + t => (r \in sub' <=> r \in sub)
  /\ a - 1 \notin sub' /\ a + t - 1 \notin sub' /\ a + s + t - 1 \notin sub'
  /\ a + t \in sub' => a \in sub
  /\ a \in sub' => a + s \in sub

LEMMA ExchangeFacts ==
  ASSUME n \in Nat, sub \in Blocks2x2, sub0 \in Blocks2x2, eig \in [Idx -> Idx], SameMatrix,
         NEW a \in Idx, NEW s \in 1..2, NEW t \in 1..2, a + s + t <= n,
         a - 1 \notin sub, a + s - 1 \notin sub, a + s + t - 1 \notin sub,
         a \in sub => s = 2, a + s \in sub => t = 2,
         Exchange(a, s, t), n' = n, sub0' = sub0
  PROVE  Exchanged(a, s, t)
<1>1. PICK splits \in SUBSET {a, a + t} :
        sub' = (sub \ (a..a+s+t-1))
                 \union (((IF a \in sub THEN {a + t} ELSE {})
                            \union (IF a + s \in sub THEN {a} ELSE {})) \ splits)
  BY DEF Exchange
<1>2. n \in Nat /\ a \in 0..n-1 /\ a \in Int /\ s \in {1, 2} /\ t \in {1, 2} /\ sub \subseteq 0..n-2
  BY DEF Idx, Blocks2x2
<1>3. /\ \A r \in Idx : r < a \/ r >= a + s + t => eig'[r] = eig[r]
      /\ \A r \in a..a+t-1 : eig'[r] = eig[r + s]
      /\ \A r \in a+t..a+t+s-1 : eig'[r] = eig[r - t]
      /\ eig' \in [Idx -> Idx]
  <2>1. eig' = [r \in Idx |-> IF r \in a..a+t-1 THEN eig[r + s]
                              ELSE IF r \in a+t..a+t+s-1 THEN eig[r - t] ELSE eig[r]]
    BY DEF Exchange
  <2>0. a \in Nat /\ s \in Nat /\ t \in Nat /\ s >= 1 /\ t >= 1 /\ n \in Nat /\ a + s + t <= n
    BY <1>2
  <2>2. ASSUME NEW r \in a..a+t-1 PROVE r \in Idx /\ r + s \in Idx
    <3>1. r \in 0..n-1 /\ r + s \in 0..n-1
      BY <2>0
    <3> QED BY <3>1 DEF Idx
  <2>3. ASSUME NEW r \in a+t..a+t+s-1 PROVE r \in Idx /\ r - t \in Idx /\ r \notin a..a+t-1
    <3>1. r \in 0..n-1 /\ r - t \in 0..n-1 /\ r \notin a..a+t-1
      BY <2>0
    <3> QED BY <3>1 DEF Idx
  <2>4. \A r \in Idx : r < a \/ r >= a + s + t => r \notin a..a+t-1 /\ r \notin a+t..a+t+s-1
    BY <1>2 DEF Idx
  <2>5. \A r \in Idx : eig[r] \in Idx
    OBVIOUS
  <2>6. eig' \in [Idx -> Idx]
    BY <2>1, <2>2, <2>3, <2>5
  <2>7. \A r \in a..a+t-1 : eig'[r] = eig[r + s]
    BY <2>1, <2>2
  <2>8. \A r \in a+t..a+t+s-1 : eig'[r] = eig[r - t]
    BY <2>1, <2>3
  <2>9. \A r \in Idx : r < a \/ r >= a + s + t => eig'[r] = eig[r]
    BY <2>1, <2>4
  <2> QED BY <2>6, <2>7, <2>8, <2>9
<1>4. /\ \A r \in Int : r < a \/ r >= a + s + t => (r \in sub' <=> r \in sub)
      /\ \A r \in sub' : r < a \/ r >= a + s + t \/ (r = a /\ a + s \in sub)
                         \/ (r = a + t /\ a \in sub)
  BY <1>1, <1>2
<1>5. \A r \in sub' : r \in Int /\ r \in 0..n-2
  BY <1>1, <1>2, a + s \in sub => t = 2, a \in sub => s = 2
<1>6. a - 1 \notin sub' /\ a + t - 1 \notin sub' /\ a + s + t - 1 \notin sub'
  BY <1>2, <1>4, <1>5
<1>7. (a + t \in sub' => a \in sub) /\ (a \in sub' => a + s \in sub)
  BY <1>2, <1>4
<1>8. Quasi(sub')
  <2>1. Quasi(sub)
    BY DEF SameMatrix
  <2> SUFFICES ASSUME NEW r \in sub', r + 1 \in sub' PROVE FALSE
    BY DEF Quasi
  <2>2. CASE r < a - 1
    <3>1. r \in sub /\ r + 1 \in sub
      BY <1>2, <1>4, <1>5, <2>2
    <3> QED BY <2>1, <3>1 DEF Quasi
  <2>3. CASE r >= a + s + t
    <3>1. r \in sub /\ r + 1 \in sub
      BY <1>2, <1>4, <1>5, <2>3
    <3> QED BY <2>1, <3>1 DEF Quasi
  <2>4. CASE r = a - 1
    BY <1>2, <1>6, <2>4
  <2>5. CASE r = a
    BY <1>2, <1>4, <1>6, <2>5
  <2>6. CASE r = a + t /\ a \in sub
    BY <1>2, <1>4, <1>6, <2>6
  <2> QED BY <1>2, <1>4, <1>5, <2>2, <2>3, <2>4, <2>5, <2>6
<1>9. \A r \in sub' : eig'[r] \in sub0 /\ eig'[r + 1] = eig'[r] + 1
  <2>0. \A r \in sub : eig[r] \in sub0 /\ eig[r + 1] = eig[r] + 1
    BY DEF SameMatrix
  <2> TAKE r \in sub'
  <2>1. CASE r < a
    <3>0. r \in 0..n-2 /\ r # a - 1
      BY <1>5, <1>6
    <3>1. r \in sub /\ r + 1 < a /\ r \in Idx /\ r + 1 \in Idx
      BY <1>2, <1>4, <2>1, <3>0 DEF Idx
    <3> QED BY <1>3, <2>0, <2>1, <3>1
  <2>2. CASE r >= a + s + t
    <3>0. r \in 0..n-2
      BY <1>5
    <3>1. r \in sub /\ r + 1 >= a + s + t /\ r \in Idx /\ r + 1 \in Idx
      BY <1>2, <1>4, <2>2, <3>0 DEF Idx
    <3> QED BY <1>3, <2>0, <2>2, <3>1
  <2>3. CASE r = a /\ a + s \in sub
    <3>1. t = 2 /\ r \in a..a+t-1 /\ r + 1 \in a..a+t-1 /\ (r + 1) + s = (a + s) + 1
      BY <1>2, <2>3
    <3>2. eig'[r] = eig[a + s] /\ eig'[r + 1] = eig[(a + s) + 1]
      BY <1>3, <2>3, <3>1
    <3> QED BY <2>0, <2>3, <3>2
  <2>4. CASE r = a + t /\ a \in sub
    <3>1. s = 2 /\ r \in a+t..a+t+s-1 /\ r + 1 \in a+t..a+t+s-1 /\ (r + 1) - t = a + 1 /\ r - t = a
      BY <1>2, <2>4
    <3>2. eig'[r] = eig[a] /\ eig'[r + 1] = eig[a + 1]
      BY <1>3, <3>1
    <3> QED BY <2>0, <2>4, <3>2
  <2> QED BY <1>4, <2>1, <2>2, <2>3, <2>4
<1>10. \A r \in Idx : \E q \in Idx : eig'[q] = r
  <2> TAKE r \in Idx
  <2>1. PICK q \in Idx : eig[q] = r
    BY DEF SameMatrix
  <2>2. CASE q < a \/ q >= a + s + t
    BY <1>3, <2>1, <2>2
  <2>3. CASE q \in a..a+s-1
    <3>1. q + t \in a+t..a+t+s-1 /\ q + t \in Idx /\ (q + t) - t = q
      BY <1>2, <2>3 DEF Idx
    <3> QED BY <1>3, <2>1, <3>1
  <2>4. CASE q \in a+s..a+s+t-1
    <3>1. q - s \in a..a+t-1 /\ q - s \in Idx /\ (q - s) + s = q
      BY <1>2, <2>4 DEF Idx
    <3> QED BY <1>3, <2>1, <3>1
  <2>5. q \in Int
    BY <1>2 DEF Idx
  <2> QED BY <1>2, <2>2, <2>3, <2>4, <2>5
<1>11. sub' \in Blocks2x2
  BY <1>5, <1>8 DEF Blocks2x2
<1>12. SameMatrix'
  BY <1>8, <1>9, <1>10 DEF SameMatrix, Idx
<1> QED BY <1>3, <1>4, <1>6, <1>7, <1>11, <1>12 DEF Exchanged

(* The block a row belongs to. *)
LEMMA StartFacts ==
  ASSUME n \in Nat, NEW s \in Blocks2x2, NEW row \in Idx
  PROVE  /\ Start(s, row) \in Idx /\ Start(s, row) \in Int /\ Start(s, row) - 1 \notin s
         /\ Start(s, row) <= row /\ row <= Start(s, row) + BlockSize(s, Start(s, row)) - 1
         /\ BlockSize(s, Start(s, row)) \in 1..2
         /\ Start(s, row) + BlockSize(s, Start(s, row)) <= n
         /\ Start(s, row) + BlockSize(s, Start(s, row)) - 1 \notin s
<1>1. row \in 0..n-1 /\ \A r \in s : r \in 0..n-2 /\ r + 1 \notin s
  BY DEF Idx, Blocks2x2, Quasi
<1>2. CASE row - 1 \in s
  <2>1. Start(s, row) = row - 1 /\ BlockSize(s, row - 1) = 2
    BY <1>2 DEF Start, BlockSize
  <2>2. row - 1 \in Idx /\ (row - 1) - 1 \notin s /\ row \notin s /\ (row - 1) + 2 <= n
    <3>1. ((row - 1) - 1) + 1 = row - 1 /\ (row - 1) + 1 = row
      BY <1>1
    <3> QED BY <1>1, <1>2, <3>1 DEF Idx
  <2>3. (row - 1) + 2 - 1 = row
    BY <1>1
  <2> QED BY <1>1, <2>1, <2>2, <2>3
<1>3. CASE row - 1 \notin s
  <2>1. Start(s, row) = row
    BY <1>3 DEF Start
  <2>2. CASE row \in s
    <3>1. BlockSize(s, row) = 2
      BY <2>2 DEF BlockSize
    <3>2. row + 2 - 1 = row + 1
      BY <1>1
    <3> QED BY <1>1, <1>3, <2>1, <2>2, <3>1, <3>2
  <2>3. CASE row \notin s
    <3>1. BlockSize(s, row) = 1
      BY <2>3 DEF BlockSize
    <3>2. row + 1 - 1 = row
      BY <1>1
    <3> QED BY <1>1, <1>3, <2>1, <2>3, <3>1, <3>2
  <2> QED BY <2>2, <2>3
<1> QED BY <1>2, <1>3

(* The call's arguments never change, nor what they choose. *)
LEMMA CallStays ==
  ASSUME UNCHANGED call
  PROVE  /\ n' = n /\ op' = op /\ select' = select /\ sub0' = sub0 /\ ifst' = ifst /\ dest' = dest
         /\ Chosen' = Chosen /\ Idx' = Idx /\ Blocks2x2' = Blocks2x2
BY DEF call, Chosen, Idx, Blocks2x2

LEMMA SchurStays ==
  ASSUME UNCHANGED call, UNCHANGED schur
  PROVE  /\ eig' = eig /\ sub' = sub
         /\ SameMatrix' <=> SameMatrix
         /\ \A lo : InputFrom(lo)' <=> InputFrom(lo)
         /\ \A R : Increasing(R)' <=> Increasing(R)
         /\ \A c, p : ScanAt(c, p)' <=> ScanAt(c, p)
BY CallStays DEF schur, SameMatrix, InputFrom, Increasing, ScanAt

LEMMA IndexFacts ==
  ASSUME ReorderTypeOK
  PROVE  /\ n \in Nat /\ n >= 1
         /\ \A r : r \in Idx <=> r \in Int /\ 0 <= r /\ r < n
         /\ \A r \in sub : r \in Int /\ 0 <= r /\ r + 1 < n /\ r + 1 \notin sub
         /\ \A r \in sub0 : r \in Int /\ 0 <= r /\ r + 1 < n /\ r + 1 \notin sub0
         /\ k \in Int /\ ks \in Int /\ here \in Int /\ size \in Int /\ ilst \in Int
         /\ 0 <= k /\ k <= n /\ 0 <= ks /\ ks <= n /\ 0 <= here /\ here < n
         /\ size \in {1, 2} /\ 0 <= ilst /\ ilst < n
<1>1. n \in Nat /\ n >= 1
  BY OrderAssumption DEF ReorderTypeOK
<1>2. \A r : r \in Idx <=> r \in Int /\ 0 <= r /\ r < n
  BY <1>1 DEF Idx
<1>3. \A s \in Blocks2x2 : \A r \in s : r \in Int /\ 0 <= r /\ r + 1 < n /\ r + 1 \notin s
  BY <1>1 DEF Blocks2x2, Quasi
<1>4. sub \in Blocks2x2 /\ sub0 \in Blocks2x2
  BY DEF ReorderTypeOK
<1>5. k \in Int /\ ks \in Int /\ 0 <= k /\ k <= n /\ 0 <= ks /\ ks <= n
  BY <1>1 DEF ReorderTypeOK
<1>6. here \in Int /\ size \in Int /\ ilst \in Int /\ 0 <= here /\ here < n /\ size \in {1, 2}
      /\ 0 <= ilst /\ ilst < n
  BY <1>1, <1>2 DEF ReorderTypeOK
<1> QED BY <1>1, <1>2, <1>3, <1>4, <1>5, <1>6

-----------------------------------------------------------------------------
LEMMA CallMoveKeepsInv ==
  ASSUME ReorderInv, CallMove
  PROVE  ReorderInv'
<1>1. /\ phase = "call" /\ op = "move" /\ phase' = "moving"
      /\ UNCHANGED call /\ UNCHANGED schur /\ UNCHANGED scan /\ ret' = ret
      /\ here' = Start(sub, ifst) /\ size' = BlockSize(sub, here') /\ ilst' = MovedTo(here', dest)
  BY DEF CallMove, schur_move, MovedFrom
<1>2. ReorderTypeOK /\ SameMatrix /\ AtCall
  BY DEF ReorderInv
<1>3. sub \in Blocks2x2 /\ ifst \in Idx /\ dest \in Idx
  BY <1>2 DEF ReorderTypeOK
<1>0. /\ n \in Nat /\ \A r : r \in Idx <=> r \in Int /\ 0 <= r /\ r < n
      /\ \A r \in sub : r \in Int /\ 0 <= r /\ r + 1 < n /\ r + 1 \notin sub
      /\ \A r \in sub0 : r \in Int /\ 0 <= r /\ r + 1 < n
  BY <1>2, IndexFacts
<1>4. sub = sub0 /\ \A r \in Idx : eig[r] = r
  <2>1. \A r \in Int : 0 <= r /\ r < n => eig[r] = r /\ (r \in sub <=> r \in sub0)
    BY <1>0, <1>1, <1>2 DEF AtCall, InputFrom
  <2>2. \A r \in sub \union sub0 : r \in Int /\ 0 <= r /\ r < n
    BY <1>0
  <2> QED BY <1>0, <2>1, <2>2
<1> DEFINE first == here'
           sz == size'
           goal == ilst'
           to == Start(sub, dest)
           span == BlockSize(sub, to)
<1>5. /\ first \in Int /\ 0 <= first /\ first < n /\ first - 1 \notin sub
      /\ sz \in {1, 2} /\ first + sz <= n /\ first + sz - 1 \notin sub
      /\ first \in sub <=> sz = 2
  <2>1. sz \in 1..2 => sz \in {1, 2}
    OBVIOUS
  <2> QED BY <1>0, <1>1, <1>3, <2>1, StartFacts DEF BlockSize
<1>6. /\ to \in Int /\ 0 <= to /\ to < n /\ to - 1 \notin sub
      /\ to <= dest /\ dest <= to + span - 1 /\ dest \in Int
      /\ span \in {1, 2} /\ to + span <= n
      /\ to + span - 1 \notin sub
  <2>1. span \in 1..2 => span \in {1, 2}
    OBVIOUS
  <2> QED BY <1>0, <1>1, <1>3, <2>1, StartFacts
<1>7. goal = IF first < to THEN to + span - sz ELSE to
  BY <1>1 DEF MovedTo
<1> HIDE DEF first, sz, goal, to, span
<1>8. /\ goal \in Int /\ 0 <= goal /\ goal < n /\ goal \in dest-1..dest+1
      /\ \/ goal <= first /\ goal - 1 \notin sub
         \/ first <= goal /\ goal + sz <= n /\ goal + sz - 1 \notin sub
  <2>1. CASE first < to
    <3>1. first + sz <= to
      <4>1. ~(sz = 2 /\ to = first + 1)
        <5>1. to = first + 1 => to - 1 = first
          BY <1>5, <1>6
        <5> QED BY <1>5, <1>6, <5>1
      <4> QED BY <1>5, <1>6, <2>1, <4>1
    <3>2. goal \in Int /\ goal + sz = to + span /\ goal = to + span - sz
      BY <1>5, <1>6, <1>7, <2>1
    <3>3. first <= goal /\ goal + sz <= n /\ goal + sz - 1 \notin sub
      BY <1>0, <1>5, <1>6, <3>1, <3>2
    <3>4. 0 <= goal /\ goal < n /\ goal \in dest-1..dest+1
      BY <1>0, <1>5, <1>6, <3>2, <3>3
    <3> QED BY <3>2, <3>3, <3>4
  <2>2. CASE ~(first < to)
    <3>1. goal = to /\ goal <= first /\ goal \in dest-1..dest+1
      BY <1>0, <1>5, <1>6, <1>7, <2>2
    <3> QED BY <1>6, <3>1
  <2> QED BY <2>1, <2>2
<1>9. first \in Idx /\ goal \in Idx /\ sz \in 1..2 /\ first + sz - 1 \in Idx
  BY <1>0, <1>5, <1>8
<1>10. /\ here' = first /\ size' = sz /\ ilst' = goal
  BY DEF first, sz, goal
<1>11. ReorderTypeOK'
  BY <1>1, <1>2, <1>9, <1>10, CallStays, SchurStays DEF ReorderTypeOK, scan
<1>12. Moving'
  <2>1. Origin' = first
    BY <1>1, <1>4, <1>10, CallStays DEF Origin
  <2>2. eig[first] = first /\ eig[first + sz - 1] = first + sz - 1
    BY <1>4, <1>9
  <2>3. Increasing((Front..n-1) \ Moved)'
    <3>1. Increasing(0..n-1)
      BY <1>0, <1>4 DEF Increasing
    <3> QED BY <1>1, <3>1, CallStays, SchurStays DEF Increasing, Front
  <2>4. sz = BlockSize(sub0', Origin')
    BY <1>1, <1>4, <1>10, <2>1, CallStays
  <2> QED BY <1>1, <1>5, <1>8, <1>10, <2>1, <2>2, <2>3, <2>4, CallStays, SchurStays DEF Moving
<1>13. GoalNear'
  BY <1>1, <1>8, <1>10, CallStays DEF GoalNear
<1> QED
  BY <1>1, <1>2, <1>11, <1>12, <1>13, CallStays, SchurStays
     DEF ReorderInv, AtCall, Scanning, MovingUp, SelectionLeads, RejectionIsPartial, MoveLands

LEMMA CallSelectKeepsInv ==
  ASSUME ReorderInv, CallSelect
  PROVE  ReorderInv'
<1>1. /\ phase = "call" /\ op = "select" /\ phase' = "scan"
      /\ UNCHANGED call /\ UNCHANGED schur /\ UNCHANGED scan /\ UNCHANGED move /\ ret' = ret
  BY DEF CallSelect
<1>2. ReorderTypeOK /\ SameMatrix /\ k = 0 /\ ks = 0 /\ pair = FALSE /\ InputFrom(0)
  BY <1>1 DEF ReorderInv, AtCall
<1>3. n \in Nat /\ (\A r \in sub : r >= 0) /\ (\A r \in sub0 : r >= 0)
  BY <1>2, IndexFacts
<1>4. ScanAt(0, 0)
  <2>1. 0 - 1 \notin sub
    BY <1>3
  <2>2. Increasing(0..0-1)
    BY DEF Increasing
  <2> QED BY <1>2, <1>3, <2>1, <2>2 DEF ScanAt
<1>5. Scanning'
  <2>1. k' = 0 /\ ks' = 0 /\ pair' = FALSE /\ Passed' = 0
    BY <1>1, <1>2 DEF scan, Passed
  <2>2. 0 - 1 \notin sub0
    BY <1>3
  <2> QED BY <1>1, <1>4, <2>1, <2>2, CallStays, SchurStays DEF Scanning
<1>6. ReorderTypeOK'
  BY <1>1, <1>2, CallStays, SchurStays DEF ReorderTypeOK, scan, move
<1> QED
  BY <1>1, <1>2, <1>5, <1>6, CallStays, SchurStays
     DEF ReorderInv, AtCall, Moving, MovingUp, GoalNear, SelectionLeads, RejectionIsPartial, MoveLands

(* What the scan knows: T is its input from Passed on. *)
LEMMA ScanFacts ==
  ASSUME ReorderInv, phase = "scan"
  PROVE  /\ op = "select" /\ (pair <=> k - 1 \in sub0)
         /\ pair => Passed = k + 1
         /\ ~pair => Passed = k
         /\ ScanAt(ks, Passed)
BY DEF ReorderInv, Scanning, Passed

LEMMA SkipSecondRowKeepsInv ==
  ASSUME ReorderInv, SkipSecondRow
  PROVE  ReorderInv'
<1>1. /\ phase = "scan" /\ pair /\ k < n /\ pair' = FALSE /\ k' = k + 1 /\ ks' = ks
      /\ phase' = "scan" /\ UNCHANGED call /\ UNCHANGED schur /\ UNCHANGED move /\ ret' = ret
  BY DEF SkipSecondRow
<1>2. ReorderTypeOK /\ SameMatrix
  BY DEF ReorderInv
<1>3. n \in Nat /\ k \in Int /\ 0 <= k /\ \A r \in sub0 : r + 1 \notin sub0
  BY <1>2, IndexFacts
<1>4. op = "select" /\ k - 1 \in sub0 /\ ScanAt(ks, k + 1)
  BY <1>1, ScanFacts
<1>5. k \notin sub0 /\ (k + 1) - 1 = k
  <2>1. (k - 1) + 1 = k
    BY <1>3
  <2> QED BY <1>3, <1>4, <2>1
<1>6. Scanning'
  <2>1. Passed' = k + 1
    BY <1>1 DEF Passed
  <2> QED BY <1>1, <1>4, <1>5, <2>1, CallStays, SchurStays DEF Scanning
<1>7. ReorderTypeOK'
  <2>1. k + 1 \in 0..n
    BY <1>1, <1>3
  <2> QED BY <1>1, <1>2, <2>1, CallStays, SchurStays DEF ReorderTypeOK, move
<1> QED
  BY <1>1, <1>2, <1>4, <1>6, <1>7, CallStays, SchurStays
     DEF ReorderInv, AtCall, Moving, MovingUp, GoalNear, SelectionLeads, RejectionIsPartial, MoveLands

(* A block is chosen as a whole, or not at all. *)
LEMMA BlockAtScan ==
  ASSUME ReorderInv, phase = "scan", k < n, ~pair
  PROVE  /\ k \in Idx /\ k - 1 \notin sub /\ k - 1 \notin sub0 /\ k + BlockSize(sub, k) <= n
         /\ BlockSize(sub, k) \in {1, 2} /\ k + BlockSize(sub, k) - 1 \notin sub
         /\ BlockSize(sub, k) = BlockSize(sub0, k)
         /\ (BeginsPair <=> k \in sub0) /\ (BeginsPair <=> BlockSize(sub, k) = 2)
         /\ \A r \in k..k+BlockSize(sub, k)-1 : eig[r] = r /\ (r \in Chosen <=> Wanted)
<1>1. ReorderTypeOK
  BY DEF ReorderInv
<1>2. /\ n \in Nat /\ k \in Int /\ 0 <= k /\ \A r : r \in Idx <=> r \in Int /\ 0 <= r /\ r < n
      /\ \A r \in sub : r \in Int /\ 0 <= r /\ r + 1 < n /\ r + 1 \notin sub
      /\ \A r \in sub0 : r \in Int /\ 0 <= r /\ r + 1 < n /\ r + 1 \notin sub0
  BY <1>1, IndexFacts
<1>3. k - 1 \notin sub0 /\ ScanAt(ks, k)
  BY ScanFacts
<1>4. k - 1 \notin sub /\ \A r \in k..n-1 : eig[r] = r /\ (r \in sub <=> r \in sub0)
  BY <1>3 DEF ScanAt, InputFrom
<1>5. k \in Idx /\ k \in k..n-1 /\ (k \in sub <=> k \in sub0)
  BY <1>2, <1>4
<1>6. k \in Chosen <=> Wanted
  BY <1>3, <1>5 DEF Chosen, Wanted
<1>7. CASE k \in sub
  <2>1. BlockSize(sub, k) = 2 /\ BlockSize(sub0, k) = 2 /\ BeginsPair
    BY <1>5, <1>7 DEF BlockSize, BeginsPair
  <2>2. k + 2 <= n /\ (k + 2) - 1 = k + 1 /\ (k + 1) - 1 = k /\ k + 1 \in Idx /\ k + 1 \in k..n-1
    BY <1>2, <1>7
  <2>3. k + 1 \in Chosen <=> Wanted
    BY <1>2, <1>5, <1>7, <2>2 DEF Chosen, Wanted
  <2>4. \A r \in k..k+2-1 : r = k \/ r = k + 1
    BY <1>2
  <2> QED BY <1>2, <1>3, <1>4, <1>5, <1>6, <1>7, <2>1, <2>2, <2>3, <2>4
<1>8. CASE k \notin sub
  <2>1. BlockSize(sub, k) = 1 /\ BlockSize(sub0, k) = 1 /\ ~BeginsPair
    BY <1>5, <1>8 DEF BlockSize, BeginsPair
  <2>2. k + 1 <= n /\ (k + 1) - 1 = k
    BY <1>2
  <2>3. \A r \in k..k+1-1 : r = k
    BY <1>2
  <2> QED BY <1>2, <1>3, <1>4, <1>5, <1>6, <1>8, <2>1, <2>2, <2>3
<1> QED BY <1>7, <1>8

LEMMA ScanPassesBlock ==
  ASSUME ReorderInv, phase = "scan", k < n, ~pair, ~Wanted \/ k = ks
  PROVE  ScanAt(IF Wanted THEN ks + BlockSize(sub, k) ELSE ks, k + BlockSize(sub, k))
<1> DEFINE b == BlockSize(sub, k)
           c == IF Wanted THEN ks + b ELSE ks
           p == k + b
<1>2. /\ n \in Nat /\ k \in Int /\ 0 <= k /\ ks \in Int /\ 0 <= ks
      /\ \A r \in sub : r \in Int /\ r + 1 \notin sub
  BY IndexFacts DEF ReorderInv
<1>3. ScanAt(ks, k)
  BY ScanFacts
<1>1. /\ k - 1 \notin sub /\ p <= n /\ p = k + b /\ b \in {1, 2} /\ p - 1 \notin sub
      /\ \A r \in k..p-1 : eig[r] = r /\ (r \in Chosen <=> Wanted)
  <2>1. /\ k - 1 \notin sub /\ k + b <= n /\ b \in {1, 2} /\ k + b - 1 \notin sub
    BY BlockAtScan
  <2>2. \A r \in k..k+b-1 : eig[r] = r /\ (r \in Chosen <=> Wanted)
    BY BlockAtScan
  <2>3. p = k + b
    OBVIOUS
  <2> HIDE DEF b, p
  <2> QED BY <1>2, <2>1, <2>2, <2>3
<1> HIDE DEF b, p
<1>4. /\ ks <= k /\ ks - 1 \notin sub /\ InputFrom(k)
      /\ \A r \in 0..ks-1 : eig[r] \in Chosen
      /\ \A r \in ks..k-1 : eig[r] \notin Chosen
      /\ \A r \in 0..k-1 : eig[r] < k
      /\ Increasing(0..ks-1) /\ Increasing(ks..k-1)
  BY <1>3 DEF ScanAt
<1>5. CASE Wanted
  <2>1. c = p /\ ks = k /\ p \in Int /\ 0 <= p /\ k < p
    BY <1>1, <1>2, <1>5
  <2>2. \A r \in 0..p-1 : r \in 0..k-1 \/ r \in k..p-1
    BY <1>2, <2>1
  <2>3. \A r \in 0..p-1 : eig[r] \in Chosen
    BY <1>1, <1>4, <1>5, <2>1, <2>2
  <2>4. \A r \in 0..p-1 : eig[r] < p
    <3> TAKE r \in 0..p-1
    <3>1. CASE r \in 0..k-1
      <4>1. eig[r] < k /\ eig[r] \in Int
        <5>1. eig[r] \in Idx
          <6>1. r \in Idx
            BY <1>1, <1>2, <2>1, <3>1 DEF Idx
          <6> QED BY <6>1 DEF ReorderInv, ReorderTypeOK
        <5> QED BY <1>2, <1>4, <3>1, <5>1 DEF Idx
      <4> QED BY <1>2, <2>1, <4>1
    <3>2. CASE r \in k..p-1
      BY <1>1, <1>2, <2>1, <3>2
    <3> QED BY <2>2, <3>1, <3>2
  <2>5. Increasing(0..p-1)
    <3> SUFFICES ASSUME NEW r \in 0..p-1, NEW q \in 0..p-1, r < q PROVE eig[r] < eig[q]
      BY DEF Increasing
    <3>1. CASE q \in 0..k-1
      <4>1. r \in 0..k-1
        BY <1>2, <2>1, <3>1
      <4> QED BY <1>4, <2>1, <3>1, <4>1 DEF Increasing
    <3>2. CASE q \in k..p-1
      <4>1. eig[q] = q /\ k <= q /\ q \in Int /\ r \in Int
        BY <1>1, <1>2, <2>1, <3>2
      <4>2. CASE r \in 0..k-1
        <5>1. eig[r] < k /\ eig[r] \in Int
          <6>1. r \in Idx
            BY <1>1, <1>2, <2>1, <4>2 DEF Idx
          <6>2. eig[r] \in Idx
            BY <6>1 DEF ReorderInv, ReorderTypeOK
          <6> QED BY <1>2, <1>4, <4>2, <6>2 DEF Idx
        <5> QED BY <1>2, <4>1, <5>1
      <4>3. CASE r \in k..p-1
        BY <1>1, <4>1, <4>3
      <4> QED BY <2>2, <4>2, <4>3
    <3> QED BY <2>2, <3>1, <3>2
  <2>6. Increasing(p..p-1) /\ \A r \in p..p-1 : eig[r] \notin Chosen
    BY <2>1 DEF Increasing
  <2>7. InputFrom(p)
    BY <1>2, <1>4, <2>1 DEF InputFrom
  <2>8. ScanAt(p, p)
    BY <1>1, <2>1, <2>3, <2>4, <2>5, <2>6, <2>7 DEF ScanAt
  <2> QED BY <2>1, <2>8 DEF b, p
<1>6. CASE ~Wanted
  <2>1. c = ks /\ p \in Int /\ 0 <= p /\ k < p /\ ks <= p
    BY <1>1, <1>2, <1>4, <1>6
  <2>2. \A r \in 0..p-1 : r \in Int /\ (r \in 0..k-1 \/ r \in k..p-1)
    BY <1>2, <2>1
  <2>3. \A r \in 0..k-1 : eig[r] \in Int
    <3> TAKE r \in 0..k-1
    <3>1. r \in Idx
      BY <1>1, <1>2, <2>1 DEF Idx
    <3>2. eig[r] \in Idx
      BY <3>1 DEF ReorderInv, ReorderTypeOK
    <3> QED BY <1>2, <3>2 DEF Idx
  <2>4. \A r \in 0..p-1 : eig[r] < p
    <3> TAKE r \in 0..p-1
    <3>1. CASE r \in 0..k-1
      BY <1>2, <1>4, <2>1, <2>3, <3>1
    <3>2. CASE r \in k..p-1
      BY <1>1, <1>2, <2>1, <3>2
    <3> QED BY <2>2, <3>1, <3>2
  <2>5. \A r \in ks..p-1 : r \in ks..k-1 \/ r \in k..p-1
    BY <1>2, <2>1
  <2>6. \A r \in ks..p-1 : eig[r] \notin Chosen
    BY <1>1, <1>4, <1>6, <2>5
  <2>7. Increasing(ks..p-1)
    <3> SUFFICES ASSUME NEW r \in ks..p-1, NEW q \in ks..p-1, r < q PROVE eig[r] < eig[q]
      BY DEF Increasing
    <3>1. CASE q \in ks..k-1
      <4>1. r \in ks..k-1
        BY <1>2, <2>1, <3>1
      <4> QED BY <1>4, <3>1, <4>1 DEF Increasing
    <3>2. CASE q \in k..p-1
      <4>1. eig[q] = q /\ k <= q /\ q \in Int
        BY <1>1, <1>2, <2>1, <3>2
      <4>2. CASE r \in ks..k-1
        <5>1. r \in 0..k-1
          BY <1>2, <4>2
        <5> QED BY <1>2, <1>4, <2>3, <4>1, <5>1
      <4>3. CASE r \in k..p-1
        BY <1>1, <4>1, <4>3
      <4> QED BY <2>5, <4>2, <4>3
    <3> QED BY <2>5, <3>1, <3>2
  <2>8. InputFrom(p)
    BY <1>2, <1>4, <2>1 DEF InputFrom
  <2>9. ScanAt(ks, p)
    BY <1>1, <1>2, <1>4, <2>1, <2>4, <2>6, <2>7, <2>8 DEF ScanAt
  <2> QED BY <2>1, <2>9 DEF b, p
<1> QED BY <1>5, <1>6

LEMMA PassBlockKeepsInv ==
  ASSUME ReorderInv, PassBlock
  PROVE  ReorderInv'
<1>1. /\ phase = "scan" /\ ~pair /\ k < n /\ (~Wanted \/ k = ks) /\ k' = k + 1
      /\ pair' = BeginsPair /\ ks' = IF Wanted THEN ks + BlockSize(sub, k) ELSE ks
      /\ phase' = "scan" /\ UNCHANGED call /\ UNCHANGED schur /\ UNCHANGED move /\ ret' = ret
  BY DEF PassBlock
<1>2. ReorderTypeOK /\ SameMatrix /\ op = "select"
  BY <1>1, ScanFacts DEF ReorderInv
<1>3. n \in Nat /\ k \in Int /\ 0 <= k /\ ks \in Int
  BY <1>2, IndexFacts
<1>4. /\ BlockSize(sub, k) \in {1, 2} /\ (BeginsPair <=> k \in sub0)
      /\ (BeginsPair <=> BlockSize(sub, k) = 2)
  BY <1>1, BlockAtScan
<1>5. ScanAt(ks', k + BlockSize(sub, k))
  BY <1>1, ScanPassesBlock
<1>6. pair' <=> BeginsPair
  BY <1>1
<1>7. Passed' = k + BlockSize(sub, k)
  <2>1. Passed' = IF BeginsPair THEN (k + 1) + 1 ELSE k + 1
    BY <1>1, <1>6 DEF Passed
  <2> QED BY <1>3, <1>4, <2>1
<1>8. Scanning'
  <2>1. (k + 1) - 1 = k
    BY <1>3
  <2> QED BY <1>1, <1>2, <1>4, <1>5, <1>6, <1>7, <2>1, CallStays, SchurStays DEF Scanning
<1>9. ReorderTypeOK'
  <2>1. k + 1 \in 0..n
    BY <1>1, <1>3
  <2>2. ks' \in 0..n
    <3> DEFINE c == ks'
               b == BlockSize(sub, k)
    <3>1. 0 <= c /\ c <= k + b /\ k + b <= n
      BY <1>5 DEF ScanAt
    <3>2. c \in Int
      BY <1>1, <1>3, <1>4
    <3> HIDE DEF b, c
    <3>3. b \in {1, 2}
      BY <1>4 DEF b
    <3>4. c \in 0..n
      BY <1>3, <3>1, <3>2, <3>3
    <3> QED BY <3>4 DEF c
  <2>3. pair' \in BOOLEAN
    BY <1>1 DEF BeginsPair
  <2> QED BY <1>1, <1>2, <2>1, <2>2, <2>3, CallStays, SchurStays DEF ReorderTypeOK, move
<1> QED
  BY <1>1, <1>2, <1>8, <1>9, CallStays, SchurStays
     DEF ReorderInv, AtCall, Moving, MovingUp, GoalNear, SelectionLeads, RejectionIsPartial, MoveLands

LEMMA MoveBlockKeepsInv ==
  ASSUME ReorderInv, MoveBlock
  PROVE  ReorderInv'
<1>1. /\ phase = "scan" /\ ~pair /\ k < n /\ Wanted /\ k # ks
      /\ pair' = BeginsPair /\ k' = k /\ ks' = ks /\ phase' = "moving"
      /\ here' = Start(sub, k) /\ size' = BlockSize(sub, here') /\ ilst' = MovedTo(here', ks)
      /\ UNCHANGED call /\ UNCHANGED schur /\ ret' = ret
  BY DEF MoveBlock, schur_move, MovedFrom
<1>2. ReorderTypeOK /\ SameMatrix /\ op = "select" /\ ScanAt(ks, k)
  BY <1>1, ScanFacts DEF ReorderInv
<1>3. /\ n \in Nat /\ k \in Int /\ 0 <= k /\ ks \in Int /\ 0 <= ks
      /\ \A r : r \in Idx <=> r \in Int /\ 0 <= r /\ r < n
  BY <1>2, IndexFacts
<1> DEFINE b == BlockSize(sub, k)
<1>4. /\ k \in Idx /\ k - 1 \notin sub /\ k - 1 \notin sub0 /\ k + b <= n
      /\ b \in {1, 2} /\ k + b - 1 \notin sub /\ b = BlockSize(sub0, k)
      /\ (BeginsPair <=> k \in sub0) /\ (BeginsPair <=> b = 2)
      /\ \A r \in k..k+b-1 : eig[r] = r /\ r \in Chosen
  BY <1>1, BlockAtScan
<1>5. /\ ks <= k /\ ks - 1 \notin sub /\ InputFrom(k)
      /\ \A r \in 0..ks-1 : eig[r] \in Chosen
      /\ \A r \in ks..k-1 : eig[r] \notin Chosen
      /\ \A r \in 0..k-1 : eig[r] < k
      /\ Increasing(0..ks-1) /\ Increasing(ks..k-1)
  BY <1>2 DEF ScanAt
<1>6. here' = k /\ size' = b /\ ilst' = ks
  <2>1. here' = k
    BY <1>1, <1>4 DEF Start
  <2>2. Start(sub, ks) = ks /\ ~(k < ks)
    BY <1>3, <1>5 DEF Start
  <2> QED BY <1>1, <2>1, <2>2 DEF MovedTo
<1>7. k \in sub <=> b = 2
  BY DEF BlockSize
<1> HIDE DEF b
<1>8. pair' <=> k \in sub0
  BY <1>1, <1>4
<1>9. k \in k..k+b-1 /\ k + b - 1 \in k..k+b-1 /\ ks < k /\ ks \in Idx /\ b \in 1..2
  <2>1. k \in Int /\ ks \in Int /\ 0 <= ks /\ ks <= k /\ k # ks /\ k < n /\ b \in {1, 2}
    BY <1>1, <1>3, <1>4, <1>5
  <2>2. k \in k..k+b-1 /\ k + b - 1 \in k..k+b-1 /\ ks < k /\ b \in 1..2
    BY <2>1
  <2> QED BY <1>3, <2>1, <2>2
<1>10. ReorderTypeOK'
  <2>1. pair' \in BOOLEAN
    BY <1>1 DEF BeginsPair
  <2> QED BY <1>1, <1>2, <1>4, <1>6, <1>9, <2>1, CallStays, SchurStays DEF ReorderTypeOK
<1>11. \A r \in (ks..n-1) \ (k..k+b-1) : r \in ks..k-1 \/ (r \in k+b..n-1 /\ r \in k..n-1)
  BY <1>3, <1>4
<1>12. Increasing((ks..n-1) \ (k..k+b-1))
  <2> SUFFICES ASSUME NEW r \in (ks..n-1) \ (k..k+b-1), NEW q \in (ks..n-1) \ (k..k+b-1), r < q
               PROVE  eig[r] < eig[q]
    BY DEF Increasing
  <2>1. CASE q \in ks..k-1
    <3>1. r \in ks..k-1
      BY <1>3, <2>1
    <3> QED BY <1>5, <2>1, <3>1 DEF Increasing
  <2>2. CASE q \in k+b..n-1
    <3>1. eig[q] = q /\ k < q /\ q \in Int
      BY <1>3, <1>4, <1>5, <1>11, <2>2 DEF InputFrom
    <3>2. CASE r \in ks..k-1
      <4>1. r \in 0..k-1 /\ r \in Idx
        BY <1>3, <3>2, <1>4
      <4>2. eig[r] \in Idx
        BY <1>2, <4>1 DEF ReorderTypeOK
      <4> QED BY <1>3, <1>5, <3>1, <4>1, <4>2
    <3>3. CASE r \in k..n-1
      BY <1>5, <3>1, <3>3 DEF InputFrom
    <3> QED BY <1>11, <3>2, <3>3
  <2> QED BY <1>11, <2>1, <2>2
<1>13. Moving'
  <2>1. Origin' = k /\ Front' = ks /\ Moved' = k..k+b-1
    BY <1>1, <1>2, <1>6, CallStays DEF Origin, Front, Moved
  <2>2. Increasing((Front..n-1) \ Moved)'
    BY <1>1, <1>12, <2>1, CallStays, SchurStays DEF Increasing
  <2>3. ks <= k /\ eig[k] = k /\ eig[k + b - 1] = k + b - 1
    BY <1>4, <1>5, <1>9
  <2> QED BY <1>1, <1>4, <1>5, <1>6, <1>7, <2>1, <2>2, <2>3, CallStays, SchurStays DEF Moving
<1>14. MovingUp'
  <2>1. Moved' = k..k+b-1
    BY <1>6 DEF Moved
  <2>2. InputFrom(k + b)
    BY <1>3, <1>4, <1>5 DEF InputFrom
  <2>3. \A r \in 0..ks-1 : eig[r] \in Chosen /\ eig[r] < k
    BY <1>3, <1>5
  <2>4. \A r \in (ks..k+b-1) \ (k..k+b-1) : eig[r] \notin Chosen /\ eig[r] < k
    <3>1. \A r \in (ks..k+b-1) \ (k..k+b-1) : r \in ks..k-1 /\ r \in 0..k-1
      BY <1>3, <1>4
    <3> QED BY <1>5, <3>1
  <2>5. k \in Chosen /\ k <= k
    BY <1>3, <1>4, <1>9
  <2> QED BY <1>1, <1>2, <1>4, <1>5, <1>6, <1>8, <1>9, <2>1, <2>2, <2>3, <2>4, <2>5,
             CallStays, SchurStays DEF MovingUp
<1> QED
  BY <1>1, <1>2, <1>10, <1>13, <1>14, CallStays, SchurStays
     DEF ReorderInv, AtCall, Scanning, GoalNear, SelectionLeads, RejectionIsPartial, MoveLands

-----------------------------------------------------------------------------
(* What is known while a block moves. *)
LEMMA MoveFacts ==
  ASSUME ReorderInv, phase = "moving"
  PROVE  /\ n \in Nat /\ here \in Int /\ 0 <= here /\ size \in {1, 2} /\ ilst \in Int /\ 0 <= ilst
         /\ here + size <= n /\ here - 1 \notin sub /\ here + size - 1 \notin sub
         /\ size = BlockSize(sub0, Origin) /\ (here \in sub => size = 2)
         /\ eig[here] = Origin /\ eig[here + size - 1] = Origin + size - 1
         /\ Increasing((Front..n-1) \ Moved)
         /\ \A r : r \in Idx <=> r \in Int /\ 0 <= r /\ r < n
         /\ \A r \in sub : r \in Int /\ 0 <= r /\ r + 1 < n /\ r + 1 \notin sub
         /\ \A r \in sub0 : r \in Int /\ 0 <= r /\ r + 1 < n /\ r + 1 \notin sub0
         /\ \A r \in Idx : eig[r] \in Idx
<1>1. ReorderTypeOK /\ Moving
  BY DEF ReorderInv
<1>2. \A r \in Idx : eig[r] \in Idx
  BY <1>1 DEF ReorderTypeOK
<1>3. /\ n \in Nat /\ here \in Int /\ 0 <= here /\ size \in {1, 2} /\ ilst \in Int /\ 0 <= ilst
      /\ \A r : r \in Idx <=> r \in Int /\ 0 <= r /\ r < n
      /\ \A r \in sub : r \in Int /\ 0 <= r /\ r + 1 < n /\ r + 1 \notin sub
      /\ \A r \in sub0 : r \in Int /\ 0 <= r /\ r + 1 < n /\ r + 1 \notin sub0
  BY <1>1, IndexFacts
<1> QED BY <1>1, <1>2, <1>3 DEF Moving

(* ... when the block is one the scan of *_schur_select moves up. *)
LEMMA SelectMoveFacts ==
  ASSUME ReorderInv, phase = "moving", op = "select"
  PROVE  /\ k \in Int /\ ks \in Int /\ 0 <= ks /\ Origin = k /\ Front = ks
         /\ ilst = ks /\ ks <= here /\ here <= k /\ ks < k /\ k + size <= n
         /\ (pair <=> k \in sub0) /\ k \in Chosen /\ k - 1 \notin sub0
         /\ ks - 1 \notin sub /\ k + size - 1 \notin sub
         /\ InputFrom(k + size)
         /\ \A r \in 0..ks-1 : eig[r] \in Chosen /\ eig[r] < k
         /\ \A r \in (ks..k+size-1) \ Moved : eig[r] \notin Chosen /\ eig[r] < k
         /\ Increasing(0..ks-1)
         /\ \A r \in Moved : eig[r] \in Chosen /\ (eig[r] = k \/ (eig[r] = k + 1 /\ size = 2))
<1>1. ReorderTypeOK /\ MovingUp
  BY DEF ReorderInv
<1>2. k \in Int /\ ks \in Int /\ 0 <= ks
  BY <1>1, IndexFacts
<1>3. Origin = k /\ Front = ks
  BY DEF Origin, Front
<1>4. k \in Chosen /\ k - 1 \notin sub0 /\ k + size <= n /\ ks < k
  BY <1>1 DEF MovingUp
<1>5. \A r \in Moved : eig[r] \in Chosen /\ (eig[r] = k \/ (eig[r] = k + 1 /\ size = 2))
  <2>1. CASE size = 1
    <3>1. \A r \in Moved : r = here
      BY <2>1, MoveFacts DEF Moved
    <3> QED BY <1>3, <1>4, <3>1, MoveFacts
  <2>2. CASE size = 2
    <3>1. \A r \in Moved : r = here \/ r = here + size - 1
      BY <2>2, MoveFacts DEF Moved
    <3>2. k \in sub0
      BY <1>3, <2>2, MoveFacts DEF BlockSize
    <3>3. k + 1 \in Idx /\ (k + 1) - 1 = k /\ k + size - 1 = k + 1
      BY <1>2, <1>4, <2>2, MoveFacts
    <3>4. k + 1 \in Chosen
      <4>1. k \in select \/ k + 1 \in select
        BY <1>4 DEF Chosen
      <4> QED BY <3>2, <3>3, <4>1 DEF Chosen
    <3> QED BY <1>3, <1>4, <2>2, <3>1, <3>3, <3>4, MoveFacts
  <2> QED BY <2>1, <2>2, MoveFacts
<1> QED BY <1>1, <1>2, <1>3, <1>5 DEF MovingUp

LEMMA BlockMovedKeepsInv ==
  ASSUME ReorderInv, BlockMoved
  PROVE  ReorderInv'
<1>1. /\ phase = "moving" /\ op = "select" /\ here = ilst /\ k' = k + 1
      /\ ks' = ks + (IF pair THEN 2 ELSE 1) /\ phase' = "scan" /\ pair' = pair
      /\ UNCHANGED call /\ UNCHANGED schur /\ UNCHANGED move /\ ret' = ret
  BY DEF BlockMoved
<1>2. ReorderTypeOK /\ SameMatrix
  BY DEF ReorderInv
<1>3. /\ n \in Nat /\ k \in Int /\ ks \in Int /\ 0 <= ks /\ ks < k /\ k + size <= n
      /\ here = ks /\ size \in {1, 2} /\ ks + size - 1 \notin sub /\ k + size - 1 \notin sub
      /\ InputFrom(k + size) /\ (pair <=> k \in sub0)
      /\ Increasing((ks..n-1) \ Moved)
      /\ \A r \in 0..ks-1 : eig[r] \in Chosen /\ eig[r] < k
      /\ \A r \in (ks..k+size-1) \ Moved : eig[r] \notin Chosen /\ eig[r] < k
      /\ Increasing(0..ks-1)
      /\ \A r \in Moved : eig[r] \in Chosen /\ (eig[r] = k \/ (eig[r] = k + 1 /\ size = 2))
  BY <1>1, MoveFacts, SelectMoveFacts
<1>4. size = IF k \in sub0 THEN 2 ELSE 1
  BY <1>1, MoveFacts, SelectMoveFacts DEF BlockSize
<1>5. ks' = ks + size
  BY <1>1, <1>3, <1>4
<1>6. Passed' = k + size
  <2>1. Passed' = IF k \in sub0 THEN (k + 1) + 1 ELSE k + 1
    BY <1>1, <1>3 DEF Passed
  <2> QED BY <1>3, <1>4, <2>1
<1>7. Moved = ks..ks+size-1
  BY <1>3 DEF Moved
<1>8. \A r \in 0..k+size-1 :
         r \in Idx /\ r \in Int /\ eig[r] \in Int
         /\ (r \in 0..ks-1 \/ r \in Moved \/ r \in (ks..k+size-1) \ Moved)
  <2> TAKE r \in 0..k+size-1
  <2>1. r \in Idx /\ r \in Int
    BY <1>3 DEF Idx
  <2>2. eig[r] \in Int
    BY <2>1, MoveFacts, <1>1
  <2>3. r \in 0..ks-1 \/ r \in Moved \/ r \in (ks..k+size-1) \ Moved
    BY <1>3
  <2> QED BY <2>1, <2>2, <2>3
<1>9. ScanAt(ks + size, k + size)
  <2>1. \A r \in 0..(ks+size)-1 : r \in 0..k+size-1 /\ (r \in 0..ks-1 \/ r \in Moved)
    BY <1>3, <1>7
  <2>2. \A r \in (ks+size)..(k+size)-1 : r \in (ks..k+size-1) \ Moved /\ r \in (ks..n-1) \ Moved
    BY <1>3, <1>7
  <2>3. \A r \in 0..(k+size)-1 : eig[r] < k + size
    BY <1>3, <1>8
  <2>4. Increasing(0..(ks+size)-1)
    <3> SUFFICES ASSUME NEW r \in 0..(ks+size)-1, NEW q \in 0..(ks+size)-1, r < q
                 PROVE  eig[r] < eig[q]
      BY DEF Increasing
    <3>0. r \in Int /\ q \in Int /\ eig[r] \in Int /\ eig[q] \in Int
      BY <1>8, <2>1
    <3>1. CASE q \in 0..ks-1
      <4>1. r \in 0..ks-1
        BY <1>3, <3>0, <3>1
      <4> QED BY <1>3, <3>1, <4>1 DEF Increasing
    <3>2. CASE q \in Moved /\ r \in 0..ks-1
      BY <1>3, <3>0, <3>2
    <3>3. CASE q \in Moved /\ r \in Moved
      <4>1. r = here /\ q = here + size - 1 /\ size = 2
        BY <1>3, <1>7, <3>0, <3>3
      <4>2. eig[here] = k /\ eig[here + size - 1] = k + size - 1
        BY <1>1, MoveFacts, SelectMoveFacts
      <4> QED BY <1>3, <4>1, <4>2
    <3> QED BY <2>1, <3>1, <3>2, <3>3
  <2>5. Increasing((ks+size)..(k+size)-1)
    BY <1>3, <2>2 DEF Increasing
  <2>6. \A r \in 0..(ks+size)-1 : eig[r] \in Chosen
    BY <1>3, <2>1
  <2>7. \A r \in (ks+size)..(k+size)-1 : eig[r] \notin Chosen
    BY <1>3, <2>2
  <2>8. 0 <= ks + size /\ ks + size <= k + size
    BY <1>3
  <2> QED BY <1>3, <2>3, <2>4, <2>5, <2>6, <2>7, <2>8 DEF ScanAt
<1>10. Scanning'
  <2>1. (k + 1) - 1 = k
    BY <1>3
  <2> QED BY <1>1, <1>3, <1>5, <1>6, <1>9, <2>1, CallStays, SchurStays DEF Scanning
<1>11. ReorderTypeOK'
  <2>1. k + 1 \in 0..n /\ ks + size \in 0..n
    BY <1>3
  <2> QED BY <1>1, <1>2, <1>5, <2>1, CallStays, SchurStays DEF ReorderTypeOK, move
<1> QED
  BY <1>1, <1>2, <1>10, <1>11, CallStays, SchurStays
     DEF ReorderInv, AtCall, Moving, MovingUp, GoalNear, SelectionLeads, RejectionIsPartial, MoveLands

LEMMA SelectReturnsKeepsInv ==
  ASSUME ReorderInv, SelectReturns
  PROVE  ReorderInv'
<1>1. /\ phase = "scan" /\ k = n /\ phase' = "ok" /\ ret' = ks
      /\ UNCHANGED call /\ UNCHANGED schur /\ UNCHANGED scan /\ UNCHANGED move
  BY DEF SelectReturns
<1>2. ReorderTypeOK /\ SameMatrix /\ op = "select"
  BY <1>1, ScanFacts DEF ReorderInv
<1>3. /\ n \in Nat /\ ks \in Int /\ 0 <= ks /\ \A r : r \in Idx <=> r \in Int /\ 0 <= r /\ r < n
      /\ \A r \in sub0 : r \in Int /\ r + 1 < n
  BY <1>2, IndexFacts
<1>4. ScanAt(ks, n)
  <2>1. n - 1 \notin sub0
    BY <1>3
  <2> QED BY <1>1, <2>1, ScanFacts
<1>5. /\ ks <= n /\ ks - 1 \notin sub /\ Increasing(0..ks-1) /\ Increasing(ks..n-1)
      /\ \A r \in 0..ks-1 : eig[r] \in Chosen
      /\ \A r \in ks..n-1 : eig[r] \notin Chosen
  BY <1>4 DEF ScanAt
<1>6. \A r \in Idx : r \in 0..ks-1 \/ r \in ks..n-1
  BY <1>3
<1>7. {eig[r] : r \in 0..ks-1} = Chosen
  <2>1. ASSUME NEW c \in Chosen PROVE \E r \in 0..ks-1 : eig[r] = c
    <3>1. PICK q \in Idx : eig[q] = c
      BY <1>2 DEF Chosen, SameMatrix
    <3> QED BY <1>5, <1>6, <3>1
  <2> QED BY <1>5, <2>1
<1>8. InOrder(Chosen) /\ InOrder(Idx \ Chosen)
  BY <1>5, <1>6 DEF InOrder, Increasing
<1>9. SelectionLeads'
  <2>1. \A S : InOrder(S)' <=> InOrder(S)
    BY <1>1, CallStays, SchurStays DEF InOrder
  <2>2. {eig[r] : r \in 0..ret-1}' = {eig[r] : r \in 0..ks-1}
    BY <1>1, SchurStays
  <2> QED BY <1>1, <1>5, <1>7, <1>8, <2>1, <2>2, CallStays, SchurStays DEF SelectionLeads
<1>10. ReorderTypeOK'
  <2>1. ks \in 0..n
    BY <1>3, <1>5
  <2> QED BY <1>1, <1>2, <2>1, CallStays, SchurStays DEF ReorderTypeOK, scan, move
<1> QED
  BY <1>1, <1>2, <1>9, <1>10, CallStays, SchurStays
     DEF ReorderInv, AtCall, Scanning, Moving, MovingUp, GoalNear, RejectionIsPartial, MoveLands

LEMMA RejectSwapKeepsInv ==
  ASSUME ReorderInv, RejectSwap
  PROVE  ReorderInv'
<1>1. /\ phase = "moving" /\ here # ilst /\ phase' = "rejected" /\ ret' = here
      /\ UNCHANGED call /\ UNCHANGED schur /\ UNCHANGED scan /\ UNCHANGED move
  BY DEF RejectSwap, StoppedAt
<1>2. ReorderTypeOK /\ SameMatrix
  BY DEF ReorderInv
<1>3. RejectionIsPartial'
  <2> SUFFICES ASSUME op = "select" PROVE RejectionIsPartial'
    BY <1>1, CallStays DEF RejectionIsPartial
  <2>1. /\ n \in Nat /\ here \in Int /\ k \in Int /\ ks \in Int /\ 0 <= ks /\ ks <= here /\ here <= k
        /\ here # ks /\ k + size <= n /\ size \in {1, 2} /\ eig[here] = k /\ ks - 1 \notin sub
        /\ InputFrom(k + size)
        /\ \A r \in 0..ks-1 : eig[r] \in Chosen
        /\ \A r \in (ks..k+size-1) \ Moved : eig[r] \notin Chosen
        /\ \A r \in Moved : eig[r] = k \/ eig[r] = k + 1
        /\ \A r : r \in Idx <=> r \in Int /\ 0 <= r /\ r < n
    BY <1>1, MoveFacts, SelectMoveFacts
  <2>2. \A r \in Idx : eig[r] < k /\ eig[r] \in Chosen => r < ks
    <3> SUFFICES ASSUME NEW r \in Idx, eig[r] < k, eig[r] \in Chosen, r >= ks PROVE FALSE
      BY <2>1
    <3>1. r \in (ks..k+size-1) \ Moved \/ r \in Moved \/ r \in k+size..n-1
      BY <2>1
    <3>2. CASE r \in k+size..n-1
      BY <2>1, <3>2 DEF InputFrom
    <3>3. CASE r \in Moved
      BY <2>1, <3>3
    <3> QED BY <2>1, <3>1, <3>2, <3>3
  <2>3. here \in ks+1..k
    BY <2>1
  <2>4. \A r \in k+size..n-1 : eig[r] = r
    BY <2>1 DEF InputFrom
  <2>5. {eig[r] : r \in 0..ks-1} \subseteq Chosen
    BY <2>1
  <2>6. k' = k /\ ks' = ks /\ size' = size
    BY <1>1 DEF scan, move
  <2> QED BY <1>1, <2>1, <2>2, <2>3, <2>4, <2>5, <2>6, CallStays, SchurStays DEF RejectionIsPartial
<1>4. ReorderTypeOK'
  <2>1. here \in 0..n
    BY <1>1, MoveFacts
  <2> QED BY <1>1, <1>2, <2>1, CallStays, SchurStays DEF ReorderTypeOK, scan, move
<1> QED
  BY <1>1, <1>2, <1>3, <1>4, CallStays, SchurStays
     DEF ReorderInv, AtCall, Scanning, Moving, MovingUp, GoalNear, SelectionLeads, MoveLands

LEMMA MoveReturnsKeepsInv ==
  ASSUME ReorderInv, MoveReturns
  PROVE  ReorderInv'
<1>1. /\ phase = "moving" /\ op = "move" /\ here = ilst /\ phase' = "ok" /\ ret' = ilst
      /\ UNCHANGED call /\ UNCHANGED schur /\ UNCHANGED scan /\ UNCHANGED move
  BY DEF MoveReturns
<1>2. ReorderTypeOK /\ SameMatrix /\ GoalNear
  BY DEF ReorderInv
<1> DEFINE from == Start(sub0, ifst)
<1>3. /\ n \in Nat /\ here \in Int /\ size \in {1, 2} /\ eig[here] = from
      /\ eig[here + size - 1] = from + size - 1 /\ size = BlockSize(sub0, from)
      /\ Increasing((0..n-1) \ Moved)
  BY <1>1, MoveFacts DEF Origin, Front
<1>4. from \in Int /\ from - 1 \notin sub0
  BY <1>2, <1>3, StartFacts DEF ReorderTypeOK
<1> HIDE DEF from
<1>5. \A r \in Moved : Start(sub0, eig[r]) = from
  <2>1. Start(sub0, from) = from
    BY <1>4 DEF Start
  <2>2. CASE size = 1
    <3>1. \A r \in Moved : r = here
      BY <1>3, <2>2 DEF Moved
    <3> QED BY <1>3, <2>1, <3>1
  <2>3. CASE size = 2
    <3>1. \A r \in Moved : r = here \/ r = here + size - 1
      BY <1>3, <2>3 DEF Moved
    <3>2. from \in sub0
      BY <1>3, <2>3 DEF BlockSize
    <3>3. from + size - 1 = from + 1 /\ (from + 1) - 1 = from
      BY <1>4, <2>3
    <3>4. Start(sub0, from + 1) = from
      BY <3>2, <3>3 DEF Start
    <3> QED BY <1>3, <2>1, <3>1, <3>3, <3>4
  <2> QED BY <1>3, <2>2, <2>3
<1>6. InOrder({r \in Idx : Start(sub0, r) # from})
  BY <1>3, <1>5 DEF InOrder, Increasing, Idx
<1>7. MoveLands'
  <2>1. \A S : InOrder(S)' <=> InOrder(S)
    BY <1>1, CallStays, SchurStays DEF InOrder
  <2>2. from' = from /\ {r \in Idx : Start(sub0, r) # from}' = {r \in Idx : Start(sub0, r) # from}
    BY <1>1, CallStays DEF Start, from
  <2> QED BY <1>1, <1>2, <1>3, <1>6, <2>1, <2>2, CallStays, SchurStays DEF MoveLands, GoalNear, from
<1>8. ReorderTypeOK'
  <2>1. ilst \in 0..n
    BY <1>1, <1>2, IndexFacts
  <2> QED BY <1>1, <1>2, <2>1, CallStays, SchurStays DEF ReorderTypeOK, scan, move
<1> QED
  BY <1>1, <1>2, <1>7, <1>8, CallStays, SchurStays
     DEF ReorderInv, AtCall, Scanning, Moving, MovingUp, GoalNear, SelectionLeads, RejectionIsPartial

-----------------------------------------------------------------------------
(* An exchange of the moving block with a neighbour keeps the order of the others. *)
LEMMA OthersKeepOrder ==
  ASSUME NEW lo \in Nat, NEW hi \in Int, NEW a \in Int, NEW s \in 1..2, NEW t \in 1..2, lo <= a,
         NEW f, NEW g,
         \A r, q \in (lo..hi) \ (a+s..a+s+t-1) : r < q => f[r] < f[q],
         \A r \in lo..hi : r < a \/ r >= a + s + t => g[r] = f[r],
         \A r \in a+t..a+t+s-1 : g[r] = f[r - t], a + s + t - 1 <= hi
  PROVE  \A r, q \in (lo..hi) \ (a..a+t-1) : r < q => g[r] < g[q]
<1> SUFFICES ASSUME NEW r \in (lo..hi) \ (a..a+t-1), NEW q \in (lo..hi) \ (a..a+t-1), r < q
             PROVE  g[r] < g[q]
  OBVIOUS
<1> DEFINE from(x) == IF x \in a+t..a+t+s-1 THEN x - t ELSE x
<1>1. ASSUME NEW x \in (lo..hi) \ (a..a+t-1)
      PROVE  from(x) \in (lo..hi) \ (a+s..a+s+t-1) /\ g[x] = f[from(x)]
  <2>1. CASE x \in a+t..a+t+s-1
    <3>1. x - t \in lo..hi /\ x - t \notin a+s..a+s+t-1
      BY <2>1
    <3> QED BY <2>1, <3>1
  <2>2. CASE x \notin a+t..a+t+s-1
    <3>1. x < a \/ x >= a + s + t
      BY <2>2
    <3>2. x \notin a+s..a+s+t-1
      BY <3>1
    <3> QED BY <2>2, <3>1, <3>2
  <2> QED BY <2>1, <2>2
<1>2. from(r) < from(q)
  OBVIOUS
<1>3. from(r) \in (lo..hi) \ (a+s..a+s+t-1) /\ from(q) \in (lo..hi) \ (a+s..a+s+t-1)
      /\ g[r] = f[from(r)] /\ g[q] = f[from(q)]
  BY <1>1
<1> HIDE DEF from
<1> QED BY <1>2, <1>3

LEMMA OthersKeepOrderDown ==
  ASSUME NEW lo \in Nat, NEW hi \in Int, NEW a \in Int, NEW s \in 1..2, NEW t \in 1..2, lo <= a,
         NEW f, NEW g,
         \A r, q \in (lo..hi) \ (a..a+s-1) : r < q => f[r] < f[q],
         \A r \in lo..hi : r < a \/ r >= a + s + t => g[r] = f[r],
         \A r \in a..a+t-1 : g[r] = f[r + s], a + s + t - 1 <= hi
  PROVE  \A r, q \in (lo..hi) \ (a+t..a+t+s-1) : r < q => g[r] < g[q]
<1> SUFFICES ASSUME NEW r \in (lo..hi) \ (a+t..a+t+s-1), NEW q \in (lo..hi) \ (a+t..a+t+s-1), r < q
             PROVE  g[r] < g[q]
  OBVIOUS
<1> DEFINE from(x) == IF x \in a..a+t-1 THEN x + s ELSE x
<1>1. ASSUME NEW x \in (lo..hi) \ (a+t..a+t+s-1)
      PROVE  from(x) \in (lo..hi) \ (a..a+s-1) /\ g[x] = f[from(x)]
  <2>1. CASE x \in a..a+t-1
    <3>1. x + s \in lo..hi /\ x + s \notin a..a+s-1
      BY <2>1
    <3> QED BY <2>1, <3>1
  <2>2. CASE x \notin a..a+t-1
    <3>1. x < a \/ x >= a + s + t
      BY <2>2
    <3>2. x \notin a..a+s-1
      BY <3>1
    <3> QED BY <2>2, <3>1, <3>2
  <2> QED BY <2>1, <2>2
<1>2. from(r) < from(q)
  OBVIOUS
<1>3. from(r) \in (lo..hi) \ (a..a+s-1) /\ from(q) \in (lo..hi) \ (a..a+s-1)
      /\ g[r] = f[from(r)] /\ g[q] = f[from(q)]
  BY <1>1
<1> HIDE DEF from
<1> QED BY <1>2, <1>3

LEMMA MoveUpKeepsInv ==
  ASSUME ReorderInv, MoveUp
  PROVE  ReorderInv'
<1> DEFINE a == Start(sub, here - 1)
           s == here - a
           t == size
<1>1. /\ phase = "moving" /\ here > ilst /\ Exchange(a, s, t) /\ here' = a
      /\ UNCHANGED call /\ UNCHANGED scan /\ size' = size /\ ilst' = ilst
      /\ phase' = "moving" /\ ret' = ret
  BY DEF MoveUp
<1>2. ReorderTypeOK /\ SameMatrix
  BY DEF ReorderInv
<1>3. /\ n \in Nat /\ here \in Int /\ 0 <= here /\ t \in {1, 2} /\ ilst \in Int /\ 0 <= ilst
      /\ here + t <= n /\ here - 1 \notin sub /\ here + t - 1 \notin sub
      /\ (here \in sub => t = 2)
      /\ eig[here] = Origin /\ eig[here + t - 1] = Origin + t - 1
      /\ \A r : r \in Idx <=> r \in Int /\ 0 <= r /\ r < n
      /\ \A r \in sub : r \in Int /\ 0 <= r /\ r + 1 < n /\ r + 1 \notin sub
  BY <1>1, MoveFacts
<1>4. ilst - 1 \notin sub
  BY <1>1, <1>3 DEF ReorderInv, Moving
<1>5. a \in Int /\ ilst <= a /\ s \in {1, 2} /\ a - 1 \notin sub /\ (a \in sub => s = 2)
  <2>1. here - 1 \in Idx /\ sub \in Blocks2x2
    BY <1>1, <1>2, <1>3 DEF ReorderTypeOK
  <2>2. a - 1 \notin sub /\ a \in Int
    BY <1>3, <2>1, StartFacts
  <2>3. CASE (here - 1) - 1 \in sub
    <3>1. a = (here - 1) - 1
      BY <2>3 DEF Start
    <3>2. ilst # here - 1
      BY <1>3, <1>4, <2>3
    <3> QED BY <1>1, <1>3, <2>2, <3>1, <3>2
  <2>4. CASE (here - 1) - 1 \notin sub
    <3>1. a = here - 1
      BY <2>4 DEF Start
    <3> QED BY <1>1, <1>3, <2>2, <3>1
  <2> QED BY <2>3, <2>4
<1> HIDE DEF a
<1>6. here = a + s /\ s \in Int
  BY <1>3, <1>5
<1> HIDE DEF s, t
<1>7. /\ a \in Idx /\ s \in 1..2 /\ t \in 1..2 /\ a + s + t <= n
      /\ a + s - 1 \notin sub /\ a + s + t - 1 \notin sub /\ (a + s \in sub => t = 2)
      /\ 0 <= a
  BY <1>3, <1>5, <1>6
<1>8. /\ eig' \in [Idx -> Idx] /\ sub' \in Blocks2x2 /\ SameMatrix'
      /\ \A r \in Idx : r < a \/ r >= a + s + t => eig'[r] = eig[r]
      /\ \A r \in a..a+t-1 : eig'[r] = eig[r + s]
      /\ \A r \in a+t..a+t+s-1 : eig'[r] = eig[r - t]
      /\ \A r \in Int : r < a \/ r >= a + s + t => (r \in sub' <=> r \in sub)
      /\ a - 1 \notin sub' /\ a + t - 1 \notin sub' /\ a + s + t - 1 \notin sub'
      /\ (a \in sub' => a + s \in sub)
  <2>1. n' = n /\ sub0' = sub0 /\ sub \in Blocks2x2 /\ sub0 \in Blocks2x2 /\ eig \in [Idx -> Idx]
    BY <1>1, <1>2, CallStays DEF ReorderTypeOK
  <2>2. Exchanged(a, s, t)
    BY <1>1, <1>2, <1>3, <1>5, <1>7, <2>1, ExchangeFacts
  <2> QED BY <2>2 DEF Exchanged
<1>9. here' = a /\ size' = t
  BY <1>1 DEF t
<1>10. Origin' = Origin /\ Front' = Front /\ Moved' = a..a+t-1 /\ Moved = a+s..a+s+t-1
  <2>1. Origin' = Origin /\ Front' = Front
    BY <1>1, CallStays DEF Origin, Front, scan, Start
  <2>2. Moved' = a..a+t-1
    BY <1>9 DEF Moved
  <2> QED BY <1>6, <2>1, <2>2 DEF Moved, t
<1>11. Front \in Nat /\ Front <= a
  <2>1. CASE op = "select"
    BY <1>1, <1>5, <2>1, SelectMoveFacts
  <2>2. CASE op # "select"
    BY <1>7, <2>2 DEF Front
  <2> QED BY <2>1, <2>2
<1>12. Increasing((Front..n-1) \ Moved)'
  <2>1. \A r, q \in (Front..n-1) \ (a+s..a+s+t-1) : r < q => eig[r] < eig[q]
    BY <1>1, <1>10, MoveFacts DEF Increasing
  <2>2. \A r \in Front..n-1 : r < a \/ r >= a + s + t => eig'[r] = eig[r]
    BY <1>3, <1>8, <1>11
  <2>3. n - 1 \in Int /\ a + s + t - 1 <= n - 1
    BY <1>3, <1>5, <1>7
  <2>4. \A r, q \in (Front..n-1) \ (a..a+t-1) : r < q => eig'[r] < eig'[q]
    BY <1>5, <1>7, <1>8, <1>11, <2>1, <2>2, <2>3, OthersKeepOrder
  <2> QED BY <1>1, <1>10, <2>4, CallStays DEF Increasing
<1>13. ReorderTypeOK'
  BY <1>1, <1>2, <1>7, <1>8, CallStays DEF ReorderTypeOK, scan
<1>14. Moving'
  <2>1. a + t <= n /\ ilst <= a
    BY <1>3, <1>5, <1>7
  <2>2. (a \in sub' => t = 2) /\ t = BlockSize(sub0, Origin)
    BY <1>1, <1>7, <1>8, MoveFacts DEF t
  <2>3. eig'[a] = Origin /\ eig'[a + t - 1] = Origin + t - 1
    <3>1. a \in a..a+t-1 /\ a + t - 1 \in a..a+t-1 /\ (a + t - 1) + s = here + t - 1
      BY <1>3, <1>5, <1>6
    <3> QED BY <1>3, <1>6, <1>8, <3>1
  <2>4. ilst - 1 \notin sub'
    BY <1>3, <1>4, <1>5, <1>8
  <2> QED BY <1>1, <1>8, <1>9, <1>10, <1>12, <2>1, <2>2, <2>3, <2>4, CallStays DEF Moving
<1>15. MovingUp'
  <2> SUFFICES ASSUME op = "select" PROVE MovingUp'
    BY <1>1, CallStays DEF MovingUp
  <2>1. /\ k \in Int /\ ks \in Int /\ 0 <= ks /\ ilst = ks /\ here <= k /\ ks < k /\ k + t <= n
        /\ (pair <=> k \in sub0) /\ k \in Chosen /\ k - 1 \notin sub0
        /\ ks - 1 \notin sub /\ k + t - 1 \notin sub
        /\ InputFrom(k + t)
        /\ \A r \in 0..ks-1 : eig[r] \in Chosen /\ eig[r] < k
        /\ \A r \in (ks..k+t-1) \ Moved : eig[r] \notin Chosen /\ eig[r] < k
        /\ Increasing(0..ks-1)
    BY <1>1, SelectMoveFacts DEF t
  <2>2. ks <= a /\ a <= k /\ a + s + t <= k + t /\ ks - 1 < a
    BY <1>3, <1>5, <1>6, <2>1
  <2>3. ks - 1 \notin sub' /\ k + t - 1 \notin sub'
    <3>1. ks - 1 \notin sub'
      BY <1>8, <2>1, <2>2
    <3>2. k + t - 1 \notin sub'
      <4>1. CASE k = a + s
        BY <1>8, <4>1
      <4>2. CASE k # a + s
        <5>1. k + t - 1 >= a + s + t /\ k + t - 1 \in Int
          BY <1>3, <1>5, <2>1, <2>2, <4>2
        <5> QED BY <1>8, <2>1, <5>1
      <4> QED BY <4>1, <4>2
    <3> QED BY <3>1, <3>2
  <2>4. \A r \in k+t..n-1 : eig'[r] = r /\ (r \in sub' <=> r \in sub0)
    <3>1. \A r \in k+t..n-1 : r \in Idx /\ r \in Int /\ r >= a + s + t
      BY <1>3, <1>5, <2>1, <2>2
    <3> QED BY <1>8, <2>1, <3>1 DEF InputFrom
  <2>5. \A r \in 0..ks-1 : eig'[r] = eig[r]
    <3>1. \A r \in 0..ks-1 : r \in Idx /\ r < a
      BY <1>3, <1>5, <2>1, <2>2
    <3> QED BY <1>8, <3>1
  <2>6. \A r \in (ks..k+t-1) \ (a..a+t-1) : eig'[r] \notin Chosen /\ eig'[r] < k
    <3> TAKE r \in (ks..k+t-1) \ (a..a+t-1)
    <3>1. CASE r \in a+t..a+t+s-1
      <4>1. r - t \in (ks..k+t-1) \ Moved
        BY <1>3, <1>5, <1>10, <2>1, <2>2, <3>1
      <4> QED BY <1>8, <2>1, <3>1, <4>1
    <3>2. CASE r \notin a+t..a+t+s-1
      <4>1. (r < a \/ r >= a + s + t) /\ r \in Idx
        BY <1>3, <1>5, <2>1, <2>2, <3>2
      <4>2. r \in (ks..k+t-1) \ Moved
        BY <1>3, <1>5, <1>10, <4>1
      <4> QED BY <1>8, <2>1, <4>1, <4>2
    <3> QED BY <3>1, <3>2
  <2>7. Increasing(0..ks-1)'
    BY <1>1, <2>1, <2>5 DEF Increasing, scan
  <2>8. \A r \in 0..ks-1 : eig'[r] \in Chosen /\ eig'[r] < k
    BY <2>1, <2>5
  <2>9. k' = k /\ ks' = ks /\ pair' = pair /\ (pair' <=> k \in sub0)
    BY <1>1, <2>1 DEF scan
  <2>10. \A lo : lo = k + t => InputFrom(lo)'
    BY <1>1, <2>4, CallStays DEF InputFrom
  <2>11. InputFrom(k + size)'
    BY <1>9, <2>9, <2>10
  <2> QED BY <1>1, <1>9, <1>10, <2>1, <2>2, <2>3, <2>6, <2>7, <2>8, <2>9, <2>11, CallStays DEF MovingUp
<1>16. GoalNear'
  BY <1>1, CallStays DEF ReorderInv, GoalNear
<1> QED
  BY <1>1, <1>8, <1>13, <1>14, <1>15, <1>16
     DEF ReorderInv, AtCall, Scanning, SelectionLeads, RejectionIsPartial, MoveLands

LEMMA MoveDownKeepsInv ==
  ASSUME ReorderInv, MoveDown
  PROVE  ReorderInv'
<1> DEFINE a == here
           s == size
           t == BlockSize(sub, here + size)
<1>1. /\ phase = "moving" /\ here < ilst /\ Exchange(a, s, t) /\ here' = a + t
      /\ UNCHANGED call /\ UNCHANGED scan /\ size' = size /\ ilst' = ilst
      /\ phase' = "moving" /\ ret' = ret
  BY DEF MoveDown
<1>2. ReorderTypeOK /\ SameMatrix
  BY DEF ReorderInv
<1>3. /\ n \in Nat /\ a \in Int /\ 0 <= a /\ s \in {1, 2} /\ ilst \in Int /\ 0 <= ilst
      /\ a + s <= n /\ a - 1 \notin sub /\ a + s - 1 \notin sub
      /\ (a \in sub => s = 2)
      /\ eig[a] = Origin /\ eig[a + s - 1] = Origin + s - 1
      /\ \A r : r \in Idx <=> r \in Int /\ 0 <= r /\ r < n
      /\ \A r \in sub : r \in Int /\ 0 <= r /\ r + 1 < n /\ r + 1 \notin sub
  BY <1>1, MoveFacts
<1>4. ilst + s <= n /\ ilst + s - 1 \notin sub
  BY <1>1, <1>3 DEF ReorderInv, Moving
<1>5. op # "select"
  BY <1>1, <1>3, SelectMoveFacts
<1>6. /\ t \in {1, 2} /\ a + s + t <= n /\ a + s + t - 1 \notin sub /\ (a + s \in sub <=> t = 2)
  <2>1. a + s \in Idx /\ sub \in Blocks2x2
    BY <1>1, <1>2, <1>3, <1>4 DEF ReorderTypeOK
  <2>2. Start(sub, a + s) = a + s
    BY <1>3 DEF Start
  <2>3. a + s + t <= n /\ a + s + t - 1 \notin sub
    BY <1>3, <2>1, <2>2, StartFacts
  <2>4. t \in {1, 2} /\ (a + s \in sub <=> t = 2)
    BY DEF BlockSize
  <2> QED BY <2>3, <2>4
<1> HIDE DEF a, s, t
<1>7. a + t <= ilst
  <2>1. CASE t = 2 /\ ilst = a + 1
    <3>1. ilst + s - 1 = a + s
      BY <1>3, <2>1
    <3> QED BY <1>4, <1>6, <2>1, <3>1
  <2>2. CASE t = 1 \/ ilst # a + 1
    <3>1. a < ilst
      BY <1>1 DEF a
    <3> QED BY <1>3, <1>6, <2>2, <3>1
  <2> QED BY <1>6, <2>1, <2>2
<1>8. /\ eig' \in [Idx -> Idx] /\ sub' \in Blocks2x2 /\ SameMatrix'
      /\ \A r \in Idx : r < a \/ r >= a + s + t => eig'[r] = eig[r]
      /\ \A r \in a..a+t-1 : eig'[r] = eig[r + s]
      /\ \A r \in a+t..a+t+s-1 : eig'[r] = eig[r - t]
      /\ \A r \in Int : r < a \/ r >= a + s + t => (r \in sub' <=> r \in sub)
      /\ a - 1 \notin sub' /\ a + t - 1 \notin sub' /\ a + s + t - 1 \notin sub'
      /\ (a + t \in sub' => a \in sub)
  <2>1. n' = n /\ sub0' = sub0 /\ sub \in Blocks2x2 /\ sub0 \in Blocks2x2 /\ eig \in [Idx -> Idx]
    BY <1>1, <1>2, CallStays DEF ReorderTypeOK
  <2>2. a \in Idx /\ s \in 1..2 /\ t \in 1..2
    BY <1>3, <1>6
  <2>3. /\ n \in Nat /\ a + s + t <= n /\ a - 1 \notin sub /\ a + s - 1 \notin sub
        /\ a + s + t - 1 \notin sub /\ (a \in sub => s = 2) /\ (a + s \in sub => t = 2)
        /\ Exchange(a, s, t) /\ SameMatrix
    BY <1>1, <1>2, <1>3, <1>6
  <2>4. Exchanged(a, s, t)
    BY <2>1, <2>2, <2>3, ExchangeFacts
  <2> QED BY <2>4 DEF Exchanged
<1>9. here' = a + t /\ size' = s
  BY <1>1 DEF s
<1>10. Origin' = Origin /\ Front' = Front /\ Moved' = a+t..a+t+s-1 /\ Moved = a..a+s-1 /\ Front = 0
  <2>1. Origin' = Origin /\ Front' = Front
    BY <1>1, CallStays DEF Origin, Front, scan, Start
  <2>2. Moved' = a+t..a+t+s-1
    BY <1>9 DEF Moved
  <2> QED BY <1>5, <2>1, <2>2 DEF Moved, Front, a, s
<1>11. Increasing((Front..n-1) \ Moved)'
  <2>1. \A r, q \in (0..n-1) \ (a..a+s-1) : r < q => eig[r] < eig[q]
    BY <1>1, <1>10, MoveFacts DEF Increasing
  <2>2. \A r \in 0..n-1 : r < a \/ r >= a + s + t => eig'[r] = eig[r]
    BY <1>3, <1>8
  <2>3. n - 1 \in Int /\ a + s + t - 1 <= n - 1 /\ s \in 1..2 /\ t \in 1..2
    BY <1>3, <1>6
  <2>4. \A r, q \in (0..n-1) \ (a+t..a+t+s-1) : r < q => eig'[r] < eig'[q]
    BY <1>3, <1>8, <2>1, <2>2, <2>3, OthersKeepOrderDown
  <2> QED BY <1>1, <1>10, <2>4, CallStays DEF Increasing
<1>12. ReorderTypeOK'
  <2>1. a + t \in Idx
    BY <1>3, <1>6
  <2> QED BY <1>1, <1>2, <1>8, <2>1, CallStays DEF ReorderTypeOK, scan
<1>13. Moving'
  <2>1. (a + t) + s <= n /\ (a + t) + s - 1 = a + s + t - 1 /\ (a + t) - 1 = a + t - 1
    BY <1>3, <1>6
  <2>2. (a + t \in sub' => s = 2) /\ s = BlockSize(sub0, Origin)
    BY <1>1, <1>3, <1>8, MoveFacts DEF s
  <2>3. eig'[a + t] = Origin /\ eig'[(a + t) + s - 1] = Origin + s - 1
    <3>1. /\ a + t \in a+t..a+t+s-1 /\ (a + t) + s - 1 \in a+t..a+t+s-1
          /\ (a + t) - t = a /\ ((a + t) + s - 1) - t = a + s - 1
      BY <1>3, <1>6
    <3> QED BY <1>3, <1>8, <3>1
  <2>4. ilst + s - 1 \notin sub'
    <3>1. CASE ilst = a + t
      <4>1. ilst + s - 1 = a + s + t - 1
        BY <1>3, <1>6, <3>1
      <4> QED BY <1>8, <4>1
    <3>2. CASE ilst # a + t
      <4>1. ilst + s - 1 >= a + s + t /\ ilst + s - 1 \in Int
        BY <1>3, <1>6, <1>7, <3>2
      <4> QED BY <1>4, <1>8, <4>1
    <3> QED BY <3>1, <3>2
  <2>5. ilst' + size' <= n' /\ ilst' + size' - 1 \notin sub' /\ here' <= ilst'
    BY <1>1, <1>4, <1>7, <1>9, <2>4, CallStays
  <2> QED BY <1>1, <1>8, <1>9, <1>10, <1>11, <2>1, <2>2, <2>3, <2>5, CallStays DEF Moving
<1>14. GoalNear'
  BY <1>1, CallStays DEF ReorderInv, GoalNear
<1> QED
  BY <1>1, <1>5, <1>8, <1>12, <1>13, <1>14, CallStays
     DEF ReorderInv, AtCall, Scanning, MovingUp, SelectionLeads, RejectionIsPartial, MoveLands

-----------------------------------------------------------------------------
LEMMA ReorderInitInv == ReorderInit => ReorderInv
<1> SUFFICES ASSUME ReorderInit PROVE ReorderInv
  OBVIOUS
<1>1. /\ n \in 1..MaxN /\ eig = [r \in Idx |-> r] /\ sub0 = sub
      /\ k = 0 /\ ks = 0 /\ pair = FALSE /\ here = 0 /\ size = 1 /\ ilst = 0 /\ phase = "call" /\ ret = 0
  BY DEF ReorderInit
<1>2. n \in Nat /\ n >= 1 /\ 0 \in Idx
  BY <1>1, OrderAssumption DEF Idx
<1>3. sub \in Blocks2x2 /\ sub0 \in Blocks2x2
  <2>1. {} \in Blocks2x2
    BY DEF Blocks2x2, Quasi
  <2> QED BY <1>1, <2>1 DEF ReorderInit
<1>4. ReorderTypeOK
  <2>1. op \in {"select", "move"} /\ select \subseteq Idx /\ ifst \in Idx /\ dest \in Idx
    BY <1>2 DEF ReorderInit
  <2>2. k \in 0..n /\ ks \in 0..n /\ ret \in 0..n
    BY <1>1, <1>2
  <2>3. eig \in [Idx -> Idx] /\ pair \in BOOLEAN /\ phase \in {"call", "scan", "moving", "ok", "rejected"}
    BY <1>1
  <2>4. here \in Idx /\ size \in 1..2 /\ ilst \in Idx
    BY <1>1, <1>2
  <2> QED BY <1>1, <1>3, <2>1, <2>2, <2>3, <2>4 DEF ReorderTypeOK
<1>5. SameMatrix
  <2>1. \A r \in sub : r \in Idx /\ r + 1 \in Idx
    BY <1>2, <1>3 DEF Blocks2x2, Idx
  <2>2. Quasi(sub)
    BY <1>3 DEF Blocks2x2
  <2> QED BY <1>1, <2>1, <2>2 DEF SameMatrix
<1>6. AtCall
  BY <1>1, <1>2 DEF AtCall, InputFrom, Idx
<1> QED BY <1>1, <1>4, <1>5, <1>6
  DEF ReorderInv, Scanning, Moving, MovingUp, GoalNear, SelectionLeads, RejectionIsPartial, MoveLands

LEMMA ReorderNextInv == ReorderInv /\ [ReorderNext]_reorder => ReorderInv'
<1> SUFFICES ASSUME ReorderInv, [ReorderNext]_reorder PROVE ReorderInv'
  OBVIOUS
<1>1. CASE UNCHANGED reorder
  <2>1. /\ UNCHANGED call /\ UNCHANGED schur /\ UNCHANGED scan /\ UNCHANGED move
        /\ phase' = phase /\ ret' = ret
    BY <1>1 DEF reorder
  <2>2. k' = k /\ ks' = ks /\ pair' = pair /\ here' = here /\ size' = size /\ ilst' = ilst
    BY <2>1 DEF scan, move
  <2>3. Passed' = Passed /\ Origin' = Origin /\ Front' = Front /\ Moved' = Moved
        /\ \A S : InOrder(S)' <=> InOrder(S)
    BY <2>1, <2>2, CallStays, SchurStays DEF Passed, Origin, Front, Moved, InOrder, Start
  <2> QED BY <2>1, <2>2, <2>3, CallStays, SchurStays
    DEF ReorderInv, ReorderTypeOK, AtCall, Scanning, Moving, MovingUp, GoalNear,
        SelectionLeads, RejectionIsPartial, MoveLands, Start
<1>2. CASE ReorderDone
  BY <1>1, <1>2 DEF ReorderDone
<1>3. CASE ReorderNext
  BY <1>2, <1>3, CallMoveKeepsInv, MoveReturnsKeepsInv, CallSelectKeepsInv, SkipSecondRowKeepsInv,
     PassBlockKeepsInv, MoveBlockKeepsInv, BlockMovedKeepsInv, SelectReturnsKeepsInv,
     MoveUpKeepsInv, MoveDownKeepsInv, RejectSwapKeepsInv DEF ReorderNext
<1> QED BY <1>1, <1>3

(* ReorderInv is inductive: it holds throughout select and move. *)
THEOREM ReorderInvariantHolds == ReorderSpec => []ReorderInv
BY ReorderInitInv, ReorderNextInv, PTL DEF ReorderSpec

(* The variables keep their types: every row index stays within T. *)
THEOREM ReorderTypeCorrect == ReorderSpec => []ReorderTypeOK
<1>1. ReorderInv => ReorderTypeOK
  BY DEF ReorderInv
<1> QED BY <1>1, ReorderInvariantHolds, PTL

(* *_schur_select may index select by its loop position: from there on T is  *)
(* still the input, for every selection and every order.                      *)
THEOREM ScanReadsInput == ReorderSpec => []ScanSeesInput
<1>1. ReorderInv => ScanSeesInput
  BY DEF ReorderInv, Scanning, ScanAt, InputFrom, Passed, ScanSeesInput
<1> QED BY <1>1, ReorderInvariantHolds, PTL

(* *_schur_select returns with exactly the chosen blocks in front. *)
THEOREM SelectionIsLeading == ReorderSpec => []SelectionLeads
<1>1. ReorderInv => SelectionLeads
  BY DEF ReorderInv
<1> QED BY <1>1, ReorderInvariantHolds, PTL

(* After SwapRejected the rows before the move are in place, those after it untouched. *)
THEOREM RejectionKeepsFront == ReorderSpec => []RejectionIsPartial
<1>1. ReorderInv => RejectionIsPartial
  BY DEF ReorderInv
<1> QED BY <1>1, ReorderInvariantHolds, PTL

(* *_schur_move ends within one row of its goal, the other blocks in their order. *)
THEOREM MoveReachesGoal == ReorderSpec => []MoveLands
<1>1. ReorderInv => MoveLands
  BY DEF ReorderInv
<1> QED BY <1>1, ReorderInvariantHolds, PTL

-----------------------------------------------------------------------------
(***************************************************************************)
(* SchurPipeline: what h and z hold at every stage.                        *)
(***************************************************************************)

(***************************************************************************)
(* What h and z hold at every stage: the reflectors stay below the         *)
(* subdiagonal until Q is formed, and only there, and after that nothing   *)
(* but zeros is there until the iteration returns.                         *)
(***************************************************************************)
Untouched == h = [x \in Cells |-> "input"]

Stored ==
  h = [x \in Cells |-> IF x \in Below THEN "reflector" ELSE "hessenberg"]

Finished ==
  \A x \in Cells :
    /\ x \in Below => h[x] \in {"zero", "workspace"}
    /\ x \in Below /\ Kernel => h[x] = "zero"
    /\ x \notin Below /\ want_t =>
         IF x \in Subdiagonal /\ entry \notin Real
         THEN h[x] = IF Kernel THEN "zero" ELSE "deflated"
         ELSE h[x] = "T"

Stage ==
  /\ stage \in {"validate", "size", "NonFinite"} => Untouched /\ entry \in Crate
  /\ stage \in {"validate", "NonFinite"} => z = "given" /\ w = "given"
  /\ stage \in {"size", "reduce", "form_q"} /\ entry \in Crate /\ want_z => z = "identity"
  /\ stage = "form_q" => Stored
  /\ stage = "clear" => Stored /\ (want_z => z = "Q")
  /\ stage = "iterate" => HessenbergRead /\ (want_z => z = "Q")
  /\ stage = "clean_up" => Finished /\ (want_z => z = "Z") /\ w = "eigenvalues"

PipelineInv ==
  /\ PipelineTypeOK
  /\ entry = "real_eigenvalues" => ~want_t
  /\ Stage
  /\ NoLeftoverInT /\ OutputsOfInput

LEMMA Partition ==
  ASSUME order \in Nat, NEW x \in Cells
  PROVE  (x \in Upper \/ x \in Subdiagonal \/ x \in Below)
         /\ (x \in Upper => x \notin Subdiagonal /\ x \notin Below)
         /\ (x \in Subdiagonal => x \notin Below)
  BY DEF Cells, Upper, Subdiagonal, Below

LEMMA InitPipelineInv == PipelineInit => PipelineInv
  BY MaxOrderAssumption
     DEF PipelineInit, PipelineInv, PipelineTypeOK, Stage, NoLeftoverInT, OutputsOfInput,
         Untouched, Holds, Crate, Bench

(* After a converged iteration on a Hessenberg matrix. *)
LEMMA IterationFinishes ==
  ASSUME order \in Nat, HessenbergRead, NEW junk \in IF Blocked THEN SUBSET Below ELSE {{}},
         h' = Iterated(junk), UNCHANGED request
  PROVE  Finished' /\ h' \in [Cells -> Holds]
<1>1. ASSUME NEW x \in Cells
      PROVE  /\ h'[x] \in Holds
             /\ x \in Below => h'[x] \in {"zero", "workspace"}
             /\ x \in Below /\ ~Blocked => h'[x] = "zero"
             /\ x \notin Below /\ want_t =>
                  IF x \in Subdiagonal /\ entry \notin Real
                  THEN h'[x] = IF Kernel THEN "zero" ELSE "deflated"
                  ELSE h'[x] = "T"
  <2>1. junk \subseteq Below /\ (~Blocked => junk = {})
    OBVIOUS
  <2>2. CASE x \in Below
    BY <2>1, <2>2, Partition DEF Iterated, HessenbergRead, Holds
  <2>3. CASE x \notin Below
    BY <2>1, <2>3, Partition DEF Iterated, Holds
  <2> QED
    BY <2>2, <2>3
<1>2. /\ h' \in [Cells -> Holds]
      /\ Kernel' = Kernel /\ (Kernel => ~Blocked)
      /\ Cells' = Cells /\ Below' = Below /\ Subdiagonal' = Subdiagonal
  BY <1>1 DEF Iterated, request, Cells, Below, Subdiagonal, Kernel, Blocked
<1>3. want_t' = want_t /\ entry' = entry
  BY DEF request
<1> QED
  BY <1>1, <1>2, <1>3 DEF Finished

(* What is cleared makes T of it. *)
LEMMA CleanUpFinishes ==
  ASSUME order \in Nat, Finished, entry \in Crate \union Bench,
         entry = "real_eigenvalues" => ~want_t, want_t,
         NEW x \in Cells
  PROVE  /\ x \in Upper => Cleared(Leftover)[x] = "T"
         /\ x \in Below => Cleared(Leftover)[x] = "zero"
         /\ x \in Subdiagonal =>
              IF entry \in Real THEN Cleared(Leftover)[x] = "T"
              ELSE \/ Cleared(Leftover)[x] = "zero"
                   \/ entry \in Bench /\ Cleared(Leftover)[x] = "deflated"
<1>1. Cleared(Leftover)[x] = IF x \in Leftover THEN "zero" ELSE h[x]
  BY DEF Cleared
<1>2. CASE x \in Upper
  BY <1>1, <1>2, Partition DEF Leftover, Finished
<1>3. CASE x \in Below
  BY <1>1, <1>3, Partition DEF Leftover, Finished
<1>4. CASE x \in Subdiagonal
  BY <1>1, <1>4, Partition DEF Leftover, Finished, Real, Crate, Bench, Kernel
<1> QED
  BY <1>2, <1>3, <1>4, Partition

LEMMA StepIInv == PipelineInv /\ [PipelineNext]_pipeline => PipelineInv'
<1> SUFFICES ASSUME PipelineInv, [PipelineNext]_pipeline PROVE PipelineInv'
  OBVIOUS
<1>0. order \in Nat
  BY MaxOrderAssumption DEF PipelineInv, PipelineTypeOK
<1> USE DEF PipelineInv, PipelineTypeOK, Stage, NoLeftoverInT, OutputsOfInput
<1>1. CASE Refuse
  BY <1>1 DEF Refuse, request, Untouched, Cells
<1>2. CASE SeedZ
  BY <1>2 DEF SeedZ, request, Untouched, Cells
<1>3. CASE SmallOrder
  BY <1>3 DEF SmallOrder, request, Cells
<1>4. CASE ReduceOrder
  BY <1>4 DEF ReduceOrder, request, Cells
<1>5. CASE Hessenberg
  <2>1. h' \in [Cells -> Holds]
    BY <1>5 DEF Hessenberg, Holds
  <2> QED
    BY <1>5, <2>1 DEF Hessenberg, request, Stored, Cells, Below
<1>6. CASE FormQ
  <2>1. want_z => z' = "Q"
    BY <1>6 DEF FormQ, Stored, ReflectorsStored, Below
  <2> QED
    BY <1>6, <2>1 DEF FormQ, request, Stored, Cells, Below
<1>7. CASE Clear
  <2>1. h' \in [Cells -> Holds] /\ Cells' = Cells /\ Below' = Below
    BY <1>7 DEF Clear, Cleared, Holds, Cells, Below, request
  <2>2. HessenbergRead'
    BY <1>7, <2>1 DEF Clear, Cleared, Stored, HessenbergRead
  <2> QED
    BY <1>7, <2>1, <2>2 DEF Clear, request
<1>8. CASE Converge
  <2>1. Finished' /\ h' \in [Cells -> Holds]
    BY <1>0, <1>8, IterationFinishes DEF Converge
  <2>2. w' = "eigenvalues" /\ (want_z => z' = "Z") /\ (~want_z => z' = z)
    BY <1>8 DEF Converge
  <2> QED
    BY <1>8, <2>1, <2>2 DEF Converge, request, Cells
<1>9. CASE NoConvergence
  <2>1. h' \in [Cells -> Holds]
    BY <1>9 DEF NoConvergence, Holds
  <2>2. Cells' = Cells /\ stage' \in {"NoConvergence", "panic"} /\ UNCHANGED request
    BY <1>9 DEF NoConvergence, request, Cells
  <2>3. z' \in {z, "unfinished"} /\ w' = "unfinished"
    BY <1>9 DEF NoConvergence
  <2> QED
    BY <2>1, <2>2, <2>3 DEF request
<1>10. CASE CleanUp
  <2>1. h' = Cleared(Leftover) /\ stage' = "Ok" /\ UNCHANGED <<request, z, w>> /\ stage = "clean_up"
    BY <1>10 DEF CleanUp
  <2>2. /\ Cells' = Cells /\ Upper' = Upper /\ Below' = Below
        /\ Subdiagonal' = Subdiagonal /\ h' \in [Cells -> Holds]
    BY <2>1 DEF Cleared, Holds, Cells, Upper, Below, Subdiagonal, request
  <2>3. NoLeftoverInT'
    <3> SUFFICES ASSUME want_t
                 PROVE  /\ \A x \in Upper : h'[x] = "T"
                        /\ \A x \in Below : h'[x] = "zero"
                        /\ \A x \in Subdiagonal :
                             IF entry \in Real THEN h'[x] = "T"
                             ELSE h'[x] = "zero" \/ (entry \in Bench /\ h'[x] = "deflated")
      BY <2>1, <2>2 DEF request
    <3>1. Upper \subseteq Cells /\ Below \subseteq Cells /\ Subdiagonal \subseteq Cells
      BY DEF Upper, Below, Subdiagonal
    <3> QED
      BY <1>0, <2>1, <3>1, CleanUpFinishes
  <2> QED
    BY <2>1, <2>2, <2>3 DEF request
<1>11. CASE UNCHANGED pipeline
  BY <1>11 DEF pipeline, request, Untouched, Stored, Finished, HessenbergRead, Cells, Upper, Below,
               Subdiagonal, Kernel
<1> QED
  BY <1>1, <1>2, <1>3, <1>4, <1>5, <1>6, <1>7, <1>8, <1>9, <1>10, <1>11 DEF PipelineNext, PipelineDone

THEOREM PipelineInvariantHolds == PipelineSpec => []PipelineInv
  BY InitPipelineInv, StepIInv, PTL DEF PipelineSpec

(* Every variable stays in its range, and every cell holds something known. *)
THEOREM PipelineTypeCorrect == PipelineSpec => []PipelineTypeOK
<1>1. PipelineInv => PipelineTypeOK
  BY DEF PipelineInv
<1> QED
  BY <1>1, PipelineInvariantHolds, PTL

(***************************************************************************)
(* On every route to a Schur form, kernel or faer's iteration, blocked or  *)
(* not, whatever the thresholds are, no reflector and no workspace is left *)
(* in the T that is returned.                                              *)
(***************************************************************************)
THEOREM ReturnsT == PipelineSpec => []NoLeftoverInT
<1>1. PipelineInv => NoLeftoverInT
  BY DEF PipelineInv
<1> QED
  BY <1>1, PipelineInvariantHolds, PTL

(***************************************************************************)
(* Schur vectors are the product of the reduction and the iteration, no    *)
(* route takes a stored reflector for an entry, and a refused input leaves *)
(* what the caller passed as it was.                                       *)
(***************************************************************************)
THEOREM ReturnsOutputsOfInput == PipelineSpec => []OutputsOfInput
<1>1. PipelineInv => OutputsOfInput
  BY DEF PipelineInv
<1> QED
  BY <1>1, PipelineInvariantHolds, PTL
=============================================================================
