----------------------- MODULE HessenbergMatrix_proofs -----------------------
(* Facts about applying a transformation, used by both QR drivers. *)
EXTENDS HessenbergMatrix, TLAPS

(* Applying a transformation keeps both facts within the matrix. *)
LEMMA ReflectType ==
  ASSUME n \in Nat, stale \subseteq Cells,
         NEW S \in SUBSET Cells, NEW K \in SUBSET Idx, NEW cols, NEW rows, NEW ec, NEW er,
         Reflect(S, K, cols, rows, ec, er)
  PROVE  nz' \subseteq Cells /\ stale' \subseteq Cells
  BY DEF Reflect, MixRows, MixCols, NonzeroCols, NonzeroRows, Cells

(* Accumulating a transformation in Z keeps its facts within Z. *)
LEMMA AccumulateType ==
  ASSUME stale_z \subseteq Cells, NEW K \in SUBSET Idx, NEW rows, Accumulate(K, rows)
  PROVE  stale_z' \subseteq Cells
  BY DEF Accumulate, MixCols, NonzeroRows, Cells

(* A transformation that reaches all rows leaves nothing of Z behind. *)
LEMMA AccumulateComplete ==
  ASSUME stale_z = {}, NEW K, Accumulate(K, Idx)
  PROVE  stale_z' = {}
  BY DEF Accumulate, MixCols, NonzeroRows

(* Only mixed lines can gain nonzero entries. *)
LEMMA ReflectSupport ==
  ASSUME NEW S, NEW K, NEW cols, NEW rows, NEW ec, NEW er,
         Reflect(S, K, cols, rows, ec, er), NEW x \in nz'
  PROVE  x \in S \/ (x \in K \X cols) \/ (x \in rows \X K)
  BY DEF Reflect, MixRows, MixCols, NonzeroCols, NonzeroRows

(* Entries outside the rows and columns K are as they were. *)
LEMMA ReflectElsewhere ==
  ASSUME NEW S, NEW K, NEW cols, NEW rows, NEW ec, NEW er,
         Reflect(S, K, cols, rows, ec, er), NEW r, NEW c, r \notin K, c \notin K
  PROVE  <<r, c>> \in nz' <=> <<r, c>> \in S
  BY DEF Reflect, MixRows, MixCols, NonzeroCols, NonzeroRows

(* An application loses no nonzero entry. *)
LEMMA ReflectKeeps ==
  ASSUME NEW S, NEW K, NEW cols, NEW rows, NEW ec, NEW er,
         Reflect(S, K, cols, rows, ec, er)
  PROVE  S \subseteq nz'
  BY DEF Reflect, MixRows, MixCols

(* Only mixed lines can go stale. *)
LEMMA ReflectStaleSupport ==
  ASSUME NEW S, NEW K, NEW cols, NEW rows, NEW ec, NEW er,
         Reflect(S, K, cols, rows, ec, er), NEW x \in stale'
  PROVE  x \in stale \/ x[1] \in K \/ x[2] \in K
  BY DEF Reflect, MixRows, MixCols, NonzeroCols, NonzeroRows

(***************************************************************************)
(* An application whose ranges contain every nonzero entry of the mixed    *)
(* lines, but those written explicitly, leaves nothing stale.              *)
(***************************************************************************)
LEMMA ReflectComplete ==
  ASSUME stale = {},
         NEW S, NEW K, NEW cols, NEW rows, NEW ec, NEW er,
         Reflect(S, K, cols, rows, ec, er),
         \A r \in K, c \in Idx : <<r, c>> \in S => c \in cols \union ec,
         \A r \in Idx, c \in K : <<r, c>> \in S \/ (r \in K /\ c \in cols)
                                   => r \in rows \union er
  PROVE  stale' = {}
  BY DEF Reflect, MixRows, MixCols, NonzeroCols, NonzeroRows

(***************************************************************************)
(* An application inside a window that holds no stale entry, and that      *)
(* reaches all nonzero entries of the mixed lines inside the window: the   *)
(* window stays clean, and what goes stale to the left of istop lies above *)
(* it.                                                                     *)
(***************************************************************************)
InWindow == istart..istop-1

LEMMA SweepStaysClean ==
  ASSUME n \in Nat, istart \in Nat, istop \in 0..n,
         stale \subseteq Cells, stale \intersect (InWindow \X InWindow) = {},
         NEW S, NEW K \in SUBSET InWindow, NEW cols, NEW rows, NEW ec,
         Reflect(S, K, cols, rows, ec, {}),
         cols \union ec \subseteq InWindow,
         \A r \in K, c \in Idx : <<r, c>> \in S /\ c < istop => c \in cols \union ec,
         \A r \in InWindow, c \in K : <<r, c>> \in S \/ r \in K => r \in rows
  PROVE  /\ stale' \intersect (InWindow \X InWindow) = {}
         /\ \A x \in stale' : x[1] < istop /\ x[2] < istop =>
              x \in stale \/ (x[1] \in 0..istart-1 /\ x[2] \in InWindow)
<1>1. MixRows(stale, K, cols \union ec) = stale
  <2>1. ASSUME NEW c \in cols \union ec, NEW q \in K, <<q, c>> \in stale
        PROVE  FALSE
    <3>1. <<q, c>> \in InWindow \X InWindow
      OBVIOUS
    <3> QED
      BY <2>1, <3>1
  <2>2. NonzeroCols(stale, K) \intersect (cols \union ec) = {}
    BY <2>1 DEF NonzeroCols
  <2> QED
    BY <2>2 DEF MixRows
<1>2. ASSUME NEW x \in stale', x \notin stale
      PROVE  \E r \in Idx, c \in Idx : x = <<r, c>> /\ (c >= istop \/ (c \in InWindow /\ r \notin InWindow))
  <2>1. \/ x \in (NonzeroRows(stale, K) \intersect rows) \X K
        \/ x \in K \X (NonzeroCols(S, K) \ (cols \union ec))
        \/ x \in (NonzeroRows(MixRows(S, K, cols), K) \ rows) \X K
    BY <1>1, <1>2 DEF Reflect, MixCols
  <2>2. K \subseteq Idx
    BY DEF InWindow, Idx
  <2>3. CASE x \in (NonzeroRows(stale, K) \intersect rows) \X K
    <3>1. PICK r \in Idx, c \in K : x = <<r, c>> /\ \E q \in K : <<r, q>> \in stale
      BY <2>3 DEF NonzeroRows
    <3>2. r \notin InWindow
      BY <3>1
    <3> QED
      BY <2>2, <3>1, <3>2
  <2>4. CASE x \in K \X (NonzeroCols(S, K) \ (cols \union ec))
    <3>1. PICK r \in K, c \in Idx : x = <<r, c>> /\ c \notin cols \union ec /\ \E q \in K : <<q, c>> \in S
      BY <2>4 DEF NonzeroCols
    <3>2. c >= istop
      BY <3>1 DEF Idx
    <3> QED
      BY <2>2, <3>1, <3>2
  <2>5. CASE x \in (NonzeroRows(MixRows(S, K, cols), K) \ rows) \X K
    <3>1. PICK r \in Idx, c \in K : x = <<r, c>> /\ r \notin rows /\ \E q \in K : <<r, q>> \in MixRows(S, K, cols)
      BY <2>5 DEF NonzeroRows
    <3>2. r \notin InWindow
      BY <3>1 DEF MixRows
    <3> QED
      BY <2>2, <3>1, <3>2
  <2> QED
    BY <2>1, <2>3, <2>4, <2>5
<1>3. ASSUME NEW x \in stale'
      PROVE  /\ x \notin InWindow \X InWindow
             /\ x[1] < istop /\ x[2] < istop =>
                  x \in stale \/ (x[1] \in 0..istart-1 /\ x[2] \in InWindow)
  <2>1. CASE x \in stale
    BY <2>1
  <2>2. CASE x \notin stale
    BY <1>2, <2>2 DEF InWindow, Idx
  <2> QED
    BY <2>1, <2>2
<1> QED
  BY <1>3
=============================================================================
