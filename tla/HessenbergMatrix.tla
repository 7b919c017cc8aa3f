-------------------------- MODULE HessenbergMatrix --------------------------
(***************************************************************************)
(* The matrix of the Hessenberg QR kernels (schur_small.rs,                *)
(* schur_small_cplx.rs) and what reflectors and rotations that are applied *)
(* to a part of it do.  Of the numbers two facts are kept per entry, and   *)
(* of the accumulated Z which entries lack a transformation of the matrix. *)
(***************************************************************************)
EXTENDS Integers, FiniteSets

VARIABLES
  n,       \* h.nrows()
  istart, istop,   \* the active window, rows istart, ..., istop-1
  have_z,  \* a Z was passed
  nz,      \* entries that may be nonzero; an entry outside is exactly zero
  stale,   \* entries whose stored value is not what the transformations so
           \* far make of it: one was applied to a range without the entry
  stale_z  \* the same of Z

window == <<istart, istop>>
matrix == <<nz, stale, stale_z>>

Idx == 0..n-1
Cells == Idx \X Idx
Subdiagonal(k) == <<k, k-1>>
AtMost(a, b) == IF a <= b THEN a ELSE b

(* An upper-Hessenberg input, with any subdiagonal entries zero. *)
UpperHessenberg ==
  /\ \E sub \in SUBSET (1..n-1) :
       nz = {x \in Cells : x[1] <= x[2] \/ (x[1] = x[2] + 1 /\ x[1] \in sub)}
  /\ stale = {} /\ stale_z = {}

(***************************************************************************)
(* Applying an orthogonal transformation of the rows and columns K.  On    *)
(* the maintained columns it mixes the rows of K, on the maintained rows   *)
(* the columns of K; an entry of a mixed line may be nonzero (and is       *)
(* stale) when any entry it is mixed with was.  Where it is not applied    *)
(* although an entry of the line may be nonzero, the line becomes stale.   *)
(***************************************************************************)
NonzeroCols(S, K) == {c \in Idx : \E q \in K : <<q, c>> \in S}
NonzeroRows(S, K) == {r \in Idx : \E q \in K : <<r, q>> \in S}
MixRows(S, K, cols) == S \union K \X (NonzeroCols(S, K) \intersect cols)
MixCols(S, K, rows) == S \union (NonzeroRows(S, K) \intersect rows) \X K

Reflect(S, K, cols, rows, exactCols, exactRows) ==
  LET byRows == MixRows(S, K, cols)
      missedCols == NonzeroCols(S, K) \ (cols \union exactCols)
      missedRows == NonzeroRows(byRows, K) \ (rows \union exactRows)
  IN  /\ nz' = MixCols(byRows, K, rows)
      /\ stale' = MixCols(MixRows(stale, K, cols \union exactCols), K, rows \union exactRows)
                    \union (K \X missedCols) \union (missedRows \X K)

(***************************************************************************)
(* Z is multiplied from the right by a transformation of its columns K, on *)
(* the given rows.  All entries of Z may be nonzero.  A call left out is   *)
(* the case of no rows: all entries of these columns become stale.         *)
(***************************************************************************)
Accumulate(K, rows) ==
  IF have_z THEN stale_z' = MixCols(stale_z, K, rows) \union (Idx \ rows) \X K
            ELSE UNCHANGED stale_z

(***************************************************************************)
(* The deflation scan of a window walks i from istop-1 down to istart+1    *)
(* and stops at the first negligible subdiagonal entry.  A zero entry is   *)
(* always negligible, so the scan never passes one.                        *)
(***************************************************************************)
ScanStopsAt(s) ==
  /\ s \in istart+1..istop-1
  /\ \A k \in s+1..istop-1 : Subdiagonal(k) \in nz

ScanFindsNothing == \A k \in istart+1..istop-1 : Subdiagonal(k) \in nz

(* An entry above the diagonal that couples two decoupled blocks. *)
Straddles(x) == \E s \in x[1]+1..x[2] : Subdiagonal(s) \notin nz
=============================================================================
