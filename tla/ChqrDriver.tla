----------------------------- MODULE ChqrDriver -----------------------------
(***************************************************************************)
(* The c64 Hessenberg QR driver, chqr_schur_in_place of                    *)
(* kernels/src/schur_small_cplx.rs, with want_t on or off: windows of one  *)
(* row are deflated, larger ones are swept by a single-shift chase of      *)
(* rotations.  The matrix is that of HessenbergMatrix; which entries are   *)
(* negligible and where an early start is possible are choices.            *)
(***************************************************************************)
EXTENDS HessenbergMatrix

CONSTANTS
  MaxN,         \* largest matrix order considered
  ItMax,        \* itmax; 30 * max(10, n) * n in the code
  StallLimit    \* NON_CONVERGENCE_LIMIT; 10 in the code

ASSUME OrderAssumption == MaxN \in Nat
ASSUME LimitAssumption == ItMax \in Nat \ {0} /\ StallLimit \in Nat \ {0}

VARIABLES
  want_t, pc,
  iter, k_defl,
  istart_m, istop_m,      \* range the applies maintain (fixed before the scan)
  istart2, i, shift,      \* first row of the chase, its position, the shift kind
  recorded,               \* rows whose eigenvalue is in w
  ret                     \* the returned isize

call  == <<n, want_t, have_z>>
chase == <<istart_m, istop_m, istart2, i, shift>>
vars  == <<call, pc, iter, k_defl, window, chase, matrix, recorded, ret>>

Init ==
  /\ n \in 0..MaxN /\ want_t \in BOOLEAN /\ have_z \in BOOLEAN
  /\ pc = "entry"
  /\ iter = 0 /\ k_defl = 0
  /\ istart = 0 /\ istop = n
  /\ istart_m = 0 /\ istop_m = n /\ istart2 = 0 /\ i = 0 /\ shift = "trailing"
  /\ UpperHessenberg
  /\ recorded = {}
  /\ ret = 0

Return(value) ==
  /\ pc' = "done"
  /\ ret' = value
  /\ UNCHANGED <<call, iter, k_defl, window, chase, matrix>>

(* The early returns for n = 0 and n = 1. *)
Trivial ==
  /\ pc = "entry"
  /\ n <= 1
  /\ recorded' = Idx
  /\ Return(0)

EnterLoop ==
  /\ pc = "entry"
  /\ n > 1
  /\ pc' = "top"
  /\ UNCHANGED <<call, iter, k_defl, window, chase, matrix, recorded, ret>>

(* The last permitted iteration only returns the failing index plus one. *)
LastIteration == iter + 1 = ItMax

GiveUp_Recorded ==
  /\ pc = "top"
  /\ LastIteration
  /\ Return(n - istop)
  /\ UNCHANGED recorded

GiveUp ==
  /\ pc = "top"
  /\ LastIteration
  /\ Return(istop)
  /\ UNCHANGED recorded

(* The loop ends once at most one row is left; a last row is recorded. *)
Finish ==
  /\ pc = "top"
  /\ ~LastIteration
  /\ istart + 1 >= istop
  /\ recorded' = recorded \union (IF istart + 1 = istop THEN {istart} ELSE {})
  /\ Return(0)

(* The scan; the entry it stops at is set to zero. *)
Split_EntryKept(s) == nz
Split(s) == nz \ {Subdiagonal(s)}

Scan ==
  /\ pc = "top"
  /\ ~LastIteration
  /\ istart + 1 < istop
  /\ istart_m' = IF want_t THEN 0 ELSE istart
  /\ istop_m' = IF want_t THEN n ELSE istop
  /\ \/ ScanFindsNothing /\ UNCHANGED <<istart, nz>>
     \/ \E s \in istart+1..istop-1 : ScanStopsAt(s) /\ nz' = Split(s) /\ istart' = s
  /\ pc' = "deflate"
  /\ UNCHANGED <<call, iter, k_defl, istop, istart2, i, shift, stale, stale_z, recorded, ret>>

Deflate ==
  /\ pc = "deflate"
  /\ istart + 1 >= istop
  /\ k_defl' = 0
  /\ recorded' = recorded \union {istart}
  /\ istop' = istart
  /\ istart' = 0
  /\ iter' = iter + 1
  /\ pc' = "top"
  /\ UNCHANGED <<call, chase, matrix, ret>>

(***************************************************************************)
(* The shift is the eigenvalue of the trailing 2x2 block closer to the     *)
(* corner, or exceptional; a window of three or more rows may be entered   *)
(* late, where two consecutive subdiagonals are small.                     *)
(***************************************************************************)
EarlyStarts_NoMargin == istart+1..istop-1
EarlyStarts == istart+1..istop-2

BeginSweep ==
  /\ pc = "deflate"
  /\ istart + 1 < istop
  /\ k_defl' = k_defl + 1
  /\ shift' = IF k_defl' % StallLimit = 0 THEN "exceptional" ELSE "trailing"
  /\ istart2' \in {istart} \union EarlyStarts
  /\ i' = istart2'
  /\ pc' = "chase"
  /\ UNCHANGED <<call, iter, window, istart_m, istop_m, matrix, recorded, ret>>

(***************************************************************************)
(* The rotation of rows and columns i and i+1.  Past the first position it *)
(* annihilates the bulge in column i-1, written explicitly; at an early    *)
(* start that column is scaled and its negligible fill-in dropped.  The    *)
(* columns of Z are rotated over all rows.                                 *)
(***************************************************************************)
jend_NoBulgeRow == AtMost(i + 2, istop)
jend == AtMost(i + 3, istop)

Annihilated_BulgeKept == IF i = istart2 THEN nz ELSE MixRows(nz, {i, i + 1}, {i - 1})
Annihilated ==
  IF i = istart2 THEN nz ELSE MixRows(nz, {i, i + 1}, {i - 1}) \ {<<i + 1, i - 1>>}

ZRows_Maintained == istart_m..istop_m-1
ZRows == Idx

ChaseStep ==
  /\ pc = "chase"
  /\ Reflect(Annihilated, {i, i + 1}, i..istop_m-1, istart_m..jend-1,
             IF i > istart THEN {i - 1} ELSE {}, {})
  /\ Accumulate({i, i + 1}, ZRows)
  /\ i' = i + 1
  /\ IF i' = istop - 1
       THEN pc' = "top" /\ iter' = iter + 1
       ELSE UNCHANGED <<pc, iter>>
  /\ UNCHANGED <<call, k_defl, window, istart_m, istop_m, istart2, shift, recorded, ret>>

Done == pc = "done" /\ UNCHANGED vars

Next ==
  \/ Trivial \/ EnterLoop
  \/ GiveUp \/ Finish \/ Scan
  \/ Deflate \/ BeginSweep \/ ChaseStep
  \/ Done

Spec == Init /\ [][Next]_vars

-----------------------------------------------------------------------------
(* Types and ranges of the variables. *)
TypeOK ==
  /\ n \in 0..MaxN /\ want_t \in BOOLEAN /\ have_z \in BOOLEAN
  /\ pc \in {"entry", "top", "deflate", "chase", "done"}
  /\ iter \in 0..ItMax-1 /\ k_defl \in Nat
  /\ istart \in 0..n /\ istop \in 0..n
  /\ istart_m \in 0..n /\ istop_m \in 0..n
  /\ istart2 \in 0..n /\ i \in 0..n
  /\ shift \in {"trailing", "exceptional"}
  /\ nz \subseteq Cells /\ stale \subseteq Cells /\ stale_z \subseteq Cells
  /\ recorded \subseteq Idx /\ ret \in 0..n

(***************************************************************************)
(* The raw-pointer accesses stay inside the matrix and the usize           *)
(* differences (istop - 2, istop_m - i, jend - istart_m) do not wrap: a    *)
(* window is never empty after the scan, it has two rows at every position *)
(* of a chase, and the ranges of the rotation contain it.                  *)
(***************************************************************************)
WindowsInBounds ==
  /\ pc = "top" => istart = 0 \/ istart + 2 <= istop
  /\ pc = "deflate" => istart < istop
  /\ pc = "chase" =>
       /\ istart <= istart2 /\ istart2 <= i /\ i + 2 <= istop
       /\ istart_m <= istart /\ istop <= istop_m /\ istop_m <= n

(***************************************************************************)
(* Between sweeps the matrix is upper Hessenberg, during one it has a      *)
(* bulge of one entry, and the zeros that separate the window from the     *)
(* rows above and below it survive every sweep.                            *)
(***************************************************************************)
HessenbergShape ==
  /\ \A x \in nz : x[1] <= x[2] + 1 \/ (pc = "chase" /\ i > istart2 /\ x = <<i + 1, i - 1>>)
  /\ pc # "done" /\ istop < n => Subdiagonal(istop) \notin nz
  /\ pc # "done" /\ istart > 0 => Subdiagonal(istart) \notin nz

(***************************************************************************)
(* A = Z T Z': at every step, also when the cap strikes, T (with want_t)   *)
(* and Z have received every rotation in full, each in ranges of its own.  *)
(***************************************************************************)
SimilarityMaintained ==
  /\ want_t => stale = {}
  /\ have_z => stale_z = {}

(***************************************************************************)
(* Restricting the rotations without want_t is sound: no window that is    *)
(* still to be deflated contains a stale entry.                            *)
(***************************************************************************)
NoStaleWindow ==
  /\ pc # "done" => \A x \in stale : x[1] < istop /\ x[2] < istop => Straddles(x)
  /\ pc = "chase" => stale \intersect ((istart..istop-1) \X (istart..istop-1)) = {}

(***************************************************************************)
(* The documentation of chqr_schur_in_place: on success h is the upper     *)
(* triangular T.  After a failure the rows from the returned index on are. *)
(***************************************************************************)
SchurFormReturned ==
  pc = "done" =>
    \A x \in nz : x[1] > x[2] => x[1] = x[2] + 1 /\ x[1] < ret

(* The driver implements the abstract deflation, one slot at a time. *)
Abstract == INSTANCE Deflation WITH
  MaxOrder <- MaxN, order <- n, slots <- recorded, over <- (pc = "done"), info <- ret

ImplementsDeflation == Abstract!Spec
=============================================================================
