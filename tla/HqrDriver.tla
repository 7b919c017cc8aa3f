----------------------------- MODULE HqrDriver -----------------------------
(***************************************************************************)
(* The real Hessenberg QR drivers of kernels/src/schur_small.rs:           *)
(* hqr_eigvals_in_place (eigenvalues only) and its full-Schur sibling      *)
(* hqr_schur_in_place (want_t on or off).                                  *)
(*                                                                         *)
(* Both are a loop over an active window [istart, istop) of the matrix: a  *)
(* deflation scan splits the window at a negligible subdiagonal entry, a   *)
(* window of order one or two is deflated into w_re/w_im, and a larger one *)
(* is swept by a double-shift bulge chase.                                 *)
(*                                                                         *)
(* The matrix is that of HessenbergMatrix.  Whether an entry of nz is      *)
(* negligible, where an early start is possible and which kind of          *)
(* eigenvalues a block has are choices.                                    *)
(***************************************************************************)
EXTENDS HessenbergMatrix

CONSTANTS
  MaxN,         \* largest matrix order considered
  Modes,        \* the calls considered, see Mode
  ItMax,        \* itmax; 30 * max(10, n) in the code
  StallLimit    \* NON_CONVERGENCE_LIMIT; 10 in the code

(* hqr_eigvals_in_place; hqr_schur_in_place with want_t; the same without. *)
Mode == {"eigvals", "schur", "schur_no_t"}

ASSUME OrderAssumption == MaxN \in Nat
ASSUME ModesAssumption == Modes \subseteq Mode
ASSUME LimitAssumption == ItMax \in Nat /\ StallLimit \in Nat \ {0}

VARIABLES
  mode,       \* the call, with n: which kernel and arguments
  pc,         \* where the loop body stands
  iter, k_defl,
  istart_m, istop_m,      \* range the applies maintain (fixed before the scan)
  istart2, i, shift,      \* first row of the chase, its position, the shift kind
  w,                      \* eigenvalue slots (w_re, w_im)
  lastDefl,   \* history: the iteration count when the last block deflated
  ret         \* the returned isize

call   == <<mode, n, have_z>>
chase  == <<istart_m, istop_m, istart2, i, shift>>
vars   == <<call, pc, iter, window, k_defl, chase, matrix, w, lastDefl, ret>>

WantT == mode = "schur"
WKinds == {"unset", "real", "upper", "lower"}   \* im = 0, im > 0, im < 0

(***************************************************************************)
(* Eigenvalues of a 2x2 block.  eig22 gives a real pair or a conjugate     *)
(* pair, the one with positive imaginary part first.                       *)
(***************************************************************************)
RealPair == <<"real", "real">>
ConjugatePair == <<"upper", "lower">>
eig22 == {RealPair, ConjugatePair}

(***************************************************************************)
(* schur22 standardizes a 2x2 block; what is kept of its result is whether *)
(* the entries c (below) and b (above the diagonal) are zero, and the pair *)
(* of eigenvalues.  The first three branches leave c = 0, c = 0 after the  *)
(* swap, or a block that already has b and c of opposite sign; the         *)
(* real-eigenvalue branch sets c = 0; the rotation that equalizes the      *)
(* diagonal can produce any b and c, of which only nonzero b and c of the  *)
(* same sign are reduced further.  The eigenvalues are read off c at the   *)
(* end: complex with im = sqrt|b| sqrt|c| unless c = 0, so an exactly zero *)
(* b under a nonzero c gives im = 0.                                       *)
(***************************************************************************)
schur22_EarlyRead ==
  { [c0 |-> TRUE, b0 |-> FALSE, eig |-> RealPair],
    [c0 |-> TRUE, b0 |-> FALSE, eig |-> ConjugatePair],
    [c0 |-> FALSE, b0 |-> FALSE, eig |-> ConjugatePair] }
schur22 ==
  { [c0 |-> TRUE,  b0 |-> FALSE, eig |-> RealPair],
    [c0 |-> TRUE,  b0 |-> TRUE,  eig |-> RealPair],
    [c0 |-> FALSE, b0 |-> FALSE, eig |-> ConjugatePair],
    [c0 |-> FALSE, b0 |-> TRUE,  eig |-> RealPair] }

Init ==
  /\ mode \in Modes
  /\ n \in 0..MaxN
  /\ have_z \in BOOLEAN /\ (mode = "eigvals" => ~have_z)
  /\ pc = "entry"
  /\ iter = 0 /\ istart = 0 /\ istop = n /\ k_defl = 0 /\ lastDefl = 0
  /\ istart_m = 0 /\ istop_m = n /\ istart2 = 0 /\ i = 0 /\ shift = "trailing"
  /\ UpperHessenberg
  /\ w = [k \in Idx |-> "unset"]
  /\ ret = 0

Return(value) ==
  /\ pc' = "done"
  /\ ret' = value
  /\ UNCHANGED <<call, iter, window, k_defl, chase, matrix, lastDefl>>

(* The early returns for n = 0 and n = 1. *)
Trivial ==
  /\ pc = "entry"
  /\ n <= 1
  /\ w' = [k \in Idx |-> "real"]
  /\ Return(0)

EnterLoop ==
  /\ pc = "entry"
  /\ n > 1
  /\ pc' = "top"
  /\ UNCHANGED <<call, iter, window, k_defl, chase, matrix, w, lastDefl, ret>>

GiveUp_FailingIndex ==
  /\ pc = "top"
  /\ iter = ItMax
  /\ Return(istop - 1)
  /\ UNCHANGED w

(* The iteration cap: the failing index plus one is returned. *)
GiveUp ==
  /\ pc = "top"
  /\ iter = ItMax
  /\ Return(istop)
  /\ UNCHANGED w

(* The loop ends once at most one row is left; a last row is recorded. *)
Finish ==
  /\ pc = "top"
  /\ iter # ItMax
  /\ istart + 1 >= istop
  /\ w' = IF istart + 1 = istop THEN [w EXCEPT ![istart] = "real"] ELSE w
  /\ Return(0)

(***************************************************************************)
(* The deflation scan zeroes the entry it stops at and splits there.  The  *)
(* maintained range istart_m, istop_m is read before it.                   *)
(***************************************************************************)
Scan ==
  /\ pc = "top"
  /\ iter # ItMax
  /\ istart + 1 < istop
  /\ istart_m' = IF WantT THEN 0 ELSE istart
  /\ istop_m' = IF WantT THEN n ELSE istop
  /\ \/ ScanFindsNothing /\ UNCHANGED <<istart, nz>>
     \/ \E s \in istart+1..istop-1 :
          /\ ScanStopsAt(s)
          /\ nz' = nz \ {Subdiagonal(s)}
          /\ istart' = s
  /\ pc' = "deflate"
  /\ UNCHANGED <<call, iter, istop, k_defl, istart2, i, shift, stale, stale_z, w, lastDefl, ret>>

Deflated_KeepsStallCount ==
  /\ k_defl' = k_defl
  /\ istop' = istart
  /\ istart' = 0
  /\ iter' = iter + 1
  /\ lastDefl' = iter + 1
  /\ pc' = "top"
  /\ UNCHANGED <<call, chase, ret>>
Deflated_KeepsFirstRow ==
  /\ k_defl' = 0
  /\ istop' = istart + 1
  /\ istart' = 0
  /\ iter' = iter + 1
  /\ lastDefl' = iter + 1
  /\ pc' = "top"
  /\ UNCHANGED <<call, chase, ret>>
Deflated_Uncounted ==
  /\ k_defl' = 0
  /\ istart' = 0
  /\ pc' = "top"
  /\ UNCHANGED <<call, iter, istop, lastDefl, chase, ret>>

(* What every deflation does: the window becomes everything above it. *)
Deflated ==
  /\ k_defl' = 0
  /\ istop' = istart
  /\ istart' = 0
  /\ iter' = iter + 1
  /\ lastDefl' = iter + 1
  /\ pc' = "top"
  /\ UNCHANGED <<call, chase, ret>>

DeflateOne ==
  /\ pc = "deflate"
  /\ istart + 1 = istop
  /\ w' = [w EXCEPT ![istart] = "real"]
  /\ Deflated
  /\ UNCHANGED matrix

(* Eigenvalues only: the block is recorded and not standardized. *)
DeflateTwoEigvals ==
  /\ mode = "eigvals"
  /\ pc = "deflate"
  /\ istart + 2 = istop
  /\ \E e \in eig22 : w' = [w EXCEPT ![istart] = e[1], ![istart + 1] = e[2]]
  /\ Deflated
  /\ UNCHANGED matrix

(***************************************************************************)
(* Full Schur: the block is standardized in place, with want_t the         *)
(* rotation is applied to its rows right of it and its columns above it,   *)
(* and with or without want_t to all rows of Z.                            *)
(***************************************************************************)
ZRows_Maintained == istart_m..istop_m-1
ZRows == Idx

DeflateTwoSchur ==
  /\ mode # "eigvals"
  /\ pc = "deflate"
  /\ istart + 2 = istop
  /\ \E b \in schur22 :
       LET K == {istart, istart + 1}
           zeroed == (IF b.c0 THEN {<<istart + 1, istart>>} ELSE {})
                       \union (IF b.b0 THEN {<<istart, istart + 1>>} ELSE {})
       IN  /\ w' = [w EXCEPT ![istart] = b.eig[1], ![istart + 1] = b.eig[2]]
           /\ Reflect((nz \union K \X K) \ zeroed, K,
                      IF WantT THEN istart+2..istop_m-1 ELSE {},
                      IF WantT THEN istart_m..istart-1 ELSE {}, K, K)
           /\ Accumulate(K, ZRows)
  /\ Deflated

(***************************************************************************)
(* A sweep starts: the shifts come from the trailing 2x2 block, or are     *)
(* exceptional every StallLimit sweeps without a deflation, and the chase  *)
(* may start below istart where two consecutive subdiagonals are small.    *)
(***************************************************************************)
EarlyStarts_NoMargin == istart+1..istop-1
EarlyStarts == istart+1..istop-3

BeginSweep ==
  /\ pc = "deflate"
  /\ istart + 2 < istop
  /\ k_defl' = k_defl + 1
  /\ shift' = IF k_defl' % StallLimit = 0 THEN "exceptional" ELSE "trailing"
  /\ istart2' \in {istart} \union EarlyStarts
  /\ i' = istart2'
  /\ pc' = "chase"
  /\ UNCHANGED <<call, iter, window, istart_m, istop_m, matrix, w, lastDefl, ret>>

(***************************************************************************)
(* One position of the bulge chase: nr rows and columns from i.  After the *)
(* first position the reflector annihilates the bulge in column i-1, which *)
(* is written explicitly; at an early start the entry left of the bulge is *)
(* scaled and the fill-in below it, found negligible, is dropped.  The     *)
(* rows are then mixed right of column i, the columns down to jend, and    *)
(* the columns of Z over all rows.                                         *)
(***************************************************************************)
nr == AtMost(3, istop - i)
jend_NoBulgeRow == AtMost(i + nr, istop)
jend == AtMost(i + nr + 1, istop)
RowStart == IF mode = "eigvals" THEN istart ELSE istart_m

Annihilated_OneEntry(K) ==
  IF i = istart2 THEN nz ELSE MixRows(nz, K, {i - 1}) \ {<<i + 1, i - 1>>}
Annihilated(K) ==
  IF i = istart2
    THEN nz
    ELSE MixRows(nz, K, {i - 1}) \ (K \ {i}) \X {i - 1}

ChaseStep ==
  /\ pc = "chase"
  /\ LET K == i..i+nr-1
     IN  /\ Reflect(Annihilated(K), K, i..istop_m-1, RowStart..jend-1,
                    IF i > istart THEN {i - 1} ELSE {}, {})
         /\ Accumulate(K, ZRows)
  /\ i' = i + 1
  /\ IF i' = istop - 1
       THEN pc' = "top" /\ iter' = iter + 1
       ELSE UNCHANGED <<pc, iter>>
  /\ UNCHANGED <<call, window, k_defl, istart_m, istop_m, istart2, shift, w, lastDefl, ret>>

Done == pc = "done" /\ UNCHANGED vars

Step ==
  \/ Trivial \/ EnterLoop
  \/ GiveUp \/ Finish \/ Scan
  \/ DeflateOne \/ DeflateTwoEigvals \/ DeflateTwoSchur
  \/ BeginSweep \/ ChaseStep

Next == Step \/ Done

Spec == Init /\ [][Next]_vars
FairSpec == Spec /\ WF_vars(Step)

-----------------------------------------------------------------------------
(* Types and ranges of the variables. *)
TypeOK ==
  /\ mode \in Modes
  /\ n \in 0..MaxN
  /\ pc \in {"entry", "top", "deflate", "chase", "done"}
  /\ iter \in 0..ItMax
  /\ istart \in 0..n /\ istop \in 0..n
  /\ istart_m \in 0..n /\ istop_m \in 0..n
  /\ istart2 \in 0..n /\ i \in 0..n
  /\ k_defl \in Nat /\ lastDefl \in 0..ItMax
  /\ shift \in {"trailing", "exceptional"}
  /\ nz \subseteq Cells /\ stale \subseteq Cells
  /\ have_z \in BOOLEAN /\ stale_z \subseteq Cells
  /\ w \in [Idx -> WKinds]
  /\ ret \in 0..n

(***************************************************************************)
(* The raw-pointer indexing stays inside the matrix: back at the top of    *)
(* the loop the window is the whole prefix or still has at least three     *)
(* rows, the scan leaves it nonempty, and every position of a chase has    *)
(* its two or three rows inside the window (istop - 2, i - 1 and i + 2     *)
(* never leave it, in usize arithmetic that would wrap).                   *)
(***************************************************************************)
WindowsInBounds ==
  /\ pc = "top" => istart = 0 \/ istart + 3 <= istop
  /\ pc = "deflate" => istart < istop
  /\ pc = "chase" =>
       /\ istart + 3 <= istop /\ istart <= istart2 /\ istart2 <= i
       /\ nr >= 2 /\ i + nr <= istop /\ jend <= istop
       /\ RowStart <= istart /\ istop <= istop_m

(***************************************************************************)
(* Between sweeps the matrix is upper Hessenberg again: the chase leaves   *)
(* no bulge behind, and during it only the three bulge entries, at most    *)
(* two rows below position i in columns i-1 and i, may be nonzero.         *)
(***************************************************************************)
HessenbergShape ==
  \A x \in nz : \/ x[1] <= x[2] + 1
                \/ pc = "chase" /\ i > istart2 /\ x[2] \in {i - 1, i} /\ x[1] <= i + 2 /\ x[1] < istop

(***************************************************************************)
(* The window is decoupled from the rows above and below it: the entries   *)
(* the scan zeroed stay exactly zero through every later sweep.            *)
(***************************************************************************)
WindowDecoupled ==
  /\ pc # "done" /\ istop < n => Subdiagonal(istop) \notin nz
  /\ pc # "done" /\ istart > 0 => Subdiagonal(istart) \notin nz

(***************************************************************************)
(* A = Z T Z': at every step, also when the cap strikes, T (with want_t)   *)
(* and Z have received every transformation in full, although each is      *)
(* updated in ranges of its own.  Z has with want_t off too, which         *)
(* run_schur_k_mode(2) relies on.                                          *)
(***************************************************************************)
SimilarityMaintained ==
  /\ WantT => stale = {}
  /\ have_z => stale_z = {}

(***************************************************************************)
(* Restricting the applies is sound: without want_t the rows and columns   *)
(* outside the window go stale, but every stale entry of the part still to *)
(* be deflated couples two blocks that a zero subdiagonal separates, so    *)
(* that no later window, and in particular no window being swept, contains *)
(* one.                                                                    *)
(***************************************************************************)
NoStaleWindow ==
  /\ pc # "done" => \A x \in stale : x[1] < istop /\ x[2] < istop => Straddles(x)
  /\ pc = "chase" => stale \intersect ((istart..istop-1) \X (istart..istop-1)) = {}

(***************************************************************************)
(* The recorded eigenvalues agree with the matrix: below the window a slot *)
(* is the upper of a conjugate pair exactly when the next is the lower of  *)
(* one, pairs are adjacent, and every pair is a 2x2 block of T; the full   *)
(* kernel leaves no 2x2 block under two real slots other than a block with *)
(* a zero above the diagonal.                                              *)
(***************************************************************************)
PairsAgree ==
  \A k \in Idx :
    /\ w[k] = "upper" <=> (k + 1 \in Idx /\ w[k+1] = "lower")
    /\ w[k] = "lower" => k - 1 \in Idx
    /\ w[k] = "upper" => Subdiagonal(k + 1) \in nz
    /\ mode # "eigvals" /\ k > istop /\ Subdiagonal(k) \in nz =>
         \/ w[k] = "lower" /\ <<k - 1, k>> \in nz
         \/ w[k] = "real" /\ w[k-1] = "real" /\ <<k - 1, k>> \notin nz

(***************************************************************************)
(* Return value: zero exactly when every eigenvalue was recorded, and on   *)
(* non-convergence the index from which on they were.                      *)
(***************************************************************************)
ReturnCode ==
  pc = "done" =>
    /\ \A k \in Idx : k >= ret => w[k] # "unset"
    /\ \A k \in Idx : k < ret => w[k] = "unset"

(***************************************************************************)
(* An exceptional shift is used in a sweep exactly when it completes a     *)
(* round of StallLimit sweeps since the last block deflated.               *)
(***************************************************************************)
ExceptionalWhenStalled ==
  pc = "chase" => (shift = "exceptional" <=> (iter - lastDefl + 1) % StallLimit = 0)

(***************************************************************************)
(* A recorded eigenvalue is final, and the diagonal blocks below the       *)
(* window are never written again.                                         *)
(***************************************************************************)
DeflatedBlocksFrozen ==
  [][ /\ \A k \in Idx : w[k] # "unset" => w'[k] = w[k]
      /\ istop' <= istop
      /\ \A x \in (istop..n-1) \X (istop..n-1) : x[1] >= x[2] => (x \in nz <=> x \in nz') ]_vars

(* The loop ends, by deflating everything or at the iteration cap. *)
Termination == <>(pc = "done")

(***************************************************************************)
(* schur22's documentation ("either c == 0, or a == d with                 *)
(* sign(b) != sign(c)") and kernels/tests/schur_full.rs (b * c < 0 for     *)
(* every block): a nonzero subdiagonal of T has a nonzero entry opposite.  *)
(***************************************************************************)
StandardizedBlocks ==
  \A k \in Idx : pc = "done" /\ k > ret /\ Subdiagonal(k) \in nz => <<k - 1, k>> \in nz

(* The driver implements the abstract deflation. *)
Abstract == INSTANCE Deflation WITH
  MaxOrder <- MaxN, order <- n, slots <- {k \in Idx : w[k] # "unset"},
  over <- (pc = "done"), info <- ret

ImplementsDeflation == Abstract!Spec
=============================================================================
