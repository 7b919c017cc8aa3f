------------------------------ MODULE JacobiSvd ------------------------------
(***************************************************************************)
(* The cyclic one-sided Jacobi SVD: jacobi_svd_in_place (kernels/src/      *)
(* svd.rs).  Sweeps over the column pairs of A measure each pair and       *)
(* rotate it, in A and in V, until a sweep finds nothing above the         *)
(* tolerance or the sweeps run out; then the columns are normalized.  Its  *)
(* loops cdot and rot_cols are loops of Level1.                            *)
(*                                                                         *)
(* Of the numbers is kept what a measurement says, what it says it of, and *)
(* which entries have not had a rotation or scaling that the others of     *)
(* their column have had.  A measurement is true of the pair, or one of    *)
(* its products has left the range of the floats: sqrt(alpha * beta) is    *)
(* zero for columns that are not, or infinite, so that the quotient is     *)
(* zero whatever gamma is.  The code cannot tell these from the true ones; *)
(* the history variables do.                                               *)
(***************************************************************************)
EXTENDS Level1

CONSTANTS MaxRows, MaxCols, MaxSweeps

ASSUME SizeAssumption ==
  MaxRows \in Nat /\ MaxCols \in Nat /\ MaxSweeps \in Nat /\ MaxRows <= MaxLen

VARIABLES
  m, n, max_sweeps,   \* the call
  phase,
  sweeps,
  p, q,        \* the pair: i and j of the code
  over,        \* max_off > tol
  orthogonal,  \* history: pairs within tol, in columns unchanged since
  unmeasured,  \* history: pairs left by an underflow or overflow, unchanged since
  unknown,     \* history: columns rotated after a measurement that is NaN
  missed       \* history: entries <<matrix, row, column>> of A and V left out

size == <<m, n, max_sweeps>>
known == <<orthogonal, unmeasured, unknown, missed>>
jacobi == <<size, phase, sweeps, p, q, over, known>>

Pairs == {x \in (0..n-1) \X (0..n-1) : x[1] < x[2]}

JacobiOff ==
  /\ m = 0 /\ n = 0 /\ max_sweeps = 0
  /\ phase = "off" /\ sweeps = 0 /\ p = 0 /\ q = 0 /\ over = FALSE
  /\ orthogonal = {} /\ unmeasured = {} /\ unknown = {} /\ missed = {}

(* V = I; m >= n is asserted. *)
JacobiInit ==
  /\ m \in 0..MaxRows /\ n \in 0..MaxCols /\ m >= n
  /\ max_sweeps \in 0..MaxSweeps
  /\ phase = "sweep" /\ sweeps = 0 /\ p = 0 /\ q = 0 /\ over = FALSE
  /\ orthogonal = {} /\ unmeasured = {} /\ unknown = {} /\ missed = {}
  /\ kernel = Update(0, 1)
  /\ len = 0 /\ pc = "done" /\ i = 0
  /\ count = [k \in Storage |-> 0] /\ held = [k \in Storage |-> Nowhere]

BeginSweep ==
  /\ phase = "sweep"
  /\ sweeps < max_sweeps
  /\ sweeps' = sweeps + 1
  /\ over' = FALSE
  /\ p' = 0 /\ q' = 1
  /\ phase' = "pair"
  /\ UNCHANGED <<vars, size, known>>

LimitReached ==
  /\ phase = "sweep"
  /\ sweeps = max_sweeps
  /\ phase' = "norm"
  /\ q' = 0
  /\ UNCHANGED <<vars, size, sweeps, p, over, known>>

(* alpha, beta and gamma: three dot products over the m rows. *)
Measure ==
  /\ phase = "pair"
  /\ p < n /\ q < n
  /\ CallLoop(Dot(0, 1), m)
  /\ phase' = "measured"
  /\ UNCHANGED <<size, sweeps, p, q, over, known>>

NextRow ==
  /\ phase = "pair"
  /\ p < n /\ q >= n
  /\ p' = p + 1
  /\ q' = p + 2
  /\ UNCHANGED <<vars, size, phase, sweeps, over, known>>

(* max_off is the largest of the sweep. *)
Collected_Latest(above) == above
Collected(above) == over \/ above

(* The pair is left as it is, and the measurement is true of it or is not. *)
Leave ==
  /\ phase = "measured" /\ pc = "done"
  /\ \/ /\ orthogonal' = orthogonal \union {<<p, q>>}
        /\ unmeasured' = unmeasured \ {<<p, q>>}
     \/ /\ orthogonal' = orthogonal \ {<<p, q>>}
        /\ unmeasured' = unmeasured \union {<<p, q>>}
  /\ q' = q + 1
  /\ phase' = "pair"
  /\ UNCHANGED <<vars, size, sweeps, p, unknown, missed>>

(* denom = 0: a column is zero, or alpha * beta underflows; not collected. *)
SkipPair ==
  /\ Leave
  /\ UNCHANGED over

(* rel <= tol, be it that denom is infinite; collected before it is compared. *)
WithinTol ==
  /\ Leave
  /\ over' = Collected(FALSE)

Touching(c) == {x \in Pairs : c \in {x[1], x[2]}}

(* A NaN is above no bound: it is not collected, and it is not skipped. *)
RotateA ==
  /\ phase = "measured" /\ pc = "done"
  /\ \/ over' = Collected(TRUE) /\ UNCHANGED unknown
     \/ over' = Collected(FALSE) /\ unknown' = unknown \union {p, q}
  /\ orthogonal' = orthogonal \ (Touching(p) \union Touching(q))
  /\ unmeasured' = unmeasured \ (Touching(p) \union Touching(q))
  /\ CallLoop(Update(0, 1), m)
  /\ phase' = "rotate_a"
  /\ UNCHANGED <<size, sweeps, p, q, missed>>

(* Rows of the two columns the loop did not treat, or treated beyond the matrix. *)
Untreated(matrix, rows, columns) ==
  {matrix} \X {k \in Storage : count[k] # IF k < rows THEN 1 ELSE 0} \X columns

RotateV ==
  /\ phase = "rotate_a" /\ pc = "done"
  /\ missed' = missed \union Untreated("A", m, {p, q})
  /\ CallLoop(Update(0, 1), n)
  /\ phase' = "rotate_v"
  /\ UNCHANGED <<size, sweeps, p, q, over, orthogonal, unmeasured, unknown>>

Rotated ==
  /\ phase = "rotate_v" /\ pc = "done"
  /\ missed' = missed \union Untreated("V", n, {p, q})
  /\ q' = q + 1
  /\ phase' = "pair"
  /\ UNCHANGED <<vars, size, sweeps, p, over, orthogonal, unmeasured, unknown>>

EndSweep ==
  /\ phase = "pair"
  /\ p = n
  /\ IF over THEN phase' = "sweep" /\ q' = q ELSE phase' = "norm" /\ q' = 0
  /\ UNCHANGED <<vars, size, sweeps, p, over, known>>

(* Column q of A becomes a column of U, unless it is zero. *)
Norm ==
  /\ phase = "norm"
  /\ q < n
  /\ CallLoop(Dot(0, 1), m)
  /\ phase' = "normed"
  /\ UNCHANGED <<size, sweeps, p, q, over, known>>

ZeroColumn ==
  /\ phase = "normed" /\ pc = "done"
  /\ q' = q + 1
  /\ phase' = "norm"
  /\ UNCHANGED <<vars, size, sweeps, p, over, known>>

Scale ==
  /\ phase = "normed" /\ pc = "done"
  /\ CallLoop(Update(0, 1), m)
  /\ phase' = "scale"
  /\ UNCHANGED <<size, sweeps, p, q, over, known>>

Scaled ==
  /\ phase = "scale" /\ pc = "done"
  /\ missed' = missed \union Untreated("A", m, {q})
  /\ q' = q + 1
  /\ phase' = "norm"
  /\ UNCHANGED <<vars, size, sweeps, p, over, orthogonal, unmeasured, unknown>>

JacobiReturns ==
  /\ phase = "norm"
  /\ q = n
  /\ phase' = "returned"
  /\ UNCHANGED <<vars, size, sweeps, p, q, over, known>>

JacobiNext ==
  \/ BeginSweep \/ LimitReached \/ Measure \/ NextRow
  \/ SkipPair \/ WithinTol \/ RotateA \/ RotateV \/ Rotated \/ EndSweep
  \/ Norm \/ ZeroColumn \/ Scale \/ Scaled \/ JacobiReturns

JacobiSpec ==
  JacobiInit /\ [][JacobiNext \/ (Step /\ UNCHANGED jacobi)]_<<vars, jacobi>>

-----------------------------------------------------------------------------
(* Every variable stays in its range. *)
JacobiTypeOK ==
  /\ m \in 0..MaxRows /\ n \in 0..MaxCols /\ max_sweeps \in 0..MaxSweeps
  /\ phase \in {"off", "sweep", "pair", "measured", "rotate_a", "rotate_v",
                "norm", "normed", "scale", "returned"}
  /\ sweeps \in 0..max_sweeps
  /\ p \in 0..n /\ q \in 0..n+1 /\ over \in BOOLEAN
  /\ orthogonal \subseteq Pairs /\ unmeasured \subseteq Pairs /\ unknown \subseteq 0..n-1

(***************************************************************************)
(* A caller who is told of fewer sweeps than it allowed, or whose last     *)
(* sweep found nothing above the tolerance, has columns that are pairwise  *)
(* orthogonal as they are returned, as far as the products stay in range:  *)
(* every pair was within the tolerance after the last rotation of either   *)
(* column.  The exceptions are those the code cannot see: a pair left,     *)
(* after the last rotation of either column, because alpha * beta is out   *)
(* of range, and a column rotated after a NaN, which the comparison with   *)
(* the largest of the sweep lets through.                                  *)
(* Every rotation has reached all rows of A and of V, and the scaling all  *)
(* rows of U, so that the three factors belong together.                   *)
(***************************************************************************)
Converged == sweeps < max_sweeps \/ (sweeps > 0 /\ ~over)

OrthogonalInRange(x) ==
  x \in orthogonal \/ x \in unmeasured \/ x[1] \in unknown \/ x[2] \in unknown

ConvergedMeansOrthogonal ==
  phase = "returned" =>
    /\ Converged => \A x \in Pairs : OrthogonalInRange(x)
    /\ missed = {}
=============================================================================
