-------------------------- MODULE ChqrDriver_proofs --------------------------
(***************************************************************************)
(* Theorems about ChqrDriver, for every matrix order, iteration cap and    *)
(* stall limit.                                                            *)
(***************************************************************************)
EXTENDS ChqrDriver, HessenbergMatrix_proofs

(***************************************************************************)
(* The inductive invariant: the bounds that the scan, the deflation and    *)
(* the early start hand to the next step, and the rows recorded so far.    *)
(***************************************************************************)
Bounds ==
  /\ istart <= istop
  /\ pc = "entry" => istart = 0 /\ istop = n /\ iter = 0
  /\ pc = "top" => istart = 0 \/ istart + 2 <= istop
  /\ pc = "deflate" => istart < istop
  /\ pc = "chase" => istart <= istart2 /\ istart2 <= i /\ i + 2 <= istop
  /\ pc \in {"deflate", "chase"} => iter + 1 < ItMax /\ istart_m <= istart /\ istop <= istop_m

RecordedFromTheBottom ==
  /\ pc # "done" => recorded = istop..n-1
  /\ pc = "done" => recorded = ret..n-1

IInv == TypeOK /\ Bounds /\ RecordedFromTheBottom

LEMMA InitIInv == Init => IInv
<1> SUFFICES ASSUME Init PROVE IInv
  OBVIOUS
<1> USE OrderAssumption, LimitAssumption DEF Init, UpperHessenberg
<1>1. TypeOK
  BY DEF TypeOK, Idx, Cells
<1>2. Bounds /\ RecordedFromTheBottom
  BY DEF Bounds, RecordedFromTheBottom
<1> QED
  BY <1>1, <1>2 DEF IInv

LEMMA StepIInv == IInv /\ [Next]_vars => IInv'
<1> SUFFICES ASSUME IInv, [Next]_vars PROVE IInv'
  OBVIOUS
<1> USE OrderAssumption, LimitAssumption
        DEF IInv, TypeOK, Bounds, RecordedFromTheBottom, Idx
<1>1. CASE Trivial
  BY <1>1 DEF Trivial, Return, call, window, chase, matrix, Cells
<1>2. CASE EnterLoop
  BY <1>2 DEF EnterLoop, call, window, chase, matrix, Cells
<1>3. CASE GiveUp
  BY <1>3 DEF GiveUp, Return, call, window, chase, matrix, Cells
<1>4. CASE Finish
  BY <1>4 DEF Finish, LastIteration, Return, call, window, chase, matrix, Cells
<1>5. CASE Scan
  BY <1>5 DEF Scan, Split, LastIteration, ScanFindsNothing, ScanStopsAt, call, Cells
<1>6. CASE Deflate
  BY <1>6 DEF Deflate, call, chase, matrix, Cells
<1>7. CASE BeginSweep
  <2>1. PICK s \in {istart} \union (istart+1..istop-2) : istart2' = s /\ i' = s
    BY <1>7 DEF BeginSweep, EarlyStarts
  <2>2. /\ n' = n /\ want_t' = want_t /\ have_z' = have_z /\ stale_z' = stale_z /\ iter' = iter /\ istart' = istart /\ istop' = istop
        /\ istart_m' = istart_m /\ istop_m' = istop_m /\ nz' = nz /\ stale' = stale
        /\ recorded' = recorded /\ ret' = ret
    BY <1>7 DEF BeginSweep, call, window, matrix
  <2>3. /\ pc = "deflate" /\ pc' = "chase" /\ istart + 1 < istop /\ k_defl' = k_defl + 1
        /\ shift' \in {"trailing", "exceptional"}
    BY <1>7 DEF BeginSweep
  <2>4. s \in Nat /\ istart <= s /\ s + 2 <= istop
    BY <2>1, <2>3
  <2>5. TypeOK'
    BY <2>1, <2>2, <2>3, <2>4 DEF Cells
  <2>6. (Bounds /\ RecordedFromTheBottom)'
    BY <2>1, <2>2, <2>3, <2>4
  <2> QED
    BY <2>5, <2>6
<1>8. CASE ChaseStep
  <2>1. {i, i + 1} \in SUBSET Idx
    BY <1>8 DEF ChaseStep
  <2>2. Annihilated \in SUBSET Cells
    BY <2>1 DEF Annihilated, MixRows, NonzeroCols, Cells
  <2>3. PICK cols, rows, ec : Reflect(Annihilated, {i, i + 1}, cols, rows, ec, {})
    BY <1>8 DEF ChaseStep
  <2>4. nz' \subseteq Cells /\ stale' \subseteq Cells /\ stale_z' \subseteq Cells
    <3>1. Accumulate({i, i + 1}, ZRows)
      BY <1>8 DEF ChaseStep
    <3> QED
      BY <2>1, <2>2, <2>3, <3>1, ReflectType, AccumulateType
  <2> QED
    BY <1>8, <2>4 DEF ChaseStep, call, window, Cells
<1>9. CASE UNCHANGED vars
  BY <1>9 DEF vars, call, window, chase, matrix, Cells
<1> QED
  BY <1>1, <1>2, <1>3, <1>4, <1>5, <1>6, <1>7, <1>8, <1>9 DEF Next, Done

THEOREM InvariantHolds == Spec => []IInv
  BY InitIInv, StepIInv, PTL DEF Spec

(* Every variable keeps its type and range. *)
THEOREM TypeCorrect == Spec => []TypeOK
  BY InvariantHolds, PTL DEF IInv

(***************************************************************************)
(* No index or length that chqr_schur_in_place computes from istart, istop *)
(* and i leaves the matrix or wraps.                                       *)
(***************************************************************************)
THEOREM WindowsStayInBounds == Spec => []WindowsInBounds
<1>1. IInv => WindowsInBounds
  BY DEF IInv, TypeOK, Bounds, WindowsInBounds
<1> QED
  BY <1>1, InvariantHolds, PTL

-----------------------------------------------------------------------------
(***************************************************************************)
(* The driver implements the abstract deflation.                           *)
(***************************************************************************)
LEMMA InitRefines == Init => Abstract!Init
  BY DEF Init, Abstract!Init

LEMMA StepRefines ==
  ASSUME IInv, IInv', [Next]_vars
  PROVE  [Abstract!Next]_Abstract!vars
<1> USE DEF Abstract!From
<1>1. CASE Trivial
  <2>1. pc = "entry" /\ pc' = "done" /\ n <= 1 /\ n' = n /\ ret' = 0
    BY <1>1 DEF Trivial, Return, call
  <2>2. recorded = n..n-1 /\ recorded' = 0..n-1 /\ n \in Nat
    BY <2>1 DEF IInv, TypeOK, Bounds, RecordedFromTheBottom
  <2>3. recorded = Abstract!From(0) \/ recorded = Abstract!From(1)
    BY <2>1, <2>2
  <2> QED
    BY <2>1, <2>2, <2>3 DEF Abstract!Next, Abstract!Conclude
<1>2. CASE EnterLoop \/ Scan \/ BeginSweep \/ ChaseStep
  BY <1>2 DEF EnterLoop, Scan, BeginSweep, ChaseStep, call, Abstract!vars
<1>3. CASE GiveUp
  <2>1. pc = "top" /\ pc' = "done" /\ n' = n /\ recorded' = recorded /\ ret' = istop
    BY <1>3 DEF GiveUp, Return, call
  <2>2. recorded = Abstract!From(istop) /\ istop \in 0..n
    BY <2>1 DEF IInv, TypeOK, RecordedFromTheBottom
  <2>3. CASE istop = 0
    BY <2>1, <2>2, <2>3 DEF Abstract!Next, Abstract!Conclude
  <2>4. CASE istop # 0
    <3>1. istop \in 1..n
      BY <2>2, <2>4 DEF IInv, TypeOK
    <3> QED
      BY <2>1, <2>2, <3>1 DEF Abstract!Next, Abstract!Fail
  <2> QED
    BY <2>3, <2>4
<1>4. CASE Finish
  <2>1. pc = "top" /\ pc' = "done" /\ n' = n /\ ret' = 0
    BY <1>4 DEF Finish, Return, call
  <2>2. istart = 0 /\ istop \in 0..1
    BY <1>4, <2>1 DEF Finish, IInv, TypeOK, Bounds
  <2>3. recorded = Abstract!From(istop) /\ recorded' = Abstract!From(0)
    BY <2>1 DEF IInv, RecordedFromTheBottom
  <2> QED
    BY <2>1, <2>2, <2>3 DEF Abstract!Next, Abstract!Conclude
<1>5. CASE Deflate
  <2>1. /\ pc = "deflate" /\ pc' = "top" /\ n' = n /\ ret' = ret
        /\ istop' = istart /\ istart + 1 >= istop
    BY <1>5 DEF Deflate, call
  <2>2. istop \in 1..n /\ istop' = istop - 1
    BY <2>1 DEF IInv, TypeOK, Bounds
  <2>3. recorded = Abstract!From(istop) /\ recorded' = Abstract!From(istop - 1)
    BY <2>1, <2>2 DEF IInv, RecordedFromTheBottom
  <2> QED
    BY <2>1, <2>2, <2>3 DEF Abstract!Next, Abstract!Peel
<1>6. CASE UNCHANGED vars
  BY <1>6 DEF vars, call, Abstract!vars
<1> QED
  BY <1>1, <1>2, <1>3, <1>4, <1>5, <1>6 DEF Next, Done

(***************************************************************************)
(* Every behaviour of the c64 kernel is a behaviour of the abstract        *)
(* deflation, with the value it returns.                                   *)
(***************************************************************************)
THEOREM DriverImplementsDeflation == Spec => ImplementsDeflation
  BY InitRefines, InvariantHolds, StepRefines, PTL
     DEF Spec, ImplementsDeflation, Abstract!Spec

-----------------------------------------------------------------------------
(***************************************************************************)
(* The shape of the matrix.  That the part below the window is triangular  *)
(* is what turns the Hessenberg form into the Schur form in the end.       *)
(***************************************************************************)
TriangularBelow ==
  \A x \in nz : x[1] > x[2] => x[1] < (IF pc = "done" THEN ret ELSE istop)

Shape == HessenbergShape /\ TriangularBelow

LEMMA InitShape == Init => Shape
  BY DEF Init, UpperHessenberg, Shape, HessenbergShape, TriangularBelow, Cells, Idx

LEMMA ChaseKeepsShape ==
  ASSUME IInv, IInv', Shape, ChaseStep
  PROVE  Shape'
<1> DEFINE K == {i, i + 1}
<1>1. /\ pc = "chase" /\ i \in Nat /\ istart \in Nat /\ istop \in Nat /\ istart2 \in Nat
      /\ istart <= istart2 /\ istart2 <= i /\ i + 2 <= istop
      /\ istop \in 0..n /\ n \in Nat
  BY DEF ChaseStep, IInv, TypeOK, Bounds
<1>2. /\ istart' = istart /\ istop' = istop /\ istart2' = istart2 /\ n' = n /\ i' = i + 1
      /\ pc' = (IF i + 1 = istop - 1 THEN "top" ELSE "chase")
  BY DEF ChaseStep, call, window
<1>3. PICK cols, ec : Reflect(Annihilated, K, i..cols, istart_m..jend-1, ec, {})
  BY DEF ChaseStep
<1>4. jend <= istop /\ jend <= i + 3 /\ jend \in Nat /\ (jend = i + 3 => i + 3 <= istop)
  BY <1>1 DEF jend, AtMost
<1>5. ASSUME NEW x \in nz'
      PROVE  /\ x[1] <= x[2] + 1 \/ (pc' = "chase" /\ x = <<i + 2, i>>)
             /\ x[1] > x[2] => x[1] < istop
             /\ x # Subdiagonal(istop) \/ istop >= n
             /\ istart > 0 => x # Subdiagonal(istart)
  <2>1. PICK r \in Idx, c \in Idx : x = <<r, c>>
    BY <1>2 DEF IInv, TypeOK, Cells, Idx
  <2>2. CASE x \in K \X (i..cols)
    BY <1>1, <1>2, <2>1, <2>2 DEF Subdiagonal, Idx
  <2>3. CASE x \in (istart_m..jend-1) \X K
    <3>1. r < jend /\ c \in K /\ r \in Nat /\ c \in Nat
      <4>1. istart_m \in Nat
        BY DEF IInv, TypeOK
      <4> QED
        BY <2>1, <2>3, <1>4, <4>1 DEF Idx
    <3> QED
      BY <1>1, <1>2, <1>4, <2>1, <3>1 DEF Subdiagonal
  <2>4. CASE x \in Annihilated
    <3>1. CASE i = istart2
      BY <1>1, <1>2, <2>1, <2>4, <3>1
         DEF Annihilated, Shape, HessenbergShape, TriangularBelow, Subdiagonal, Idx
    <3>2. CASE i # istart2 /\ x \in nz
      BY <1>1, <1>2, <2>1, <2>4, <3>2
         DEF Annihilated, Shape, HessenbergShape, TriangularBelow, Subdiagonal, Idx
    <3>3. CASE i # istart2 /\ x \notin nz
      <4>1. x = <<i, i - 1>>
        BY <2>4, <3>3 DEF Annihilated, MixRows
      <4> QED
        BY <4>1, <3>3, <1>1 DEF Subdiagonal
    <3> QED
      BY <3>1, <3>2, <3>3
  <2> QED
    BY <1>3, <2>2, <2>3, <2>4, ReflectSupport
<1> QED
  BY <1>1, <1>2, <1>5 DEF Shape, HessenbergShape, TriangularBelow, Subdiagonal

LEMMA StepShape ==
  ASSUME IInv, IInv', Shape, [Next]_vars
  PROVE  Shape'
<1> USE DEF Shape, HessenbergShape, TriangularBelow
<1>1. CASE ChaseStep
  BY <1>1, ChaseKeepsShape
<1>2. CASE Deflate
  <2>1. /\ pc = "deflate" /\ pc' = "top" /\ n' = n /\ nz' = nz /\ istop' = istart /\ istart' = 0
        /\ istart + 1 = istop /\ istart \in Nat /\ istop \in 0..n /\ n \in Nat
    BY <1>2 DEF Deflate, IInv, TypeOK, Bounds, call, matrix
  <2>2. ASSUME NEW x \in nz
        PROVE  x[1] <= x[2] + 1 /\ (x[1] > x[2] => x[1] < istart) /\ x # Subdiagonal(istart)
    <3>1. PICK r \in 0..n-1, c \in 0..n-1 : x = <<r, c>>
      BY DEF IInv, TypeOK, Cells, Idx
    <3> QED
      BY <2>1, <3>1 DEF Subdiagonal
  <2> QED
    BY <2>1, <2>2
<1>3. CASE Scan
  <2>1. /\ pc = "top" /\ pc' = "deflate" /\ n' = n /\ istop' = istop /\ istop \in Nat
        /\ istart < istop /\ istart \in Nat
    BY <1>3 DEF Scan, call, IInv, TypeOK
  <2>2. CASE istart' = istart /\ nz' = nz
    BY <2>1, <2>2
  <2>3. CASE \E s \in istart+1..istop-1 : nz' = nz \ {Subdiagonal(s)} /\ istart' = s
    BY <2>1, <2>3
  <2> QED
    BY <1>3, <2>2, <2>3 DEF Scan, Split
<1>4. CASE BeginSweep
  BY <1>4 DEF BeginSweep, call, window, matrix
<1>5. CASE GiveUp
  BY <1>5 DEF GiveUp, Return, call, window, matrix
<1>6. CASE Trivial \/ Finish
  <2>1. /\ pc # "done" /\ pc # "chase" /\ pc' = "done" /\ ret' = 0 /\ nz' = nz
        /\ istop <= 1 /\ istop \in Nat /\ n' = n
    BY <1>6 DEF Trivial, Finish, Return, matrix, call, IInv, TypeOK, Bounds
  <2>2. ASSUME NEW x \in nz PROVE x[1] <= x[2] + 1 /\ ~(x[1] > x[2])
    <3>1. PICK r \in 0..n-1, c \in 0..n-1 : x = <<r, c>>
      BY DEF IInv, TypeOK, Cells, Idx
    <3> QED
      BY <2>1, <3>1
  <2> QED
    BY <2>1, <2>2
<1>7. CASE EnterLoop
  BY <1>7 DEF EnterLoop, call, window, matrix
<1>8. CASE UNCHANGED vars
  BY <1>8 DEF vars, call, window, chase, matrix
<1> QED
  BY <1>1, <1>2, <1>3, <1>4, <1>5, <1>6, <1>7, <1>8 DEF Next, Done

THEOREM ShapeHolds == Spec => []Shape
<1>1. IInv /\ IInv' /\ Shape /\ [Next]_vars => Shape'
  BY StepShape
<1> QED
  BY <1>1, InitShape, InvariantHolds, PTL DEF Spec

(***************************************************************************)
(* The chase of rotations leaves no bulge, and the zeros that bound the    *)
(* window survive.                                                         *)
(***************************************************************************)
THEOREM HessenbergPreserved == Spec => []HessenbergShape
  BY ShapeHolds, PTL DEF Shape

(***************************************************************************)
(* On success T is upper triangular; on failure its rows from the returned *)
(* index on are.                                                           *)
(***************************************************************************)
THEOREM ReturnsSchurForm == Spec => []SchurFormReturned
<1>1. IInv /\ Shape => SchurFormReturned
  <2> SUFFICES ASSUME IInv, Shape, pc = "done", NEW x \in nz, x[1] > x[2]
               PROVE  x[1] = x[2] + 1 /\ x[1] < ret
    BY DEF SchurFormReturned
  <2>1. PICK r \in 0..n-1, c \in 0..n-1 : x = <<r, c>>
    BY DEF IInv, TypeOK, Cells, Idx
  <2> QED
    BY <2>1 DEF Shape, HessenbergShape, TriangularBelow
<1> QED
  BY <1>1, ShapeHolds, InvariantHolds, PTL
-----------------------------------------------------------------------------
(***************************************************************************)
(* Staleness.  The ranges fixed before the scan are those of the window    *)
(* that is swept, and a window that the scan leaves has no zero on its     *)
(* subdiagonal.                                                            *)
(***************************************************************************)
SweepRanges ==
  pc \in {"deflate", "chase"} =>
    /\ want_t => istart_m = 0 /\ istop_m = n
    /\ ~want_t => istop_m = istop

WindowUnreduced ==
  pc = "deflate" => \A k \in istart+1..istop-1 : Subdiagonal(k) \in nz

Clean == SweepRanges /\ WindowUnreduced /\ SimilarityMaintained /\ NoStaleWindow

(* A rotation reaches all nonzero entries of its rows and columns. *)
LEMMA ChaseReach ==
  ASSUME IInv, Shape, pc = "chase"
  PROVE  /\ \A r \in {i, i + 1}, c \in Idx : <<r, c>> \in Annihilated =>
              c \in i..n-1 \/ (i > istart /\ c = i - 1)
         /\ \A r \in Idx, c \in {i, i + 1} : <<r, c>> \in Annihilated \/ r \in {i, i + 1} =>
              r < jend
<1>1. /\ i \in Nat /\ istart \in Nat /\ istop \in 0..n /\ n \in Nat /\ istart2 \in Nat
      /\ istart <= istart2 /\ istart2 <= i /\ i + 2 <= istop
  BY DEF IInv, TypeOK, Bounds
<1>2. ASSUME NEW r \in Idx, NEW c \in Idx, <<r, c>> \in nz
      PROVE  /\ r <= c + 1 \/ (i > istart2 /\ r = i + 1 /\ c = i - 1)
             /\ istop < n => ~(r = istop /\ c = istop - 1)
             /\ istart > 0 => ~(r = istart /\ c = istart - 1)
  BY <1>2, <1>1 DEF Shape, HessenbergShape, Subdiagonal
<1>3. ASSUME NEW r \in Idx, NEW c \in Idx, <<r, c>> \in Annihilated
      PROVE  <<r, c>> \in nz \/ (i # istart2 /\ c = i - 1)
  BY <1>3 DEF Annihilated, MixRows
<1>4. ASSUME NEW r \in {i, i + 1}, NEW c \in Idx, <<r, c>> \in Annihilated
      PROVE  c \in i..n-1 \/ (i > istart /\ c = i - 1)
  <2>1. r \in Idx
    BY <1>1 DEF Idx
  <2> QED
    BY <1>1, <1>2, <1>3, <1>4, <2>1 DEF Idx
<1>5. ASSUME NEW r \in Idx, NEW c \in {i, i + 1}, <<r, c>> \in Annihilated \/ r \in {i, i + 1}
      PROVE  r < jend
  <2>1. c \in Idx
    BY <1>1 DEF Idx
  <2>2. jend = IF i + 3 <= istop THEN i + 3 ELSE istop
    BY DEF jend, AtMost
  <2>3. CASE r \in {i, i + 1}
    BY <1>1, <2>2, <2>3
  <2>4. CASE <<r, c>> \in nz
    BY <1>1, <1>2, <2>1, <2>2, <2>4 DEF Idx
  <2> QED
    BY <1>1, <1>3, <1>5, <2>1, <2>3, <2>4
<1> QED
  BY <1>4, <1>5

LEMMA ChaseKeepsClean ==
  ASSUME IInv, Shape, Shape', Clean, ChaseStep
  PROVE  Clean'
<1> DEFINE K == {i, i + 1}
           ec == IF i > istart THEN {i - 1} ELSE {}
<1>1. /\ i \in Nat /\ istart \in Nat /\ istop \in 0..n /\ n \in Nat /\ istart2 \in Nat
      /\ istart <= istart2 /\ istart2 <= i /\ i + 2 <= istop
      /\ istart_m \in Nat /\ istart_m <= istart /\ pc = "chase"
      /\ stale \subseteq Cells /\ jend \in Nat /\ jend <= istop
  BY DEF ChaseStep, IInv, TypeOK, Bounds, jend, AtMost
<1>2. /\ n' = n /\ want_t' = want_t /\ have_z' = have_z /\ istart' = istart /\ istop' = istop
      /\ istart_m' = istart_m /\ istop_m' = istop_m /\ pc' \in {"top", "chase"}
  BY <1>1 DEF ChaseStep, call, window
<1>3. PICK S, cols, rows :
        /\ S = Annihilated /\ cols = i..istop_m-1 /\ rows = istart_m..jend-1
        /\ Reflect(S, K, cols, rows, ec, {})
        /\ Accumulate(K, Idx)
  BY DEF ChaseStep, ZRows
<1>4. /\ \A r \in K, c \in Idx : <<r, c>> \in S => c \in i..n-1 \/ c \in ec
      /\ \A r \in Idx, c \in K : <<r, c>> \in S \/ r \in K => r < jend
  BY <1>1, <1>3, ChaseReach
<1>5. K \subseteq InWindow /\ InWindow \subseteq Idx /\ ec \subseteq InWindow
  BY <1>1 DEF InWindow, Idx
<1> HIDE DEF K, ec
<1>6. Reflect(S, K, cols, rows, ec, {})
  BY <1>3
<1>7. have_z => stale_z' = {}
  BY <1>3, AccumulateComplete DEF Clean, SimilarityMaintained
<1>8. CASE want_t
  <2>1. istart_m = 0 /\ istop_m = n /\ stale = {}
    BY <1>1, <1>8 DEF Clean, SweepRanges, SimilarityMaintained
  <2>2. \A r \in K, c \in Idx : <<r, c>> \in S => c \in cols \union ec
    BY <1>3, <1>4, <2>1
  <2>3. ASSUME NEW r \in Idx, NEW c \in K, <<r, c>> \in S \/ r \in K
        PROVE  r \in rows
    BY <1>1, <1>3, <1>4, <2>1, <2>3 DEF Idx
  <2>4. stale' = {}
    <3>1. \A r \in Idx, c \in K : <<r, c>> \in S \/ (r \in K /\ c \in cols) => r \in rows \union {}
      BY <2>3
    <3> QED
      BY <1>6, <2>1, <2>2, <3>1, ReflectComplete
  <2> QED
    BY <1>1, <1>2, <1>8, <1>7, <2>1, <2>4
       DEF Clean, SweepRanges, WindowUnreduced, SimilarityMaintained, NoStaleWindow
<1>9. CASE ~want_t
  <2>1. istop_m = istop
    BY <1>1, <1>9 DEF Clean, SweepRanges
  <2>2. cols \union ec \subseteq InWindow
    BY <1>1, <1>3, <1>5, <2>1 DEF InWindow
  <2>3. ASSUME NEW r \in K, NEW c \in Idx, <<r, c>> \in S, c < istop
        PROVE  c \in cols \union ec
    BY <1>1, <1>3, <1>4, <2>1, <2>3 DEF Idx
  <2>4. ASSUME NEW r \in InWindow, NEW c \in K, <<r, c>> \in S \/ r \in K
        PROVE  r \in rows
    <3>1. r < jend
      BY <1>4, <1>5, <2>4
    <3> QED
      BY <1>1, <1>3, <3>1 DEF InWindow
  <2>5. stale \intersect (InWindow \X InWindow) = {}
    BY <1>1 DEF Clean, NoStaleWindow, InWindow
  <2>6. /\ stale' \intersect (InWindow \X InWindow) = {}
        /\ \A x \in stale' : x[1] < istop /\ x[2] < istop =>
             x \in stale \/ (x[1] \in 0..istart-1 /\ x[2] \in InWindow)
    BY <1>1, <1>5, <1>6, <2>2, <2>3, <2>4, <2>5, SweepStaysClean
  <2>7. ASSUME NEW x \in stale', x[1] < istop, x[2] < istop
        PROVE  Straddles(x)'
    <3>1. CASE x[1] \in 0..istart-1 /\ x[2] \in InWindow
      <4>1. Subdiagonal(istart) \notin nz' /\ istart \in x[1]+1..x[2]
        BY <1>1, <1>2, <3>1 DEF Shape, HessenbergShape, InWindow, Subdiagonal
      <4> QED
        BY <4>1 DEF Straddles, Subdiagonal
    <3>2. CASE x \in stale /\ ~(x[1] \in 0..istart-1 /\ x[2] \in InWindow)
      <4>1. PICK r \in Idx, c \in Idx : x = <<r, c>>
        BY <1>1, <3>2 DEF Cells
      <4>2. PICK s \in r+1..c : Subdiagonal(s) \notin nz
        BY <1>1, <2>7, <3>2, <4>1 DEF Clean, NoStaleWindow, Straddles
      <4>3. s < istart /\ s >= 1
        <5>1. ~(r \in InWindow /\ c \in InWindow)
          BY <2>5, <3>2, <4>1
        <5>2. c < istart
          BY <1>1, <2>7, <3>2, <4>1, <4>2, <5>1 DEF InWindow, Idx
        <5> QED
          BY <1>1, <4>1, <4>2, <5>2 DEF Idx
      <4>4. Subdiagonal(s) \notin nz'
        <5>1. <<s, s - 1>> \notin S
          BY <1>1, <1>3, <4>2, <4>3 DEF Annihilated, MixRows, Subdiagonal
        <5>2. s \notin K /\ s - 1 \notin K
          BY <1>1, <1>5, <4>3 DEF InWindow
        <5> QED
          BY <1>3, <5>1, <5>2, ReflectSupport DEF Subdiagonal
      <4> QED
        BY <4>1, <4>4 DEF Straddles, Subdiagonal
    <3> QED
      BY <2>6, <2>7, <3>1, <3>2
  <2> QED
    BY <1>1, <1>2, <1>9, <1>7, <2>1, <2>6, <2>7
       DEF Clean, SweepRanges, WindowUnreduced, SimilarityMaintained, NoStaleWindow, InWindow
<1> QED
  BY <1>8, <1>9

LEMMA InitClean == Init => Clean
  BY DEF Init, UpperHessenberg, Clean, SweepRanges, WindowUnreduced, SimilarityMaintained,
         NoStaleWindow

LEMMA StepClean ==
  ASSUME IInv, Shape, Shape', Clean, [Next]_vars
  PROVE  Clean'
<1> USE DEF Clean, SweepRanges, WindowUnreduced, SimilarityMaintained, NoStaleWindow, Straddles
<1>1. CASE ChaseStep
  BY <1>1, ChaseKeepsClean
<1>2. CASE Scan
  <2>1. /\ pc = "top" /\ pc' = "deflate" /\ n' = n /\ istop' = istop /\ want_t' = want_t
        /\ have_z' = have_z /\ stale' = stale /\ stale_z' = stale_z /\ nz' \subseteq nz
        /\ istart_m' = (IF want_t THEN 0 ELSE istart) /\ istop_m' = (IF want_t THEN n ELSE istop)
    BY <1>2 DEF Scan, Split, call
  <2>2. \A k \in istart'+1..istop-1 : Subdiagonal(k) \in nz'
    <3>1. CASE ScanFindsNothing /\ UNCHANGED <<istart, nz>>
      BY <3>1 DEF ScanFindsNothing
    <3>2. CASE \E s \in istart+1..istop-1 : ScanStopsAt(s) /\ nz' = Split(s) /\ istart' = s
      <4>1. PICK s \in istart+1..istop-1 :
              (\A k \in s+1..istop-1 : Subdiagonal(k) \in nz) /\ nz' = nz \ {Subdiagonal(s)} /\ istart' = s
        BY <3>2 DEF ScanStopsAt, Split
      <4>2. s \in Nat /\ istop \in Nat
        BY DEF IInv, TypeOK
      <4>3. ASSUME NEW k \in s+1..istop-1 PROVE Subdiagonal(k) \in nz'
        <5>1. Subdiagonal(k) # Subdiagonal(s)
          BY <4>2 DEF Subdiagonal
        <5> QED
          BY <4>1, <5>1
      <4> QED
        BY <4>1, <4>3
    <3> QED
      BY <1>2, <3>1, <3>2 DEF Scan
  <2>3. \A s : Subdiagonal(s)' = Subdiagonal(s)
    BY DEF Subdiagonal
  <2> QED
    BY <2>1, <2>2, <2>3
<1>3. CASE Deflate
  <2>1. /\ pc = "deflate" /\ pc' = "top" /\ n' = n /\ istop' = istart /\ istart < istop
        /\ want_t' = want_t /\ have_z' = have_z /\ nz' = nz /\ stale' = stale /\ stale_z' = stale_z
        /\ istart \in Nat /\ istop \in Nat /\ stale \subseteq Cells /\ n \in Nat
    BY <1>3 DEF Deflate, IInv, TypeOK, Bounds, call, matrix
  <2>2. ASSUME NEW x \in stale, x[1] < istart, x[2] < istart
        PROVE  x[1] < istop /\ x[2] < istop
    BY <2>1, <2>2 DEF Cells, Idx
  <2> QED
    BY <2>1, <2>2 DEF Subdiagonal
<1>4. CASE BeginSweep
  <2>1. /\ pc = "deflate" /\ pc' = "chase" /\ n' = n /\ istop' = istop /\ istart' = istart
        /\ want_t' = want_t /\ have_z' = have_z /\ nz' = nz /\ stale' = stale /\ stale_z' = stale_z
        /\ istart_m' = istart_m /\ istop_m' = istop_m
        /\ istart \in Nat /\ istop \in Nat
    BY <1>4 DEF BeginSweep, IInv, TypeOK, call, matrix, window
  <2>2. ASSUME NEW x \in stale, x \in (istart..istop-1) \X (istart..istop-1)
        PROVE  FALSE
    <3>1. PICK s \in x[1]+1..x[2] : Subdiagonal(s) \notin nz
      BY <2>1, <2>2
    <3>2. s \in istart+1..istop-1
      BY <2>1, <2>2, <3>1
    <3> QED
      BY <2>1, <3>1, <3>2
  <2> QED
    BY <2>1, <2>2 DEF Subdiagonal
<1>5. CASE Trivial \/ EnterLoop \/ GiveUp \/ Finish
  BY <1>5 DEF Trivial, EnterLoop, GiveUp, Finish, Return, call, window, chase, matrix, Subdiagonal
<1>6. CASE UNCHANGED vars
  BY <1>6 DEF vars, call, window, chase, matrix, Subdiagonal
<1> QED
  BY <1>1, <1>2, <1>3, <1>4, <1>5, <1>6 DEF Next, Done

THEOREM CleanHolds == Spec => []Clean
<1>1. IInv /\ Shape /\ Shape' /\ Clean /\ [Next]_vars => Clean'
  BY StepClean
<1> QED
  BY <1>1, InitClean, InvariantHolds, ShapeHolds, PTL DEF Spec

(***************************************************************************)
(* A = Z T Z' for chqr_schur_in_place: every rotation reaches the whole of *)
(* T, when it is wanted, and the whole of Z.                               *)
(***************************************************************************)
THEOREM KeepsSimilarity == Spec => []SimilarityMaintained
  BY CleanHolds, PTL DEF Clean

(***************************************************************************)
(* Without want_t the sweeps of chqr_schur_in_place may be restricted to   *)
(* the window: they never read an entry that an earlier one left stale.    *)
(***************************************************************************)
THEOREM WindowsAreCurrent == Spec => []NoStaleWindow
  BY CleanHolds, PTL DEF Clean
=============================================================================
