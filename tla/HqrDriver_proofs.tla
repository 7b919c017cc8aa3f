--------------------------- MODULE HqrDriver_proofs ---------------------------
(***************************************************************************)
(* Theorems about HqrDriver, for every matrix order, iteration cap and     *)
(* stall limit.                                                            *)
(***************************************************************************)
EXTENDS HqrDriver, HessenbergMatrix_proofs

(***************************************************************************)
(* The inductive invariant.  Bounds strengthens WindowsInBounds with what  *)
(* the early return, the cap and the scan establish for the next step;     *)
(* SlotsFromTheBottom says which eigenvalues are recorded while the loop   *)
(* runs, from which ReturnCode and the refinement follow.                  *)
(***************************************************************************)
Bounds ==
  /\ istart <= istop
  /\ pc = "entry" => istart = 0 /\ istop = n /\ iter = 0
  /\ pc = "top" => istart = 0 \/ istart + 3 <= istop
  /\ pc = "deflate" => istart < istop
  /\ pc = "chase" => istart + 3 <= istop /\ istart <= istart2 /\ istart2 <= i /\ i + 2 <= istop
  /\ pc \in {"deflate", "chase"} => iter < ItMax /\ istart_m <= istart /\ istop <= istop_m

SlotsFromTheBottom ==
  pc # "done" => \A k \in Idx : w[k] # "unset" <=> k >= istop

IInv == TypeOK /\ Bounds /\ SlotsFromTheBottom /\ ReturnCode

LEMMA InitIInv == Init => IInv
<1> SUFFICES ASSUME Init PROVE IInv
  OBVIOUS
<1> USE OrderAssumption, ModesAssumption, LimitAssumption DEF Init, UpperHessenberg
<1>1. TypeOK
  BY DEF TypeOK, Idx, Cells, WKinds
<1>2. Bounds /\ SlotsFromTheBottom /\ ReturnCode
  BY DEF Bounds, SlotsFromTheBottom, ReturnCode, Idx
<1> QED
  BY <1>1, <1>2 DEF IInv

LEMMA StepIInv == IInv /\ [Next]_vars => IInv'
<1> SUFFICES ASSUME IInv, [Next]_vars PROVE IInv'
  OBVIOUS
<1> USE OrderAssumption, ModesAssumption, LimitAssumption
        DEF IInv, TypeOK, Bounds, SlotsFromTheBottom, ReturnCode, Idx, WKinds
<1>1. CASE Trivial
  BY <1>1 DEF Trivial, Return, call, window, chase, matrix, Cells
<1>2. CASE EnterLoop
  BY <1>2 DEF EnterLoop, call, window, chase, matrix, Cells
<1>3. CASE GiveUp
  BY <1>3 DEF GiveUp, Return, call, window, chase, matrix, Cells
<1>4. CASE Finish
  BY <1>4 DEF Finish, Return, call, window, chase, matrix, Cells
<1>5. CASE Scan
  BY <1>5 DEF Scan, ScanFindsNothing, ScanStopsAt, call, Cells
<1>6. CASE DeflateOne
  BY <1>6 DEF DeflateOne, Deflated, call, chase, matrix, Cells
<1>7. CASE DeflateTwoEigvals
  BY <1>7 DEF DeflateTwoEigvals, Deflated, eig22, RealPair, ConjugatePair, call, chase, matrix, Cells
<1>8. CASE DeflateTwoSchur
  <2>1. PICK b \in schur22 :
          /\ w' = [w EXCEPT ![istart] = b.eig[1], ![istart + 1] = b.eig[2]]
          /\ \E S \in SUBSET Cells : \E cols, rows :
               Reflect(S, {istart, istart + 1}, cols, rows, {istart, istart + 1}, {istart, istart + 1})
          /\ Accumulate({istart, istart + 1}, ZRows)
    <3>1. ASSUME NEW b \in schur22
          PROVE  \A zeroed : (nz \union {istart, istart + 1} \X {istart, istart + 1}) \ zeroed
                               \in SUBSET Cells
      BY <1>8 DEF DeflateTwoSchur, Cells
    <3> QED
      BY <1>8, <3>1 DEF DeflateTwoSchur
  <2>2. {istart, istart + 1} \in SUBSET Idx
    BY <1>8 DEF DeflateTwoSchur
  <2>3. nz' \subseteq Cells /\ stale' \subseteq Cells /\ stale_z' \subseteq Cells
    <3> DEFINE K == {istart, istart + 1}
    <3>1. PICK S, cols, rows : S \in SUBSET Cells /\ Reflect(S, K, cols, rows, K, K)
      BY <2>1
    <3>2. n \in Nat /\ stale \subseteq Cells /\ K \in SUBSET Idx
      BY <2>2
    <3>3. Accumulate(K, ZRows) /\ stale_z \subseteq Cells
      BY <2>1
    <3> QED
      <4> HIDE DEF K
      <4> QED
        BY <3>1, <3>2, <3>3, ReflectType, AccumulateType
  <2>4. b.eig = RealPair \/ b.eig = ConjugatePair
    BY DEF schur22
  <2>5. b.eig[1] \in WKinds \ {"unset"} /\ b.eig[2] \in WKinds \ {"unset"}
    BY <2>4 DEF RealPair, ConjugatePair
  <2>6. w' \in [Idx -> WKinds] /\ \A k \in Idx : w'[k] # "unset" <=> k >= istart
    <3>1. PICK e, f \in WKinds \ {"unset"} : w' = [w EXCEPT ![istart] = e, ![istart + 1] = f]
      BY <2>1, <2>5
    <3>2. pc = "deflate" /\ istart + 2 = istop
      BY <1>8 DEF DeflateTwoSchur
    <3> QED
      BY <3>1, <3>2
  <2>7. /\ k_defl' = 0 /\ istop' = istart /\ istart' = 0 /\ iter' = iter + 1
        /\ lastDefl' = iter + 1 /\ pc = "deflate" /\ pc' = "top"
        /\ UNCHANGED <<mode, n, have_z, istart_m, istop_m, istart2, i, shift, ret>>
    BY <1>8 DEF DeflateTwoSchur, Deflated, call, chase
  <2>8. TypeOK'
    BY <2>3, <2>6, <2>7 DEF Cells
  <2>9. (Bounds /\ SlotsFromTheBottom /\ ReturnCode)'
    BY <2>6, <2>7
  <2> QED
    BY <2>8, <2>9
<1>9. CASE BeginSweep
  <2>1. shift' \in {"trailing", "exceptional"}
    BY <1>9 DEF BeginSweep
  <2>2. PICK s \in {istart} \union (istart+1..istop-3) : istart2' = s /\ i' = s
    BY <1>9 DEF BeginSweep, EarlyStarts
  <2>3. /\ mode' = mode /\ n' = n /\ have_z' = have_z /\ stale_z' = stale_z /\ iter' = iter /\ istart' = istart /\ istop' = istop
        /\ istart_m' = istart_m /\ istop_m' = istop_m /\ nz' = nz /\ stale' = stale
        /\ w' = w /\ lastDefl' = lastDefl /\ ret' = ret
    BY <1>9 DEF BeginSweep, call, window, matrix
  <2>4. pc = "deflate" /\ pc' = "chase" /\ istart + 2 < istop /\ k_defl' = k_defl + 1
    BY <1>9 DEF BeginSweep
  <2>5. s \in Nat /\ istart <= s /\ s + 3 <= istop
    BY <2>2, <2>4
  <2>6. TypeOK'
    BY <2>1, <2>2, <2>3, <2>4, <2>5 DEF Cells
  <2>7. Bounds'
    BY <2>2, <2>3, <2>4, <2>5
  <2>8. (SlotsFromTheBottom /\ ReturnCode)'
    BY <2>3, <2>4
  <2> QED
    BY <2>6, <2>7, <2>8
<1>10. CASE ChaseStep
  <2> DEFINE K == i..i+nr-1
  <2>1. K \in SUBSET Idx
    BY <1>10 DEF ChaseStep, nr, AtMost
  <2>2. Annihilated(K) \in SUBSET Cells
    BY <2>1 DEF Annihilated, MixRows, NonzeroCols, Cells
  <2>3. PICK cols, rows, ec : Reflect(Annihilated(K), K, cols, rows, ec, {})
    BY <1>10 DEF ChaseStep
  <2>4. n \in Nat /\ stale \subseteq Cells /\ stale_z \subseteq Cells /\ Accumulate(K, ZRows)
    BY <1>10 DEF ChaseStep
  <2>5. nz' \subseteq Cells /\ stale' \subseteq Cells /\ stale_z' \subseteq Cells
    <3> HIDE DEF K
    <3> QED
      BY <2>1, <2>2, <2>3, <2>4, ReflectType, AccumulateType
  <2> QED
    BY <1>10, <2>5 DEF ChaseStep, call, window, Cells
<1>11. CASE UNCHANGED vars
  BY <1>11 DEF vars, call, window, chase, matrix, Cells
<1> QED
  BY <1>1, <1>2, <1>3, <1>4, <1>5, <1>6, <1>7, <1>8, <1>9, <1>10, <1>11
     DEF Next, Step, Done

THEOREM InvariantHolds == Spec => []IInv
  BY InitIInv, StepIInv, PTL DEF Spec

(***************************************************************************)
(* Every variable keeps its type and range: in particular the entries      *)
(* touched by any sweep are entries of the matrix.                         *)
(***************************************************************************)
THEOREM TypeCorrect == Spec => []TypeOK
  BY InvariantHolds, PTL DEF IInv

(***************************************************************************)
(* The windows of hqr_eigvals_in_place and hqr_schur_in_place stay in      *)
(* bounds: no index computed from istart, istop and i leaves the matrix.   *)
(***************************************************************************)
THEOREM WindowsStayInBounds == Spec => []WindowsInBounds
<1>1. IInv => WindowsInBounds
  BY DEF IInv, TypeOK, Bounds, WindowsInBounds, nr, jend, RowStart, AtMost
<1> QED
  BY <1>1, InvariantHolds, PTL

(***************************************************************************)
(* The return value tells which eigenvalues were recorded.                 *)
(***************************************************************************)
THEOREM ReturnCodeCorrect == Spec => []ReturnCode
  BY InvariantHolds, PTL DEF IInv

-----------------------------------------------------------------------------
(***************************************************************************)
(* The driver implements the abstract deflation.  Recorded is the mapped   *)
(* set of slots; while the loop runs it is the suffix from istop on.       *)
(***************************************************************************)
Recorded == {k \in Idx : w[k] # "unset"}

LEMMA RecordedSuffix ==
  ASSUME IInv, pc # "done"
  PROVE  Recorded = Abstract!From(istop)
  BY DEF IInv, SlotsFromTheBottom, Recorded, Abstract!From, Idx, TypeOK

LEMMA InitRefines == Init => Abstract!Init
  BY DEF Init, Abstract!Init, Idx

(* A step that fills no slot and does not end the loop is a stutter. *)
LEMMA QuietStutters ==
  ASSUME n' = n, w' = w, (pc' = "done") = (pc = "done"), ret' = ret
  PROVE  UNCHANGED Abstract!vars
  BY DEF Abstract!vars, Idx

(* A step that keeps looping and moves istop up by one or two rows peels. *)
LEMMA DeflationPeels ==
  ASSUME IInv, IInv', pc # "done", pc' # "done", n' = n, ret' = ret,
         NEW size \in 1..2, istop' = istop - size
  PROVE  Abstract!Peel
<1> DEFINE top == istop
<1>1. top \in 1..n /\ top - size >= 0 /\ istop' = top - size
  BY DEF IInv, TypeOK
<1>2. Recorded = Abstract!From(top)
  BY RecordedSuffix
<1>3. Recorded' = Abstract!From(top - size)
  <2>1. Recorded' = {k \in 0..n-1 : k >= top - size}
    BY <1>1 DEF IInv, SlotsFromTheBottom, Recorded, Idx
  <2> QED
    BY <2>1, <1>1 DEF Abstract!From, IInv, TypeOK
<1> QED
  BY <1>1, <1>2, <1>3 DEF Abstract!Peel, Recorded

LEMMA StepRefines ==
  ASSUME IInv, IInv', [Next]_vars
  PROVE  [Abstract!Next]_Abstract!vars
<1>1. CASE Trivial
  <2>1. Recorded = Abstract!From(n)
    BY <1>1, RecordedSuffix DEF Trivial, IInv, Bounds, Abstract!From
  <2>2. Recorded' = Abstract!From(0)
    BY <1>1 DEF Trivial, Return, Recorded, Abstract!From, Idx, call
  <2>3. Abstract!From(n) = Abstract!From(0) \/ Abstract!From(n) = Abstract!From(1)
    BY <1>1 DEF Trivial, IInv, TypeOK, Abstract!From
  <2>4. Abstract!Conclude
    BY <1>1, <2>1, <2>2, <2>3 DEF Abstract!Conclude, Trivial, Return, Recorded, call
  <2> QED
    BY <2>4 DEF Abstract!Next
<1>2. CASE EnterLoop \/ Scan \/ BeginSweep \/ ChaseStep
  <2>1. n' = n /\ w' = w /\ ret' = ret /\ pc # "done" /\ pc' # "done"
    BY <1>2 DEF EnterLoop, Scan, BeginSweep, ChaseStep, call
  <2> QED
    BY <2>1, QuietStutters
<1>3. CASE GiveUp
  <2>1. pc = "top" /\ pc' = "done" /\ n' = n /\ w' = w /\ ret' = istop
    BY <1>3 DEF GiveUp, Return, call
  <2>2. Recorded = Abstract!From(istop) /\ Recorded' = Recorded
    BY <2>1, RecordedSuffix DEF Recorded, Idx
  <2>3. CASE istop = 0
    BY <2>1, <2>2, <2>3 DEF Abstract!Next, Abstract!Conclude, Recorded
  <2>4. CASE istop # 0
    <3>1. istop \in 1..n
      BY <2>4 DEF IInv, TypeOK
    <3>2. Abstract!Fail
      BY <2>1, <2>2, <3>1 DEF Abstract!Fail, Recorded
    <3> QED
      BY <3>2 DEF Abstract!Next
  <2> QED
    BY <2>3, <2>4
<1>4. CASE Finish
  <2>1. pc = "top" /\ pc' = "done" /\ n' = n /\ ret' = 0
    BY <1>4 DEF Finish, Return, call
  <2>2. istart = 0 /\ istop \in 0..1
    BY <1>4 DEF Finish, IInv, Bounds, TypeOK
  <2>3. Recorded = Abstract!From(0) \/ Recorded = Abstract!From(1)
    BY <2>1, <2>2, RecordedSuffix
  <2>4. Recorded' = Abstract!From(0)
    <3>1. \A k \in 0..n-1 : w'[k] # "unset"
      BY <2>1 DEF IInv, ReturnCode, Idx
    <3> QED
      BY <2>1, <3>1 DEF Recorded, Idx, Abstract!From
  <2>5. Abstract!Conclude
    BY <2>1, <2>3, <2>4 DEF Abstract!Conclude, Recorded
  <2> QED
    BY <2>5 DEF Abstract!Next
<1>5. CASE DeflateOne \/ DeflateTwoEigvals \/ DeflateTwoSchur
  <2>1. pc # "done" /\ pc' # "done" /\ n' = n /\ ret' = ret /\ istop' = istart
    BY <1>5 DEF DeflateOne, DeflateTwoEigvals, DeflateTwoSchur, Deflated, call
  <2>2. PICK size \in 1..2 : istart + size = istop
    BY <1>5 DEF DeflateOne, DeflateTwoEigvals, DeflateTwoSchur
  <2>3. istop' = istop - size
    BY <2>1, <2>2 DEF IInv, TypeOK
  <2>4. Abstract!Peel
    BY <2>1, <2>3, DeflationPeels
  <2> QED
    BY <2>4 DEF Abstract!Next
<1>6. CASE UNCHANGED vars
  BY <1>6, QuietStutters DEF vars, call
<1> QED
  BY <1>1, <1>2, <1>3, <1>4, <1>5, <1>6 DEF Next, Step, Done

(***************************************************************************)
(* Every behaviour of the kernels is a behaviour of the abstract           *)
(* deflation: eigenvalues are delivered from the bottom up, in ones and    *)
(* twos, and the return value reports how far it got.                      *)
(***************************************************************************)
THEOREM DriverImplementsDeflation == Spec => ImplementsDeflation
  BY InitRefines, InvariantHolds, StepRefines, PTL
     DEF Spec, ImplementsDeflation, Abstract!Spec

-----------------------------------------------------------------------------
(***************************************************************************)
(* The shape of the matrix.  HessenbergShape and WindowDecoupled are       *)
(* inductive together, relative to the bounds above.                       *)
(***************************************************************************)
Shape == HessenbergShape /\ WindowDecoupled

LEMMA InitShape == Init => Shape
  BY DEF Init, UpperHessenberg, Shape, HessenbergShape, WindowDecoupled, Cells, Idx

LEMMA ChaseKeepsShape ==
  ASSUME IInv, IInv', Shape, ChaseStep
  PROVE  Shape'
<1> DEFINE K == i..i+nr-1
           bulge(x, p) == x[2] \in {p - 1, p} /\ x[1] <= p + 2 /\ x[1] < istop
<1>1. /\ pc = "chase" /\ i \in Nat /\ istart \in Nat /\ istop \in Nat /\ istart2 \in Nat
      /\ istart <= istart2 /\ istart2 <= i /\ i + 2 <= istop
      /\ istop \in 0..n /\ n \in Nat
  BY DEF ChaseStep, IInv, TypeOK, Bounds
<1>2. /\ istart' = istart /\ istop' = istop /\ istart2' = istart2 /\ n' = n /\ i' = i + 1
      /\ pc' = (IF i + 1 = istop - 1 THEN "top" ELSE "chase")
  BY DEF ChaseStep, call, window
<1>3. PICK cols, ec : Reflect(Annihilated(K), K, i..cols, RowStart..jend-1, ec, {})
  BY DEF ChaseStep
<1>4. /\ nr = (IF istop = i + 2 THEN 2 ELSE 3)
      /\ jend <= istop /\ jend <= i + nr + 1 /\ jend \in Nat
  BY <1>1 DEF nr, jend, AtMost
<1>5. ASSUME NEW x \in nz'
      PROVE  /\ x \in Cells
             /\ x[1] <= x[2] + 1 \/ (pc' = "chase" /\ bulge(x, i + 1))
             /\ x # Subdiagonal(istop)
             /\ istart > 0 => x # Subdiagonal(istart)
  <2>1. x \in Cells
    BY <1>2 DEF IInv, TypeOK, Cells, Idx
  <2>2. PICK r \in Idx, c \in Idx : x = <<r, c>>
    BY <2>1 DEF Cells
  <2>3. CASE x \in K \X (i..cols)
    BY <1>1, <1>2, <1>4, <2>1, <2>2, <2>3 DEF Subdiagonal, Idx
  <2>4. CASE x \in (RowStart..jend-1) \X K
    BY <1>1, <1>2, <1>4, <2>1, <2>2, <2>4 DEF Subdiagonal, Idx
  <2>5. CASE x \in Annihilated(K)
    <3>1. CASE i = istart2
      BY <1>1, <1>2, <2>1, <2>2, <2>5, <3>1
         DEF Annihilated, Shape, HessenbergShape, WindowDecoupled, Subdiagonal, Idx
    <3>2. CASE i # istart2 /\ x \in nz
      <4>1. x \notin (K \ {i}) \X {i - 1}
        BY <2>5, <3>2 DEF Annihilated
      <4>2. r <= c + 1 \/ bulge(<<r, c>>, i)
        BY <1>1, <2>2, <3>2 DEF Shape, HessenbergShape
      <4>3. ~(r \in (i+1)..(i+nr-1) /\ c = i - 1)
        BY <4>1, <2>2, <1>1, <1>4
      <4>4. r <= c + 1 \/ (pc' = "chase" /\ bulge(<<r, c>>, i + 1))
        BY <4>2, <4>3, <1>1, <1>2, <1>4, <2>2 DEF Idx
      <4>5. x # Subdiagonal(istop) /\ (istart > 0 => x # Subdiagonal(istart))
        BY <3>2, <1>1, <2>2 DEF Shape, WindowDecoupled, Subdiagonal, Idx
      <4> QED
        BY <2>1, <2>2, <4>4, <4>5
    <3>3. CASE i # istart2 /\ x \notin nz
      <4>1. x = <<i, i - 1>>
        BY <2>5, <3>3 DEF Annihilated, MixRows
      <4> QED
        BY <4>1, <3>3, <1>1, <2>1 DEF Subdiagonal
    <3> QED
      BY <3>1, <3>2, <3>3
  <2> QED
    BY <1>3, <2>3, <2>4, <2>5, ReflectSupport
<1> QED
  BY <1>1, <1>2, <1>5 DEF Shape, HessenbergShape, WindowDecoupled, Subdiagonal

(* A window that moves up to istart is decoupled by what the scan zeroed. *)
LEMMA DeflationKeepsShape ==
  ASSUME IInv, IInv', Shape,
         DeflateOne \/ DeflateTwoEigvals \/ DeflateTwoSchur
  PROVE  Shape'
<1>1. /\ pc = "deflate" /\ pc' = "top" /\ n' = n /\ istop' = istart /\ istart' = 0
      /\ istart \in Nat /\ istart < n /\ n \in Nat /\ istop \in Nat /\ istart < istop
  <2>1. pc = "deflate" /\ pc' = "top" /\ n' = n /\ istop' = istart /\ istart' = 0
    BY DEF DeflateOne, DeflateTwoEigvals, DeflateTwoSchur, Deflated, call
  <2> QED
    BY <2>1 DEF IInv, TypeOK, Bounds
<1>2. \A x \in nz : x[1] <= x[2] + 1 /\ x # Subdiagonal(istart)
  <2>1. \A x \in nz : x \in Cells
    BY DEF IInv, TypeOK
  <2>2. istart = 0 => \A x \in nz : x # Subdiagonal(istart)
    BY <2>1 DEF Cells, Idx, Subdiagonal
  <2> QED
    BY <1>1, <2>2 DEF Shape, HessenbergShape, WindowDecoupled
<1>3. ASSUME NEW x \in nz'
      PROVE  x[1] <= x[2] + 1 /\ x # Subdiagonal(istart)
  <2>1. CASE DeflateOne \/ DeflateTwoEigvals
    BY <2>1, <1>2 DEF DeflateOne, DeflateTwoEigvals, matrix
  <2>2. CASE DeflateTwoSchur
    <3> DEFINE K == {istart, istart + 1}
    <3>1. PICK S \in SUBSET (nz \union K \X K), hi \in {istop_m - 1}, lo \in {istart_m} :
            Reflect(S, K, IF WantT THEN istart+2..hi ELSE {},
                    IF WantT THEN lo..istart-1 ELSE {}, K, K)
      <4>1. PICK b \in schur22 :
              Reflect((nz \union K \X K)
                        \ ((IF b.c0 THEN {<<istart + 1, istart>>} ELSE {})
                             \union (IF b.b0 THEN {<<istart, istart + 1>>} ELSE {})),
                      K, IF WantT THEN istart+2..istop_m-1 ELSE {},
                      IF WantT THEN istart_m..istart-1 ELSE {}, K, K)
        BY <2>2 DEF DeflateTwoSchur
      <4>2. \A Z : (nz \union K \X K) \ Z \in SUBSET (nz \union K \X K)
        OBVIOUS
      <4> QED
        BY <4>1, <4>2
    <3>2. \/ x \in S
          \/ x \in K \X (IF WantT THEN istart+2..hi ELSE {})
          \/ x \in (IF WantT THEN lo..istart-1 ELSE {}) \X K
      BY <3>1, ReflectSupport
    <3>3. x \in nz \/ x \in K \X K \/ x \in K \X (istart+2..hi) \/ x \in (lo..istart-1) \X K
      BY <3>1, <3>2
    <3>4. x \in Cells
      BY <1>1 DEF IInv, TypeOK, Cells, Idx
    <3>5. PICK r \in Idx, c \in Idx : x = <<r, c>>
      BY <3>4, <1>1 DEF Cells
    <3> QED
      BY <1>1, <1>2, <3>3, <3>5 DEF Subdiagonal, Idx
  <2> QED
    BY <2>1, <2>2
<1> QED
  BY <1>1, <1>3 DEF Shape, HessenbergShape, WindowDecoupled

LEMMA StepShape ==
  ASSUME IInv, IInv', Shape, [Next]_vars
  PROVE  Shape'
<1>1. CASE ChaseStep
  BY <1>1, ChaseKeepsShape
<1>2. CASE DeflateOne \/ DeflateTwoEigvals \/ DeflateTwoSchur
  BY <1>2, DeflationKeepsShape
<1>3. CASE Scan
  <2>1. /\ pc = "top" /\ pc' = "deflate" /\ n' = n /\ istop' = istop /\ istop \in Nat
        /\ istart < istop /\ istart \in Nat
    BY <1>3 DEF Scan, call, IInv, TypeOK
  <2>2. CASE istart' = istart /\ nz' = nz
    BY <2>1, <2>2 DEF Shape, HessenbergShape, WindowDecoupled
  <2>3. CASE \E s \in istart+1..istop-1 : nz' = nz \ {Subdiagonal(s)} /\ istart' = s
    BY <2>1, <2>3 DEF Shape, HessenbergShape, WindowDecoupled
  <2> QED
    BY <1>3, <2>2, <2>3 DEF Scan
<1>4. CASE BeginSweep
  BY <1>4 DEF BeginSweep, call, window, matrix, Shape, HessenbergShape, WindowDecoupled
<1>5. CASE Trivial \/ GiveUp \/ Finish
  BY <1>5 DEF Trivial, GiveUp, Finish, Return, call, window, matrix, Shape,
       HessenbergShape, WindowDecoupled
<1>6. CASE EnterLoop
  BY <1>6 DEF EnterLoop, call, window, matrix, Shape, HessenbergShape, WindowDecoupled
<1>7. CASE UNCHANGED vars
  BY <1>7 DEF vars, call, window, chase, matrix, Shape, HessenbergShape, WindowDecoupled
<1> QED
  BY <1>1, <1>2, <1>3, <1>4, <1>5, <1>6, <1>7 DEF Next, Step, Done

(***************************************************************************)
(* The bulge chase leaves no bulge behind, whatever the window, the early  *)
(* start and the deflations before it, and a zeroed subdiagonal entry      *)
(* bordering the window stays exactly zero.                                *)
(***************************************************************************)
THEOREM HessenbergPreserved == Spec => [](HessenbergShape /\ WindowDecoupled)
<1>1. IInv /\ IInv' /\ Shape /\ [Next]_vars => Shape'
  BY StepShape
<1> QED
  BY <1>1, InitShape, InvariantHolds, PTL DEF Spec, Shape

-----------------------------------------------------------------------------
(***************************************************************************)
(* Staleness.  The ranges fixed before the scan are those of the window    *)
(* that is swept, and a window that the scan leaves has no zero on its     *)
(* subdiagonal.                                                            *)
(***************************************************************************)
SweepRanges ==
  pc \in {"deflate", "chase"} =>
    /\ WantT => istart_m = 0 /\ istop_m = n
    /\ ~WantT => istop_m = istop

WindowUnreduced ==
  pc = "deflate" => \A k \in istart+1..istop-1 : Subdiagonal(k) \in nz

Clean == SweepRanges /\ WindowUnreduced /\ SimilarityMaintained /\ NoStaleWindow

(* A reflector reaches all nonzero entries of its rows and columns. *)
LEMMA ChaseReach ==
  ASSUME IInv, Shape, pc = "chase", NEW K, K = i..i+nr-1
  PROVE  /\ \A r \in K, c \in Idx : <<r, c>> \in Annihilated(K) =>
              c \in i..n-1 \/ (i > istart /\ c = i - 1)
         /\ \A r \in Idx, c \in K : <<r, c>> \in Annihilated(K) \/ r \in K => r < jend
<1>1. /\ i \in Nat /\ istart \in Nat /\ istop \in 0..n /\ n \in Nat /\ istart2 \in Nat
      /\ istart <= istart2 /\ istart2 <= i /\ i + 2 <= istop
  BY DEF IInv, TypeOK, Bounds
<1>2. ASSUME NEW r \in Idx, NEW c \in Idx, <<r, c>> \in nz
      PROVE  /\ r <= c + 1 \/ (i > istart2 /\ c \in {i - 1, i} /\ r <= i + 2 /\ r < istop)
             /\ istop < n => ~(r = istop /\ c = istop - 1)
             /\ istart > 0 => ~(r = istart /\ c = istart - 1)
  BY <1>2, <1>1 DEF Shape, HessenbergShape, WindowDecoupled, Subdiagonal
<1>3. ASSUME NEW r \in Idx, NEW c \in Idx, <<r, c>> \in Annihilated(K)
      PROVE  <<r, c>> \in nz \/ (i # istart2 /\ c = i - 1)
  BY <1>3 DEF Annihilated, MixRows
<1>4. /\ nr \in 2..3 /\ i + nr <= istop /\ K \subseteq Idx
      /\ jend = IF i + nr + 1 <= istop THEN i + nr + 1 ELSE istop
  BY <1>1 DEF nr, jend, AtMost, Idx
<1>5. ASSUME NEW r \in K, NEW c \in Idx, <<r, c>> \in Annihilated(K)
      PROVE  c \in i..n-1 \/ (i > istart /\ c = i - 1)
  <2>1. r \in Idx /\ r >= i
    BY <1>1, <1>4
  <2>2. <<r, c>> \in nz => c >= i - 1
    BY <1>1, <1>2, <2>1 DEF Idx
  <2>3. <<r, c>> \in nz /\ i = istart => c >= i
    BY <1>1, <1>2, <2>1 DEF Idx
  <2> QED
    BY <1>1, <1>3, <1>5, <2>1, <2>2, <2>3 DEF Idx
<1>6. ASSUME NEW r \in Idx, NEW c \in K, <<r, c>> \in Annihilated(K) \/ r \in K
      PROVE  r < jend
  <2>1. c \in Idx /\ c >= i /\ c < i + nr
    BY <1>1, <1>4
  <2>2. CASE r \in K
    BY <1>1, <1>4, <2>2
  <2>3. CASE <<r, c>> \in nz
    <3>1. r <= i + nr
      BY <1>1, <1>2, <1>4, <2>1, <2>3 DEF Idx
    <3>2. r < istop
      BY <1>1, <1>2, <1>4, <2>1, <2>3 DEF Idx
    <3> QED
      BY <1>1, <1>4, <3>1, <3>2 DEF Idx
  <2> QED
    BY <1>1, <1>3, <1>6, <2>1, <2>2, <2>3
<1> QED
  BY <1>5, <1>6

LEMMA ChaseKeepsClean ==
  ASSUME IInv, Shape, Shape', Clean, ChaseStep
  PROVE  Clean'
<1> DEFINE K == i..i+nr-1
           ec == IF i > istart THEN {i - 1} ELSE {}
<1>1. /\ i \in Nat /\ istart \in Nat /\ istop \in 0..n /\ n \in Nat /\ istart2 \in Nat
      /\ istart <= istart2 /\ istart2 <= i /\ i + 2 <= istop
      /\ RowStart \in Nat /\ RowStart <= istart /\ pc = "chase"
      /\ stale \subseteq Cells /\ nr \in 2..3 /\ i + nr <= istop /\ jend \in Nat /\ jend <= istop
  BY DEF ChaseStep, IInv, TypeOK, Bounds, RowStart, nr, jend, AtMost
<1>2. /\ n' = n /\ mode' = mode /\ have_z' = have_z /\ istart' = istart /\ istop' = istop
      /\ istart_m' = istart_m /\ istop_m' = istop_m /\ pc' \in {"top", "chase"}
  BY <1>1 DEF ChaseStep, call, window
<1>3. PICK S, cols, rows :
        /\ S = Annihilated(K) /\ cols = i..istop_m-1 /\ rows = RowStart..jend-1
        /\ Reflect(S, K, cols, rows, ec, {})
        /\ Accumulate(K, Idx)
  BY DEF ChaseStep, ZRows
<1>4. /\ \A r \in K, c \in Idx : <<r, c>> \in S => c \in i..n-1 \/ c \in ec
      /\ \A r \in Idx, c \in K : <<r, c>> \in S \/ r \in K => r < jend
  BY <1>1, <1>3, ChaseReach
<1>5. K \subseteq InWindow /\ InWindow \subseteq Idx /\ ec \subseteq InWindow
  BY <1>1 DEF InWindow, Idx
<1> HIDE DEF K, ec
<1>6. Reflect(S, K, cols, rows, ec, {})
  BY <1>3
<1>7. have_z => stale_z' = {}
  BY <1>3, AccumulateComplete DEF Clean, SimilarityMaintained
<1>8. CASE WantT
  <2>1. RowStart = 0 /\ istart_m = 0 /\ istop_m = n /\ stale = {}
    BY <1>1, <1>8 DEF Clean, SweepRanges, SimilarityMaintained, RowStart, WantT
  <2>2. \A r \in K, c \in Idx : <<r, c>> \in S => c \in cols \union ec
    BY <1>3, <1>4, <2>1
  <2>3. ASSUME NEW r \in Idx, NEW c \in K, <<r, c>> \in S \/ r \in K
        PROVE  r \in rows
    BY <1>1, <1>3, <1>4, <2>1, <2>3 DEF Idx
  <2>4. stale' = {}
    <3>1. \A r \in Idx, c \in K : <<r, c>> \in S \/ (r \in K /\ c \in cols) => r \in rows \union {}
      BY <2>3
    <3> QED
      BY <1>6, <2>1, <2>2, <3>1, ReflectComplete
  <2> QED
    BY <1>1, <1>2, <1>8, <1>7, <2>1, <2>4
       DEF Clean, SweepRanges, WindowUnreduced, SimilarityMaintained, NoStaleWindow, WantT
<1>9. CASE ~WantT
  <2>1. istop_m = istop
    BY <1>1, <1>9 DEF Clean, SweepRanges
  <2>2. cols \union ec \subseteq InWindow
    BY <1>1, <1>3, <1>5, <2>1 DEF InWindow
  <2>3. ASSUME NEW r \in K, NEW c \in Idx, <<r, c>> \in S, c < istop
        PROVE  c \in cols \union ec
    BY <1>1, <1>3, <1>4, <2>1, <2>3 DEF Idx
  <2>4. ASSUME NEW r \in InWindow, NEW c \in K, <<r, c>> \in S \/ r \in K
        PROVE  r \in rows
    <3>1. r < jend
      BY <1>4, <1>5, <2>4
    <3> QED
      BY <1>1, <1>3, <3>1 DEF InWindow
  <2>5. stale \intersect (InWindow \X InWindow) = {}
    BY <1>1 DEF Clean, NoStaleWindow, InWindow
  <2>6. /\ stale' \intersect (InWindow \X InWindow) = {}
        /\ \A x \in stale' : x[1] < istop /\ x[2] < istop =>
             x \in stale \/ (x[1] \in 0..istart-1 /\ x[2] \in InWindow)
    BY <1>1, <1>5, <1>6, <2>2, <2>3, <2>4, <2>5, SweepStaysClean
  <2>7. ASSUME NEW x \in stale', x[1] < istop, x[2] < istop
        PROVE  Straddles(x)'
    <3>1. CASE x[1] \in 0..istart-1 /\ x[2] \in InWindow
      <4>1. Subdiagonal(istart) \notin nz' /\ istart \in x[1]+1..x[2]
        BY <1>1, <1>2, <3>1 DEF Shape, WindowDecoupled, InWindow, Subdiagonal
      <4> QED
        BY <4>1 DEF Straddles, Subdiagonal
    <3>2. CASE x \in stale /\ ~(x[1] \in 0..istart-1 /\ x[2] \in InWindow)
      <4>1. PICK r \in Idx, c \in Idx : x = <<r, c>>
        BY <1>1, <3>2 DEF Cells
      <4>2. PICK s \in r+1..c : Subdiagonal(s) \notin nz
        BY <1>1, <2>7, <3>2, <4>1 DEF Clean, NoStaleWindow, Straddles
      <4>3. s < istart /\ s >= 1
        <5>1. ~(r \in InWindow /\ c \in InWindow)
          BY <2>5, <3>2, <4>1
        <5>2. c < istart
          BY <1>1, <2>7, <3>2, <4>1, <4>2, <5>1 DEF InWindow, Idx
        <5> QED
          BY <1>1, <4>1, <4>2, <5>2 DEF Idx
      <4>4. Subdiagonal(s) \notin nz'
        <5>1. <<s, s - 1>> \notin S
          BY <1>1, <1>3, <4>2, <4>3 DEF Annihilated, MixRows, Subdiagonal
        <5>2. s \notin K /\ s - 1 \notin K
          BY <1>1, <1>5, <4>3 DEF InWindow
        <5> QED
          BY <1>3, <5>1, <5>2, ReflectSupport DEF Subdiagonal
      <4> QED
        BY <4>1, <4>4 DEF Straddles, Subdiagonal
    <3> QED
      BY <2>6, <2>7, <3>1, <3>2
  <2> QED
    BY <1>1, <1>2, <1>9, <1>7, <2>1, <2>6, <2>7
       DEF Clean, SweepRanges, WindowUnreduced, SimilarityMaintained, NoStaleWindow, InWindow, WantT
<1> QED
  BY <1>8, <1>9

(* Standardizing a 2x2 block: with want_t the rotation reaches all nonzero *)
(* entries right of the block and above it; without, only entries of the   *)
(* block's rows and columns go stale.                                      *)
LEMMA DeflateTwoKeepsClean ==
  ASSUME IInv, Shape, Shape', Clean, DeflateTwoSchur
  PROVE  Clean'
<1> DEFINE K == {istart, istart + 1}
<1>1. /\ pc = "deflate" /\ pc' = "top" /\ n' = n /\ mode' = mode /\ have_z' = have_z
      /\ istop' = istart /\ istart + 2 = istop /\ istart \in Nat /\ istop \in 0..n /\ n \in Nat
      /\ stale \subseteq Cells /\ nz \subseteq Cells
  BY DEF DeflateTwoSchur, Deflated, call, IInv, TypeOK, Bounds
<1>2. PICK S, cols, rows :
        /\ S \subseteq nz \union K \X K
        /\ cols = (IF WantT THEN istart+2..istop_m-1 ELSE {})
        /\ rows = (IF WantT THEN istart_m..istart-1 ELSE {})
        /\ Reflect(S, K, cols, rows, K, K)
        /\ Accumulate(K, Idx)
  <2>1. \A zeroed : (nz \union K \X K) \ zeroed \subseteq nz \union K \X K
    OBVIOUS
  <2> QED
    BY <2>1 DEF DeflateTwoSchur, ZRows
<1>3. K \subseteq Idx /\ \A k \in K : k >= istart /\ k < istop
  BY <1>1 DEF Idx
<1>4. Reflect(S, K, cols, rows, K, K)
  BY <1>2
<1>5. have_z => stale_z' = {}
  BY <1>2, AccumulateComplete DEF Clean, SimilarityMaintained
<1>6. ASSUME NEW r \in Idx, NEW c \in Idx, <<r, c>> \in nz
      PROVE  /\ r <= c + 1
             /\ istop < n => ~(r = istop /\ c = istop - 1)
             /\ istart > 0 => ~(r = istart /\ c = istart - 1)
  BY <1>6, <1>1 DEF Shape, HessenbergShape, WindowDecoupled, Subdiagonal
<1>7. CASE WantT
  <2>1. istart_m = 0 /\ istop_m = n /\ stale = {}
    BY <1>1, <1>7 DEF Clean, SweepRanges, SimilarityMaintained
  <2>2. ASSUME NEW r \in K, NEW c \in Idx, <<r, c>> \in S
        PROVE  c \in cols \union K
    <3>1. c >= istart
      BY <1>1, <1>2, <1>3, <1>6, <2>2 DEF Idx
    <3> QED
      BY <1>1, <1>2, <1>7, <2>1, <3>1 DEF Idx
  <2>3. ASSUME NEW r \in Idx, NEW c \in K, <<r, c>> \in S \/ (r \in K /\ c \in cols)
        PROVE  r \in rows \union K
    <3>1. r < istop
      BY <1>1, <1>2, <1>3, <1>6, <2>3 DEF Idx
    <3> QED
      BY <1>1, <1>2, <1>7, <2>1, <3>1 DEF Idx
  <2>4. stale' = {}
    <3> HIDE DEF K
    <3> QED
      BY <1>4, <2>1, <2>2, <2>3, ReflectComplete
  <2> QED
    BY <1>1, <1>5, <1>7, <2>4
       DEF Clean, SweepRanges, WindowUnreduced, SimilarityMaintained, NoStaleWindow, WantT
<1>8. CASE ~WantT
  <2>1. ASSUME NEW x \in stale', x[1] < istart, x[2] < istart
        PROVE  Straddles(x)'
    <3>1. x \in stale
      <4>1. x[1] \notin K /\ x[2] \notin K
        BY <1>1, <1>3, <2>1
      <4> HIDE DEF K
      <4> QED
        BY <1>4, <4>1, ReflectStaleSupport
    <3>2. PICK r \in Idx, c \in Idx : x = <<r, c>>
      BY <1>1, <3>1 DEF Cells
    <3>3. PICK s \in r+1..c : Subdiagonal(s) \notin nz
      BY <1>1, <2>1, <3>1, <3>2 DEF Clean, NoStaleWindow, Straddles, Idx
    <3>4. s \in Nat /\ s < istart
      BY <1>1, <2>1, <3>2, <3>3 DEF Idx
    <3>5. s \notin K /\ s - 1 \notin K /\ <<s, s - 1>> \notin S
      BY <1>1, <1>2, <3>3, <3>4 DEF Subdiagonal
    <3>6. Subdiagonal(s) \notin nz'
      <4> HIDE DEF K
      <4> QED
        BY <1>4, <3>5, ReflectSupport DEF Subdiagonal
    <3> QED
      BY <3>2, <3>6 DEF Straddles, Subdiagonal
  <2> QED
    BY <1>1, <1>5, <1>8, <2>1
       DEF Clean, SweepRanges, WindowUnreduced, SimilarityMaintained, NoStaleWindow, WantT
<1> QED
  BY <1>7, <1>8

LEMMA InitClean == Init => Clean
  BY DEF Init, UpperHessenberg, Clean, SweepRanges, WindowUnreduced, SimilarityMaintained,
         NoStaleWindow

LEMMA StepClean ==
  ASSUME IInv, IInv', Shape, Shape', Clean, [Next]_vars
  PROVE  Clean'
<1> USE DEF Clean, SweepRanges, WindowUnreduced, SimilarityMaintained, NoStaleWindow, Straddles, WantT
<1>1. CASE ChaseStep
  BY <1>1, ChaseKeepsClean
<1>2. CASE Scan
  <2>1. /\ pc = "top" /\ pc' = "deflate" /\ n' = n /\ istop' = istop /\ mode' = mode
        /\ have_z' = have_z /\ stale' = stale /\ stale_z' = stale_z /\ nz' \subseteq nz
        /\ istart_m' = (IF WantT THEN 0 ELSE istart) /\ istop_m' = (IF WantT THEN n ELSE istop)
    BY <1>2 DEF Scan, call
  <2>2. \A k \in istart'+1..istop-1 : Subdiagonal(k) \in nz'
    <3>1. CASE ScanFindsNothing /\ UNCHANGED <<istart, nz>>
      BY <3>1 DEF ScanFindsNothing
    <3>2. CASE \E s \in istart+1..istop-1 :
                 ScanStopsAt(s) /\ nz' = nz \ {Subdiagonal(s)} /\ istart' = s
      <4>1. PICK s \in istart+1..istop-1 :
              (\A k \in s+1..istop-1 : Subdiagonal(k) \in nz) /\ nz' = nz \ {Subdiagonal(s)} /\ istart' = s
        BY <3>2 DEF ScanStopsAt
      <4>2. s \in Nat /\ istop \in Nat
        BY DEF IInv, TypeOK
      <4>3. ASSUME NEW k \in s+1..istop-1 PROVE Subdiagonal(k) \in nz'
        <5>1. Subdiagonal(k) # Subdiagonal(s)
          BY <4>2 DEF Subdiagonal
        <5> QED
          BY <4>1, <5>1
      <4> QED
        BY <4>1, <4>3
    <3> QED
      BY <1>2, <3>1, <3>2 DEF Scan
  <2>3. \A s : Subdiagonal(s)' = Subdiagonal(s)
    BY DEF Subdiagonal
  <2> QED
    BY <2>1, <2>2, <2>3
<1>3. CASE DeflateOne \/ DeflateTwoEigvals
  <2>1. /\ pc = "deflate" /\ pc' = "top" /\ n' = n /\ istop' = istart /\ istart < istop
        /\ mode' = mode /\ have_z' = have_z /\ nz' = nz /\ stale' = stale /\ stale_z' = stale_z
        /\ istart \in Nat /\ istop \in Nat /\ stale \subseteq Cells /\ n \in Nat
    BY <1>3 DEF DeflateOne, DeflateTwoEigvals, Deflated, IInv, TypeOK, Bounds, call, matrix
  <2>2. ASSUME NEW x \in stale, x[1] < istart, x[2] < istart
        PROVE  x[1] < istop /\ x[2] < istop
    BY <2>1, <2>2 DEF Cells, Idx
  <2> QED
    BY <2>1, <2>2 DEF Subdiagonal
<1>4. CASE BeginSweep
  <2>1. /\ pc = "deflate" /\ pc' = "chase" /\ n' = n /\ istop' = istop /\ istart' = istart
        /\ mode' = mode /\ have_z' = have_z /\ nz' = nz /\ stale' = stale /\ stale_z' = stale_z
        /\ istart_m' = istart_m /\ istop_m' = istop_m
        /\ istart \in Nat /\ istop \in Nat
    BY <1>4 DEF BeginSweep, IInv, TypeOK, call, matrix, window
  <2>2. ASSUME NEW x \in stale, x \in (istart..istop-1) \X (istart..istop-1)
        PROVE  FALSE
    <3>1. PICK s \in x[1]+1..x[2] : Subdiagonal(s) \notin nz
      BY <2>1, <2>2
    <3>2. s \in istart+1..istop-1
      BY <2>1, <2>2, <3>1
    <3> QED
      BY <2>1, <3>1, <3>2
  <2> QED
    BY <2>1, <2>2 DEF Subdiagonal
<1>5. CASE Trivial \/ EnterLoop \/ GiveUp \/ Finish
  BY <1>5 DEF Trivial, EnterLoop, GiveUp, Finish, Return, call, window, chase, matrix, Subdiagonal
<1>6. CASE DeflateTwoSchur
  BY <1>6, DeflateTwoKeepsClean
<1>7. CASE UNCHANGED vars
  BY <1>7 DEF vars, call, window, chase, matrix, Subdiagonal
<1> QED
  BY <1>1, <1>2, <1>3, <1>4, <1>5, <1>6, <1>7 DEF Next, Step, Done

THEOREM CleanHolds == Spec => []Clean
<1>1. IInv /\ IInv' /\ Shape /\ Shape' /\ Clean /\ [Next]_vars => Clean'
  BY StepClean
<1> QED
  BY <1>1, InitClean, InvariantHolds, HessenbergPreserved, PTL DEF Spec, Shape

(***************************************************************************)
(* A = Z T Z' for hqr_schur_in_place: every reflector of a chase and every *)
(* rotation that standardizes a block reaches the whole of T, when it is   *)
(* wanted, and the whole of Z.                                             *)
(***************************************************************************)
THEOREM KeepsSimilarity == Spec => []SimilarityMaintained
  BY CleanHolds, PTL DEF Clean

(***************************************************************************)
(* Without want_t, and in hqr_eigvals_in_place, the sweeps may be          *)
(* restricted to the window: they never read an entry that an earlier one  *)
(* left stale.                                                             *)
(***************************************************************************)
THEOREM WindowsAreCurrent == Spec => []NoStaleWindow
  BY CleanHolds, PTL DEF Clean

-----------------------------------------------------------------------------
(* The shifts.  k_defl counts the sweeps since the last deflation.         *)
StallCounted ==
  /\ pc \in {"entry", "top", "deflate"} => k_defl = iter - lastDefl
  /\ pc = "chase" => /\ k_defl = iter - lastDefl + 1
                     /\ shift = "exceptional" <=> k_defl % StallLimit = 0

LEMMA StepStallCounted ==
  ASSUME IInv, StallCounted, [Next]_vars
  PROVE  StallCounted'
<1>0. iter \in Nat /\ lastDefl \in Nat /\ k_defl \in Nat
  BY LimitAssumption DEF IInv, TypeOK
<1>1. CASE BeginSweep
  <2>1. /\ pc = "deflate" /\ pc' = "chase" /\ k_defl' = k_defl + 1
        /\ iter' = iter /\ lastDefl' = lastDefl
        /\ shift' = IF k_defl' % StallLimit = 0 THEN "exceptional" ELSE "trailing"
    BY <1>1 DEF BeginSweep
  <2> QED
    BY <1>0, <2>1 DEF StallCounted
<1>2. CASE ChaseStep
  <2>1. /\ pc = "chase" /\ k_defl' = k_defl /\ lastDefl' = lastDefl /\ shift' = shift
        /\ (pc' = "chase" /\ iter' = iter) \/ (pc' = "top" /\ iter' = iter + 1)
    BY <1>2 DEF ChaseStep
  <2> QED
    BY <1>0, <2>1 DEF StallCounted
<1>3. CASE DeflateOne \/ DeflateTwoEigvals \/ DeflateTwoSchur
  <2>1. pc' = "top" /\ k_defl' = 0 /\ iter' = iter + 1 /\ lastDefl' = iter + 1
    BY <1>3 DEF DeflateOne, DeflateTwoEigvals, DeflateTwoSchur, Deflated
  <2> QED
    BY <1>0, <2>1 DEF StallCounted
<1>4. CASE Trivial \/ GiveUp \/ Finish
  BY <1>4 DEF Trivial, GiveUp, Finish, Return, StallCounted
<1>5. CASE EnterLoop \/ Scan
  BY <1>5 DEF EnterLoop, Scan, StallCounted
<1>6. CASE UNCHANGED vars
  BY <1>6 DEF vars, chase, StallCounted
<1> QED
  BY <1>1, <1>2, <1>3, <1>4, <1>5, <1>6 DEF Next, Step, Done

(***************************************************************************)
(* For every stall limit, a sweep uses an exceptional shift exactly when   *)
(* that many sweeps, or a multiple, have passed since a block deflated.    *)
(***************************************************************************)
THEOREM ShiftsFollowStalls == Spec => []ExceptionalWhenStalled
<1>1. Init => StallCounted
  BY DEF Init, StallCounted
<1>2. IInv /\ StallCounted /\ [Next]_vars => StallCounted'
  BY StepStallCounted
<1>3. StallCounted => ExceptionalWhenStalled
  BY DEF StallCounted, ExceptionalWhenStalled
<1> QED
  BY <1>1, <1>2, <1>3, InvariantHolds, PTL DEF Spec

-----------------------------------------------------------------------------
(***************************************************************************)
(* What is deflated is final.  No step touches an entry of T whose row and *)
(* column are both below the window, or a recorded eigenvalue.             *)
(***************************************************************************)
FrozenBelow ==
  \A r \in Idx, c \in Idx : r >= istop /\ c >= istop => (<<r, c>> \in nz <=> <<r, c>> \in nz')

LEMMA StepFreezes ==
  ASSUME IInv, [Next]_vars
  PROVE  FrozenBelow
<1>0. n \in Nat /\ istart \in Nat /\ istop \in Nat /\ istart <= istop
  BY DEF IInv, TypeOK, Bounds
<1>1. CASE ChaseStep
  <2> DEFINE K == i..i+nr-1
  <2>1. i \in Nat /\ i + 2 <= istop
    BY <1>1 DEF ChaseStep, IInv, TypeOK, Bounds
  <2>2. \A k \in K : k < istop
    BY <1>0, <2>1 DEF nr, AtMost
  <2>3. PICK cols, rows, ec : Reflect(Annihilated(K), K, cols, rows, ec, {})
    BY <1>1 DEF ChaseStep
  <2>4. ASSUME NEW r \in Idx, NEW c \in Idx, r >= istop, c >= istop
        PROVE  /\ r \notin K /\ c \notin K
               /\ <<r, c>> \in Annihilated(K) <=> <<r, c>> \in nz
    <3>1. r \notin K /\ c \notin K
      BY <1>0, <2>2, <2>4 DEF Idx
    <3> QED
      BY <3>1 DEF Annihilated, MixRows
  <2> HIDE DEF K
  <2> QED
    BY <2>3, <2>4, ReflectElsewhere DEF FrozenBelow
<1>2. CASE DeflateTwoSchur
  <2> DEFINE K == {istart, istart + 1}
  <2>1. istart + 2 = istop
    BY <1>2 DEF DeflateTwoSchur
  <2>2. PICK b \in schur22 : \E cols, rows :
          Reflect((nz \union K \X K)
                    \ ((IF b.c0 THEN {<<istart + 1, istart>>} ELSE {})
                         \union (IF b.b0 THEN {<<istart, istart + 1>>} ELSE {})),
                  K, cols, rows, K, K)
    BY <1>2 DEF DeflateTwoSchur
  <2>3. PICK S, cols, rows :
                 /\ Reflect(S, K, cols, rows, K, K)
                 /\ \A r \in Idx, c \in Idx : r \notin K /\ c \notin K =>
                      (<<r, c>> \in S <=> <<r, c>> \in nz)
    BY <2>2
  <2>4. \A r \in Idx : r >= istop => r \notin K
    BY <1>0, <2>1 DEF Idx
  <2> HIDE DEF K
  <2> QED
    BY <2>3, <2>4, ReflectElsewhere DEF FrozenBelow
<1>3. CASE Scan
  <2>1. CASE UNCHANGED nz
    BY <2>1 DEF FrozenBelow
  <2>2. CASE \E s \in istart+1..istop-1 : nz' = nz \ {Subdiagonal(s)}
    BY <1>0, <2>2 DEF FrozenBelow, Subdiagonal
  <2> QED
    BY <1>3, <2>1, <2>2 DEF Scan
<1>4. CASE Trivial \/ EnterLoop \/ GiveUp \/ Finish \/ DeflateOne \/ DeflateTwoEigvals
           \/ BeginSweep
  BY <1>4 DEF Trivial, EnterLoop, GiveUp, Finish, Return, DeflateOne, DeflateTwoEigvals,
              BeginSweep, matrix, FrozenBelow
<1>5. CASE UNCHANGED vars
  BY <1>5 DEF vars, matrix, FrozenBelow
<1> QED
  BY <1>1, <1>2, <1>3, <1>4, <1>5 DEF Next, Step, Done

LEMMA StepKeepsSlots ==
  ASSUME IInv, [Next]_vars
  PROVE  /\ \A k \in Idx : w[k] # "unset" => w'[k] = w[k]
         /\ istop' <= istop /\ n' = n
<1>0. /\ n \in Nat /\ istart \in Nat /\ istop \in Nat /\ istart <= istop /\ istop <= n
      /\ w \in [Idx -> WKinds]
  BY DEF IInv, TypeOK, Bounds
<1>1. pc # "done" => \A k \in Idx : w[k] # "unset" => k >= istop
  BY DEF IInv, SlotsFromTheBottom
<1>2. CASE Trivial
  BY <1>0, <1>1, <1>2 DEF Trivial, Return, IInv, Bounds, window, call, Idx
<1>3. CASE EnterLoop \/ GiveUp \/ Scan \/ BeginSweep \/ ChaseStep
  BY <1>0, <1>3 DEF EnterLoop, GiveUp, Scan, BeginSweep, ChaseStep, Return, window, call
<1>4. CASE Finish
  BY <1>0, <1>1, <1>4 DEF Finish, Return, window, call, Idx
<1>5. CASE DeflateOne \/ DeflateTwoEigvals \/ DeflateTwoSchur
  <2>1. pc = "deflate" /\ istart < istop /\ istop' = istart /\ n' = n
    BY <1>5 DEF DeflateOne, DeflateTwoEigvals, DeflateTwoSchur, Deflated, call, IInv, Bounds
  <2>2. \A k \in Idx : k >= istop => w'[k] = w[k]
    <3>1. CASE DeflateOne
      BY <1>0, <2>1, <3>1 DEF DeflateOne, Idx
    <3>2. CASE DeflateTwoEigvals \/ DeflateTwoSchur
      <4>1. PICK e, f : w' = [w EXCEPT ![istart] = e, ![istart + 1] = f]
        BY <3>2 DEF DeflateTwoEigvals, DeflateTwoSchur
      <4>2. istart + 2 = istop
        BY <3>2 DEF DeflateTwoEigvals, DeflateTwoSchur
      <4> QED
        BY <1>0, <4>1, <4>2 DEF Idx
    <3> QED
      BY <1>5, <3>1, <3>2
  <2> QED
    BY <1>0, <1>1, <2>1, <2>2
<1>6. CASE UNCHANGED vars
  BY <1>0, <1>6 DEF vars, window, call
<1> QED
  BY <1>2, <1>3, <1>4, <1>5, <1>6 DEF Next, Step, Done

(***************************************************************************)
(* Recorded eigenvalues and the diagonal blocks they were read from are    *)
(* never written again.                                                    *)
(***************************************************************************)
THEOREM DeflatedIsFinal == Spec => DeflatedBlocksFrozen
<1>1. ASSUME IInv, [Next]_vars
      PROVE  /\ \A k \in Idx : w[k] # "unset" => w'[k] = w[k]
             /\ istop' <= istop
             /\ \A x \in (istop..n-1) \X (istop..n-1) : x[1] >= x[2] => (x \in nz <=> x \in nz')
  <2>1. istop \in Nat /\ n \in Nat
    BY <1>1 DEF IInv, TypeOK
  <2>2. ASSUME NEW x \in (istop..n-1) \X (istop..n-1)
        PROVE  x \in nz <=> x \in nz'
    <3>1. PICK r \in istop..n-1, c \in istop..n-1 : x = <<r, c>>
      BY <2>2
    <3>2. r \in Idx /\ c \in Idx /\ r >= istop /\ c >= istop
      BY <2>1, <3>1 DEF Idx
    <3> QED
      BY <1>1, <3>1, <3>2, StepFreezes DEF FrozenBelow
  <2> QED
    BY <1>1, <2>2, StepKeepsSlots
<1> QED
  BY <1>1, InvariantHolds, PTL DEF Spec, DeflatedBlocksFrozen

-----------------------------------------------------------------------------
(* The eigenvalues and the matrix.  Facts that hold while the loop runs.   *)
LEMMA RecordedBelow ==
  ASSUME IInv, pc # "done"
  PROVE  /\ \A k \in Idx : w[k] = "unset" <=> k < istop
         /\ n \in Nat /\ istop \in Nat /\ istop <= n /\ istart \in Nat /\ istart <= istop
         /\ w \in [Idx -> WKinds]
  BY DEF IInv, TypeOK, Bounds, SlotsFromTheBottom, Idx

(* The four facts about one slot. *)
PairAt(k) ==
  /\ w[k] = "upper" <=> (k + 1 \in Idx /\ w[k+1] = "lower")
  /\ w[k] = "lower" => k - 1 \in Idx
  /\ w[k] = "upper" => Subdiagonal(k + 1) \in nz
  /\ mode # "eigvals" /\ k > istop /\ Subdiagonal(k) \in nz =>
       \/ w[k] = "lower" /\ <<k - 1, k>> \in nz
       \/ w[k] = "real" /\ w[k-1] = "real" /\ <<k - 1, k>> \notin nz

(* A slot below the window is not affected by what happens in the window. *)
LEMMA PairBelow ==
  ASSUME IInv, PairsAgree, FrozenBelow, pc # "done", n' = n, mode' = mode, istop' <= istop,
         NEW k \in Idx, k >= istop, \A l \in Idx : l >= istop => w'[l] = w[l],
         k = istop /\ istop' < istop => Subdiagonal(istop) \notin nz'
  PROVE  PairAt(k)'
<1>1. /\ n \in Nat /\ istop \in Nat /\ k \in Nat /\ k < n
      /\ k + 1 \in Idx <=> k + 1 < n
  BY RecordedBelow DEF Idx
<1>2. PairAt(k)
  BY DEF PairsAgree, PairAt
<1>3. k + 1 \in Idx => w'[k + 1] = w[k + 1] /\ (Subdiagonal(k + 1) \in nz' <=> Subdiagonal(k + 1) \in nz)
  BY <1>1 DEF FrozenBelow, Subdiagonal, Idx
<1>4. k > istop => /\ k - 1 \in Idx /\ k - 1 >= istop /\ w'[k - 1] = w[k - 1]
                   /\ (Subdiagonal(k) \in nz' <=> Subdiagonal(k) \in nz)
                   /\ (<<k - 1, k>> \in nz' <=> <<k - 1, k>> \in nz)
  BY <1>1 DEF FrozenBelow, Subdiagonal, Idx
<1>5. w'[k] = w[k] /\ Idx' = Idx /\ Subdiagonal(k)' = Subdiagonal(k)
      /\ Subdiagonal(k + 1)' = Subdiagonal(k + 1)
  BY DEF Idx, Subdiagonal
<1>6. k = istop => ~(k > istop)
  BY <1>1
<1> QED
  BY <1>1, <1>2, <1>3, <1>4, <1>5, <1>6 DEF PairAt

(* A slot above the window is unset, and so is not part of a pair. *)
LEMMA PairUnset ==
  ASSUME n' = n, NEW k \in Idx, w'[k] = "unset", istop' \in Nat, k <= istop',
         k + 1 \in Idx => w'[k + 1] # "lower"
  PROVE  PairAt(k)'
<1>1. ~(k > istop') /\ Idx' = Idx
  BY DEF Idx
<1> QED
  BY <1>1 DEF PairAt

(* Two slots are recorded, and the block they were read from agrees. *)
LEMMA PairsOfBlock ==
  ASSUME IInv, PairsAgree, FrozenBelow, WindowDecoupled, pc = "deflate", istart + 2 = istop,
         n' = n, mode' = mode, istop' = istart, NEW e, NEW f,
         <<e, f>> = RealPair \/ <<e, f>> = ConjugatePair,
         w' = [w EXCEPT ![istart] = e, ![istart + 1] = f],
         istop < n => Subdiagonal(istop) \notin nz',
         e = "upper" => Subdiagonal(istart + 1) \in nz',
         mode # "eigvals" /\ Subdiagonal(istart + 1) \in nz' =>
           \/ f = "lower" /\ <<istart, istart + 1>> \in nz'
           \/ e = "real" /\ f = "real" /\ <<istart, istart + 1>> \notin nz'
  PROVE  PairsAgree'
<1>1. /\ n \in Nat /\ istop \in Nat /\ istop <= n /\ istart \in Nat /\ w \in [Idx -> WKinds]
      /\ \A k \in Idx : w[k] = "unset" <=> k < istop
  BY RecordedBelow
<1>2. istart \in Idx /\ istart + 1 \in Idx /\ istart < istop /\ Idx' = Idx
  BY <1>1 DEF Idx
<1>3. /\ w'[istart] = e /\ w'[istart + 1] = f
      /\ \A l \in Idx : l # istart /\ l # istart + 1 => w'[l] = w[l]
  BY <1>1, <1>2
<1>4. (e = "real" /\ f = "real") \/ (e = "upper" /\ f = "lower")
  BY DEF RealPair, ConjugatePair
<1>5. istop \in Idx => w[istop] # "lower"
  <2>1. istop \in Idx => istart + 1 + 1 = istop /\ w[istart + 1] = "unset"
    BY <1>1, <1>2
  <2> QED
    BY <1>2, <2>1 DEF PairsAgree
<1>6. ASSUME NEW k \in Idx
      PROVE  PairAt(k)'
  <2>0. k \in Nat /\ k < n
    BY <1>1 DEF Idx
  <2>1. CASE k < istart
    <3>1. w'[k] = "unset"
      BY <1>1, <1>2, <1>3, <2>0, <2>1
    <3>2. k + 1 \in Idx => w'[k + 1] # "lower"
      <4>1. CASE k + 1 = istart
        BY <1>3, <1>4, <4>1
      <4>2. CASE k + 1 # istart
        BY <1>1, <1>2, <1>3, <2>0, <2>1, <4>2
      <4> QED
        BY <4>1, <4>2
    <3> QED
      BY <1>1, <2>0, <2>1, <3>1, <3>2, PairUnset
  <2>2. CASE k = istart
    <3>1. ~(k > istop') /\ k + 1 \in Idx
      BY <1>1, <1>2, <2>2
    <3>2. Subdiagonal(k + 1)' = Subdiagonal(istart + 1)
      BY <2>2 DEF Subdiagonal
    <3>3. w'[k] = e /\ w'[k + 1] = f
      BY <1>3, <2>2
    <3> QED
      BY <1>2, <1>4, <3>1, <3>2, <3>3 DEF PairAt
  <2>3. CASE k = istart + 1
    <3>1. k + 1 = istop /\ k - 1 = istart
      BY <1>1, <2>3
    <3>2. k + 1 \in Idx => w'[k + 1] = w[istop]
      BY <1>1, <1>3, <3>1
    <3>3. w'[k] = f /\ w'[k - 1] = e /\ <<k - 1, k>> = <<istart, istart + 1>>
      BY <1>3, <2>3, <3>1
    <3>4. Subdiagonal(k)' = Subdiagonal(istart + 1)
      BY <2>3 DEF Subdiagonal
    <3>5. k + 1 \in Idx => w'[k + 1] # "lower"
      BY <1>5, <3>1, <3>2
    <3> QED
      BY <1>2, <1>4, <3>1, <3>3, <3>4, <3>5 DEF PairAt
  <2>4. CASE k >= istop
    <3>1. istop' <= istop /\ \A l \in Idx : l >= istop => w'[l] = w[l]
      BY <1>1, <1>2, <1>3 DEF Idx
    <3>2. k = istop => Subdiagonal(istop) \notin nz'
      BY <2>0
    <3> QED
      BY <2>4, <3>1, <3>2, PairBelow
  <2> QED
    BY <1>1, <2>0, <2>1, <2>2, <2>3, <2>4
<1> QED
  BY <1>2, <1>6 DEF PairsAgree, PairAt

LEMMA DeflateOneKeepsPairs ==
  ASSUME IInv, PairsAgree, FrozenBelow, WindowDecoupled, DeflateOne
  PROVE  PairsAgree'
<1>0. /\ pc = "deflate" /\ istart + 1 = istop /\ w' = [w EXCEPT ![istart] = "real"]
      /\ istop' = istart /\ n' = n /\ mode' = mode /\ nz' = nz
  BY DEF DeflateOne, Deflated, call, matrix
<1>1. /\ n \in Nat /\ istop \in Nat /\ istop <= n /\ istart \in Nat /\ w \in [Idx -> WKinds]
      /\ \A k \in Idx : w[k] = "unset" <=> k < istop
  BY <1>0, RecordedBelow
<1>2. istart \in Idx /\ istart < istop /\ Idx' = Idx
  BY <1>0, <1>1 DEF Idx
<1>3. w'[istart] = "real" /\ \A l \in Idx : l # istart => w'[l] = w[l]
  BY <1>0, <1>1, <1>2
<1>4. istop \in Idx => w[istop] # "lower"
  BY <1>0, <1>1, <1>2 DEF PairsAgree
<1>5. ASSUME NEW k \in Idx
      PROVE  PairAt(k)'
  <2>0. k \in Nat /\ k < n
    BY <1>1 DEF Idx
  <2>1. CASE k < istart
    <3>1. w'[k] = "unset" /\ (k + 1 \in Idx => w'[k + 1] # "lower")
      BY <1>0, <1>1, <1>2, <1>3, <2>0, <2>1
    <3> QED
      BY <1>0, <1>1, <2>0, <2>1, <3>1, PairUnset
  <2>2. CASE k = istart
    <3>1. k + 1 = istop /\ (k + 1 \in Idx => w'[k + 1] # "lower")
      BY <1>0, <1>1, <1>3, <1>4, <2>2
    <3> QED
      BY <1>0, <1>1, <1>2, <1>3, <2>2, <3>1 DEF PairAt
  <2>3. CASE k >= istop
    <3>1. istop' <= istop /\ \A l \in Idx : l >= istop => w'[l] = w[l]
      BY <1>0, <1>1, <1>2, <1>3 DEF Idx
    <3>2. k = istop => Subdiagonal(istop) \notin nz'
      BY <1>0, <2>0 DEF WindowDecoupled
    <3> QED
      BY <1>0, <2>3, <3>1, <3>2, PairBelow
  <2> QED
    BY <1>0, <1>1, <2>0, <2>1, <2>2, <2>3
<1> QED
  BY <1>2, <1>5 DEF PairsAgree, PairAt

(* The standardized block keeps exactly the entries schur22 leaves nonzero. *)
LEMMA DeflateTwoKeepsPairs ==
  ASSUME IInv, PairsAgree, FrozenBelow, WindowDecoupled, DeflateTwoSchur
  PROVE  PairsAgree'
<1> DEFINE K == {istart, istart + 1}
           low == <<istart + 1, istart>>
           high == <<istart, istart + 1>>
           zeroed(c0, b0) == (IF c0 THEN {low} ELSE {}) \union (IF b0 THEN {high} ELSE {})
<1>0. /\ pc = "deflate" /\ istart + 2 = istop /\ istop' = istart /\ n' = n /\ mode' = mode
  BY DEF DeflateTwoSchur, Deflated, call
<1>1. /\ n \in Nat /\ istop \in Nat /\ istop <= n /\ istart \in Nat
  BY <1>0, RecordedBelow
<1>2. PICK b \in schur22 :
        /\ w' = [w EXCEPT ![istart] = b.eig[1], ![istart + 1] = b.eig[2]]
        /\ Reflect((nz \union K \X K) \ zeroed(b.c0, b.b0), K,
                   IF WantT THEN istart+2..istop_m-1 ELSE {},
                   IF WantT THEN istart_m..istart-1 ELSE {}, K, K)
  BY DEF DeflateTwoSchur
<1>3. PICK S, cols, rows :
        /\ S = (nz \union K \X K) \ zeroed(b.c0, b.b0)
        /\ cols \intersect K = {} /\ \A r \in rows : r < istart
        /\ Reflect(S, K, cols, rows, K, K)
  <2>1. (IF WantT THEN istart+2..istop_m-1 ELSE {}) \intersect K = {}
    BY <1>1
  <2>2. \A r \in IF WantT THEN istart_m..istart-1 ELSE {} : r < istart
    BY <1>0, <1>1 DEF IInv, TypeOK
  <2> QED
    BY <1>2, <2>1, <2>2
<1>4. /\ low \in S <=> ~b.c0
      /\ high \in S <=> ~b.b0
  <2>1. low # high
    BY <1>1
  <2> QED
    BY <1>3, <2>1
<1>5. \A r \in K : r \notin rows /\ r \notin cols
  BY <1>1, <1>3
<1>6. \A x \in nz' : x \in S \/ x \in K \X cols \/ x \in rows \X K
  <2> HIDE DEF K
  <2> QED
    BY <1>3, ReflectSupport
<1>7. S \subseteq nz'
  <2> HIDE DEF K, zeroed
  <2> QED
    BY <1>3, ReflectKeeps
<1>8. /\ low \in nz' <=> ~b.c0
      /\ high \in nz' <=> ~b.b0
  BY <1>4, <1>5, <1>6, <1>7
<1>9. istop < n => Subdiagonal(istop) \notin nz'
  <2>1. istop < n => Subdiagonal(istop) \notin nz
    BY <1>0 DEF WindowDecoupled
  <2>2. istop \notin K /\ istop \notin rows
    BY <1>0, <1>1, <1>3
  <2> QED
    BY <1>3, <1>6, <2>1, <2>2 DEF Subdiagonal
<1>10. Subdiagonal(istart + 1) = low
  BY <1>1 DEF Subdiagonal
<1>11. /\ b.eig = RealPair \/ b.eig = ConjugatePair
       /\ b.eig[1] = "upper" => ~b.c0
       /\ ~b.c0 => \/ b.eig[2] = "lower" /\ ~b.b0
                   \/ b.eig[1] = "real" /\ b.eig[2] = "real" /\ b.b0
  BY DEF schur22, RealPair, ConjugatePair
<1>12. PICK e, f : e = b.eig[1] /\ f = b.eig[2]
  OBVIOUS
<1>13. <<e, f>> = RealPair \/ <<e, f>> = ConjugatePair
  BY <1>11, <1>12 DEF RealPair, ConjugatePair
<1>14. w' = [w EXCEPT ![istart] = e, ![istart + 1] = f]
  BY <1>2, <1>12
<1>15. e = "upper" => Subdiagonal(istart + 1) \in nz'
  BY <1>8, <1>10, <1>11, <1>12
<1>16. Subdiagonal(istart + 1) \in nz' =>
         \/ f = "lower" /\ <<istart, istart + 1>> \in nz'
         \/ e = "real" /\ f = "real" /\ <<istart, istart + 1>> \notin nz'
  BY <1>8, <1>10, <1>11, <1>12
<1> HIDE DEF K, low, high, zeroed
<1> QED
  BY ONLY IInv, PairsAgree, FrozenBelow, WindowDecoupled, <1>0, <1>9, <1>13, <1>14, <1>15, <1>16,
     PairsOfBlock

LEMMA StepKeepsPairs ==
  ASSUME IInv, Shape, Clean, PairsAgree, [Next]_vars
  PROVE  PairsAgree'
<1>0. FrozenBelow /\ WindowDecoupled
  BY StepFreezes DEF Shape
<1>1. CASE pc = "done" \/ UNCHANGED vars
  <2>1. UNCHANGED vars
    BY <1>1 DEF Next, Step, Done, Trivial, EnterLoop, GiveUp, Finish, Scan, DeflateOne,
                DeflateTwoEigvals, DeflateTwoSchur, BeginSweep, ChaseStep
  <2> QED
    BY <2>1 DEF vars, call, window, matrix, PairsAgree, Idx, Subdiagonal
<1>2. CASE DeflateOne
  BY <1>0, <1>2, DeflateOneKeepsPairs
<1>3. CASE DeflateTwoSchur
  BY <1>0, <1>3, DeflateTwoKeepsPairs
<1>4. CASE DeflateTwoEigvals
  <2>1. /\ pc = "deflate" /\ istart + 2 = istop /\ mode = "eigvals" /\ nz' = nz
        /\ istop' = istart /\ n' = n /\ mode' = mode
    BY <1>4 DEF DeflateTwoEigvals, Deflated, call, matrix
  <2>2. PICK e, f : /\ <<e, f>> = RealPair \/ <<e, f>> = ConjugatePair
                    /\ w' = [w EXCEPT ![istart] = e, ![istart + 1] = f]
    <3>1. PICK p \in eig22 : w' = [w EXCEPT ![istart] = p[1], ![istart + 1] = p[2]]
      BY <1>4 DEF DeflateTwoEigvals
    <3>2. (p = RealPair \/ p = ConjugatePair) /\ <<p[1], p[2]>> = p
      BY <3>1 DEF eig22, RealPair, ConjugatePair
    <3> QED
      BY <3>1, <3>2
  <2>3. Subdiagonal(istart + 1) \in nz'
    <3>1. istart + 1 \in istart+1..istop-1
      BY <2>1, RecordedBelow
    <3> QED
      BY <2>1, <3>1 DEF Clean, WindowUnreduced
  <2>4. istop < n => Subdiagonal(istop) \notin nz'
    BY <1>0, <2>1 DEF WindowDecoupled
  <2> QED
    BY <1>0, <2>1, <2>2, <2>3, <2>4, PairsOfBlock
<1>5. CASE Trivial
  <2>1. /\ pc = "entry" /\ n <= 1 /\ n' = n /\ mode' = mode /\ istop' = istop
        /\ w' = [k \in Idx |-> "real"]
    BY <1>5 DEF Trivial, Return, call, window
  <2>2. istop = n /\ n \in Nat
    BY <2>1 DEF IInv, Bounds, TypeOK
  <2>3. \A k \in Idx : k = 0 /\ w'[k] = "real" /\ ~(k > istop) /\ k + 1 \notin Idx
    BY <2>1, <2>2 DEF Idx
  <2> QED
    BY <2>1, <2>3 DEF PairsAgree, Idx
<1>6. CASE EnterLoop \/ GiveUp \/ Scan \/ BeginSweep \/ ChaseStep
  <2>1. pc # "done" /\ n' = n /\ mode' = mode /\ istop' = istop /\ w' = w
    BY <1>6 DEF EnterLoop, GiveUp, Scan, BeginSweep, ChaseStep, Return, window, call
  <2>2. ASSUME NEW k \in Idx
        PROVE  PairAt(k)'
    <3>0. k \in Nat /\ istop \in Nat /\ \A l \in Idx : w[l] = "unset" <=> l < istop
      BY <2>1, RecordedBelow DEF Idx
    <3>1. CASE k >= istop
      BY <1>0, <2>1, <3>0, <3>1, PairBelow
    <3>2. CASE k < istop
      <4>1. w[k] = "unset"
        BY <3>0, <3>2
      <4>2. k + 1 \in Idx => w[k + 1] # "lower"
        BY <4>1 DEF PairsAgree
      <4> QED
        BY <2>1, <3>0, <3>2, <4>1, <4>2, PairUnset
    <3> QED
      BY <3>0, <3>1, <3>2
  <2> QED
    BY <2>1, <2>2 DEF PairsAgree, PairAt, Idx
<1>7. CASE Finish
  <2>1. /\ pc = "top" /\ istart + 1 >= istop /\ n' = n /\ mode' = mode /\ istop' = istop
        /\ w' = (IF istart + 1 = istop THEN [w EXCEPT ![istart] = "real"] ELSE w)
    BY <1>7 DEF Finish, Return, call, window
  <2>2. /\ n \in Nat /\ istop \in Nat /\ istop <= n /\ istart \in Nat /\ istart = 0 /\ istop <= 1
        /\ w \in [Idx -> WKinds] /\ \A l \in Idx : w[l] = "unset" <=> l < istop
    BY <2>1, RecordedBelow DEF IInv, Bounds
  <2>3. ASSUME NEW k \in Idx
        PROVE  PairAt(k)'
    <3>0. k \in Nat
      BY <2>2 DEF Idx
    <3>1. CASE k >= istop
      <4>1. \A l \in Idx : l >= istop => w'[l] = w[l]
        BY <2>1, <2>2 DEF Idx
      <4> QED
        BY <1>0, <2>1, <2>2, <3>1, <4>1, PairBelow
    <3>2. CASE k < istop
      <4>1. k = 0 /\ istop = 1 /\ w[k] = "unset" /\ w'[k] = "real"
        BY <2>1, <2>2, <3>0, <3>2
      <4>2. k + 1 \in Idx => w'[k + 1] # "lower"
        <5>1. k + 1 \in Idx => w[k + 1] # "lower"
          BY <4>1 DEF PairsAgree
        <5> QED
          BY <2>1, <2>2, <4>1, <5>1
      <4>3. ~(k > istop') /\ Idx' = Idx
        BY <2>1, <4>1 DEF Idx
      <4> QED
        BY <4>1, <4>2, <4>3 DEF PairAt
    <3> QED
      BY <2>2, <3>0, <3>1, <3>2
  <2> QED
    BY <2>1, <2>3 DEF PairsAgree, PairAt, Idx
<1> QED
  BY <1>1, <1>2, <1>3, <1>4, <1>5, <1>6, <1>7 DEF Next, Step, Done

(***************************************************************************)
(* Every conjugate pair that is recorded is a 2x2 block of T, whatever     *)
(* sweeps come after it, and the full kernel leaves no other 2x2 block but *)
(* one with a zero above its diagonal.                                     *)
(***************************************************************************)
THEOREM PairsAgreeWithBlocks == Spec => []PairsAgree
<1>1. Init => PairsAgree
  BY DEF Init, PairsAgree, Idx
<1>2. IInv /\ Shape /\ Clean /\ PairsAgree /\ [Next]_vars => PairsAgree'
  BY StepKeepsPairs
<1> QED
  BY <1>1, <1>2, InvariantHolds, HessenbergPreserved, CleanHolds, PTL DEF Spec, Shape
=============================================================================
