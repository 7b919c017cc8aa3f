------------------------ MODULE Level1Callers_proofs ------------------------
(***************************************************************************)
(* Theorems about Level1, for arrays of every length that the address      *)
(* space admits, and about its callers JacobiSvd and Level1Callers, for    *)
(* matrices of every shape, every number of sweeps, and everything a       *)
(* measurement may find.                                                   *)
(***************************************************************************)
EXTENDS Level1Callers, TLAPS


(***************************************************************************)
(* The elements worked on are those before i.  In the body of a dot        *)
(* product their products are in lanes, after it they are in the sum.      *)
(***************************************************************************)
Prefix == \A k \in Storage : count[k] = IF k < i THEN 1 ELSE 0

Products ==
  \A k \in Storage : k < i /\ kernel.dot =>
    held[k] \in IF pc = "body" THEN 0..lanes-1 ELSE {InSum}

IInv ==
  /\ TypeOK
  /\ Prefix
  /\ Products
  /\ pc = "body" => kernel.vectors \in {1, 2}
  /\ pc = "done" => i = len

LEMMA LoopShapes ==
  ASSUME kernel \in Loops
  PROVE  /\ lanes \in 1..4 /\ kernel.vectors \in 0..2 /\ kernel.dot \in BOOLEAN
         /\ step = IF kernel.vectors = 2 THEN lanes + lanes
                   ELSE IF kernel.vectors = 1 THEN lanes ELSE 0
<1>1. /\ kernel.lanes \in {1, 2, 4} /\ kernel.vectors \in {0, 1, 2}
      /\ kernel.dot \in BOOLEAN
  <2>1. PICK v \in {0, 1, 2}, l \in {1, 2, 4} : kernel = Update(v, l) \/ kernel = Dot(v, l)
    BY DEF Loops, ScalarLoops, F64Loops, F32Loops, ReflectorLoops, HarnessLoops, JacobiLoops
  <2>2. CASE kernel = Update(v, l)
    BY <2>1, <2>2 DEF Update
  <2>3. CASE kernel = Dot(v, l)
    BY <2>1, <2>3 DEF Dot
  <2> QED
    BY <2>1, <2>2, <2>3
<1>2. lanes \in 1..4
  BY <1>1 DEF lanes
<1>3. CASE kernel.vectors = 0
  BY <1>1, <1>2, <1>3 DEF step
<1>4. CASE kernel.vectors = 1
  BY <1>1, <1>2, <1>4 DEF step
<1>5. CASE kernel.vectors = 2
  BY <1>1, <1>2, <1>5 DEF step
<1> QED
  BY <1>1, <1>2, <1>3, <1>4, <1>5

(* The vectors of a step are its elements, and no element is in both. *)
LEMMA VectorsPartitionStep ==
  ASSUME kernel \in Loops, kernel.vectors \in {1, 2}, i \in Nat, NEW k \in Nat
  PROVE  /\ (k \in First \union Second) <=> (i <= k /\ k < i + step)
         /\ ~(k \in First /\ k \in Second)
         /\ Worked(k) = IF i <= k /\ k < i + step THEN 1 ELSE 0
         /\ k \in First \union Second => Lane(k) \in 0..lanes-1
<1>1. (k \in First \union Second) <=> (i <= k /\ k < i + step)
  BY LoopShapes DEF First, Second
<1>2. ~(k \in First /\ k \in Second)
  BY LoopShapes DEF First, Second
<1>3. k \in First \union Second => Lane(k) \in 0..lanes-1
  BY LoopShapes DEF First, Second, Lane
<1>4. Worked(k) = IF i <= k /\ k < i + step THEN 1 ELSE 0
  BY <1>1, <1>2 DEF Worked, Once
<1> QED
  BY <1>1, <1>2, <1>3, <1>4

(* The bound of the body does not wrap. *)
LEMMA FullStepFits ==
  ASSUME TypeOK, FullStep
  PROVE  i + step <= len
<1>1. i \in Nat /\ len \in Nat /\ i <= len /\ len <= MaxLen /\ step \in 0..8
  BY LoopShapes, WordAssumption DEF TypeOK
<1>2. i + step < Word /\ i + step \in Nat /\ Word \in Nat
  BY <1>1, WordAssumption
<1>3. (i + step) % Word = i + step
  BY <1>2
<1> QED
  BY <1>3 DEF FullStep

(* A loop that has just been entered. *)
LEMMA EntryIInv ==
  ASSUME kernel \in Loops, len \in 0..MaxLen, pc = Entry(kernel), i = 0,
         count = [k \in Storage |-> 0], held = [k \in Storage |-> Nowhere]
  PROVE  IInv
<1>1. kernel.vectors # 0 => kernel.vectors \in {1, 2}
  BY LoopShapes
<1>2. pc \in {"body", "tail"} /\ (pc = "body" => kernel.vectors # 0)
  BY DEF Entry
<1> QED
  BY <1>1, <1>2, WordAssumption DEF IInv, TypeOK, Prefix, Products, Storage, Nowhere

LEMMA InitIInv == Init => IInv
  BY EntryIInv DEF Init

LEMMA StepKeeps == IInv /\ Step => IInv'
<1> SUFFICES ASSUME IInv, Step PROVE IInv'
  OBVIOUS
<1>0. /\ kernel \in Loops /\ MaxLen \in Nat /\ len \in Nat /\ len <= MaxLen
      /\ i \in Nat /\ i <= len /\ lanes \in 1..4 /\ kernel.dot \in BOOLEAN
      /\ count \in [Storage -> 0..2] /\ held \in [Storage -> -2..3]
      /\ Storage = 0..MaxLen+8
  BY LoopShapes, WordAssumption DEF IInv, TypeOK, Storage
<1>1. CASE Body
  <2>1. i + step <= len /\ step \in Nat /\ kernel.vectors \in {1, 2}
    BY <1>1, FullStepFits, LoopShapes DEF Body, IInv, TypeOK
  <2>2. ASSUME NEW k \in Storage
        PROVE  /\ Worked(k) = IF i <= k /\ k < i + step THEN 1 ELSE 0
               /\ (k \in First \union Second) <=> (i <= k /\ k < i + step)
               /\ k \in First \union Second => Lane(k) \in 0..lanes-1
    BY <1>0, <2>1, VectorsPartitionStep
  <2>3. Prefix'
    BY <1>0, <1>1, <2>1, <2>2 DEF Body, IInv, Prefix, Storage
  <2>4. ASSUME NEW k \in Storage
        PROVE  /\ held'[k] \in -2..3
               /\ k < i + step /\ kernel.dot => held'[k] \in 0..lanes-1
    BY <1>0, <1>1, <2>1, <2>2 DEF Body, IInv, Products
  <2>5. Products'
    BY <1>0, <1>1, <2>1, <2>4 DEF Body, Products, lanes, Storage
  <2>6. TypeOK'
    <3>1. count' \in [Storage -> 0..2]
      BY <1>0, <1>1, <2>1, <2>2 DEF Body, IInv, Prefix
    <3>2. held' \in [Storage -> -2..3]
      BY <1>0, <1>1, <2>4 DEF Body
    <3> QED
      BY <1>0, <1>1, <2>1, <3>1, <3>2 DEF Body, TypeOK, Storage
  <2> QED
    BY <1>1, <2>1, <2>3, <2>5, <2>6 DEF Body, IInv
<1>2. CASE BodyEnds
  <2>1. ASSUME NEW k \in Storage
        PROVE  /\ held'[k] \in -2..3
               /\ k < i /\ kernel.dot => held'[k] = InSum
    BY <1>0, <1>2 DEF BodyEnds, IInv, Products, Extracted, InSum
  <2> QED
    BY <1>0, <1>2, <2>1 DEF BodyEnds, IInv, TypeOK, Prefix, Products, Storage
<1>3. CASE TailStep
  <2>1. i + 1 <= len /\ i \in Storage /\ pc = "tail" /\ pc' = "tail"
    BY <1>0, <1>3 DEF TailStep
  <2>2. Prefix'
    BY <1>0, <1>3, <2>1 DEF TailStep, IInv, Prefix, Storage
  <2>3. Products'
    BY <1>0, <1>3, <2>1 DEF TailStep, IInv, Products, Storage
  <2>4. TypeOK'
    BY <1>0, <1>3, <2>1 DEF TailStep, IInv, Prefix, TypeOK, Storage, InSum
  <2> QED
    BY <1>3, <2>2, <2>3, <2>4 DEF TailStep, IInv
<1>4. CASE TailEnds
  BY <1>0, <1>4 DEF TailEnds, IInv, TypeOK, Prefix, Products, Storage
<1> QED
  BY <1>1, <1>2, <1>3, <1>4 DEF Step

LEMMA StepKeepsLength == Step => len' = len
  BY DEF Step, Body, BodyEnds, TailStep, TailEnds

LEMMA StutterKeeps == IInv /\ UNCHANGED vars => IInv'
  BY DEF vars, IInv, TypeOK, Prefix, Products, Storage, lanes

LEMMA StepIInv == IInv /\ [Next]_vars => IInv'
  BY StepKeeps, StutterKeeps DEF Next, Done

(* A call by another module, and what it finds when the loop is done. *)
LEMMA CallIInv ==
  ASSUME NEW loop \in Loops, NEW length \in 0..MaxLen, CallLoop(loop, length)
  PROVE  IInv'
<1>1. loop.vectors \in 0..2
  BY DEF Loops, ScalarLoops, F64Loops, F32Loops, ReflectorLoops, HarnessLoops, JacobiLoops,
         Update, Dot
<1>2. /\ kernel' = loop /\ len' = length /\ i' = 0 /\ pc' = Entry(loop)
      /\ count' = [k \in Storage |-> 0] /\ held' = [k \in Storage |-> Nowhere]
  BY DEF CallLoop
<1>3. pc' \in {"body", "tail"} /\ (pc' = "body" => loop.vectors # 0)
  BY <1>2 DEF Entry
<1> QED
  BY <1>1, <1>2, <1>3, WordAssumption DEF IInv, TypeOK, Prefix, Products, Storage, Nowhere

LEMMA DoneCounts ==
  ASSUME IInv, pc = "done"
  PROVE  \A k \in Storage : count[k] = IF k < len THEN 1 ELSE 0
  BY DEF IInv, Prefix

THEOREM InvariantHolds == Spec => []IInv
  BY InitIInv, StepIInv, PTL DEF Spec

(* Every variable stays in its range. *)
THEOREM TypeCorrect == Spec => []TypeOK
<1>1. IInv => TypeOK
  BY DEF IInv
<1> QED
  BY <1>1, InvariantHolds, PTL

(***************************************************************************)
(* Body and tail work on every element of an array of any length once, and *)
(* on nothing behind it; a dot product of any length is the sum of all its *)
(* products.                                                               *)
(***************************************************************************)
THEOREM WorksOnEachOnce == Spec => []EachElementOnce
<1>1. IInv => EachElementOnce
  BY WordAssumption DEF IInv, TypeOK, Prefix, Products, EachElementOnce, Storage
<1> QED
  BY <1>1, InvariantHolds, PTL

-----------------------------------------------------------------------------
(* The Jacobi SVD and the composition. *)
InPair == phase \in {"measured", "rotate_a", "rotate_v"}

(***************************************************************************)
(* Where the sweep is.  A further sweep is begun only after one in which a *)
(* pair was above the tolerance.                                           *)
(***************************************************************************)
SweepPosition ==
  /\ n <= m
  /\ phase = "sweep" => sweeps = 0 \/ over
  /\ phase = "pair" => p <= n /\ q >= p + 1 /\ q <= n + 1 /\ (p < n => q <= n)
  /\ InPair => p < q /\ q < n
  /\ phase \in {"norm", "normed", "scale"} => q <= n
  /\ phase \in {"normed", "scale"} => q < n

(* The loop that has been called is over all rows. *)
CalledLength ==
  /\ phase \in {"rotate_a", "scale"} => len = m
  /\ phase = "rotate_v" => len = n

(* The pairs the sweep is through with. *)
Visited(x) ==
  \/ x[1] < p
  \/ x[1] = p /\ x[2] < q
  \/ phase \in {"rotate_a", "rotate_v"} /\ x = <<p, q>>

(***************************************************************************)
(* As long as nothing above the tolerance was found, the pairs visited are *)
(* good.  A rotation spoils the pairs of both columns, but then something  *)
(* was above the tolerance, or both columns have met a NaN.                *)
(***************************************************************************)
VisitedAreGood ==
  /\ phase \in {"pair", "measured", "rotate_a", "rotate_v"} /\ ~over =>
       \A x \in Pairs : Visited(x) => OrthogonalInRange(x)
  /\ phase \in {"norm", "normed", "scale", "returned"} /\ Converged =>
       \A x \in Pairs : OrthogonalInRange(x)

SweepInv ==
  /\ JacobiTypeOK /\ phase # "off"
  /\ IInv
  /\ SweepPosition /\ CalledLength
  /\ VisitedAreGood
  /\ missed = {}

LEMMA JacobiSizes ==
  ASSUME JacobiTypeOK
  PROVE  /\ m \in 0..MaxLen /\ n \in Nat /\ p \in Nat /\ q \in Nat
         /\ sweeps \in Nat /\ max_sweeps \in Nat /\ sweeps <= max_sweeps /\ over \in BOOLEAN
  BY SizeAssumption, WordAssumption DEF JacobiTypeOK

(* The loops the SVD calls are loops of Level1. *)
LEMMA JacobiCalls == Update(0, 1) \in Loops /\ Dot(0, 1) \in Loops
  BY DEF Loops, JacobiLoops

(* A loop that is done has treated the rows of its length. *)
LEMMA NothingUntreated ==
  ASSUME IInv, pc = "done", NEW matrix, NEW columns
  PROVE  Untreated(matrix, len, columns) = {}
<1>1. {k \in Storage : count[k] # IF k < len THEN 1 ELSE 0} = {}
  BY DoneCounts
<1> QED
  BY <1>1 DEF Untreated

LEMMA JacobiInitInv == JacobiInit => SweepInv
<1> SUFFICES ASSUME JacobiInit PROVE SweepInv
  OBVIOUS
<1>1. IInv
  BY JacobiCalls, WordAssumption
     DEF JacobiInit, IInv, TypeOK, Prefix, Products, Storage, Nowhere
<1>0. /\ m \in 0..MaxRows /\ n \in 0..MaxCols /\ max_sweeps \in 0..MaxSweeps
      /\ phase = "sweep" /\ sweeps = 0 /\ p = 0 /\ q = 0
      /\ orthogonal = {} /\ unmeasured = {} /\ unknown = {}
  BY DEF JacobiInit
<1>b. over \in BOOLEAN
  BY Zenon DEF JacobiInit
<1>2. JacobiTypeOK
  BY <1>0, <1>b, SizeAssumption DEF JacobiTypeOK
<1>3. SweepPosition /\ CalledLength /\ VisitedAreGood
  BY <1>2, JacobiSizes DEF JacobiInit, SweepPosition, InPair, CalledLength, VisitedAreGood
<1> QED
  BY <1>1, <1>2, <1>3 DEF JacobiInit, SweepInv

(* A call leaves the loop at its beginning. *)
LEMMA JacobiCallInv ==
  ASSUME NEW loop \in {Update(0, 1), Dot(0, 1)}, NEW rows \in {m, n}, n <= m, JacobiTypeOK,
         CallLoop(loop, rows)
  PROVE  IInv' /\ len' = rows
<1>1. loop \in Loops /\ rows \in 0..MaxLen
  BY JacobiCalls, JacobiSizes, WordAssumption
<1> QED
  BY <1>1, CallIInv DEF CallLoop

(* The steps of the loops leave the sweep where it is. *)
LEMMA LoopStepInv == SweepInv /\ (Step \/ UNCHANGED vars) /\ UNCHANGED jacobi => SweepInv'
<1> SUFFICES ASSUME SweepInv, Step \/ UNCHANGED vars, UNCHANGED jacobi PROVE SweepInv'
  OBVIOUS
<1>1. IInv' /\ len' = len
  BY StepKeeps, StutterKeeps, StepKeepsLength DEF SweepInv, vars
<1>2. /\ m' = m /\ n' = n /\ max_sweeps' = max_sweeps /\ phase' = phase /\ sweeps' = sweeps
      /\ p' = p /\ q' = q /\ over' = over
      /\ orthogonal' = orthogonal /\ unmeasured' = unmeasured
      /\ unknown' = unknown /\ missed' = missed
  BY DEF jacobi, size, known
<1>3. JacobiTypeOK' /\ SweepPosition' /\ CalledLength'
  BY <1>1, <1>2 DEF SweepInv, JacobiTypeOK, SweepPosition, InPair, CalledLength, Pairs
<1>4. VisitedAreGood'
  BY <1>2 DEF SweepInv, VisitedAreGood, Visited, OrthogonalInRange, Converged, Pairs
<1> QED
  BY <1>1, <1>2, <1>3, <1>4 DEF SweepInv

LEMMA JacobiStepInv == SweepInv /\ JacobiNext => SweepInv'
<1> SUFFICES ASSUME SweepInv, JacobiNext PROVE SweepInv'
  OBVIOUS
<1>0. /\ JacobiTypeOK /\ phase # "off" /\ IInv /\ SweepPosition /\ CalledLength
      /\ VisitedAreGood /\ missed = {}
  BY DEF SweepInv
<1>z. /\ m \in Nat /\ n \in Nat /\ p \in Nat /\ q \in Nat /\ n <= m
      /\ sweeps \in Nat /\ max_sweeps \in Nat /\ sweeps <= max_sweeps /\ over \in BOOLEAN
  BY <1>0, JacobiSizes, WordAssumption DEF SweepPosition
<1>p. \A x \in Pairs : x[1] \in Nat /\ x[2] \in Nat /\ x[1] < x[2] /\ x[2] < n
                       /\ x = <<x[1], x[2]>>
  BY <1>z DEF Pairs
<1>n. n' = n => Pairs' = Pairs
  BY DEF Pairs
<1>1. CASE BeginSweep
  <2>b. over' \in BOOLEAN
    BY <1>1, Zenon DEF BeginSweep
  <2>1. /\ phase = "sweep" /\ phase' = "pair" /\ sweeps' = sweeps + 1 /\ sweeps < max_sweeps
        /\ over' = FALSE /\ p' = 0 /\ q' = 1
        /\ UNCHANGED vars /\ UNCHANGED <<m, n, max_sweeps, orthogonal, unmeasured, unknown, missed>>
    BY <1>1 DEF BeginSweep, size, known
  <2>2. IInv'
    BY <1>0, <2>1, StutterKeeps
  <2>3. JacobiTypeOK'
    <3>1. /\ phase' = "pair" /\ sweeps' = sweeps + 1 /\ sweeps < max_sweeps
          /\ p' = 0 /\ q' = 1
          /\ UNCHANGED <<m, n, max_sweeps, orthogonal, unmeasured, unknown, missed>>
      BY <2>1
    <3> QED
      BY <1>0, <1>z, <1>n, <2>b, <3>1 DEF JacobiTypeOK
  <2>4. SweepPosition' /\ CalledLength'
    BY <1>z, <2>1 DEF SweepPosition, InPair, CalledLength
  <2>5. \A x \in Pairs : ~Visited(x)'
    BY <1>p, <2>1 DEF Visited
  <2>6. VisitedAreGood'
    BY <2>1, <2>5 DEF VisitedAreGood, Pairs
  <2> QED
    BY <1>0, <2>1, <2>2, <2>3, <2>4, <2>6 DEF SweepInv
<1>2. CASE LimitReached
  <2>1. /\ phase = "sweep" /\ phase' = "norm" /\ sweeps = max_sweeps /\ q' = 0
        /\ UNCHANGED vars
        /\ UNCHANGED <<m, n, max_sweeps, sweeps, p, over, orthogonal, unmeasured, unknown, missed>>
    BY <1>2 DEF LimitReached, size, known
  <2>2. IInv'
    BY <1>0, <2>1, StutterKeeps
  <2>3. JacobiTypeOK'
    BY <1>0, <1>z, <1>n, <2>1 DEF JacobiTypeOK
  <2>4. SweepPosition' /\ CalledLength'
    BY <1>z, <2>1 DEF SweepPosition, InPair, CalledLength
  <2>5. ~Converged'
    BY <1>0, <1>z, <2>1 DEF Converged, SweepPosition
  <2>6. VisitedAreGood'
    BY <2>1, <2>5 DEF VisitedAreGood
  <2> QED
    BY <1>0, <2>1, <2>2, <2>3, <2>4, <2>6 DEF SweepInv
<1>3. CASE Measure
  <2>1. /\ phase = "pair" /\ phase' = "measured" /\ p < n /\ q < n /\ CallLoop(Dot(0, 1), m)
        /\ UNCHANGED <<m, n, max_sweeps, sweeps, p, q, over, orthogonal, unmeasured, unknown, missed>>
    BY <1>3 DEF Measure, size, known
  <2>2. IInv'
    BY <1>0, <1>z, <2>1, JacobiCallInv
  <2>3. JacobiTypeOK'
    BY <1>0, <2>1 DEF JacobiTypeOK, Pairs
  <2>4. SweepPosition' /\ CalledLength'
    BY <1>0, <1>z, <2>1 DEF SweepPosition, InPair, CalledLength
  <2>5. VisitedAreGood'
    BY <1>0, <2>1 DEF VisitedAreGood, Visited, OrthogonalInRange, Pairs
  <2> QED
    BY <1>0, <2>1, <2>2, <2>3, <2>4, <2>5 DEF SweepInv
<1>4. CASE NextRow
  <2>1. /\ phase = "pair" /\ phase' = "pair" /\ p < n /\ q >= n /\ p' = p + 1 /\ q' = p + 2
        /\ UNCHANGED vars
        /\ UNCHANGED <<m, n, max_sweeps, sweeps, over, orthogonal, unmeasured, unknown, missed>>
    BY <1>4 DEF NextRow, size, known
  <2>2. IInv'
    BY <1>0, <2>1, StutterKeeps
  <2>3. JacobiTypeOK'
    BY <1>0, <1>z, <1>n, <2>1 DEF JacobiTypeOK
  <2>4. SweepPosition' /\ CalledLength'
    BY <1>0, <1>z, <2>1 DEF SweepPosition, InPair, CalledLength
  <2>5. \A x \in Pairs : Visited(x)' => Visited(x)
    BY <1>p, <1>z, <2>1 DEF Visited
  <2>6. VisitedAreGood'
    BY <1>0, <2>1, <2>5 DEF VisitedAreGood, OrthogonalInRange, Pairs
  <2> QED
    BY <1>0, <2>1, <2>2, <2>3, <2>4, <2>6 DEF SweepInv
<1>5. CASE SkipPair \/ WithinTol
  <2>1. /\ phase = "measured" /\ phase' = "pair" /\ over' = over /\ q' = q + 1
        /\ UNCHANGED vars /\ UNCHANGED <<m, n, max_sweeps, sweeps, p, unknown, missed>>
    BY <1>5, <1>z DEF SkipPair, WithinTol, Leave, Collected, size
  <2>l. /\ orthogonal' \subseteq orthogonal \union {<<p, q>>}
        /\ unmeasured' \subseteq unmeasured \union {<<p, q>>}
        /\ orthogonal \union unmeasured \union {<<p, q>>} \subseteq orthogonal' \union unmeasured'
    BY <1>5 DEF SkipPair, WithinTol, Leave
  <2>0. p < q /\ q < n
    BY <1>0, <2>1 DEF SweepPosition, InPair
  <2>2. IInv'
    BY <1>0, <2>1, StutterKeeps
  <2>3. JacobiTypeOK'
    <3>1. <<p, q>> \in Pairs
      BY <1>z, <2>0 DEF Pairs
    <3>2. Pairs' = Pairs
      BY <1>n, <2>1
    <3>3. (orthogonal \subseteq Pairs /\ unmeasured \subseteq Pairs)'
      BY <1>0, <2>l, <3>1, <3>2 DEF JacobiTypeOK
    <3> QED
      BY <1>0, <1>z, <2>0, <2>1, <3>3 DEF JacobiTypeOK
  <2>4. SweepPosition' /\ CalledLength'
    BY <1>z, <2>0, <2>1 DEF SweepPosition, InPair, CalledLength
  <2>5. \A x \in Pairs : Visited(x)' => Visited(x) \/ x = <<p, q>>
    BY <1>p, <1>z, <2>1 DEF Visited
  <2>6. \A x \in Pairs : /\ OrthogonalInRange(x) => OrthogonalInRange(x)'
                         /\ x = <<p, q>> => OrthogonalInRange(x)'
    BY <2>1, <2>l DEF OrthogonalInRange
  <2>7. VisitedAreGood'
    BY <1>0, <2>1, <2>5, <2>6 DEF VisitedAreGood, Pairs
  <2> QED
    BY <1>0, <2>1, <2>2, <2>3, <2>4, <2>7 DEF SweepInv
<1>6. CASE RotateA
  <2>1. /\ phase = "measured" /\ phase' = "rotate_a" /\ CallLoop(Update(0, 1), m)
        /\ \/ over' = TRUE /\ unknown' = unknown
           \/ over' = over /\ unknown' = unknown \union {p, q}
        /\ orthogonal' = orthogonal \ (Touching(p) \union Touching(q))
        /\ unmeasured' = unmeasured \ (Touching(p) \union Touching(q))
        /\ UNCHANGED <<m, n, max_sweeps, sweeps, p, q, missed>>
    BY <1>6, <1>z DEF RotateA, Collected, size
  <2>0. p < q /\ q < n
    BY <1>0, <2>1 DEF SweepPosition, InPair
  <2>2. IInv' /\ len' = m
    BY <1>0, <1>z, <2>1, JacobiCallInv
  <2>b. over' \in BOOLEAN
    BY <1>6, <1>z, Zenon DEF RotateA, Collected
  <2>3. JacobiTypeOK'
    <3>1. /\ phase' = "rotate_a" /\ unknown' \subseteq unknown \union {p, q}
          /\ orthogonal' \subseteq orthogonal /\ unmeasured' \subseteq unmeasured
          /\ UNCHANGED <<m, n, max_sweeps, sweeps, p, q, missed>>
      BY <2>1
    <3> QED
      BY <1>0, <1>z, <1>n, <2>0, <2>b, <3>1 DEF JacobiTypeOK
  <2>4. SweepPosition' /\ CalledLength'
    BY <1>z, <2>0, <2>1, <2>2 DEF SweepPosition, InPair, CalledLength
  <2>5. ASSUME ~over', NEW x \in Pairs, Visited(x)'
        PROVE  OrthogonalInRange(x)'
    <3>1. ~over /\ unknown' = unknown \union {p, q}
      BY <2>1, <2>5
    <3>2. Visited(x) \/ x = <<p, q>>
      BY <2>1, <2>5 DEF Visited
    <3>3. /\ x \in orthogonal => x \in orthogonal' \/ x[1] \in {p, q} \/ x[2] \in {p, q}
          /\ x \in unmeasured => x \in unmeasured' \/ x[1] \in {p, q} \/ x[2] \in {p, q}
      BY <2>1 DEF Touching
    <3>4. CASE Visited(x)
      <4>1. OrthogonalInRange(x)
        BY <1>0, <2>1, <3>1, <3>4 DEF VisitedAreGood
      <4> QED
        BY <3>1, <3>3, <4>1 DEF OrthogonalInRange
    <3>5. CASE x = <<p, q>>
      BY <3>1, <3>5 DEF OrthogonalInRange
    <3> QED
      BY <3>2, <3>4, <3>5
  <2>6. VisitedAreGood'
    BY <2>1, <2>5 DEF VisitedAreGood, Pairs
  <2> QED
    BY <1>0, <2>1, <2>2, <2>3, <2>4, <2>6 DEF SweepInv
<1>7. CASE RotateV
  <2>1. /\ phase = "rotate_a" /\ phase' = "rotate_v" /\ CallLoop(Update(0, 1), n) /\ pc = "done"
        /\ missed' = missed \union Untreated("A", m, {p, q})
        /\ UNCHANGED <<m, n, max_sweeps, sweeps, p, q, over, orthogonal, unmeasured, unknown>>
    BY <1>7 DEF RotateV, size
  <2>0. missed' = {}
    BY <1>0, <2>1, NothingUntreated DEF CalledLength
  <2>2. IInv' /\ len' = n
    BY <1>0, <1>z, <2>1, JacobiCallInv
  <2>3. JacobiTypeOK'
    BY <1>0, <2>1 DEF JacobiTypeOK, Pairs
  <2>4. SweepPosition' /\ CalledLength'
    BY <1>0, <1>z, <2>1, <2>2 DEF SweepPosition, InPair, CalledLength
  <2>5. VisitedAreGood'
    BY <1>0, <2>1 DEF VisitedAreGood, Visited, OrthogonalInRange, Pairs
  <2> QED
    BY <2>0, <2>1, <2>2, <2>3, <2>4, <2>5 DEF SweepInv
<1>8. CASE Rotated
  <2>1. /\ phase = "rotate_v" /\ phase' = "pair" /\ pc = "done" /\ q' = q + 1
        /\ missed' = missed \union Untreated("V", n, {p, q})
        /\ UNCHANGED vars
        /\ UNCHANGED <<m, n, max_sweeps, sweeps, p, over, orthogonal, unmeasured, unknown>>
    BY <1>8 DEF Rotated, size
  <2>0. missed' = {}
    BY <1>0, <2>1, NothingUntreated DEF CalledLength
  <2>a. p < q /\ q < n
    BY <1>0, <2>1 DEF SweepPosition, InPair
  <2>2. IInv'
    BY <1>0, <2>1, StutterKeeps
  <2>3. JacobiTypeOK'
    BY <1>0, <1>z, <2>a, <2>1 DEF JacobiTypeOK, Pairs
  <2>4. SweepPosition' /\ CalledLength'
    BY <1>z, <2>a, <2>1 DEF SweepPosition, InPair, CalledLength
  <2>5. \A x \in Pairs : Visited(x)' => Visited(x)
    BY <1>p, <1>z, <2>1 DEF Visited
  <2>6. VisitedAreGood'
    BY <1>0, <2>1, <2>5 DEF VisitedAreGood, OrthogonalInRange, Pairs
  <2> QED
    BY <2>0, <2>1, <2>2, <2>3, <2>4, <2>6 DEF SweepInv
<1>9. CASE EndSweep
  <2>1. /\ phase = "pair" /\ p = n
        /\ IF over THEN phase' = "sweep" /\ q' = q ELSE phase' = "norm" /\ q' = 0
        /\ UNCHANGED vars
        /\ UNCHANGED <<m, n, max_sweeps, sweeps, p, over, orthogonal, unmeasured, unknown, missed>>
    BY <1>9 DEF EndSweep, size, known
  <2>2. IInv'
    BY <1>0, <2>1, StutterKeeps
  <2>3. JacobiTypeOK'
    BY <1>0, <1>z, <1>n, <2>1 DEF JacobiTypeOK
  <2>4. SweepPosition' /\ CalledLength'
    BY <1>z, <2>1 DEF SweepPosition, InPair, CalledLength
  <2>5. \A x \in Pairs : Visited(x)
    BY <1>p, <1>z, <2>1 DEF Visited
  <2>6. VisitedAreGood'
    BY <1>0, <2>1, <2>5 DEF VisitedAreGood, OrthogonalInRange, Pairs
  <2> QED
    BY <1>0, <2>1, <2>2, <2>3, <2>4, <2>6 DEF SweepInv
<1>10. CASE Norm
  <2>1. /\ phase = "norm" /\ phase' = "normed" /\ q < n /\ CallLoop(Dot(0, 1), m)
        /\ UNCHANGED <<m, n, max_sweeps, sweeps, p, q, over, orthogonal, unmeasured, unknown, missed>>
    BY <1>10 DEF Norm, size, known
  <2>2. IInv'
    BY <1>0, <1>z, <2>1, JacobiCallInv
  <2>3. JacobiTypeOK' /\ SweepPosition' /\ CalledLength'
    BY <1>0, <1>z, <2>1 DEF JacobiTypeOK, Pairs, SweepPosition, InPair, CalledLength
  <2>4. VisitedAreGood'
    BY <1>0, <2>1 DEF VisitedAreGood, OrthogonalInRange, Converged, Pairs
  <2> QED
    BY <1>0, <2>1, <2>2, <2>3, <2>4 DEF SweepInv
<1>11. CASE ZeroColumn
  <2>1. /\ phase = "normed" /\ phase' = "norm" /\ q' = q + 1 /\ UNCHANGED vars
        /\ UNCHANGED <<m, n, max_sweeps, sweeps, p, over, orthogonal, unmeasured, unknown, missed>>
    BY <1>11 DEF ZeroColumn, size, known
  <2>2. IInv'
    BY <1>0, <2>1, StutterKeeps
  <2>3. JacobiTypeOK' /\ SweepPosition' /\ CalledLength'
    BY <1>0, <1>z, <2>1 DEF JacobiTypeOK, Pairs, SweepPosition, InPair, CalledLength
  <2>4. VisitedAreGood'
    BY <1>0, <2>1 DEF VisitedAreGood, OrthogonalInRange, Converged, Pairs
  <2> QED
    BY <1>0, <2>1, <2>2, <2>3, <2>4 DEF SweepInv
<1>12. CASE Scale
  <2>1. /\ phase = "normed" /\ phase' = "scale" /\ CallLoop(Update(0, 1), m)
        /\ UNCHANGED <<m, n, max_sweeps, sweeps, p, q, over, orthogonal, unmeasured, unknown, missed>>
    BY <1>12 DEF Scale, size, known
  <2>2. IInv' /\ len' = m
    BY <1>0, <1>z, <2>1, JacobiCallInv
  <2>3. JacobiTypeOK' /\ SweepPosition' /\ CalledLength'
    BY <1>0, <1>z, <2>1, <2>2 DEF JacobiTypeOK, Pairs, SweepPosition, InPair, CalledLength
  <2>4. VisitedAreGood'
    BY <1>0, <2>1 DEF VisitedAreGood, OrthogonalInRange, Converged, Pairs
  <2> QED
    BY <1>0, <2>1, <2>2, <2>3, <2>4 DEF SweepInv
<1>13. CASE Scaled
  <2>1. /\ phase = "scale" /\ phase' = "norm" /\ pc = "done" /\ q' = q + 1 /\ UNCHANGED vars
        /\ missed' = missed \union Untreated("A", m, {q})
        /\ UNCHANGED <<m, n, max_sweeps, sweeps, p, over, orthogonal, unmeasured, unknown>>
    BY <1>13 DEF Scaled, size
  <2>0. missed' = {}
    BY <1>0, <2>1, NothingUntreated DEF CalledLength
  <2>2. IInv'
    BY <1>0, <2>1, StutterKeeps
  <2>3. JacobiTypeOK' /\ SweepPosition' /\ CalledLength'
    BY <1>0, <1>z, <2>1 DEF JacobiTypeOK, Pairs, SweepPosition, InPair, CalledLength
  <2>4. VisitedAreGood'
    BY <1>0, <2>1 DEF VisitedAreGood, OrthogonalInRange, Converged, Pairs
  <2> QED
    BY <2>0, <2>1, <2>2, <2>3, <2>4 DEF SweepInv
<1>14. CASE JacobiReturns
  <2>1. /\ phase = "norm" /\ phase' = "returned" /\ q = n /\ UNCHANGED vars
        /\ UNCHANGED <<m, n, max_sweeps, sweeps, p, q, over, orthogonal, unmeasured, unknown, missed>>
    BY <1>14 DEF JacobiReturns, size, known
  <2>2. IInv'
    BY <1>0, <2>1, StutterKeeps
  <2>3. JacobiTypeOK' /\ SweepPosition' /\ CalledLength'
    BY <1>0, <1>z, <2>1 DEF JacobiTypeOK, Pairs, SweepPosition, InPair, CalledLength
  <2>4. VisitedAreGood'
    BY <1>0, <2>1 DEF VisitedAreGood, OrthogonalInRange, Converged, Pairs
  <2> QED
    BY <1>0, <2>1, <2>2, <2>3, <2>4 DEF SweepInv
<1> QED
  BY <1>1, <1>2, <1>3, <1>4, <1>5, <1>6, <1>7, <1>8, <1>9, <1>10, <1>11, <1>12, <1>13, <1>14
     DEF JacobiNext

THEOREM SweepInvariantHolds == JacobiSpec => []SweepInv
<1>1. SweepInv /\ [JacobiNext \/ (Step /\ UNCHANGED jacobi)]_<<vars, jacobi>> => SweepInv'
  BY JacobiStepInv, LoopStepInv
<1> QED
  BY <1>1, JacobiInitInv, PTL DEF JacobiSpec

(* Every variable of the SVD stays in its range. *)
THEOREM JacobiTypeCorrect == JacobiSpec => []JacobiTypeOK
<1>1. SweepInv => JacobiTypeOK
  BY DEF SweepInv
<1> QED
  BY <1>1, SweepInvariantHolds, PTL

(***************************************************************************)
(* For matrices of every shape: fewer sweeps than allowed, or a last sweep *)
(* that found nothing, mean columns that are orthogonal wherever their     *)
(* products have stayed in range; and every rotation and scaling has       *)
(* reached all rows.                                                       *)
(***************************************************************************)
THEOREM ConvergenceIsGenuine == JacobiSpec => []ConvergedMeansOrthogonal
<1>1. SweepInv => ConvergedMeansOrthogonal
  BY DEF SweepInv, VisitedAreGood, OrthogonalInRange, ConvergedMeansOrthogonal
<1> QED
  BY <1>1, SweepInvariantHolds, PTL

-----------------------------------------------------------------------------
(***************************************************************************)
(* StreamingBlas.  Due(x) are the columns whose products entry x is owed,  *)
(* Made(x) those it has had: all in the columns of the result done before, *)
(* and in the present one those of the calls made so far.                  *)
(***************************************************************************)
TurnOf(s) == IF op \in Solves THEN order - 1 - s ELSE s

Due(x) == IF op = "ger" THEN {0} ELSE Inner(x)

Product(x, s) ==
  <<IF op \in Solves THEN -1 ELSE 1, <<x[1], s>>, IF op \in {"ger", "syrk"} THEN <<x[2], s>> ELSE <<s, x[2]>>>>

MadeBy(x, c, t) == {s \in Due(x) : x[2] < c \/ (x[2] = c /\ TurnOf(s) < t)}
Made(x) == MadeBy(x, col, turn)

(* A solve divides an entry before the call that streams its column. *)
DividedBy(x, c, t) == op \in Solves /\ (x[2] < c \/ (x[2] = c /\ TurnOf(x[1]) < t))
Divided(x) == DividedBy(x, col, IF stage \in {"divided", "axpy"} THEN turn + 1 ELSE turn)

BlasPosition ==
  stage # "off" =>
    /\ op \in Ops /\ fused \in BOOLEAN /\ order \in 1..MaxOrder
    /\ stage \in {"loop", "divided", "axpy", "returned"}
    /\ col \in 0..Cols /\ turn \in 0..Turns
    /\ stage \in {"divided", "axpy"} => col < Cols /\ turn < Turns
    /\ stage = "divided" => op \in Solves
    /\ stage = "axpy" => len = Length
    /\ stage = "returned" => col = Cols

BlasSums ==
  stage # "off" =>
    /\ terms = [x \in Result |-> SetToBag({Product(x, s) : s \in Made(x)})]
    /\ divided = {x \in Result : Divided(x)}

LEMMA BlasSizes ==
  ASSUME stage # "off", BlasPosition
  PROVE  /\ order \in Nat /\ order >= 1 /\ order <= MaxLen
         /\ Cols \in {1, order} /\ Turns \in {1, order}
         /\ col \in Nat /\ turn \in Nat /\ col <= Cols /\ turn <= Turns
         /\ \A s : s \in Idx <=> s \in Int /\ 0 <= s /\ s < order
         /\ \A x \in Result : x[1] \in Int /\ 0 <= x[1] /\ x[1] < order
                              /\ x[2] \in Int /\ 0 <= x[2] /\ x[2] < Cols
<1>1. order \in Nat /\ order >= 1 /\ order <= MaxLen
  BY MaxOrderAssumption, WordAssumption DEF BlasPosition
<1>2. Cols \in {1, order} /\ Turns \in {1, order} /\ Cols \in Int /\ Turns \in Int
  BY <1>1 DEF Cols, Turns
<1>3. col \in Nat /\ turn \in Nat /\ col <= Cols /\ turn <= Turns
  BY <1>2 DEF BlasPosition
<1>4. \A s : s \in Idx <=> s \in Int /\ 0 <= s /\ s < order
  BY <1>1 DEF Idx
<1>5. \A x \in Result : x[1] \in Idx /\ x[2] \in 0..Cols-1
  BY DEF Result
<1>6. \A x \in Result : x[2] \in Int /\ 0 <= x[2] /\ x[2] < Cols
  BY <1>2, <1>5
<1> QED BY <1>1, <1>2, <1>3, <1>4, <1>5, <1>6

(* What an entry is owed, per operation. *)
LEMMA DueFacts ==
  ASSUME stage # "off", BlasPosition, NEW x \in Result
  PROVE  /\ \A s \in Due(x) : s \in Int /\ 0 <= s /\ s < order /\ TurnOf(s) \in Int
                              /\ 0 <= TurnOf(s) /\ TurnOf(s) < Turns
         /\ Expected(x) = SetToBag({Product(x, s) : s \in Due(x)})
         /\ op \in Solves => \A s \in Due(x) : s > x[1]
<1>1. /\ order \in Nat /\ order >= 1 /\ x[1] \in Int /\ 0 <= x[1] /\ x[1] < order
      /\ \A s : s \in Idx <=> s \in Int /\ 0 <= s /\ s < order
  BY BlasSizes
<1>2. op \in Ops
  BY DEF BlasPosition
<1>3. CASE op = "ger"
  <2>1. op \notin Solves /\ Turns = 1 /\ Due(x) = {0}
    BY <1>3 DEF Solves, Turns, Due
  <2>2. Product(x, 0) = <<1, <<x[1], 0>>, <<x[2], 0>>>>
    BY <1>3, <2>1 DEF Product
  <2>3. {Product(x, s) : s \in {0}} = {<<1, <<x[1], 0>>, <<x[2], 0>>>>}
    BY <2>2
  <2>4. Expected(x) = SetToBag({<<1, <<x[1], 0>>, <<x[2], 0>>>>})
    BY <1>3 DEF Expected
  <2> QED BY <1>1, <2>1, <2>3, <2>4 DEF TurnOf
<1>4. CASE op # "ger"
  <2>1. Due(x) = Inner(x) /\ Turns = order
    BY <1>4 DEF Due, Turns
  <2>2. \A s \in Inner(x) : s \in Int /\ 0 <= s /\ s < order /\ (op \in Solves => s > x[1])
    <3>1. CASE op \in Solves
      <4>1. Inner(x) = x[1]+1..order-1
        BY <3>1 DEF Inner, Solves
      <4> QED BY <1>1, <4>1
    <3>2. CASE op = "trmm"
      <4>1. Inner(x) = x[1]..order-1 /\ op \notin Solves
        BY <3>2 DEF Inner, Solves
      <4> QED BY <1>1, <4>1
    <3>3. CASE op \in {"gemv", "gemm", "syrk"}
      <4>1. Inner(x) \subseteq Idx /\ op \notin Solves
        BY <3>3 DEF Inner, Solves
      <4> QED BY <1>1, <4>1
    <3> QED BY <1>2, <1>4, <3>1, <3>2, <3>3 DEF Ops
  <2>3. \A s \in Inner(x) : TurnOf(s) \in Int /\ 0 <= TurnOf(s) /\ TurnOf(s) < order
    BY <1>1, <2>2 DEF TurnOf
  <2>4. Expected(x) = SetToBag({Product(x, s) : s \in Inner(x)})
    <3>1. CASE op = "syrk"
      <4>1. \A s : Product(x, s) = <<1, <<x[1], s>>, <<x[2], s>>>>
        BY <3>1 DEF Product, Solves
      <4>2. Expected(x) = SetToBag({<<1, <<x[1], s>>, <<x[2], s>>>> : s \in Inner(x)})
        BY <3>1 DEF Expected
      <4> QED BY <4>1, <4>2
    <3>2. CASE op # "syrk"
      <4> DEFINE sign == IF op \in Solves THEN -1 ELSE 1
      <4>1. \A s : Product(x, s) = <<sign, <<x[1], s>>, <<s, x[2]>>>>
        BY <1>4, <3>2 DEF Product
      <4>2. Expected(x) = SetToBag({<<sign, <<x[1], s>>, <<s, x[2]>>>> : s \in Inner(x)})
        BY <1>4, <3>2 DEF Expected
      <4> HIDE DEF sign
      <4> QED BY <4>1, <4>2
    <3> QED BY <3>1, <3>2
  <2> QED BY <2>1, <2>2, <2>3, <2>4
<1> QED BY <1>3, <1>4

(* A call streams a column whose products the entries it reaches are due, and no others. *)
LEMMA CallReaches ==
  ASSUME stage # "off", BlasPosition, col < Cols, turn < Turns, NEW x \in Result, x[2] = col
  PROVE  /\ Length \in Nat /\ Top \in Nat /\ Top + Length <= order
         /\ Streamed \in Idx /\ TurnOf(Streamed) = turn
         /\ (x[1] >= Top /\ x[1] - Top < Length) <=> Streamed \in Due(x)
         /\ <<Sign, <<x[1], Streamed>>, Factor>> = Product(x, Streamed)
<1>1. /\ order \in Nat /\ order >= 1 /\ x[1] \in Int /\ 0 <= x[1] /\ x[1] < order
      /\ col \in Nat /\ turn \in Nat /\ Cols \in {1, order}
      /\ \A s : s \in Idx <=> s \in Int /\ 0 <= s /\ s < order
  BY BlasSizes
<1>2. op \in Ops /\ fused \in BOOLEAN
  BY DEF BlasPosition
<1>8. ASSUME op \notin Solves PROVE Sign = 1
  <2>1. AlphaSign = IF fused THEN 1 ELSE -1
    BY <1>8 DEF AlphaSign
  <2>2. ASSUME fused PROVE Sign = 1
    BY <2>1, <2>2 DEF Sign
  <2>3. ASSUME ~fused PROVE Sign = 1
    <3>1. AlphaSign \in Int /\ AlphaSign + 1 = 0
      BY <2>1, <2>3
    <3>2. Sign = -AlphaSign
      BY <2>3 DEF Sign
    <3>3. \A a \in Int : a + 1 = 0 => -a = 1
      OBVIOUS
    <3> QED BY <3>1, <3>2, <3>3
  <2> QED BY <2>2, <2>3
<1>3. CASE op = "ger"
  <2>0. op \notin Solves
    BY <1>3 DEF Solves
  <2>1. Streamed = turn /\ turn = 0 /\ Top = 0 /\ Length = order /\ Factor = <<col, 0>>
    BY <1>1, <1>3 DEF Streamed, Top, Length, Factor, Turns, Solves
  <2>2. Sign = 1
    BY <1>8, <2>0
  <2> QED BY <1>1, <1>3, <2>1, <2>2 DEF Due, TurnOf, Product, Solves
<1>4. CASE op \in {"gemv", "gemm"}
  <2>0. op \notin Solves
    BY <1>4 DEF Solves
  <2>1. Streamed = turn /\ turn < order /\ Top = 0 /\ Length = order /\ Factor = <<turn, col>>
    BY <1>1, <1>4 DEF Streamed, Top, Length, Factor, Turns, Solves
  <2>2. Sign = 1
    BY <1>8, <2>0
  <2>3. Due(x) = Idx
    <3>1. Inner(x) = Idx
      BY <1>4 DEF Inner, Solves
    <3> QED BY <1>4, <3>1 DEF Due
  <2> QED BY <1>1, <1>4, <2>1, <2>2, <2>3 DEF TurnOf, Product, Solves
<1>5. CASE op = "syrk"
  <2>0. op \notin Solves
    BY <1>5 DEF Solves
  <2>1. /\ Streamed = turn /\ turn < order /\ Top = col /\ Length = order - col
        /\ Factor = <<col, turn>> /\ Cols = order
    BY <1>1, <1>5 DEF Streamed, Top, Length, Factor, Turns, Solves, Cols
  <2>2. Sign = 1
    BY <1>8, <2>0
  <2>3. Due(x) = IF x[1] >= col THEN Idx ELSE {}
    <3>1. Inner(x) = IF x[1] >= col THEN Idx ELSE {}
      BY <1>5 DEF Inner, Solves
    <3> QED BY <1>5, <3>1 DEF Due
  <2> QED BY <1>1, <1>5, <2>1, <2>2, <2>3 DEF TurnOf, Product, Solves
<1>6. CASE op = "trmm"
  <2>0. op \notin Solves
    BY <1>6 DEF Solves
  <2>1. Streamed = turn /\ turn < order /\ Top = 0 /\ Length = turn + 1 /\ Factor = <<turn, col>>
    BY <1>1, <1>6 DEF Streamed, Top, Length, Factor, Turns, Solves
  <2>2. Sign = 1
    BY <1>8, <2>0
  <2>3. Due(x) = x[1]..order-1
    <3>1. Inner(x) = x[1]..order-1
      BY <1>6 DEF Inner, Solves
    <3> QED BY <1>6, <3>1 DEF Due
  <2> QED BY <1>1, <1>6, <2>1, <2>2, <2>3 DEF TurnOf, Product, Solves
<1>7. CASE op \in Solves
  <2>1. /\ Streamed = order - 1 - turn /\ turn < order /\ Top = 0 /\ Length = Streamed
        /\ Factor = <<Streamed, col>>
    BY <1>1, <1>7 DEF Streamed, Top, Length, Factor, Turns, Solves
  <2>2. Sign = -1
    BY <1>2, <1>7 DEF Sign, AlphaSign, Solves
  <2>3. Due(x) = x[1]+1..order-1
    BY <1>7 DEF Due, Inner, Solves
  <2>4. Product(x, Streamed) = <<-1, <<x[1], Streamed>>, <<Streamed, x[2]>>>>
    BY <1>7 DEF Product, Solves
  <2>5. TurnOf(Streamed) = turn
    BY <1>1, <1>7, <2>1 DEF TurnOf
  <2> QED BY <1>1, <2>1, <2>2, <2>3, <2>4, <2>5
<1> QED BY <1>2, <1>3, <1>4, <1>5, <1>6, <1>7 DEF Ops

(* Bags of products: one more, or none. *)
LEMMA BagOfSets ==
  ASSUME NEW S, NEW e, e \notin S
  PROVE  /\ SetToBag(S) (+) EmptyBag = SetToBag(S)
         /\ SetToBag(S) (+) [y \in {e} |-> 1] = SetToBag(S \union {e})
<1>1. SetToBag(S) (+) EmptyBag = SetToBag(S)
  BY DEF SetToBag, EmptyBag, (+)
<1>2. SetToBag(S) (+) [y \in {e} |-> 1] = SetToBag(S \union {e})
  BY DEF SetToBag, (+)
<1> QED BY <1>1, <1>2

LEMMA SubBags ==
  ASSUME NEW S, NEW T, S \subseteq T
  PROVE  SetToBag(S) \sqsubseteq SetToBag(T)
BY DEF SetToBag, \sqsubseteq

LEMMA BlasInitSums == BlasInit => BlasPosition /\ BlasSums
<1> SUFFICES ASSUME BlasInit PROVE BlasPosition /\ BlasSums
  OBVIOUS
<1>1. /\ stage = "loop" /\ col = 0 /\ turn = 0 /\ order \in 1..MaxOrder
      /\ op \in Ops /\ fused \in BOOLEAN
      /\ terms = [x \in Result |-> EmptyBag] /\ divided = {}
  BY DEF BlasInit
<1>2. BlasPosition
  <2>1. Cols \in Nat /\ Turns \in Nat
    BY <1>1 DEF Cols, Turns
  <2> QED BY <1>1, <2>1 DEF BlasPosition
<1>3. ASSUME NEW x \in Result
      PROVE  Made(x) = {} /\ ~Divided(x)
  <2>1. x[1] \in Int /\ x[1] < order /\ x[2] \in Int /\ 0 <= x[2] /\ order \in Int
    BY <1>1, <1>2, BlasSizes
  <2>2. \A s \in Due(x) : TurnOf(s) \in Int /\ 0 <= TurnOf(s)
    BY <1>1, <1>2, DueFacts
  <2>3. Made(x) = {}
    BY <1>1, <2>1, <2>2 DEF Made, MadeBy
  <2>4. op \in Solves => TurnOf(x[1]) = order - 1 - x[1]
    BY DEF TurnOf
  <2> QED BY <1>1, <2>1, <2>3, <2>4 DEF Divided, DividedBy
<1>4. \A x \in Result : SetToBag({Product(x, s) : s \in Made(x)}) = EmptyBag
  <2>1. \A x : {Product(x, s) : s \in {}} = {}
    OBVIOUS
  <2> QED BY <1>3, <2>1 DEF EmptyBag
<1> QED BY <1>1, <1>2, <1>3, <1>4 DEF BlasSums

(* What stays as long as the operation does. *)
LEMMA SameNest ==
  ASSUME UNCHANGED nest
  PROVE  /\ Result' = Result /\ Cols' = Cols /\ Turns' = Turns
         /\ \A x, s : Product(x, s)' = Product(x, s)
         /\ \A x : Made(x)' = MadeBy(x, col', turn')
         /\ \A x : Divided(x)' <=> DividedBy(x, col', IF stage' \in {"divided", "axpy"} THEN turn' + 1 ELSE turn')
<1>1. op' = op /\ order' = order /\ fused' = fused
  BY DEF nest
<1>2. Result' = Result /\ Cols' = Cols /\ Turns' = Turns
  BY <1>1 DEF Result, Cols, Turns, Idx
<1>3. \A x, s : Product(x, s)' = Product(x, s)
  BY <1>1 DEF Product
<1>4. \A x : Due(x)' = Due(x)
  BY <1>1 DEF Due, Inner, Idx
<1>5. \A s : TurnOf(s)' = TurnOf(s)
  BY <1>1 DEF TurnOf
<1>6. \A x : Made(x)' = MadeBy(x, col', turn')
  BY <1>4, <1>5 DEF Made, MadeBy
<1>7. \A x : Divided(x)' <=> DividedBy(x, col', IF stage' \in {"divided", "axpy"} THEN turn' + 1 ELSE turn')
  BY <1>1, <1>5 DEF Divided, DividedBy
<1> QED BY <1>2, <1>3, <1>6, <1>7

LEMMA DivideKeeps ==
  ASSUME BlasPosition, BlasSums, Divide
  PROVE  BlasPosition' /\ BlasSums'
<1>1. /\ stage = "loop" /\ stage' = "divided" /\ op \in Solves /\ col < Cols /\ turn < Turns
      /\ col' = col /\ turn' = turn /\ terms' = terms
      /\ op' = op /\ fused' = fused /\ order' = order /\ UNCHANGED nest
      /\ divided' = divided \union {<<Streamed, col>>}
  BY DEF Divide, nest
<1>2. /\ order \in Nat /\ order >= 1 /\ col \in Nat /\ turn \in Nat /\ Cols \in {1, order}
      /\ \A s : s \in Idx <=> s \in Int /\ 0 <= s /\ s < order
      /\ \A x \in Result : x[1] \in Int /\ 0 <= x[1] /\ x[1] < order
                           /\ x[2] \in Int /\ 0 <= x[2] /\ x[2] < Cols
  BY <1>1, BlasSizes
<1>3. Streamed \in Idx /\ TurnOf(Streamed) = turn
  <2>1. <<0, col>> \in Result /\ <<0, col>>[2] = col
    BY <1>1, <1>2 DEF Result
  <2> QED BY <1>1, <2>1, CallReaches
<1>4. BlasPosition'
  BY <1>1, SameNest DEF BlasPosition
<1>5. terms' = [x \in Result' |-> SetToBag({Product(x, s)' : s \in Made(x)'})]
  <2>1. \A x : Made(x)' = Made(x)
    BY <1>1, SameNest DEF Made
  <2> QED BY <1>1, <2>1, SameNest DEF BlasSums
<1>6. divided' = {x \in Result' : Divided(x)'}
  <2>1. \A x : (Divided(x) <=> DividedBy(x, col, turn)) /\ (Divided(x)' <=> DividedBy(x, col, turn + 1))
    BY <1>1, SameNest DEF Divided
  <2>2. divided = {x \in Result : DividedBy(x, col, turn)}
    BY <1>1, <2>1 DEF BlasSums
  <2>3. <<Streamed, col>> \in Result
    BY <1>1, <1>2, <1>3 DEF Result
  <2>4. \A x \in Result : DividedBy(x, col, turn + 1) <=> DividedBy(x, col, turn) \/ x = <<Streamed, col>>
    <3> SUFFICES ASSUME NEW x \in Result
                 PROVE  DividedBy(x, col, turn + 1) <=> DividedBy(x, col, turn) \/ x = <<Streamed, col>>
      OBVIOUS
    <3>1. x = <<x[1], x[2]>> /\ x[1] \in Int /\ x[2] \in Int
      BY <1>2 DEF Result
    <3>2. Streamed \in Int /\ Streamed = order - 1 - turn /\ TurnOf(x[1]) = order - 1 - x[1]
      BY <1>1, <1>2, <1>3 DEF Streamed, TurnOf
    <3>3. TurnOf(x[1]) \in Int /\ (TurnOf(x[1]) < turn + 1 <=> TurnOf(x[1]) < turn \/ x[1] = Streamed)
      BY <1>2, <3>1, <3>2
    <3>4. x = <<Streamed, col>> <=> x[1] = Streamed /\ x[2] = col
      BY <3>1
    <3>5. CASE x[2] = col
      BY <1>1, <1>2, <3>3, <3>4, <3>5 DEF DividedBy
    <3>6. CASE x[2] # col
      BY <1>1, <3>4, <3>6 DEF DividedBy
    <3> QED BY <3>5, <3>6
  <2> QED BY <1>1, <2>1, <2>2, <2>3, <2>4, SameNest
<1> QED BY <1>4, <1>5, <1>6 DEF BlasSums

LEMMA StreamKeeps ==
  ASSUME BlasPosition, BlasSums, Stream
  PROVE  Length \in 0..MaxLen /\ BlasPosition' /\ BlasSums'
<1>1. /\ stage = (IF op \in Solves THEN "divided" ELSE "loop") /\ stage' = "axpy"
      /\ col < Cols /\ turn < Turns
      /\ col' = col /\ turn' = turn /\ terms' = terms
      /\ op' = op /\ fused' = fused /\ order' = order /\ UNCHANGED nest
      /\ divided' = divided
      /\ len' = Length
  BY DEF Stream, nest, CallLoop
<1>2. /\ order \in Nat /\ order >= 1 /\ order <= MaxLen /\ MaxLen \in Nat
      /\ col \in Nat /\ turn \in Nat /\ Cols \in {1, order}
      /\ \A s : s \in Idx <=> s \in Int /\ 0 <= s /\ s < order
      /\ \A x \in Result : x[1] \in Int /\ 0 <= x[1] /\ x[1] < order
                           /\ x[2] \in Int /\ 0 <= x[2] /\ x[2] < Cols
  BY <1>1, BlasSizes, WordAssumption
<1>3. /\ Length \in Nat /\ Top \in Nat /\ Top + Length <= order
      /\ Streamed \in Idx /\ TurnOf(Streamed) = turn
  <2>1. <<0, col>> \in Result /\ <<0, col>>[2] = col
    BY <1>1, <1>2 DEF Result
  <2> QED BY <1>1, <2>1, CallReaches
<1>4. Length \in 0..MaxLen
  BY <1>2, <1>3
<1>5. Length' = Length
  BY <1>1 DEF Length, Streamed
<1>6. BlasPosition'
  BY <1>1, <1>5, SameNest DEF BlasPosition
<1>7. terms' = [x \in Result' |-> SetToBag({Product(x, s)' : s \in Made(x)'})]
  <2>1. \A x : Made(x)' = Made(x)
    BY <1>1, SameNest DEF Made
  <2> QED BY <1>1, <2>1, SameNest DEF BlasSums
<1>8. divided' = {x \in Result' : Divided(x)'}
  <2>1. \A x : Divided(x)' <=> DividedBy(x, col, turn + 1)
    BY <1>1, SameNest
  <2>2. \A x : Divided(x) <=> DividedBy(x, col, IF op \in Solves THEN turn + 1 ELSE turn)
    BY <1>1 DEF Divided
  <2>3. \A x : Divided(x)' <=> Divided(x)
    BY <2>1, <2>2 DEF DividedBy
  <2> QED BY <1>1, <2>3, SameNest DEF BlasSums
<1> QED BY <1>4, <1>6, <1>7, <1>8 DEF BlasSums

(* What a call adds to an entry: the product of the column streamed, if it is due. *)
LEMMA CallAdds ==
  ASSUME IInv, BlasPosition, stage = "axpy", pc = "done", NEW x \in Result
  PROVE  SetToBag({Product(x, s) : s \in Made(x)}) (+) Added(x)
           = SetToBag({Product(x, s) : s \in MadeBy(x, col, turn + 1)})
<1>1. /\ order \in Nat /\ order >= 1 /\ order <= MaxLen /\ MaxLen \in Nat
      /\ col \in Nat /\ turn \in Nat
      /\ \A s : s \in Idx <=> s \in Int /\ 0 <= s /\ s < order
      /\ x[1] \in Int /\ 0 <= x[1] /\ x[1] < order /\ x[2] \in Int /\ 0 <= x[2] /\ x[2] < Cols
  BY BlasSizes, WordAssumption
<1>2. col < Cols /\ turn < Turns /\ len = Length
  BY DEF BlasPosition
<1>3. \A s \in Due(x) : s \in Int /\ TurnOf(s) \in Int
  BY DueFacts
<1> DEFINE before == {Product(x, s) : s \in Made(x)}
<1>4. SetToBag(before) (+) EmptyBag = SetToBag(before)
  BY DEF SetToBag, EmptyBag, (+)
<1>5. CASE x[2] # col
  <2>1. Added(x) = EmptyBag
    BY <1>5 DEF Added
  <2>2. MadeBy(x, col, turn + 1) = Made(x)
    BY <1>5 DEF Made, MadeBy
  <2> QED BY <1>4, <2>1, <2>2
<1>6. CASE x[2] = col
  <2> DEFINE reached == x[1] >= Top /\ x[1] - Top < Length
  <2>1. /\ Length \in Nat /\ Top \in Nat /\ Top + Length <= order
        /\ Streamed \in Idx /\ TurnOf(Streamed) = turn
        /\ reached <=> Streamed \in Due(x)
        /\ <<Sign, <<x[1], Streamed>>, Factor>> = Product(x, Streamed)
    BY <1>2, <1>6, CallReaches
  <2>2. Added(x) = IF reached THEN [y \in {Product(x, Streamed)} |-> 1] ELSE EmptyBag
    <3>1. CASE x[1] >= Top
      <4>1. x[1] - Top \in Storage
        BY <1>1, <2>1, <3>1 DEF Storage
      <4>2. count[x[1] - Top] = IF x[1] - Top < Length THEN 1 ELSE 0
        BY <1>2, <4>1, DoneCounts
      <4>3. Added(x) = Times(Product(x, Streamed), count[x[1] - Top])
        BY <1>6, <2>1, <3>1 DEF Added
      <4>4. reached <=> x[1] - Top < Length
        BY <3>1
      <4> HIDE DEF reached
      <4> QED BY <4>2, <4>3, <4>4 DEF Times
    <3>2. CASE ~(x[1] >= Top)
      BY <3>2 DEF Added
    <3> QED BY <3>1, <3>2
  <2> HIDE DEF reached
  <2>3. \A s \in Due(x) : TurnOf(s) = turn <=> s = Streamed
    BY <1>1, <1>3, <2>1 DEF TurnOf
  <2>4. /\ \A s : s \in Made(x) <=> s \in Due(x) /\ TurnOf(s) < turn
        /\ \A s : s \in MadeBy(x, col, turn + 1) <=> s \in Due(x) /\ TurnOf(s) < turn + 1
    BY <1>1, <1>6 DEF Made, MadeBy
  <2>5. \A s : s \in MadeBy(x, col, turn + 1) <=> s \in Made(x) \/ (s \in Due(x) /\ s = Streamed)
    BY <1>1, <1>3, <2>3, <2>4
  <2>6. CASE ~reached
    <3>1. MadeBy(x, col, turn + 1) = Made(x)
      BY <2>1, <2>5, <2>6
    <3> QED BY <1>4, <2>2, <2>6, <3>1
  <2>7. CASE reached
    <3>1. MadeBy(x, col, turn + 1) = Made(x) \union {Streamed}
      BY <2>1, <2>5, <2>7
    <3>2. {Product(x, s) : s \in MadeBy(x, col, turn + 1)} = before \union {Product(x, Streamed)}
      BY <3>1
    <3>3. Product(x, Streamed) \notin before
      <4>1. Streamed \notin Made(x)
        BY <1>1, <2>1, <2>4
      <4>2. \A s \in Made(x) : Product(x, s) # Product(x, Streamed)
        <5>1. \A s : Product(x, s)[2] = <<x[1], s>>
          BY DEF Product
        <5>2. \A s : Product(x, s)[2][2] = s
          BY <5>1
        <5> QED BY <4>1, <5>2
      <4> QED BY <4>2
    <3>4. SetToBag(before) (+) Added(x) = SetToBag(before \union {Product(x, Streamed)})
      <4> HIDE DEF before
      <4>1. Added(x) = [y \in {Product(x, Streamed)} |-> 1]
        BY <2>2, <2>7
      <4> QED BY <3>3, <4>1, BagOfSets
    <3> QED BY <3>2, <3>4
  <2> QED BY <2>6, <2>7
<1> QED BY <1>5, <1>6

LEMMA ReturnKeeps ==
  ASSUME IInv, BlasPosition, BlasSums, Streamed_Returns
  PROVE  BlasPosition' /\ BlasSums'
<1>1. /\ stage = "axpy" /\ stage' = "loop" /\ pc = "done" /\ turn' = turn + 1
      /\ col' = col /\ divided' = divided
      /\ op' = op /\ fused' = fused /\ order' = order /\ UNCHANGED nest
      /\ terms' = [x \in Result |-> terms[x] (+) Added(x)]
  BY DEF Streamed_Returns, nest
<1>2. col < Cols /\ turn < Turns /\ Turns \in Int /\ turn \in Nat
  BY <1>1, BlasSizes DEF BlasPosition
<1>3. BlasPosition'
  <2>1. turn + 1 \in 0..Turns
    BY <1>2
  <2> QED BY <1>1, <2>1, SameNest DEF BlasPosition
<1>4. terms' = [x \in Result' |-> SetToBag({Product(x, s)' : s \in Made(x)'})]
  <2>1. \A x : Made(x)' = MadeBy(x, col, turn + 1)
    BY <1>1, SameNest
  <2>2. \A x \in Result : terms[x] = SetToBag({Product(x, s) : s \in Made(x)})
    BY <1>1 DEF BlasSums
  <2>3. \A x \in Result : terms[x] (+) Added(x) = SetToBag({Product(x, s) : s \in MadeBy(x, col, turn + 1)})
    BY <1>1, <2>2, CallAdds
  <2> QED BY <1>1, <2>1, <2>3, SameNest
<1>5. divided' = {x \in Result' : Divided(x)'}
  <2>1. \A x : (Divided(x) <=> DividedBy(x, col, turn + 1)) /\ (Divided(x)' <=> DividedBy(x, col, turn + 1))
    BY <1>1, SameNest DEF Divided
  <2> QED BY <1>1, <2>1, SameNest DEF BlasSums
<1> QED BY <1>3, <1>4, <1>5 DEF BlasSums

(* When all calls for a column are made, nothing is due to it any more. *)
LEMMA ColumnDone ==
  ASSUME BlasPosition, stage = "loop", turn = Turns, NEW x \in Result
  PROVE  /\ MadeBy(x, col + 1, 0) = Made(x)
         /\ DividedBy(x, col + 1, 0) <=> Divided(x)
<1>1. /\ order \in Nat /\ col \in Nat /\ Turns \in Int
      /\ x[1] \in Int /\ 0 <= x[1] /\ x[1] < order /\ x[2] \in Int
  BY BlasSizes
<1>2. \A s \in Due(x) : TurnOf(s) \in Int /\ 0 <= TurnOf(s) /\ TurnOf(s) < Turns
  BY DueFacts
<1>3. x[2] < col + 1 <=> x[2] < col \/ x[2] = col
  BY <1>1
<1>4. MadeBy(x, col + 1, 0) = Made(x)
  BY <1>1, <1>2, <1>3 DEF Made, MadeBy
<1>5. op \in Solves => TurnOf(x[1]) \in Int /\ 0 <= TurnOf(x[1]) /\ TurnOf(x[1]) < Turns
  BY <1>1 DEF TurnOf, Turns, Solves
<1>6. DividedBy(x, col + 1, 0) <=> Divided(x)
  BY <1>1, <1>3, <1>5 DEF Divided, DividedBy
<1> QED BY <1>4, <1>6

LEMMA NextColumnKeeps ==
  ASSUME BlasPosition, BlasSums, NextColumn
  PROVE  BlasPosition' /\ BlasSums'
<1>1. /\ stage = "loop" /\ stage' = "loop" /\ col < Cols /\ turn = Turns
      /\ col' = col + 1 /\ turn' = 0 /\ terms' = terms /\ divided' = divided
      /\ op' = op /\ fused' = fused /\ order' = order /\ UNCHANGED nest
  BY DEF NextColumn, nest
<1>2. BlasPosition'
  <2>1. col + 1 \in 0..Cols /\ 0 \in 0..Turns
    BY <1>1, BlasSizes
  <2> QED BY <1>1, <2>1, SameNest DEF BlasPosition
<1>3. \A x \in Result : Made(x)' = Made(x) /\ (Divided(x)' <=> Divided(x))
  BY <1>1, ColumnDone, SameNest
<1> QED BY <1>1, <1>2, <1>3, SameNest DEF BlasSums

LEMMA BlasReturnsKeeps ==
  ASSUME BlasPosition, BlasSums, BlasReturns
  PROVE  BlasPosition' /\ BlasSums'
<1>1. /\ stage = "loop" /\ stage' = "returned" /\ col = Cols /\ col' = col /\ turn' = turn
      /\ terms' = terms /\ divided' = divided
      /\ op' = op /\ fused' = fused /\ order' = order /\ UNCHANGED nest
  BY DEF BlasReturns, nest
<1>2. BlasPosition'
  BY <1>1, SameNest DEF BlasPosition
<1>3. \A x \in Result : Made(x)' = Made(x) /\ (Divided(x)' <=> Divided(x))
  BY <1>1, SameNest DEF Made, Divided
<1> QED BY <1>1, <1>2, <1>3, SameNest DEF BlasSums

(* The loop at work does not touch the nest. *)
LEMMA BlasUntouched ==
  ASSUME BlasPosition, BlasSums, UNCHANGED blas, len' = len
  PROVE  BlasPosition' /\ BlasSums'
<1>1. /\ op' = op /\ fused' = fused /\ order' = order /\ UNCHANGED nest /\ stage' = stage
      /\ col' = col /\ turn' = turn /\ terms' = terms /\ divided' = divided
  BY DEF blas, nest
<1>2. Length' = Length
  BY <1>1 DEF Length, Streamed
<1>3. BlasPosition'
  BY <1>1, <1>2, SameNest DEF BlasPosition
<1>4. \A x : Made(x)' = Made(x) /\ (Divided(x)' <=> Divided(x))
  BY <1>1, SameNest DEF Made, Divided
<1> QED BY <1>1, <1>3, <1>4, SameNest DEF BlasSums

(***************************************************************************)
(* An entry that has been divided has had all it is due: the solves stream *)
(* the columns from the last back, and are due the later ones only.  When  *)
(* all columns are done every entry has.                                   *)
(***************************************************************************)
LEMMA SumsMeanOnce == BlasPosition /\ BlasSums => ProductsOnce
<1> SUFFICES ASSUME BlasPosition, BlasSums, stage # "off"
             PROVE  /\ \A x \in Result : terms[x] \sqsubseteq Expected(x)
                    /\ \A x \in divided : terms[x] = Expected(x)
                    /\ stage = "axpy" => Top + Length <= order /\ (op \in Solves => Factor \in divided)
                    /\ stage = "returned" =>
                         /\ \A x \in Result : terms[x] = Expected(x)
                         /\ op \in Solves => divided = Result
  BY DEF ProductsOnce
<1>1. /\ order \in Nat /\ order >= 1 /\ col \in Nat /\ turn \in Nat /\ Cols \in {1, order}
      /\ \A x \in Result : x[1] \in Int /\ 0 <= x[1] /\ x[1] < order
                           /\ x[2] \in Int /\ 0 <= x[2] /\ x[2] < Cols
  BY BlasSizes
<1>2. \A x \in Result : terms[x] = SetToBag({Product(x, s) : s \in Made(x)})
  BY DEF BlasSums
<1>3. \A x \in Result : Expected(x) = SetToBag({Product(x, s) : s \in Due(x)})
  BY DueFacts
<1>4. \A x \in Result : terms[x] \sqsubseteq Expected(x)
  <2>1. \A x : {Product(x, s) : s \in Made(x)} \subseteq {Product(x, s) : s \in Due(x)}
    BY DEF Made, MadeBy
  <2> QED BY <1>2, <1>3, <2>1, SubBags
<1>5. \A x \in divided : x \in Result /\ Made(x) = Due(x)
  <2> SUFFICES ASSUME NEW x \in divided PROVE x \in Result /\ Made(x) = Due(x)
    OBVIOUS
  <2> DEFINE t == IF stage \in {"divided", "axpy"} THEN turn + 1 ELSE turn
  <2>1. x \in Result /\ DividedBy(x, col, t)
    BY DEF BlasSums, Divided
  <2>2. op \in Solves /\ (x[2] < col \/ (x[2] = col /\ TurnOf(x[1]) < turn + 1))
    <3>1. t \in {turn, turn + 1}
      OBVIOUS
    <3>2. TurnOf(x[1]) < turn => TurnOf(x[1]) < turn + 1
      BY <1>1, <2>1 DEF DividedBy, TurnOf
    <3> HIDE DEF t
    <3> QED BY <2>1, <3>1, <3>2 DEF DividedBy
  <2>3. \A s \in Due(x) : s \in Int /\ s > x[1]
    BY <2>1, <2>2, DueFacts
  <2>4. \A s \in Due(x) : x[2] = col => TurnOf(s) < turn
    BY <1>1, <2>1, <2>2, <2>3 DEF TurnOf
  <2> QED BY <2>1, <2>2, <2>4 DEF Made, MadeBy
<1>6. stage = "axpy" => Top + Length <= order /\ (op \in Solves => Factor \in divided)
  <2> SUFFICES ASSUME stage = "axpy"
               PROVE  Top + Length <= order /\ (op \in Solves => Factor \in divided)
    OBVIOUS
  <2>1. col < Cols /\ turn < Turns
    BY DEF BlasPosition
  <2>2. <<0, col>> \in Result /\ <<0, col>>[2] = col
    BY <1>1, <2>1 DEF Result, Idx
  <2>3. Top + Length <= order /\ Streamed \in Idx /\ TurnOf(Streamed) = turn
    BY <2>1, <2>2, CallReaches
  <2>4. ASSUME op \in Solves PROVE Factor \in divided
    <3>1. Factor = <<Streamed, col>> /\ Factor \in Result
      BY <1>1, <2>1, <2>3, <2>4 DEF Factor, Solves, Result
    <3>2. TurnOf(Streamed) < turn + 1
      BY <1>1, <2>3
    <3>3. DividedBy(<<Streamed, col>>, col, turn + 1)
      BY <2>4, <3>2 DEF DividedBy
    <3> QED BY <3>1, <3>3 DEF BlasSums, Divided
  <2> QED BY <2>3, <2>4
<1>7. ASSUME stage = "returned"
      PROVE  /\ \A x \in Result : Made(x) = Due(x)
             /\ op \in Solves => divided = Result
  <2>1. col = Cols
    BY <1>7 DEF BlasPosition
  <2>2. \A x \in Result : x[2] < col
    BY <1>1, <2>1
  <2>3. \A x \in Result : Made(x) = Due(x)
    BY <2>2 DEF Made, MadeBy
  <2>4. op \in Solves => \A x \in Result : Divided(x)
    BY <2>2 DEF Divided, DividedBy
  <2> QED BY <2>3, <2>4 DEF BlasSums
<1> QED BY <1>2, <1>3, <1>4, <1>5, <1>6, <1>7

-----------------------------------------------------------------------------
(* One caller is at work, or none. *)
CallersInv ==
  /\ IInv
  /\ BlasPosition /\ BlasSums
  /\ phase = "off" \/ (stage = "off" /\ SweepInv)

LEMMA CallersInitInv == CallersInit => CallersInv
<1> SUFFICES ASSUME CallersInit PROVE CallersInv
  OBVIOUS
<1>1. CASE Init /\ BlasOff /\ JacobiOff
  BY <1>1, InitIInv DEF BlasOff, JacobiOff, CallersInv, BlasPosition, BlasSums
<1>2. CASE BlasInit /\ JacobiOff
  <2>1. kernel \in Loops
    BY <1>2 DEF BlasInit, Loops, ScalarLoops, HarnessLoops
  <2>2. IInv
    BY <1>2, <2>1, WordAssumption
       DEF BlasInit, IInv, TypeOK, Prefix, Products, Storage, Nowhere
  <2> QED
    BY <1>2, <2>2, BlasInitSums DEF JacobiOff, CallersInv
<1>3. CASE JacobiInit /\ BlasOff
  BY <1>3, JacobiInitInv DEF SweepInv, BlasOff, CallersInv, BlasPosition, BlasSums
<1> QED
  BY <1>1, <1>2, <1>3 DEF CallersInit

LEMMA CallersStepInv == CallersInv /\ [CallersNext]_callers => CallersInv'
<1> SUFFICES ASSUME CallersInv, [CallersNext]_callers PROVE CallersInv'
  OBVIOUS
<1>0. IInv /\ BlasPosition /\ BlasSums /\ (phase = "off" \/ (stage = "off" /\ SweepInv))
  BY DEF CallersInv
<1>1. UNCHANGED blas => stage' = stage
  BY DEF blas
<1>2. UNCHANGED jacobi => phase' = phase
  BY DEF jacobi
<1>3. CASE (Step \/ UNCHANGED vars) /\ UNCHANGED blas /\ UNCHANGED jacobi
  <2>1. IInv' /\ len' = len
    BY <1>0, <1>3, StepKeeps, StutterKeeps, StepKeepsLength DEF vars
  <2>2. BlasPosition' /\ BlasSums'
    BY <1>0, <1>3, <2>1, BlasUntouched
  <2> QED
    BY <1>0, <1>1, <1>2, <1>3, <2>1, <2>2, LoopStepInv DEF CallersInv
<1>4. CASE BlasNext /\ UNCHANGED jacobi
  <2>1. phase' = "off"
    BY <1>0, <1>2, <1>4 DEF BlasNext, Divide, Stream, Streamed_Returns, NextColumn, BlasReturns
  <2>2. IInv'
    <3>1. CASE Stream
      BY <1>0, <3>1, StreamKeeps, CallIInv DEF Stream, IInv, TypeOK
    <3>2. CASE UNCHANGED vars
      BY <1>0, <3>2, StutterKeeps
    <3> QED
      BY <1>4, <3>1, <3>2 DEF BlasNext, Divide, Streamed_Returns, NextColumn, BlasReturns
  <2>3. BlasPosition' /\ BlasSums'
    BY <1>0, <1>4, DivideKeeps, StreamKeeps, ReturnKeeps, NextColumnKeeps, BlasReturnsKeeps DEF BlasNext
  <2> QED
    BY <2>1, <2>2, <2>3 DEF CallersInv
<1>5. CASE JacobiNext /\ UNCHANGED blas
  <2>1. phase # "off"
    BY <1>5 DEF JacobiNext, BeginSweep, LimitReached, Measure, NextRow, SkipPair, WithinTol, Leave,
                RotateA, RotateV, Rotated, EndSweep, Norm, ZeroColumn, Scale, Scaled, JacobiReturns
  <2>2. stage' = "off" /\ SweepInv'
    BY <1>0, <1>1, <1>5, <2>1, JacobiStepInv
  <2>3. BlasPosition' /\ BlasSums'
    BY <2>2 DEF BlasPosition, BlasSums
  <2> QED
    BY <2>2, <2>3 DEF CallersInv, SweepInv
<1> QED
  BY <1>3, <1>4, <1>5 DEF CallersNext, Idle, callers

THEOREM CallersInvariantHolds == CallersSpec => []CallersInv
  BY CallersInitInv, CallersStepInv, PTL DEF CallersSpec

(***************************************************************************)
(* The loops work on every element once whoever calls them: alone, or from *)
(* the streaming BLAS or the SVD with the lengths these compute.           *)
(***************************************************************************)
THEOREM CalledLoopsWorkOnEachOnce == CallersSpec => []EachElementOnce
<1>1. CallersInv => EachElementOnce
  BY WordAssumption DEF CallersInv, IInv, TypeOK, Prefix, Products, EachElementOnce, Storage
<1> QED
  BY <1>1, CallersInvariantHolds, PTL

(***************************************************************************)
(* The result about convergence, for the SVD as one of the callers.        *)
(***************************************************************************)
THEOREM ConvergenceIsGenuineForCallers == CallersSpec => []ConvergedMeansOrthogonal
<1>1. CallersInv => ConvergedMeansOrthogonal
  BY DEF CallersInv, SweepInv, VisitedAreGood, OrthogonalInRange, ConvergedMeansOrthogonal
<1> QED
  BY <1>1, CallersInvariantHolds, PTL

(***************************************************************************)
(* For every order, operation and variant the calls of the streaming BLAS  *)
(* stay inside the columns and add every product of the operation once and *)
(* no other; a solve divides an entry only when all that is due to it has  *)
(* been subtracted, and uses it only when it has been divided.             *)
(***************************************************************************)
THEOREM ProductsAddedOnce == CallersSpec => []ProductsOnce
<1>1. CallersInv => ProductsOnce
  BY SumsMeanOnce DEF CallersInv
<1> QED
  BY <1>1, CallersInvariantHolds, PTL
=============================================================================
