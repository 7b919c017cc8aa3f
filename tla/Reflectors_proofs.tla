-------------------------- MODULE Reflectors_proofs --------------------------
(***************************************************************************)
(* Theorems about Reflectors, for matrices of every shape.                 *)
(***************************************************************************)
EXTENDS Reflectors, TLAPS

TypeOK ==
  /\ kernel \in {"qr", "hessenberg"} /\ m \in Nat \ {0} /\ n \in Nat \ {0}
  /\ kernel = "hessenberg" => m = n
  /\ want_z \in BOOLEAN
  /\ pc \in {"generate", "right", "left", "identity", "form", "clear", "done"}
  /\ j \in 0..k /\ c \in 0..n
  /\ holds \in [Cells -> {"entry", "tail", "zero"}]
  /\ left \in [Cells -> Nat] /\ right \in [Cells -> Nat]
  /\ tau \in [0..k-1 -> {0, 1}]
  /\ q \subseteq Cells

(***************************************************************************)
(* The reflectors 0, ..., h-1 that act on row r and column s from the      *)
(* left: those that begin at or above the row and not behind the column.   *)
(* From the right every reflector acts on the columns behind its own.      *)
(***************************************************************************)
FromLeft(h, r, s) == AtLeast(0, AtMost(h, AtMost(r - Below + 1, s + 1)))
FromRight(h, s) == IF kernel = "qr" THEN 0 ELSE AtMost(h, s)

Applying == pc \in {"right", "left"}
Reducing == Applying \/ pc = "generate"

(* Reflectors applied to column s from the left, and from the right so far. *)
LeftReached(s) ==
  IF Applying /\ s < c THEN j + 1 ELSE IF Reducing THEN j ELSE k
RightReached ==
  IF pc = "left" THEN j + 1 ELSE IF Reducing THEN j ELSE k

(* Reflectors generated, and whether r is in the tail of one of them. *)
Generated == IF Applying THEN j + 1 ELSE IF pc = "generate" THEN j ELSE k
IsTail(r, s) == s < Generated /\ tau[s] = 1 /\ r > First(s)

Position ==
  /\ Applying => j < k /\ c >= j + 1
  /\ pc = "right" => c = j + 1 /\ kernel = "hessenberg"
  /\ pc \in {"identity", "form", "clear"} => kernel = "hessenberg"
  /\ \A h \in 0..k-1 : h >= Generated => tau[h] = 0

Applied ==
  \A r \in Rows, s \in 0..n-1 :
    /\ left[<<r, s>>] = FromLeft(LeftReached(s), r, s)
    /\ right[<<r, s>>] = FromRight(RightReached, s)

Stored ==
  \A r \in Rows, s \in 0..n-1 :
    holds[<<r, s>>] =
      IF pc = "done" /\ kernel = "hessenberg" THEN IF r >= s + 2 THEN "zero" ELSE "entry"
      ELSE IF IsTail(r, s) THEN "tail" ELSE "entry"

(* While Q is formed from the last reflector back it is the identity but   *)
(* for the rows and columns behind the reflectors applied.                 *)
QShape ==
  pc = "form" => \A r \in Rows, s \in 0..n-1 :
    <<r, s>> \in q => r = s \/ (r >= j + 1 /\ s >= j + 1)

IInv == TypeOK /\ Position /\ Applied /\ Stored /\ QShape

LEMMA Sizes ==
  ASSUME TypeOK
  PROVE  /\ k \in Nat /\ Below \in {0, 1} /\ j \in Nat /\ c \in Nat
         /\ k + Below <= m /\ k <= n
         /\ (kernel = "qr" => k = AtMost(m, n) /\ Below = 0)
         /\ (kernel = "hessenberg" => Below = 1 /\ k = AtLeast(n - 2, 0) /\ m = n)
         /\ Cells = Rows \X (0..n-1) /\ Rows = 0..m-1
  BY DEF TypeOK, k, Below, AtMost, AtLeast, Cells, Rows

(* One more reflector reaches exactly the rows and columns it acts on. *)
LEMMA NextFromLeft ==
  ASSUME Below \in {0, 1}, NEW h \in Nat, NEW r \in Nat, NEW s \in Nat
  PROVE  /\ FromLeft(h, r, s) \in Nat
         /\ FromLeft(h + 1, r, s) =
              IF r >= First(h) /\ s >= h THEN FromLeft(h, r, s) + 1 ELSE FromLeft(h, r, s)
  BY DEF FromLeft, AtLeast, AtMost, First

LEMMA NextFromRight ==
  ASSUME NEW h \in Nat, NEW s \in Nat
  PROVE  /\ FromRight(h, s) \in Nat
         /\ kernel = "hessenberg" =>
              FromRight(h + 1, s) = IF s >= h + 1 THEN FromRight(h, s) + 1 ELSE FromRight(h, s)
         /\ kernel = "qr" => FromRight(h, s) = 0
  BY DEF FromRight, AtMost

LEMMA ApplyCell ==
  ASSUME NEW count \in [Cells -> Nat], NEW S
  PROVE  /\ Apply(count, S) \in [Cells -> Nat]
         /\ \A x \in Cells : Apply(count, S)[x] = IF x \in S THEN count[x] + 1 ELSE count[x]
  BY DEF Apply

LEMMA InitIInv == Init => IInv
<1> SUFFICES ASSUME Init PROVE IInv
  OBVIOUS
<1>1. TypeOK
  BY OrderAssumption, KernelsAssumption
     DEF Init, TypeOK, k, AtMost, AtLeast
<1>2. \A r \in Rows, s \in 0..n-1 : FromLeft(0, r, s) = 0 /\ FromRight(0, s) = 0
  BY <1>1, Sizes DEF FromLeft, FromRight, AtLeast, AtMost
<1> QED
  BY <1>1, <1>2, Sizes DEF Init, IInv, Position, Applied, Stored, QShape, LeftReached, RightReached,
                  Generated, IsTail, Reducing, Applying, Cells

(* What an action leaves alone. *)
LEMMA SameCall ==
  ASSUME UNCHANGED call
  PROVE  /\ kernel' = kernel /\ m' = m /\ n' = n /\ want_z' = want_z
         /\ k' = k /\ Below' = Below /\ Rows' = Rows /\ Cells' = Cells
  BY DEF call, k, Below, Rows, Cells

(* What is left to show of the applied reflectors and of the storage. *)
LEMMA AppliedNext ==
  ASSUME UNCHANGED call,
         \A r \in Rows, s \in 0..n-1 :
           /\ left'[<<r, s>>] = FromLeft(LeftReached(s)', r, s)
           /\ right'[<<r, s>>] = FromRight(RightReached', s)
  PROVE  Applied'
  BY DEF Applied, FromLeft, FromRight, call, Rows, Below

LEMMA StoredNext ==
  ASSUME UNCHANGED call,
         \A r \in Rows, s \in 0..n-1 :
           holds'[<<r, s>>] =
             IF pc' = "done" /\ kernel = "hessenberg" THEN IF r >= s + 2 THEN "zero" ELSE "entry"
             ELSE IF s < Generated' /\ tau'[s] = 1 /\ r > First(s) THEN "tail" ELSE "entry"
  PROVE  Stored'
  BY DEF Stored, IsTail, First, Below, call, Rows

LEMMA StepIInv == IInv /\ [Next]_vars => IInv'
<1> SUFFICES ASSUME IInv, [Next]_vars PROVE IInv'
  OBVIOUS
<1>t. TypeOK /\ Position /\ Applied /\ Stored /\ QShape
  BY DEF IInv
<1>z. /\ k \in Nat /\ Below \in {0, 1} /\ j \in Nat /\ c \in Nat /\ j <= k
      /\ m \in Nat /\ n \in Nat /\ k <= n /\ kernel \in {"qr", "hessenberg"}
  BY <1>t, Sizes DEF TypeOK
<1>y. \A r \in Rows, s \in 0..n-1 : r \in Nat /\ s \in Nat /\ r < m /\ s < n /\ <<r, s>> \in Cells
  BY <1>z DEF Rows, Cells
<1>l. \A r \in Nat, s \in Nat :
        FromLeft(j + 1, r, s) =
          IF r >= First(j) /\ s >= j THEN FromLeft(j, r, s) + 1 ELSE FromLeft(j, r, s)
  <2>1. Below \in {0, 1} /\ j \in Nat
    BY <1>z
  <2> QED
    BY <2>1, NextFromLeft
<1>f. left \in [Cells -> Nat] /\ right \in [Cells -> Nat]
  BY <1>t DEF TypeOK
<1>a. /\ \A r \in Rows, s \in 0..n-1 : left[<<r, s>>] = FromLeft(LeftReached(s), r, s)
      /\ \A r \in Rows, s \in 0..n-1 : right[<<r, s>>] = FromRight(RightReached, s)
  BY <1>t DEF Applied
<1>s. \A r \in Rows, s \in 0..n-1 :
        holds[<<r, s>>] =
          IF pc = "done" /\ kernel = "hessenberg" THEN IF r >= s + 2 THEN "zero" ELSE "entry"
          ELSE IF s < Generated /\ tau[s] = 1 /\ r > First(s) THEN "tail" ELSE "entry"
  BY <1>t DEF Stored, IsTail
<1>1. CASE Skip
  <2>1. /\ pc = "generate" /\ pc' = "generate" /\ j < k /\ j' = j + 1 /\ c' = c
        /\ holds' = holds /\ tau' = tau /\ q' = q /\ UNCHANGED call
        /\ left' = Apply(left, (First(j)..m-1) \X (j..n-1))
        /\ right' = IF kernel = "qr" THEN right ELSE Apply(right, Rows \X (j+1..n-1))
    BY <1>1 DEF Skip
  <2>0. left' \in [Cells -> Nat] /\ right' \in [Cells -> Nat]
    BY <2>1, <1>f, ApplyCell
  <2>a. j' \in 0..k
    BY <2>1, <1>z
  <2>2. TypeOK'
    BY <2>0, <2>a, <2>1, <1>t, SameCall DEF TypeOK
  <2>3. Position'
    BY <2>1, <1>t, <1>z, SameCall DEF Position, Applying, Generated
  <2>4. ASSUME NEW r \in Rows, NEW s \in 0..n-1
        PROVE  /\ left'[<<r, s>>] = FromLeft(j + 1, r, s)
               /\ right'[<<r, s>>] = FromRight(j + 1, s)
    <3>1. <<r, s>> \in Cells /\ r \in Nat /\ s \in Nat /\ r < m /\ s < n
      BY <1>y
    <3>2. left[<<r, s>>] = FromLeft(j, r, s) /\ right[<<r, s>>] = FromRight(j, s)
      BY <1>a, <2>1 DEF LeftReached, RightReached, Reducing, Applying
    <3>3. <<r, s>> \in (First(j)..m-1) \X (j..n-1) <=> r >= First(j) /\ s >= j
      BY <3>1, <1>z DEF First
    <3>4. <<r, s>> \in Rows \X (j+1..n-1) <=> s >= j + 1
      BY <3>1, <1>z
    <3>5. left'[<<r, s>>] = IF r >= First(j) /\ s >= j THEN left[<<r, s>>] + 1 ELSE left[<<r, s>>]
      BY <2>1, <3>1, <3>3, <1>f, ApplyCell
    <3>6. kernel # "qr" =>
            right'[<<r, s>>] = IF s >= j + 1 THEN right[<<r, s>>] + 1 ELSE right[<<r, s>>]
      BY <2>1, <3>1, <3>4, <1>f, ApplyCell
    <3>7. kernel = "qr" => right'[<<r, s>>] = right[<<r, s>>]
      BY <2>1
    <3>8. FromLeft(j + 1, r, s) =
            IF r >= First(j) /\ s >= j THEN FromLeft(j, r, s) + 1 ELSE FromLeft(j, r, s)
      BY <3>1, <1>l
    <3>9. /\ kernel = "hessenberg" => FromRight(j + 1, s) =
               IF s >= j + 1 THEN FromRight(j, s) + 1 ELSE FromRight(j, s)
          /\ kernel = "qr" => FromRight(j + 1, s) = FromRight(j, s)
      <4>1. j + 1 \in Nat
        BY <1>z
      <4> QED
        BY <4>1, <3>1, <1>z, NextFromRight
    <3>10. kernel = "qr" \/ kernel = "hessenberg"
      BY <1>z
    <3>11. right'[<<r, s>>] = FromRight(j + 1, s)
      BY <3>2, <3>6, <3>7, <3>9, <3>10
    <3> QED
      BY <3>2, <3>5, <3>8, <3>11
  <2>5. Applied'
    BY <2>1, <2>4, AppliedNext DEF LeftReached, RightReached, Reducing, Applying
  <2>6. ASSUME NEW r \in Rows, NEW s \in 0..n-1
        PROVE  holds'[<<r, s>>] =
                 IF s < j + 1 /\ tau'[s] = 1 /\ r > First(s) THEN "tail" ELSE "entry"
    <3>1. s = j => tau[s] = 0
      BY <2>1, <1>t, <1>z DEF Position, Generated, Applying
    <3>2. s \in Nat
      BY <1>y
    <3>3. holds[<<r, s>>] = IF s < j /\ tau[s] = 1 /\ r > First(s) THEN "tail" ELSE "entry"
      BY <1>s, <2>1 DEF Generated, Applying
    <3>4. s < j + 1 <=> s < j \/ s = j
      BY <3>2, <1>z
    <3> QED
      BY <3>1, <3>3, <3>4, <2>1
  <2>7. Stored'
    BY <2>1, <2>6, StoredNext DEF Generated, Applying
  <2> QED
    BY <2>1, <2>2, <2>3, <2>5, <2>7 DEF IInv, QShape
<1>2. CASE Generate
  <2>1. /\ pc = "generate" /\ j < k /\ j' = j /\ c' = j + 1
        /\ pc' = (IF kernel = "qr" THEN "left" ELSE "right")
        /\ tau' = [tau EXCEPT ![j] = 1]
        /\ holds' = [x \in Cells |-> IF x \in Tail(j) \X {j} THEN "tail" ELSE holds[x]]
        /\ left' = Apply(left, (First(j)..m-1) \X {j})
        /\ right' = right /\ q' = q /\ UNCHANGED call
    BY <1>2 DEF Generate, FirstTrailing
  <2>a. Applying' /\ Generated' = j + 1 /\ Generated = j
        /\ RightReached' = (IF kernel = "qr" THEN j + 1 ELSE j)
        /\ \A s : LeftReached(s)' = IF s < j + 1 THEN j + 1 ELSE j
    BY <2>1, <1>z DEF Applying, Reducing, Generated, RightReached, LeftReached
  <2>0. left' \in [Cells -> Nat] /\ c' \in 0..n
    BY <2>1, <1>f, <1>z, ApplyCell
  <2>b. holds' \in [Cells -> {"entry", "tail", "zero"}]
    BY <2>1, <1>t DEF TypeOK
  <2>c. tau' \in [0..k-1 -> {0, 1}]
    BY <2>1, <1>t DEF TypeOK
  <2>2. TypeOK'
    BY <2>0, <2>b, <2>c, <2>1, <1>t, SameCall DEF TypeOK
  <2>3. Position'
    <3>1. \A h \in 0..k-1 : h >= j + 1 => tau'[h] = 0
      BY <2>1, <2>a, <1>t, <1>z DEF Position, TypeOK
    <3> QED
      BY <3>1, <2>1, <2>a, <1>z, SameCall DEF Position, Applying
  <2>4. ASSUME NEW r \in Rows, NEW s \in 0..n-1
        PROVE  /\ left'[<<r, s>>] = FromLeft(IF s < j + 1 THEN j + 1 ELSE j, r, s)
               /\ right'[<<r, s>>] = FromRight(IF kernel = "qr" THEN j + 1 ELSE j, s)
    <3>1. <<r, s>> \in Cells /\ r \in Nat /\ s \in Nat /\ r < m /\ s < n
      BY <1>y
    <3>2. left[<<r, s>>] = FromLeft(j, r, s) /\ right[<<r, s>>] = FromRight(j, s)
      BY <1>a, <2>1 DEF LeftReached, RightReached, Reducing, Applying
    <3>3. <<r, s>> \in (First(j)..m-1) \X {j} <=> r >= First(j) /\ s = j
      BY <3>1, <1>z DEF First
    <3>4. left'[<<r, s>>] = IF r >= First(j) /\ s = j THEN left[<<r, s>>] + 1 ELSE left[<<r, s>>]
      BY <2>1, <3>1, <3>3, <1>f, ApplyCell
    <3>5. FromLeft(j + 1, r, s) =
            IF r >= First(j) /\ s >= j THEN FromLeft(j, r, s) + 1 ELSE FromLeft(j, r, s)
      BY <3>1, <1>l
    <3>6. FromRight(j, s) = FromRight(IF kernel = "qr" THEN j + 1 ELSE j, s)
      BY DEF FromRight
    <3> QED
      BY <2>1, <3>1, <3>2, <3>4, <3>5, <3>6, <1>z
  <2>5. Applied'
    BY <2>1, <2>4, <2>a, AppliedNext
  <2>6. ASSUME NEW r \in Rows, NEW s \in 0..n-1
        PROVE  holds'[<<r, s>>] =
                 IF s < j + 1 /\ tau'[s] = 1 /\ r > First(s) THEN "tail" ELSE "entry"
    <3>1. <<r, s>> \in Cells /\ r \in Nat /\ s \in Nat /\ r < m /\ s < n
      BY <1>y
    <3>2. holds[<<r, s>>] = IF s < j /\ tau[s] = 1 /\ r > First(s) THEN "tail" ELSE "entry"
      BY <1>s, <2>1, <2>a
    <3>3. <<r, s>> \in Tail(j) \X {j} <=> r > First(j) /\ s = j
      BY <3>1, <1>z DEF Tail, First
    <3>4. holds'[<<r, s>>] = IF r > First(j) /\ s = j THEN "tail" ELSE holds[<<r, s>>]
      BY <2>1, <3>1, <3>3
    <3>5. /\ s = j => tau'[s] = 1
          /\ s < j => tau'[s] = tau[s]
      BY <2>1, <3>1, <1>t, <1>z DEF TypeOK
    <3> QED
      BY <3>1, <3>2, <3>4, <3>5, <1>z
  <2>7. Stored'
    BY <2>1, <2>6, <2>a, StoredNext
  <2> QED
    BY <2>1, <2>2, <2>3, <2>5, <2>7 DEF IInv, QShape
<1>3. CASE ApplyRight
  <2>1. /\ pc = "right" /\ pc' = "left" /\ j' = j /\ c' = c /\ kernel = "hessenberg" /\ c = j + 1
        /\ right' = Apply(right, Rows \X (j+1..n-1)) /\ j < k
        /\ left' = left /\ holds' = holds /\ tau' = tau /\ q' = q /\ UNCHANGED call
    BY <1>3, <1>t DEF ApplyRight, RightRows, Position, Applying
  <2>0. right' \in [Cells -> Nat]
    BY <2>1, <1>f, ApplyCell
  <2>2. TypeOK'
    BY <2>0, <2>1, <1>t, SameCall DEF TypeOK
  <2>3. Position'
    BY <2>1, <1>t, <1>z, SameCall DEF Position, Applying, Generated
  <2>4. ASSUME NEW r \in Rows, NEW s \in 0..n-1
        PROVE  right'[<<r, s>>] = FromRight(j + 1, s)
    <3>1. <<r, s>> \in Cells /\ r \in Nat /\ s \in Nat /\ r < m /\ s < n
      BY <1>y
    <3>2. right[<<r, s>>] = FromRight(j, s)
      BY <1>a, <2>1 DEF RightReached, Reducing, Applying
    <3>3. <<r, s>> \in Rows \X (j+1..n-1) <=> s >= j + 1
      BY <3>1, <1>z
    <3>4. right'[<<r, s>>] = IF s >= j + 1 THEN right[<<r, s>>] + 1 ELSE right[<<r, s>>]
      BY <2>1, <3>1, <3>3, <1>f, ApplyCell
    <3> QED
      BY <2>1, <3>1, <3>2, <3>4, <1>z, NextFromRight
  <2>5. Applied'
    BY <2>1, <2>4, <1>a, AppliedNext DEF LeftReached, RightReached, Reducing, Applying
  <2>6. Stored'
    BY <2>1, <1>s, StoredNext DEF Generated, Applying
  <2> QED
    BY <2>1, <2>2, <2>3, <2>5, <2>6 DEF IInv, QShape
<1>4. CASE ApplyLeft
  <2>1. /\ pc = "left" /\ pc' = "left" /\ j' = j /\ c < n /\ c' = c + 1 /\ j < k /\ c >= j + 1
        /\ left' = Apply(left, (First(j)..m-1) \X {c})
        /\ right' = right /\ holds' = holds /\ tau' = tau /\ q' = q /\ UNCHANGED call
    BY <1>4, <1>t DEF ApplyLeft, Position, Applying
  <2>0. left' \in [Cells -> Nat] /\ c' \in 0..n
    BY <2>1, <1>f, <1>z, ApplyCell
  <2>2. TypeOK'
    BY <2>0, <2>1, <1>t, SameCall DEF TypeOK
  <2>3. Position'
    BY <2>1, <1>t, <1>z, SameCall DEF Position, Applying, Generated
  <2>4. ASSUME NEW r \in Rows, NEW s \in 0..n-1
        PROVE  left'[<<r, s>>] = FromLeft(IF s < c + 1 THEN j + 1 ELSE j, r, s)
    <3>1. <<r, s>> \in Cells /\ r \in Nat /\ s \in Nat /\ r < m /\ s < n
      BY <1>y
    <3>2. left[<<r, s>>] = FromLeft(IF s < c THEN j + 1 ELSE j, r, s)
      BY <1>a, <2>1 DEF LeftReached, Reducing, Applying
    <3>3. <<r, s>> \in (First(j)..m-1) \X {c} <=> r >= First(j) /\ s = c
      BY <3>1, <1>z DEF First
    <3>4. left'[<<r, s>>] = IF r >= First(j) /\ s = c THEN left[<<r, s>>] + 1 ELSE left[<<r, s>>]
      BY <2>1, <3>1, <3>3, <1>f, ApplyCell
    <3>5. FromLeft(j + 1, r, s) =
            IF r >= First(j) /\ s >= j THEN FromLeft(j, r, s) + 1 ELSE FromLeft(j, r, s)
      BY <3>1, <1>l
    <3>6. CASE s = c
      BY <2>1, <3>1, <3>2, <3>4, <3>5, <3>6, <1>z
    <3>7. CASE s # c
      BY <2>1, <3>1, <3>2, <3>4, <3>7, <1>z
    <3> QED
      BY <3>6, <3>7
  <2>5. Applied'
    BY <2>1, <2>4, <1>a, AppliedNext DEF LeftReached, RightReached, Reducing, Applying
  <2>6. Stored'
    BY <2>1, <1>s, StoredNext DEF Generated, Applying
  <2> QED
    BY <2>1, <2>2, <2>3, <2>5, <2>6 DEF IInv, QShape
<1>5. CASE NextReflector
  <2>1. /\ pc = "left" /\ pc' = "generate" /\ c = n /\ j' = j + 1 /\ c' = c /\ j < k
        /\ UNCHANGED call /\ UNCHANGED <<holds, left, right, tau, q>>
    BY <1>5, <1>t DEF NextReflector, applied, Position, Applying
  <2>2. TypeOK'
    BY <2>1, <1>t, <1>z, SameCall DEF TypeOK
  <2>3. Position'
    BY <2>1, <1>t, SameCall DEF Position, Applying, Generated
  <2>4. Applied'
    <3>1. \A s \in 0..n-1 : LeftReached(s) = j + 1 /\ LeftReached(s)' = j + 1
      BY <2>1, <1>z DEF LeftReached, Reducing, Applying
    <3>2. RightReached = j + 1 /\ RightReached' = j + 1
      BY <2>1 DEF RightReached, Reducing, Applying
    <3> QED
      BY <2>1, <3>1, <3>2, <1>a, AppliedNext
  <2>5. Stored'
    BY <2>1, <1>s, StoredNext DEF Generated, Applying
  <2> QED
    BY <2>1, <2>2, <2>3, <2>4, <2>5 DEF IInv, QShape
<1>6. CASE Reduced
  <2>1. /\ pc = "generate" /\ j = k
        /\ pc' = (IF kernel = "qr" THEN "done" ELSE IF want_z THEN "identity" ELSE "clear")
        /\ UNCHANGED call /\ UNCHANGED <<j, c, holds, left, right, tau, q>>
    BY <1>6 DEF Reduced, applied
  <2>a. ~Applying /\ ~Applying' /\ pc' # "generate" /\ pc' \notin {"right", "left"}
        /\ pc' # "form" /\ (kernel = "hessenberg" => pc' # "done")
    BY <2>1 DEF Applying
  <2>2. TypeOK'
    BY <2>1, <1>t, SameCall DEF TypeOK
  <2>3. Position'
    BY <2>1, <2>a, <1>t, <1>z, SameCall DEF Position, Generated
  <2>4. Applied'
    BY <2>1, <2>a, <1>a, SameCall, AppliedNext DEF LeftReached, RightReached, Reducing, Applying
  <2>5. Stored'
    BY <2>1, <2>a, <1>s, SameCall, StoredNext DEF Generated
  <2> QED
    BY <2>2, <2>3, <2>4, <2>5, <2>a DEF IInv, QShape
<1>7. CASE FormQ
  <2>1. /\ pc = "identity" /\ pc' = "form" /\ j' = k /\ q' = {x \in Cells : x[1] = x[2]}
        /\ UNCHANGED call /\ UNCHANGED <<c, holds, left, right, tau>> /\ kernel = "hessenberg"
    BY <1>7, <1>t DEF FormQ, applied, Position
  <2>2. TypeOK' /\ Position'
    BY <2>1, <1>t, <1>z, SameCall DEF TypeOK, Position, Applying, Generated
  <2>3. QShape'
    BY <2>1, SameCall DEF QShape
  <2>4. Applied'
    BY <2>1, <1>a, SameCall, AppliedNext DEF LeftReached, RightReached, Reducing, Applying
  <2>5. Stored'
    BY <2>1, <1>s, SameCall, StoredNext DEF Generated, Applying
  <2> QED
    BY <2>2, <2>3, <2>4, <2>5 DEF IInv
<1>8. CASE Accumulate
  <2>1. /\ pc = "form" /\ pc' = "form" /\ j > 0 /\ j' = j - 1
        /\ q' = (IF tau[j - 1] = 0 THEN q ELSE q \union Mixed(j - 1))
        /\ UNCHANGED call /\ UNCHANGED <<c, holds, left, right, tau>> /\ kernel = "hessenberg"
    BY <1>8, <1>t DEF Accumulate, applied, QOrder, Position
  <2>b. m = n /\ Below = 1
    BY <2>1, <1>t DEF TypeOK, Below
  <2>2. \A x \in Mixed(j - 1) : x \in Cells /\ x[1] >= j /\ x[2] >= j
    BY <2>1, <2>b, <1>z DEF Mixed, First, Cells, Rows
  <2>3. q' \subseteq Cells /\ j' \in 0..k
    BY <2>1, <2>2, <1>t, <1>z DEF TypeOK
  <2>4. TypeOK' /\ Position'
    BY <2>1, <2>3, <1>t, SameCall DEF TypeOK, Position, Applying, Generated
  <2>5. ASSUME NEW r \in Rows, NEW s \in 0..n-1, <<r, s>> \in q'
        PROVE  r = s \/ (r >= j' + 1 /\ s >= j' + 1)
    <3>1. r \in Nat /\ s \in Nat
      BY <1>y
    <3>2. CASE <<r, s>> \in q
      BY <3>1, <3>2, <2>1, <1>t, <1>z DEF QShape
    <3>3. CASE <<r, s>> \in Mixed(j - 1)
      <4>1. r >= j /\ s >= j
        BY <3>3, <2>2
      <4> QED
        BY <4>1, <3>1, <2>1, <1>z
    <3> QED
      BY <3>2, <3>3, <2>1, <2>5
  <2>6. QShape'
    BY <2>1, <2>5, SameCall DEF QShape
  <2>7. Applied'
    BY <2>1, <1>a, SameCall, AppliedNext DEF LeftReached, RightReached, Reducing, Applying
  <2>8. Stored'
    BY <2>1, <1>s, SameCall, StoredNext DEF Generated, Applying
  <2> QED
    BY <2>4, <2>6, <2>7, <2>8 DEF IInv
<1>9. CASE QFormed
  <2>1. /\ pc = "form" /\ pc' = "clear" /\ kernel = "hessenberg"
        /\ UNCHANGED call /\ UNCHANGED <<j, c, holds, left, right, tau, q>>
    BY <1>9, <1>t DEF QFormed, applied, Position
  <2>2. TypeOK' /\ Position' /\ QShape'
    BY <2>1, <1>t, SameCall DEF TypeOK, Position, QShape, Applying, Generated
  <2>3. Applied'
    BY <2>1, <1>a, SameCall, AppliedNext DEF LeftReached, RightReached, Reducing, Applying
  <2>4. Stored'
    BY <2>1, <1>s, SameCall, StoredNext DEF Generated, Applying
  <2> QED
    BY <2>2, <2>3, <2>4 DEF IInv
<1>10. CASE Clear
  <2>1. /\ pc = "clear" /\ pc' = "done" /\ kernel = "hessenberg"
        /\ holds' = [x \in Cells |-> IF x \in Cleared THEN "zero" ELSE holds[x]]
        /\ UNCHANGED call /\ UNCHANGED <<j, c, left, right, tau, q>>
    BY <1>10, <1>t DEF Clear, applied, Position
  <2>0. holds' \in [Cells -> {"entry", "tail", "zero"}]
    BY <2>1, <1>t DEF TypeOK
  <2>2. TypeOK' /\ Position' /\ QShape'
    BY <2>0, <2>1, <1>t, SameCall DEF TypeOK, Position, QShape, Applying, Generated
  <2>3. Applied'
    BY <2>1, <1>a, SameCall, AppliedNext DEF LeftReached, RightReached, Reducing, Applying
  <2>4. ASSUME NEW r \in Rows, NEW s \in 0..n-1
        PROVE  holds'[<<r, s>>] = IF r >= s + 2 THEN "zero" ELSE "entry"
    <3>1. <<r, s>> \in Cells /\ (<<r, s>> \in Cleared <=> r >= s + 2) /\ r \in Nat /\ s \in Nat
      BY <1>y DEF Cleared
    <3>2. First(s) = s + 1
      BY <2>1 DEF First, Below
    <3>3. r < s + 2 => holds[<<r, s>>] = "entry"
      BY <2>1, <3>1, <3>2, <1>s
    <3> QED
      BY <2>1, <3>1, <3>3
  <2>5. Stored'
    BY <2>1, <2>4, StoredNext
  <2> QED
    BY <2>2, <2>3, <2>5 DEF IInv
<1>11. CASE UNCHANGED vars
  <2>1. UNCHANGED call /\ UNCHANGED <<pc, j, c, holds, left, right, tau, q>>
    BY <1>11 DEF vars, applied
  <2>2. TypeOK' /\ Position' /\ QShape'
    BY <2>1, <1>t, SameCall DEF TypeOK, Position, QShape, Applying, Generated
  <2>3. Applied'
    BY <2>1, <1>a, SameCall, AppliedNext DEF LeftReached, RightReached, Reducing, Applying
  <2>4. Stored'
    BY <2>1, <1>s, SameCall, StoredNext DEF Generated, Applying
  <2> QED
    BY <2>2, <2>3, <2>4 DEF IInv
<1> QED
  BY <1>1, <1>2, <1>3, <1>4, <1>5, <1>6, <1>7, <1>8, <1>9, <1>10, <1>11 DEF Next, Done

THEOREM InvariantHolds == Spec => []IInv
  BY InitIInv, StepIInv, PTL DEF Spec

(* Every variable stays in its range. *)
THEOREM TypeCorrect == Spec => []TypeOK
<1>1. IInv => TypeOK
  BY DEF IInv
<1> QED
  BY <1>1, InvariantHolds, PTL

(***************************************************************************)
(* For matrices of every shape and every pattern of identity reflectors, a *)
(* reflector combines only entries that all earlier ones have reached.     *)
(***************************************************************************)
THEOREM OperandsAreCurrent == Spec => []OperandsCurrent
<1>1. ASSUME IInv PROVE OperandsCurrent
  <2>0. TypeOK /\ Position /\ Applied
    BY <1>1 DEF IInv
  <2>z. /\ j \in Nat /\ c \in Nat /\ Below \in {0, 1} /\ Rows = 0..m-1
        /\ m \in Nat /\ n \in Nat /\ kernel \in {"qr", "hessenberg"}
    BY <2>0, Sizes DEF TypeOK
  <2>1. ASSUME pc = "right", NEW r \in Rows, NEW s \in j+1..n-1
        PROVE  right[<<r, s>>] = j /\ left[<<r, s>>] = AtMost(j, r)
    <3>1. /\ right[<<r, s>>] = FromRight(j, s) /\ left[<<r, s>>] = FromLeft(j, r, s)
          /\ Below = 1 /\ kernel = "hessenberg" /\ r \in Nat /\ s \in Nat
      BY <2>0, <2>1, Sizes DEF Applied, Position, RightReached, LeftReached, Reducing, Applying
    <3> QED
      BY <2>0, <3>1, Sizes DEF FromRight, FromLeft, AtMost, AtLeast
  <2>2. ASSUME pc = "left", c < n, NEW r \in First(j)..m-1
        PROVE  left[<<r, c>>] = j /\ (kernel = "hessenberg" => right[<<r, c>>] = j + 1)
    <3>0. c >= j + 1
      BY <2>0, <2>2 DEF Position, Applying
    <3>1. r \in Rows /\ c \in 0..n-1 /\ r >= j + Below
      BY <2>2, <2>z DEF First
    <3>2. right[<<r, c>>] = FromRight(j + 1, c) /\ left[<<r, c>>] = FromLeft(j, r, c)
      BY <2>0, <2>2, <2>z, <3>1 DEF Applied, RightReached, LeftReached, Reducing, Applying
    <3> QED
      BY <2>z, <3>0, <3>1, <3>2 DEF FromRight, FromLeft, AtMost, AtLeast
  <2> QED
    BY <2>1, <2>2 DEF OperandsCurrent
<1> QED
  BY <1>1, InvariantHolds, PTL

(***************************************************************************)
(* The factorization that is returned is the whole transformation, and the *)
(* iteration is handed an upper Hessenberg matrix.                         *)
(***************************************************************************)
THEOREM TransformationIsComplete == Spec => []TransformationComplete
<1>1. ASSUME IInv, ~Reducing, NEW r \in Rows, NEW s \in 0..n-1
      PROVE  IF r <= s + Below
             THEN /\ left[<<r, s>>] = Due(r - Below + 1)
                  /\ kernel = "hessenberg" => right[<<r, s>>] = Due(s)
                  /\ holds[<<r, s>>] = "entry"
             ELSE /\ holds[<<r, s>>] # "entry" \/ tau[s] = 0
                  /\ pc = "done" /\ kernel = "hessenberg" => holds[<<r, s>>] = "zero"
  <2>0. TypeOK /\ Position /\ Applied /\ Stored
    BY <1>1 DEF IInv
  <2>1. /\ left[<<r, s>>] = FromLeft(k, r, s) /\ right[<<r, s>>] = FromRight(k, s)
        /\ r \in Nat /\ s \in Nat
    BY <1>1, <2>0, Sizes DEF Applied, LeftReached, RightReached, Applying, Reducing
  <2>2. holds[<<r, s>>] =
          IF pc = "done" /\ kernel = "hessenberg" THEN IF r >= s + 2 THEN "zero" ELSE "entry"
          ELSE IF s < k /\ tau[s] = 1 /\ r > First(s) THEN "tail" ELSE "entry"
    BY <1>1, <2>0 DEF Stored, IsTail, Generated, Applying, Reducing
  <2>3. CASE r <= s + Below
    BY <2>0, <2>1, <2>2, <2>3, Sizes DEF FromLeft, FromRight, Due, AtMost, AtLeast, First
  <2>4. CASE r > s + Below
    <3>1. s < k
      <4>1. r < m /\ s < n /\ m \in Nat /\ n \in Nat
        BY <2>0, <2>1, Sizes DEF TypeOK
      <4>2. CASE kernel = "qr"
        BY <2>0, <2>1, <2>4, <4>1, <4>2, Sizes DEF AtMost
      <4>3. CASE kernel = "hessenberg"
        BY <2>0, <2>1, <2>4, <4>1, <4>3, Sizes DEF AtLeast
      <4> QED
        BY <4>2, <4>3, <2>0 DEF TypeOK
    <3>2. tau[s] \in {0, 1} /\ kernel \in {"qr", "hessenberg"}
      BY <2>0, <2>1, <3>1, Sizes DEF TypeOK
    <3> QED
      BY <2>0, <2>1, <2>2, <2>4, <3>1, <3>2, Sizes DEF First
  <2> QED
    BY <2>0, <2>1, <2>3, <2>4, Sizes
<1>2. ASSUME IInv PROVE TransformationComplete
  <2>1. TypeOK /\ (pc \notin {"generate", "right", "left"} <=> ~Reducing)
    BY <1>2 DEF IInv, Reducing, Applying
  <2>2. \A x \in Cells : x = <<x[1], x[2]>> /\ x[1] \in Rows /\ x[2] \in 0..n-1
    BY <2>1, Sizes
  <2> QED
    BY <1>1, <1>2, <2>1, <2>2 DEF TransformationComplete
<1> QED
  BY <1>2, InvariantHolds, PTL

(***************************************************************************)
(* The columns that the formation of Q skips would not have changed, and   *)
(* the reflectors it reads are still stored.                               *)
(***************************************************************************)
THEOREM SkippingIsSound == Spec => []SkippedColumnsUnaffected
<1>1. ASSUME IInv, pc = "form", j > 0, tau[QOrder(j - 1)] # 0
      PROVE  LET h == QOrder(j - 1)
             IN  /\ \A x \in (First(h)..n-1) \X (0..h) : x \notin q
                 /\ \A r \in Tail(h) : holds[<<r, h>>] = "tail"
  <2>0. TypeOK /\ Position /\ Stored /\ QShape /\ kernel = "hessenberg" /\ j \in 1..k
    BY <1>1 DEF IInv, Position, TypeOK
  <2>z. /\ j \in Nat /\ j >= 1 /\ j <= n /\ Below = 1 /\ Rows = 0..m-1
        /\ m = n /\ n \in Nat
    BY <2>0, Sizes DEF TypeOK
  <2>1. tau[j - 1] = 1 /\ QOrder(j - 1) = j - 1
    BY <1>1, <2>0, Sizes DEF QOrder, TypeOK
  <2>2. ASSUME NEW r \in First(j - 1)..n-1, NEW s \in 0..j-1
        PROVE  <<r, s>> \notin q
    <3>1. r \in Rows /\ s \in 0..n-1 /\ r # s /\ s < j + 1
      BY <2>2, <2>z DEF First
    <3> QED
      BY <1>1, <2>0, <2>z, <3>1 DEF QShape
  <2>3. ASSUME NEW r \in Tail(j - 1)
        PROVE  holds[<<r, j - 1>>] = "tail"
    <3>1. r \in Rows /\ j - 1 \in 0..n-1 /\ r > First(j - 1)
      BY <2>z, <2>3 DEF Tail, First
    <3> QED
      BY <1>1, <2>0, <2>1, <3>1, Sizes DEF Stored, IsTail, Generated, Applying
  <2> QED
    BY <2>1, <2>2, <2>3
<1>2. IInv => SkippedColumnsUnaffected
  BY <1>1 DEF SkippedColumnsUnaffected
<1> QED
  BY <1>2, InvariantHolds, PTL
=============================================================================
