----------------------------- MODULE Reflectors -----------------------------
(***************************************************************************)
(* The Householder kernels: the QR factorization (kernels/src/qr.rs), the  *)
(* Hessenberg reduction with the formation of its Q (hessenberg.rs, and    *)
(* hessenberg_cplx.rs with the same steps), and what the Schur pipelines   *)
(* of bench/src/lib.rs do around them: Q is formed from the reflectors     *)
(* stored below the subdiagonal before that part of the matrix is cleared. *)
(*                                                                         *)
(* Reflector h acts on the rows from First(h) on.  Of the numbers is kept  *)
(* how many reflectors have been applied to an entry from either side,     *)
(* what a place of the storage holds, and which entries of Q may be        *)
(* nonzero.  Where a reflector is the identity is a choice.                *)
(***************************************************************************)
EXTENDS Integers

CONSTANTS
  MaxN,      \* largest number of rows and columns considered
  Kernels    \* subset of {"qr", "hessenberg"}

ASSUME OrderAssumption == MaxN \in Nat
ASSUME KernelsAssumption == Kernels \subseteq {"qr", "hessenberg"}

VARIABLES
  kernel, m, n, want_z,   \* the call
  pc, j, c,               \* the reflector, the column it is applied to
  holds,         \* holds[<<r, c>>]: "entry", "tail" or "zero"
  left, right,   \* reflectors applied to the entry from the left, the right
  tau,           \* tau[h] = 0 stands for the identity
  q              \* entries of Q that may be nonzero

call == <<kernel, m, n, want_z>>
applied == <<left, right>>
vars == <<call, pc, j, c, holds, applied, tau, q>>

AtMost(a, b) == IF a <= b THEN a ELSE b
AtLeast(a, b) == IF a >= b THEN a ELSE b

Rows == 0..m-1
Cells == Rows \X (0..n-1)
Below == IF kernel = "qr" THEN 0 ELSE 1     \* the subdiagonals kept
k == IF kernel = "qr" THEN AtMost(m, n) ELSE AtLeast(n - 2, 0)
First(h) == h + Below
Tail(h) == First(h)+1..m-1

Init ==
  /\ kernel \in Kernels
  /\ m \in 1..MaxN /\ n \in 1..MaxN
  /\ kernel = "hessenberg" => m = n
  /\ want_z \in BOOLEAN /\ (kernel = "qr" => ~want_z)
  /\ pc = "generate"
  /\ j = 0 /\ c = 0
  /\ holds = [x \in Cells |-> "entry"]
  /\ left = [x \in Cells |-> 0] /\ right = [x \in Cells |-> 0]
  /\ tau = [h \in 0..k-1 |-> 0]
  /\ q = {}

(* H_j is applied to the given cells. *)
Apply(count, S) == [x \in Cells |-> IF x \in S THEN count[x] + 1 ELSE count[x]]

(***************************************************************************)
(* A zero tail: the column is reduced already and H_j is the identity.     *)
(* The last row has no tail.                                               *)
(***************************************************************************)
Skip ==
  /\ pc = "generate"
  /\ j < k
  /\ left' = Apply(left, (First(j)..m-1) \X (j..n-1))
  /\ right' = IF kernel = "qr" THEN right ELSE Apply(right, Rows \X (j+1..n-1))
  /\ j' = j + 1
  /\ UNCHANGED <<call, pc, c, holds, tau, q>>

(* The reflector of column j, stored where it puts the zeros. *)
FirstTrailing_Skipped == j + 2
FirstTrailing == j + 1

Generate ==
  /\ pc = "generate"
  /\ j < k
  /\ Tail(j) # {}
  /\ tau' = [tau EXCEPT ![j] = 1]
  /\ holds' = [x \in Cells |-> IF x \in Tail(j) \X {j} THEN "tail" ELSE holds[x]]
  /\ left' = Apply(left, (First(j)..m-1) \X {j})
  /\ pc' = IF kernel = "qr" THEN "left" ELSE "right"
  /\ c' = FirstTrailing
  /\ UNCHANGED <<call, j, right, q>>

(***************************************************************************)
(* Hessenberg only: H_j from the right, to all rows: the columns are       *)
(* gathered into work, then multiples of it are subtracted from each.      *)
(***************************************************************************)
RightRows_Trailing == First(j)..m-1
RightRows == Rows

ApplyRight ==
  /\ pc = "right"
  /\ right' = Apply(right, RightRows \X (j+1..n-1))
  /\ pc' = "left"
  /\ UNCHANGED <<call, j, c, holds, left, tau, q>>

ApplyLeft ==
  /\ pc = "left"
  /\ c < n
  /\ left' = Apply(left, (First(j)..m-1) \X {c})
  /\ c' = c + 1
  /\ UNCHANGED <<call, pc, j, holds, right, tau, q>>

NextReflector ==
  /\ pc = "left"
  /\ c = n
  /\ j' = j + 1
  /\ pc' = "generate"
  /\ UNCHANGED <<call, c, holds, applied, tau, q>>

Reduced ==
  /\ pc = "generate"
  /\ j = k
  /\ pc' = IF kernel = "qr" THEN "done" ELSE IF want_z THEN "identity" ELSE "clear"
  /\ UNCHANGED <<call, j, c, holds, applied, tau, q>>

-----------------------------------------------------------------------------
(***************************************************************************)
(* *_form_q: Q starts as the identity, and the reflectors are applied to   *)
(* its trailing columns from the last one back.                            *)
(***************************************************************************)
QOrder_Forward(h) == k - 1 - h
QOrder(h) == h

FormQ ==
  /\ pc = "identity"
  /\ q' = {x \in Cells : x[1] = x[2]}
  /\ j' = k
  /\ pc' = "form"
  /\ UNCHANGED <<call, c, holds, applied, tau>>

(* H_h applied to columns h+1, ..., n-1 of Q; nothing where tau[h] = 0. *)
Mixed(h) == {x \in (First(h)..n-1) \X (h+1..n-1) : \E r \in First(h)..n-1 : <<r, x[2]>> \in q}

Accumulate ==
  /\ pc = "form"
  /\ j > 0
  /\ LET h == QOrder(j - 1)
     IN  q' = IF tau[h] = 0 THEN q ELSE q \union Mixed(h)
  /\ j' = j - 1
  /\ UNCHANGED <<call, pc, c, holds, applied, tau>>

QFormed ==
  /\ pc = "form"
  /\ j = 0
  /\ pc' = "clear"
  /\ UNCHANGED <<call, j, c, holds, applied, tau, q>>

(* The pipelines clear everything below the first subdiagonal. *)
Cleared == {x \in Cells : x[1] >= x[2] + 2}

Clear ==
  /\ pc = "clear"
  /\ holds' = [x \in Cells |-> IF x \in Cleared THEN "zero" ELSE holds[x]]
  /\ pc' = "done"
  /\ UNCHANGED <<call, j, c, applied, tau, q>>

Done == pc = "done" /\ UNCHANGED vars

Next ==
  \/ Skip \/ Generate \/ ApplyRight \/ ApplyLeft \/ NextReflector \/ Reduced
  \/ FormQ \/ Accumulate \/ QFormed \/ Clear
  \/ Done

Spec == Init /\ [][Next]_vars

-----------------------------------------------------------------------------
(***************************************************************************)
(* Whenever a reflector is applied, the entries it combines are of the     *)
(* same stage: every earlier reflector has been applied to all of them,    *)
(* from both sides, and the reflector itself to none.                      *)
(***************************************************************************)
OperandsCurrent ==
  /\ pc = "right" => \A x \in Rows \X (j+1..n-1) :
       /\ right[x] = j
       /\ left[x] = AtMost(j, x[1])
  /\ pc = "left" /\ c < n => \A r \in First(j)..m-1 :
       /\ left[<<r, c>>] = j
       /\ kernel = "hessenberg" => right[<<r, c>>] = j + 1

(***************************************************************************)
(* The result is the whole transformation: on and above the kept           *)
(* subdiagonals every reflector that acts on the row has been applied from *)
(* the left, in the Hessenberg case every one that acts on the column from *)
(* the right, each once, and the reflectors are stored below.  What the QR *)
(* iteration is handed is upper Hessenberg with the computed subdiagonal.  *)
(***************************************************************************)
Due(h) == AtMost(k, AtLeast(h, 0))

TransformationComplete ==
  pc \notin {"generate", "right", "left"} =>
    \A x \in Cells :
      IF x[1] <= x[2] + Below
        THEN /\ left[x] = Due(x[1] - Below + 1)
             /\ kernel = "hessenberg" => right[x] = Due(x[2])
             /\ holds[x] = "entry"
        ELSE /\ holds[x] # "entry" \/ tau[x[2]] = 0
             /\ pc = "done" /\ kernel = "hessenberg" => holds[x] = "zero"

(***************************************************************************)
(* Forming Q may leave the columns before the trailing ones alone, as the  *)
(* comment of hessenberg_form_q says: they are still columns of the        *)
(* identity there, so the reflector would not change them; and the         *)
(* reflectors it reads are still stored.                                   *)
(***************************************************************************)
SkippedColumnsUnaffected ==
  pc = "form" /\ j > 0 /\ tau[QOrder(j - 1)] # 0 =>
    LET h == QOrder(j - 1)
    IN  /\ \A x \in (First(h)..n-1) \X (0..h) : x \notin q
        /\ \A r \in Tail(h) : holds[<<r, h>>] = "tail"
=============================================================================
