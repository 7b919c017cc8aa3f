------------------------------ MODULE LU_proofs ------------------------------
(***************************************************************************)
(* Theorems about LU, for every order, block width, crossover and base of  *)
(* the recursion, and every choice of pivots.                              *)
(*                                                                         *)
(* The proof is about what each task will have done when it is finished.   *)
(* Progress is counted per column: how many of the recorded swaps it has   *)
(* had, and how many elimination steps the entry at each position.  Every  *)
(* task is given its effect on this progress, and what it needs before; a  *)
(* task that consists of others has the effects of these in turn.          *)
(***************************************************************************)
EXTENDS LU, WellFoundedInduction, TLAPS

(***************************************************************************)
(* The progress made: p pivots are chosen, the rows from q on of b are     *)
(* divided, column c has had the first sw[c] swaps, and its entry at       *)
(* position i the steps before lev[c][i].                                  *)
(***************************************************************************)
Points == [p : 0..n, q : 0..n, sw : [Cols -> 0..n], lev : [Cols -> [Idx -> 0..n]]]

(* The steps before m that are due to the entry at position i of column c. *)
Due(m, c, i) == AtMost(i, AtMost(m, c))

(* Columns C come to have x swaps, the rows R of columns D the steps before m. *)
Becomes(s, t, p, q, C, x, D, R, m) ==
  /\ t \in Points /\ t.p = p /\ t.q = q
  /\ \A c \in Cols : t.sw[c] = IF c \in C THEN x ELSE s.sw[c]
  /\ \A c \in Cols, i \in Idx :
       t.lev[c][i] = IF c \in D /\ i \in R THEN Due(m, c, i) ELSE s.lev[c][i]

After(s, p, q, C, x, D, R, m) ==
  [p |-> p, q |-> q,
   sw |-> [c \in Cols |-> IF c \in C THEN x ELSE s.sw[c]],
   lev |-> [c \in Cols |-> [i \in Idx |-> IF c \in D /\ i \in R THEN Due(m, c, i) ELSE s.lev[c][i]]]]

(* Columns C, among them from, ..., to-1, are factored from step from to step to. *)
Panel(s, t, C, from, to) ==
  /\ from \in 0..n /\ to \in 0..n /\ from <= to
  /\ C \subseteq Idx /\ \A c \in Idx : from <= c /\ c < to => c \in C
  /\ s.p = from /\ s.q = n
  /\ \A c \in C : s.sw[c] = from /\ \A i \in Idx : s.lev[c][i] = Due(from, c, i)
  /\ Becomes(s, t, to, n, C, to, C, Idx, to)

(* Columns C catch up on the swaps k, ..., to-1; their lower rows are alike. *)
Swapping(s, t, k, to, C) ==
  /\ k \in 0..n /\ to \in 0..n /\ k <= to /\ to <= s.p /\ s.q = n
  /\ C \subseteq Cols
  /\ \A c \in C : s.sw[c] = k /\ (c < s.p => c < k)
  /\ \A c \in C, i, j \in Idx : i >= k /\ j >= k => s.lev[c][i] = s.lev[c][j]
  /\ Becomes(s, t, s.p, n, C, to, {}, {}, 0)

(* The rows d, ..., e-1 of columns C, which have had the steps before d, are solved for. *)
Substituting(s, t, d, e, C) ==
  /\ d \in 0..n /\ e \in 0..n /\ d <= e /\ e <= s.p /\ s.q = n
  /\ C \subseteq Cols /\ \A c \in C : c >= e
  /\ \A c \in C, i \in Idx : d <= i /\ i < e => s.lev[c][i] = d /\ s.sw[i] = s.sw[c]
  /\ \A j, i \in Idx : d <= j /\ j < e /\ d <= i /\ i < e => s.lev[j][i] = AtMost(i, j)
  /\ Becomes(s, t, s.p, n, {}, 0, C, {i \in Idx : d <= i /\ i < e}, e)

(* The steps a, ..., b-1 are applied to rows below them of columns right of them. *)
Eliminating(s, t, a, b, rows, C) ==
  /\ a \in 0..n /\ b \in 0..n /\ a <= b /\ b <= s.p /\ s.q = n
  /\ rows \subseteq Idx /\ \A i \in rows : i >= b
  /\ C \subseteq Cols /\ \A c \in C : c >= b
  /\ \A c \in C, i \in rows : s.lev[c][i] = a
  /\ \A c \in C, k \in Idx : a <= k /\ k < b => s.lev[c][k] = k /\ s.sw[k] = s.sw[c]
  /\ \A k \in Idx, i \in rows : a <= k /\ k < b => s.lev[k][i] = k
  /\ Becomes(s, t, s.p, n, {}, 0, C, rows, b)

(* The matrix is factored, and no column waits for a swap or a step. *)
MatrixDone(s) ==
  /\ s.p = n
  /\ \A c \in Idx : s.sw[c] = n /\ \A i \in Idx : s.lev[c][i] = Due(n, c, i)

SolvingB(s, t) ==
  /\ MatrixDone(s) /\ s.q = n
  /\ s.sw[n] = 0 /\ \A i \in Idx : s.lev[n][i] = 0
  /\ Becomes(s, t, n, 0, {n}, n, {n}, Idx, n)

(* b, too, is waiting for the divisions only. *)
RowsDone(s) ==
  MatrixDone(s) /\ s.sw[n] = n /\ \A i \in Idx : s.lev[n][i] = i

Dividing(s, t, k) ==
  /\ RowsDone(s) /\ k \in Idx /\ s.q = k + 1
  /\ Becomes(s, t, n, k, {}, 0, {}, {}, 0)

(* What each task does. *)
Does(x, s, t) ==
  \/ x.op = "block" /\ Panel(s, t, Idx, x.j, n)
  \/ x.op = "lu_rec" /\ x.d \in Nat /\ x.w \in Nat /\ Panel(s, t, x.d..x.d+x.w-1, x.d, x.d + x.w)
  \/ x.op = "column" /\ Panel(s, t, x.c0..x.c1-1, x.jc, x.jc + 1)
  \/ x.op = "swaps" /\ Swapping(s, t, x.k, x.to, x.cols)
  \/ x.op = "trsm_rec" /\ x.d \in Nat /\ x.k \in Nat
       /\ Substituting(s, t, x.d, x.d + x.k, x.c0..x.c1-1)
  \/ x.op = "update" /\ \E a, b \in 0..n : x.steps = a..b-1 /\ Eliminating(s, t, a, b, x.rows, x.cols)
  \/ x.op = "solve" /\ SolvingB(s, t)
  \/ x.op = "divide" /\ Dividing(s, t, x.k)

Tasks ==
  UNION { [op : {"block"}, j : Int], [op : {"lu_rec"}, d : Int, w : Int],
          [op : {"column"}, jc : Int, c0 : Int, c1 : Int],
          [op : {"swaps"}, k : Int, to : Int, cols : SUBSET Int],
          [op : {"trsm_rec"}, d : Int, k : Int, c0 : Int, c1 : Int],
          [op : {"update"}, steps : SUBSET Int, rows : SUBSET Int, cols : SUBSET Int],
          [op : {"solve"}], [op : {"divide"}, k : Int] }

(* The tasks lead from s to t, each doing what it does. *)
Path(s, tasks, t) ==
  \E f \in [0..Len(tasks) -> Points] :
    /\ f[0] = s /\ f[Len(tasks)] = t
    /\ \A j \in 1..Len(tasks) : Does(tasks[j], f[j-1], f[j])

-----------------------------------------------------------------------------
(* No tasks lead from a state of progress to itself. *)
LEMMA PathEmpty ==
  ASSUME NEW s \in Points
  PROVE  Path(s, <<>>, s)
<1> DEFINE f == [j \in {0} |-> s]
<1>1. f \in [0..0 -> Points] /\ f[0] = s /\ Len(<<>>) = 0
  OBVIOUS
<1>2. \A j \in 1..0 : FALSE
  OBVIOUS
<1> HIDE DEF f
<1> QED BY <1>1, <1>2 DEF Path

(* One task leads where its effect does. *)
LEMMA PathOne ==
  ASSUME NEW x, NEW s \in Points, NEW t \in Points, Does(x, s, t)
  PROVE  Path(s, <<x>>, t)
<1> DEFINE f == [j \in 0..1 |-> IF j = 0 THEN s ELSE t]
<1>1. f \in [0..1 -> Points] /\ f[0] = s /\ f[1] = t /\ Len(<<x>>) = 1 /\ <<x>>[1] = x
  OBVIOUS
<1>2. \A j \in 1..1 : j = 1 /\ j - 1 = 0
  OBVIOUS
<1> HIDE DEF f
<1> QED BY <1>1, <1>2 DEF Path

(* The tasks lead to a point. *)
LEMMA PathTo ==
  ASSUME NEW s, NEW tasks \in Seq(Tasks), NEW t, Path(s, tasks, t)
  PROVE  s \in Points /\ t \in Points
<1>1. Len(tasks) \in Nat
  OBVIOUS
<1> QED BY <1>1 DEF Path

(* The first task has its effect, and the others lead on from there. *)
LEMMA PathHead ==
  ASSUME NEW tasks \in Seq(Tasks), tasks # <<>>, NEW s, NEW u, Path(s, tasks, u)
  PROVE  \E t \in Points : Does(Head(tasks), s, t) /\ Path(t, Tail(tasks), u)
<1>1. PICK f \in [0..Len(tasks) -> Points] :
           /\ f[0] = s /\ f[Len(tasks)] = u
           /\ \A j \in 1..Len(tasks) : Does(tasks[j], f[j-1], f[j])
  BY DEF Path
<1>2. /\ Len(tasks) \in Nat /\ Len(tasks) >= 1 /\ Len(Tail(tasks)) = Len(tasks) - 1
      /\ Head(tasks) = tasks[1] /\ \A j \in 1..Len(tasks)-1 : Tail(tasks)[j] = tasks[j+1]
  OBVIOUS
<1> DEFINE g == [j \in 0..Len(tasks)-1 |-> f[j+1]]
<1>3. g \in [0..Len(tasks)-1 -> Points]
  BY <1>1, <1>2
<1>4. g[0] = f[1] /\ g[Len(tasks)-1] = u
  BY <1>1, <1>2
<1>5. \A j \in 1..Len(tasks)-1 : Does(Tail(tasks)[j], g[j-1], g[j])
  <2> TAKE j \in 1..Len(tasks)-1
  <2>1. j + 1 \in 1..Len(tasks) /\ (j + 1) - 1 = j /\ j - 1 \in 0..Len(tasks)-1
        /\ (j - 1) + 1 = j /\ j \in 0..Len(tasks)-1
    BY <1>2
  <2>2. g[j-1] = f[j] /\ g[j] = f[j+1]
    BY <2>1
  <2> QED BY <1>1, <1>2, <2>1, <2>2
<1> HIDE DEF g
<1>6. Path(f[1], Tail(tasks), u)
  BY <1>2, <1>3, <1>4, <1>5 DEF Path
<1>7. f[1] \in Points /\ Does(tasks[1], s, f[1])
  BY <1>1, <1>2
<1> QED BY <1>2, <1>6, <1>7

(* Tasks before other tasks. *)
LEMMA PathConcat ==
  ASSUME NEW A \in Seq(Tasks), NEW B \in Seq(Tasks), NEW s, NEW t, NEW u,
         Path(s, A, t), Path(t, B, u)
  PROVE  Path(s, A \o B, u)
<1>1. PICK f \in [0..Len(A) -> Points] :
           /\ f[0] = s /\ f[Len(A)] = t
           /\ \A j \in 1..Len(A) : Does(A[j], f[j-1], f[j])
  BY DEF Path
<1>2. PICK g \in [0..Len(B) -> Points] :
           /\ g[0] = t /\ g[Len(B)] = u
           /\ \A j \in 1..Len(B) : Does(B[j], g[j-1], g[j])
  BY DEF Path
<1>3. /\ Len(A) \in Nat /\ Len(B) \in Nat /\ Len(A \o B) = Len(A) + Len(B)
      /\ \A j \in 1..Len(A)+Len(B) : (A \o B)[j] = IF j <= Len(A) THEN A[j] ELSE B[j - Len(A)]
  OBVIOUS
<1> DEFINE h == [j \in 0..Len(A)+Len(B) |-> IF j <= Len(A) THEN f[j] ELSE g[j - Len(A)]]
<1>4. \A j \in 0..Len(A)+Len(B) : IF j <= Len(A) THEN j \in 0..Len(A) ELSE j - Len(A) \in 0..Len(B)
  BY <1>3
<1>5. h \in [0..Len(A)+Len(B) -> Points]
  BY <1>1, <1>2, <1>4
<1>6. h[0] = s /\ h[Len(A)+Len(B)] = u
  <2>1. h[0] = f[0]
    BY <1>3
  <2>2. CASE Len(B) = 0
    BY <1>1, <1>2, <1>3, <2>1, <2>2
  <2>3. CASE Len(B) # 0
    <3>1. h[Len(A)+Len(B)] = g[(Len(A)+Len(B)) - Len(A)]
      BY <1>3, <2>3
    <3>2. (Len(A)+Len(B)) - Len(A) = Len(B)
      BY <1>3
    <3> QED BY <1>1, <1>2, <2>1, <3>1, <3>2
  <2> QED BY <2>2, <2>3
<1>7. \A j \in 1..Len(A)+Len(B) : Does((A \o B)[j], h[j-1], h[j])
  <2> TAKE j \in 1..Len(A)+Len(B)
  <2>1. CASE j <= Len(A)
    <3>1. j \in 1..Len(A) /\ (A \o B)[j] = A[j]
      BY <1>3, <2>1
    <3>2. h[j] = f[j] /\ h[j-1] = f[j-1]
      BY <1>3, <2>1
    <3> QED BY <1>1, <3>1, <3>2
  <2>2. CASE j > Len(A)
    <3> DEFINE l == j - Len(A)
    <3>1. l \in 1..Len(B) /\ (A \o B)[j] = B[l] /\ l - 1 = (j - 1) - Len(A)
      BY <1>3, <2>2
    <3>2. h[j] = g[l]
      BY <1>3, <2>2
    <3>3. h[j-1] = g[l-1]
      <4>1. CASE j - 1 = Len(A)
        <5>1. h[j-1] = f[Len(A)] /\ l - 1 = 0
          BY <1>3, <4>1
        <5> QED BY <1>1, <1>2, <5>1
      <4>2. CASE j - 1 # Len(A)
        <5>1. h[j-1] = g[(j-1) - Len(A)]
          BY <1>3, <2>2, <4>2
        <5> QED BY <3>1, <5>1
      <4> QED BY <4>1, <4>2
    <3> HIDE DEF l, h
    <3> QED BY <1>2, <3>1, <3>2, <3>3
  <2> QED BY <1>3, <2>1, <2>2
<1> HIDE DEF h
<1> QED BY <1>3, <1>5, <1>6, <1>7 DEF Path

(* Two, three and six tasks in a row. *)
LEMMA PathTwo ==
  ASSUME NEW x1 \in Tasks, NEW x2 \in Tasks,
         NEW s0 \in Points, NEW s1 \in Points, NEW s2 \in Points,
         Does(x1, s0, s1), Does(x2, s1, s2)
  PROVE  Path(s0, <<x1, x2>>, s2) /\ <<x1, x2>> \in Seq(Tasks)
<1> DEFINE tasks == <<x1, x2>>
           f == [j \in 0..2 |-> IF j = 0 THEN s0 ELSE IF j = 1 THEN s1 ELSE s2]
<1>1. Len(tasks) = 2 /\ tasks[1] = x1 /\ tasks[2] = x2 /\ tasks \in Seq(Tasks)
  OBVIOUS
<1>2. f \in [0..2 -> Points] /\ f[0] = s0 /\ f[1] = s1 /\ f[2] = s2
  OBVIOUS
<1>3. \A j \in 1..2 : (j = 1 /\ j - 1 = 0) \/ (j = 2 /\ j - 1 = 1)
  OBVIOUS
<1> HIDE DEF f, tasks
<1>4. \A j \in 1..2 : Does(tasks[j], f[j-1], f[j])
  BY <1>1, <1>2, <1>3
<1>5. Path(s0, tasks, s2)
  BY <1>1, <1>2, <1>4 DEF Path
<1> QED BY <1>1, <1>5 DEF tasks

LEMMA PathThree ==
  ASSUME NEW x1 \in Tasks, NEW x2 \in Tasks, NEW x3 \in Tasks,
         NEW s0 \in Points, NEW s1 \in Points, NEW s2 \in Points, NEW s3 \in Points,
         Does(x1, s0, s1), Does(x2, s1, s2), Does(x3, s2, s3)
  PROVE  Path(s0, <<x1, x2, x3>>, s3) /\ <<x1, x2, x3>> \in Seq(Tasks)
<1> DEFINE tasks == <<x1, x2, x3>>
           f == [j \in 0..3 |-> IF j = 0 THEN s0 ELSE IF j = 1 THEN s1 ELSE IF j = 2 THEN s2 ELSE s3]
<1>1. /\ Len(tasks) = 3 /\ tasks[1] = x1 /\ tasks[2] = x2 /\ tasks[3] = x3
      /\ tasks \in Seq(Tasks)
  OBVIOUS
<1>2. f \in [0..3 -> Points] /\ f[0] = s0 /\ f[1] = s1 /\ f[2] = s2 /\ f[3] = s3
  OBVIOUS
<1>3. \A j \in 1..3 : (j = 1 /\ j - 1 = 0) \/ (j = 2 /\ j - 1 = 1) \/ (j = 3 /\ j - 1 = 2)
  OBVIOUS
<1> HIDE DEF f, tasks
<1>4. \A j \in 1..3 : Does(tasks[j], f[j-1], f[j])
  BY <1>1, <1>2, <1>3
<1>5. Path(s0, tasks, s3)
  BY <1>1, <1>2, <1>4 DEF Path
<1> QED BY <1>1, <1>5 DEF tasks

LEMMA PathSix ==
  ASSUME NEW x1 \in Tasks, NEW x2 \in Tasks, NEW x3 \in Tasks, NEW x4 \in Tasks,
         NEW x5 \in Tasks, NEW x6 \in Tasks,
         NEW s0 \in Points, NEW s1 \in Points, NEW s2 \in Points, NEW s3 \in Points,
         NEW s4 \in Points, NEW s5 \in Points, NEW s6 \in Points,
         Does(x1, s0, s1), Does(x2, s1, s2), Does(x3, s2, s3), Does(x4, s3, s4),
         Does(x5, s4, s5), Does(x6, s5, s6)
  PROVE  /\ Path(s0, <<x1, x2, x3, x4, x5, x6>>, s6)
         /\ <<x1, x2, x3, x4, x5, x6>> \in Seq(Tasks)
<1> DEFINE tasks == <<x1, x2, x3, x4, x5, x6>>
           f == [j \in 0..6 |-> IF j = 0 THEN s0 ELSE IF j = 1 THEN s1 ELSE IF j = 2 THEN s2
                                ELSE IF j = 3 THEN s3 ELSE IF j = 4 THEN s4
                                ELSE IF j = 5 THEN s5 ELSE s6]
<1>1. /\ Len(tasks) = 6 /\ tasks[1] = x1 /\ tasks[2] = x2 /\ tasks[3] = x3
      /\ tasks[4] = x4 /\ tasks[5] = x5 /\ tasks[6] = x6 /\ tasks \in Seq(Tasks)
  OBVIOUS
<1>2. /\ f \in [0..6 -> Points] /\ f[0] = s0 /\ f[1] = s1 /\ f[2] = s2 /\ f[3] = s3
      /\ f[4] = s4 /\ f[5] = s5 /\ f[6] = s6
  OBVIOUS
<1>3. \A j \in 1..6 : \/ (j = 1 /\ j - 1 = 0) \/ (j = 2 /\ j - 1 = 1) \/ (j = 3 /\ j - 1 = 2)
                      \/ (j = 4 /\ j - 1 = 3) \/ (j = 5 /\ j - 1 = 4) \/ (j = 6 /\ j - 1 = 5)
  OBVIOUS
<1> HIDE DEF f, tasks
<1>4. \A j \in 1..6 : Does(tasks[j], f[j-1], f[j])
  BY <1>1, <1>2, <1>3
<1>5. Path(s0, tasks, s6)
  BY <1>1, <1>2, <1>4 DEF Path
<1> QED BY <1>1, <1>5 DEF tasks

-----------------------------------------------------------------------------
(* Rows and columns are numbers below n; column n is b. *)
LEMMA Ranges ==
  ASSUME n \in Nat
  PROVE  /\ \A i : i \in Idx <=> i \in Int /\ 0 <= i /\ i < n
         /\ \A c : c \in Cols <=> c \in Int /\ 0 <= c /\ c <= n
         /\ n \in Cols /\ n \notin Idx /\ Idx \subseteq Cols /\ Cols = 0..n
BY DEF Idx, Cols

(* Steps that are due are within the matrix. *)
LEMMA DueRange ==
  ASSUME n \in Nat, NEW m \in 0..n, NEW c \in Cols, NEW i \in Idx
  PROVE  /\ Due(m, c, i) \in 0..n
         /\ Due(m, c, i) <= m /\ Due(m, c, i) <= c /\ Due(m, c, i) <= i
         /\ Due(m, c, i) = m \/ Due(m, c, i) = c \/ Due(m, c, i) = i
BY DEF Idx, Cols, Due, AtMost

(* What a state of progress consists of. *)
LEMMA PointFields ==
  ASSUME NEW s \in Points
  PROVE  /\ s.p \in 0..n /\ s.q \in 0..n /\ s.sw \in [Cols -> 0..n]
         /\ s.lev \in [Cols -> [Idx -> 0..n]]
         /\ \A c \in Cols : s.sw[c] \in 0..n
         /\ \A c \in Cols, i \in Idx : s.lev[c][i] \in 0..n
<1>1. /\ s.p \in 0..n /\ s.q \in 0..n /\ s.sw \in [Cols -> 0..n]
      /\ s.lev \in [Cols -> [Idx -> 0..n]]
  BY DEF Points
<1> QED BY <1>1

(* Progress is the same when its parts are. *)
LEMMA PointsEqual ==
  ASSUME NEW s \in Points, NEW t \in Points, s.p = t.p, s.q = t.q,
         \A c \in Cols : s.sw[c] = t.sw[c],
         \A c \in Cols, i \in Idx : s.lev[c][i] = t.lev[c][i]
  PROVE  s = t
<1>1. s.sw = t.sw
  <2>1. s.sw \in [Cols -> 0..n] /\ t.sw \in [Cols -> 0..n]
    BY PointFields
  <2> QED BY <2>1
<1>2. s.lev = t.lev
  <2>1. s.lev \in [Cols -> [Idx -> 0..n]] /\ t.lev \in [Cols -> [Idx -> 0..n]]
    BY PointFields
  <2>2. ASSUME NEW c \in Cols PROVE s.lev[c] = t.lev[c]
    <3>1. s.lev[c] \in [Idx -> 0..n] /\ t.lev[c] \in [Idx -> 0..n]
      BY <2>1
    <3>2. \A i \in Idx : s.lev[c][i] = t.lev[c][i]
      OBVIOUS
    <3> QED BY <3>1, <3>2
  <2> QED BY <2>1, <2>2
<1> QED BY <1>1, <1>2 DEF Points

(* The progress a task is to make exists. *)
LEMMA AfterBecomes ==
  ASSUME n \in Nat, NEW s \in Points, NEW p \in 0..n, NEW q \in 0..n, NEW C, NEW x \in 0..n,
         NEW D, NEW R, NEW m \in 0..n
  PROVE  /\ Becomes(s, After(s, p, q, C, x, D, R, m), p, q, C, x, D, R, m)
         /\ After(s, p, q, C, x, D, R, m) \in Points
<1> DEFINE t == After(s, p, q, C, x, D, R, m)
           sw == [c \in Cols |-> IF c \in C THEN x ELSE s.sw[c]]
           lev == [c \in Cols |-> [i \in Idx |-> IF c \in D /\ i \in R THEN Due(m, c, i) ELSE s.lev[c][i]]]
<1>1. t = [p |-> p, q |-> q, sw |-> sw, lev |-> lev]
  BY DEF After
<1>2. sw \in [Cols -> 0..n]
  BY PointFields
<1>3. lev \in [Cols -> [Idx -> 0..n]]
  <2>1. \A c \in Cols, i \in Idx : (IF c \in D /\ i \in R THEN Due(m, c, i) ELSE s.lev[c][i]) \in 0..n
    BY PointFields, DueRange
  <2> QED BY <2>1
<1>4. /\ \A c \in Cols : sw[c] = IF c \in C THEN x ELSE s.sw[c]
      /\ \A c \in Cols, i \in Idx :
           lev[c][i] = IF c \in D /\ i \in R THEN Due(m, c, i) ELSE s.lev[c][i]
  OBVIOUS
<1> HIDE DEF sw, lev, t
<1>5. t \in Points
  BY <1>1, <1>2, <1>3 DEF Points
<1>6. t.p = p /\ t.q = q /\ t.sw = sw /\ t.lev = lev
  BY <1>1
<1>7. Becomes(s, t, p, q, C, x, D, R, m)
  BY <1>4, <1>5, <1>6 DEF Becomes
<1> QED BY <1>5, <1>7 DEF t

-----------------------------------------------------------------------------
(* A panel is factored by its columns. *)
LEMMA ColumnsFactorPanel ==
  ASSUME n \in Nat, NEW d \in Nat, NEW w \in Nat, NEW s \in Points, NEW t,
         Panel(s, t, d..d+w-1, d, d + w)
  PROVE  Path(s, Columns(d, w), t) /\ Columns(d, w) \in Seq(Tasks)
<1> DEFINE C == d..d+w-1
           f == [k \in 0..w |-> After(s, d + k, n, C, d + k, C, Idx, d + k)]
<1>1. /\ d + w <= n /\ s.p = d /\ s.q = n /\ t \in Points
      /\ C \subseteq Idx
      /\ \A c \in C : s.sw[c] = d /\ \A i \in Idx : s.lev[c][i] = Due(d, c, i)
      /\ Becomes(s, t, d + w, n, C, d + w, C, Idx, d + w)
  BY DEF Panel, Becomes
<1>2. \A k \in 0..w : d + k \in 0..n
  BY <1>1
<1>3. \A k \in 0..w : Becomes(s, f[k], d + k, n, C, d + k, C, Idx, d + k)
  <2> TAKE k \in 0..w
  <2>1. f[k] = After(s, d + k, n, C, d + k, C, Idx, d + k)
    OBVIOUS
  <2> HIDE DEF f, C
  <2>2. d + k \in 0..n /\ n \in 0..n
    BY <1>2
  <2>3. Becomes(s, After(s, d + k, n, C, d + k, C, Idx, d + k), d + k, n, C, d + k, C, Idx, d + k)
    BY <2>2, AfterBecomes
  <2> QED BY <2>1, <2>3
<1>4. f \in [0..w -> Points]
  <2>1. \A k \in 0..w : f[k] \in Points
    <3> HIDE DEF f
    <3> QED BY <1>3 DEF Becomes
  <2> QED BY <2>1
<1> HIDE DEF f
<1>5. f[0] = s
  <2>1. 0 \in 0..w /\ d + 0 = d
    OBVIOUS
  <2>2. Becomes(s, f[0], d, n, C, d, C, Idx, d)
    BY <1>3, <2>1
  <2> HIDE DEF C
  <2>3. /\ f[0] \in Points /\ f[0].p = d /\ f[0].q = n
        /\ \A c \in Cols : f[0].sw[c] = s.sw[c]
        /\ \A c \in Cols, i \in Idx : f[0].lev[c][i] = s.lev[c][i]
    BY <1>1, <2>2 DEF Becomes
  <2> QED BY <1>1, <2>3, PointsEqual
<1>6. f[w] = t
  <2>2. Becomes(s, f[w], d + w, n, C, d + w, C, Idx, d + w)
    BY <1>3
  <2> HIDE DEF C
  <2>3. /\ f[w] \in Points /\ f[w].p = t.p /\ f[w].q = t.q
        /\ \A c \in Cols : f[w].sw[c] = t.sw[c]
        /\ \A c \in Cols, i \in Idx : f[w].lev[c][i] = t.lev[c][i]
    BY <1>1, <2>2 DEF Becomes
  <2> QED BY <1>1, <2>3, PointsEqual
<1>7. /\ Len(Columns(d, w)) = w
      /\ \A k \in 1..w : Columns(d, w)[k] = Column(d + k - 1, d, d + w)
      /\ Columns(d, w) \in Seq(Tasks)
  <2>1. \A k \in 1..w : Column(d + k - 1, d, d + w) \in Tasks
    BY DEF Column, Tasks
  <2> QED BY <2>1 DEF Columns
<1>8. \A k \in 1..w : Does(Columns(d, w)[k], f[k-1], f[k])
  <2> TAKE k \in 1..w
  <2> DEFINE from == d + (k - 1)
             to == d + k
             x == Column(from, d, d + w)
  <2>1. /\ k - 1 \in 0..w /\ k \in 0..w /\ d + k - 1 = from /\ from + 1 = to
        /\ from \in Int /\ to \in Int /\ d <= from /\ from < d + w /\ from \in 0..n /\ to \in 0..n
        /\ from <= to
    BY <1>1
  <2>2. /\ Becomes(s, f[k-1], from, n, C, from, C, Idx, from)
        /\ Becomes(s, f[k], to, n, C, to, C, Idx, to)
    BY <1>3, <2>1
  <2>3. /\ \A c \in Idx : from <= c /\ c < to => c \in C
        /\ C \subseteq Cols
    <3>1. C = d..d+w-1 /\ d + w <= n
      BY <1>1
    <3>2. from \in Int /\ to \in Int /\ d <= from /\ to <= d + w
      BY <2>1
    <3> HIDE DEF from, to, x, C
    <3>3. \A c \in Idx : from <= c /\ c < to => c \in C
      BY <3>1, <3>2, Ranges
    <3>4. C \subseteq Cols
      BY <3>1, Ranges
    <3> QED BY <3>3, <3>4
  <2>4. x.op = "column" /\ x.jc = from /\ x.c0 = d /\ x.c1 = d + w
    BY DEF Column
  <2>5. Columns(d, w)[k] = x
    BY <1>7, <2>1
  <2>6. x.c0..x.c1-1 = C
    BY <2>4
  <2> HIDE DEF C, from, to, x
  <2>7. /\ f[k-1].p = from /\ f[k-1].q = n
        /\ \A c \in C : f[k-1].sw[c] = from /\ \A i \in Idx : f[k-1].lev[c][i] = Due(from, c, i)
    BY <2>2, <2>3 DEF Becomes
  <2>8. Becomes(f[k-1], f[k], to, n, C, to, C, Idx, to)
    BY <2>2 DEF Becomes
  <2>9. Panel(f[k-1], f[k], C, from, to)
    BY <1>1, <2>1, <2>3, <2>7, <2>8 DEF Panel
  <2> QED BY <2>1, <2>4, <2>5, <2>6, <2>9 DEF Does
<1> QED BY <1>4, <1>5, <1>6, <1>7, <1>8 DEF Path

(* A triangular solve by its rows: the steps are taken one after the other. *)
LEMMA SubstitutionsSolve ==
  ASSUME n \in Nat, NEW d \in Nat, NEW w \in Nat, NEW c0 \in Int, NEW c1 \in Int,
         NEW s \in Points, NEW t, Substituting(s, t, d, d + w, c0..c1-1)
  PROVE  Path(s, Substitutions(d, w, c0, c1), t) /\ Substitutions(d, w, c0, c1) \in Seq(Tasks)
<1> DEFINE C == c0..c1-1
           e == d + w
           R == {i \in Idx : d <= i /\ i < e}
           f == [k \in 0..w |-> After(s, s.p, n, {}, 0, C, R, d + k)]
<1>0. e \in Int /\ e = d + w
  OBVIOUS
<1> HIDE DEF e
<1>1. /\ e \in 0..n /\ d <= e /\ e <= s.p /\ s.p \in 0..n /\ s.q = n /\ t \in Points
      /\ C \subseteq Cols /\ \A c \in C : c >= e
      /\ \A c \in C, i \in R : s.lev[c][i] = d /\ s.sw[i] = s.sw[c]
      /\ \A j, i \in R : s.lev[j][i] = AtMost(i, j)
      /\ Becomes(s, t, s.p, n, {}, 0, C, R, e)
  <2>1. Substituting(s, t, d, e, C)
    BY <1>0
  <2> HIDE DEF C
  <2> QED BY <2>1, PointFields DEF Substituting, Becomes
<1> HIDE DEF C
<1>2. \A k \in 0..w : d + k \in 0..n /\ d + k \in Int
  BY <1>0, <1>1
<1>i. /\ \A i : i \in R <=> i \in Int /\ d <= i /\ i < e /\ i \in Idx
      /\ \A i : i \in Idx <=> i \in Int /\ 0 <= i /\ i < n
      /\ \A c \in C : c \in Int /\ c >= e /\ c \in Cols
  BY <1>1, Ranges
<1> HIDE DEF R
<1>3. \A k \in 0..w : Becomes(s, f[k], s.p, n, {}, 0, C, R, d + k)
  <2> TAKE k \in 0..w
  <2>1. f[k] = After(s, s.p, n, {}, 0, C, R, d + k)
    OBVIOUS
  <2>2. 0 \in 0..n /\ n \in 0..n
    OBVIOUS
  <2> HIDE DEF f
  <2> QED BY <1>1, <1>2, <2>1, <2>2, AfterBecomes
<1>4. f \in [0..w -> Points]
  <2>1. \A k \in 0..w : f[k] \in Points
    <3> HIDE DEF f
    <3> QED BY <1>3 DEF Becomes
  <2> QED BY <2>1
<1> HIDE DEF f
<1>5. f[0] = s
  <2>1. 0 \in 0..w /\ d + 0 = d
    OBVIOUS
  <2>2. Becomes(s, f[0], s.p, n, {}, 0, C, R, d)
    BY <1>3, <2>1
  <2>3. \A c \in C, i \in R : Due(d, c, i) = d
    BY <1>1, <1>i DEF Due, AtMost
  <2>4. /\ f[0] \in Points /\ f[0].p = s.p /\ f[0].q = n
        /\ \A c \in Cols : f[0].sw[c] = s.sw[c]
        /\ \A c \in Cols, i \in Idx : f[0].lev[c][i] = s.lev[c][i]
    BY <1>1, <2>2, <2>3 DEF Becomes
  <2> QED BY <1>1, <2>4, PointsEqual
<1>6. f[w] = t
  <2>2. Becomes(s, f[w], s.p, n, {}, 0, C, R, e)
    BY <1>0, <1>3
  <2>3. /\ f[w] \in Points /\ f[w].p = t.p /\ f[w].q = t.q
        /\ \A c \in Cols : f[w].sw[c] = t.sw[c]
        /\ \A c \in Cols, i \in Idx : f[w].lev[c][i] = t.lev[c][i]
    BY <1>1, <2>2 DEF Becomes
  <2> QED BY <1>1, <2>3, PointsEqual
<1>7. /\ Len(Substitutions(d, w, c0, c1)) = w
      /\ \A k \in 1..w : Substitutions(d, w, c0, c1)[k] = Axpy(d + k - 1, d+k..d+w-1, C)
      /\ Substitutions(d, w, c0, c1) \in Seq(Tasks)
  <2>1. \A k \in 1..w : Axpy(d + k - 1, d+k..d+w-1, c0..c1-1) \in Tasks
    <3> TAKE k \in 1..w
    <3>1. {d + k - 1} \in SUBSET Int /\ d+k..d+w-1 \in SUBSET Int /\ c0..c1-1 \in SUBSET Int
      OBVIOUS
    <3> QED BY <3>1 DEF Axpy, Tasks
  <2> QED BY <2>1 DEF Substitutions, C
<1>8. \A k \in 1..w : Does(Substitutions(d, w, c0, c1)[k], f[k-1], f[k])
  <2> TAKE k \in 1..w
  <2> DEFINE a == d + (k - 1)
             b == d + k
             rows == b..d+w-1
             x == Axpy(a, rows, C)
             s1 == f[k-1]
             t1 == f[k]
  <2>1. /\ k - 1 \in 0..w /\ k \in 0..w /\ d + k - 1 = a /\ a + 1 = b
        /\ a \in Int /\ b \in Int /\ d <= a /\ a < e /\ b <= e /\ a \in 0..n /\ b \in 0..n /\ a <= b
    BY <1>0, <1>1
  <2>2. /\ Becomes(s, s1, s.p, n, {}, 0, C, R, a)
        /\ Becomes(s, t1, s.p, n, {}, 0, C, R, b)
    BY <1>3, <2>1
  <2>3. Substitutions(d, w, c0, c1)[k] = x
    BY <1>7, <2>1
  <2>4. x.op = "update" /\ x.steps = a..b-1 /\ x.rows = rows /\ x.cols = C
    BY <2>1 DEF Axpy
  <2>5. \A i : i \in rows <=> i \in Int /\ b <= i /\ i < e
    BY <1>0, <2>1
  <2> HIDE DEF a, b, rows, x, s1, t1
  <2>6. rows \subseteq R /\ rows \subseteq Idx
    BY <1>1, <1>i, <2>1, <2>5
  <2>7. \A c \in C, i \in rows : s1.lev[c][i] = a
    <3>1. \A c \in C, i \in rows : s1.lev[c][i] = Due(a, c, i)
      BY <1>i, <2>2, <2>6 DEF Becomes
    <3>2. \A c \in C, i \in rows : Due(a, c, i) = a
      BY <1>0, <1>i, <2>1, <2>5 DEF Due, AtMost
    <3> QED BY <3>1, <3>2
  <2>8. \A c \in C, l \in Idx : a <= l /\ l < b => s1.lev[c][l] = l /\ s1.sw[l] = s1.sw[c]
    <3> TAKE c \in C, l \in Idx
    <3> HAVE a <= l /\ l < b
    <3>1. l = a /\ l \in R /\ c \in Int /\ c >= e /\ c \in Cols /\ l \in Cols
      BY <1>i, <2>1, Ranges
    <3>2. s1.lev[c][l] = Due(a, c, l)
      BY <2>2, <3>1 DEF Becomes
    <3>3. Due(a, c, l) = l
      BY <1>0, <2>1, <3>1 DEF Due, AtMost
    <3>4. s1.sw[l] = s.sw[l] /\ s1.sw[c] = s.sw[c]
      BY <2>2, <3>1 DEF Becomes
    <3> QED BY <1>1, <3>1, <3>2, <3>3, <3>4
  <2>9. \A l \in Idx, i \in rows : a <= l /\ l < b => s1.lev[l][i] = l
    <3> TAKE l \in Idx, i \in rows
    <3> HAVE a <= l /\ l < b
    <3>1. l = a /\ l \in R /\ l \notin C /\ l \in Cols /\ i \in R /\ i \in Idx /\ i \in Int /\ b <= i
      BY <1>0, <1>i, <2>1, <2>5, <2>6, Ranges
    <3>2. s1.lev[l][i] = s.lev[l][i]
      BY <2>2, <3>1 DEF Becomes
    <3>3. AtMost(i, l) = l
      BY <2>1, <3>1 DEF AtMost
    <3> QED BY <1>1, <3>1, <3>2, <3>3
  <2>10. Becomes(s1, t1, s.p, n, {}, 0, C, rows, b)
    <3>1. ASSUME NEW c \in Cols, NEW i \in Idx
          PROVE  t1.lev[c][i] = IF c \in C /\ i \in rows THEN Due(b, c, i) ELSE s1.lev[c][i]
      <4>1. CASE c \in C /\ i \in R /\ i \notin rows
        <5>1. t1.lev[c][i] = Due(b, c, i) /\ s1.lev[c][i] = Due(a, c, i)
          BY <2>2, <4>1 DEF Becomes
        <5>2. i \in Int /\ i < b /\ c \in Int /\ c >= e
          BY <1>i, <2>1, <2>5, <4>1
        <5>3. Due(b, c, i) = Due(a, c, i)
          BY <2>1, <5>2 DEF Due, AtMost
        <5> QED BY <4>1, <5>1, <5>3
      <4>2. CASE ~(c \in C /\ i \in R /\ i \notin rows)
        BY <2>2, <2>6, <4>2 DEF Becomes
      <4> QED BY <4>1, <4>2
    <3> QED BY <2>2, <3>1 DEF Becomes
  <2>11. s1.p = s.p /\ s1.q = n
    BY <2>2 DEF Becomes
  <2>12. Eliminating(s1, t1, a, b, rows, C)
    <3>1. b <= s1.p /\ \A i \in rows : i >= b
      BY <1>1, <2>1, <2>5, <2>11
    <3>2. \A c \in C : c >= b
      BY <1>0, <1>i, <2>1
    <3> QED BY <1>1, <2>1, <2>6, <2>7, <2>8, <2>9, <2>10, <2>11, <3>1, <3>2 DEF Eliminating
  <2>13. Does(x, s1, t1)
    BY <2>1, <2>4, <2>12 DEF Does
  <2> QED BY <2>3, <2>13 DEF s1, t1
<1> QED BY <1>4, <1>5, <1>6, <1>7, <1>8 DEF Path

-----------------------------------------------------------------------------
(***************************************************************************)
(* The tasks a task is replaced by have its effect.  Halves of a recursive *)
(* factorization: columns L are factored first, columns R with them.       *)
(***************************************************************************)
LEMMA HalvesFactorPanel ==
  ASSUME n \in Nat, NEW d \in Nat, NEW w \in Nat, NEW n1 \in 0..w, NEW s \in Points, NEW t,
         Panel(s, t, d..d+w-1, d, d + w)
  PROVE  Path(s, Halves(d, w, n1), t) /\ Halves(d, w, n1) \in Seq(Tasks)
<1> DEFINE e == d + n1
           g == d + w
           C == d..d+w-1
           L == d..d+n1-1
           R == d+n1..d+w-1
           low == d+n1..n-1
           mid == {i \in Idx : d <= i /\ i < e}
           s1 == After(s, e, n, L, e, L, Idx, e)
           s2 == After(s1, e, n, R, e, {}, {}, 0)
           s3 == After(s2, e, n, {}, 0, R, mid, e)
           s4 == After(s3, e, n, {}, 0, R, low, e)
           s5 == After(s4, g, n, R, g, R, Idx, g)
           x1 == LuRec(d, n1)
           x2 == Swaps(d, d + n1, R)
           x3 == TrsmRec(d, n1, d + n1, d + w)
           x4 == Matmul(d..d+n1-1, low, R)
           x5 == LuRec(d + n1, w - n1)
           x6 == Swaps(d + n1, d + w, d..d+n1-1)
<1>1. /\ d \in Int /\ e \in Int /\ g \in Int /\ 0 <= d /\ d <= e /\ e <= g /\ g <= n
      /\ d \in 0..n /\ e \in 0..n /\ g \in 0..n /\ d + w = g /\ e + (w - n1) = g
      /\ w - n1 \in Nat /\ e \in Nat
  BY DEF Panel
<1>2. /\ \A i : i \in Idx <=> i \in Int /\ 0 <= i /\ i < n
      /\ \A i : i \in L <=> i \in Int /\ d <= i /\ i < e
      /\ \A i : i \in R <=> i \in Int /\ e <= i /\ i < g
      /\ \A i : i \in C <=> i \in Int /\ d <= i /\ i < g
      /\ \A i : i \in low <=> i \in Int /\ e <= i /\ i < n
      /\ \A i : i \in mid <=> i \in Int /\ d <= i /\ i < e
      /\ \A c : c \in Cols <=> c \in Int /\ 0 <= c /\ c <= n
  <2>1. \A i : i \in Idx <=> i \in Int /\ 0 <= i /\ i < n
    BY Ranges
  <2>2. \A i : i \in mid <=> i \in Int /\ d <= i /\ i < e
    BY <1>1, <2>1
  <2> HIDE DEF mid
  <2> QED BY <1>1, <2>1, <2>2, Ranges
<1>3. /\ Halves(d, w, n1) = <<x1, x2, x3, x4, x5, x6>>
      /\ x1 \in Tasks /\ x2 \in Tasks /\ x3 \in Tasks /\ x4 \in Tasks /\ x5 \in Tasks /\ x6 \in Tasks
  <2>1. Halves(d, w, n1) = <<x1, x2, x3, x4, x5, x6>>
    BY DEF Halves
  <2>2. L \in SUBSET Int /\ R \in SUBSET Int /\ low \in SUBSET Int
    BY <1>2
  <2>3. x1 \in Tasks /\ x5 \in Tasks
    BY <1>1 DEF LuRec, Tasks
  <2>4. x2 \in Tasks /\ x6 \in Tasks
    BY <2>2 DEF Swaps, Tasks
  <2>5. x3 \in Tasks
    BY DEF TrsmRec, Tasks
  <2>6. x4 \in Tasks
    BY <2>2 DEF Matmul, Tasks
  <2> QED BY <2>1, <2>3, <2>4, <2>5, <2>6
<1>4. /\ x1.op = "lu_rec" /\ x1.d = d /\ x1.w = n1
      /\ x2.op = "swaps" /\ x2.k = d /\ x2.to = e /\ x2.cols = R
      /\ x3.op = "trsm_rec" /\ x3.d = d /\ x3.k = n1 /\ x3.c0 = e /\ x3.c1 = g
      /\ x4.op = "update" /\ x4.steps = d..e-1 /\ x4.rows = low /\ x4.cols = R
      /\ x5.op = "lu_rec" /\ x5.d = e /\ x5.w = w - n1
      /\ x6.op = "swaps" /\ x6.k = e /\ x6.to = g /\ x6.cols = L
  BY DEF LuRec, Swaps, TrsmRec, Matmul
<1>5. d..d+n1-1 = L /\ e..g-1 = R /\ e..e+(w-n1)-1 = R /\ d + n1 = e
  BY <1>1
<1>6. /\ s.p = d /\ s.q = n /\ t \in Points
      /\ \A c \in C : s.sw[c] = d /\ \A i \in Idx : s.lev[c][i] = Due(d, c, i)
      /\ Becomes(s, t, g, n, C, g, C, Idx, g)
  <2>1. Panel(s, t, C, d, g)
    OBVIOUS
  <2> HIDE DEF C, g
  <2> QED BY <2>1 DEF Panel, Becomes
<1> HIDE DEF e, g, C, L, R, low, mid, x1, x2, x3, x4, x5, x6
<1>7. 0 \in 0..n /\ n \in 0..n
  OBVIOUS
<1>8. Becomes(s, s1, e, n, L, e, L, Idx, e) /\ s1 \in Points
  BY <1>1, <1>7, AfterBecomes
<1> HIDE DEF s1
<1>9. Becomes(s1, s2, e, n, R, e, {}, {}, 0) /\ s2 \in Points
  BY <1>1, <1>7, <1>8, AfterBecomes
<1> HIDE DEF s2
<1>10. Becomes(s2, s3, e, n, {}, 0, R, mid, e) /\ s3 \in Points
  BY <1>1, <1>7, <1>9, AfterBecomes
<1> HIDE DEF s3
<1>11. Becomes(s3, s4, e, n, {}, 0, R, low, e) /\ s4 \in Points
  BY <1>1, <1>7, <1>10, AfterBecomes
<1> HIDE DEF s4
<1>12. Becomes(s4, s5, g, n, R, g, R, Idx, g) /\ s5 \in Points
  BY <1>1, <1>7, <1>11, AfterBecomes
<1> HIDE DEF s5
<1>13. /\ s1.p = e /\ s1.q = n /\ s2.p = e /\ s2.q = n /\ s3.p = e /\ s3.q = n
       /\ s4.p = e /\ s4.q = n /\ s5.p = g /\ s5.q = n
  BY <1>8, <1>9, <1>10, <1>11, <1>12 DEF Becomes
<1>c. /\ \A c \in Cols : c \in L => c \in C /\ c \notin R /\ c \in Idx
      /\ \A c \in Cols : c \in R => c \in C /\ c \notin L /\ c \in Idx
      /\ \A c \in Cols : c \in C => c \in L \/ c \in R
      /\ L \subseteq Cols /\ R \subseteq Cols /\ C \subseteq Cols /\ L \subseteq Idx /\ R \subseteq Idx
      /\ mid \subseteq Idx /\ low \subseteq Idx
  BY <1>1, <1>2
(* How far the columns are, as far as it is asked. *)
<1>14. \A c \in R : /\ s2.sw[c] = e /\ s3.sw[c] = e /\ s4.sw[c] = e
                    /\ \A i \in Idx : s1.lev[c][i] = Due(d, c, i) /\ s2.lev[c][i] = Due(d, c, i)
  BY <1>6, <1>8, <1>9, <1>10, <1>11, <1>c DEF Becomes
<1>15. \A c \in L : /\ s2.sw[c] = e /\ s3.sw[c] = e /\ s4.sw[c] = e /\ s5.sw[c] = e
                    /\ \A i \in Idx : /\ s2.lev[c][i] = Due(e, c, i) /\ s3.lev[c][i] = Due(e, c, i)
                                      /\ s5.lev[c][i] = Due(e, c, i)
  BY <1>6, <1>8, <1>9, <1>10, <1>11, <1>12, <1>c DEF Becomes
<1>16. \A c \in R, i \in Idx : s4.lev[c][i] = Due(e, c, i)
  <2> TAKE c \in R, i \in Idx
  <2>1. CASE i \in low
    BY <1>11, <1>c, <2>1 DEF Becomes
  <2>2. CASE i \in mid
    <3>1. i \notin low
      BY <1>1, <1>2, <2>2
    <3>2. s4.lev[c][i] = s3.lev[c][i] /\ s3.lev[c][i] = Due(e, c, i)
      BY <1>10, <1>11, <1>c, <2>2, <3>1 DEF Becomes
    <3> QED BY <3>2
  <2>3. CASE i < d
    <3>1. i \notin low /\ i \notin mid /\ i \in Int /\ c \in Int /\ e <= c
      BY <1>1, <1>2, <2>3
    <3>2. s4.lev[c][i] = s2.lev[c][i]
      BY <1>10, <1>11, <1>c, <3>1 DEF Becomes
    <3>3. Due(d, c, i) = Due(e, c, i)
      BY <1>1, <2>3, <3>1 DEF Due, AtMost
    <3> QED BY <1>14, <3>2, <3>3
  <2>4. i \in low \/ i \in mid \/ i < d
    BY <1>1, <1>2
  <2> QED BY <2>1, <2>2, <2>3, <2>4
<1>17. \A c \in R, i \in Idx : i >= d => s1.lev[c][i] = d /\ s2.lev[c][i] = d
  <2> TAKE c \in R, i \in Idx
  <2> HAVE i >= d
  <2>1. Due(d, c, i) = d
    BY <1>1, <1>2 DEF Due, AtMost
  <2> QED BY <1>14, <2>1
<1>18. \A c \in L, i \in Idx : Due(e, c, i) = AtMost(i, c) /\ Due(g, c, i) = AtMost(i, c)
  BY <1>1, <1>2 DEF Due, AtMost
(* The tasks. *)
<1>21. Does(x1, s, s1)
  <2>1. /\ \A c \in Idx : d <= c /\ c < e => c \in L
        /\ \A c \in L : s.sw[c] = d /\ \A i \in Idx : s.lev[c][i] = Due(d, c, i)
    BY <1>2, <1>6, <1>c
  <2>2. Panel(s, s1, L, d, e)
    BY <1>1, <1>6, <1>8, <1>c, <2>1 DEF Panel
  <2> QED BY <1>4, <1>5, <2>2 DEF Does
<1>22. Does(x2, s1, s2)
  <2>1. \A c \in R : s1.sw[c] = d /\ (c < e => c < d)
    BY <1>2, <1>6, <1>8, <1>c DEF Becomes
  <2>2. \A c \in R, i, j \in Idx : i >= d /\ j >= d => s1.lev[c][i] = s1.lev[c][j]
    BY <1>17
  <2>3. Swapping(s1, s2, d, e, R)
    <3>1. e <= e
      BY <1>1
    <3> QED BY <1>1, <1>9, <1>13, <1>c, <2>1, <2>2, <3>1 DEF Swapping
  <2> QED BY <1>4, <2>3 DEF Does
<1>23. Does(x3, s2, s3)
  <2>1. \A c \in R : c >= e
    BY <1>2
  <2>2. \A c \in R, i \in Idx : d <= i /\ i < e => s2.lev[c][i] = d /\ s2.sw[i] = s2.sw[c]
    <3> TAKE c \in R, i \in Idx
    <3> HAVE d <= i /\ i < e
    <3>1. i \in L /\ i >= d
      BY <1>1, <1>2
    <3> QED BY <1>14, <1>15, <1>17, <3>1
  <2>3. \A j, i \in Idx : d <= j /\ j < e /\ d <= i /\ i < e => s2.lev[j][i] = AtMost(i, j)
    BY <1>2, <1>15, <1>18
  <2>4. Substituting(s2, s3, d, e, R)
    <3>1. e <= e
      BY <1>1
    <3> QED BY <1>1, <1>10, <1>13, <1>c, <2>1, <2>2, <2>3, <3>1 DEF Substituting, mid
  <2> QED BY <1>4, <1>5, <2>4 DEF Does
<1>24. Does(x4, s3, s4)
  <2>1. /\ \A c \in R : c >= e
        /\ \A i \in low : i >= e
    BY <1>2
  <2>2. \A c \in R, i \in low : s3.lev[c][i] = d
    <3> TAKE c \in R, i \in low
    <3>1. i \notin mid /\ i \in Idx /\ i >= d
      BY <1>1, <1>2
    <3>2. s3.lev[c][i] = s2.lev[c][i]
      BY <1>10, <1>c, <3>1 DEF Becomes
    <3> QED BY <1>17, <3>1, <3>2
  <2>3. \A c \in R, k \in Idx : d <= k /\ k < e => s3.lev[c][k] = k /\ s3.sw[k] = s3.sw[c]
    <3> TAKE c \in R, k \in Idx
    <3> HAVE d <= k /\ k < e
    <3>1. k \in L /\ k \in mid /\ k \in Int /\ c \in Int /\ e <= c
      BY <1>1, <1>2
    <3>2. s3.lev[c][k] = Due(e, c, k)
      BY <1>10, <1>c, <3>1 DEF Becomes
    <3>3. Due(e, c, k) = k
      BY <1>1, <3>1 DEF Due, AtMost
    <3> QED BY <1>14, <1>15, <3>1, <3>2, <3>3
  <2>4. \A k \in Idx, i \in low : d <= k /\ k < e => s3.lev[k][i] = k
    <3> TAKE k \in Idx, i \in low
    <3> HAVE d <= k /\ k < e
    <3>1. k \in L /\ i \in Idx /\ i \in Int /\ k \in Int /\ i > k
      BY <1>1, <1>2
    <3>2. AtMost(i, k) = k
      BY <3>1 DEF AtMost
    <3> QED BY <1>15, <1>18, <3>1, <3>2
  <2>5. Eliminating(s3, s4, d, e, low, R)
    <3>1. e <= e
      BY <1>1
    <3> QED BY <1>1, <1>11, <1>13, <1>c, <2>1, <2>2, <2>3, <2>4, <3>1 DEF Eliminating
  <2> QED BY <1>1, <1>4, <2>5 DEF Does
<1>25. Does(x5, s4, s5)
  <2>1. \A c \in Idx : e <= c /\ c < g => c \in R
    BY <1>2
  <2>2. Panel(s4, s5, R, e, g)
    BY <1>1, <1>12, <1>13, <1>14, <1>16, <1>c, <2>1 DEF Panel
  <2>3. Panel(s4, s5, x5.d..x5.d+x5.w-1, x5.d, x5.d + x5.w)
    BY <1>1, <1>4, <1>5, <2>2
  <2> QED BY <1>1, <1>4, <2>3 DEF Does
<1>26. Does(x6, s5, t)
  <2>1. \A c \in L : s5.sw[c] = e /\ (c < g => c < e)
    BY <1>2, <1>15
  <2>2. \A c \in L, i, j \in Idx : i >= e /\ j >= e => s5.lev[c][i] = s5.lev[c][j]
    <3>1. \A c \in L, i \in Idx : i >= e => AtMost(i, c) = c
      BY <1>1, <1>2 DEF AtMost
    <3> QED BY <1>15, <1>18, <3>1
  <2>3. Becomes(s5, t, g, n, L, g, {}, {}, 0)
    <3>1. t.p = g /\ t.q = n
      BY <1>6 DEF Becomes
    <3>2. \A c \in Cols : t.sw[c] = IF c \in L THEN g ELSE s5.sw[c]
      <4>1. \A c \in Cols : c \in R => t.sw[c] = g /\ s5.sw[c] = g
        BY <1>6, <1>12, <1>c DEF Becomes
      <4>2. \A c \in Cols : c \in L => t.sw[c] = g
        BY <1>6, <1>c DEF Becomes
      <4>3. \A c \in Cols : c \notin C => t.sw[c] = s.sw[c] /\ s5.sw[c] = s.sw[c]
        BY <1>6, <1>8, <1>9, <1>10, <1>11, <1>12, <1>c DEF Becomes
      <4> QED BY <1>c, <4>1, <4>2, <4>3
    <3>3. \A c \in Cols, i \in Idx : t.lev[c][i] = s5.lev[c][i]
      <4>1. \A c \in Cols, i \in Idx : c \in R => t.lev[c][i] = Due(g, c, i) /\ s5.lev[c][i] = Due(g, c, i)
        BY <1>6, <1>12, <1>c DEF Becomes
      <4>2. \A c \in Cols, i \in Idx : c \in L => t.lev[c][i] = Due(g, c, i) /\ s5.lev[c][i] = Due(g, c, i)
        BY <1>6, <1>15, <1>18, <1>c DEF Becomes
      <4>3. \A c \in Cols, i \in Idx : c \notin C => t.lev[c][i] = s.lev[c][i] /\ s5.lev[c][i] = s.lev[c][i]
        BY <1>6, <1>8, <1>9, <1>10, <1>11, <1>12, <1>c DEF Becomes
      <4> QED BY <1>c, <4>1, <4>2, <4>3
    <3> QED BY <1>6, <3>1, <3>2, <3>3 DEF Becomes
  <2>4. Swapping(s5, t, e, g, L)
    <3>1. g <= g
      BY <1>1
    <3> QED BY <1>1, <1>13, <1>c, <2>1, <2>2, <2>3, <3>1 DEF Swapping
  <2> QED BY <1>4, <2>4 DEF Does
<1>30. /\ x1 \in Tasks /\ x2 \in Tasks /\ x3 \in Tasks /\ x4 \in Tasks /\ x5 \in Tasks /\ x6 \in Tasks
       /\ t \in Points /\ s1 \in Points /\ s2 \in Points /\ s3 \in Points /\ s4 \in Points /\ s5 \in Points
  BY <1>3, <1>6, <1>8, <1>9, <1>10, <1>11, <1>12
<1>31. /\ Path(s, <<x1, x2, x3, x4, x5, x6>>, t)
       /\ <<x1, x2, x3, x4, x5, x6>> \in Seq(Tasks)
  BY <1>21, <1>22, <1>23, <1>24, <1>25, <1>26, <1>30, PathSix
<1> QED BY <1>3, <1>31

(* The halves of a triangular solve. *)
LEMMA HalvesSubstitute ==
  ASSUME n \in Nat, NEW d \in Nat, NEW w \in Nat, NEW k1 \in 0..w, NEW c0 \in Int, NEW c1 \in Int,
         NEW s \in Points, NEW t, Substituting(s, t, d, d + w, c0..c1-1)
  PROVE  LET tasks == << TrsmRec(d, k1, c0, c1), Matmul(d..d+k1-1, d+k1..d+w-1, c0..c1-1),
                         TrsmRec(d + k1, w - k1, c0, c1) >>
         IN  Path(s, tasks, t) /\ tasks \in Seq(Tasks)
<1> DEFINE C == c0..c1-1
           h == d + k1
           e == d + w
           low == d+k1..d+w-1
           top == {i \in Idx : d <= i /\ i < h}
           s1 == After(s, s.p, n, {}, 0, C, top, h)
           s2 == After(s1, s.p, n, {}, 0, C, low, h)
           x1 == TrsmRec(d, k1, c0, c1)
           x2 == Matmul(d..d+k1-1, low, C)
           x3 == TrsmRec(d + k1, w - k1, c0, c1)
<1>1. /\ e \in 0..n /\ d <= e /\ e <= s.p /\ s.p \in 0..n /\ s.q = n /\ t \in Points
      /\ C \subseteq Cols /\ \A c \in C : c >= e
      /\ \A c \in C, i \in Idx : d <= i /\ i < e => s.lev[c][i] = d /\ s.sw[i] = s.sw[c]
      /\ \A j, i \in Idx : d <= j /\ j < e /\ d <= i /\ i < e => s.lev[j][i] = AtMost(i, j)
      /\ Becomes(s, t, s.p, n, {}, 0, C, {i \in Idx : d <= i /\ i < e}, e)
  <2>1. Substituting(s, t, d, e, C)
    OBVIOUS
  <2> HIDE DEF C, e
  <2> QED BY <2>1, PointFields DEF Substituting, Becomes
<1>2. /\ d \in 0..n /\ h \in 0..n /\ e \in Int /\ h \in Int /\ d <= h /\ h <= e /\ d + k1 = h
      /\ h + (w - k1) = e /\ w - k1 \in Nat /\ h \in Nat /\ h <= s.p /\ s.p \in Int
  BY <1>1
<1>3. /\ \A i : i \in Idx <=> i \in Int /\ 0 <= i /\ i < n
      /\ \A i : i \in low <=> i \in Int /\ h <= i /\ i < e
      /\ \A i : i \in top <=> i \in Int /\ d <= i /\ i < h
      /\ \A c \in C : c \in Int /\ c >= e /\ c >= h /\ c \in Cols
      /\ Idx \subseteq Cols
  <2>1. \A i : i \in Idx <=> i \in Int /\ 0 <= i /\ i < n
    BY Ranges
  <2>2. \A i : i \in top <=> i \in Int /\ d <= i /\ i < h
    BY <1>1, <1>2, <2>1
  <2>3. \A i : i \in low <=> i \in Int /\ h <= i /\ i < e
    OBVIOUS
  <2>4. \A c \in C : c \in Int
    OBVIOUS
  <2> HIDE DEF top, low, C, h, e
  <2>5. \A c \in C : c >= e /\ c >= h /\ c \in Cols
    BY <1>1, <1>2, <2>4
  <2> QED BY <2>1, <2>2, <2>3, <2>4, <2>5, Ranges
<1>4. x1 \in Tasks /\ x2 \in Tasks /\ x3 \in Tasks
  <2>1. C \in SUBSET Int /\ low \in SUBSET Int /\ d..d+k1-1 \in SUBSET Int
    OBVIOUS
  <2>2. x1 \in Tasks /\ x3 \in Tasks
    BY DEF TrsmRec, Tasks
  <2> HIDE DEF C, low
  <2>3. x2 \in Tasks
    BY <2>1 DEF Matmul, Tasks
  <2> QED BY <2>2, <2>3
<1>5. /\ x1.op = "trsm_rec" /\ x1.d = d /\ x1.k = k1 /\ x1.c0 = c0 /\ x1.c1 = c1
      /\ x2.op = "update" /\ x2.steps = d..h-1 /\ x2.rows = low /\ x2.cols = C
      /\ x3.op = "trsm_rec" /\ x3.d = h /\ x3.k = w - k1 /\ x3.c0 = c0 /\ x3.c1 = c1
      /\ c0..c1-1 = C
  BY DEF TrsmRec, Matmul
<1>6. Substituting(s, t, d, e, C)
  OBVIOUS
<1>7. << TrsmRec(d, k1, c0, c1), Matmul(d..d+k1-1, d+k1..d+w-1, c0..c1-1),
         TrsmRec(d + k1, w - k1, c0, c1) >> = <<x1, x2, x3>>
  OBVIOUS
<1>8. SUFFICES Path(s, <<x1, x2, x3>>, t) /\ <<x1, x2, x3>> \in Seq(Tasks)
  OBVIOUS
<1> HIDE DEF C, h, e, low, top, x1, x2, x3
<1>9. 0 \in 0..n /\ n \in 0..n
  OBVIOUS
<1>10. Becomes(s, s1, s.p, n, {}, 0, C, top, h) /\ s1 \in Points
  BY <1>1, <1>2, <1>9, AfterBecomes
<1> HIDE DEF s1
<1>11. Becomes(s1, s2, s.p, n, {}, 0, C, low, h) /\ s2 \in Points
  BY <1>1, <1>2, <1>9, <1>10, AfterBecomes
<1> HIDE DEF s2
<1>12. /\ s1.p = s.p /\ s1.q = n /\ s2.p = s.p /\ s2.q = n
       /\ \A c \in Cols : s1.sw[c] = s.sw[c] /\ s2.sw[c] = s.sw[c]
  BY <1>10, <1>11 DEF Becomes
<1>13. top \subseteq Idx /\ low \subseteq Idx /\ \A i \in low : i \notin top
  BY <1>1, <1>2, <1>3
<1>14. \A j \in Idx : j < e => j \notin C
  BY <1>2, <1>3
<1>15. \A j, i \in Idx : j < e => s1.lev[j][i] = s.lev[j][i] /\ s2.lev[j][i] = s.lev[j][i]
  BY <1>3, <1>10, <1>11, <1>14 DEF Becomes
<1>16. \A c \in C, i \in low : s1.lev[c][i] = d /\ s2.lev[c][i] = h
  <2> TAKE c \in C, i \in low
  <2>1. i \in Idx /\ d <= i /\ i < e /\ c \in Cols /\ i \notin top /\ i \in Int /\ h <= i /\ c \in Int /\ c >= h
    BY <1>2, <1>3, <1>13
  <2>2. s1.lev[c][i] = d
    BY <1>1, <1>10, <2>1 DEF Becomes
  <2>3. s2.lev[c][i] = Due(h, c, i)
    BY <1>11, <2>1 DEF Becomes
  <2>4. Due(h, c, i) = h
    BY <1>2, <2>1 DEF Due, AtMost
  <2> QED BY <2>2, <2>3, <2>4
<1>17. \A c \in C, i \in top : s1.lev[c][i] = i /\ s2.lev[c][i] = i /\ Due(e, c, i) = i
  <2> TAKE c \in C, i \in top
  <2>1. i \in Idx /\ d <= i /\ i < h /\ c \in Cols /\ i \notin low /\ i \in Int /\ c \in Int /\ c >= e
    BY <1>2, <1>3, <1>13
  <2>2. s1.lev[c][i] = Due(h, c, i) /\ s2.lev[c][i] = Due(h, c, i)
    BY <1>10, <1>11, <2>1 DEF Becomes
  <2>4. Due(h, c, i) = i /\ Due(e, c, i) = i
    BY <1>2, <2>1 DEF Due, AtMost
  <2> QED BY <2>2, <2>4
(* The tasks. *)
<1>21. Does(x1, s, s1)
  <2>1. \A c \in C : c >= h
    BY <1>3
  <2>2. \A c \in C, i \in Idx : d <= i /\ i < h => s.lev[c][i] = d /\ s.sw[i] = s.sw[c]
    BY <1>1, <1>2, <1>3
  <2>3. \A j, i \in Idx : d <= j /\ j < h /\ d <= i /\ i < h => s.lev[j][i] = AtMost(i, j)
    BY <1>1, <1>2, <1>3
  <2>4. Substituting(s, s1, d, h, C)
    BY <1>1, <1>2, <1>10, <2>1, <2>2, <2>3 DEF Substituting, top
  <2> QED BY <1>2, <1>5, <2>4 DEF Does
<1>22. Does(x2, s1, s2)
  <2>1. \A i \in low : i >= h
    BY <1>3
  <2>2. \A c \in C, k \in Idx : d <= k /\ k < h => s1.lev[c][k] = k /\ s1.sw[k] = s1.sw[c]
    <3> TAKE c \in C, k \in Idx
    <3> HAVE d <= k /\ k < h
    <3>1. k \in top /\ k < e /\ c \in Cols /\ k \in Cols
      BY <1>2, <1>3
    <3> QED BY <1>1, <1>12, <1>17, <3>1
  <2>3. \A k \in Idx, i \in low : d <= k /\ k < h => s1.lev[k][i] = k
    <3> TAKE k \in Idx, i \in low
    <3> HAVE d <= k /\ k < h
    <3>1. k < e /\ i \in Idx /\ d <= i /\ i < e /\ k < i /\ i \in Int /\ k \in Int
      BY <1>2, <1>3, <1>13
    <3>2. AtMost(i, k) = k
      BY <3>1 DEF AtMost
    <3> QED BY <1>1, <1>15, <3>1, <3>2
  <2>4. Eliminating(s1, s2, d, h, low, C)
    BY <1>1, <1>2, <1>3, <1>11, <1>12, <1>13, <1>16, <2>1, <2>2, <2>3 DEF Eliminating
  <2> QED BY <1>2, <1>5, <2>4 DEF Does
<1>23. Does(x3, s2, t)
  <2>1. \A c \in C, i \in Idx : h <= i /\ i < e => s2.lev[c][i] = h /\ s2.sw[i] = s2.sw[c]
    <3> TAKE c \in C, i \in Idx
    <3> HAVE h <= i /\ i < e
    <3>1. i \in low /\ d <= i /\ i \in Cols /\ c \in Cols
      BY <1>2, <1>3
    <3> QED BY <1>1, <1>12, <1>16, <3>1
  <2>2. \A j, i \in Idx : h <= j /\ j < e /\ h <= i /\ i < e => s2.lev[j][i] = AtMost(i, j)
    <3> TAKE j, i \in Idx
    <3> HAVE h <= j /\ j < e /\ h <= i /\ i < e
    <3>1. d <= j /\ d <= i
      BY <1>2, <1>3
    <3> QED BY <1>1, <1>15, <3>1
  <2>3. Becomes(s2, t, s.p, n, {}, 0, C, {i \in Idx : h <= i /\ i < e}, e)
    <3>1. \A i \in Idx : d <= i /\ i < e <=> i \in top \/ i \in low
      BY <1>2, <1>3
    <3>2. \A i \in Idx : h <= i /\ i < e <=> i \in low
      BY <1>2, <1>3
    <3>3. \A c \in Cols, i \in Idx : t.lev[c][i] = IF c \in C /\ i \in low THEN Due(e, c, i) ELSE s2.lev[c][i]
      <4> TAKE c \in Cols, i \in Idx
      <4>1. CASE c \in C /\ i \in low
        BY <1>1, <3>1, <4>1 DEF Becomes
      <4>2. CASE c \in C /\ i \in top
        BY <1>1, <1>13, <1>17, <3>1, <4>2 DEF Becomes
      <4>3. CASE c \notin C \/ (i \notin low /\ i \notin top)
        BY <1>1, <1>10, <1>11, <3>1, <4>3 DEF Becomes
      <4> QED BY <4>1, <4>2, <4>3
    <3>4. t.p = s.p /\ t.q = n /\ \A c \in Cols : t.sw[c] = s2.sw[c]
      BY <1>1, <1>12 DEF Becomes
    <3> QED BY <1>1, <3>2, <3>3, <3>4 DEF Becomes
  <2>4. Substituting(s2, t, h, e, C)
    BY <1>1, <1>2, <1>12, <2>1, <2>2, <2>3 DEF Substituting
  <2> QED BY <1>2, <1>5, <2>4 DEF Does
<1> QED BY <1>1, <1>4, <1>10, <1>11, <1>21, <1>22, <1>23, PathThree

(* One block, and the blocks after it. *)
LEMMA BlockFactorsPanel ==
  ASSUME n \in Nat, NEW d \in 0..n, NEW w \in 0..n-d, NEW s \in Points, NEW t,
         Panel(s, t, Idx, d, n)
  PROVE  LET tasks == Columns(d, w) \o <<Swaps(d, d + w, OutsidePanel(d, w))>>
                        \o Substitutions(d, w, d + w, n)
                        \o <<Matmul(d..d+w-1, d+w..n-1, d+w..n-1), Block(d + w)>>
         IN  Path(s, tasks, t) /\ tasks \in Seq(Tasks)
<1> DEFINE e == d + w
           P == d..d+w-1
           R == d+w..n-1
           Out == OutsidePanel(d, w)
           mid == {i \in Idx : d <= i /\ i < e}
           s1 == After(s, e, n, P, e, P, Idx, e)
           s2 == After(s1, e, n, Out, e, {}, {}, 0)
           s3 == After(s2, e, n, {}, 0, R, mid, e)
           s4 == After(s3, e, n, {}, 0, R, R, e)
           T1 == Columns(d, w)
           x2 == Swaps(d, d + w, Out)
           T3 == Substitutions(d, w, d + w, n)
           x4 == Matmul(d..d+w-1, R, R)
           x5 == Block(d + w)
<1>1. /\ d \in Int /\ e \in Int /\ 0 <= d /\ d <= e /\ e <= n /\ n \in 0..n /\ 0 \in 0..n
      /\ e \in 0..n /\ d \in Nat /\ w \in Nat /\ d + w = e
  OBVIOUS
<1>2. /\ \A i : i \in Idx <=> i \in Int /\ 0 <= i /\ i < n
      /\ \A i : i \in P <=> i \in Int /\ d <= i /\ i < e
      /\ \A i : i \in R <=> i \in Int /\ e <= i /\ i < n
      /\ \A i : i \in mid <=> i \in Int /\ d <= i /\ i < e
      /\ \A c : c \in Out <=> c \in Idx /\ (c < d \/ e <= c)
      /\ \A c : c \in Cols <=> c \in Int /\ 0 <= c /\ c <= n
  <2>1. \A i : i \in Idx <=> i \in Int /\ 0 <= i /\ i < n
    BY Ranges
  <2>2. \A i : i \in mid <=> i \in Int /\ d <= i /\ i < e
    BY <1>1, <2>1
  <2>3. \A c : c \in Out <=> c \in Int /\ ((0 <= c /\ c < d) \/ (e <= c /\ c < n))
    BY DEF OutsidePanel
  <2>4. /\ \A i : i \in P <=> i \in Int /\ d <= i /\ i < e
        /\ \A i : i \in R <=> i \in Int /\ e <= i /\ i < n
    OBVIOUS
  <2> HIDE DEF mid, Out, P, R, e
  <2>5. \A c : c \in Out <=> c \in Idx /\ (c < d \/ e <= c)
    BY <1>1, <2>1, <2>3
  <2> QED BY <2>1, <2>2, <2>4, <2>5, Ranges
<1>3. x2 \in Tasks /\ x4 \in Tasks /\ x5 \in Tasks
  <2>1. Out \in SUBSET Int /\ R \in SUBSET Int /\ d..d+w-1 \in SUBSET Int /\ d + w \in Int
    BY <1>1 DEF OutsidePanel
  <2> HIDE DEF Out, R
  <2>2. x2 \in Tasks
    BY <2>1 DEF Swaps, Tasks
  <2>3. x4 \in Tasks
    BY <2>1 DEF Matmul, Tasks
  <2>4. x5 \in Tasks
    BY <2>1 DEF Block, Tasks
  <2> QED BY <2>2, <2>3, <2>4
<1>4. /\ x2.op = "swaps" /\ x2.k = d /\ x2.to = e /\ x2.cols = Out
      /\ x4.op = "update" /\ x4.steps = d..e-1 /\ x4.rows = R /\ x4.cols = R
      /\ x5.op = "block" /\ x5.j = e
  BY DEF Swaps, Matmul, Block
<1>5. d..d+w-1 = P /\ e..n-1 = R
  OBVIOUS
<1>6. Columns(d, w) = T1 /\ Substitutions(d, w, e, n) = T3
  OBVIOUS
<1>7. SUFFICES Path(s, T1 \o <<x2>> \o T3 \o <<x4, x5>>, t)
               /\ T1 \o <<x2>> \o T3 \o <<x4, x5>> \in Seq(Tasks)
  OBVIOUS
<1> HIDE DEF e, P, R, Out, mid, T1, T3, x2, x4, x5
<1>8. /\ s.p = d /\ s.q = n /\ t \in Points
      /\ \A c \in Idx : s.sw[c] = d /\ \A i \in Idx : s.lev[c][i] = Due(d, c, i)
      /\ Becomes(s, t, n, n, Idx, n, Idx, Idx, n)
  BY DEF Panel, Becomes
<1>9. Becomes(s, s1, e, n, P, e, P, Idx, e) /\ s1 \in Points
  BY <1>1, AfterBecomes
<1> HIDE DEF s1
<1>10. Becomes(s1, s2, e, n, Out, e, {}, {}, 0) /\ s2 \in Points
  BY <1>1, <1>9, AfterBecomes
<1> HIDE DEF s2
<1>11. Becomes(s2, s3, e, n, {}, 0, R, mid, e) /\ s3 \in Points
  BY <1>1, <1>10, AfterBecomes
<1> HIDE DEF s3
<1>12. Becomes(s3, s4, e, n, {}, 0, R, R, e) /\ s4 \in Points
  BY <1>1, <1>11, AfterBecomes
<1> HIDE DEF s4
<1>13. /\ s1.p = e /\ s1.q = n /\ s2.p = e /\ s2.q = n /\ s3.p = e /\ s3.q = n
       /\ s4.p = e /\ s4.q = n
  BY <1>9, <1>10, <1>11, <1>12 DEF Becomes
<1>14. /\ Out \subseteq Idx /\ P \subseteq Idx /\ R \subseteq Idx /\ mid \subseteq Idx /\ Idx \subseteq Cols
       /\ \A c \in Idx : c \in Out <=> c \notin P
       /\ \A c \in Idx : c \in P => c \notin R
       /\ \A c \in Idx : c \in P <=> c \in mid
  BY <1>1, <1>2
<1>15. \A c \in Idx : s2.sw[c] = e /\ s3.sw[c] = e /\ s4.sw[c] = e
  BY <1>9, <1>10, <1>11, <1>12, <1>14 DEF Becomes
<1>16. \A c \in P, i \in Idx : /\ s2.lev[c][i] = Due(e, c, i) /\ s3.lev[c][i] = Due(e, c, i)
                               /\ s4.lev[c][i] = Due(e, c, i)
  BY <1>9, <1>10, <1>11, <1>12, <1>14 DEF Becomes
<1>17. \A c \in Idx, i \in Idx : c \notin P => s1.lev[c][i] = Due(d, c, i) /\ s2.lev[c][i] = Due(d, c, i)
  BY <1>8, <1>9, <1>10, <1>14 DEF Becomes
<1>18. \A c \in R, i \in Idx : i >= d => s2.lev[c][i] = d
  <2> TAKE c \in R, i \in Idx
  <2> HAVE i >= d
  <2>1. c \in Idx /\ c \notin P
    BY <1>14
  <2>2. Due(d, c, i) = d
    BY <1>1, <1>2 DEF Due, AtMost
  <2> QED BY <1>17, <2>1, <2>2
<1>19. \A c \in P, i \in Idx : Due(e, c, i) = AtMost(i, c)
  BY <1>1, <1>2 DEF Due, AtMost
<1>20. \A c \in Idx, i \in Idx : s4.lev[c][i] = Due(e, c, i)
  <2> TAKE c \in Idx, i \in Idx
  <2>1. CASE c \in P
    BY <1>16, <2>1
  <2>2. CASE c < d
    <3>1. c \notin P /\ c \notin R /\ c \in Cols
      BY <1>1, <1>2, <2>2
    <3>2. s4.lev[c][i] = Due(d, c, i)
      BY <1>11, <1>12, <1>17, <3>1 DEF Becomes
    <3>3. Due(d, c, i) = Due(e, c, i)
      BY <1>1, <1>2, <2>2 DEF Due, AtMost
    <3> QED BY <3>2, <3>3
  <2>3. CASE c \in R /\ i \in R
    BY <1>12, <1>14, <2>3 DEF Becomes
  <2>4. CASE c \in R /\ i \in mid
    <3>1. i \notin R /\ c \in Cols
      BY <1>14, <2>4
    <3>2. s4.lev[c][i] = s3.lev[c][i] /\ s3.lev[c][i] = Due(e, c, i)
      BY <1>11, <1>12, <2>4, <3>1 DEF Becomes
    <3> QED BY <3>2
  <2>5. CASE c \in R /\ i < d
    <3>1. i \notin R /\ i \notin mid /\ c \notin P /\ c \in Cols
      BY <1>1, <1>2, <2>5
    <3>2. s4.lev[c][i] = s2.lev[c][i]
      BY <1>11, <1>12, <3>1 DEF Becomes
    <3>3. Due(d, c, i) = Due(e, c, i)
      BY <1>1, <1>2, <2>5 DEF Due, AtMost
    <3> QED BY <1>17, <3>1, <3>2, <3>3
  <2>6. (c \in P \/ c < d \/ c \in R) /\ (i \in R \/ i \in mid \/ i < d)
    BY <1>1, <1>2
  <2> QED BY <2>1, <2>2, <2>3, <2>4, <2>5, <2>6
(* The columns of the panel. *)
<1>21. Path(s, T1, s1) /\ T1 \in Seq(Tasks)
  <2>1. \A c \in P : s.sw[c] = d /\ \A i \in Idx : s.lev[c][i] = Due(d, c, i)
    BY <1>8, <1>14
  <2>2. \A c \in Idx : d <= c /\ c < e => c \in P
    BY <1>2
  <2>3. Panel(s, s1, P, d, e)
    BY <1>1, <1>8, <1>9, <1>14, <2>1, <2>2 DEF Panel
  <2>4. Panel(s, s1, d..d+w-1, d, d + w)
    BY <1>1, <1>5, <2>3
  <2> QED BY <1>1, <1>6, <2>4, ColumnsFactorPanel
(* Its swaps elsewhere. *)
<1>22. Does(x2, s1, s2)
  <2>1. \A c \in Out : s1.sw[c] = d /\ (c < e => c < d)
    BY <1>2, <1>8, <1>9, <1>14 DEF Becomes
  <2>2. \A c \in Out, i, j \in Idx : i >= d /\ j >= d => s1.lev[c][i] = s1.lev[c][j]
    <3> TAKE c \in Out, i, j \in Idx
    <3> HAVE i >= d /\ j >= d
    <3>1. c \in Idx /\ c \notin P /\ c \in Int /\ i \in Int /\ j \in Int
      BY <1>2, <1>14
    <3>2. Due(d, c, i) = AtMost(d, c) /\ Due(d, c, j) = AtMost(d, c)
      BY <1>1, <3>1 DEF Due, AtMost
    <3> QED BY <1>17, <3>1, <3>2
  <2>3. Swapping(s1, s2, d, e, Out)
    <3>1. e <= e
      BY <1>1
    <3> QED BY <1>1, <1>10, <1>13, <1>14, <2>1, <2>2, <3>1 DEF Swapping
  <2> QED BY <1>4, <2>3 DEF Does
(* The triangular solve, column by column. *)
<1>23. Path(s2, T3, s3) /\ T3 \in Seq(Tasks)
  <2>1. \A c \in R : c >= e
    BY <1>2
  <2>2. \A c \in R, i \in Idx : d <= i /\ i < e => s2.lev[c][i] = d /\ s2.sw[i] = s2.sw[c]
    BY <1>1, <1>2, <1>14, <1>15, <1>18
  <2>3. \A j, i \in Idx : d <= j /\ j < e /\ d <= i /\ i < e => s2.lev[j][i] = AtMost(i, j)
    BY <1>2, <1>16, <1>19
  <2>4. Substituting(s2, s3, d, e, R)
    <3>1. e <= e /\ R \subseteq Cols
      BY <1>1, <1>14
    <3> QED BY <1>1, <1>11, <1>13, <2>1, <2>2, <2>3, <3>1 DEF Substituting, mid
  <2>5. Substituting(s2, s3, d, d + w, e..n-1)
    BY <1>1, <1>5, <2>4
  <2>6. n \in Int
    OBVIOUS
  <2> QED BY <1>1, <1>6, <1>10, <2>5, <2>6, SubstitutionsSolve
(* The update of what is right of the panel and below it. *)
<1>24. Does(x4, s3, s4)
  <2>1. \A c \in R : c >= e
    BY <1>2
  <2>2. \A c \in R, i \in R : s3.lev[c][i] = d
    <3> TAKE c \in R, i \in R
    <3>1. i \notin mid /\ i \in Idx /\ i >= d /\ c \in Cols
      BY <1>1, <1>2, <1>14
    <3>2. s3.lev[c][i] = s2.lev[c][i]
      BY <1>11, <3>1 DEF Becomes
    <3> QED BY <1>18, <3>1, <3>2
  <2>3. \A c \in R, k \in Idx : d <= k /\ k < e => s3.lev[c][k] = k /\ s3.sw[k] = s3.sw[c]
    <3> TAKE c \in R, k \in Idx
    <3> HAVE d <= k /\ k < e
    <3>1. k \in mid /\ k \in Int /\ c \in Int /\ e <= c /\ c \in Cols /\ c \in Idx
      BY <1>1, <1>2, <1>14
    <3>2. s3.lev[c][k] = Due(e, c, k)
      BY <1>11, <3>1 DEF Becomes
    <3>3. Due(e, c, k) = k
      BY <1>1, <3>1 DEF Due, AtMost
    <3> QED BY <1>15, <3>1, <3>2, <3>3
  <2>4. \A k \in Idx, i \in R : d <= k /\ k < e => s3.lev[k][i] = k
    <3> TAKE k \in Idx, i \in R
    <3> HAVE d <= k /\ k < e
    <3>1. k \in P /\ i \in Idx /\ i \in Int /\ k \in Int /\ i > k
      BY <1>1, <1>2
    <3>2. AtMost(i, k) = k
      BY <3>1 DEF AtMost
    <3> QED BY <1>16, <1>19, <3>1, <3>2
  <2>5. Eliminating(s3, s4, d, e, R, R)
    <3>1. e <= e /\ R \subseteq Cols
      BY <1>1, <1>14
    <3> QED BY <1>1, <1>12, <1>13, <1>14, <2>1, <2>2, <2>3, <2>4, <3>1 DEF Eliminating
  <2> QED BY <1>1, <1>4, <2>5 DEF Does
<1>25. Does(x5, s4, t)
  <2>1. Becomes(s4, t, n, n, Idx, n, Idx, Idx, n)
    <3>1. \A c \in Cols : c \notin Idx => s4.sw[c] = s.sw[c] /\ \A i \in Idx : s4.lev[c][i] = s.lev[c][i]
      BY <1>9, <1>10, <1>11, <1>12, <1>14 DEF Becomes
    <3> QED BY <1>8, <3>1 DEF Becomes
  <2>2. \A c \in Idx : e <= c /\ c < n => c \in Idx
    OBVIOUS
  <2>3. Panel(s4, t, Idx, e, n)
    BY <1>1, <1>13, <1>15, <1>20, <2>1, <2>2 DEF Panel
  <2> QED BY <1>4, <2>3 DEF Does
(* Together. *)
<1>31. Path(s1, <<x2>>, s2) /\ <<x2>> \in Seq(Tasks)
  BY <1>3, <1>9, <1>10, <1>22, PathOne
<1>32. Path(s3, <<x4, x5>>, t) /\ <<x4, x5>> \in Seq(Tasks)
  BY <1>3, <1>8, <1>11, <1>12, <1>24, <1>25, PathTwo
<1>33. Path(s, T1 \o <<x2>>, s2) /\ T1 \o <<x2>> \in Seq(Tasks)
  <2>1. T1 \o <<x2>> \in Seq(Tasks)
    BY <1>21, <1>31
  <2> QED BY <1>21, <1>31, <2>1, PathConcat
<1> DEFINE T2 == T1 \o <<x2>>
<1>34. Path(s, T2 \o T3, s3) /\ T2 \o T3 \in Seq(Tasks)
  <2>1. Path(s, T2, s2) /\ T2 \in Seq(Tasks)
    BY <1>33
  <2> HIDE DEF T2
  <2>2. T2 \o T3 \in Seq(Tasks)
    BY <1>23, <2>1
  <2> QED BY <1>23, <2>1, <2>2, PathConcat
<1> DEFINE T4 == T2 \o T3
<1> HIDE DEF T4
<1>35. Path(s, T4, s3) /\ T4 \in Seq(Tasks)
  BY <1>34 DEF T4
<1>36. Path(s, T4 \o <<x4, x5>>, t) /\ T4 \o <<x4, x5>> \in Seq(Tasks)
  <2>1. T4 \o <<x4, x5>> \in Seq(Tasks)
    BY <1>32, <1>35
  <2> QED BY <1>32, <1>35, <2>1, PathConcat
<1> QED BY <1>36 DEF T4

LEMMA PanelOver ==
  ASSUME n \in Nat, NEW s \in Points, NEW t, Panel(s, t, Idx, n, n)
  PROVE  Path(s, <<>>, t)
<1>1. /\ t \in Points /\ t.p = s.p /\ t.q = s.q
      /\ \A c \in Cols : t.sw[c] = s.sw[c]
      /\ \A c \in Cols, i \in Idx : t.lev[c][i] = s.lev[c][i]
  BY DEF Panel, Becomes
<1>2. s = t
  BY <1>1, PointsEqual
<1> QED BY <1>2, PathEmpty

(* The divisions of the back substitution. *)
LEMMA DivisionsSolve ==
  ASSUME n \in Nat, NEW s \in Points, NEW t, RowsDone(s), s.q = n,
         Becomes(s, t, n, 0, {}, 0, {}, {}, 0)
  PROVE  LET tasks == [k \in 1..n |-> Divide(n - k)] IN Path(s, tasks, t) /\ tasks \in Seq(Tasks)
<1> DEFINE f == [k \in 0..n |-> After(s, n, n - k, {}, 0, {}, {}, 0)]
           tasks == [k \in 1..n |-> Divide(n - k)]
<1>1. 0 \in 0..n /\ n \in 0..n /\ \A k \in 0..n : n - k \in 0..n
  OBVIOUS
<1>2. \A k \in 0..n : Becomes(s, f[k], n, n - k, {}, 0, {}, {}, 0)
  <2> TAKE k \in 0..n
  <2>1. f[k] = After(s, n, n - k, {}, 0, {}, {}, 0)
    OBVIOUS
  <2> HIDE DEF f
  <2> QED BY <1>1, <2>1, AfterBecomes
<1>3. f \in [0..n -> Points]
  <2>1. \A k \in 0..n : f[k] \in Points
    <3> HIDE DEF f
    <3> QED BY <1>2 DEF Becomes
  <2> QED BY <2>1
<1>4. /\ Len(tasks) = n /\ tasks \in Seq(Tasks)
      /\ \A k \in 1..n : tasks[k].op = "divide" /\ tasks[k].k = n - k
  <2>1. \A k \in 1..n : Divide(n - k) \in Tasks
    BY DEF Divide, Tasks
  <2>2. Len(tasks) = n /\ tasks \in Seq(Tasks)
    BY <2>1
  <2>3. \A k \in 1..n : tasks[k].op = "divide" /\ tasks[k].k = n - k
    BY DEF Divide
  <2> QED BY <2>2, <2>3
<1> SUFFICES Path(s, tasks, t) /\ tasks \in Seq(Tasks)
  OBVIOUS
<1> HIDE DEF f, tasks
<1>5. f[0] = s
  <2>1. Becomes(s, f[0], n, n, {}, 0, {}, {}, 0)
    <3>1. n - 0 = n
      OBVIOUS
    <3> QED BY <1>1, <1>2, <3>1
  <2>2. /\ f[0] \in Points /\ f[0].p = s.p /\ f[0].q = s.q
        /\ \A c \in Cols : f[0].sw[c] = s.sw[c]
        /\ \A c \in Cols, i \in Idx : f[0].lev[c][i] = s.lev[c][i]
    BY <2>1 DEF Becomes, RowsDone, MatrixDone
  <2> QED BY <2>2, PointsEqual
<1>6. f[n] = t
  <2>1. Becomes(s, f[n], n, 0, {}, 0, {}, {}, 0)
    <3>1. n - n = 0
      OBVIOUS
    <3> QED BY <1>1, <1>2, <3>1
  <2>2. /\ f[n] \in Points /\ t \in Points /\ f[n].p = t.p /\ f[n].q = t.q
        /\ \A c \in Cols : f[n].sw[c] = t.sw[c]
        /\ \A c \in Cols, i \in Idx : f[n].lev[c][i] = t.lev[c][i]
    BY <2>1 DEF Becomes
  <2> QED BY <2>2, PointsEqual
<1>7. \A k \in 1..n : Does(tasks[k], f[k-1], f[k])
  <2> TAKE k \in 1..n
  <2> DEFINE a == n - k
             b == n - (k - 1)
  <2>1. k - 1 \in 0..n /\ k \in 0..n /\ b = a + 1 /\ a \in Idx
    BY DEF Idx
  <2>2. Becomes(s, f[k-1], n, b, {}, 0, {}, {}, 0) /\ Becomes(s, f[k], n, a, {}, 0, {}, {}, 0)
    BY <1>2, <2>1
  <2>3. tasks[k].op = "divide" /\ tasks[k].k = a
    BY <1>4
  <2> HIDE DEF a, b
  <2>4. /\ f[k-1].q = a + 1 /\ f[k-1].p = n
        /\ \A c \in Cols : f[k-1].sw[c] = s.sw[c]
        /\ \A c \in Cols, i \in Idx : f[k-1].lev[c][i] = s.lev[c][i]
    BY <2>1, <2>2 DEF Becomes
  <2>5. RowsDone(f[k-1])
    BY <2>4, Ranges DEF RowsDone, MatrixDone
  <2>6. Becomes(f[k-1], f[k], n, a, {}, 0, {}, {}, 0)
    BY <2>2 DEF Becomes
  <2>7. Dividing(f[k-1], f[k], a)
    BY <2>1, <2>4, <2>5, <2>6 DEF Dividing
  <2> QED BY <2>3, <2>7 DEF Does
<1>8. Path(s, tasks, t)
  BY <1>3, <1>4, <1>5, <1>6, <1>7 DEF Path
<1> QED BY <1>4, <1>8

(* The solve with the factors. *)
LEMMA SolveTasks ==
  ASSUME n \in Nat, NEW s \in Points, NEW t, SolvingB(s, t)
  PROVE  LET tasks == <<Swaps(0, n, {n})>> \o [k \in 1..n |-> Axpy(k - 1, k..n-1, {n})]
                        \o [k \in 1..n |-> Divide(n - k)]
         IN  Path(s, tasks, t) /\ tasks \in Seq(Tasks)
<1> DEFINE b == {n}
           s1 == After(s, n, n, b, n, {}, {}, 0)
           s2 == After(s1, n, n, {}, 0, b, Idx, n)
           x1 == Swaps(0, n, b)
           T2 == [k \in 1..n |-> Axpy(k - 1, k..n-1, b)]
           T3 == [k \in 1..n |-> Divide(n - k)]
<1>1. /\ 0 \in 0..n /\ n \in 0..n /\ n \in Int /\ n + 1 \in Int /\ 0 + n = n /\ 0 \in Nat
      /\ n <= n /\ 0 <= n
      /\ \A i : i \in Idx <=> i \in Int /\ 0 <= i /\ i < n
      /\ b \subseteq Cols /\ n \in Cols /\ n \notin Idx /\ Idx \subseteq Cols
  BY Ranges
<1>2. x1 \in Tasks /\ x1.op = "swaps" /\ x1.k = 0 /\ x1.to = n /\ x1.cols = b
  <2>1. b \in SUBSET Int
    OBVIOUS
  <2> QED BY <2>1 DEF Swaps, Tasks
<1>3. T2 = Substitutions(0, n, n, n + 1) /\ n..n+1-1 = b
  <2>1. n..n+1-1 = b
    OBVIOUS
  <2>2. \A k \in 1..n : 0 + k - 1 = k - 1 /\ 0 + k = k /\ 0 + n - 1 = n - 1
    OBVIOUS
  <2>3. \A k \in 1..n : Axpy(k - 1, k..n-1, b) = Axpy(0 + k - 1, 0+k..0+n-1, n..n+1-1)
    BY <2>1, <2>2
  <2> QED BY <2>1, <2>3 DEF Substitutions
<1>4. SUFFICES Path(s, <<x1>> \o T2 \o T3, t) /\ <<x1>> \o T2 \o T3 \in Seq(Tasks)
  OBVIOUS
<1>b. \A c : c \in b <=> c = n
  OBVIOUS
<1>t. T3 = [k \in 1..n |-> Divide(n - k)]
  OBVIOUS
<1> HIDE DEF b, x1, T2, T3
<1>5. /\ s.p = n /\ s.q = n /\ s.sw[n] = 0 /\ t \in Points
      /\ \A i \in Idx : s.lev[n][i] = 0
      /\ \A c \in Idx : s.sw[c] = n /\ \A i \in Idx : s.lev[c][i] = Due(n, c, i)
      /\ Becomes(s, t, n, 0, b, n, b, Idx, n)
  BY DEF SolvingB, MatrixDone, Becomes, b
<1>6. Becomes(s, s1, n, n, b, n, {}, {}, 0) /\ s1 \in Points
  BY <1>1, AfterBecomes
<1> HIDE DEF s1
<1>7. Becomes(s1, s2, n, n, {}, 0, b, Idx, n) /\ s2 \in Points
  BY <1>1, <1>6, AfterBecomes
<1> HIDE DEF s2
<1>8. /\ s1.p = n /\ s1.q = n /\ s2.p = n /\ s2.q = n
      /\ \A c \in Idx : /\ s1.sw[c] = n /\ s2.sw[c] = n
                        /\ \A i \in Idx : s1.lev[c][i] = Due(n, c, i) /\ s2.lev[c][i] = Due(n, c, i)
      /\ s1.sw[n] = n /\ s2.sw[n] = n
      /\ \A i \in Idx : s1.lev[n][i] = 0 /\ s2.lev[n][i] = Due(n, n, i)
  BY <1>1, <1>b, <1>5, <1>6, <1>7 DEF Becomes
<1>9. \A i \in Idx : Due(n, n, i) = i /\ \A c \in Idx : Due(n, c, i) = AtMost(i, c)
  BY <1>1 DEF Due, AtMost
<1>10. Does(x1, s, s1)
  <2>1. \A c \in b : s.sw[c] = 0 /\ (c < s.p => c < 0)
    BY <1>1, <1>b, <1>5
  <2>2. \A c \in b, i, j \in Idx : i >= 0 /\ j >= 0 => s.lev[c][i] = s.lev[c][j]
    BY <1>b, <1>5
  <2>3. Swapping(s, s1, 0, n, b)
    BY <1>1, <1>5, <1>6, <2>1, <2>2 DEF Swapping
  <2> QED BY <1>2, <2>3 DEF Does
<1>11. Path(s1, T2, s2) /\ T2 \in Seq(Tasks)
  <2>1. \A c \in b : c >= n
    BY <1>1, <1>b
  <2>2. \A c \in b, i \in Idx : 0 <= i /\ i < n => s1.lev[c][i] = 0 /\ s1.sw[i] = s1.sw[c]
    BY <1>b, <1>8
  <2>3. \A j, i \in Idx : 0 <= j /\ j < n /\ 0 <= i /\ i < n => s1.lev[j][i] = AtMost(i, j)
    BY <1>8, <1>9
  <2>4. Becomes(s1, s2, s1.p, n, {}, 0, b, {i \in Idx : 0 <= i /\ i < n}, n)
    <3>1. \A i \in Idx : i \in {l \in Idx : 0 <= l /\ l < n} <=> i \in Idx
      BY <1>1
    <3> QED BY <1>7, <1>8, <3>1 DEF Becomes
  <2>5. Substituting(s1, s2, 0, n, b)
    BY <1>1, <1>8, <2>1, <2>2, <2>3, <2>4 DEF Substituting
  <2> DEFINE d == 0
             c1 == n + 1
  <2>6. d \in Nat /\ c1 \in Int /\ d + n = n /\ n..c1-1 = b
    BY <1>3
  <2>7. Substituting(s1, s2, d, n, b) /\ T2 = Substitutions(d, n, n, c1)
    BY <1>3, <2>5
  <2> HIDE DEF d, c1
  <2>8. Substituting(s1, s2, d, d + n, n..c1-1)
    BY <2>6, <2>7
  <2> QED BY <1>1, <1>6, <2>6, <2>7, <2>8, SubstitutionsSolve
<1>12. Path(s2, T3, t) /\ T3 \in Seq(Tasks)
  <2>1. RowsDone(s2)
    BY <1>8, <1>9 DEF RowsDone, MatrixDone
  <2>2. Becomes(s2, t, n, 0, {}, 0, {}, {}, 0)
    <3>1. /\ \A c \in Cols : t.sw[c] = s2.sw[c]
          /\ \A c \in Cols, i \in Idx : t.lev[c][i] = s2.lev[c][i]
      BY <1>5, <1>6, <1>7 DEF Becomes
    <3> QED BY <1>5, <3>1 DEF Becomes
  <2> QED BY <1>7, <1>8, <1>t, <2>1, <2>2, DivisionsSolve
<1>13. Path(s, <<x1>>, s1) /\ <<x1>> \in Seq(Tasks)
  BY <1>2, <1>6, <1>10, PathOne
<1>14. Path(s, <<x1>> \o T2, s2) /\ <<x1>> \o T2 \in Seq(Tasks)
  <2>1. <<x1>> \o T2 \in Seq(Tasks)
    BY <1>11, <1>13
  <2> QED BY <1>11, <1>13, <2>1, PathConcat
<1> DEFINE T4 == <<x1>> \o T2
<1> HIDE DEF T4
<1>15. Path(s, T4, s2) /\ T4 \in Seq(Tasks)
  BY <1>14 DEF T4
<1>16. Path(s, T4 \o T3, t) /\ T4 \o T3 \in Seq(Tasks)
  <2>1. T4 \o T3 \in Seq(Tasks)
    BY <1>12, <1>15
  <2> QED BY <1>12, <1>15, <2>1, PathConcat
<1> QED BY <1>16 DEF T4

(* Swaps that are all done. *)
LEMMA SwapsOver ==
  ASSUME n \in Nat, NEW s \in Points, NEW t, NEW k, NEW to, NEW C, Swapping(s, t, k, to, C), ~(k < to)
  PROVE  s = t
<1>1. k = to
  BY DEF Swapping
<1>2. /\ t \in Points /\ t.p = s.p /\ t.q = s.q
      /\ \A c \in Cols : t.sw[c] = s.sw[c]
      /\ \A c \in Cols, i \in Idx : t.lev[c][i] = s.lev[c][i]
  BY <1>1 DEF Swapping, Becomes
<1> QED BY <1>2, PointsEqual

-----------------------------------------------------------------------------
(* The order does not change, and the meaning of tasks depends on it only. *)
LEMMA SameMeaning ==
  ASSUME n' = n, NEW s, NEW u, NEW tasks, tasks = todo', Path(s, tasks, u)
  PROVE  Path(s, todo, u)' /\ Points' = Points /\ Idx' = Idx /\ Cols' = Cols
<1>1. Idx' = Idx /\ Cols' = Cols
  BY DEF Idx, Cols
<1>2. Points' = Points
  BY <1>1 DEF Points
<1>3. ASSUME NEW x, NEW a, NEW b, Does(x, a, b) PROVE Does(x, a, b)'
  <2>1. ASSUME NEW p, NEW q, NEW C, NEW y, NEW D, NEW R, NEW m, Becomes(a, b, p, q, C, y, D, R, m)
        PROVE  Becomes(a, b, p, q, C, y, D, R, m)'
    BY <1>1, <1>2, <2>1 DEF Becomes, Due, AtMost
  <2>2. CASE x.op = "block" /\ Panel(a, b, Idx, x.j, n)
    BY <1>1, <1>2, <2>2 DEF Does, Panel, Becomes, Due, AtMost
  <2>3. CASE x.op = "lu_rec" /\ x.d \in Nat /\ x.w \in Nat /\ Panel(a, b, x.d..x.d+x.w-1, x.d, x.d + x.w)
    BY <1>1, <1>2, <2>3 DEF Does, Panel, Becomes, Due, AtMost
  <2>4. CASE x.op = "column" /\ Panel(a, b, x.c0..x.c1-1, x.jc, x.jc + 1)
    BY <1>1, <1>2, <2>4 DEF Does, Panel, Becomes, Due, AtMost
  <2>5. CASE x.op = "swaps" /\ Swapping(a, b, x.k, x.to, x.cols)
    BY <1>1, <1>2, <2>5 DEF Does, Swapping, Becomes, Due, AtMost
  <2>6. CASE x.op = "trsm_rec" /\ x.d \in Nat /\ x.k \in Nat
       /\ Substituting(a, b, x.d, x.d + x.k, x.c0..x.c1-1)
    BY <1>1, <1>2, <2>6 DEF Does, Substituting, Becomes, Due, AtMost
  <2>7. CASE x.op = "update" /\ \E k, l \in 0..n : x.steps = k..l-1 /\ Eliminating(a, b, k, l, x.rows, x.cols)
    BY <1>1, <1>2, <2>7 DEF Does, Eliminating, Becomes, Due, AtMost
  <2>8. CASE x.op = "solve" /\ SolvingB(a, b)
    BY <1>1, <1>2, <2>8 DEF Does, SolvingB, MatrixDone, Becomes, Due, AtMost
  <2>9. CASE x.op = "divide" /\ Dividing(a, b, x.k)
    BY <1>1, <1>2, <2>9 DEF Does, Dividing, RowsDone, MatrixDone, Becomes, Due, AtMost
  <2> QED BY <1>3, <2>2, <2>3, <2>4, <2>5, <2>6, <2>7, <2>8, <2>9 DEF Does
<1>5. Path(s, todo, u)'
  BY <1>2, <1>3 DEF Path
<1> QED BY <1>1, <1>2, <1>5

LEMMA SameDone ==
  ASSUME n' = n, NEW s
  PROVE  RowsDone(s)' <=> RowsDone(s)
<1>1. Idx' = Idx /\ Cols' = Cols
  BY DEF Idx, Cols
<1> QED BY <1>1 DEF RowsDone, MatrixDone, Due, AtMost

-----------------------------------------------------------------------------
(***************************************************************************)
(* The state at progress s: order[k] are the rows after the first k swaps. *)
(***************************************************************************)
Orders == [0..n -> [Idx -> Idx]]

SwapsMade(s, order) ==
  /\ \A i \in Idx : order[0][i] = i
  /\ \A k \in Idx : k < s.p => order[k+1] = SwapRow(order[k], k)
  /\ \A k \in 0..n, i, j \in Idx : k <= s.p /\ order[k][i] = order[k][j] => i = j
  /\ \A k \in Idx : IF k < s.p THEN piv[k] \in k..n-1 ELSE piv[k] = -1
  /\ \A c \in Cols : s.sw[c] <= s.p /\ at[c] = order[s.sw[c]] /\ (c < s.p => c < s.sw[c])

StepsMade(s) ==
  /\ \A c \in Cols, i \in Idx, k \in Idx : upd[c][at[c][i]][k] = IF k < s.lev[c][i] THEN 1 ELSE 0
  /\ \A k, i \in Idx : k < s.p /\ k < i => <<at[k][i], k>> \in scaled

RowsDivided(s) ==
  /\ \A i \in Idx : i \in solved <=> s.q <= i
  /\ \A i, k \in Idx : back[i][k] = IF k > i /\ k >= s.q THEN 1 ELSE 0
  /\ s.q < n => RowsDone(s)

Rep(s, order) == SwapsMade(s, order) /\ StepsMade(s) /\ RowsDivided(s)

LUTypeOK ==
  /\ n \in Nat /\ width \in Nat /\ trsm_base \in Nat
  /\ todo \in Seq(Tasks)
  /\ at \in [Cols -> [Idx -> Idx]]
  /\ upd \in [Cols -> [Idx -> [Idx -> 0..2]]]
  /\ scaled \subseteq Idx \X Idx
  /\ piv \in [Idx -> -1..n-1]
  /\ back \in [Idx -> [Idx -> Nat]]
  /\ solved \subseteq Idx

(* What is still to be done leads from here to the end. *)
Leads(s) == \E u \in Points : Path(s, todo, u) /\ u.p = n /\ u.q = 0 /\ RowsDone(u)

LUInv == LUTypeOK /\ \E s \in Points, order \in Orders : Rep(s, order) /\ Leads(s)

(* Two entries of a sequence of rows change places. *)
LEMMA Exchange ==
  ASSUME n \in Nat, NEW f \in [Idx -> Idx], NEW a \in Idx, NEW b \in Idx, NEW g,
         g = [f EXCEPT ![a] = f[b], ![b] = f[a]]
  PROVE  /\ g \in [Idx -> Idx]
         /\ \A i \in Idx : g[i] = f[IF i = a THEN b ELSE IF i = b THEN a ELSE i]
         /\ (\A i, j \in Idx : f[i] = f[j] => i = j) => \A i, j \in Idx : g[i] = g[j] => i = j
<1>1. g \in [Idx -> Idx]
  OBVIOUS
<1>2. \A i \in Idx : g[i] = f[IF i = a THEN b ELSE IF i = b THEN a ELSE i]
  OBVIOUS
<1>3. ASSUME \A i, j \in Idx : f[i] = f[j] => i = j
      PROVE  \A i, j \in Idx : g[i] = g[j] => i = j
  BY <1>2, <1>3
<1> QED BY <1>1, <1>2, <1>3

(* The first state. *)
LEMMA LUInvInit == Init => LUInv
<1> SUFFICES ASSUME Init PROVE LUInv
  OBVIOUS
<1>1. n \in Nat /\ width \in Nat /\ trsm_base \in Nat
  BY CallsAssumption DEF Init
<1> DEFINE s == [p |-> 0, q |-> n, sw |-> [c \in Cols |-> 0], lev |-> [c \in Cols |-> [i \in Idx |-> 0]]]
           m == After(s, n, n, Idx, n, Idx, Idx, n)
           u == After(m, n, 0, {n}, n, {n}, Idx, n)
           order == [k \in 0..n |-> [i \in Idx |-> i]]
           x == IF kernel = "blocked" THEN Block(0) ELSE LuRec(0, n)
           set == 0..0+n-1
<1>2. /\ 0 \in 0..n /\ n \in 0..n /\ 0 <= n /\ Idx = set /\ 0 + n = n /\ 0 \in Nat
      /\ \A i : i \in Idx <=> i \in Int /\ 0 <= i /\ i < n
      /\ \A c : c \in Cols <=> c \in Int /\ 0 <= c /\ c <= n
      /\ n \in Cols /\ n \notin Idx /\ Idx \subseteq Cols
  BY <1>1, Ranges DEF Idx
<1>3. s \in Points
  BY <1>2 DEF Points
<1>4. /\ s.p = 0 /\ s.q = n /\ \A c \in Cols : s.sw[c] = 0
      /\ \A c \in Cols, i \in Idx : s.lev[c][i] = 0
  OBVIOUS
<1>5. order \in Orders /\ \A k \in 0..n, i \in Idx : order[k][i] = i
  BY DEF Orders
<1>o. \A k \in 0..n : order[k] = [i \in Idx |-> i]
  OBVIOUS
<1> HIDE DEF s, order, set
<1>6. Becomes(s, m, n, n, Idx, n, Idx, Idx, n) /\ m \in Points
  BY <1>1, <1>2, <1>3, AfterBecomes
<1> HIDE DEF m
<1>7. Becomes(m, u, n, 0, {n}, n, {n}, Idx, n) /\ u \in Points
  BY <1>1, <1>2, <1>6, AfterBecomes
<1> HIDE DEF u
<1>8. \A c \in Cols, i \in Idx : Due(0, c, i) = 0 /\ Due(n, n, i) = i
  BY <1>2 DEF Due, AtMost
<1>9. Panel(s, m, Idx, 0, n)
  BY <1>2, <1>4, <1>6, <1>8 DEF Panel
<1>10. Does(x, s, m) /\ x \in Tasks
  <2>1. CASE kernel = "blocked"
    <3>1. x = Block(0)
      BY <2>1
    <3> HIDE DEF x
    <3> QED BY <1>9, <3>1 DEF Does, Block, Tasks
  <2>2. CASE kernel # "blocked"
    <3>1. x = LuRec(0, n)
      BY <2>2
    <3> HIDE DEF x
    <3>2. x.op = "lu_rec" /\ x.d = 0 /\ x.w = n /\ x \in Tasks
      BY <1>1, <3>1 DEF LuRec, Tasks
    <3>3. x.d..x.d+x.w-1 = Idx /\ x.d + x.w = n /\ x.d \in Nat /\ x.w \in Nat
      BY <1>1, <1>2, <3>2 DEF set
    <3>4. Panel(s, m, x.d..x.d+x.w-1, x.d, x.d + x.w)
      BY <1>9, <3>2, <3>3
    <3> QED BY <3>2, <3>3, <3>4 DEF Does
  <2> QED BY <2>1, <2>2
<1>11. /\ m.p = n /\ m.q = n /\ m.sw[n] = 0 /\ \A i \in Idx : m.lev[n][i] = 0
       /\ \A c \in Idx : m.sw[c] = n /\ \A i \in Idx : m.lev[c][i] = Due(n, c, i)
  BY <1>2, <1>4, <1>6 DEF Becomes
<1>12. Does(Solve, m, u) /\ Solve \in Tasks
  <2>1. SolvingB(m, u)
    BY <1>7, <1>11 DEF SolvingB, MatrixDone
  <2> QED BY <2>1 DEF Does, Solve, Tasks
<1>13. u.p = n /\ u.q = 0 /\ RowsDone(u)
  <2>1. \A c \in Idx : u.sw[c] = n /\ \A i \in Idx : u.lev[c][i] = Due(n, c, i)
    BY <1>2, <1>7, <1>11 DEF Becomes
  <2>2. u.p = n /\ u.q = 0 /\ u.sw[n] = n /\ \A i \in Idx : u.lev[n][i] = i
    BY <1>2, <1>7, <1>8 DEF Becomes
  <2> QED BY <2>1, <2>2 DEF RowsDone, MatrixDone
<1>14. Leads(s) /\ todo \in Seq(Tasks)
  <2>1. todo = <<x, Solve>>
    BY DEF Init
  <2> HIDE DEF x
  <2>2. Path(s, <<x, Solve>>, u) /\ <<x, Solve>> \in Seq(Tasks)
    BY <1>3, <1>6, <1>7, <1>10, <1>12, PathTwo
  <2> QED BY <1>7, <1>13, <2>1, <2>2 DEF Leads
<1>15. Rep(s, order)
  <2>1. SwapsMade(s, order)
    <3>1. \A c \in Cols : at[c] = order[0]
      BY <1>2, <1>o DEF Init
    <3>2. \A k \in Idx : piv[k] = -1 /\ ~(k < s.p)
      BY <1>2, <1>4 DEF Init
    <3>3. \A k \in 0..n, i, j \in Idx : k <= s.p /\ order[k][i] = order[k][j] => i = j
      BY <1>5
    <3>4. \A c \in Cols : s.sw[c] <= s.p /\ at[c] = order[s.sw[c]] /\ (c < s.p => c < s.sw[c])
      BY <1>2, <1>4, <3>1
    <3> QED BY <1>2, <1>5, <3>2, <3>3, <3>4 DEF SwapsMade
  <2>2. StepsMade(s)
    <3>1. \A c \in Cols, i, k \in Idx : upd[c][at[c][i]][k] = 0 /\ ~(k < s.lev[c][i])
      BY <1>2, <1>4 DEF Init
    <3>2. \A k \in Idx : ~(k < s.p)
      BY <1>2, <1>4
    <3> QED BY <3>1, <3>2 DEF StepsMade
  <2>3. RowsDivided(s)
    <3>1. \A i \in Idx : i \notin solved /\ ~(s.q <= i)
      BY <1>2, <1>4 DEF Init
    <3>2. \A i, k \in Idx : back[i][k] = 0 /\ ~(k >= s.q)
      BY <1>1, <1>2, <1>4 DEF Init
    <3>3. ~(s.q < n)
      BY <1>1, <1>4
    <3> QED BY <3>1, <3>2, <3>3 DEF RowsDivided
  <2> QED BY <2>1, <2>2, <2>3 DEF Rep
<1>16. LUTypeOK
  <2>1. at \in [Cols -> [Idx -> Idx]] /\ upd \in [Cols -> [Idx -> [Idx -> 0..2]]]
    BY DEF Init
  <2>2. scaled \subseteq Idx \X Idx /\ solved \subseteq Idx /\ back \in [Idx -> [Idx -> Nat]]
    BY DEF Init
  <2>3. piv \in [Idx -> -1..n-1]
    <3>1. -1 \in -1..n-1
      BY <1>1
    <3> QED BY <3>1 DEF Init
  <2> QED BY <1>1, <1>14, <2>1, <2>2, <2>3 DEF LUTypeOK
<1> QED BY <1>3, <1>5, <1>14, <1>15, <1>16 DEF LUInv

(* Progress is about the data only. *)
LEMMA SameRep ==
  ASSUME NEW s, NEW order, Rep(s, order), n' = n, at' = at, upd' = upd, scaled' = scaled,
         piv' = piv, back' = back, solved' = solved
  PROVE  Rep(s, order)'
<1>1. Idx' = Idx /\ Cols' = Cols
  BY DEF Idx, Cols
<1>2. RowsDone(s)' <=> RowsDone(s)
  BY SameDone
<1>3. SwapsMade(s, order) /\ StepsMade(s) /\ RowsDivided(s)
  BY DEF Rep
<1>4. SwapsMade(s, order)'
  <2>1. (\A i \in Idx : order[0][i] = i)'
    BY <1>1, <1>3 DEF SwapsMade
  <2>2. (\A k \in Idx : k < s.p => order[k+1] = SwapRow(order[k], k))'
    BY <1>1, <1>3 DEF SwapsMade, SwapRow
  <2>3. (\A k \in 0..n, i, j \in Idx : k <= s.p /\ order[k][i] = order[k][j] => i = j)'
    BY <1>1, <1>3 DEF SwapsMade
  <2>4. (\A k \in Idx : IF k < s.p THEN piv[k] \in k..n-1 ELSE piv[k] = -1)'
    BY <1>1, <1>3 DEF SwapsMade
  <2>5. (\A c \in Cols : s.sw[c] <= s.p /\ at[c] = order[s.sw[c]] /\ (c < s.p => c < s.sw[c]))'
    BY <1>1, <1>3 DEF SwapsMade
  <2> QED BY <2>1, <2>2, <2>3, <2>4, <2>5 DEF SwapsMade
<1>5. StepsMade(s)'
  BY <1>1, <1>3 DEF StepsMade
<1>6. RowsDivided(s)'
  BY <1>1, <1>2, <1>3 DEF RowsDivided
<1> QED BY <1>4, <1>5, <1>6 DEF Rep

(* The state stays, a task is replaced by tasks that do the same. *)
LEMMA Replaced ==
  ASSUME LUTypeOK, NEW s \in Points, NEW t \in Points, NEW u \in Points, NEW order \in Orders,
         Rep(s, order), NEW tasks \in Seq(Tasks), Path(s, tasks, t), Path(t, Tail(todo), u),
         u.p = n, u.q = 0, RowsDone(u), todo # <<>>, Do(tasks), UNCHANGED data
  PROVE  LUInv'
<1>1. /\ n' = n /\ width' = width /\ trsm_base' = trsm_base /\ at' = at /\ upd' = upd
      /\ scaled' = scaled /\ piv' = piv /\ back' = back /\ solved' = solved
      /\ todo' = tasks \o Tail(todo)
  BY DEF Do, call, data
<1> DEFINE new == todo'
           rest == Tail(todo)
<1>2. rest \in Seq(Tasks) /\ todo \in Seq(Tasks)
  BY DEF LUTypeOK
<1>3. Path(s, new, u) /\ new \in Seq(Tasks) /\ new = todo'
  <2>1. new = tasks \o rest /\ Path(t, rest, u)
    BY <1>1
  <2> HIDE DEF new, rest
  <2>2. new \in Seq(Tasks)
    BY <1>2, <2>1
  <2>3. Path(s, tasks \o rest, u)
    BY <1>2, <2>1, PathConcat
  <2>4. new = todo'
    BY DEF new
  <2> QED BY <2>1, <2>2, <2>3, <2>4
<1> HIDE DEF new, rest
<1>4. /\ Path(s, todo, u)' /\ Points' = Points /\ Idx' = Idx /\ Cols' = Cols
      /\ (RowsDone(u)' <=> RowsDone(u)) /\ (RowsDone(s)' <=> RowsDone(s))
  <2>1. n' = n
    BY <1>1
  <2>2. Path(s, todo, u)' /\ Points' = Points /\ Idx' = Idx /\ Cols' = Cols
    BY <1>3, <2>1, SameMeaning
  <2>3. (RowsDone(u)' <=> RowsDone(u)) /\ (RowsDone(s)' <=> RowsDone(s))
    BY <2>1, SameDone
  <2> QED BY <2>2, <2>3
<1>5. Leads(s)'
  BY <1>1, <1>4 DEF Leads
<1>6. Rep(s, order)'
  BY <1>1, <1>4, SameRep
<1>7. LUTypeOK'
  BY <1>1, <1>3, <1>4 DEF LUTypeOK
<1>8. order \in Orders'
  BY <1>1, <1>4 DEF Orders
<1> QED BY <1>4, <1>5, <1>6, <1>7, <1>8 DEF LUInv

(* The first of the tasks, and the progress it makes. *)
LEMMA Ahead ==
  ASSUME LUInv, todo # <<>>
  PROVE  /\ LUTypeOK
         /\ \E s, t, u \in Points, order \in Orders :
              /\ Rep(s, order) /\ Does(Head(todo), s, t) /\ Path(t, Tail(todo), u)
              /\ u.p = n /\ u.q = 0 /\ RowsDone(u)
<1>1. LUTypeOK /\ todo \in Seq(Tasks)
  BY DEF LUInv, LUTypeOK
<1>2. PICK s \in Points, order \in Orders : Rep(s, order) /\ Leads(s)
  BY DEF LUInv
<1>3. PICK u \in Points : Path(s, todo, u) /\ u.p = n /\ u.q = 0 /\ RowsDone(u)
  BY <1>2 DEF Leads
<1>4. PICK t \in Points : Does(Head(todo), s, t) /\ Path(t, Tail(todo), u)
  BY <1>1, <1>3, PathHead
<1> QED BY <1>1, <1>2, <1>3, <1>4

(* Tasks that are replaced by tasks with the same effect. *)
LEMMA BlockPreserves == LUInv /\ BlockStep => LUInv'
<1> SUFFICES ASSUME LUInv, BlockStep PROVE LUInv'
  OBVIOUS
<1> DEFINE j == Head(todo).j
           kb == AtMost(nb, n - j)
<1>1. todo # <<>> /\ Head(todo).op = "block" /\ UNCHANGED data
  BY DEF BlockStep, Task
<1>2. LUTypeOK /\ n \in Nat
  BY <1>1, Ahead DEF LUTypeOK
<1>3. PICK s, t, u \in Points, order \in Orders :
              /\ Rep(s, order) /\ Does(Head(todo), s, t) /\ Path(t, Tail(todo), u)
              /\ u.p = n /\ u.q = 0 /\ RowsDone(u)
  BY <1>1, Ahead
<1>4. Panel(s, t, Idx, j, n) /\ j \in 0..n
  <2>1. Panel(s, t, Idx, j, n)
    BY <1>1, <1>3 DEF Does
  <2> HIDE DEF j
  <2> QED BY <2>1 DEF Panel
<1>5. CASE j < n
  <2> DEFINE tasks == Columns(j, kb) \o <<Swaps(j, j + kb, OutsidePanel(j, kb))>>
                     \o Substitutions(j, kb, j + kb, n)
                     \o <<Matmul(j..j+kb-1, j+kb..n-1, j+kb..n-1), Block(j + kb)>>
  <2>1. nb \in Nat
    BY <1>2, DefaultsAssumption DEF LUTypeOK, nb, AtLeast
  <2>2. kb \in 0..n-j
    <3> HIDE DEF j
    <3> QED BY <1>2, <1>4, <2>1 DEF AtMost
  <2>3. Do(tasks)
    BY <1>5 DEF BlockStep
  <2> DEFINE k == kb
  <2>4. /\ tasks = Columns(j, k) \o <<Swaps(j, j + k, OutsidePanel(j, k))>>
                     \o Substitutions(j, k, j + k, n)
                     \o <<Matmul(j..j+k-1, j+k..n-1, j+k..n-1), Block(j + k)>>
        /\ k \in 0..n-j
    BY <2>2
  <2> HIDE DEF tasks, k, kb, j
  <2>5. Path(s, tasks, t) /\ tasks \in Seq(Tasks)
    BY <1>2, <1>3, <1>4, <2>4, BlockFactorsPanel
  <2> QED BY <1>1, <1>2, <1>3, <2>3, <2>5, Replaced
<1>6. CASE ~(j < n)
  <2>1. Do(<<>>)
    BY <1>6 DEF BlockStep
  <2> HIDE DEF j
  <2>2. j = n
    BY <1>2, <1>4, <1>6
  <2>3. Path(s, <<>>, t)
    BY <1>2, <1>3, <1>4, <2>2, PanelOver
  <2>4. <<>> \in Seq(Tasks)
    OBVIOUS
  <2> QED BY <1>1, <1>2, <1>3, <2>1, <2>3, <2>4, Replaced
<1> QED BY <1>5, <1>6

LEMMA LuRecPreserves == LUInv /\ LuRecStep => LUInv'
<1> SUFFICES ASSUME LUInv, LuRecStep PROVE LUInv'
  OBVIOUS
<1> DEFINE d == Head(todo).d
           w == Head(todo).w
           n1 == half(w)
<1>1. todo # <<>> /\ Head(todo).op = "lu_rec" /\ UNCHANGED data
  BY DEF LuRecStep, Task
<1>2. LUTypeOK /\ n \in Nat
  BY <1>1, Ahead DEF LUTypeOK
<1>3. PICK s, t, u \in Points, order \in Orders :
              /\ Rep(s, order) /\ Does(Head(todo), s, t) /\ Path(t, Tail(todo), u)
              /\ u.p = n /\ u.q = 0 /\ RowsDone(u)
  BY <1>1, Ahead
<1>4. Panel(s, t, d..d+w-1, d, d + w) /\ d \in Nat /\ w \in Nat
  BY <1>1, <1>3 DEF Does
<1>5. CASE FlatEnough(w)
  <2>1. Do(Columns(d, w))
    BY <1>5 DEF LuRecStep
  <2> HIDE DEF d, w
  <2>2. Path(s, Columns(d, w), t) /\ Columns(d, w) \in Seq(Tasks)
    BY <1>2, <1>3, <1>4, ColumnsFactorPanel
  <2> QED BY <1>1, <1>2, <1>3, <2>1, <2>2, Replaced
<1>6. CASE ~FlatEnough(w)
  <2>1. Do(Halves(d, w, n1))
    BY <1>6 DEF LuRecStep
  <2>2. n1 \in 0..w
    <3> HIDE DEF w
    <3> QED BY <1>4 DEF half
  <2> HIDE DEF d, w, n1
  <2>3. Path(s, Halves(d, w, n1), t) /\ Halves(d, w, n1) \in Seq(Tasks)
    BY <1>2, <1>3, <1>4, <2>2, HalvesFactorPanel
  <2> QED BY <1>1, <1>2, <1>3, <2>1, <2>3, Replaced
<1> QED BY <1>5, <1>6

LEMMA TrsmRecPreserves == LUInv /\ TrsmRecStep => LUInv'
<1> SUFFICES ASSUME LUInv, TrsmRecStep PROVE LUInv'
  OBVIOUS
<1> DEFINE x == Head(todo)
           d == Head(todo).d
           w == Head(todo).k
           c0 == Head(todo).c0
           c1 == Head(todo).c1
           k1 == half(w)
           base == IF trsm_base = 0 THEN TrsmBase ELSE trsm_base
           halves == << TrsmRec(d, k1, c0, c1), Matmul(d..d+k1-1, d+k1..d+w-1, c0..c1-1),
                        TrsmRec(d + k1, w - k1, c0, c1) >>
<1>1. todo # <<>> /\ Head(todo).op = "trsm_rec" /\ UNCHANGED data
  BY DEF TrsmRecStep, Task
<1>2. LUTypeOK /\ n \in Nat /\ todo \in Seq(Tasks)
  BY <1>1, Ahead DEF LUTypeOK
<1>3. PICK s, t, u \in Points, order \in Orders :
              /\ Rep(s, order) /\ Does(Head(todo), s, t) /\ Path(t, Tail(todo), u)
              /\ u.p = n /\ u.q = 0 /\ RowsDone(u)
  BY <1>1, Ahead
<1>4. Substituting(s, t, d, d + w, c0..c1-1) /\ d \in Nat /\ w \in Nat
  BY <1>1, <1>3 DEF Does
<1>5. c0 \in Int /\ c1 \in Int
  <2>1. x \in Tasks /\ x.op = "trsm_rec"
    BY <1>1, <1>2
  <2> HIDE DEF x
  <2>2. x.c0 \in Int /\ x.c1 \in Int
    BY <2>1 DEF Tasks
  <2> QED BY <2>2 DEF x
<1>6. CASE w <= base
  <2>1. Do(Substitutions(d, w, c0, c1))
    BY <1>6 DEF TrsmRecStep
  <2> HIDE DEF d, w, c0, c1
  <2>2. Path(s, Substitutions(d, w, c0, c1), t) /\ Substitutions(d, w, c0, c1) \in Seq(Tasks)
    BY <1>2, <1>3, <1>4, <1>5, SubstitutionsSolve
  <2> QED BY <1>1, <1>2, <1>3, <2>1, <2>2, Replaced
<1>7. CASE ~(w <= base)
  <2>1. Do(halves)
    BY <1>7 DEF TrsmRecStep
  <2>2. k1 \in 0..w
    <3> HIDE DEF w
    <3> QED BY <1>4 DEF half
  <2>3. halves = << TrsmRec(d, k1, c0, c1), Matmul(d..d+k1-1, d+k1..d+w-1, c0..c1-1),
                        TrsmRec(d + k1, w - k1, c0, c1) >>
    OBVIOUS
  <2> HIDE DEF d, w, c0, c1, k1, halves
  <2>4. Path(s, halves, t) /\ halves \in Seq(Tasks)
    BY <1>2, <1>3, <1>4, <1>5, <2>2, <2>3, HalvesSubstitute
  <2> QED BY <1>1, <1>2, <1>3, <2>1, <2>4, Replaced
<1> QED BY <1>6, <1>7

LEMMA SolvePreserves == LUInv /\ SolveStep => LUInv'
<1> SUFFICES ASSUME LUInv, SolveStep PROVE LUInv'
  OBVIOUS
<1> DEFINE tasks == <<Swaps(0, n, {n})>> \o [k \in 1..n |-> Axpy(k - 1, k..n-1, {n})]
                        \o [k \in 1..n |-> Divide(n - k)]
<1>1. todo # <<>> /\ Head(todo).op = "solve" /\ UNCHANGED data /\ Do(tasks)
  BY DEF SolveStep, Task
<1>2. LUTypeOK /\ n \in Nat
  BY <1>1, Ahead DEF LUTypeOK
<1>3. PICK s, t, u \in Points, order \in Orders :
              /\ Rep(s, order) /\ Does(Head(todo), s, t) /\ Path(t, Tail(todo), u)
              /\ u.p = n /\ u.q = 0 /\ RowsDone(u)
  BY <1>1, Ahead
<1>4. SolvingB(s, t)
  BY <1>1, <1>3 DEF Does
<1>5. Path(s, tasks, t) /\ tasks \in Seq(Tasks)
  BY <1>2, <1>3, <1>4, SolveTasks
<1> HIDE DEF tasks
<1> QED BY <1>1, <1>2, <1>3, <1>5, Replaced

-----------------------------------------------------------------------------
(* The first task brings the state to r; what replaces it leads on from there. *)
LEMMA Advanced ==
  ASSUME LUTypeOK, NEW r \in Points, NEW t, NEW u \in Points, NEW order \in Orders,
         LUTypeOK', Rep(r, order)', NEW tasks \in Seq(Tasks), Path(r, tasks, t),
         Path(t, Tail(todo), u), u.p = n, u.q = 0, RowsDone(u), todo # <<>>, Do(tasks)
  PROVE  LUInv'
<1>1. n' = n /\ todo' = tasks \o Tail(todo)
  BY DEF Do, call
<1> DEFINE new == todo'
           rest == Tail(todo)
<1>2. new = todo' /\ Path(r, new, u)
  <2>1. rest \in Seq(Tasks) /\ new = tasks \o rest /\ Path(t, rest, u)
    BY <1>1 DEF LUTypeOK
  <2> HIDE DEF new, rest
  <2>2. Path(r, tasks \o rest, u)
    BY <2>1, PathConcat
  <2> QED BY <2>1, <2>2 DEF new
<1> HIDE DEF new, rest
<1>3. Path(r, todo, u)' /\ Points' = Points /\ Idx' = Idx /\ Cols' = Cols
  BY <1>1, <1>2, SameMeaning
<1>4. RowsDone(u)' <=> RowsDone(u)
  BY <1>1, SameDone
<1>5. Leads(r)'
  BY <1>1, <1>3, <1>4 DEF Leads
<1>6. order \in Orders'
  BY <1>1, <1>3 DEF Orders
<1> QED BY <1>3, <1>5, <1>6 DEF LUInv

(* One column of a panel. *)
LEMMA ColumnStep ==
  ASSUME LUTypeOK, NEW s \in Points, NEW t \in Points, NEW order \in Orders,
         Rep(s, order), Does(Head(todo), s, t), PanelColumn
  PROVE  LUTypeOK' /\ \E order2 \in Orders : Rep(t, order2)'
<1> DEFINE j == Head(todo).jc
           C == Head(todo).c0..Head(todo).c1-1
           D == j+1..Head(todo).c1-1
           low == j+1..n-1
           A == at'
           U == upd'
           V == piv'
           S == scaled'
<1>n. n \in Nat
  BY DEF LUTypeOK
<1>0. /\ at \in [Cols -> [Idx -> Idx]] /\ upd \in [Cols -> [Idx -> [Idx -> 0..2]]]
      /\ scaled \subseteq Idx \X Idx /\ piv \in [Idx -> -1..n-1]
  BY DEF LUTypeOK
<1>1. /\ n' = n /\ width' = width /\ trsm_base' = trsm_base /\ back' = back /\ solved' = solved
      /\ todo' = <<>> \o Tail(todo) /\ todo # <<>> /\ Head(todo).op = "column"
  BY DEF PanelColumn, Do, call, Task
<1>2. Panel(s, t, C, j, j + 1) /\ D = j+1..Head(todo).c1-1 /\ C = Head(todo).c0..Head(todo).c1-1
  BY <1>1 DEF Does
<1>c. Head(todo).c0 \in Int /\ Head(todo).c1 \in Int
  <2> DEFINE x == Head(todo)
  <2>1. x \in Tasks /\ x.op = "column"
    BY <1>1 DEF LUTypeOK
  <2> HIDE DEF x
  <2>2. x.c0 \in Int /\ x.c1 \in Int
    BY <2>1 DEF Tasks
  <2> QED BY <2>2 DEF x
<1>3. PICK p \in j..n-1 :
        /\ V = [piv EXCEPT ![j] = p]
        /\ A = swap_rows(C, j, p)
        /\ S = scaled \union {<<A[j][i], j>> : i \in low}
        /\ U = Applied({j}, low, D, A)
  BY DEF PanelColumn
<1>p. Idx' = Idx /\ Cols' = Cols
  BY <1>1 DEF Idx, Cols
<1>4. /\ \A i : i \in Idx <=> i \in Int /\ 0 <= i /\ i < n
      /\ \A c : c \in Cols <=> c \in Int /\ 0 <= c /\ c <= n
      /\ Idx \subseteq Cols
  BY <1>n, Ranges
<1>5. /\ j \in Idx /\ j \in Int /\ j + 1 \in 0..n /\ j \in 0..n /\ j < n /\ 0 <= j /\ j \in C
      /\ C \subseteq Idx
      /\ s.p = j /\ s.q = n /\ \A c \in C : s.sw[c] = j /\ \A i \in Idx : s.lev[c][i] = Due(j, c, i)
      /\ t.p = j + 1 /\ t.q = n
      /\ \A c \in Cols : t.sw[c] = IF c \in C THEN j + 1 ELSE s.sw[c]
      /\ \A c \in Cols, i \in Idx : t.lev[c][i] = IF c \in C THEN Due(j + 1, c, i) ELSE s.lev[c][i]
  <2> HIDE DEF j, C
  <2>1. /\ j \in 0..n /\ j + 1 \in 0..n /\ j <= j + 1
        /\ C \subseteq Idx /\ \A c \in Idx : j <= c /\ c < j + 1 => c \in C
        /\ s.p = j /\ s.q = n
        /\ \A c \in C : s.sw[c] = j /\ \A i \in Idx : s.lev[c][i] = Due(j, c, i)
        /\ Becomes(s, t, j + 1, n, C, j + 1, C, Idx, j + 1)
    BY <1>2 DEF Panel
  <2>2. j \in Idx /\ j \in Int /\ j < n /\ 0 <= j /\ j < j + 1
    BY <1>n, <1>4, <2>1
  <2> QED BY <2>1, <2>2 DEF Becomes
<1>6. /\ p \in Idx /\ p \in Int /\ j <= p /\ p < n
      /\ \A i : i \in low <=> i \in Int /\ j < i /\ i < n
      /\ \A c \in Idx : c \in D <=> c \in C /\ j < c
      /\ D \subseteq C
  <2>1. p \in Idx /\ p \in Int /\ j <= p /\ p < n
    BY <1>n, <1>3, <1>4, <1>5
  <2>2. \A i : i \in low <=> i \in Int /\ j < i /\ i < n
    BY <1>n, <1>5
  <2>3. Head(todo).c0 <= j
    BY <1>5, <1>c
  <2>4. \A c : c \in Int /\ j < c => (c \in D <=> c \in C)
    BY <1>5, <1>c, <2>3
  <2>5. \A c \in D : c \in Int /\ j < c
    BY <1>5, <1>c
  <2> HIDE DEF C, D, low, j
  <2> QED BY <1>4, <1>5, <2>1, <2>2, <2>4, <2>5
<1>r1. /\ \A i \in Idx : order[0][i] = i
       /\ \A k \in Idx : k < s.p => order[k+1] = SwapRow(order[k], k)
  BY DEF Rep, SwapsMade
<1>r2. \A k \in 0..n, i, l \in Idx : k <= s.p /\ order[k][i] = order[k][l] => i = l
  BY DEF Rep, SwapsMade
<1>r3. \A k \in Idx : IF k < s.p THEN piv[k] \in k..n-1 ELSE piv[k] = -1
  BY DEF Rep, SwapsMade
<1>r4. \A c \in Cols : s.sw[c] <= s.p /\ at[c] = order[s.sw[c]] /\ (c < s.p => c < s.sw[c])
  BY DEF Rep, SwapsMade
<1>s1. \A c \in Cols, i \in Idx, k \in Idx : upd[c][at[c][i]][k] = IF k < s.lev[c][i] THEN 1 ELSE 0
  BY DEF Rep, StepsMade
<1>s2. \A k, i \in Idx : k < s.p /\ k < i => <<at[k][i], k>> \in scaled
  BY DEF Rep, StepsMade
<1>d. /\ \A i \in Idx : i \in solved <=> s.q <= i
      /\ \A i, k \in Idx : back[i][k] = IF k > i /\ k >= s.q THEN 1 ELSE 0
  BY DEF Rep, RowsDivided
<1> DEFINE f == order[j]
           g == [f EXCEPT ![j] = f[p], ![p] = f[j]]
           tr(i) == IF i = j THEN p ELSE IF i = p THEN j ELSE i
<1>7. f \in [Idx -> Idx] /\ order \in [0..n -> [Idx -> Idx]]
  BY <1>5 DEF Orders
<1> HIDE DEF j, C, D, low, A, U, V, S
<1>8. /\ g \in [Idx -> Idx] /\ \A i \in Idx : g[i] = f[tr(i)]
      /\ \A i, l \in Idx : g[i] = g[l] => i = l
  <2>1. \A i, l \in Idx : f[i] = f[l] => i = l
    BY <1>5, <1>r2 DEF f
  <2> HIDE DEF f
  <2> QED BY <1>n, <1>5, <1>6, <1>7, <2>1, Exchange
<1>9. \A i \in Idx : /\ tr(i) \in Idx /\ (i < j => tr(i) = i) /\ (i >= j => tr(i) >= j)
  BY <1>4, <1>5, <1>6
<1>10. PICK order2 \in Orders :
         order2[j+1] = g /\ \A k \in 0..n : k # j + 1 => order2[k] = order[k]
  <2> DEFINE h == [order EXCEPT ![j+1] = g]
  <2>1. h \in Orders /\ h[j+1] = g /\ \A k \in 0..n : k # j + 1 => h[k] = order[k]
    BY <1>5, <1>7, <1>8 DEF Orders
  <2> QED BY <2>1
<1>11. \A c \in Cols : A[c] = IF c \in C THEN g ELSE at[c]
  <2> TAKE c \in Cols
  <2>1. CASE c \in C
    <3>1. at[c] = f
      BY <1>5, <1>r4, <2>1 DEF f
    <3>2. A[c] = [at[c] EXCEPT ![j] = at[c][p], ![p] = at[c][j]]
      BY <1>3, <2>1 DEF swap_rows
    <3> QED BY <2>1, <3>1, <3>2 DEF g
  <2>2. CASE c \notin C
    BY <1>3, <2>2 DEF swap_rows
  <2> QED BY <2>1, <2>2
<1>12. A \in [Cols -> [Idx -> Idx]]
  <2>1. \A c \in Cols : A[c] \in [Idx -> Idx]
    BY <1>0, <1>8, <1>11
  <2>2. A = [c \in Cols |-> A[c]]
    BY <1>3 DEF swap_rows
  <2> HIDE DEF g
  <2> QED BY <2>1, <2>2
<1>13. V \in [Idx -> -1..n-1] /\ V[j] = p /\ \A k \in Idx : k # j => V[k] = piv[k]
  <2>1. p \in -1..n-1
    BY <1>n, <1>5, <1>6
  <2> QED BY <1>0, <1>3, <1>5, <2>1
<1>14. S \subseteq Idx \X Idx /\ scaled \subseteq S /\ \A i \in low : <<A[j][i], j>> \in S
  <2>1. \A i \in low : A[j][i] \in Idx
    BY <1>4, <1>5, <1>6, <1>12
  <2> QED BY <1>0, <1>3, <1>5, <2>1
<1>15. \A c \in Cols : U[c] = IF c \notin D THEN upd[c]
                              ELSE [o \in Idx |-> [k \in Idx |->
                                     IF k \in {j} /\ (\E i \in low : A[c][i] = o)
                                       THEN AtMost(upd[c][o][k] + 1, 2) ELSE upd[c][o][k]]]
  BY <1>3 DEF Applied
<1>16. U \in [Cols -> [Idx -> [Idx -> 0..2]]]
  <2>1. \A v \in 0..2 : AtMost(v + 1, 2) \in 0..2
    BY DEF AtMost
  <2>2. \A c \in Cols : U[c] \in [Idx -> [Idx -> 0..2]]
    <3> TAKE c \in Cols
    <3>1. upd[c] \in [Idx -> [Idx -> 0..2]]
      BY <1>0
    <3>2. CASE c \notin D
      BY <1>15, <3>1, <3>2
    <3>3. CASE c \in D
      <4>1. \A o, k \in Idx : (IF k \in {j} /\ (\E i \in low : A[c][i] = o)
                               THEN AtMost(upd[c][o][k] + 1, 2) ELSE upd[c][o][k]) \in 0..2
        BY <2>1, <3>1
      <4>2. U[c] = [o \in Idx |-> [k \in Idx |->
                     IF k \in {j} /\ (\E i \in low : A[c][i] = o)
                       THEN AtMost(upd[c][o][k] + 1, 2) ELSE upd[c][o][k]]]
        BY <1>15, <3>3
      <4> QED BY <4>1, <4>2
    <3> QED BY <3>2, <3>3
  <2>3. U = [c \in Cols |-> U[c]]
    BY <1>3 DEF Applied
  <2> QED BY <2>2, <2>3
<1> HIDE DEF f, g, tr
(* Types. *)
<1>17. LUTypeOK'
  <2>1. Tail(todo) \in Seq(Tasks) /\ todo \in Seq(Tasks)
    BY <1>1 DEF LUTypeOK
  <2>2. <<>> \o Tail(todo) \in Seq(Tasks)
    BY <2>1
  <2> QED BY <1>1, <1>p, <1>12, <1>13, <1>14, <1>16, <2>2 DEF LUTypeOK, A, U, V, S
(* The swaps. *)
<1>18. SwapsMade(t, order2)'
  <2>1. \A i \in Idx : order2[0][i] = i
    <3>1. 0 \in 0..n /\ 0 # j + 1
      BY <1>n, <1>5
    <3> QED BY <1>10, <1>r1, <3>1
  <2>2. \A k \in Idx : k < j + 1 =>
          order2[k+1] = [order2[k] EXCEPT ![k] = order2[k][V[k]], ![V[k]] = order2[k][k]]
    <3> TAKE k \in Idx
    <3> HAVE k < j + 1
    <3>1. CASE k = j
      <4>1. order2[k] = f /\ V[k] = p /\ order2[k+1] = g
        BY <1>5, <1>10, <1>13, <3>1 DEF f
      <4> QED BY <3>1, <4>1 DEF g
    <3>2. CASE k < j
      <4>1. k \in 0..n /\ k + 1 \in 0..n /\ k # j + 1 /\ k + 1 # j + 1 /\ k # j
        BY <1>n, <1>4, <1>5, <3>2
      <4>2. order2[k] = order[k] /\ order2[k+1] = order[k+1] /\ V[k] = piv[k]
        BY <1>10, <1>13, <4>1
      <4>3. order[k+1] = SwapRow(order[k], k)
        BY <1>5, <1>r1, <3>2
      <4> QED BY <4>2, <4>3 DEF SwapRow
    <3> QED BY <1>4, <1>5, <3>1, <3>2
  <2>3. \A k \in 0..n, i, l \in Idx : k <= j + 1 /\ order2[k][i] = order2[k][l] => i = l
    <3> TAKE k \in 0..n, i, l \in Idx
    <3> HAVE k <= j + 1 /\ order2[k][i] = order2[k][l]
    <3>1. CASE k = j + 1
      BY <1>8, <1>10, <3>1
    <3>2. CASE k # j + 1
      <4>1. k <= s.p
        BY <1>5, <3>2
      <4> QED BY <1>10, <1>r2, <3>2, <4>1
    <3> QED BY <3>1, <3>2
  <2>4. \A k \in Idx : IF k < j + 1 THEN V[k] \in k..n-1 ELSE V[k] = -1
    <3> TAKE k \in Idx
    <3>1. CASE k = j
      BY <1>n, <1>5, <1>6, <1>13, <3>1
    <3>2. CASE k # j
      <4>1. V[k] = piv[k] /\ (k < j + 1 <=> k < s.p)
        BY <1>4, <1>5, <1>13, <3>2
      <4> QED BY <1>r3, <4>1
    <3> QED BY <3>1, <3>2
  <2>5. \A c \in Cols : t.sw[c] <= j + 1 /\ A[c] = order2[t.sw[c]] /\ (c < j + 1 => c < t.sw[c])
    <3> TAKE c \in Cols
    <3>1. CASE c \in C
      BY <1>4, <1>5, <1>10, <1>11, <3>1
    <3>2. CASE c \notin C
      <4>1. t.sw[c] = s.sw[c] /\ A[c] = at[c] /\ c # j /\ s.sw[c] \in 0..n /\ c \in Int
        BY <1>4, <1>5, <1>11, <3>2, PointFields
      <4>2. s.sw[c] <= j /\ at[c] = order[s.sw[c]] /\ (c < j => c < s.sw[c])
        BY <1>5, <1>r4
      <4>3. s.sw[c] # j + 1 /\ s.sw[c] <= j + 1 /\ (c < j + 1 => c < j)
        BY <1>5, <4>1, <4>2
      <4> QED BY <1>10, <4>1, <4>2, <4>3
    <3> QED BY <3>1, <3>2
  <2>6. t.p = j + 1
    BY <1>5
  <2>7. (\A i \in Idx : order2[0][i] = i)'
    BY <1>p, <2>1
  <2>8. (\A k \in Idx : k < t.p => order2[k+1] = SwapRow(order2[k], k))'
    BY <1>p, <2>2, <2>6 DEF SwapRow, V
  <2>9. (\A k \in 0..n, i, l \in Idx : k <= t.p /\ order2[k][i] = order2[k][l] => i = l)'
    BY <1>1, <1>p, <2>3, <2>6
  <2>10. (\A k \in Idx : IF k < t.p THEN piv[k] \in k..n-1 ELSE piv[k] = -1)'
    BY <1>1, <1>p, <2>4, <2>6 DEF V
  <2>11. (\A c \in Cols : t.sw[c] <= t.p /\ at[c] = order2[t.sw[c]] /\ (c < t.p => c < t.sw[c]))'
    BY <1>p, <2>5, <2>6 DEF A
  <2> QED BY <2>7, <2>8, <2>9, <2>10, <2>11 DEF SwapsMade
(* The steps. *)
<1>19. \A c \in C, i \in Idx : at[c] = f /\ A[c][i] = at[c][tr(i)]
  BY <1>4, <1>5, <1>8, <1>11, <1>r4 DEF f
<1>20. \A c \in C, i, k \in Idx : upd[c][A[c][i]][k] = IF k < Due(j, c, tr(i)) THEN 1 ELSE 0
  <2> TAKE c \in C, i, k \in Idx
  <2>1. tr(i) \in Idx /\ c \in Cols
    BY <1>4, <1>5, <1>9
  <2>2. upd[c][at[c][tr(i)]][k] = IF k < s.lev[c][tr(i)] THEN 1 ELSE 0
    BY <1>s1, <2>1
  <2>3. s.lev[c][tr(i)] = Due(j, c, tr(i))
    BY <1>5, <2>1
  <2> QED BY <1>19, <2>2, <2>3
<1>21. \A c \in C, i \in Idx :
         /\ c \notin D => Due(j, c, tr(i)) = Due(j + 1, c, i)
         /\ ~(j < i) => Due(j, c, tr(i)) = Due(j + 1, c, i)
         /\ c \in D /\ j < i => Due(j, c, tr(i)) = j /\ Due(j + 1, c, i) = j + 1
  <2> TAKE c \in C, i \in Idx
  <2>1. c \in Int /\ i \in Int /\ tr(i) \in Int /\ (c \in D <=> j < c)
    BY <1>4, <1>5, <1>6, <1>9
  <2>2. CASE i < j
    <3>1. tr(i) = i /\ ~(j < i)
      BY <1>9, <2>1, <2>2, <1>5
    <3>2. Due(j, c, i) = Due(j + 1, c, i)
      BY <1>5, <2>1, <2>2 DEF Due, AtMost
    <3> QED BY <3>1, <3>2
  <2>3. CASE i >= j
    <3>1. tr(i) >= j
      BY <1>9, <2>3
    <3> HIDE DEF tr
    <3> QED BY <1>5, <2>1, <2>3, <3>1 DEF Due, AtMost
  <2> QED BY <1>5, <2>1, <2>2, <2>3
<1>22. ASSUME NEW c \in Cols, NEW i \in Idx, NEW k \in Idx
       PROVE  U[c][A[c][i]][k] = IF k < t.lev[c][i] THEN 1 ELSE 0
  <2>1. CASE c \notin C
    <3>0. c \notin D
      BY <1>6, <2>1
    <3>1. U[c] = upd[c] /\ A[c] = at[c] /\ t.lev[c][i] = s.lev[c][i]
      <4>1. U[c] = upd[c]
        BY <1>15, <3>0
      <4>2. A[c] = at[c]
        BY <1>11, <2>1
      <4>3. t.lev[c][i] = s.lev[c][i]
        BY <1>5, <2>1
      <4> QED BY <4>1, <4>2, <4>3
    <3> QED BY <1>s1, <3>1
  <2>2. CASE c \in C /\ c \notin D
    <3>1. U[c] = upd[c] /\ t.lev[c][i] = Due(j + 1, c, i)
      BY <1>5, <1>15, <2>2
    <3>2. upd[c][A[c][i]][k] = IF k < Due(j, c, tr(i)) THEN 1 ELSE 0
      BY <1>20, <2>2
    <3> QED BY <1>21, <2>2, <3>1, <3>2
  <2>3. CASE c \in D
    <3> DEFINE o == A[c][i]
    <3>1. c \in C /\ o \in Idx /\ A[c] = g /\ t.lev[c][i] = Due(j + 1, c, i)
      <4>1. c \in C
        BY <1>6, <2>3
      <4>2. A[c] = g /\ t.lev[c][i] = Due(j + 1, c, i)
        BY <1>5, <1>11, <4>1
      <4>3. A[c][i] \in Idx
        BY <1>12
      <4> QED BY <4>1, <4>2, <4>3
    <3>2. U[c][o][k] = IF k = j /\ (\E l \in low : A[c][l] = o)
                         THEN AtMost(upd[c][o][k] + 1, 2) ELSE upd[c][o][k]
      <4>1. U[c] = [r \in Idx |-> [l \in Idx |->
                     IF l \in {j} /\ (\E m \in low : A[c][m] = r)
                       THEN AtMost(upd[c][r][l] + 1, 2) ELSE upd[c][r][l]]]
        BY <1>15, <2>3
      <4> HIDE DEF o
      <4>2. U[c][o] = [l \in Idx |-> IF l \in {j} /\ (\E m \in low : A[c][m] = o)
                       THEN AtMost(upd[c][o][l] + 1, 2) ELSE upd[c][o][l]]
        BY <3>1, <4>1
      <4> QED BY <4>2
    <3>3. upd[c][o][k] = IF k < Due(j, c, tr(i)) THEN 1 ELSE 0
      BY <1>20, <3>1
    <3>4. (\E l \in low : A[c][l] = o) <=> j < i
      <4>1. \A l \in low : l \in Idx
        BY <1>4, <1>5, <1>6
      <4> QED BY <1>4, <1>6, <1>8, <3>1, <4>1
    <3> HIDE DEF o
    <3>5. CASE j < i
      <4>1. Due(j, c, tr(i)) = j /\ t.lev[c][i] = j + 1
        BY <1>21, <2>3, <3>1, <3>5
      <4>2. U[c][o][k] = IF k < j + 1 THEN 1 ELSE 0
        <5>1. CASE k = j
          <6>1. upd[c][o][k] = 0
            BY <1>5, <3>3, <4>1, <5>1
          <6>2. U[c][o][k] = AtMost(upd[c][o][k] + 1, 2)
            BY <3>2, <3>4, <3>5, <5>1
          <6>3. AtMost(0 + 1, 2) = 1
            BY DEF AtMost
          <6> QED BY <1>5, <5>1, <6>1, <6>2, <6>3
        <5>2. CASE k # j
          <6>1. U[c][o][k] = upd[c][o][k]
            BY <3>2, <5>2
          <6> QED BY <1>4, <1>5, <3>3, <4>1, <5>2, <6>1
        <5> QED BY <5>1, <5>2
      <4> QED BY <4>1, <4>2 DEF o
    <3>6. CASE ~(j < i)
      <4>1. Due(j, c, tr(i)) = t.lev[c][i]
        BY <1>21, <3>1, <3>6
      <4>2. U[c][o][k] = upd[c][o][k]
        BY <3>2, <3>4, <3>6
      <4> QED BY <3>3, <4>1, <4>2 DEF o
    <3> QED BY <3>5, <3>6
  <2> QED BY <2>1, <2>2, <2>3
<1>23. ASSUME NEW k \in Idx, NEW i \in Idx, k < j + 1, k < i
       PROVE  <<A[k][i], k>> \in S
  <2>1. CASE k = j
    BY <1>4, <1>6, <1>14, <1>23, <2>1
  <2>2. CASE k < j /\ k \in C
    <3>1. tr(i) \in Idx /\ k < tr(i)
      BY <1>4, <1>5, <1>9, <1>23, <2>2
    <3>2. <<at[k][tr(i)], k>> \in scaled
      BY <1>5, <1>s2, <2>2, <3>1
    <3> QED BY <1>14, <1>19, <2>2, <3>2
  <2>3. CASE k < j /\ k \notin C
    BY <1>4, <1>5, <1>11, <1>14, <1>23, <1>s2, <2>3
  <2> QED BY <1>4, <1>5, <1>23, <2>1, <2>2, <2>3
<1>24. StepsMade(t)'
  <2>1. (\A c \in Cols, i \in Idx, k \in Idx : upd[c][at[c][i]][k] = IF k < t.lev[c][i] THEN 1 ELSE 0)'
    BY <1>p, <1>22 DEF A, U
  <2>2. \A k, i \in Idx : k < t.p /\ k < i => <<A[k][i], k>> \in S
    <3>1. t.p = j + 1
      BY <1>5
    <3> QED BY <1>23, <3>1
  <2>3. (\A k, i \in Idx : k < t.p /\ k < i => <<at[k][i], k>> \in scaled)'
    BY <1>p, <2>2 DEF A, S
  <2> QED BY <2>1, <2>3 DEF StepsMade
<1>25. RowsDivided(t)'
  <2>1. ~(t.q < n)
    BY <1>n, <1>5
  <2>2. t.q = s.q /\ n' = n
    BY <1>1, <1>5
  <2>3. (\A i \in Idx : i \in solved <=> t.q <= i)'
    BY <1>1, <1>p, <1>d, <2>2
  <2>4. (\A i, k \in Idx : back[i][k] = IF k > i /\ k >= t.q THEN 1 ELSE 0)'
    BY <1>1, <1>p, <1>d, <2>2
  <2>5. ~(t.q < n)'
    BY <2>1, <2>2
  <2> QED BY <2>3, <2>4, <2>5 DEF RowsDivided
<1> QED BY <1>10, <1>17, <1>18, <1>24, <1>25 DEF Rep

(* One of the recorded swaps, in other columns. *)
LEMMA SwapStep ==
  ASSUME LUTypeOK, NEW s \in Points, NEW t \in Points, NEW order \in Orders,
         Rep(s, order), Does(Head(todo), s, t), ApplySwaps, Head(todo).k < Head(todo).to
  PROVE  LET tasks == <<Swaps(Head(todo).k + 1, Head(todo).to, Head(todo).cols)>>
         IN  /\ LUTypeOK' /\ Do(tasks) /\ tasks \in Seq(Tasks)
             /\ \E r \in Points : Rep(r, order)' /\ Path(r, tasks, t)
<1> DEFINE k == Head(todo).k
           to == Head(todo).to
           C == Head(todo).cols
           A == at'
           x == Swaps(k + 1, to, C)
<1> SUFFICES /\ LUTypeOK' /\ Do(<<x>>) /\ <<x>> \in Seq(Tasks)
             /\ \E r \in Points : Rep(r, order)' /\ Path(r, <<x>>, t)
  OBVIOUS
<1>n. n \in Nat
  BY DEF LUTypeOK
<1>0. at \in [Cols -> [Idx -> Idx]]
  BY DEF LUTypeOK
<1>1. /\ n' = n /\ width' = width /\ trsm_base' = trsm_base /\ back' = back /\ solved' = solved
      /\ upd' = upd /\ scaled' = scaled /\ piv' = piv
      /\ todo' = <<x>> \o Tail(todo) /\ todo # <<>> /\ Head(todo).op = "swaps" /\ Do(<<x>>)
  BY DEF ApplySwaps, Do, call, Task
<1>2. Swapping(s, t, k, to, C) /\ k < to
  BY <1>1 DEF Does
<1>c. C \in SUBSET Int
  <2> DEFINE h == Head(todo)
  <2>1. h \in Tasks /\ h.op = "swaps"
    BY <1>1 DEF LUTypeOK
  <2> HIDE DEF h
  <2>2. h.cols \in SUBSET Int
    BY <2>1 DEF Tasks
  <2> QED BY <2>2 DEF h
<1>3. A = swap_rows(C, k, piv[k])
  BY <1>2 DEF ApplySwaps
<1>p. Idx' = Idx /\ Cols' = Cols
  BY <1>1 DEF Idx, Cols
<1>4. /\ \A i : i \in Idx <=> i \in Int /\ 0 <= i /\ i < n
      /\ \A c : c \in Cols <=> c \in Int /\ 0 <= c /\ c <= n
      /\ Idx \subseteq Cols
  BY <1>n, Ranges
<1> HIDE DEF k, to, C, A
<1>5. /\ k \in 0..n /\ to \in 0..n /\ to <= s.p /\ s.q = n /\ s.p \in 0..n
      /\ C \subseteq Cols
      /\ \A c \in C : s.sw[c] = k /\ (c < s.p => c < k)
      /\ \A c \in C, i, j \in Idx : i >= k /\ j >= k => s.lev[c][i] = s.lev[c][j]
      /\ Becomes(s, t, s.p, n, C, to, {}, {}, 0)
  BY <1>2, PointFields DEF Swapping
<1>6. /\ k \in Idx /\ k \in Int /\ 0 <= k /\ k < s.p /\ s.p \in Int /\ s.p <= n
      /\ k + 1 \in 0..n /\ k + 1 <= to /\ n \in 0..n /\ 0 \in 0..n /\ k < k + 1
  BY <1>n, <1>2, <1>4, <1>5
<1>r1. /\ \A i \in Idx : order[0][i] = i
       /\ \A l \in Idx : l < s.p => order[l+1] = SwapRow(order[l], l)
  BY DEF Rep, SwapsMade
<1>r2. \A l \in 0..n, i, j \in Idx : l <= s.p /\ order[l][i] = order[l][j] => i = j
  BY DEF Rep, SwapsMade
<1>r3. \A l \in Idx : IF l < s.p THEN piv[l] \in l..n-1 ELSE piv[l] = -1
  BY DEF Rep, SwapsMade
<1>r4. \A c \in Cols : s.sw[c] <= s.p /\ at[c] = order[s.sw[c]] /\ (c < s.p => c < s.sw[c])
  BY DEF Rep, SwapsMade
<1>s1. \A c \in Cols, i \in Idx, l \in Idx : upd[c][at[c][i]][l] = IF l < s.lev[c][i] THEN 1 ELSE 0
  BY DEF Rep, StepsMade
<1>s2. \A l, i \in Idx : l < s.p /\ l < i => <<at[l][i], l>> \in scaled
  BY DEF Rep, StepsMade
<1>d. RowsDivided(s)
  BY DEF Rep
<1>7. PICK r \in Points : Becomes(s, r, s.p, n, C, k + 1, {}, {}, 0)
  BY <1>n, <1>5, <1>6, AfterBecomes
<1>8. /\ r.p = s.p /\ r.q = n
      /\ \A c \in Cols : r.sw[c] = IF c \in C THEN k + 1 ELSE s.sw[c]
      /\ \A c \in Cols, i \in Idx : r.lev[c][i] = s.lev[c][i]
  BY <1>7 DEF Becomes
<1> DEFINE p == piv[k]
           f == order[k]
           tr(i) == IF i = k THEN p ELSE IF i = p THEN k ELSE i
<1>9. p \in Idx /\ p \in Int /\ k <= p /\ f \in [Idx -> Idx] /\ order[k+1] \in [Idx -> Idx]
  <2>1. p \in k..n-1
    BY <1>6, <1>r3
  <2> HIDE DEF p
  <2>2. p \in Idx /\ p \in Int /\ k <= p
    BY <1>n, <1>4, <1>6, <2>1
  <2> QED BY <1>5, <1>6, <2>2 DEF Orders
<1>10. order[k+1] = [f EXCEPT ![k] = f[p], ![p] = f[k]]
  BY <1>6, <1>r1 DEF SwapRow
<1>11. A \in [Cols -> [Idx -> Idx]] /\ \A c \in Cols : A[c] = IF c \in C THEN order[k+1] ELSE at[c]
  <2>1. \A c \in Cols : A[c] = IF c \in C THEN order[k+1] ELSE at[c]
    <3> TAKE c \in Cols
    <3>1. CASE c \in C
      <4>1. at[c] = f
        BY <1>5, <1>r4, <3>1
      <4>2. A[c] = [at[c] EXCEPT ![k] = at[c][p], ![p] = at[c][k]]
        BY <1>3, <3>1 DEF swap_rows
      <4> QED BY <1>10, <3>1, <4>1, <4>2
    <3>2. CASE c \notin C
      BY <1>3, <3>2 DEF swap_rows
    <3> QED BY <3>1, <3>2
  <2>2. \A c \in Cols : A[c] \in [Idx -> Idx]
    BY <1>0, <1>9, <2>1
  <2>3. A = [c \in Cols |-> A[c]]
    BY <1>3 DEF swap_rows
  <2> QED BY <2>1, <2>2, <2>3
<1>12. \A i \in Idx : order[k+1][i] = f[tr(i)]
  <2> HIDE DEF p, f
  <2> QED BY <1>n, <1>6, <1>9, <1>10, Exchange
<1>13. \A i \in Idx : /\ tr(i) \in Idx /\ (i < k => tr(i) = i) /\ (i >= k => tr(i) >= k)
  <2> HIDE DEF p
  <2> QED BY <1>4, <1>6, <1>9
<1> HIDE DEF p, f, tr
<1>14. LUTypeOK'
  <2>1. Tail(todo) \in Seq(Tasks)
    BY <1>1 DEF LUTypeOK
  <2>2. k + 1 \in Int /\ to \in Int
    BY <1>5, <1>6
  <2>3. x \in Tasks
    BY <1>c, <2>2 DEF Swaps, Tasks
  <2> HIDE DEF x
  <2>4. <<x>> \o Tail(todo) \in Seq(Tasks) /\ <<x>> \in Seq(Tasks)
    BY <2>1, <2>3
  <2> QED BY <1>1, <1>p, <1>11, <2>4 DEF LUTypeOK, A
<1>15. SwapsMade(r, order)'
  <2>1. \A c \in Cols : r.sw[c] <= r.p /\ A[c] = order[r.sw[c]] /\ (c < r.p => c < r.sw[c])
    <3> TAKE c \in Cols
    <3>1. CASE c \in C
      <4>1. c \in Int /\ (c < s.p => c < k)
        BY <1>4, <1>5, <3>1
      <4> QED BY <1>6, <1>8, <1>11, <3>1, <4>1
    <3>2. CASE c \notin C
      BY <1>8, <1>11, <1>r4, <3>2
    <3> QED BY <3>1, <3>2
  <2>2. (\A i \in Idx : order[0][i] = i)'
    BY <1>p, <1>r1
  <2>3. (\A l \in Idx : l < r.p => order[l+1] = SwapRow(order[l], l))'
    BY <1>1, <1>p, <1>8, <1>r1 DEF SwapRow
  <2>4. (\A l \in 0..n, i, j \in Idx : l <= r.p /\ order[l][i] = order[l][j] => i = j)'
    BY <1>1, <1>p, <1>8, <1>r2
  <2>5. (\A l \in Idx : IF l < r.p THEN piv[l] \in l..n-1 ELSE piv[l] = -1)'
    BY <1>1, <1>p, <1>8, <1>r3
  <2>6. (\A c \in Cols : r.sw[c] <= r.p /\ at[c] = order[r.sw[c]] /\ (c < r.p => c < r.sw[c]))'
    BY <1>p, <2>1 DEF A
  <2> QED BY <2>2, <2>3, <2>4, <2>5, <2>6 DEF SwapsMade
<1>16. \A c \in C, i \in Idx : A[c][i] = at[c][tr(i)]
  <2> TAKE c \in C, i \in Idx
  <2>1. c \in Cols /\ at[c] = f
    BY <1>5, <1>r4 DEF f
  <2>2. A[c] = order[k+1]
    BY <1>11, <2>1
  <2> QED BY <1>12, <2>1, <2>2
<1>17. \A c \in Cols, i, l \in Idx : upd[c][A[c][i]][l] = IF l < r.lev[c][i] THEN 1 ELSE 0
  <2> TAKE c \in Cols, i, l \in Idx
  <2>1. CASE c \in C
    <3>1. s.lev[c][tr(i)] = s.lev[c][i]
      <4>1. CASE i < k
        BY <1>13, <4>1
      <4>2. CASE i >= k
        BY <1>5, <1>13, <2>1, <4>2
      <4> QED BY <1>4, <1>6, <4>1, <4>2
    <3>2. upd[c][at[c][tr(i)]][l] = IF l < s.lev[c][tr(i)] THEN 1 ELSE 0
      BY <1>13, <1>s1
    <3> QED BY <1>8, <1>16, <2>1, <3>1, <3>2
  <2>2. CASE c \notin C
    <3>1. A[c] = at[c] /\ r.lev[c][i] = s.lev[c][i]
      BY <1>8, <1>11, <2>2
    <3> QED BY <1>s1, <3>1
  <2> QED BY <2>1, <2>2
<1>18. \A l, i \in Idx : l < r.p /\ l < i => <<A[l][i], l>> \in scaled
  <2> TAKE l, i \in Idx
  <2> HAVE l < r.p /\ l < i
  <2>1. CASE l \in C
    <3>1. l < k
      BY <1>5, <1>8, <2>1
    <3>2. tr(i) \in Idx /\ l < tr(i)
      BY <1>4, <1>6, <1>13, <3>1
    <3>3. <<at[l][tr(i)], l>> \in scaled
      BY <1>8, <1>s2, <3>2
    <3> QED BY <1>16, <2>1, <3>3
  <2>2. CASE l \notin C
    <3>1. A[l] = at[l]
      BY <1>4, <1>11, <2>2
    <3> QED BY <1>8, <1>s2, <3>1
  <2> QED BY <2>1, <2>2
<1>19. StepsMade(r)'
  <2>1. (\A c \in Cols, i \in Idx, l \in Idx : upd[c][at[c][i]][l] = IF l < r.lev[c][i] THEN 1 ELSE 0)'
    BY <1>1, <1>p, <1>17 DEF A
  <2>2. (\A l, i \in Idx : l < r.p /\ l < i => <<at[l][i], l>> \in scaled)'
    BY <1>1, <1>p, <1>18 DEF A
  <2> QED BY <2>1, <2>2 DEF StepsMade
<1>20. RowsDivided(r)'
  <2>1. r.q = s.q /\ n' = n /\ s.q = n
    BY <1>1, <1>5, <1>8
  <2>2. (\A i \in Idx : i \in solved <=> r.q <= i)'
    BY <1>1, <1>p, <1>d, <2>1 DEF RowsDivided
  <2>3. (\A i, l \in Idx : back[i][l] = IF l > i /\ l >= r.q THEN 1 ELSE 0)'
    BY <1>1, <1>p, <1>d, <2>1 DEF RowsDivided
  <2>4. ~(r.q < n)
    BY <1>n, <2>1
  <2>5. ~(r.q < n)'
    BY <2>1, <2>4
  <2> QED BY <2>2, <2>3, <2>5 DEF RowsDivided
<1>21. Does(x, r, t)
  <2>1. \A c \in C : r.sw[c] = k + 1 /\ (c < r.p => c < k + 1)
    <3> TAKE c \in C
    <3>1. c \in Cols /\ c \in Int /\ (c < s.p => c < k)
      BY <1>4, <1>5
    <3> QED BY <1>6, <1>8, <3>1
  <2>2. \A c \in C, i, j \in Idx : i >= k + 1 /\ j >= k + 1 => r.lev[c][i] = r.lev[c][j]
    <3> TAKE c \in C, i, j \in Idx
    <3> HAVE i >= k + 1 /\ j >= k + 1
    <3>1. i >= k /\ j >= k /\ c \in Cols
      BY <1>4, <1>5, <1>6
    <3> QED BY <1>5, <1>8, <3>1
  <2>3. Becomes(r, t, r.p, n, C, to, {}, {}, 0)
    BY <1>5, <1>7, <1>8 DEF Becomes
  <2>4. Swapping(r, t, k + 1, to, C)
    BY <1>5, <1>6, <1>8, <2>1, <2>2, <2>3 DEF Swapping
  <2>5. x.op = "swaps" /\ x.k = k + 1 /\ x.to = to /\ x.cols = C
    BY DEF Swaps
  <2> HIDE DEF x
  <2> QED BY <2>4, <2>5 DEF Does
<1>22. x \in Tasks
  <2>1. k + 1 \in Int /\ to \in Int
    BY <1>5, <1>6
  <2> QED BY <1>c, <2>1 DEF Swaps, Tasks
<1>23. Rep(r, order)'
  BY <1>15, <1>19, <1>20 DEF Rep
<1> HIDE DEF x
<1>25. Path(r, <<x>>, t) /\ <<x>> \in Seq(Tasks)
  BY <1>7, <1>21, <1>22, PathOne
<1> QED BY <1>1, <1>7, <1>14, <1>23, <1>25

(* An update of rows below by steps that are complete. *)
LEMMA UpdateStep ==
  ASSUME LUTypeOK, NEW s \in Points, NEW t \in Points, NEW order \in Orders,
         Rep(s, order), Does(Head(todo), s, t), Update
  PROVE  LUTypeOK' /\ Rep(t, order)'
<1> DEFINE steps == Head(todo).steps
           rows == Head(todo).rows
           C == Head(todo).cols
           U == upd'
<1>n. n \in Nat
  BY DEF LUTypeOK
<1>0. at \in [Cols -> [Idx -> Idx]] /\ upd \in [Cols -> [Idx -> [Idx -> 0..2]]]
  BY DEF LUTypeOK
<1>1. /\ n' = n /\ width' = width /\ trsm_base' = trsm_base /\ back' = back /\ solved' = solved
      /\ at' = at /\ scaled' = scaled /\ piv' = piv
      /\ todo' = <<>> \o Tail(todo) /\ todo # <<>> /\ Head(todo).op = "update"
      /\ U = Applied(steps, rows, C, at)
  BY DEF Update, Do, call, Task
<1>p. Idx' = Idx /\ Cols' = Cols
  BY <1>1 DEF Idx, Cols
<1>2. PICK a \in 0..n, b \in 0..n : steps = a..b-1 /\ Eliminating(s, t, a, b, rows, C)
  BY <1>1 DEF Does
<1>4. /\ \A i : i \in Idx <=> i \in Int /\ 0 <= i /\ i < n
      /\ \A c : c \in Cols <=> c \in Int /\ 0 <= c /\ c <= n
      /\ Idx \subseteq Cols
  BY <1>n, Ranges
<1> HIDE DEF steps, rows, C, U
<1>5. /\ a <= b /\ b <= s.p /\ s.q = n /\ s.p \in 0..n
      /\ rows \subseteq Idx /\ \A i \in rows : i >= b
      /\ C \subseteq Cols /\ \A c \in C : c >= b
      /\ \A c \in C, i \in rows : s.lev[c][i] = a
      /\ t.p = s.p /\ t.q = n /\ \A c \in Cols : t.sw[c] = s.sw[c]
      /\ \A c \in Cols, i \in Idx : t.lev[c][i] = IF c \in C /\ i \in rows THEN Due(b, c, i) ELSE s.lev[c][i]
  BY <1>2, PointFields DEF Eliminating, Becomes
<1>6. \A k \in Idx : k \in steps <=> a <= k /\ k < b
  BY <1>2, <1>4
<1>r2. \A l \in 0..n, i, j \in Idx : l <= s.p /\ order[l][i] = order[l][j] => i = j
  BY DEF Rep, SwapsMade
<1>r4. \A c \in Cols : s.sw[c] <= s.p /\ at[c] = order[s.sw[c]]
  BY DEF Rep, SwapsMade
<1>s1. \A c \in Cols, i \in Idx, l \in Idx : upd[c][at[c][i]][l] = IF l < s.lev[c][i] THEN 1 ELSE 0
  BY DEF Rep, StepsMade
<1>7. \A c \in Cols, i, j \in Idx : at[c][i] = at[c][j] => i = j
  BY <1>r2, <1>r4, PointFields
<1>8. \A c \in C, i \in rows : Due(b, c, i) = b
  <2> TAKE c \in C, i \in rows
  <2>1. c \in Int /\ i \in Int /\ c >= b /\ i >= b
    BY <1>4, <1>5
  <2> QED BY <2>1 DEF Due, AtMost
<1>9. \A c \in Cols : U[c] = IF c \notin C THEN upd[c]
                             ELSE [o \in Idx |-> [k \in Idx |->
                                    IF k \in steps /\ (\E i \in rows : at[c][i] = o)
                                      THEN AtMost(upd[c][o][k] + 1, 2) ELSE upd[c][o][k]]]
  BY <1>1 DEF Applied
<1>10. U \in [Cols -> [Idx -> [Idx -> 0..2]]]
  <2>1. \A v \in 0..2 : AtMost(v + 1, 2) \in 0..2
    BY DEF AtMost
  <2>2. \A c \in Cols : U[c] \in [Idx -> [Idx -> 0..2]]
    <3> TAKE c \in Cols
    <3>1. upd[c] \in [Idx -> [Idx -> 0..2]]
      BY <1>0
    <3>2. CASE c \notin C
      BY <1>9, <3>1, <3>2
    <3>3. CASE c \in C
      <4>1. \A o, k \in Idx : (IF k \in steps /\ (\E i \in rows : at[c][i] = o)
                               THEN AtMost(upd[c][o][k] + 1, 2) ELSE upd[c][o][k]) \in 0..2
        BY <2>1, <3>1
      <4>2. U[c] = [o \in Idx |-> [k \in Idx |->
                     IF k \in steps /\ (\E i \in rows : at[c][i] = o)
                       THEN AtMost(upd[c][o][k] + 1, 2) ELSE upd[c][o][k]]]
        BY <1>9, <3>3
      <4> QED BY <4>1, <4>2
    <3> QED BY <3>2, <3>3
  <2>3. U = [c \in Cols |-> U[c]]
    BY <1>1 DEF Applied
  <2> QED BY <2>2, <2>3
<1>11. ASSUME NEW c \in Cols, NEW i \in Idx, NEW k \in Idx
       PROVE  U[c][at[c][i]][k] = IF k < t.lev[c][i] THEN 1 ELSE 0
  <2>1. CASE c \notin C
    <3>1. U[c] = upd[c] /\ t.lev[c][i] = s.lev[c][i]
      BY <1>5, <1>9, <2>1
    <3> QED BY <1>s1, <3>1
  <2>2. CASE c \in C
    <3> DEFINE o == at[c][i]
    <3>1. o \in Idx /\ upd[c][o][k] = IF k < s.lev[c][i] THEN 1 ELSE 0
      BY <1>0, <1>s1
    <3>2. U[c][o][k] = IF k \in steps /\ (\E l \in rows : at[c][l] = o)
                         THEN AtMost(upd[c][o][k] + 1, 2) ELSE upd[c][o][k]
      <4>1. U[c] = [r \in Idx |-> [l \in Idx |->
                     IF l \in steps /\ (\E m \in rows : at[c][m] = r)
                       THEN AtMost(upd[c][r][l] + 1, 2) ELSE upd[c][r][l]]]
        BY <1>9, <2>2
      <4> HIDE DEF o
      <4>2. U[c][o] = [l \in Idx |-> IF l \in steps /\ (\E m \in rows : at[c][m] = o)
                       THEN AtMost(upd[c][o][l] + 1, 2) ELSE upd[c][o][l]]
        BY <3>1, <4>1
      <4> QED BY <4>2
    <3>3. (\E l \in rows : at[c][l] = o) <=> i \in rows
      BY <1>5, <1>7
    <3> HIDE DEF o
    <3>4. CASE i \in rows
      <4>1. s.lev[c][i] = a /\ t.lev[c][i] = b
        BY <1>5, <1>8, <2>2, <3>4
      <4>2. U[c][o][k] = IF k < b THEN 1 ELSE 0
        <5>1. CASE a <= k /\ k < b
          <6>1. upd[c][o][k] = 0
            BY <1>4, <3>1, <4>1, <5>1
          <6>2. U[c][o][k] = AtMost(upd[c][o][k] + 1, 2)
            BY <1>6, <3>2, <3>3, <3>4, <5>1
          <6>3. AtMost(0 + 1, 2) = 1
            BY DEF AtMost
          <6> QED BY <5>1, <6>1, <6>2, <6>3
        <5>2. CASE ~(a <= k /\ k < b)
          <6>1. U[c][o][k] = upd[c][o][k]
            BY <1>6, <3>2, <5>2
          <6> QED BY <1>4, <1>5, <3>1, <4>1, <5>2, <6>1
        <5> QED BY <5>1, <5>2
      <4> QED BY <4>1, <4>2 DEF o
    <3>5. CASE i \notin rows
      <4>1. t.lev[c][i] = s.lev[c][i]
        BY <1>5, <3>5
      <4>2. U[c][o][k] = upd[c][o][k]
        BY <3>2, <3>3, <3>5
      <4> QED BY <3>1, <4>1, <4>2 DEF o
    <3> QED BY <3>4, <3>5
  <2> QED BY <2>1, <2>2
<1>12. LUTypeOK'
  <2>1. Tail(todo) \in Seq(Tasks)
    BY <1>1 DEF LUTypeOK
  <2>2. <<>> \o Tail(todo) \in Seq(Tasks)
    BY <2>1
  <2> QED BY <1>1, <1>p, <1>10, <2>2 DEF LUTypeOK, U
<1>13. SwapsMade(t, order)'
  <2>0. SwapsMade(s, order)
    BY DEF Rep
  <2>1. (\A i \in Idx : order[0][i] = i)'
    BY <1>p, <2>0 DEF SwapsMade
  <2>2. (\A k \in Idx : k < t.p => order[k+1] = SwapRow(order[k], k))'
    BY <1>1, <1>p, <1>5, <2>0 DEF SwapsMade, SwapRow
  <2>3. (\A k \in 0..n, i, j \in Idx : k <= t.p /\ order[k][i] = order[k][j] => i = j)'
    BY <1>1, <1>p, <1>5, <1>r2
  <2>4. (\A k \in Idx : IF k < t.p THEN piv[k] \in k..n-1 ELSE piv[k] = -1)'
    BY <1>1, <1>p, <1>5, <2>0 DEF SwapsMade
  <2>5. (\A c \in Cols : t.sw[c] <= t.p /\ at[c] = order[t.sw[c]] /\ (c < t.p => c < t.sw[c]))'
    BY <1>1, <1>p, <1>5, <2>0 DEF SwapsMade
  <2> QED BY <2>1, <2>2, <2>3, <2>4, <2>5 DEF SwapsMade
<1>14. StepsMade(t)'
  <2>0. StepsMade(s)
    BY DEF Rep
  <2>1. (\A c \in Cols, i \in Idx, k \in Idx : upd[c][at[c][i]][k] = IF k < t.lev[c][i] THEN 1 ELSE 0)'
    BY <1>1, <1>p, <1>11 DEF U
  <2>2. (\A k, i \in Idx : k < t.p /\ k < i => <<at[k][i], k>> \in scaled)'
    BY <1>1, <1>p, <1>5, <2>0 DEF StepsMade
  <2> QED BY <2>1, <2>2 DEF StepsMade
<1>15. RowsDivided(t)'
  <2>0. RowsDivided(s)
    BY DEF Rep
  <2>1. t.q = s.q /\ n' = n /\ s.q = n
    BY <1>1, <1>5
  <2>2. (\A i \in Idx : i \in solved <=> t.q <= i)'
    BY <1>1, <1>p, <2>0, <2>1 DEF RowsDivided
  <2>3. (\A i, l \in Idx : back[i][l] = IF l > i /\ l >= t.q THEN 1 ELSE 0)'
    BY <1>1, <1>p, <2>0, <2>1 DEF RowsDivided
  <2>4. ~(t.q < n)
    BY <1>n, <2>1
  <2>5. ~(t.q < n)'
    BY <2>1, <2>4
  <2> QED BY <2>2, <2>3, <2>5 DEF RowsDivided
<1> QED BY <1>12, <1>13, <1>14, <1>15 DEF Rep

(* One row of the back substitution. *)
LEMMA DivideStep ==
  ASSUME LUTypeOK, NEW s \in Points, NEW t \in Points, NEW order \in Orders,
         Rep(s, order), Does(Head(todo), s, t), BackSubstitute
  PROVE  LUTypeOK' /\ Rep(t, order)'
<1> DEFINE k == Head(todo).k
           B == back'
           S == solved'
<1>n. n \in Nat
  BY DEF LUTypeOK
<1>0. back \in [Idx -> [Idx -> Nat]] /\ solved \subseteq Idx
  BY DEF LUTypeOK
<1>1. /\ n' = n /\ width' = width /\ trsm_base' = trsm_base /\ upd' = upd
      /\ at' = at /\ scaled' = scaled /\ piv' = piv
      /\ todo' = <<>> \o Tail(todo) /\ todo # <<>> /\ Head(todo).op = "divide"
      /\ S = solved \union {k}
      /\ B = [i \in Idx |-> IF i \in 0..k-1 THEN [back[i] EXCEPT ![k] = @ + 1] ELSE back[i]]
  BY DEF BackSubstitute, Do, call, Task, Above
<1>p. Idx' = Idx /\ Cols' = Cols
  BY <1>1 DEF Idx, Cols
<1>2. Dividing(s, t, k)
  BY <1>1 DEF Does
<1>4. \A i : i \in Idx <=> i \in Int /\ 0 <= i /\ i < n
  BY <1>n, Ranges
<1> HIDE DEF k, B, S
<1>5. /\ RowsDone(s) /\ k \in Idx /\ s.q = k + 1 /\ t.p = s.p /\ t.q = k
      /\ \A c \in Cols : t.sw[c] = s.sw[c]
      /\ \A c \in Cols, i \in Idx : t.lev[c][i] = s.lev[c][i]
  BY <1>2 DEF Dividing, Becomes, RowsDone, MatrixDone
<1>6. k \in Int /\ 0 <= k /\ k < n
  BY <1>4, <1>5
<1>7. RowsDone(t)
  <2>1. n \in Cols /\ Idx \subseteq Cols
    BY <1>n, Ranges
  <2> QED BY <1>5, <2>1 DEF RowsDone, MatrixDone
<1>8. RowsDone(t)'
  BY <1>1, <1>7, SameDone
<1>9. S \subseteq Idx /\ \A i \in Idx : i \in S <=> k <= i
  <2>1. \A i \in Idx : i \in solved <=> k + 1 <= i
    BY <1>5 DEF Rep, RowsDivided
  <2>2. S \subseteq Idx
    BY <1>0, <1>1, <1>5
  <2>3. \A i \in Idx : i \in S <=> k <= i
    <3> TAKE i \in Idx
    <3>1. i \in Int /\ (i \in S <=> i \in solved \/ i = k)
      BY <1>1, <1>4
    <3> QED BY <1>6, <2>1, <3>1
  <2> QED BY <2>2, <2>3
<1>10. B \in [Idx -> [Idx -> Nat]]
  <2>1. \A i \in Idx : B[i] \in [Idx -> Nat]
    <3> TAKE i \in Idx
    <3>1. back[i] \in [Idx -> Nat] /\ back[i][k] + 1 \in Nat
      BY <1>0, <1>5
    <3>2. B[i] = back[i] \/ B[i] = [back[i] EXCEPT ![k] = back[i][k] + 1]
      BY <1>1
    <3> QED BY <1>5, <3>1, <3>2
  <2>2. B = [i \in Idx |-> B[i]]
    BY <1>1
  <2> QED BY <2>1, <2>2
<1>11. \A i, l \in Idx : B[i][l] = IF l > i /\ l >= k THEN 1 ELSE 0
  <2> TAKE i, l \in Idx
  <2>1. back[i][l] = IF l > i /\ l >= k + 1 THEN 1 ELSE 0
    BY <1>5 DEF Rep, RowsDivided
  <2>2. i \in Int /\ l \in Int /\ 0 <= i
    BY <1>4
  <2>3. CASE i < k
    <3>1. B[i] = [back[i] EXCEPT ![k] = back[i][k] + 1]
      BY <1>1, <1>6, <2>2, <2>3
    <3>2. CASE l = k
      <4>1. B[i][l] = back[i][l] + 1
        BY <1>0, <3>1, <3>2
      <4> QED BY <1>6, <2>1, <2>2, <2>3, <3>2, <4>1
    <3>3. CASE l # k
      <4>1. B[i][l] = back[i][l]
        BY <1>0, <3>1, <3>3
      <4> QED BY <1>6, <2>1, <2>2, <3>3, <4>1
    <3> QED BY <3>2, <3>3
  <2>4. CASE ~(i < k)
    <3>1. B[i] = back[i]
      BY <1>1, <1>6, <2>2, <2>4
    <3> QED BY <1>6, <2>1, <2>2, <2>4, <3>1
  <2> QED BY <2>3, <2>4
<1>12. LUTypeOK'
  <2>1. Tail(todo) \in Seq(Tasks)
    BY <1>1 DEF LUTypeOK
  <2>2. <<>> \o Tail(todo) \in Seq(Tasks)
    BY <2>1
  <2> QED BY <1>1, <1>p, <1>9, <1>10, <2>2 DEF LUTypeOK, B, S
<1>13. SwapsMade(t, order)'
  <2>0. SwapsMade(s, order)
    BY DEF Rep
  <2>1. (\A i \in Idx : order[0][i] = i)'
    BY <1>p, <2>0 DEF SwapsMade
  <2>2. (\A l \in Idx : l < t.p => order[l+1] = SwapRow(order[l], l))'
    BY <1>1, <1>p, <1>5, <2>0 DEF SwapsMade, SwapRow
  <2>3. (\A l \in 0..n, i, j \in Idx : l <= t.p /\ order[l][i] = order[l][j] => i = j)'
    BY <1>1, <1>p, <1>5, <2>0 DEF SwapsMade
  <2>4. (\A l \in Idx : IF l < t.p THEN piv[l] \in l..n-1 ELSE piv[l] = -1)'
    BY <1>1, <1>p, <1>5, <2>0 DEF SwapsMade
  <2>5. (\A c \in Cols : t.sw[c] <= t.p /\ at[c] = order[t.sw[c]] /\ (c < t.p => c < t.sw[c]))'
    BY <1>1, <1>p, <1>5, <2>0 DEF SwapsMade
  <2> QED BY <2>1, <2>2, <2>3, <2>4, <2>5 DEF SwapsMade
<1>14. StepsMade(t)'
  <2>0. StepsMade(s)
    BY DEF Rep
  <2>1. (\A c \in Cols, i \in Idx, l \in Idx : upd[c][at[c][i]][l] = IF l < t.lev[c][i] THEN 1 ELSE 0)'
    BY <1>1, <1>p, <1>5, <2>0 DEF StepsMade
  <2>2. (\A l, i \in Idx : l < t.p /\ l < i => <<at[l][i], l>> \in scaled)'
    BY <1>1, <1>p, <1>5, <2>0 DEF StepsMade
  <2> QED BY <2>1, <2>2 DEF StepsMade
<1>15. RowsDivided(t)'
  <2>2. (\A i \in Idx : i \in solved <=> t.q <= i)'
    BY <1>p, <1>5, <1>9 DEF S
  <2>3. (\A i, l \in Idx : back[i][l] = IF l > i /\ l >= t.q THEN 1 ELSE 0)'
    BY <1>p, <1>5, <1>11 DEF B
  <2> QED BY <1>8, <2>2, <2>3 DEF RowsDivided
<1> QED BY <1>12, <1>13, <1>14, <1>15 DEF Rep

(* The tasks that do something to the data. *)
LEMMA ColumnPreserves == LUInv /\ PanelColumn => LUInv'
<1> SUFFICES ASSUME LUInv, PanelColumn PROVE LUInv'
  OBVIOUS
<1>1. todo # <<>> /\ Do(<<>>)
  BY DEF PanelColumn, Task
<1>2. LUTypeOK /\ n \in Nat
  BY <1>1, Ahead DEF LUTypeOK
<1>3. PICK s, t, u \in Points, order \in Orders :
              /\ Rep(s, order) /\ Does(Head(todo), s, t) /\ Path(t, Tail(todo), u)
              /\ u.p = n /\ u.q = 0 /\ RowsDone(u)
  BY <1>1, Ahead
<1>4. PICK order2 \in Orders : Rep(t, order2)'
  BY <1>2, <1>3, ColumnStep
<1>5. LUTypeOK'
  BY <1>2, <1>3, ColumnStep
<1>6. Path(t, <<>>, t) /\ <<>> \in Seq(Tasks)
  BY <1>3, PathEmpty
<1> QED BY <1>1, <1>2, <1>3, <1>4, <1>5, <1>6, Advanced

LEMMA SwapsPreserve == LUInv /\ ApplySwaps => LUInv'
<1> SUFFICES ASSUME LUInv, ApplySwaps PROVE LUInv'
  OBVIOUS
<1>1. todo # <<>> /\ Head(todo).op = "swaps"
  BY DEF ApplySwaps, Task
<1>2. LUTypeOK /\ n \in Nat
  BY <1>1, Ahead DEF LUTypeOK
<1>3. PICK s, t, u \in Points, order \in Orders :
              /\ Rep(s, order) /\ Does(Head(todo), s, t) /\ Path(t, Tail(todo), u)
              /\ u.p = n /\ u.q = 0 /\ RowsDone(u)
  BY <1>1, Ahead
<1>4. CASE Head(todo).k < Head(todo).to
  <2> DEFINE tasks == <<Swaps(Head(todo).k + 1, Head(todo).to, Head(todo).cols)>>
  <2>1. /\ LUTypeOK' /\ Do(tasks) /\ tasks \in Seq(Tasks)
        /\ \E r \in Points : Rep(r, order)' /\ Path(r, tasks, t)
    BY <1>2, <1>3, <1>4, SwapStep
  <2>2. PICK r \in Points : Rep(r, order)' /\ Path(r, tasks, t)
    BY <2>1
  <2> HIDE DEF tasks
  <2> QED BY <1>1, <1>2, <1>3, <2>1, <2>2, Advanced
<1>5. CASE ~(Head(todo).k < Head(todo).to)
  <2>1. Do(<<>>) /\ UNCHANGED data
    BY <1>5 DEF ApplySwaps, data
  <2>2. Swapping(s, t, Head(todo).k, Head(todo).to, Head(todo).cols)
    BY <1>1, <1>3 DEF Does
  <2>3. s = t
    BY <1>2, <1>3, <1>5, <2>2, SwapsOver
  <2>4. Path(s, <<>>, t) /\ <<>> \in Seq(Tasks)
    BY <1>3, <2>3, PathEmpty
  <2> QED BY <1>1, <1>2, <1>3, <2>1, <2>4, Replaced
<1> QED BY <1>4, <1>5

LEMMA UpdatePreserves == LUInv /\ Update => LUInv'
<1> SUFFICES ASSUME LUInv, Update PROVE LUInv'
  OBVIOUS
<1>1. todo # <<>> /\ Do(<<>>)
  BY DEF Update, Task
<1>2. LUTypeOK /\ n \in Nat
  BY <1>1, Ahead DEF LUTypeOK
<1>3. PICK s, t, u \in Points, order \in Orders :
              /\ Rep(s, order) /\ Does(Head(todo), s, t) /\ Path(t, Tail(todo), u)
              /\ u.p = n /\ u.q = 0 /\ RowsDone(u)
  BY <1>1, Ahead
<1>4. LUTypeOK' /\ Rep(t, order)'
  BY <1>2, <1>3, UpdateStep
<1>5. Path(t, <<>>, t) /\ <<>> \in Seq(Tasks)
  BY <1>3, PathEmpty
<1> QED BY <1>1, <1>2, <1>3, <1>4, <1>5, Advanced

LEMMA DividePreserves == LUInv /\ BackSubstitute => LUInv'
<1> SUFFICES ASSUME LUInv, BackSubstitute PROVE LUInv'
  OBVIOUS
<1>1. todo # <<>> /\ Do(<<>>)
  BY DEF BackSubstitute, Task
<1>2. LUTypeOK /\ n \in Nat
  BY <1>1, Ahead DEF LUTypeOK
<1>3. PICK s, t, u \in Points, order \in Orders :
              /\ Rep(s, order) /\ Does(Head(todo), s, t) /\ Path(t, Tail(todo), u)
              /\ u.p = n /\ u.q = 0 /\ RowsDone(u)
  BY <1>1, Ahead
<1>4. LUTypeOK' /\ Rep(t, order)'
  BY <1>2, <1>3, DivideStep
<1>5. Path(t, <<>>, t) /\ <<>> \in Seq(Tasks)
  BY <1>3, PathEmpty
<1> QED BY <1>1, <1>2, <1>3, <1>4, <1>5, Advanced

-----------------------------------------------------------------------------
(* Every step keeps the invariant. *)
LEMMA LUInvNext == LUInv /\ [Next]_vars => LUInv'
<1> SUFFICES ASSUME LUInv, [Next]_vars PROVE LUInv'
  OBVIOUS
<1>1. CASE BlockStep
  BY <1>1, BlockPreserves
<1>2. CASE LuRecStep
  BY <1>2, LuRecPreserves
<1>3. CASE TrsmRecStep
  BY <1>3, TrsmRecPreserves
<1>4. CASE PanelColumn
  BY <1>4, ColumnPreserves
<1>5. CASE ApplySwaps
  BY <1>5, SwapsPreserve
<1>6. CASE Update
  BY <1>6, UpdatePreserves
<1>7. CASE SolveStep
  BY <1>7, SolvePreserves
<1>8. CASE BackSubstitute
  BY <1>8, DividePreserves
<1>9. CASE UNCHANGED vars
  <2>1. /\ n' = n /\ width' = width /\ trsm_base' = trsm_base /\ at' = at /\ upd' = upd
        /\ scaled' = scaled /\ piv' = piv /\ back' = back /\ solved' = solved
        /\ todo' = todo
    BY <1>9 DEF vars
  <2>2. PICK s \in Points, order \in Orders : Rep(s, order) /\ Leads(s)
    BY DEF LUInv
  <2>3. PICK u \in Points : Path(s, todo, u) /\ u.p = n /\ u.q = 0 /\ RowsDone(u)
    BY <2>2 DEF Leads
  <2> DEFINE new == todo'
  <2>4. Path(s, new, u) /\ new = todo'
    BY <2>1, <2>3
  <2> HIDE DEF new
  <2>5. /\ Path(s, todo, u)' /\ Points' = Points /\ Idx' = Idx /\ Cols' = Cols
        /\ (RowsDone(u)' <=> RowsDone(u)) /\ (RowsDone(s)' <=> RowsDone(s))
    BY <2>1, <2>4, SameMeaning, SameDone
  <2>6. Leads(s)' /\ order \in Orders'
    BY <2>1, <2>3, <2>5 DEF Leads, Orders
  <2>7. Rep(s, order)'
    BY <2>1, <2>2, <2>5, SameRep
  <2>8. LUTypeOK'
    BY <2>1, <2>5 DEF LUInv, LUTypeOK
  <2> QED BY <2>5, <2>6, <2>7, <2>8 DEF LUInv
<1> QED BY <1>1, <1>2, <1>3, <1>4, <1>5, <1>6, <1>7, <1>8, <1>9 DEF Next, Step, Done

(***************************************************************************)
(* Type correctness and the inductive invariant of the factorization and   *)
(* the solve: swaps, updates, divisions and the entries of b are where the *)
(* progress says, and what is left to call leads from there to factors     *)
(* that are complete (lu_recursive, lu_blocked, lu_flat and the solve).    *)
(***************************************************************************)
THEOREM LUInvariant == Spec => []LUInv
<1> QED BY LUInvInit, LUInvNext, PTL DEF Spec

(***************************************************************************)
(* b is solved in the row order of the factors: a row is divided when it   *)
(* has had every forward step before it and every backward step after it.  *)
(***************************************************************************)
THEOREM SolveInOrder == Spec => []SolvedInOrder
<1>1. LUInv => SolvedInOrder
  <2> SUFFICES ASSUME LUInv, NEW i \in solved
               PROVE  /\ at[n] = at[i]
                      /\ EliminatedTo(n, at[n][i], i)
                      /\ \A k \in Idx : back[i][k] = IF k > i THEN 1 ELSE 0
    BY DEF SolvedInOrder
  <2>1. PICK s \in Points, order \in Orders : Rep(s, order)
    BY DEF LUInv
  <2>2. n \in Nat /\ i \in Idx
    BY DEF LUInv, LUTypeOK
  <2>3. /\ \A j : j \in Idx <=> j \in Int /\ 0 <= j /\ j < n
        /\ n \in Cols /\ Idx \subseteq Cols
    BY <2>2, Ranges
  <2>4. s.q <= i /\ s.q \in Int /\ s.q < n
    <3>1. s.q <= i
      BY <2>1, <2>2 DEF Rep, RowsDivided
    <3> QED BY <2>2, <2>3, <3>1, PointFields
  <2>5. s.sw[n] = n /\ s.sw[i] = n /\ s.lev[n][i] = i
    BY <2>1, <2>2, <2>4 DEF Rep, RowsDivided, RowsDone, MatrixDone
  <2>6. at[n] = order[n] /\ at[i] = order[n]
    BY <2>1, <2>2, <2>3, <2>5 DEF Rep, SwapsMade
  <2>7. EliminatedTo(n, at[n][i], i)
    BY <2>1, <2>2, <2>3, <2>5 DEF Rep, StepsMade, EliminatedTo
  <2>8. \A k \in Idx : back[i][k] = IF k > i THEN 1 ELSE 0
    <3> TAKE k \in Idx
    <3>1. back[i][k] = IF k > i /\ k >= s.q THEN 1 ELSE 0
      BY <2>1, <2>2 DEF Rep, RowsDivided
    <3>2. k > i => k >= s.q
      BY <2>2, <2>3, <2>4
    <3> QED BY <3>1, <3>2
  <2> QED BY <2>6, <2>7, <2>8
<1> QED BY <1>1, LUInvariant, PTL

(* A set with zero and every successor has all natural numbers. *)
LEMMA InductionOnSets ==
  ASSUME NEW S, 0 \in S, \A k \in Nat : k \in S => k + 1 \in S
  PROVE  Nat \subseteq S
<1> DEFINE R == OpToRel(<, Nat)
           T == Nat \ S
<1>1. SUFFICES ASSUME T # {}
      PROVE FALSE
  OBVIOUS
<1>2. IsWellFoundedOn(R, Nat)
  BY NatLessThanWellFounded, Zenon
<1>3. T \subseteq Nat
  OBVIOUS
<1>4. \E x \in T : \A y \in T : ~ (<<y, x>> \in R)
  <2> HIDE DEF T, R
  <2> QED BY <1>1, <1>2, <1>3, WFMin
<1>5. PICK x \in T : \A y \in T : ~ (y < x)
  BY <1>4 DEF OpToRel
<1>6. x # 0 /\ x - 1 \in Nat /\ x - 1 < x
  BY <1>5
<1>7. x - 1 \in S
  BY <1>5, <1>6
<1> QED BY <1>5, <1>6, <1>7

(* The rows after all swaps are those the recorded pivots give. *)
LEMMA RowsAreAfter ==
  ASSUME n \in Nat, NEW order \in Orders, \A i \in Idx : order[0][i] = i,
         \A k \in Idx : order[k+1] = SwapRow(order[k], k)
  PROVE  order[n] = RowsAfter[n]
<1> DEFINE F(g) == [k \in 0..n |-> IF k = 0 THEN [i \in Idx |-> i] ELSE SwapRow(g[k-1], k - 1)]
<1>1. order = F(order)
  <2>1. \A k \in 0..n : order[k] = IF k = 0 THEN [i \in Idx |-> i] ELSE SwapRow(order[k-1], k - 1)
    <3> TAKE k \in 0..n
    <3>1. CASE k = 0
      <4>1. order[0] \in [Idx -> Idx]
        BY DEF Orders
      <4> QED BY <3>1, <4>1
    <3>2. CASE k # 0
      <4>1. k - 1 \in Idx /\ (k - 1) + 1 = k
        BY <3>2 DEF Idx
      <4>2. order[(k - 1) + 1] = SwapRow(order[k - 1], k - 1)
        BY <4>1
      <4> QED BY <3>2, <4>1, <4>2
    <3> QED BY <3>1, <3>2
  <2>2. order = [k \in 0..n |-> order[k]]
    BY DEF Orders
  <2> QED BY <2>1, <2>2
<1>2. RowsAfter = F(RowsAfter)
  <2>1. RowsAfter = CHOOSE g : g = F(g)
    BY DEF RowsAfter
  <2> HIDE DEF F
  <2> QED BY <1>1, <2>1
<1>3. Nat \subseteq {k \in Nat : k \in 0..n => order[k] = RowsAfter[k]}
  <2> DEFINE S == {k \in Nat : k \in 0..n => order[k] = RowsAfter[k]}
  <2>0. /\ 0 \in 0..n /\ order[0] = [i \in Idx |-> i] /\ RowsAfter[0] = [i \in Idx |-> i]
    <3>1. 0 \in 0..n
      OBVIOUS
    <3> QED BY <1>1, <1>2, <3>1
  <2>1. 0 \in S
    BY <2>0
  <2>2. ASSUME NEW k \in Nat, k \in S PROVE k + 1 \in S
    <3> SUFFICES ASSUME k + 1 \in 0..n PROVE order[k+1] = RowsAfter[k+1]
      OBVIOUS
    <3>1. k \in 0..n /\ k + 1 # 0 /\ (k + 1) - 1 = k
      OBVIOUS
    <3>2. order[k] = RowsAfter[k]
      BY <2>2, <3>1
    <3>3. order[k+1] = SwapRow(order[(k+1)-1], (k+1)-1)
      BY <1>1, <3>1
    <3>4. RowsAfter[k+1] = SwapRow(RowsAfter[(k+1)-1], (k+1)-1)
      BY <1>2, <3>1
    <3> QED BY <3>1, <3>2, <3>3, <3>4
  <2> HIDE DEF S
  <2>3. Nat \subseteq S
    BY <2>1, <2>2, InductionOnSets
  <2> QED BY <2>3 DEF S
<1> QED BY <1>3

(***************************************************************************)
(* The contract P A = L U: when the factorization is done, every column    *)
(* has its rows in the order the recorded pivots give, and every entry has *)
(* had each step it is due exactly once.                                   *)
(***************************************************************************)
THEOREM FactorsPivotedRows == Spec => []Factored
<1>1. LUInv => Factored
  <2> SUFFICES ASSUME LUInv, todo # <<>> => Head(todo).op = "solve"
               PROVE  \A c \in Idx : /\ at[c] = PivotedRows
                                     /\ \A i \in Idx : EliminatedTo(c, at[c][i], AtMost(i, c))
    BY DEF Factored
  <2>0. n \in Nat
    BY DEF LUInv, LUTypeOK
  <2>1. PICK s \in Points, order \in Orders : Rep(s, order) /\ MatrixDone(s)
    <3>1. CASE todo # <<>>
      <4>1. PICK s, t \in Points, order \in Orders : Rep(s, order) /\ Does(Head(todo), s, t)
        BY <3>1, Ahead
      <4>2. MatrixDone(s)
        BY <3>1, <4>1 DEF Does, SolvingB
      <4> QED BY <4>1, <4>2
    <3>2. CASE todo = <<>>
      <4>1. PICK s \in Points, order \in Orders : Rep(s, order) /\ Leads(s)
        BY DEF LUInv
      <4>2. PICK u \in Points : Path(s, <<>>, u) /\ RowsDone(u)
        BY <3>2, <4>1 DEF Leads
      <4>3. s = u
        <5>1. Len(<<>>) = 0
          OBVIOUS
        <5> QED BY <4>2, <5>1 DEF Path
      <4> QED BY <4>1, <4>2, <4>3 DEF RowsDone
    <3> QED BY <3>1, <3>2
  <2>2. /\ \A j : j \in Idx <=> j \in Int /\ 0 <= j /\ j < n
        /\ Idx \subseteq Cols
    BY <2>0, Ranges
  <2>3. s.p = n /\ \A c \in Idx : s.sw[c] = n /\ \A i \in Idx : s.lev[c][i] = Due(n, c, i)
    BY <2>1 DEF MatrixDone
  <2>4. order[n] = PivotedRows
    <3>1. \A i \in Idx : order[0][i] = i
      BY <2>1 DEF Rep, SwapsMade
    <3>2. \A k \in Idx : order[k+1] = SwapRow(order[k], k)
      BY <2>1, <2>2, <2>3 DEF Rep, SwapsMade
    <3> QED BY <2>0, <3>1, <3>2, RowsAreAfter DEF PivotedRows
  <2> TAKE c \in Idx
  <2>5. at[c] = order[n]
    BY <2>1, <2>2, <2>3 DEF Rep, SwapsMade
  <2>6. \A i \in Idx : EliminatedTo(c, at[c][i], AtMost(i, c))
    <3> TAKE i \in Idx
    <3>1. s.lev[c][i] = AtMost(i, c)
      BY <2>0, <2>2, <2>3 DEF Due, AtMost
    <3>2. \A k \in Idx : upd[c][at[c][i]][k] = IF k < s.lev[c][i] THEN 1 ELSE 0
      BY <2>1, <2>2 DEF Rep, StepsMade
    <3> QED BY <3>1, <3>2 DEF EliminatedTo
  <2> QED BY <2>4, <2>5, <2>6
<1> QED BY <1>1, LUInvariant, PTL

(* What a step changed: rows are apart, so the position tells the row. *)
LEMMA ChangedBy ==
  ASSUME LUTypeOK', n' = n, NEW t \in Points, NEW order, Rep(t, order)',
         NEW steps, NEW rows \in SUBSET Idx, NEW cols, upd' = Applied(steps, rows, cols, at'),
         NEW c \in Cols, NEW i \in Idx, NEW k \in Idx,
         upd'[c][at'[c][i]][k] # upd[c][at'[c][i]][k]
  PROVE  c \in cols /\ k \in steps /\ i \in rows
<1> DEFINE A == at'
           U == upd'
           o == A[c][i]
<1>1. Idx' = Idx /\ Cols' = Cols
  BY DEF Idx, Cols
<1>2. A \in [Cols -> [Idx -> Idx]]
  BY <1>1 DEF LUTypeOK
<1>3. \A l, m \in Idx : A[c][l] = A[c][m] => l = m
  <2>1. SwapsMade(t, order)'
    BY DEF Rep
  <2>2. t.sw[c] \in 0..n /\ t.sw[c] <= t.p /\ A[c] = order[t.sw[c]]
    BY <1>1, <2>1, PointFields DEF SwapsMade
  <2>3. \A h \in 0..n, l, m \in Idx : h <= t.p /\ order[h][l] = order[h][m] => l = m
    BY <1>1, <2>1 DEF SwapsMade
  <2> HIDE DEF A
  <2> QED BY <2>2, <2>3
<1>4. U = Applied(steps, rows, cols, A) /\ U[c][o][k] # upd[c][o][k]
  OBVIOUS
<1>5. o = A[c][i]
  OBVIOUS
<1> HIDE DEF A, U, o
<1>6. o \in Idx
  BY <1>2, <1>5
<1>7. U[c] = IF c \notin cols THEN upd[c]
             ELSE [r \in Idx |-> [l \in Idx |->
                    IF l \in steps /\ (\E m \in rows : A[c][m] = r)
                      THEN AtMost(upd[c][r][l] + 1, 2) ELSE upd[c][r][l]]]
  BY <1>4 DEF Applied
<1>8. c \in cols
  BY <1>4, <1>7
<1>9. U[c][o] = [l \in Idx |-> IF l \in steps /\ (\E m \in rows : A[c][m] = o)
                      THEN AtMost(upd[c][o][l] + 1, 2) ELSE upd[c][o][l]]
  BY <1>6, <1>7, <1>8
<1>10. k \in steps /\ \E m \in rows : A[c][m] = o
  BY <1>4, <1>9
<1> QED BY <1>3, <1>5, <1>8, <1>10

(* What a step is applied to has its operands, by the progress made. *)
LEMMA OperandsAt ==
  ASSUME n' = n, n \in Nat, NEW t \in Points, NEW order, Rep(t, order)',
         NEW c \in Cols, NEW i \in Idx, NEW k \in Idx, k < i, k < t.p, t.sw[k] = t.sw[c],
         t.lev[k][i] = k, t.lev[c][k] = k, k < t.lev[c][i]
  PROVE  upd'[c][at'[c][i]][k] = 1 /\ OperandsReady(c, i, k)'
<1>1. Idx' = Idx /\ Cols' = Cols
  BY DEF Idx, Cols
<1>2. k \in Cols
  BY Ranges
<1>3. at'[k] = order[t.sw[k]] /\ at'[c] = order[t.sw[c]]
  BY <1>1, <1>2 DEF Rep, SwapsMade
<1>4. \A d \in Cols, j, l \in Idx : upd'[d][at'[d][j]][l] = IF l < t.lev[d][j] THEN 1 ELSE 0
  BY <1>1 DEF Rep, StepsMade
<1>5. <<at'[k][i], k>> \in scaled'
  BY <1>1 DEF Rep, StepsMade
<1>6. EliminatedTo(k, at[k][i], k)'
  BY <1>1, <1>2, <1>4 DEF EliminatedTo
<1>7. EliminatedTo(c, at[c][k], k)'
  BY <1>1, <1>4 DEF EliminatedTo
<1>8. upd'[c][at'[c][i]][k] = 1
  BY <1>4
<1>9. at'[k] = at'[c]
  BY <1>3
<1> QED BY <1>5, <1>6, <1>7, <1>8, <1>9 DEF OperandsReady

(* What the column of a panel updates has its operands, once. *)
LEMMA ColumnSound ==
  ASSUME LUInv, PanelColumn, NEW c \in Cols, NEW i \in Idx, NEW k \in Idx,
         upd'[c][at'[c][i]][k] # upd[c][at'[c][i]][k]
  PROVE  upd'[c][at'[c][i]][k] = 1 /\ OperandsReady(c, i, k)'
<1> DEFINE j == Head(todo).jc
           C == Head(todo).c0..Head(todo).c1-1
           D == j+1..Head(todo).c1-1
           low == j+1..n-1
<1>1. todo # <<>> /\ Head(todo).op = "column" /\ n' = n /\ upd' = Applied({j}, low, D, at')
  BY DEF PanelColumn, Task, Do, call
<1>2. LUTypeOK /\ n \in Nat
  BY <1>1, Ahead DEF LUTypeOK
<1>3. PICK s \in Points, t \in Points, order \in Orders : Rep(s, order) /\ Does(Head(todo), s, t)
  BY <1>1, Ahead
<1>4. LUTypeOK' /\ \E order2 \in Orders : Rep(t, order2)'
  BY <1>2, <1>3, ColumnStep
<1>5. PICK order2 \in Orders : Rep(t, order2)'
  BY <1>4
<1>6. Panel(s, t, C, j, j + 1)
  BY <1>1, <1>3 DEF Does
<1>c. Head(todo).c0 \in Int /\ Head(todo).c1 \in Int
  <2> DEFINE x == Head(todo)
  <2>1. x \in Tasks /\ x.op = "column"
    BY <1>1, <1>2 DEF LUTypeOK
  <2> HIDE DEF x
  <2>2. x.c0 \in Int /\ x.c1 \in Int
    BY <2>1 DEF Tasks
  <2> QED BY <2>2 DEF x
<1>7. /\ \A l : l \in Idx <=> l \in Int /\ 0 <= l /\ l < n
      /\ Idx \subseteq Cols
  BY <1>2, Ranges
<1>8. /\ j \in 0..n /\ j + 1 \in 0..n
      /\ C \subseteq Idx /\ \A l \in Idx : j <= l /\ l < j + 1 => l \in C
      /\ t.p = j + 1 /\ \A l \in Cols : l \in C => t.sw[l] = j + 1
      /\ \A l \in Cols, m \in Idx : l \in C => t.lev[l][m] = Due(j + 1, l, m)
  <2> HIDE DEF j, C
  <2> QED BY <1>6 DEF Panel, Becomes
<1>9. j \in Idx /\ j \in Int /\ j \in C
  <2> HIDE DEF j, C
  <2>1. j \in Idx /\ j \in Int /\ j <= j /\ j < j + 1
    BY <1>2, <1>7, <1>8
  <2> QED BY <1>8, <2>1
<1>10. c \in D /\ k \in {j} /\ i \in low
  <2>1. low \in SUBSET Idx
    BY <1>2, <1>7, <1>9
  <2> DEFINE only == {j}
  <2>2. upd' = Applied(only, low, D, at') /\ n' = n
    BY <1>1
  <2>3. c \in D /\ k \in only /\ i \in low
    <3> HIDE DEF D, low, j, only
    <3> QED BY <1>4, <1>5, <2>1, <2>2, ChangedBy
  <2> QED BY <2>3
<1>11. k = j /\ j < i /\ i \in Int /\ j < c /\ c \in Int /\ c \in C
  BY <1>c, <1>2, <1>9, <1>10
<1> HIDE DEF j, C, D, low
<1>12. Due(j + 1, j, i) = j /\ Due(j + 1, c, j) = j /\ Due(j + 1, c, i) = j + 1
  BY <1>9, <1>11 DEF Due, AtMost
<1>13. /\ k < i /\ k < t.p /\ t.sw[k] = t.sw[c]
       /\ t.lev[k][i] = k /\ t.lev[c][k] = k /\ k < t.lev[c][i]
  BY <1>7, <1>8, <1>9, <1>11, <1>12
<1> QED BY <1>1, <1>2, <1>5, <1>13, OperandsAt

(* And what an update of other rows and columns does. *)
LEMMA UpdateSound ==
  ASSUME LUInv, Update, NEW c \in Cols, NEW i \in Idx, NEW k \in Idx,
         upd'[c][at'[c][i]][k] # upd[c][at'[c][i]][k]
  PROVE  upd'[c][at'[c][i]][k] = 1 /\ OperandsReady(c, i, k)'
<1> DEFINE steps == Head(todo).steps
           rows == Head(todo).rows
           C == Head(todo).cols
<1>1. /\ todo # <<>> /\ Head(todo).op = "update" /\ n' = n
      /\ upd' = Applied(steps, rows, C, at')
  BY DEF Update, Task, Do, call
<1>2. LUTypeOK /\ n \in Nat
  BY <1>1, Ahead DEF LUTypeOK
<1>3. PICK s \in Points, t \in Points, order \in Orders : Rep(s, order) /\ Does(Head(todo), s, t)
  BY <1>1, Ahead
<1>4. LUTypeOK' /\ Rep(t, order)'
  BY <1>2, <1>3, UpdateStep
<1>5. PICK a \in 0..n, b \in 0..n : steps = a..b-1 /\ Eliminating(s, t, a, b, rows, C)
  BY <1>1, <1>3 DEF Does
<1> HIDE DEF steps, rows, C
<1>7. /\ \A l : l \in Idx <=> l \in Int /\ 0 <= l /\ l < n
      /\ \A l : l \in Cols => l \in Int
      /\ Idx \subseteq Cols
  BY <1>2, Ranges
<1>8. /\ rows \subseteq Idx /\ (\A l \in rows : l >= b) /\ \A l \in C : l >= b
      /\ b <= s.p /\ s.p \in 0..n /\ t.p = s.p
      /\ \A l \in Cols : t.sw[l] = s.sw[l]
      /\ \A l \in Cols, m \in Idx : t.lev[l][m] = IF l \in C /\ m \in rows THEN Due(b, l, m) ELSE s.lev[l][m]
      /\ \A l \in C, m \in Idx : a <= m /\ m < b => s.lev[l][m] = m /\ s.sw[m] = s.sw[l]
      /\ \A m \in Idx, l \in rows : a <= m /\ m < b => s.lev[m][l] = m
  BY <1>3, <1>5, PointFields DEF Eliminating, Becomes
<1>9. c \in C /\ k \in steps /\ i \in rows
  BY <1>1, <1>4, <1>8, ChangedBy
<1>10. a <= k /\ k < b /\ i >= b /\ c >= b /\ i \in Int /\ k \in Int /\ c \in Int
  BY <1>5, <1>7, <1>8, <1>9
<1>11. Due(b, c, i) = b
  BY <1>10 DEF Due, AtMost
<1>12. k \notin C /\ k \notin rows
  BY <1>8, <1>10
<1>13. /\ k < i /\ k < t.p /\ t.sw[k] = t.sw[c]
       /\ t.lev[k][i] = k /\ t.lev[c][k] = k /\ k < t.lev[c][i]
  <2>1. k < i /\ k < t.p
    BY <1>8, <1>10
  <2>2. t.sw[k] = t.sw[c]
    BY <1>7, <1>8, <1>9, <1>10
  <2>3. t.lev[k][i] = k /\ t.lev[c][k] = k
    BY <1>7, <1>8, <1>9, <1>10, <1>12
  <2>4. k < t.lev[c][i]
    BY <1>8, <1>9, <1>10, <1>11
  <2> QED BY <2>1, <2>2, <2>3, <2>4
<1> QED BY <1>1, <1>2, <1>4, <1>13, OperandsAt

(* Every update has the right operands, and none is applied twice. *)
THEOREM UpdatesAreSound == Spec => UpdatesSound
<1> DEFINE Sound == \A c \in Cols, i \in Idx, k \in Idx :
                      LET o == at'[c][i]
                      IN  upd'[c][o][k] # upd[c][o][k] => upd'[c][o][k] = 1 /\ OperandsReady(c, i, k)'
<1>1. LUInv /\ [Next]_vars => [Sound]_vars
  <2> SUFFICES ASSUME LUInv, Next PROVE Sound
    OBVIOUS
  <2>1. CASE PanelColumn
    BY <2>1, ColumnSound
  <2>2. CASE Update
    BY <2>2, UpdateSound
  <2>3. CASE ~PanelColumn /\ ~Update
    <3>1. upd' = upd
      BY <2>3 DEF Next, Step, Done, BlockStep, LuRecStep, TrsmRecStep, ApplySwaps, SolveStep,
                  BackSubstitute, data, vars
    <3> QED BY <3>1
  <2> QED BY <2>1, <2>2, <2>3
<1>2. Spec => [][Sound]_vars
  <2> HIDE DEF Sound
  <2> QED BY <1>1, LUInvariant, PTL DEF Spec
<1> QED BY <1>2 DEF UpdatesSound

(***************************************************************************)
(* The pivot of column k is chosen among entries that have exactly the     *)
(* steps before k.                                                         *)
(***************************************************************************)
THEOREM PivotSearchIsReady == Spec => PivotSearchSeesEliminatedColumn
<1> DEFINE Ready == \A k \in Idx : piv'[k] # piv[k] =>
                      /\ piv[k] = -1 /\ piv'[k] >= k
                      /\ \A i \in k..n-1 : EliminatedTo(k, at[k][i], k)
<1>1. LUInv /\ [Next]_vars => [Ready]_vars
  <2> SUFFICES ASSUME LUInv, Next PROVE Ready
    OBVIOUS
  <2>1. CASE PanelColumn
    <3> SUFFICES ASSUME NEW k \in Idx, piv'[k] # piv[k]
                 PROVE  /\ piv[k] = -1 /\ piv'[k] >= k
                        /\ \A i \in k..n-1 : EliminatedTo(k, at[k][i], k)
      OBVIOUS
    <3> DEFINE j == Head(todo).jc
               V == piv'
    <3>1. todo # <<>> /\ Head(todo).op = "column"
      BY <2>1 DEF PanelColumn, Task
    <3>2. PICK p \in j..n-1 : V = [piv EXCEPT ![j] = p]
      BY <2>1 DEF PanelColumn
    <3>3. LUTypeOK /\ n \in Nat
      BY <3>1, Ahead DEF LUTypeOK
    <3>4. piv \in [Idx -> -1..n-1]
      BY <3>3 DEF LUTypeOK
    <3>5. PICK s \in Points, t \in Points, order \in Orders : Rep(s, order) /\ Does(Head(todo), s, t)
      BY <3>1, Ahead
    <3>6. Panel(s, t, Head(todo).c0..Head(todo).c1-1, j, j + 1)
      BY <3>1, <3>5 DEF Does
    <3>7. V[k] # piv[k]
      OBVIOUS
    <3>8. V[k] = piv'[k]
      OBVIOUS
    <3> HIDE DEF j, V
    <3>9. k = j /\ V[j] = p
      BY <3>2, <3>4, <3>7
    <3>10. /\ j \in 0..n /\ j + 1 \in 0..n /\ s.p = j
           /\ \A c \in Idx : j <= c /\ c < j + 1 => \A i \in Idx : s.lev[c][i] = Due(j, c, i)
      BY <3>6 DEF Panel
    <3>11. /\ \A i : i \in Idx <=> i \in Int /\ 0 <= i /\ i < n
           /\ Idx \subseteq Cols
      BY <3>3, Ranges
    <3>12. j \in Idx /\ j \in Int /\ j <= j /\ j < j + 1 /\ p \in Int /\ p >= j
      BY <3>2, <3>3, <3>9, <3>10, <3>11
    <3>13. piv[j] = -1
      <4>1. IF j < s.p THEN piv[j] \in j..n-1 ELSE piv[j] = -1
        BY <3>5, <3>12 DEF Rep, SwapsMade
      <4>2. ~(j < s.p)
        BY <3>10, <3>12
      <4> QED BY <4>1, <4>2
    <3>14. ASSUME NEW i \in j..n-1 PROVE EliminatedTo(j, at[j][i], j)
      <4>1. i \in Idx /\ i \in Int /\ i >= j
        BY <3>3, <3>11, <3>12
      <4>2. Due(j, j, i) = j
        BY <3>12, <4>1 DEF Due, AtMost
      <4>3. s.lev[j][i] = j
        BY <3>10, <3>12, <4>1, <4>2
      <4> QED BY <3>5, <3>11, <3>12, <4>1, <4>3 DEF Rep, StepsMade, EliminatedTo
    <3> QED BY <3>8, <3>9, <3>12, <3>13, <3>14
  <2>2. CASE ~PanelColumn
    <3>1. piv' = piv
      BY <2>2 DEF Next, Step, Done, BlockStep, LuRecStep, TrsmRecStep, ApplySwaps, SolveStep,
                  Update, BackSubstitute, data, vars
    <3> QED BY <3>1
  <2> QED BY <2>1, <2>2
<1>2. Spec => [][Ready]_vars
  <2> HIDE DEF Ready
  <2> QED BY <1>1, LUInvariant, PTL DEF Spec
<1> QED BY <1>2 DEF PivotSearchSeesEliminatedColumn
=============================================================================
