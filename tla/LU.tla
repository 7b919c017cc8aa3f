--------------------------------- MODULE LU ---------------------------------
(***************************************************************************)
(* LU with partial pivoting, kernels/src/lu.rs: the blocked factorization  *)
(* lu_factor_in_place, the recursive one (lu_rec with trsm_rec), and       *)
(* lu_solve_in_place with the factors.                                     *)
(*                                                                         *)
(* What is kept of the numbers is where they come from: per column which   *)
(* original row stands at each position, and how often elimination step k  *)
(* (subtracting multiplier times pivot row k) was applied to the entry of  *)
(* an original row.  Which row is largest is a choice; a skipped update    *)
(* (a zero multiplier or factor) counts as applied, it would subtract      *)
(* zero.  The right-hand side b is column n.                               *)
(*                                                                         *)
(* The calls of the recursion are the sequence todo: a task is removed     *)
(* from its head and replaced by the tasks it consists of.                 *)
(***************************************************************************)
EXTENDS Integers, Sequences

CONSTANTS
  Calls,       \* the calls considered, a set of records, see Call
  PureFlat,    \* order up to which one panel is used by default; 128
  BlockSize,   \* RECOMMENDED_BLOCK_SIZE; 64
  TrsmBase     \* RECOMMENDED_TRSM_BASE; 256

VARIABLES
  n, kernel,           \* order; "blocked" or "recursive"
  width, trsm_base,    \* the arguments nb or crossover, and trsm_base; 0: default
  todo,                \* what is still to be done, a sequence of tasks
  at,                  \* at[c][i]: original row at position i of column c
  upd,                 \* upd[c][o][k]: times step k was applied to row o in c
  scaled,              \* <<o, k>>: row o of column k was made a multiplier
  piv,                 \* pivots; -1 when not yet chosen
  back, solved         \* back substitution: times applied, rows divided

vars == <<n, kernel, width, trsm_base, todo, at, upd, scaled, piv, back, solved>>

Call(order, which, block, base) ==
  [n |-> order, kernel |-> which, width |-> block, trsm_base |-> base]

ASSUME CallsAssumption ==
  \A c \in Calls : c.n \in Nat /\ c.width \in Nat /\ c.trsm_base \in Nat
ASSUME DefaultsAssumption ==
  PureFlat \in Nat /\ BlockSize \in Nat \ {0} /\ TrsmBase \in Nat \ {0}

Idx == 0..n-1
Cols == 0..n
AtMost(a, b) == IF a <= b THEN a ELSE b
AtLeast(a, b) == IF a >= b THEN a ELSE b

(* Tasks.  The column ranges are half open, as in the code. *)
Block(j) == [op |-> "block", j |-> j]
LuRec(d, w) == [op |-> "lu_rec", d |-> d, w |-> w]
Column(jc, c0, c1) == [op |-> "column", jc |-> jc, c0 |-> c0, c1 |-> c1]
Swaps(k, to, cols) == [op |-> "swaps", k |-> k, to |-> to, cols |-> cols]
TrsmRec(d, k, c0, c1) == [op |-> "trsm_rec", d |-> d, k |-> k, c0 |-> c0, c1 |-> c1]
Axpy(k, rows, cols) == [op |-> "update", steps |-> {k}, rows |-> rows, cols |-> cols]
Matmul(steps, rows, cols) == [op |-> "update", steps |-> steps, rows |-> rows, cols |-> cols]
Solve == [op |-> "solve"]
Divide(k) == [op |-> "divide", k |-> k]

Columns(d, w) == [k \in 1..w |-> Column(d + k - 1, d, d + w)]

Init ==
  /\ \E c \in Calls :
       n = c.n /\ kernel = c.kernel /\ width = c.width /\ trsm_base = c.trsm_base
  /\ todo = <<IF kernel = "blocked" THEN Block(0) ELSE LuRec(0, n), Solve>>
  /\ at = [c \in Cols |-> [i \in Idx |-> i]]
  /\ upd = [c \in Cols |-> [o \in Idx |-> [k \in Idx |-> 0]]]
  /\ scaled = {}
  /\ piv = [k \in Idx |-> -1]
  /\ back = [i \in Idx |-> [k \in Idx |-> 0]]
  /\ solved = {}

call == <<n, kernel, width, trsm_base>>
data == <<at, upd, scaled, piv, back, solved>>

Task(op) == todo # <<>> /\ Head(todo).op = op
Do(tasks) == todo' = tasks \o Tail(todo) /\ UNCHANGED call

(* The block width of the blocked kernel. *)
nb_NoDefault == width
nb == IF width # 0 THEN width ELSE IF n <= PureFlat THEN AtLeast(n, 1) ELSE BlockSize

(***************************************************************************)
(* One block of lu_factor_in_place: the panel, its swaps in the columns    *)
(* left and right of it, A12 := L11^-1 A12 column by column, and           *)
(* A22 := A22 - A21 A12.                                                   *)
(***************************************************************************)
OutsidePanel(j, kb) == (0..j-1) \union (j+kb..n-1)

Substitutions(d, k, c0, c1) == [kk \in 1..k |-> Axpy(d + kk - 1, d+kk..d+k-1, c0..c1-1)]

BlockStep ==
  /\ Task("block")
  /\ LET j == Head(todo).j
         kb == AtMost(nb, n - j)
     IN  IF j < n
           THEN Do(Columns(j, kb) \o <<Swaps(j, j + kb, OutsidePanel(j, kb))>>
                     \o Substitutions(j, kb, j + kb, n)
                     \o <<Matmul(j..j+kb-1, j+kb..n-1, j+kb..n-1), Block(j + kb)>>)
           ELSE Do(<<>>)
  /\ UNCHANGED data

(***************************************************************************)
(* lu_rec: up to the crossover width the flat loops; beyond it the left    *)
(* half, its swaps in the right half, the triangular solve, the update,    *)
(* the right half, and its swaps in the left half.                         *)
(***************************************************************************)
Halves_NoSwapBack(d, w, n1) ==
  << LuRec(d, n1), Swaps(d, d + n1, d+n1..d+w-1), TrsmRec(d, n1, d + n1, d + w),
     Matmul(d..d+n1-1, d+n1..n-1, d+n1..d+w-1), LuRec(d + n1, w - n1) >>
Halves_LateSwap(d, w, n1) ==
  << LuRec(d, n1), TrsmRec(d, n1, d + n1, d + w), Swaps(d, d + n1, d+n1..d+w-1),
     Matmul(d..d+n1-1, d+n1..n-1, d+n1..d+w-1), LuRec(d + n1, w - n1),
     Swaps(d + n1, d + w, d..d+n1-1) >>
Halves_ShortUpdate(d, w, n1) ==
  << LuRec(d, n1), Swaps(d, d + n1, d+n1..d+w-1), TrsmRec(d, n1, d + n1, d + w),
     Matmul(d..d+n1-1, d+n1..d+w-1, d+n1..d+w-1), LuRec(d + n1, w - n1),
     Swaps(d + n1, d + w, d..d+n1-1) >>
Halves(d, w, n1) ==
  << LuRec(d, n1), Swaps(d, d + n1, d+n1..d+w-1), TrsmRec(d, n1, d + n1, d + w),
     Matmul(d..d+n1-1, d+n1..n-1, d+n1..d+w-1), LuRec(d + n1, w - n1),
     Swaps(d + n1, d + w, d..d+n1-1) >>

half(w) == w \div 2

(* The default crossover is usize::MAX: lu_rec does not recurse at all. *)
FlatEnough(w) == width = 0 \/ w <= width

LuRecStep ==
  /\ Task("lu_rec")
  /\ LET t == Head(todo)
     IN  Do(IF FlatEnough(t.w) THEN Columns(t.d, t.w) ELSE Halves(t.d, t.w, half(t.w)))
  /\ UNCHANGED data

(* trsm_rec: up to trsm_base flat substitution, beyond it two halves. *)
TrsmRecStep ==
  /\ Task("trsm_rec")
  /\ LET t == Head(todo)
         k1 == half(t.k)
     IN  Do(IF t.k <= (IF trsm_base = 0 THEN TrsmBase ELSE trsm_base)
              THEN Substitutions(t.d, t.k, t.c0, t.c1)
              ELSE << TrsmRec(t.d, k1, t.c0, t.c1),
                      Matmul(t.d..t.d+k1-1, t.d+k1..t.d+t.k-1, t.c0..t.c1-1),
                      TrsmRec(t.d + k1, t.k - k1, t.c0, t.c1) >>)
  /\ UNCHANGED data

(* swap_rows: positions r1 and r2 change places in the given columns. *)
swap_rows(cols, r1, r2) ==
  [c \in Cols |-> IF c \in cols THEN [at[c] EXCEPT ![r1] = at[c][r2], ![r2] = at[c][r1]]
                                ELSE at[c]]

(* Steps applied to the rows at the given positions, where is the layout. *)
Applied(steps, rows, cols, where) ==
  [c \in Cols |->
    IF c \notin cols THEN upd[c]
    ELSE [o \in Idx |-> [k \in Idx |->
           IF k \in steps /\ (\E i \in rows : where[c][i] = o)
             THEN AtMost(upd[c][o][k] + 1, 2) ELSE upd[c][o][k]]]]

(***************************************************************************)
(* One column of a panel: the pivot search, the swap across the panel, the *)
(* scaling (of a zero pivot's zero column nothing is left to scale), and   *)
(* the rank-1 update of the rest of the panel.                             *)
(***************************************************************************)
PanelColumn ==
  /\ Task("column")
  /\ LET t == Head(todo)
     IN  \E p \in t.jc..n-1 :
           /\ piv' = [piv EXCEPT ![t.jc] = p]
           /\ at' = swap_rows(t.c0..t.c1-1, t.jc, p)
           /\ scaled' = scaled \union {<<at'[t.jc][i], t.jc>> : i \in t.jc+1..n-1}
           /\ upd' = Applied({t.jc}, t.jc+1..n-1, t.jc+1..t.c1-1, at')
  /\ Do(<<>>)
  /\ UNCHANGED <<back, solved>>

(* The recorded swaps applied to other columns, or to b, in order. *)
ApplySwaps ==
  /\ Task("swaps")
  /\ LET t == Head(todo)
     IN  IF t.k < t.to
           THEN at' = swap_rows(t.cols, t.k, piv[t.k]) /\ Do(<<Swaps(t.k + 1, t.to, t.cols)>>)
           ELSE at' = at /\ Do(<<>>)
  /\ UNCHANGED <<upd, scaled, piv, back, solved>>

Update ==
  /\ Task("update")
  /\ LET t == Head(todo) IN upd' = Applied(t.steps, t.rows, t.cols, at)
  /\ Do(<<>>)
  /\ UNCHANGED <<at, scaled, piv, back, solved>>

(* lu_solve_in_place: swaps, forward and back substitution on b. *)
SolveStep ==
  /\ Task("solve")
  /\ Do(<<Swaps(0, n, {n})>> \o [k \in 1..n |-> Axpy(k - 1, k..n-1, {n})]
          \o [k \in 1..n |-> Divide(n - k)])
  /\ UNCHANGED data

Above_AndSelf(k) == 0..k
Above(k) == 0..k-1

BackSubstitute ==
  /\ Task("divide")
  /\ LET k == Head(todo).k
     IN  /\ solved' = solved \union {k}
         /\ back' = [i \in Idx |-> IF i \in Above(k) THEN [back[i] EXCEPT ![k] = @ + 1] ELSE back[i]]
  /\ Do(<<>>)
  /\ UNCHANGED <<at, upd, scaled, piv>>

Step == BlockStep \/ LuRecStep \/ TrsmRecStep \/ PanelColumn \/ ApplySwaps \/ Update
        \/ SolveStep \/ BackSubstitute
Done == todo = <<>> /\ UNCHANGED vars
Next == Step \/ Done
Spec == Init /\ [][Next]_vars
FairSpec == Spec /\ WF_vars(Step)

-----------------------------------------------------------------------------
(* The entry of row o in column c has had exactly the steps before k. *)
EliminatedTo(c, o, k) == \A s \in Idx : upd[c][o][s] = IF s < k THEN 1 ELSE 0

(***************************************************************************)
(* Step k may change the entry at position i of column c when its          *)
(* multiplier and its pivot row are the right ones: both belong to the     *)
(* rows standing there in column c too, and both are final.                *)
(***************************************************************************)
OperandsReady(c, i, k) ==
  /\ k < i
  /\ at[k][i] = at[c][i] /\ at[k][k] = at[c][k]
  /\ EliminatedTo(k, at[k][i], k) /\ <<at[k][i], k>> \in scaled
  /\ EliminatedTo(c, at[c][k], k)

(* Every update has the right operands, and none is applied twice. *)
UpdatesSound ==
  [][ \A c \in Cols, i \in Idx, k \in Idx :
        LET o == at'[c][i]
        IN  upd'[c][o][k] # upd[c][o][k] => upd'[c][o][k] = 1 /\ OperandsReady(c, i, k)' ]_vars

(***************************************************************************)
(* The pivot of column k is chosen among entries that have exactly the     *)
(* steps before k: that is why the blocked and the recursive kernel choose *)
(* the pivots of the unblocked algorithm (recursive_matches_blocked_pivots *)
(* in kernels/tests/lu.rs).                                                *)
(***************************************************************************)
PivotSearchSeesEliminatedColumn ==
  [][ \A k \in Idx : piv'[k] # piv[k] =>
        /\ piv[k] = -1 /\ piv'[k] >= k
        /\ \A i \in k..n-1 : EliminatedTo(k, at[k][i], k) ]_vars

(***************************************************************************)
(* The contract P A = L U: when the factorization is done, every column    *)
(* has its rows in the order the recorded pivots give, and every entry has *)
(* had each step it is due exactly once.                                   *)
(***************************************************************************)
SwapRow(order, k) == [order EXCEPT ![k] = order[piv[k]], ![piv[k]] = order[k]]
RowsAfter[k \in 0..n] == IF k = 0 THEN [i \in Idx |-> i] ELSE SwapRow(RowsAfter[k-1], k - 1)
PivotedRows == RowsAfter[n]

Factored ==
  (todo # <<>> => Head(todo).op = "solve") =>
    \A c \in Idx : /\ at[c] = PivotedRows
                   /\ \A i \in Idx : EliminatedTo(c, at[c][i], AtMost(i, c))

(***************************************************************************)
(* b is solved in the row order of the factors: a row is divided when it   *)
(* has had every forward step before it and every backward step after it,  *)
(* each once, and then stays.                                              *)
(***************************************************************************)
SolvedInOrder ==
  \A i \in solved :
    /\ at[n] = at[i]
    /\ EliminatedTo(n, at[n][i], i)
    /\ \A k \in Idx : back[i][k] = IF k > i THEN 1 ELSE 0

(* The recursion ends. *)
Terminates == <>(todo = <<>>)
=============================================================================
