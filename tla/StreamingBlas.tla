---------------------------- MODULE StreamingBlas ----------------------------
(***************************************************************************)
(* The streaming loops of run_blas_ab (bench/src/lib.rs): gemv, ger, trsv, *)
(* gemm, syrk, trmm and trsm as nests of axpy calls on columns, raced      *)
(* against faer.  Each call is one loop of Level1.  The fused variant adds *)
(* (axpy_acc: dst += src * alpha), the plain one subtracts (axpy: dst -=   *)
(* src * alpha), so the sign of alpha differs between the two.             *)
(*                                                                         *)
(* Of the numbers is kept which products have been added to an entry of    *)
(* the result: their sign and the two entries multiplied.                  *)
(***************************************************************************)
EXTENDS Level1, Bags

CONSTANT MaxOrder

ASSUME MaxOrderAssumption == MaxOrder \in Nat /\ MaxOrder <= MaxLen

VARIABLES
  op, fused, order,   \* the operation, the variant, n
  stage,
  col,      \* the column of the result, 0 for a vector
  turn,     \* calls made for this column
  terms,    \* products in each entry of the result, as a bag
  divided   \* solves: the entries divided by the diagonal

nest == <<op, fused, order>>
blas == <<nest, stage, col, turn, terms, divided>>

Solves == {"trsv", "trsm"}
Ops == {"gemv", "ger", "gemm", "syrk", "trmm"} \union Solves

(* Only these have a variant 2. *)
Fusible == {"gemv", "gemm", "syrk", "trmm", "trsm"}

Idx == 0..order-1
Cols == IF op \in {"gemv", "trsv"} THEN 1 ELSE order
Turns == IF op = "ger" THEN 1 ELSE order
Result == Idx \X (0..Cols-1)

BlasOff ==
  /\ op = "none" /\ fused = FALSE /\ order = 0
  /\ stage = "off" /\ col = 0 /\ turn = 0 /\ terms = EmptyBag /\ divided = {}

BlasInit ==
  /\ op \in Ops
  /\ fused \in BOOLEAN /\ (fused => op \in Fusible)
  /\ order \in 1..MaxOrder
  /\ stage = "loop" /\ col = 0 /\ turn = 0
  /\ terms = [x \in Result |-> EmptyBag]
  /\ divided = {}
  /\ kernel \in {Update(0, 1), Update(2, 2)}   \* axpy off wasm, on wasm
  /\ len = 0 /\ pc = "done" /\ i = 0
  /\ count = [k \in Storage |-> 0] /\ held = [k \in Storage |-> Nowhere]

(* The column of A or U that is streamed: a solve takes them from the last back. *)
Streamed == IF op \in Solves THEN order - 1 - turn ELSE turn

(* The first row of the call, and its length: syrk forms the lower half only. *)
Top == IF op = "syrk" THEN col ELSE 0

Length_WithDiagonal ==
  CASE op = "syrk" -> order - col
    [] op = "trmm" \/ op \in Solves -> Streamed + 1
    [] OTHER -> order
Length ==
  CASE op = "syrk" -> order - col
    [] op = "trmm" -> Streamed + 1
    [] op \in Solves -> Streamed
    [] OTHER -> order

(* The entry alpha is read from, and its sign in the call. *)
Factor ==
  CASE op = "ger" -> <<col, 0>>
    [] op = "syrk" -> <<col, Streamed>>
    [] OTHER -> <<Streamed, col>>
AlphaSign ==
  CASE op \in Solves -> IF fused THEN -1 ELSE 1
    [] OTHER -> IF fused THEN 1 ELSE -1
Sign == IF fused THEN AlphaSign ELSE -AlphaSign

(* A solve divides the entry it is about to stream a column with. *)
Divide ==
  /\ stage = "loop"
  /\ op \in Solves
  /\ col < Cols /\ turn < Turns
  /\ divided' = divided \union {<<Streamed, col>>}
  /\ stage' = "divided"
  /\ UNCHANGED <<vars, nest, col, turn, terms>>

(* alpha is read with the call. *)
Stream ==
  /\ stage = IF op \in Solves THEN "divided" ELSE "loop"
  /\ col < Cols /\ turn < Turns
  /\ CallLoop(kernel, Length)
  /\ stage' = "axpy"
  /\ UNCHANGED <<nest, col, turn, terms, divided>>

Times(product, number) == IF number = 0 THEN EmptyBag ELSE [p \in {product} |-> number]

Added(x) ==
  IF x[2] = col /\ x[1] >= Top
  THEN Times(<<Sign, <<x[1], Streamed>>, Factor>>, count[x[1] - Top])
  ELSE EmptyBag

Streamed_Returns ==
  /\ stage = "axpy"
  /\ pc = "done"
  /\ terms' = [x \in Result |-> terms[x] (+) Added(x)]
  /\ turn' = turn + 1
  /\ stage' = "loop"
  /\ UNCHANGED <<vars, nest, col, divided>>

NextColumn ==
  /\ stage = "loop"
  /\ col < Cols /\ turn = Turns
  /\ col' = col + 1
  /\ turn' = 0
  /\ UNCHANGED <<vars, nest, stage, terms, divided>>

BlasReturns ==
  /\ stage = "loop"
  /\ col = Cols
  /\ stage' = "returned"
  /\ UNCHANGED <<vars, nest, col, turn, terms, divided>>

BlasNext == Divide \/ Stream \/ Streamed_Returns \/ NextColumn \/ BlasReturns

BlasSpec ==
  BlasInit /\ [][BlasNext \/ (Step /\ UNCHANGED blas)]_<<vars, blas>>

-----------------------------------------------------------------------------
(* Every variable stays in its range. *)
BlasTypeOK ==
  /\ op \in Ops \union {"none"} /\ fused \in BOOLEAN /\ order \in 0..MaxOrder
  /\ stage \in {"off", "loop", "divided", "axpy", "returned"}
  /\ col \in 0..order /\ turn \in 0..order
  /\ divided \subseteq Result

(***************************************************************************)
(* What the operation is: the products of entry x, each once, with their   *)
(* sign.  trmm and the solves know only the upper triangle of U, syrk only *)
(* forms the lower triangle of A A'.                                       *)
(***************************************************************************)
Inner(x) ==
  CASE op \in {"gemv", "gemm"} -> Idx
    [] op = "syrk" -> IF x[1] >= x[2] THEN Idx ELSE {}
    [] op = "trmm" -> x[1]..order-1
    [] op \in Solves -> x[1]+1..order-1

Expected(x) ==
  SetToBag(
    CASE op = "ger" -> {<<1, <<x[1], 0>>, <<x[2], 0>>>>}
      [] op = "syrk" -> {<<1, <<x[1], s>>, <<x[2], s>>>> : s \in Inner(x)}
      [] OTHER -> {<<IF op \in Solves THEN -1 ELSE 1, <<x[1], s>>, <<s, x[2]>>>> : s \in Inner(x)})

(***************************************************************************)
(* For every order and variant the axpy calls, with the rows they start    *)
(* at, their lengths and the signs they are given, add every product of    *)
(* the operation exactly once and no other.  A solve divides an entry only *)
(* when every product due to it has been subtracted, and streams a column  *)
(* only with an entry that has been divided.                               *)
(***************************************************************************)
ProductsOnce ==
  stage # "off" =>
    /\ \A x \in Result : terms[x] \sqsubseteq Expected(x)
    /\ \A x \in divided : terms[x] = Expected(x)
    /\ stage = "axpy" => Top + Length <= order /\ (op \in Solves => Factor \in divided)
    /\ stage = "returned" =>
         /\ \A x \in Result : terms[x] = Expected(x)
         /\ op \in Solves => divided = Result
=============================================================================
