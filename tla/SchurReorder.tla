---------------------------- MODULE SchurReorder ----------------------------
(***************************************************************************)
(* Reordering a Schur form: real_schur_select, real_schur_move and their   *)
(* complex counterparts in the schur crate.                                *)
(*                                                                         *)
(* T is kept as eig, the input row whose eigenvalue stands at each row,    *)
(* and sub, the rows whose subdiagonal entry below is nonzero (the first   *)
(* rows of 2x2 blocks).  The kernel underneath, faer's schur_move, is      *)
(* external: it exchanges the moving block with its neighbours one after   *)
(* the other, may reject an exchange that involves a 2x2 block, and a 2x2  *)
(* block may come out of an exchange as two real eigenvalues.              *)
(***************************************************************************)
EXTENDS SchurForm

CONSTANT Fields     \* subset of {"real", "complex"}

ASSUME FieldsAssumption == Fields \subseteq {"real", "complex"}

VARIABLES
  field, op,          \* the call: "select" or "move"
  select, sub0,       \* its argument select; history: sub of the input
  ifst, dest,         \* its arguments ifst and ilst
  eig,                \* T: with sub
  k, ks, pair,        \* the scan of *_schur_select
  here, size, ilst,   \* schur_move: the block's first row, its rows, its goal
  phase, ret          \* ret: the value of Ok, or at of SwapRejected

call == <<field, n, op, select, sub0, ifst, dest>>
schur == <<eig, sub>>
scan == <<k, ks, pair>>
move == <<here, size, ilst>>
reorder == <<call, schur, scan, move, phase, ret>>

Start(s, row) == IF row - 1 \in s THEN row - 1 ELSE row
BlockSize(s, row) == IF row \in s THEN 2 ELSE 1

ReorderInit ==
  /\ field \in Fields
  /\ n \in 1..MaxN
  /\ eig = [r \in Idx |-> r]
  /\ sub \in IF field = "complex" THEN {{}} ELSE Blocks2x2
  /\ sub0 = sub
  /\ \/ op = "select" /\ select \in SUBSET Idx /\ ifst = 0 /\ dest = 0
     \/ op = "move" /\ select = {} /\ ifst \in Idx /\ dest \in Idx
  /\ k = 0 /\ ks = 0 /\ pair = FALSE
  /\ here = 0 /\ size = 1 /\ ilst = 0
  /\ phase = "call" /\ ret = 0

-----------------------------------------------------------------------------
(* schur_move moves the whole block a row belongs to. *)
MovedFrom_GivenRow(row) == row
MovedFrom(row) == Start(sub, row)

(* Where its first row ends up: moving down, the blocks' last rows line up. *)
MovedTo(from, row) ==
  LET to == Start(sub, row)
  IN  IF from < to THEN to + BlockSize(sub, to) - BlockSize(sub, from) ELSE to

schur_move(from, to) ==
  /\ here' = MovedFrom(from)
  /\ size' = BlockSize(sub, here')
  /\ ilst' = MovedTo(here', to)
  /\ phase' = "moving"

(* The blocks at a (s rows) and a + s (t rows) change places. *)
Exchange(a, s, t) ==
  /\ eig' = [r \in Idx |-> IF r \in a..a+t-1 THEN eig[r + s]
                           ELSE IF r \in a+t..a+t+s-1 THEN eig[r - t] ELSE eig[r]]
  /\ \E splits \in SUBSET {a, a + t} :
       sub' = (sub \ (a..a+s+t-1))
                \union (((IF a \in sub THEN {a + t} ELSE {})
                           \union (IF a + s \in sub THEN {a} ELSE {})) \ splits)

MoveUp ==
  /\ phase = "moving"
  /\ here > ilst
  /\ LET above == Start(sub, here - 1)
     IN  Exchange(above, here - above, size) /\ here' = above
  /\ UNCHANGED <<call, scan, size, ilst, phase, ret>>

MoveDown ==
  /\ phase = "moving"
  /\ here < ilst
  /\ LET rows == BlockSize(sub, here + size)
     IN  Exchange(here, size, rows) /\ here' = here + rows
  /\ UNCHANGED <<call, scan, size, ilst, phase, ret>>

(* A rejected exchange: ilst is where the block stopped. *)
StoppedAt_Goal == ilst
StoppedAt == here

Neighbour == IF here > ilst THEN here - 2 ELSE here + size

RejectSwap ==
  /\ phase = "moving"
  /\ here # ilst
  /\ size = 2 \/ Neighbour \in sub
  /\ phase' = "rejected"
  /\ ret' = StoppedAt
  /\ UNCHANGED <<call, schur, scan, move>>

-----------------------------------------------------------------------------
CallMove ==
  /\ phase = "call"
  /\ op = "move"
  /\ schur_move(ifst, dest)
  /\ UNCHANGED <<call, schur, scan, ret>>

MoveReturns ==
  /\ phase = "moving"
  /\ op = "move"
  /\ here = ilst
  /\ phase' = "ok"
  /\ ret' = ilst
  /\ UNCHANGED <<call, schur, scan, move>>

CallSelect ==
  /\ phase = "call"
  /\ op = "select"
  /\ phase' = "scan"
  /\ UNCHANGED <<call, schur, scan, move, ret>>

(* The second row of a 2x2 block is not a row of its own. *)
SkipSecondRow ==
  /\ phase = "scan"
  /\ k < n
  /\ pair
  /\ pair' = FALSE
  /\ k' = k + 1
  /\ UNCHANGED <<call, schur, ks, move, phase, ret>>

(* Selecting either member of a 2x2 block selects the block. *)
Wanted_FirstRowOnly == k \in select
Wanted == k \in select \/ (k \in sub /\ k + 1 \in select)

(* t[(k+1, k)] != 0: the next row is the second one of the block. *)
BeginsPair_Ignored == FALSE
BeginsPair == k \in sub

PassBlock ==
  /\ phase = "scan"
  /\ k < n
  /\ ~pair
  /\ ~Wanted \/ k = ks
  /\ pair' = BeginsPair
  /\ ks' = IF Wanted THEN ks + BlockSize(sub, k) ELSE ks
  /\ k' = k + 1
  /\ UNCHANGED <<call, schur, move, phase, ret>>

MoveBlock ==
  /\ phase = "scan"
  /\ k < n
  /\ ~pair
  /\ Wanted
  /\ k # ks
  /\ pair' = BeginsPair
  /\ schur_move(k, ks)
  /\ UNCHANGED <<call, schur, k, ks, ret>>

BlockMoved ==
  /\ phase = "moving"
  /\ op = "select"
  /\ here = ilst
  /\ ks' = ks + (IF pair THEN 2 ELSE 1)
  /\ k' = k + 1
  /\ phase' = "scan"
  /\ UNCHANGED <<call, schur, pair, move, ret>>

SelectReturns ==
  /\ phase = "scan"
  /\ k = n
  /\ phase' = "ok"
  /\ ret' = ks
  /\ UNCHANGED <<call, schur, scan, move>>

ReorderDone == phase \in {"ok", "rejected"} /\ UNCHANGED reorder

ReorderNext ==
  \/ CallMove \/ MoveReturns
  \/ CallSelect \/ SkipSecondRow \/ PassBlock \/ MoveBlock \/ BlockMoved \/ SelectReturns
  \/ MoveUp \/ MoveDown \/ RejectSwap
  \/ ReorderDone

ReorderSpec == ReorderInit /\ [][ReorderNext]_reorder

-----------------------------------------------------------------------------
(***************************************************************************)
(* The comment of real_schur_select: the positions still to be scanned     *)
(* hold the input's eigenvalues and blocks (the second row of a moved      *)
(* block is skipped), so that select, which refers to rows of the input,   *)
(* may be indexed by the loop position although T has changed.             *)
(***************************************************************************)
ScanSeesInput ==
  phase = "scan" =>
    /\ pair <=> k - 1 \in sub0
    /\ \A r \in (IF pair THEN k + 1 ELSE k)..n-1 : eig[r] = r /\ (r \in sub <=> r \in sub0)

(* The rows select means: a selected row brings its block along. *)
Chosen == {r \in Idx : r \in select \/ (r \in sub0 /\ r + 1 \in select)
                                    \/ (r - 1 \in sub0 /\ r - 1 \in select)}
InOrder(S) == \A r, q \in Idx : eig[r] \in S /\ eig[q] \in S /\ r < q => eig[r] < eig[q]

(***************************************************************************)
(* *_schur_select returns m with exactly the chosen eigenvalues in rows    *)
(* 0..m-1, no 2x2 block across m (the first m columns of Z span an         *)
(* invariant subspace), chosen and other rows each in their old order.     *)
(***************************************************************************)
SelectionLeads ==
  op = "select" /\ phase = "ok" =>
    /\ {eig[r] : r \in 0..ret-1} = Chosen
    /\ ret - 1 \notin sub
    /\ InOrder(Chosen) /\ InOrder(Idx \ Chosen)

(***************************************************************************)
(* SwapRejected: T is only partially reordered.  The rows before the move  *)
(* are in place, those after it untouched, and at is the row where the     *)
(* moving block stopped.                                                   *)
(***************************************************************************)
RejectionIsPartial ==
  op = "select" /\ phase = "rejected" =>
    /\ {eig[r] : r \in 0..ks-1} \subseteq Chosen /\ ks - 1 \notin sub
    /\ eig[ret] = k /\ ret \in ks+1..k
    /\ \A r \in Idx : eig[r] < k /\ eig[r] \in Chosen => r < ks
    /\ \A r \in k+size..n-1 : eig[r] = r

(***************************************************************************)
(* *_schur_move returns the row where the block starts, off the requested  *)
(* one by at most one, and the other blocks keep their order.              *)
(***************************************************************************)
MoveLands ==
  op = "move" /\ phase = "ok" =>
    /\ eig[ret] = Start(sub0, ifst)
    /\ ret \in dest-1..dest+1
    /\ InOrder({r \in Idx : Start(sub0, r) # Start(sub0, ifst)})
=============================================================================
