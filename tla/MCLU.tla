-------------------------------- MODULE MCLU --------------------------------
(***************************************************************************)
(* Bounded instances of LU: every block width and crossover up to order    *)
(* MaxN, the defaults among them, and the full recursion for one larger    *)
(* order, at 6 the first at which trsm_rec splits an odd block.            *)
(***************************************************************************)
EXTENDS LU

CONSTANTS MaxN, LargeN

MCCalls ==
  {Call(order, "blocked", block, 1) : order \in 0..MaxN, block \in 0..MaxN}
    \union {Call(order, "recursive", crossover, base) :
              order \in 0..MaxN, crossover \in 0..MaxN, base \in 0..1}
    \union {Call(LargeN, "recursive", 1, 1)}
=============================================================================
