------------------------------ MODULE MCMempool ------------------------------
(***************************************************************************)
(* MempoolManager on the block tree                                         *)
(*                                                                          *)
(*   g -- a1 -- a2 -- d3    a1 claims the reward coins r, s and x;         *)
(*          \-- c2 -- c3    a2 spends r, c3 spends s; c2 and d3 are no     *)
(*                          transaction blocks                              *)
(*                                                                          *)
(* and three bundles: t1 spends r and s, and pays more per cost than t2,    *)
(* which spends s; t3 spends x, is locked until height 2, costs as much as  *)
(* the mempool holds and pays least.                                        *)
(***************************************************************************)
EXTENDS MempoolManager, TLC

CONSTANTS g, a1, a2, c2, c3, d3, r, s, x, t1, t2, t3

MCBlocks == {g, a1, a2, c2, c3, d3}
MCPrev == [b \in MCBlocks |->
    CASE b = g -> NONE [] b = a1 -> g [] b \in {a2, c2} -> a1 [] b = c3 -> c2 [] b = d3 -> a2]
MCHeight == [b \in MCBlocks |->
    CASE b = g -> 0 [] b = a1 -> 1 [] b \in {a2, c2} -> 2 [] b \in {c3, d3} -> 3]
MCWeight == [b \in MCBlocks |->
    CASE b = g -> 1 [] b = a1 -> 2 [] b = a2 -> 3 [] b = c2 -> 4 [] b = d3 -> 5 [] b = c3 -> 6]
MCIsTx == [b \in MCBlocks |-> b \notin {c2, d3}]
MCRewards == [b \in MCBlocks |-> IF b = a1 THEN {r, s, x} ELSE {}]
MCRemovals == [b \in MCBlocks |-> CASE b = a2 -> {r} [] b = c3 -> {s} [] OTHER -> {}]
Nothing == [b \in MCBlocks |-> {}]
NoSes == [b \in MCBlocks |-> FALSE]
PathOf[b \in MCBlocks] ==
    IF b = g THEN (0 :> g) ELSE PathOf[MCPrev[b]] @@ (MCHeight[b] :> b)

MCTxRemovals == [t \in Txs |-> CASE t = t1 -> {r, s} [] t = t2 -> {s} [] t = t3 -> {x}]
MCTxAdditions == [t \in Txs |-> {}]
MCCost == [t \in Txs |-> IF t = t3 THEN 2 ELSE 1]
MCFee == [t \in Txs |-> CASE t = t1 -> 4 [] t = t2 -> 3 [] t = t3 -> 2]
MCMinHeight == [t \in Txs |-> IF t = t3 THEN 2 ELSE 0]
=============================================================================
