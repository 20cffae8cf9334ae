------------------------------- MODULE MCSync -------------------------------
(***************************************************************************)
(* FullNodeSync on a small tree:                                             *)
(*                                                                           *)
(*   g -- a1 -- a2 -- a3 -- a4 -- a5                                         *)
(*                \-- b3 -- b4 -- b5    heavier; the body of b5 is invalid   *)
(***************************************************************************)
EXTENDS FullNodeSync, TLC

CONSTANTS g, a1, a2, a3, a4, a5, b3, b4, b5, p1, p2

MCBlocks == {g, a1, a2, a3, a4, a5, b3, b4, b5}
MCPrev == [b \in MCBlocks |->
    CASE b = g -> NONE [] b = a1 -> g [] b = a2 -> a1 [] b \in {a3, b3} -> a2
      [] b = a4 -> a3 [] b = a5 -> a4 [] b = b4 -> b3 [] b = b5 -> b4]
MCHeight == [b \in MCBlocks |->
    CASE b = g -> 0 [] b = a1 -> 1 [] b = a2 -> 2 [] b \in {a3, b3} -> 3
      [] b \in {a4, b4} -> 4 [] b \in {a5, b5} -> 5]
MCWeight == [b \in MCBlocks |->
    CASE b = g -> 1 [] b = a1 -> 2 [] b = a2 -> 3 [] b = a3 -> 4 [] b = b3 -> 5
      [] b = a4 -> 6 [] b = b4 -> 7 [] b = a5 -> 8 [] b = b5 -> 9]
PathOf[b \in MCBlocks] ==
    IF MCPrev[b] = NONE THEN (0 :> b) ELSE PathOf[MCPrev[b]] @@ (MCHeight[b] :> b)
Never == [b \in MCBlocks |-> FALSE]
Nothing == [b \in MCBlocks |-> {}]
MCHasSes == [b \in MCBlocks |-> MCHeight[b] > 0]
MCBodyValid == MCBlocks \ {b5}
MCPeerTips == [p \in Peers |-> IF p = p1 THEN {b4, b5} ELSE {a5, b5}]
MCServes == (1 :> Peers) @@ (2 :> Peers \cup {NONE})
=============================================================================
