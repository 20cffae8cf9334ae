---------------------------- MODULE MCBlockTree ----------------------------
(***************************************************************************)
(* Small block trees for the model checker, cut from                        *)
(*                                                                          *)
(*   g -- a1 -- a2 -- a3 -- a4                                              *)
(*    \     \     \-- e3        spends w, which a2 has spent: invalid       *)
(*     \     \-- c2                                                         *)
(*      \-- z                   claims the wrong height                     *)
(*   k -- k1                    another genesis block: nothing in common    *)
(*                                                                          *)
(* a1 claims the reward coin w; a2 and c2 both include the transaction that *)
(* spends w and creates x; a3 spends x.  a1, a2 and k1 include sub-epoch    *)
(* summaries; k1 is not a transaction block, and as heavy as a3 although    *)
(* its chain is shorter.  Under ShortWeight c2 outweighs a3.                *)
(***************************************************************************)
EXTENDS BlockTree, TLC

CONSTANTS g, a1, a2, a3, a4, c2, e3, z, k, k1, w, x

AllBlocks == {g, a1, a2, a3, c2, e3, z, k, k1}
FaultBlocks == {g, a1, a2, a3, c2, k, k1}
RefBlocks == {g, a1, a2, a3, a4, c2}
NumberedBlocks == Blocks \ {z}

MCPrev == [b \in Blocks |->
    CASE b \in {a1, z} -> g [] b \in {a2, c2} -> a1 [] b \in {a3, e3} -> a2
      [] b = a4 -> a3 [] b = k1 -> k [] OTHER -> NONE]
MCHeight == [b \in Blocks |->
    CASE b \in {g, k} -> 0 [] b \in {a1, k1} -> 1 [] b \in {a2, c2, z} -> 2
      [] b \in {a3, e3} -> 3 [] b = a4 -> 4]
MCWeight == [b \in Blocks |->
    CASE b \in {g, k} -> 1 [] b = a1 -> 2 [] b = a2 -> 3 [] b = c2 -> 4
      [] b \in {a3, k1} -> 5 [] b = a4 -> 6 [] b \in {e3, z} -> 7]
ShortWeight == [b \in Blocks |->
    CASE b = a3 -> 4 [] b = c2 -> 5 [] OTHER -> MCWeight[b]]
MCIsTx == [b \in Blocks |-> b # k1]
MCHasSes == [b \in Blocks |-> b \in {a1, a2, k1}]
MCRewards == [b \in Blocks |-> IF b = a1 THEN {w} ELSE {}]
MCAdditions == [b \in Blocks |-> IF b \in {a2, c2} THEN {x} ELSE {}]
MCRemovals == [b \in Blocks |->
    CASE b \in {a2, c2, e3} -> {w} [] b = a3 -> {x} [] OTHER -> {}]

\* No generator refers to an earlier block, or a4's refers to height 2.
NoRefs == [b \in Blocks |-> {}]
RefsToA2 == [b \in Blocks |-> IF b = a4 THEN {2} ELSE {}]

PathOf[b \in Blocks] ==
    IF MCPrev[b] = NONE THEN (0 :> b)
    ELSE PathOf[MCPrev[b]] @@ (MCHeight[b] :> b)
MCAncestor == [b \in NumberedBlocks |-> PathOf[b]]
=============================================================================
