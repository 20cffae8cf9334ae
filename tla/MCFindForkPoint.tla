--------------------------- MODULE MCFindForkPoint ---------------------------
(***************************************************************************)
(* FindForkPoint on the block tree of MCBlockchain: every pair of its       *)
(* numbered blocks, with every set of loaded records.                       *)
(***************************************************************************)
EXTENDS FindForkPoint, MCBlockTree
=============================================================================
