--------------------------- MODULE MCBlockchain ---------------------------
(***************************************************************************)
(* Blockchain on the block trees of MCBlockTree.                            *)
(***************************************************************************)
EXTENDS Blockchain, MCBlockTree
=============================================================================
