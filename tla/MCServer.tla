------------------------------ MODULE MCServer ------------------------------
(***************************************************************************)
(* Two connections that one peer makes, the first from an exempt network.   *)
(***************************************************************************)
EXTENDS Server

CONSTANTS c1, c2, p1

MCPeerId == [c \in Conns |-> p1]
=============================================================================
