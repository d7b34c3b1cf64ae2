------------------------------- MODULE MCPcp -------------------------------
(* Finite instances of Pcp. *)
EXTENDS Pcp

CONSTANTS alice, bob
=============================================================================
