---------------------------- MODULE MCStunHealth ----------------------------
(* Finite instances of StunHealth. *)
EXTENDS StunHealth

CONSTANTS a, b, d, l
(* an honest server, a dead one, a liar, and a second honest one *)
MCServers == <<a, d, l, b>>
=============================================================================
