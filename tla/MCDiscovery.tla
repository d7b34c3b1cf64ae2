----------------------------- MODULE MCDiscovery -----------------------------
(* Two control points on one host. *)
EXTENDS Discovery
CONSTANTS p1, p2, lan
MCHost == [p \in Points |-> lan]
=============================================================================
