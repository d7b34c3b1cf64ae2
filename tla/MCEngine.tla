------------------------------ MODULE MCEngine ------------------------------
(* A finite instance of Engine: one device, two ports. *)
EXTENDS Engine

CONSTANT pc
MCHosts == {pc}
=============================================================================
