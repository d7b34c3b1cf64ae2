---------------------------- MODULE MCLeaseTable ----------------------------
(* A finite instance of LeaseTable. *)
EXTENDS LeaseTable

CONSTANTS alice, bob

MCClients == {alice, bob}
(* a grant that a sweep may take for silence, and one it may not *)
MCAsked == {<<"udp", 1, alice>>, <<"tcp", 1, bob>>}
(* live flows in the range and beyond it; no probe before the first grant *)
MCFlows == {{Lo, Hi + 1}}
MCStatics == {{}, {2}}
=============================================================================
