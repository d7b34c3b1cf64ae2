------------------------------- MODULE MCLine -------------------------------
(* A dead server and two that answer.  The slot is moved, lost, torn down  *)
(* and restarted while the watch is left alone, or the watch while the     *)
(* slot is.                                                                *)
EXTENDS Line

CONSTANTS a, b, d

MCServers == <<d, a, b>>

Slots(g, k, f, t, r) ==
  [grants |-> g, rekeys |-> k, faults |-> f, teardowns |-> t, respawns |-> r]
Watches(p, r, n) == [on |-> p > 0, probes |-> p, rebuilds |-> r, blips |-> n]

MCBudgets == {[slot |-> Slots(1, 2, 2, 0, 0), watch |-> Watches(0, 0, 0)],
              [slot |-> Slots(2, 1, 1, 1, 1), watch |-> Watches(0, 0, 0)],
              [slot |-> Slots(0, 0, 0, 0, 1), watch |-> Watches(3, 2, 1)]}
=============================================================================
