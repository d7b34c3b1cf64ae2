-------------------------------- MODULE Line --------------------------------
(***************************************************************************)
(* What the daemon knows of its line: a TCP slot's tuple, told to the      *)
(* front, and the carrier watch.  They share the daemon: a respawn starts  *)
(* both again.                                                             *)
(***************************************************************************)
EXTENDS TcpSlot, Carrier

CONSTANT Budgets \* bounds of a behaviour: of its slot and of its watch

ASSUME BudgetAssumption == Budgets \subseteq [slot: SlotBudget, watch: CarrierBudget]

vars == <<slotVars, carrierVars>>

Init == /\ \E b \in Budgets : left = b.slot /\ cleft = b.watch
        /\ SlotInit /\ CarrierInit

Restart == /\ Respawn
           /\ watch' = New
           /\ quiet' = 0 /\ blind' = FALSE
           /\ accepts' = TRUE
           /\ UNCHANGED <<chain, counter, cleft>>

Next == \/ Restart
        \/ SlotNext /\ UNCHANGED carrierVars
        \/ CarrierNext /\ UNCHANGED slotVars

Spec == Init /\ [][Next]_vars /\ SlotFairness /\ CarrierFairness

-----------------------------------------------------------------------------
TypeOK == SlotTypeOK /\ CarrierTypeOK
=============================================================================
