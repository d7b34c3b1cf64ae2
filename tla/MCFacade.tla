------------------------------ MODULE MCFacade ------------------------------
(* Finite instances of Facade. *)
EXTENDS Facade

CONSTANTS alice, bob, w1, w2

R(x, c, i) == [ext |-> x, owner |-> c, client |-> c, int |-> i]

(* a label that moves from one internal port to another, a mapping that is *)
(* relabelled, and a label both clients use                                *)
MovingLabels == {R(1, alice, 1), R(1, alice, 2), R(1, bob, 1), R(2, bob, 1),
                 R(3, bob, 2)}
OnePortEach == {R(1, alice, 1), R(1, bob, 1)}
SharedLabel == {R(1, alice, 1), R(1, alice, 2), R(1, bob, 1)}
OneWorkerEach == [h \in {w1, w2} |-> IF h = w1 THEN {alice} ELSE {bob}]
TwoWorkers == [h \in {w1, w2} |-> {alice, bob}]
NoStatics == {{}}
OneStatic == {{1}}

(* what occurs together, for which requests, and how many jobs at once *)
Scene(uses, asked, most) == [uses |-> uses, requests |-> asked, busy |-> most]
Serial == Scene({"grant", "delete", "range", "pcp", "sweep", "reap", "yield", "age"},
                MovingLabels, 1)
Crashing == Scene({"grant", "delete", "sweep", "age", "persist", "crash"}, MovingLabels, 1)
Cancelling == Scene({"grant", "delete", "sweep", "age", "yield", "cancel"},
                    OnePortEach, 1)
Publishing == Scene({"grant", "delete", "yield", "publish"}, OnePortEach, 1)
AllJobs == {Serial, Crashing, Cancelling, Publishing}
Together == {Scene({"grant", "delete", "pcp", "linger"}, SharedLabel, 2)}
Deleting == {Scene({"grant", "delete"}, OnePortEach, 2)}
YieldingAndCrashing == {Scene({"grant", "yield", "persist", "crash"}, OnePortEach, 1)}
OneWorker == [h \in {w1} |-> {alice, bob}]
=============================================================================
