------------------------------- MODULE Carrier -------------------------------
(***************************************************************************)
(* The carrier watch: helpers outside send marked probes to the slots, two *)
(* rules of the firewall's table count them, and a poll reads the counter  *)
(* and reports a probe or a silence.  The firewall is rebuilt under the    *)
(* daemon, which installs its counter and rules again at every poll.       *)
(***************************************************************************)
EXTENDS Naturals, FiniteSets

CONSTANT Window \* interval * misses, in ticks

CarrierBudget == [on: BOOLEAN, probes: Nat, rebuilds: Nat, blips: Nat]

ASSUME WindowAssumption == Window \in Nat \ {0}

VARIABLES
  chain,    \* which counting rules each chain has
  counter,  \* the named counter: whether it is there, and its packets
  accepts,  \* the accept set, which the input rule names, is there
  watch,    \* carrier::Watch; age is now - last_seen, or now - started
  quiet,    \* history: ticks since a probe arrived, up to Window
  blind,    \* history: since a probe was last reported one was not counted
  cleft     \* whether the watch is on, and what is left of the bounds

carrierVars == <<chain, counter, accepts, watch, quiet, blind, cleft>>

Chains == {"input", "forward"}
Rules == {"this", "older"}
NoCounter == [there |-> FALSE, packets |-> 0]
New == [primed |-> FALSE, count |-> 0, age |-> 0, alarmed |-> FALSE]

SpendC(what) == cleft[what] > 0 /\ cleft' = [cleft EXCEPT ![what] = @ - 1]

(* An older build's daemon may have left its rules; the accept sets are    *)
(* installed before the watch starts.                                      *)
CarrierInit == /\ chain \in [Chains -> {{}, {"older"}}]
               /\ counter \in {NoCounter} \cup [there: {TRUE}, packets: {1}]
               /\ (\E c \in Chains : chain[c] # {}) => counter.there
               /\ accepts = TRUE
               /\ watch = New
               /\ quiet = 0 /\ blind = FALSE
               /\ ~cleft.on => ~counter.there

-----------------------------------------------------------------------------
(* A probe passes one chain: input where the daemon is its receiver,       *)
(* forward where it is translated.  Each rule there counts it.             *)
Arrive(c) ==
  /\ SpendC("probes")
  /\ counter' = [counter EXCEPT !.packets = @ + Cardinality(chain[c])]
  /\ quiet' = 0
  /\ blind' = (blind \/ chain[c] = {})
  /\ UNCHANGED <<chain, accepts, watch>>

(* The firewall is reloaded, which empties its chains, or restarted, which *)
(* takes the sets and the counter too.                                     *)
Rebuild ==
  /\ SpendC("rebuilds")
  /\ chain' = [c \in Chains |-> {}]
  /\ \/ UNCHANGED <<counter, accepts, blind>>
     \/ /\ counter' = NoCounter /\ accepts' = FALSE
        /\ blind' = (blind \/ counter.packets > watch.count)
  /\ UNCHANGED <<watch, quiet>>

Saturating(t) == IF t = Window THEN t ELSE t + 1

Pass == /\ cleft.on
        /\ watch' = [watch EXCEPT !.age = Saturating(@)]
        /\ quiet' = Saturating(quiet)
        /\ UNCHANGED <<chain, counter, accepts, blind, cleft>>

-----------------------------------------------------------------------------
(* ensure_carrier_probe: the counter, then for the input and the forward   *)
(* chain the older rules go and this build's rule comes.  The input rule   *)
(* cannot be added without the accept set, and then the forward chain is   *)
(* not reached.                                                            *)
Present == IF counter.there THEN counter ELSE [there |-> TRUE, packets |-> 0]

Ensured == IF "this" \in chain["input"] \/ accepts
             THEN [c \in Chains |-> {"this"}]
             ELSE [chain EXCEPT !["input"] = {}]

(* Fault: a probe leaves the stamp where it was. *)
ReadUnstamped(w, n) ==
  IF ~w.primed THEN [w EXCEPT !.primed = TRUE, !.count = n]
  ELSE IF n > w.count THEN [w EXCEPT !.count = n, !.alarmed = FALSE]
  ELSE [w EXCEPT !.alarmed = @ \/ w.age >= Window]

(* Watch::poll: the first poll adopts the counter; a risen counter is a    *)
(* probe; a silence of the whole window is reported once.                  *)
ReadCounter(w, n) ==
  IF ~w.primed THEN [w EXCEPT !.primed = TRUE, !.count = n]
  ELSE IF n > w.count THEN [w EXCEPT !.count = n, !.age = 0, !.alarmed = FALSE]
  ELSE [w EXCEPT !.alarmed = @ \/ w.age >= Window]

(* A probe the first poll adopts was not counted either. *)
Record(n) ==
  /\ watch' = ReadCounter(watch, n)
  /\ blind' = IF watch.primed THEN blind /\ n <= watch.count ELSE blind \/ quiet < watch.age

Poll == /\ cleft.on
        /\ counter' = Present
        /\ chain' = Ensured
        /\ Record(Present.packets)
        /\ UNCHANGED <<accepts, quiet, cleft>>

(* The install fails, or the counter cannot be read after it, or both. *)
PollFails ==
  /\ SpendC("blips")
  /\ \/ UNCHANGED <<chain, counter, watch, blind>>
     \/ counter' = Present /\ chain' = Ensured /\ UNCHANGED <<watch, blind>>
     \/ counter.there /\ Record(counter.packets) /\ UNCHANGED <<chain, counter>>
  /\ UNCHANGED <<accepts, quiet>>

CarrierNext == (\E c \in Chains : Arrive(c)) \/ Rebuild \/ Pass \/ Poll \/ PollFails

CarrierFairness == WF_carrierVars(Pass) /\ WF_carrierVars(Poll)

-----------------------------------------------------------------------------
CarrierTypeOK ==
  /\ chain \in [Chains -> SUBSET Rules]
  /\ counter \in [there: BOOLEAN, packets: Nat]
  /\ accepts \in BOOLEAN
  /\ watch \in [primed: BOOLEAN, count: Nat, age: 0 .. Window, alarmed: BOOLEAN]
  /\ quiet \in 0 .. Window /\ blind \in BOOLEAN
  /\ cleft \in CarrierBudget

(* A silence is reported only when no probe came for the whole window, or  *)
(* when one came while the rules were gone or before the first reading:    *)
(* neither a counter an earlier run left, nor an older rule beside the new *)
(* one, nor a reload in between makes a false alarm of probes that were    *)
(* counted.                                                                *)
AlarmsTrue == [][~watch.alarmed /\ watch'.alarmed => quiet = Window \/ blind]_carrierVars
=============================================================================
