-------------------------------- MODULE Engine --------------------------------
(***************************************************************************)
(* The flow engine (engine.rs) beside the slots of the facade.  Every tick *)
(* it reads which ports the table owns and which flows of the devices are  *)
(* live, claims the flows a device has stopped refreshing by binding their *)
(* port itself, and releases the holds that are owned or abandoned.  Holds *)
(* and slots share the ports, their sockets and the input accept set, and  *)
(* nothing else keeps the two apart.  Counters stop at their thresholds;   *)
(* what a device or a peer has sent since the last tick is a choice.       *)
(***************************************************************************)
EXTENDS Integers, FiniteSets

CONSTANTS
  Ports,        \* bind ports
  Hosts,        \* devices of the LAN that may be held
  KeepaliveAfter, \* KEEPALIVE_AFTER_TICKS
  LongQuiet,    \* LONG_QUIET_TICKS
  DevMisses,    \* DEV_MISSES_TO_RELEASE
  MaxHolds,     \* max_refresh_attempts
  PerHost,      \* per_host
  Faults        \* which calls may fail: "mirror", "pin", "accept", "datapath", "bind"

ASSUME ThresholdAssumption == /\ KeepaliveAfter \in Nat /\ LongQuiet \in Nat \ {0}
                              /\ DevMisses \in Nat \ {0}
                              /\ MaxHolds \in Nat /\ PerHost \in Nat
ASSUME PortAssumption == 0 \notin Ports

VARIABLES
  flows,    \* live flows of the devices: [port, host], one to a port
  table,    \* ports of the lease table's rows
  avoid,    \* the ports the table steers around
  sock,     \* per port: "free", "slot", "dying", "hold", "closing"
  accepted, \* the input accept set
  pins,     \* ports with a self-pin in snat_map
  holds,    \* ObsSlots: [port, host, missing, since, quiet, misses]
  young,    \* quiet ticks of each candidate, Absent when it has none
  eng,      \* the engine's tick: [at, owned, live, todo, flow]
  job,      \* the facade's handler: [at, port, old]
  crossed   \* history: a grant and a flow took one port unseen by each other

vars == <<flows, table, avoid, sock, accepted, pins, holds, young, eng, job, crossed>>

Absent == -1
Nobody == [port |-> 0, host |-> "nobody"]
Resting == [at |-> "idle", owned |-> {}, live |-> {}, todo |-> {}, flow |-> Nobody]
NoJob == [at |-> "idle", port |-> 0, old |-> 0]
PortsOf(S) == {x.port : x \in S}
ObsSlot(c) == [port |-> c.port, host |-> c.host,
               missing |-> 0, since |-> 0, quiet |-> 0, misses |-> 0]

(* Fault: a counter runs on. *)
CountOn(n, limit) == n + 1
Count(n, limit) == IF n < limit THEN n + 1 ELSE n

EngAt(l) == eng.at = l
JobAt(l) == job.at = l
Goto(l) == job' = [job EXCEPT !.at = l]
Tick(e) == eng' = e

Init == /\ flows = {} /\ table = {} /\ avoid = {}
        /\ sock = [p \in Ports |-> "free"]
        /\ accepted = {} /\ pins = {} /\ holds = {}
        /\ young = [p \in Ports |-> Absent]
        /\ eng = Resting /\ job = NoJob
        /\ crossed = FALSE

-----------------------------------------------------------------------------
(* A device opens a flow; the kernel may give it any port, also a slot's.  *)
(* On a port a grant is just taking, neither side sees the other.          *)
FlowStarts(p, h) == /\ p \notin PortsOf(flows)
                    /\ flows' = flows \cup {[port |-> p, host |-> h]}
                    /\ crossed' = (crossed \/ (p \in table /\ sock[p] # "slot"))
                    /\ UNCHANGED <<table, avoid, sock, accepted, pins, holds, young, eng, job>>

FlowEnds(c) == /\ flows' = flows \ {c}
               /\ UNCHANGED <<table, avoid, sock, accepted, pins, holds, young,
                              eng, job, crossed>>

(* What the flow_obs set shows: the flows, and the tuples of the shadows,  *)
(* whose keepalives refresh it; an element outlives its flow by 15 s, long *)
(* past the rest of a release.                                             *)
Mirror == PortsOf(flows) \cup {p \in Ports : sock[p] \in {"hold", "closing"}}
            \cup {c.port : c \in {eng.flow} \ {Nobody}}

-----------------------------------------------------------------------------
(* ObservationEngine::tick.  owned_now ... *)
Begin == /\ EngAt("idle")
         /\ Tick([Resting EXCEPT !.at = "scan", !.owned = table])
         /\ UNCHANGED <<flows, table, avoid, sock, accepted, pins, holds, young, job, crossed>>

(* ... then the live candidates, none when they cannot be listed, and the  *)
(* bookkeeping of the holds.                                               *)
Scanned(s, live, heard) ==
  [s EXCEPT !.missing = IF s.port \in PortsOf(live) THEN 0 ELSE Count(@, LongQuiet),
            !.since = IF s.port \in heard THEN 0 ELSE Count(@, LongQuiet)]

Scan == /\ EngAt("scan")
        /\ \E live \in {flows} \cup (IF "mirror" \in Faults THEN {{}} ELSE {}),
              heard \in SUBSET PortsOf(holds) :
             /\ Tick([eng EXCEPT !.at = "claim", !.live = live, !.todo = live])
             /\ holds' = {Scanned(s, live, heard) : s \in holds}
        /\ UNCHANGED <<flows, table, avoid, sock, accepted, pins, young, job, crossed>>

(* Fault: one hold too many for a device. *)
HostBudgetOff(h) == Cardinality({s \in holds : s.host = h}) <= PerHost
HostBudget(h) == Cardinality({s \in holds : s.host = h}) < PerHost

ClaimAllowed(c) == c.port \notin eng.owned /\ Cardinality(holds) < MaxHolds

Claimable(c) == /\ c.port \notin PortsOf(holds)
                /\ young[c.port] >= KeepaliveAfter
                /\ HostBudget(c.host)
                /\ ClaimAllowed(c)

NextClaim(c) == [eng EXCEPT !.at = "claim", !.todo = @ \ {c}, !.flow = Nobody]

(* A candidate is passed over, or its port is bound elsewhere, ... *)
Pass(c) == /\ EngAt("claim") /\ c \in eng.todo
           /\ ~Claimable(c) \/ sock[c.port] # "free"
           /\ Tick(NextClaim(c))
           /\ UNCHANGED <<flows, table, avoid, sock, accepted, pins, holds, young, job, crossed>>

(* ... or its port is bound, ... *)
Bind(c) == /\ EngAt("claim") /\ c \in eng.todo
           /\ Claimable(c) /\ sock[c.port] = "free"
           /\ sock' = [sock EXCEPT ![c.port] = "hold"]
           /\ Tick([eng EXCEPT !.at = "pin", !.flow = c])
           /\ UNCHANGED <<flows, table, avoid, accepted, pins, holds, young, job, crossed>>

(* ... the self-pin added (the claim adds it twice: the device's own pin   *)
(* is not the engine's to install), ...                                    *)
Pin == LET c == eng.flow IN
       /\ EngAt("pin")
       /\ \/ /\ pins' = pins \cup {c.port}
             /\ Tick([eng EXCEPT !.at = "accept"])
             /\ UNCHANGED sock
          \/ /\ "pin" \in Faults
             /\ pins' = pins \ {c.port}
             /\ sock' = [sock EXCEPT ![c.port] = "free"]
             /\ Tick(NextClaim(c))
       /\ UNCHANGED <<flows, table, avoid, accepted, holds, young, job, crossed>>

(* Fault: the pin of a refused accept stays. *)
AcceptKeepsPin ==
  LET c == eng.flow IN
  /\ EngAt("accept")
  /\ \/ /\ accepted' = accepted \cup {c.port}
        /\ holds' = holds \cup {ObsSlot(c)}
        /\ UNCHANGED sock
     \/ /\ "accept" \in Faults
        /\ sock' = [sock EXCEPT ![c.port] = "free"]
        /\ UNCHANGED <<accepted, holds>>
  /\ Tick(NextClaim(c))
  /\ UNCHANGED <<flows, table, avoid, pins, young, job, crossed>>

(* ... and the port accepted: the flow is held. *)
Accept == LET c == eng.flow IN
          /\ EngAt("accept")
          /\ \/ /\ accepted' = accepted \cup {c.port}
                /\ holds' = holds \cup {ObsSlot(c)}
                /\ UNCHANGED <<pins, sock>>
             \/ /\ "accept" \in Faults
                /\ pins' = pins \ {c.port}
                /\ sock' = [sock EXCEPT ![c.port] = "free"]
                /\ UNCHANGED <<accepted, holds>>
          /\ Tick(NextClaim(c))
          /\ UNCHANGED <<flows, table, avoid, young, job, crossed>>

(* release_reason *)
Released(s) == \/ s.port \in eng.owned
               \/ s.misses >= DevMisses
               \/ s.missing >= LongQuiet /\ s.since >= LongQuiet
               \/ s.quiet >= LongQuiet

(* The ages of the candidates: a new one counts as quiet for this tick, a  *)
(* tick without any candidate leaves all of them as they are.  The holds'  *)
(* quiet ticks, and the probe of at most one device.                       *)
Aged(p, active) == IF p \notin PortsOf(eng.live) THEN Absent
                   ELSE IF young[p] # Absent /\ p \in active THEN 0
                   ELSE IF young[p] = Absent THEN Count(0, KeepaliveAfter)
                   ELSE Count(young[p], KeepaliveAfter)

Older(s, active, absent, probed) ==
  [s EXCEPT !.quiet = IF s.port \in active \/ s.since = 0 THEN 0 ELSE Count(@, LongQuiet),
            !.misses = IF s.host \in absent THEN Count(@, DevMisses)
                       ELSE IF s.host \in probed THEN 0 ELSE @]

Age == /\ EngAt("claim") /\ eng.todo = {}
       /\ \E active \in SUBSET (PortsOf(eng.live) \cup PortsOf(holds)),
             absent \in SUBSET Hosts, probed \in SUBSET Hosts :
            /\ Cardinality(probed) <= 1 /\ absent \subseteq probed
            /\ young' = IF eng.live = {} THEN young ELSE [p \in Ports |-> Aged(p, active)]
            /\ holds' = {Older(s, active, absent, probed) : s \in holds}
       /\ Tick([eng EXCEPT !.at = "release", !.live = {}])
       /\ UNCHANGED <<flows, table, avoid, sock, accepted, pins, job, crossed>>

(* A released hold: its shadow is told to stop and its pin removed ... *)
Release(s) == /\ EngAt("release")
              /\ Released(s)
              /\ holds' = holds \ {s}
              /\ sock' = [sock EXCEPT ![s.port] = "closing"]
              /\ pins' = pins \ {s.port}
              /\ Tick([eng EXCEPT !.at = "unaccept",
                                  !.flow = [port |-> s.port, host |-> s.host]])
              /\ UNCHANGED <<flows, table, avoid, accepted, young, job, crossed>>

(* ... and its port no longer accepted. *)
Unaccept == /\ EngAt("unaccept")
            /\ accepted' = accepted \ {eng.flow.port}
            /\ Tick([eng EXCEPT !.at = "release", !.flow = Nobody])
            /\ UNCHANGED <<flows, table, avoid, sock, pins, holds, young, job, crossed>>

EndTick == /\ EngAt("release")
           /\ \A s \in holds : ~Released(s)
           /\ Tick(Resting)
           /\ UNCHANGED <<flows, table, avoid, sock, accepted, pins, holds, young, job, crossed>>

-----------------------------------------------------------------------------
(* The facade, as far as it shares ports with the engine.  A grant or a    *)
(* yield asks for the live tuples first; it goes on without them when they *)
(* cannot be listed.                                                       *)
Probe(next) == /\ JobAt("idle")
               /\ Goto(next)
               /\ avoid' \in {Mirror} \cup (IF "mirror" \in Faults THEN {avoid} ELSE {})
               /\ UNCHANGED <<flows, table, sock, accepted, pins, holds, young, eng, crossed>>

Unseen(p) == p \in Mirror \cup PortsOf(eng.live)

Upsert == /\ JobAt("upsert")
          /\ \/ \E p \in Ports \ (table \cup avoid) :
                  /\ table' = table \cup {p}
                  /\ job' = [job EXCEPT !.at = "datapath", !.port = p]
                  /\ crossed' = (crossed \/ Unseen(p))
             \/ Ports \subseteq table \cup avoid /\ job' = NoJob /\ UNCHANGED <<table, crossed>>
          /\ UNCHANGED <<flows, avoid, sock, accepted, pins, holds, young, eng>>

Datapath == /\ JobAt("datapath")
            /\ \/ accepted' = accepted \cup {job.port} /\ Goto("bind")
               \/ "datapath" \in Faults /\ accepted' = accepted \ {job.port} /\ Goto("undo")
            /\ UNCHANGED <<flows, table, avoid, sock, pins, holds, young, eng, crossed>>

BindSlot == /\ JobAt("bind")
            /\ \/ /\ sock[job.port] = "free"
                  /\ sock' = [sock EXCEPT ![job.port] = "slot"]
                  /\ job' = NoJob
                  /\ UNCHANGED accepted
               \/ /\ sock[job.port] # "free" \/ "bind" \in Faults
                  /\ accepted' = accepted \ {job.port}
                  /\ Goto("undo")
                  /\ UNCHANGED sock
            /\ UNCHANGED <<flows, table, avoid, pins, holds, young, eng, crossed>>

Undo == /\ JobAt("undo")
        /\ table' = table \ {job.port}
        /\ job' = NoJob
        /\ UNCHANGED <<flows, avoid, sock, accepted, pins, holds, young, eng, crossed>>

(* A teardown: the table, the datapath, and only then the socket. *)
Delete(p) == /\ JobAt("idle")
             /\ p \in table /\ sock[p] = "slot"
             /\ table' = table \ {p}
             /\ job' = [NoJob EXCEPT !.at = "revoke", !.old = p]
             /\ UNCHANGED <<flows, avoid, sock, accepted, pins, holds, young, eng, crossed>>

(* Fault: the socket goes first. *)
RevokeLate == /\ \/ JobAt("revoke") /\ sock' = [sock EXCEPT ![job.old] = "free"]
                    /\ Goto("abort") /\ UNCHANGED accepted
                 \/ JobAt("abort") /\ accepted' = accepted \ {job.old}
                    /\ job' = NoJob /\ UNCHANGED sock
              /\ UNCHANGED <<flows, table, avoid, pins, holds, young, eng, crossed>>

Revoke == /\ JobAt("revoke")
          /\ accepted' = accepted \ {job.old}
          /\ Goto("abort")
          /\ UNCHANGED <<flows, table, avoid, sock, pins, holds, young, eng, crossed>>

Abort == /\ JobAt("abort")
         /\ \E after \in {"free", "dying"} :
              sock' = [sock EXCEPT ![job.old] = IF @ = "slot" THEN after ELSE @]
         /\ job' = NoJob
         /\ UNCHANGED <<flows, table, avoid, accepted, pins, holds, young, eng, crossed>>

(* A yield: the lease moves off the port of a flow, the new socket and the *)
(* new datapath come up, and the old port is torn down; or it moves back.  *)
Move == /\ JobAt("move")
        /\ \/ \E old \in table \cap PortsOf(flows), p \in Ports \ (table \cup avoid) :
                /\ sock[old] = "slot"
                /\ table' = (table \ {old}) \cup {p}
                /\ job' = [at |-> "rebind", port |-> p, old |-> old]
                /\ crossed' = (crossed \/ Unseen(p))
           \/ job' = NoJob /\ UNCHANGED <<table, crossed>>
        /\ UNCHANGED <<flows, avoid, sock, accepted, pins, holds, young, eng>>

Rebind == /\ JobAt("rebind")
          /\ \/ /\ sock[job.port] = "free"
                /\ sock' = [sock EXCEPT ![job.port] = "slot"]
                /\ Goto("redirect")
                /\ UNCHANGED table
             \/ /\ sock[job.port] # "free" \/ "bind" \in Faults
                /\ table' = (table \ {job.port}) \cup {job.old}
                /\ job' = NoJob
                /\ UNCHANGED sock
          /\ UNCHANGED <<flows, avoid, accepted, pins, holds, young, eng, crossed>>

Redirect == /\ JobAt("redirect")
            /\ accepted' = accepted \cup {job.port}
            /\ Goto("revoke")
            /\ UNCHANGED <<flows, table, avoid, sock, pins, holds, young, eng, crossed>>

(* Aborted slot tasks and stopped shadows drop their sockets. *)
Close(p) == /\ sock[p] \in {"dying", "closing"}
            /\ sock' = [sock EXCEPT ![p] = "free"]
            /\ UNCHANGED <<flows, table, avoid, accepted, pins, holds, young, eng, job, crossed>>

-----------------------------------------------------------------------------
EngineStep == \/ Begin \/ Scan \/ Pin \/ Accept \/ Age \/ Unaccept \/ EndTick
              \/ \E c \in eng.todo : Pass(c) \/ Bind(c)
              \/ \E s \in holds : Release(s)

FacadeStep == \/ Probe("upsert") \/ Upsert \/ Datapath \/ BindSlot \/ Undo
              \/ (\E p \in table : Delete(p)) \/ Revoke \/ Abort
              \/ Probe("move") \/ Move \/ Rebind \/ Redirect

Next == \/ EngineStep \/ FacadeStep
        \/ \E p \in Ports : Close(p) \/ \E h \in Hosts : FlowStarts(p, h)
        \/ \E c \in flows : FlowEnds(c)

Spec == Init /\ [][Next]_vars

-----------------------------------------------------------------------------
(* Types. *)
Flow == [port: Ports, host: Hosts]
HoldType == [port: Ports, host: Hosts, missing: 0 .. LongQuiet, since: 0 .. LongQuiet,
             quiet: 0 .. LongQuiet, misses: 0 .. DevMisses]

TypeOK == /\ flows \subseteq Flow
          /\ table \subseteq Ports /\ avoid \subseteq Ports
          /\ sock \in [Ports -> {"free", "slot", "dying", "hold", "closing"}]
          /\ accepted \subseteq Ports /\ pins \subseteq Ports
          /\ holds \subseteq HoldType
          /\ young \in [Ports -> -1 .. KeepaliveAfter]
          /\ eng.owned \subseteq Ports /\ eng.live \subseteq Flow /\ eng.todo \subseteq eng.live
          /\ crossed \in BOOLEAN

Served == {p \in Ports : sock[p] \in {"slot", "hold"}}

(* With neither side in the middle of something, the firewall admits no    *)
(* port that nobody serves; and every port of a slot or a hold, unless a   *)
(* grant and a flow took one port without seeing each other.  Both sides   *)
(* add and delete the same element, and only the order of socket and       *)
(* element in each teardown keeps one from deleting the other's.           *)
AcceptedMatchesServed ==
  EngAt("idle") /\ JobAt("idle") => /\ accepted \subseteq Served
                                    /\ ~crossed => Served \subseteq accepted

(* Between ticks the self-pins are those of the holds, also after claims   *)
(* that failed half way.                                                   *)
PinsMatchHolds == EngAt("idle") => pins = PortsOf(holds)

(* A device's flows never hold more than its share of the budget, nor all  *)
(* of them more than the budget, whatever a tick finds live at once and    *)
(* whatever fails between the check and the hold.                          *)
BudgetKept == /\ Cardinality(holds) <= MaxHolds
              /\ \A h \in Hosts : Cardinality({s \in holds : s.host = h}) <= PerHost
=============================================================================
