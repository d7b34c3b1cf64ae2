----------------------------- MODULE EngineProofs -----------------------------
(***************************************************************************)
(* The flow engine beside the facade's slots, for any ports, devices,      *)
(* budgets and thresholds and any set of calls that may fail.              *)
(***************************************************************************)
EXTENDS Engine, FiniteSetTheorems, TLAPS

EngStages == {"idle", "scan", "claim", "pin", "accept", "release", "unaccept"}
JobStages == {"idle", "upsert", "datapath", "bind", "undo", "revoke", "abort",
              "move", "rebind", "redirect"}
EngType == [at: EngStages, owned: SUBSET Ports, live: SUBSET Flow, todo: SUBSET Flow,
            flow: Flow \cup {Nobody}]
JobType == [at: JobStages, port: Ports \cup {0}, old: Ports \cup {0}]

(* The port a job is bringing up, up to its socket or its undoing, and the *)
(* one it is taking down, or will.                                         *)
Raising == job.at \in {"datapath", "bind", "undo", "rebind"}
Lowering == job.at \in {"revoke", "abort", "rebind", "redirect"}
Claiming == eng.at \in {"pin", "accept"}

TypeInv == /\ TypeOK
           /\ eng \in EngType /\ job \in JobType
           /\ (Claiming \/ EngAt("unaccept")) => eng.flow \in Flow
           /\ ~(Claiming \/ EngAt("unaccept")) => eng.flow = Nobody
           /\ Raising \/ JobAt("redirect") => job.port \in Ports
           /\ Lowering => job.old \in Ports

(* Every hold has its port and its shadow's socket to itself, and a claim  *)
(* has neither a hold nor more than the socket and, later, the pin.        *)
HoldsInv ==
  /\ IsFiniteSet(holds)
  /\ \A s, t \in holds : s.port = t.port => s = t
  /\ \A s \in holds : sock[s.port] = "hold"
  /\ Claiming => sock[eng.flow.port] = "hold" /\ eng.flow.port \notin PortsOf(holds)
  /\ \A p \in Ports : sock[p] = "hold" =>
       p \in PortsOf(holds) \/ (Claiming /\ p = eng.flow.port)
  /\ pins = PortsOf(holds) \cup (IF EngAt("accept") THEN {eng.flow.port} ELSE {})

(* A claim has room for its hold. *)
RoomInv ==
  /\ BudgetKept
  /\ Claiming => Cardinality(holds) < MaxHolds /\ HostBudget(eng.flow.host)

(* A slot's socket belongs to a row of the table or to the job that took   *)
(* the row.                                                                *)
SlotsInv ==
  /\ \A p \in Ports : sock[p] = "slot" => p \in table \/ (Lowering /\ p = job.old)
  /\ Lowering => sock[job.old] = "slot" /\ job.old \notin table
  /\ Raising => job.port \in table /\ sock[job.port] # "slot"
  /\ JobAt("redirect") => job.port \in table /\ sock[job.port] = "slot"

(* The port of an accept element has a slot, a hold, or a step under way   *)
(* that ends in a slot or in the removal.                                  *)
AcceptedInv ==
  /\ \A p \in accepted : \/ sock[p] = "slot" \/ p \in PortsOf(holds)
                         \/ JobAt("bind") /\ p = job.port
                         \/ EngAt("unaccept") /\ p = eng.flow.port
  /\ JobAt("abort") => job.old \notin accepted

(* Uncrossed, nobody but the job knows of the port it is bringing up, and  *)
(* every socket has its element or is about to get it or to go.            *)
UncrossedInv ==
  ~crossed =>
    /\ Raising => /\ job.port \notin PortsOf(flows) \cup PortsOf(eng.live)
                  /\ sock[job.port] \in {"free", "dying"}
                  /\ eng.flow # Nobody => job.port # eng.flow.port
    /\ JobAt("bind") => job.port \in accepted
    /\ EngAt("unaccept") => sock[eng.flow.port] \notin {"slot", "hold"}
    /\ \A p \in Ports : sock[p] \in {"slot", "hold"} =>
         \/ p \in accepted
         \/ Claiming /\ p = eng.flow.port
         \/ JobAt("abort") /\ p = job.old
         \/ JobAt("redirect") /\ p = job.port

EInv == TypeInv /\ HoldsInv /\ RoomInv /\ SlotsInv /\ AcceptedInv /\ UncrossedInv

-----------------------------------------------------------------------------
LEMMA Thresholds ==
  /\ KeepaliveAfter \in Nat /\ LongQuiet \in Nat /\ DevMisses \in Nat
  /\ MaxHolds \in Nat /\ PerHost \in Nat
BY ThresholdAssumption

LEMMA CountStays ==
  ASSUME NEW limit \in Nat, NEW n \in 0 .. limit
  PROVE  Count(n, limit) \in 0 .. limit
BY DEF Count

LEMMA NobodyIsNoFlow == Nobody \notin Flow /\ Resting \in EngType /\ NoJob \in JobType
                        /\ Resting.at = "idle" /\ Resting.flow = Nobody /\ NoJob.at = "idle"
BY PortAssumption DEF Nobody, Flow, Resting, NoJob, EngType, JobType, EngStages, JobStages

(* What Scan and Age make of a hold is a hold of the same flow. *)
LEMMA SameHold ==
  ASSUME NEW s \in HoldType, NEW a, NEW b, NEW c
  PROVE  /\ Scanned(s, a, b) \in HoldType
         /\ Scanned(s, a, b).port = s.port /\ Scanned(s, a, b).host = s.host
         /\ Older(s, a, b, c) \in HoldType
         /\ Older(s, a, b, c).port = s.port /\ Older(s, a, b, c).host = s.host
<1>1. /\ s.missing \in 0 .. LongQuiet /\ s.since \in 0 .. LongQuiet /\ s.quiet \in 0 .. LongQuiet
      /\ s.misses \in 0 .. DevMisses /\ 0 \in 0 .. LongQuiet /\ 0 \in 0 .. DevMisses
  BY Thresholds DEF HoldType
<1>2. /\ Count(s.missing, LongQuiet) \in 0 .. LongQuiet
      /\ Count(s.since, LongQuiet) \in 0 .. LongQuiet
      /\ Count(s.quiet, LongQuiet) \in 0 .. LongQuiet
      /\ Count(s.misses, DevMisses) \in 0 .. DevMisses
  BY <1>1, CountStays, Thresholds
<1>3. Scanned(s, a, b) \in HoldType
      /\ Scanned(s, a, b).port = s.port /\ Scanned(s, a, b).host = s.host
  BY <1>1, <1>2 DEF Scanned, HoldType
<1>4. Older(s, a, b, c) \in HoldType
      /\ Older(s, a, b, c).port = s.port /\ Older(s, a, b, c).host = s.host
  BY <1>1, <1>2 DEF Older, HoldType
<1> QED BY <1>3, <1>4

LEMMA PortsOfFlows ==
  /\ flows \subseteq Flow => PortsOf(flows) \subseteq Ports
  /\ \A c \in Flow : c.port \in Ports /\ c.host \in Hosts
  /\ \A s \in HoldType : s.port \in Ports /\ s.host \in Hosts
BY DEF PortsOf, Flow, HoldType

-----------------------------------------------------------------------------
LEMMA InitEngine == Init => EInv
<1> SUFFICES ASSUME Init PROVE EInv
  OBVIOUS
<1> USE Thresholds, NobodyIsNoFlow
<1>1. IsFiniteSet({}) /\ Cardinality({}) = 0
  BY FS_EmptySet
<1>2. eng.at = "idle" /\ job.at = "idle" /\ flows = {} /\ holds = {} /\ PortsOf(holds) = {}
  BY DEF Init, PortsOf
<1>3. TypeOK
  <2>1. crossed \in BOOLEAN
    BY DEF Init
  <2>4. young \in [Ports -> -1 .. KeepaliveAfter]
    BY DEF Init, Absent
  <2>2. sock \in [Ports -> {"free", "slot", "dying", "hold", "closing"}]
    BY DEF Init
  <2>3. flows = {} /\ table = {} /\ avoid = {} /\ accepted = {} /\ pins = {} /\ holds = {}
        /\ eng.owned = {} /\ eng.live = {} /\ eng.todo = {}
    BY DEF Init, Resting
  <2> QED BY <2>1, <2>2, <2>3, <2>4 DEF TypeOK
<1>4. TypeInv
  BY <1>2, <1>3 DEF Init, TypeInv, Claiming, Raising, Lowering, EngAt, JobAt
<1>5. HoldsInv
  BY <1>1, <1>2 DEF Init, HoldsInv, Claiming, EngAt
<1>6. RoomInv
  BY <1>1, <1>2 DEF RoomInv, BudgetKept, Claiming
<1>7. SlotsInv /\ AcceptedInv /\ UncrossedInv
  BY <1>2 DEF Init, SlotsInv, AcceptedInv, UncrossedInv, Raising, Lowering, Claiming, EngAt, JobAt
<1> QED BY <1>4, <1>5, <1>6, <1>7 DEF EInv

-----------------------------------------------------------------------------
LEMMA NextClaimIs ==
  ASSUME eng \in EngType, NEW c
  PROVE  /\ NextClaim(c) \in EngType /\ NextClaim(c).at = "claim"
         /\ NextClaim(c).todo = eng.todo \ {c} /\ NextClaim(c).live = eng.live
         /\ NextClaim(c).owned = eng.owned /\ NextClaim(c).flow = Nobody
BY DEF NextClaim, EngType, EngStages

(* Types through the engine's tick. *)
LEMMA TickTypes == ASSUME TypeInv, EngineStep PROVE TypeInv'
<1> USE NobodyIsNoFlow, PortsOfFlows, Thresholds DEF TypeInv, Claiming, Raising, Lowering, EngAt, JobAt
<1>1. CASE Begin
  BY <1>1 DEF Begin, Tick, TypeOK, EngType, EngStages, Resting
<1>2. CASE Scan
  <2>1. PICK live \in {flows, {}}, heard \in SUBSET PortsOf(holds) :
          /\ Tick([eng EXCEPT !.at = "claim", !.live = live, !.todo = live])
          /\ holds' = {Scanned(s, live, heard) : s \in holds}
    BY <1>2 DEF Scan
  <2>2. holds' \subseteq HoldType
    BY <2>1, SameHold DEF TypeOK
  <2> QED BY <1>2, <2>1, <2>2 DEF Scan, Tick, TypeOK, EngType, EngStages
<1>3. CASE Pin
  <2>1. eng' = [eng EXCEPT !.at = "accept"] \/ eng' = NextClaim(eng.flow)
    BY <1>3 DEF Pin, Tick
  <2>2. eng' \in EngType /\ eng'.at \in {"accept", "claim"} /\ eng'.live = eng.live
        /\ eng'.owned = eng.owned /\ eng'.todo \subseteq eng.todo
        /\ eng'.flow = IF eng'.at = "accept" THEN eng.flow ELSE Nobody
    <3>1. CASE eng' = NextClaim(eng.flow)
      BY <3>1, NextClaimIs
    <3>2. CASE eng' = [eng EXCEPT !.at = "accept"]
      BY <3>2 DEF EngType, EngStages
    <3> QED BY <2>1, <3>1, <3>2
  <2>3. pins' \subseteq Ports /\ sock' \in [Ports -> {"free", "slot", "dying", "hold", "closing"}]
    BY <1>3 DEF Pin, TypeOK
  <2> QED BY <1>3, <2>2, <2>3 DEF Pin, TypeOK
<1>4. CASE Accept
  <2>1. ObsSlot(eng.flow) \in HoldType
    BY <1>4 DEF Accept, ObsSlot, HoldType
  <2> QED BY <1>4, <2>1 DEF Accept, Tick, NextClaim, TypeOK, EngType, EngStages
<1>5. CASE Age
  <2>1. PICK active \in SUBSET (PortsOf(eng.live) \cup PortsOf(holds)),
             absent \in SUBSET Hosts, probed \in SUBSET Hosts :
          /\ young' = IF eng.live = {} THEN young ELSE [p \in Ports |-> Aged(p, active)]
          /\ holds' = {Older(s, active, absent, probed) : s \in holds}
    BY <1>5 DEF Age
  <2>2. holds' \subseteq HoldType
    BY <2>1, SameHold DEF TypeOK
  <2>3. \A p \in Ports : Aged(p, active) \in -1 .. KeepaliveAfter
    BY DEF Aged, Absent, Count, TypeOK
  <2>4. young' \in [Ports -> -1 .. KeepaliveAfter]
    <3> HIDE DEF TypeInv
    <3> QED BY <2>1, <2>3 DEF TypeOK, TypeInv
  <2> QED BY <1>5, <2>2, <2>4 DEF Age, Tick, TypeOK, EngType, EngStages
<1>6. CASE Unaccept
  BY <1>6 DEF Unaccept, Tick, TypeOK, EngType, EngStages
<1>7. CASE EndTick
  BY <1>7 DEF EndTick, Tick, TypeOK, EngType, EngStages, Resting
<1>8. ASSUME NEW c \in eng.todo, Pass(c) \/ Bind(c) PROVE TypeInv'
  <2>1. eng' = NextClaim(c) \/ eng' = [eng EXCEPT !.at = "pin", !.flow = c]
    BY <1>8 DEF Pass, Bind, Tick
  <2>2. eng' \in EngType /\ eng'.at \in {"claim", "pin"} /\ eng'.live = eng.live
        /\ eng'.owned = eng.owned /\ eng'.todo \subseteq eng.todo
        /\ eng'.flow = IF eng'.at = "pin" THEN c ELSE Nobody
    <3>1. c \in Flow /\ eng \in EngType
      BY DEF TypeOK
    <3>2. CASE eng' = NextClaim(c)
      BY <3>1, <3>2, NextClaimIs
    <3>3. CASE eng' = [eng EXCEPT !.at = "pin", !.flow = c]
      <4> HIDE DEF TypeInv
      <4> QED BY <3>1, <3>3 DEF EngType, EngStages
    <3> QED BY <2>1, <3>2, <3>3
  <2>3. sock' \in [Ports -> {"free", "slot", "dying", "hold", "closing"}]
    BY <1>8 DEF Pass, Bind, TypeOK
  <2> QED BY <1>8, <2>2, <2>3 DEF Pass, Bind, TypeOK
<1>9. ASSUME NEW s \in holds, Release(s) PROVE TypeInv'
  <2>1. [port |-> s.port, host |-> s.host] \in Flow
    BY DEF TypeOK, Flow
  <2> QED BY <1>9, <2>1 DEF Release, Tick, TypeOK, EngType, EngStages
<1> QED BY <1>1, <1>2, <1>3, <1>4, <1>5, <1>6, <1>7, <1>8, <1>9 DEF EngineStep

LEMMA FacadeTypes == ASSUME TypeInv, FacadeStep PROVE TypeInv'
<1> USE NobodyIsNoFlow, PortsOfFlows DEF TypeInv, Claiming, Raising, Lowering, EngAt, JobAt, Goto
<1>1. ASSUME NEW next \in {"upsert", "move"}, Probe(next) PROVE TypeInv'
  <2>1. Mirror \subseteq Ports
    BY DEF Mirror, TypeOK, PortsOf
  <2> QED BY <1>1, <2>1 DEF Probe, TypeOK, JobType, JobStages
<1>2. CASE Upsert
  <2>1. crossed' \in BOOLEAN
    BY <1>2 DEF Upsert, TypeOK
  <2> QED BY <1>2, <2>1 DEF Upsert, TypeOK, JobType, JobStages
<1>3. CASE Datapath \/ BindSlot \/ Undo \/ Revoke \/ Redirect
  BY <1>3 DEF Datapath, BindSlot, Undo, Revoke, Redirect, TypeOK, JobType, JobStages
<1>4. ASSUME NEW p \in table, Delete(p) PROVE TypeInv'
  BY <1>4 DEF Delete, TypeOK, JobType, JobStages
<1>5. CASE Abort
  BY <1>5 DEF Abort, TypeOK, JobType, JobStages
<1>6. CASE Move
  <2>1. crossed' \in BOOLEAN
    BY <1>6 DEF Move, TypeOK
  <2> QED BY <1>6, <2>1 DEF Move, TypeOK, JobType, JobStages
<1>7. CASE Rebind
  BY <1>7 DEF Rebind, TypeOK, JobType, JobStages
<1> QED BY <1>1, <1>2, <1>3, <1>4, <1>5, <1>6, <1>7 DEF FacadeStep

LEMMA EnvironmentTypes ==
  ASSUME TypeInv,
         \/ \E p \in Ports : Close(p) \/ \E h \in Hosts : FlowStarts(p, h)
         \/ \E c \in flows : FlowEnds(c)
  PROVE  TypeInv'
<1> USE DEF TypeInv, Claiming, Raising, Lowering, EngAt, JobAt
<1>1. ASSUME NEW p \in Ports, Close(p) PROVE TypeInv'
  BY <1>1 DEF Close, TypeOK
<1>2. ASSUME NEW p \in Ports, NEW h \in Hosts, FlowStarts(p, h) PROVE TypeInv'
  <2>1. crossed' \in BOOLEAN
    BY <1>2 DEF FlowStarts, TypeOK
  <2> QED BY <1>2, <2>1 DEF FlowStarts, TypeOK, Flow
<1>3. ASSUME NEW c \in flows, FlowEnds(c) PROVE TypeInv'
  BY <1>3 DEF FlowEnds, TypeOK
<1> QED BY <1>1, <1>2, <1>3

-----------------------------------------------------------------------------
(* The holds: rewriting them in place neither adds one nor moves one. *)
OfHost(H, h) == {s \in H : s.host = h}
OnePerPort(H) == \A s, t \in H : s.port = t.port => s = t

LEMMA ImageIsSmaller ==
  ASSUME NEW H, IsFiniteSet(H), NEW R, NEW f \in [H -> R],
         \A y \in R : \E s \in H : y = f[s]
  PROVE  IsFiniteSet(R) /\ Cardinality(R) <= Cardinality(H)
<1>1. f \in Surjection(H, R)
  BY DEF Surjection
<1> QED BY <1>1, FS_Surjection

LEMMA Rewritten ==
  ASSUME NEW H, IsFiniteSet(H), OnePerPort(H), NEW R, NEW f \in [H -> R],
         \A s \in H : f[s].port = s.port /\ f[s].host = s.host,
         \A y \in R : \E s \in H : y = f[s]
  PROVE  /\ IsFiniteSet(R) /\ Cardinality(R) <= Cardinality(H)
         /\ OnePerPort(R) /\ PortsOf(R) = PortsOf(H)
         /\ \A h : Cardinality(OfHost(R, h)) <= Cardinality(OfHost(H, h))
<1>1. IsFiniteSet(R) /\ Cardinality(R) <= Cardinality(H)
  BY ImageIsSmaller
<1>2. OnePerPort(R)
  BY DEF OnePerPort
<1>3. PortsOf(R) = PortsOf(H)
  BY DEF PortsOf
<1>4. ASSUME NEW h PROVE Cardinality(OfHost(R, h)) <= Cardinality(OfHost(H, h))
  <2> DEFINE A == OfHost(H, h)
             B == OfHost(R, h)
             g == [s \in A |-> f[s]]
  <2>1. IsFiniteSet(A)
    BY FS_Subset DEF OfHost
  <2>2. \A y \in B : \E s \in A : y = g[s]
    BY DEF OfHost
  <2>3. g \in [A -> B]
    BY DEF OfHost
  <2> HIDE DEF A, B, g
  <2>4. Cardinality(B) <= Cardinality(A)
    BY <2>1, <2>2, <2>3, ImageIsSmaller
  <2> QED BY <2>4 DEF A, B
<1> QED BY <1>1, <1>2, <1>3, <1>4

(* The budget, as the cardinalities it is about. *)
Room(H) == /\ Cardinality(H) <= MaxHolds
           /\ \A h \in Hosts : Cardinality(OfHost(H, h)) <= PerHost

LEMMA BudgetIsRoom == /\ BudgetKept <=> Room(holds)
                      /\ \A h : HostBudget(h) <=> Cardinality(OfHost(holds, h)) < PerHost
BY DEF BudgetKept, Room, OfHost, HostBudget

LEMMA HoldCounts ==
  ASSUME NEW H, IsFiniteSet(H)
  PROVE  /\ Cardinality(H) \in Nat
         /\ \A h : IsFiniteSet(OfHost(H, h)) /\ Cardinality(OfHost(H, h)) \in Nat
<1>1. ASSUME NEW h PROVE IsFiniteSet(OfHost(H, h))
  BY FS_Subset DEF OfHost
<1> QED BY <1>1, FS_CardinalityType

(* The same number of holds at most, on the same ports. *)
LEMMA RoomShrinks ==
  ASSUME IsFiniteSet(holds), Room(holds), NEW R, IsFiniteSet(R), Cardinality(R) <= Cardinality(holds),
         \A h : Cardinality(OfHost(R, h)) <= Cardinality(OfHost(holds, h))
  PROVE  Room(R)
BY HoldCounts, Thresholds DEF Room

LEMMA AgedHolds ==
  ASSUME TypeInv, HoldsInv, Scan \/ Age
  PROVE  /\ IsFiniteSet(holds') /\ Cardinality(holds') <= Cardinality(holds)
         /\ OnePerPort(holds') /\ PortsOf(holds') = PortsOf(holds)
         /\ \A h : Cardinality(OfHost(holds', h)) <= Cardinality(OfHost(holds, h))
<1>1. IsFiniteSet(holds) /\ OnePerPort(holds) /\ holds \subseteq HoldType
  BY DEF HoldsInv, OnePerPort, TypeInv, TypeOK
<1>2. CASE Scan
  <2>1. PICK live \in {flows, {}}, heard \in SUBSET PortsOf(holds) :
          holds' = {Scanned(s, live, heard) : s \in holds}
    BY <1>2 DEF Scan
  <2> DEFINE f == [s \in holds |-> Scanned(s, live, heard)]
  <2>2. \A s \in holds : f[s].port = s.port /\ f[s].host = s.host
    BY <1>1, SameHold
  <2>3. f \in [holds -> holds'] /\ \A y \in holds' : \E s \in holds : y = f[s]
    BY <2>1
  <2> HIDE DEF f
  <2> QED BY <1>1, <2>2, <2>3, Rewritten
<1>3. CASE Age
  <2>1. PICK active \in SUBSET (PortsOf(eng.live) \cup PortsOf(holds)),
             absent \in SUBSET Hosts, probed \in SUBSET Hosts :
          holds' = {Older(s, active, absent, probed) : s \in holds}
    BY <1>3 DEF Age
  <2> DEFINE f == [s \in holds |-> Older(s, active, absent, probed)]
  <2>2. \A s \in holds : f[s].port = s.port /\ f[s].host = s.host
    BY <1>1, SameHold
  <2>3. f \in [holds -> holds'] /\ \A y \in holds' : \E s \in holds : y = f[s]
    BY <2>1
  <2> HIDE DEF f
  <2> QED BY <1>1, <2>2, <2>3, Rewritten
<1> QED BY <1>2, <1>3

-----------------------------------------------------------------------------
(* What the facade and the network do to sockets is no hold's affair.      *)
LEMMA OtherSockets ==
  ASSUME HoldsInv, RoomInv, UNCHANGED <<holds, pins, eng>>,
         \A p \in Ports : sock'[p] = "hold" <=> sock[p] = "hold", TypeInv
  PROVE  HoldsInv' /\ RoomInv'
BY PortsOfFlows DEF HoldsInv, RoomInv, Claiming, EngAt, PortsOf, BudgetKept, HostBudget, TypeInv, TypeOK

LEMMA TickHolds == ASSUME TypeInv, HoldsInv, RoomInv, EngineStep PROVE HoldsInv' /\ RoomInv'
<1> USE Thresholds, PortsOfFlows
<1>0. /\ eng \in EngType /\ holds \subseteq HoldType /\ sock \in [Ports -> {"free", "slot", "dying", "hold", "closing"}]
      /\ Claiming \/ EngAt("unaccept") => eng.flow \in Flow
  BY DEF TypeInv, TypeOK
<1>1. CASE Begin \/ EndTick
  <2>1. eng'.at \in {"idle", "scan"} /\ eng.at \in {"idle", "release"}
        /\ UNCHANGED <<holds, pins, sock>>
    <3>1. CASE Begin
      BY <3>1, NobodyIsNoFlow DEF Begin, Tick, EngAt, Resting
    <3>2. CASE EndTick
      BY <3>2, NobodyIsNoFlow DEF EndTick, Tick, EngAt
    <3> QED BY <1>1, <3>1, <3>2
  <2> QED BY <2>1 DEF HoldsInv, RoomInv, Claiming, EngAt, PortsOf, BudgetKept, HostBudget
<1>2. CASE Scan \/ Age
  <2>1. eng'.at \in {"claim", "release"} /\ eng.at \in {"scan", "claim"} /\ UNCHANGED <<pins, sock>>
    BY <1>0, <1>2 DEF Scan, Age, Tick, EngAt, EngType
  <2>2. HoldsInv'
    <3>1. \A s \in holds' : \E t \in holds : s.port = t.port
      BY <1>2, AgedHolds DEF PortsOf
    <3> QED BY <1>2, <2>1, <3>1, AgedHolds DEF HoldsInv, Claiming, EngAt, OnePerPort
  <2>3. RoomInv'
    <3>1. Room(holds')
      BY <1>2, AgedHolds, RoomShrinks, BudgetIsRoom DEF HoldsInv, RoomInv
    <3> QED BY <2>1, <3>1 DEF RoomInv, Claiming, BudgetKept, Room, OfHost
  <2> QED BY <2>2, <2>3
<1>3. ASSUME NEW c \in eng.todo, Pass(c) PROVE HoldsInv' /\ RoomInv'
  <2>1. eng'.at = "claim" /\ eng.at = "claim" /\ UNCHANGED <<holds, pins, sock>>
    BY <1>0, <1>3, NextClaimIs DEF Pass, Tick, EngAt
  <2> QED BY <2>1 DEF HoldsInv, RoomInv, Claiming, EngAt, PortsOf, BudgetKept, HostBudget
<1>4. ASSUME NEW c \in eng.todo, Bind(c) PROVE HoldsInv' /\ RoomInv'
  <2>1. /\ eng'.at = "pin" /\ eng'.flow = c /\ eng.at = "claim" /\ UNCHANGED <<holds, pins>>
        /\ c \in Flow /\ sock' = [sock EXCEPT ![c.port] = "hold"]
    BY <1>0, <1>4 DEF Bind, Tick, EngAt, EngType
  <2>2. c.port \notin PortsOf(holds) /\ HostBudget(c.host) /\ Cardinality(holds) < MaxHolds
    BY <1>4 DEF Bind, Claimable, ClaimAllowed
  <2>3. HoldsInv'
    <3>1. \A s \in holds : s.port \in PortsOf(holds) /\ s.port # c.port
      BY <2>2 DEF PortsOf
    <3> QED BY <1>0, <2>1, <2>2, <3>1 DEF HoldsInv, Claiming, EngAt, PortsOf
  <2>4. RoomInv'
    BY <2>1, <2>2 DEF RoomInv, Claiming, BudgetKept, HostBudget
  <2> QED BY <2>3, <2>4
<1>5. CASE Pin
  <2>1. /\ eng.at = "pin" /\ eng.flow \in Flow /\ UNCHANGED holds
        /\ \/ /\ pins' = pins \cup {eng.flow.port} /\ UNCHANGED sock
              /\ eng'.at = "accept" /\ eng'.flow = eng.flow
           \/ /\ pins' = pins \ {eng.flow.port} /\ sock' = [sock EXCEPT ![eng.flow.port] = "free"]
              /\ eng'.at = "claim"
    BY <1>0, <1>5, NextClaimIs DEF Pin, Tick, EngAt, EngType, Claiming
  <2>2. eng.flow.port \notin PortsOf(holds) /\ \A s \in holds : s.port # eng.flow.port
    BY <2>1 DEF HoldsInv, Claiming, PortsOf
  <2>3. HoldsInv'
    BY <1>0, <2>1, <2>2 DEF HoldsInv, Claiming, EngAt, PortsOf
  <2>4. RoomInv'
    BY <2>1 DEF RoomInv, Claiming, BudgetKept, HostBudget
  <2> QED BY <2>3, <2>4
<1>6. CASE Accept
  <2> DEFINE o == ObsSlot(eng.flow)
  <2>1. eng.at = "accept" /\ eng.flow \in Flow /\ eng'.at = "claim"
    BY <1>0, <1>6, NextClaimIs DEF Accept, Tick, EngAt, Claiming
  <2>2. eng.flow.port \notin PortsOf(holds) /\ \A s \in holds : s.port # eng.flow.port
    BY <2>1 DEF HoldsInv, Claiming, PortsOf
  <2>3. o.port = eng.flow.port /\ o.host = eng.flow.host
    BY DEF ObsSlot
  <2>4. Cardinality(holds) < MaxHolds /\ Cardinality(OfHost(holds, eng.flow.host)) < PerHost
        /\ Room(holds) /\ IsFiniteSet(holds)
    BY <2>1, BudgetIsRoom DEF RoomInv, HoldsInv, Claiming
  <2> HIDE DEF o
  <2>5. CASE holds' = holds \cup {o} /\ UNCHANGED <<pins, sock>>
    <3>1. IsFiniteSet(holds') /\ PortsOf(holds') = PortsOf(holds) \cup {eng.flow.port}
      BY <2>3, <2>4, <2>5, FS_AddElement DEF PortsOf
    <3>2. HoldsInv'
      <4>1. \A s, t \in holds' : s.port = t.port => s = t
        BY <2>2, <2>3, <2>5 DEF HoldsInv
      <4>2. \A s \in holds' : sock'[s.port] = "hold"
        BY <2>1, <2>3, <2>5 DEF HoldsInv, Claiming
      <4>3. \A p \in Ports : sock'[p] = "hold" => p \in PortsOf(holds')
        BY <2>1, <2>5, <3>1 DEF HoldsInv, Claiming
      <4>4. pins' = PortsOf(holds')
        BY <2>1, <2>5, <3>1 DEF HoldsInv, EngAt
      <4> QED BY <2>1, <3>1, <4>1, <4>2, <4>3, <4>4 DEF HoldsInv, Claiming, EngAt
    <3>3. Cardinality(holds') <= MaxHolds
      <4>1. Cardinality(holds) \in Nat /\ Cardinality(holds') \in Nat
        BY <2>4, <3>1, HoldCounts
      <4>2. Cardinality(holds \cup {o})
              = IF o \in holds THEN Cardinality(holds) ELSE Cardinality(holds) + 1
        BY <2>4, FS_AddElement
      <4>3. Cardinality(holds') = Cardinality(holds) \/ Cardinality(holds') = Cardinality(holds) + 1
        BY <2>5, <4>2
      <4> QED BY <2>4, <4>1, <4>3
    <3>4. \A h \in Hosts : Cardinality(OfHost(holds', h)) <= PerHost
      <4> SUFFICES ASSUME NEW h \in Hosts PROVE Cardinality(OfHost(holds', h)) <= PerHost
        OBVIOUS
      <4>1. CASE h = eng.flow.host
        <5>1. OfHost(holds', h) = OfHost(holds, h) \cup {o}
          BY <2>3, <2>5, <4>1 DEF OfHost
        <5>2. IsFiniteSet(OfHost(holds, h)) /\ Cardinality(OfHost(holds, h)) \in Nat
          BY <2>4, HoldCounts
        <5>3. Cardinality(OfHost(holds', h)) <= Cardinality(OfHost(holds, h)) + 1
              /\ Cardinality(OfHost(holds', h)) \in Nat
          <6>1. Cardinality(OfHost(holds, h) \cup {o})
                  = IF o \in OfHost(holds, h) THEN Cardinality(OfHost(holds, h))
                    ELSE Cardinality(OfHost(holds, h)) + 1
            BY <5>2, FS_AddElement
          <6> QED BY <5>1, <5>2, <6>1
        <5> QED BY <2>4, <4>1, <5>2, <5>3
      <4>2. CASE h # eng.flow.host
        <5>1. OfHost(holds', h) = OfHost(holds, h)
          BY <2>3, <2>5, <4>2 DEF OfHost
        <5> QED BY <2>4, <5>1 DEF Room
      <4> QED BY <4>1, <4>2
    <3>5. RoomInv'
      BY <2>1, <3>3, <3>4 DEF RoomInv, Claiming, BudgetKept, OfHost
    <3> QED BY <3>2, <3>5
  <2>6. CASE /\ pins' = pins \ {eng.flow.port} /\ sock' = [sock EXCEPT ![eng.flow.port] = "free"]
             /\ UNCHANGED holds
    <3>1. HoldsInv'
      BY <1>0, <2>1, <2>2, <2>6 DEF HoldsInv, Claiming, EngAt, PortsOf
    <3>2. RoomInv'
      BY <2>1, <2>6 DEF RoomInv, Claiming, BudgetKept
    <3> QED BY <3>1, <3>2
  <2> QED BY <1>6, <2>5, <2>6 DEF Accept, o
<1>7. ASSUME NEW s \in holds, Release(s) PROVE HoldsInv' /\ RoomInv'
  <2>1. /\ eng.at = "release" /\ eng'.at = "unaccept" /\ holds' = holds \ {s}
        /\ sock' = [sock EXCEPT ![s.port] = "closing"] /\ pins' = pins \ {s.port}
    BY <1>0, <1>7 DEF Release, Tick, EngAt, EngType
  <2>2. PortsOf(holds') = PortsOf(holds) \ {s.port} /\ s \in HoldType
    BY <1>0, <2>1 DEF HoldsInv, PortsOf
  <2>3. IsFiniteSet(holds') /\ Cardinality(holds') <= Cardinality(holds)
        /\ \A h : Cardinality(OfHost(holds', h)) <= Cardinality(OfHost(holds, h))
    <3>1. IsFiniteSet(holds) /\ \A h : IsFiniteSet(OfHost(holds, h))
      BY HoldCounts DEF HoldsInv
    <3>2. \A h : OfHost(holds', h) \subseteq OfHost(holds, h)
      BY <2>1 DEF OfHost
    <3> QED BY <2>1, <3>1, <3>2, FS_Subset
  <2>4. HoldsInv'
    BY <1>0, <2>1, <2>2, <2>3 DEF HoldsInv, Claiming, EngAt
  <2>5. RoomInv'
    <3>1. Room(holds')
      BY <2>3, RoomShrinks, BudgetIsRoom DEF HoldsInv, RoomInv
    <3> QED BY <2>1, <3>1 DEF RoomInv, Claiming, BudgetKept, Room, OfHost
  <2> QED BY <2>4, <2>5
<1>8. CASE Unaccept
  <2>1. eng'.at = "release" /\ eng.at = "unaccept" /\ UNCHANGED <<holds, pins, sock>>
    BY <1>0, <1>8 DEF Unaccept, Tick, EngAt, EngType
  <2> QED BY <2>1 DEF HoldsInv, RoomInv, Claiming, EngAt, PortsOf, BudgetKept, HostBudget
<1> QED BY <1>1, <1>2, <1>3, <1>4, <1>5, <1>6, <1>7, <1>8 DEF EngineStep

LEMMA FacadeHolds ==
  ASSUME TypeInv, HoldsInv, RoomInv, FacadeStep PROVE HoldsInv' /\ RoomInv'
<1>1. sock \in [Ports -> {"free", "slot", "dying", "hold", "closing"}] /\ UNCHANGED <<holds, pins, eng>>
  BY DEF TypeInv, TypeOK, FacadeStep, Probe, Upsert, Datapath, BindSlot, Undo, Delete, Revoke,
         Abort, Move, Rebind, Redirect
<1>2. CASE BindSlot \/ Rebind
  <2>1. job.port \in Ports
    BY <1>2 DEF BindSlot, Rebind, TypeInv, Raising, JobAt
  <2>2. \A p \in Ports : sock'[p] = "hold" <=> sock[p] = "hold"
    BY <1>1, <1>2, <2>1 DEF BindSlot, Rebind
  <2> QED BY <1>1, <2>2, OtherSockets
<1>3. CASE Abort
  <2>1. \A p \in Ports : sock'[p] = "hold" <=> sock[p] = "hold"
    BY <1>1, <1>3 DEF Abort
  <2> QED BY <1>1, <2>1, OtherSockets
<1>4. CASE ~(BindSlot \/ Rebind \/ Abort)
  <2>1. UNCHANGED sock
    BY <1>4 DEF FacadeStep, Probe, Upsert, Datapath, Undo, Delete, Revoke, Move, Redirect
  <2> QED BY <1>1, <2>1, OtherSockets
<1> QED BY <1>2, <1>3, <1>4

Elsewhere == \/ \E p \in Ports : Close(p) \/ \E h \in Hosts : FlowStarts(p, h)
             \/ \E c \in flows : FlowEnds(c)

LEMMA EnvironmentHolds ==
  ASSUME TypeInv, HoldsInv, RoomInv, Elsewhere PROVE HoldsInv' /\ RoomInv'
<1>1. UNCHANGED <<holds, pins, eng>> /\ \A p \in Ports : sock'[p] = "hold" <=> sock[p] = "hold"
  BY DEF Elsewhere, Close, FlowStarts, FlowEnds, TypeInv, TypeOK
<1> QED BY <1>1, OtherSockets

-----------------------------------------------------------------------------
(* The slots: the engine leaves their sockets, rows and jobs alone. *)
LEMMA TickLeavesSlots ==
  ASSUME TypeInv, HoldsInv, EngineStep
  PROVE  UNCHANGED <<job, table, flows, crossed>>
         /\ \A p \in Ports : sock'[p] = "slot" <=> sock[p] = "slot"
<1>1. UNCHANGED <<job, table, flows, crossed>>
  BY DEF EngineStep, Begin, Scan, Pin, Accept, Age, Unaccept, EndTick, Pass, Bind, Release
<1>2. sock \in [Ports -> {"free", "slot", "dying", "hold", "closing"}]
  BY DEF TypeInv, TypeOK
<1>3. CASE Pin \/ Accept
  <2>1. sock[eng.flow.port] = "hold"
    BY <1>3 DEF Pin, Accept, HoldsInv, Claiming, EngAt
  <2> QED BY <1>1, <1>2, <1>3, <2>1 DEF Pin, Accept
<1>4. ASSUME NEW c \in eng.todo, Bind(c)
      PROVE  \A p \in Ports : sock'[p] = "slot" <=> sock[p] = "slot"
  BY <1>2, <1>4 DEF Bind
<1>5. ASSUME NEW s \in holds, Release(s)
      PROVE  \A p \in Ports : sock'[p] = "slot" <=> sock[p] = "slot"
  <2>1. sock[s.port] = "hold"
    BY DEF HoldsInv
  <2> QED BY <1>2, <1>5, <2>1 DEF Release
<1>6. CASE Begin \/ Scan \/ Age \/ Unaccept \/ EndTick \/ \E c \in eng.todo : Pass(c)
  <2>1. UNCHANGED sock
    BY <1>6 DEF Begin, Scan, Age, Unaccept, EndTick, Pass
  <2> QED BY <1>1, <2>1
<1> QED BY <1>1, <1>3, <1>4, <1>5, <1>6 DEF EngineStep

LEMMA TickSlots == ASSUME TypeInv, HoldsInv, SlotsInv, EngineStep PROVE SlotsInv'
<1>1. Raising \/ JobAt("redirect") => job.port \in Ports
  BY DEF TypeInv
<1>2. Lowering => job.old \in Ports
  BY DEF TypeInv
<1> QED BY <1>1, <1>2, TickLeavesSlots DEF SlotsInv, Raising, Lowering, JobAt

LEMMA FacadeSlots == ASSUME TypeInv, SlotsInv, FacadeStep PROVE SlotsInv'
<1> USE NobodyIsNoFlow DEF SlotsInv, Raising, Lowering, JobAt, Goto
<1>1. /\ sock \in [Ports -> {"free", "slot", "dying", "hold", "closing"}] /\ job \in JobType
      /\ table \subseteq Ports
      /\ Raising \/ JobAt("redirect") => job.port \in Ports
      /\ Lowering => job.old \in Ports
  BY DEF TypeInv, TypeOK
<1>2. ASSUME NEW next \in {"upsert", "move"}, Probe(next) PROVE SlotsInv'
  <2>1. job.at = "idle" /\ job'.at = next /\ UNCHANGED <<table, sock>>
    BY <1>1, <1>2 DEF Probe, JobType
  <2> QED BY <2>1
<1>3. CASE Upsert
  BY <1>1, <1>3 DEF Upsert, JobType
<1>4. CASE Datapath \/ Undo
  BY <1>1, <1>4 DEF Datapath, Undo, JobType
<1>5. CASE BindSlot
  BY <1>1, <1>5 DEF BindSlot, JobType
<1>6. ASSUME NEW p \in table, Delete(p) PROVE SlotsInv'
  BY <1>1, <1>6 DEF Delete, NoJob
<1>7. CASE Revoke \/ Redirect
  BY <1>1, <1>7 DEF Revoke, Redirect, JobType
<1>8. CASE Abort
  BY <1>1, <1>8 DEF Abort, JobType
<1>9. CASE Move
  BY <1>1, <1>9 DEF Move, JobType
<1>10. CASE Rebind
  BY <1>1, <1>10 DEF Rebind, JobType
<1> QED BY <1>2, <1>3, <1>4, <1>5, <1>6, <1>7, <1>8, <1>9, <1>10 DEF FacadeStep

LEMMA EnvironmentSlots == ASSUME TypeInv, SlotsInv, Elsewhere PROVE SlotsInv'
<1>1. UNCHANGED <<job, table>> /\ \A p \in Ports : sock'[p] = "slot" <=> sock[p] = "slot"
  BY DEF Elsewhere, Close, FlowStarts, FlowEnds, TypeInv, TypeOK
<1>2. (Raising \/ JobAt("redirect") => job.port \in Ports) /\ (Lowering => job.old \in Ports)
  BY DEF TypeInv
<1> QED BY <1>1, <1>2 DEF SlotsInv, Raising, Lowering, JobAt

-----------------------------------------------------------------------------
(* The accept set through the engine's tick. *)
LEMMA TickAccepted ==
  ASSUME TypeInv, HoldsInv, SlotsInv, AcceptedInv, EngineStep PROVE AcceptedInv'
<1> USE DEF EngAt
<1>1. /\ sock \in [Ports -> {"free", "slot", "dying", "hold", "closing"}]
      /\ eng \in EngType /\ accepted \subseteq Ports /\ holds \subseteq HoldType
      /\ Claiming \/ EngAt("unaccept") => eng.flow \in Flow
      /\ Lowering => job.old \in Ports
  BY DEF TypeInv, TypeOK
<1>2. UNCHANGED <<job, table, flows, crossed>>
      /\ \A p \in Ports : sock'[p] = "slot" <=> sock[p] = "slot"
  BY TickLeavesSlots
<1>3. ASSUME UNCHANGED accepted, PortsOf(holds) \subseteq PortsOf(holds'), eng.at # "unaccept"
      PROVE  AcceptedInv'
  BY <1>1, <1>2, <1>3 DEF AcceptedInv, JobAt
<1>4. CASE Begin \/ EndTick \/ Pin \/ \E c \in eng.todo : Pass(c) \/ Bind(c)
  <2>1. UNCHANGED <<accepted, holds>> /\ eng.at # "unaccept"
    BY <1>4 DEF Begin, EndTick, Pin, Pass, Bind
  <2> QED BY <1>3, <2>1 DEF PortsOf
<1>5. CASE Scan \/ Age
  <2>1. UNCHANGED accepted /\ eng.at # "unaccept"
    BY <1>5 DEF Scan, Age
  <2> QED BY <1>3, <1>5, <2>1, AgedHolds
<1>6. CASE Accept
  <2>1. eng.at = "accept" /\ eng.flow \in Flow /\ sock[eng.flow.port] = "hold"
    BY <1>1, <1>6 DEF Accept, HoldsInv, Claiming
  <2>2. CASE accepted' = accepted \cup {eng.flow.port} /\ holds' = holds \cup {ObsSlot(eng.flow)}
    <3>1. PortsOf(holds') = PortsOf(holds) \cup {eng.flow.port}
      <4> DEFINE o == ObsSlot(eng.flow)
      <4>1. o.port = eng.flow.port
        BY DEF ObsSlot
      <4> HIDE DEF o
      <4>2. holds' = holds \cup {o}
        BY <2>2 DEF o
      <4> QED BY <4>1, <4>2 DEF PortsOf
    <3>2. JobAt("abort") => job.old # eng.flow.port
      BY <2>1 DEF SlotsInv, Lowering, JobAt
    <3> QED BY <1>1, <1>2, <2>1, <2>2, <3>1, <3>2 DEF AcceptedInv, JobAt
  <2>3. CASE UNCHANGED <<accepted, holds>>
    BY <1>3, <2>1, <2>3 DEF PortsOf
  <2> QED BY <1>6, <2>2, <2>3 DEF Accept
<1>7. ASSUME NEW s \in holds, Release(s) PROVE AcceptedInv'
  <2>1. /\ eng.at = "release" /\ holds' = holds \ {s} /\ UNCHANGED accepted
        /\ eng'.at = "unaccept" /\ eng'.flow.port = s.port
    BY <1>1, <1>7 DEF Release, Tick, EngType
  <2>2. PortsOf(holds) \subseteq PortsOf(holds') \cup {s.port}
    BY <2>1 DEF PortsOf
  <2> QED BY <1>1, <1>2, <2>1, <2>2 DEF AcceptedInv, JobAt
<1>8. CASE Unaccept
  <2>1. accepted' = accepted \ {eng.flow.port} /\ UNCHANGED holds
    BY <1>8 DEF Unaccept
  <2> QED BY <1>1, <1>2, <2>1 DEF AcceptedInv, JobAt, PortsOf
<1> QED BY <1>4, <1>5, <1>6, <1>7, <1>8 DEF EngineStep

(* ... and through the facade. *)
LEMMA FacadeAccepted ==
  ASSUME TypeInv, SlotsInv, AcceptedInv, FacadeStep PROVE AcceptedInv'
<1> USE NobodyIsNoFlow DEF AcceptedInv, JobAt, Goto, EngAt
<1>1. /\ sock \in [Ports -> {"free", "slot", "dying", "hold", "closing"}] /\ job \in JobType
      /\ accepted \subseteq Ports /\ UNCHANGED <<holds, eng>> /\ PortsOf(holds') = PortsOf(holds)
      /\ Raising \/ JobAt("redirect") => job.port \in Ports
      /\ Lowering => job.old \in Ports
  <2>1. UNCHANGED <<holds, eng>>
    BY DEF FacadeStep, Probe, Upsert, Datapath, BindSlot, Undo, Delete, Revoke, Abort, Move,
           Rebind, Redirect
  <2> QED BY <2>1 DEF TypeInv, TypeOK, PortsOf
<1>2. ASSUME UNCHANGED <<accepted, sock>>, job.at # "bind", job'.at # "abort"
      PROVE  AcceptedInv'
  BY <1>1, <1>2
<1>3. ASSUME NEW next \in {"upsert", "move"}, Probe(next) PROVE AcceptedInv'
  <2>1. job.at = "idle" /\ job'.at = next /\ UNCHANGED <<accepted, sock>>
    BY <1>1, <1>3 DEF Probe, JobType
  <2> HIDE DEF AcceptedInv
  <2> QED BY <1>2, <2>1
<1>4. CASE Upsert \/ Undo \/ Move
  <2>1. UNCHANGED <<accepted, sock>> /\ job.at # "bind"
    BY <1>4 DEF Upsert, Undo, Move
  <2>2. job'.at # "abort"
    <3>1. CASE Upsert
      BY <1>1, <3>1 DEF Upsert, JobType
    <3>2. CASE Undo
      BY <3>2 DEF Undo
    <3>3. CASE Move
      BY <3>3 DEF Move
    <3> QED BY <1>4, <3>1, <3>2, <3>3
  <2> HIDE DEF AcceptedInv
  <2> QED BY <1>2, <2>1, <2>2
<1>5. ASSUME NEW p \in table, Delete(p) PROVE AcceptedInv'
  BY <1>1, <1>2, <1>5 DEF Delete
<1>6. CASE Datapath
  BY <1>1, <1>6 DEF Datapath, JobType
<1>7. CASE BindSlot
  BY <1>1, <1>7 DEF BindSlot, JobType, Raising
<1>8. CASE Revoke
  BY <1>1, <1>8 DEF Revoke, JobType
<1>9. CASE Abort
  BY <1>1, <1>9 DEF Abort, Lowering
<1>10. CASE Rebind
  BY <1>1, <1>10 DEF Rebind, JobType, Raising
<1>11. CASE Redirect
  BY <1>1, <1>11 DEF Redirect, JobType, SlotsInv
<1> QED BY <1>3, <1>4, <1>5, <1>6, <1>7, <1>8, <1>9, <1>10, <1>11 DEF FacadeStep

LEMMA EnvironmentAccepted == ASSUME TypeInv, AcceptedInv, Elsewhere PROVE AcceptedInv'
<1>1. /\ UNCHANGED <<job, eng, holds, accepted>> /\ PortsOf(holds') = PortsOf(holds)
      /\ \A p \in Ports : sock'[p] = "slot" <=> sock[p] = "slot"
  <2>1. UNCHANGED <<job, eng, holds, accepted>>
    BY DEF Elsewhere, Close, FlowStarts, FlowEnds
  <2>2. \A p \in Ports : sock'[p] = "slot" <=> sock[p] = "slot"
    BY DEF Elsewhere, Close, FlowStarts, FlowEnds, TypeInv, TypeOK
  <2> QED BY <2>1, <2>2 DEF PortsOf
<1>2. accepted \subseteq Ports
  BY DEF TypeInv, TypeOK
<1> QED BY <1>1, <1>2 DEF AcceptedInv, JobAt, EngAt

-----------------------------------------------------------------------------
(* Uncrossed, the engine keeps off the port the facade is bringing up ...  *)
LEMMA TickUncrossed ==
  ASSUME TypeInv, HoldsInv, UncrossedInv, EngineStep PROVE UncrossedInv'
<1> SUFFICES ASSUME ~crossed' PROVE UncrossedInv'
  BY DEF UncrossedInv
<1> USE NobodyIsNoFlow DEF EngAt
<1>1. /\ sock \in [Ports -> {"free", "slot", "dying", "hold", "closing"}]
      /\ eng \in EngType /\ accepted \subseteq Ports /\ holds \subseteq HoldType
      /\ eng.todo \subseteq eng.live /\ flows \subseteq Flow
      /\ Claiming \/ EngAt("unaccept") => eng.flow \in Flow
      /\ ~(Claiming \/ EngAt("unaccept")) => eng.flow = Nobody
      /\ Raising \/ JobAt("redirect") => job.port \in Ports
      /\ Lowering => job.old \in Ports
  BY DEF TypeInv, TypeOK
<1>2. UNCHANGED <<job, table, flows, crossed>> /\ ~crossed
      /\ \A p \in Ports : sock'[p] = "slot" <=> sock[p] = "slot"
  BY TickLeavesSlots
<1>3. ASSUME UNCHANGED <<accepted, sock>>, eng.at \notin {"pin", "accept", "unaccept"},
             eng'.at \notin {"pin", "accept", "unaccept"}, eng'.flow = Nobody,
             eng'.live \subseteq eng.live \cup flows
      PROVE  UncrossedInv'
  <2>1. PortsOf(eng'.live) \subseteq PortsOf(eng.live) \cup PortsOf(flows)
    BY <1>3 DEF PortsOf
  <2> QED BY <1>1, <1>2, <1>3, <2>1 DEF UncrossedInv, Raising, JobAt, Claiming, PortsOf
<1>4. CASE Begin
  BY <1>3, <1>4 DEF Begin, Tick, Resting
<1>5. CASE Scan
  <2>1. PICK live \in {flows, {}} : eng' = [eng EXCEPT !.at = "claim", !.live = live, !.todo = live]
    BY <1>5 DEF Scan, Tick
  <2>2. eng.at = "scan" /\ UNCHANGED <<accepted, sock>> /\ eng.flow = Nobody
    BY <1>1, <1>5 DEF Scan, Claiming
  <2>3. eng'.at = "claim" /\ eng'.live = live /\ eng'.flow = Nobody
    BY <1>1, <2>1, <2>2 DEF EngType
  <2> QED BY <1>3, <2>2, <2>3
<1>6. ASSUME NEW c \in eng.todo, Pass(c) PROVE UncrossedInv'
  BY <1>1, <1>3, <1>6, NextClaimIs DEF Pass, Tick
<1>7. ASSUME NEW c \in eng.todo, Bind(c) PROVE UncrossedInv'
  <2>1. /\ eng.at = "claim" /\ sock[c.port] = "free" /\ sock' = [sock EXCEPT ![c.port] = "hold"]
        /\ UNCHANGED accepted
    BY <1>7 DEF Bind
  <2>3. c \in Flow /\ c.port \in Ports /\ c \in eng.live
    BY <1>1, PortsOfFlows DEF EngType
  <2>4. c.port \in PortsOf(eng.live)
    BY <2>3 DEF PortsOf
  <2>2. eng'.at = "pin" /\ eng'.flow = c /\ eng'.live = eng.live
    BY <1>1, <1>7 DEF Bind, Tick, EngType
  <2> QED BY <1>1, <1>2, <2>1, <2>2, <2>3, <2>4 DEF UncrossedInv, Raising, JobAt, Claiming, PortsOf
<1>8. CASE Pin
  <2>1. eng.at = "pin" /\ eng.flow \in Flow /\ eng.flow.port \in Ports
    BY <1>1, <1>8, PortsOfFlows DEF Pin, Claiming
  <2>2. \/ /\ eng'.at = "accept" /\ eng'.flow = eng.flow /\ eng'.live = eng.live
           /\ UNCHANGED <<accepted, sock>>
        \/ /\ eng'.at = "claim" /\ eng'.flow = Nobody /\ eng'.live = eng.live
           /\ UNCHANGED accepted /\ sock' = [sock EXCEPT ![eng.flow.port] = "free"]
    BY <1>1, <1>8, NextClaimIs DEF Pin, Tick, EngType
  <2> QED BY <1>1, <1>2, <2>1, <2>2 DEF UncrossedInv, Raising, JobAt, Claiming, PortsOf
<1>9. CASE Accept
  <2>1. eng.at = "accept" /\ eng.flow \in Flow /\ eng.flow.port \in Ports
    BY <1>1, <1>9, PortsOfFlows DEF Accept, Claiming
  <2>2. eng'.at = "claim" /\ eng'.flow = Nobody /\ eng'.live = eng.live
    BY <1>1, <1>9, NextClaimIs DEF Accept, Tick
  <2>3. \/ accepted' = accepted \cup {eng.flow.port} /\ UNCHANGED sock
        \/ UNCHANGED accepted /\ sock' = [sock EXCEPT ![eng.flow.port] = "free"]
    BY <1>9 DEF Accept
  <2> QED BY <1>1, <1>2, <2>1, <2>2, <2>3 DEF UncrossedInv, Raising, JobAt, Claiming, PortsOf
<1>10. CASE Age
  <2>1. eng.at = "claim" /\ eng.flow = Nobody /\ UNCHANGED <<accepted, sock>>
    BY <1>1, <1>10 DEF Age, Claiming
  <2>2. eng'.at = "release" /\ eng'.flow = Nobody /\ eng'.live = {}
    BY <1>1, <1>10, <2>1 DEF Age, Tick, EngType
  <2> QED BY <1>3, <2>1, <2>2
<1>11. ASSUME NEW s \in holds, Release(s) PROVE UncrossedInv'
  <2>1. /\ eng.at = "release" /\ UNCHANGED accepted /\ sock' = [sock EXCEPT ![s.port] = "closing"]
        /\ sock[s.port] = "hold" /\ s.port \in Ports
    BY <1>1, <1>11, PortsOfFlows DEF Release, HoldsInv
  <2>2. eng'.at = "unaccept" /\ eng'.flow.port = s.port /\ eng'.live = eng.live
    BY <1>1, <1>11 DEF Release, Tick, EngType
  <2> QED BY <1>1, <1>2, <2>1, <2>2 DEF UncrossedInv, Raising, JobAt, Claiming, PortsOf
<1>12. CASE Unaccept
  <2>1. /\ eng.at = "unaccept" /\ eng.flow \in Flow /\ accepted' = accepted \ {eng.flow.port}
        /\ UNCHANGED sock /\ eng.flow # Nobody
    BY <1>1, <1>12 DEF Unaccept
  <2>2. eng'.at = "release" /\ eng'.flow = Nobody /\ eng'.live = eng.live
    BY <1>1, <1>12 DEF Unaccept, Tick, EngType
  <2> QED BY <1>1, <1>2, <2>1, <2>2 DEF UncrossedInv, Raising, JobAt, Claiming, PortsOf
<1>13. CASE EndTick
  <2>1. eng'.at = "idle" /\ eng'.flow = Nobody /\ eng'.live = {}
    BY <1>13 DEF EndTick, Tick, Resting
  <2> QED BY <1>3, <1>13, <2>1 DEF EndTick
<1> QED BY <1>4, <1>5, <1>6, <1>7, <1>8, <1>9, <1>10, <1>11, <1>12, <1>13 DEF EngineStep

(* ... and the facade chooses a port nobody else has.  *)
LEMMA Unclaimed ==
  ASSUME TypeInv, SlotsInv, NEW p \in Ports, ~Unseen(p), p \notin table, ~Lowering
  PROVE  /\ p \notin PortsOf(flows) \cup PortsOf(eng.live)
         /\ sock[p] \in {"free", "dying"}
         /\ eng.flow # Nobody => p # eng.flow.port
BY DEF Unseen, Mirror, SlotsInv, TypeInv, TypeOK

LEMMA FacadeUncrossed ==
  ASSUME TypeInv, SlotsInv, UncrossedInv, FacadeStep PROVE UncrossedInv'
<1> SUFFICES ASSUME ~crossed' PROVE UncrossedInv'
  BY DEF UncrossedInv
<1> USE NobodyIsNoFlow DEF EngAt, JobAt, Goto
<1>1. /\ sock \in [Ports -> {"free", "slot", "dying", "hold", "closing"}] /\ job \in JobType
      /\ accepted \subseteq Ports /\ table \subseteq Ports
      /\ Raising \/ JobAt("redirect") => job.port \in Ports
      /\ Lowering => job.old \in Ports
      /\ Claiming \/ EngAt("unaccept") => eng.flow \in Flow
      /\ ~(Claiming \/ EngAt("unaccept")) => eng.flow = Nobody
  BY DEF TypeInv, TypeOK
<1>2. UNCHANGED <<eng, flows>> /\ PortsOf(flows') = PortsOf(flows)
      /\ PortsOf(eng'.live) = PortsOf(eng.live)
  <2>1. UNCHANGED <<eng, flows>>
    BY DEF FacadeStep, Probe, Upsert, Datapath, BindSlot, Undo, Delete, Revoke, Abort, Move,
           Rebind, Redirect
  <2> QED BY <2>1 DEF PortsOf
<1>3. ~crossed
  BY DEF FacadeStep, Probe, Upsert, Datapath, BindSlot, Undo, Delete, Revoke, Abort, Move,
         Rebind, Redirect
<1> USE <1>1, <1>2, <1>3 DEF UncrossedInv, Raising, Claiming
<1>4. ASSUME NEW next \in {"upsert", "move"}, Probe(next) PROVE UncrossedInv'
  <2>1. job.at = "idle" /\ job'.at = next /\ UNCHANGED <<accepted, sock>>
    BY <1>4 DEF Probe, JobType
  <2> QED BY <2>1
<1>5. CASE Upsert
  <2>1. CASE UNCHANGED <<accepted, sock>> /\ job' = NoJob /\ job.at = "upsert"
    BY <2>1
  <2>2. ASSUME NEW p \in Ports \ (table \cup avoid), ~Unseen(p), UNCHANGED <<accepted, sock>>,
               job.at = "upsert", job' = [job EXCEPT !.at = "datapath", !.port = p]
        PROVE  UncrossedInv'
    <3>1. job'.at = "datapath" /\ job'.port = p
      BY <2>2 DEF JobType
    <3> QED BY <2>2, <3>1, Unclaimed DEF Lowering
  <2> QED BY <1>5, <2>1, <2>2 DEF Upsert
<1>6. CASE Datapath
  BY <1>6 DEF Datapath, JobType
<1>7. CASE BindSlot
  <2>1. job.at = "bind" /\ job.port \in Ports
    BY <1>7 DEF BindSlot
  <2>2. CASE sock' = [sock EXCEPT ![job.port] = "slot"] /\ job' = NoJob /\ UNCHANGED accepted
    BY <2>1, <2>2
  <2>3. CASE accepted' = accepted \ {job.port} /\ Goto("undo") /\ UNCHANGED sock
    <3>1. job'.at = "undo" /\ job'.port = job.port
      BY <2>3 DEF JobType
    <3> QED BY <2>1, <2>3, <3>1
  <2> QED BY <1>7, <2>2, <2>3 DEF BindSlot
<1>8. CASE Undo
  BY <1>8 DEF Undo, JobType
<1>9. ASSUME NEW p \in table, Delete(p) PROVE UncrossedInv'
  BY <1>9 DEF Delete, NoJob
<1>10. CASE Revoke
  BY <1>10 DEF Revoke, JobType
<1>11. CASE Abort
  <2>1. job.at = "abort" /\ job' = NoJob /\ UNCHANGED accepted
    BY <1>11 DEF Abort
  <2>2. PICK after \in {"free", "dying"} :
          sock' = [sock EXCEPT ![job.old] = IF @ = "slot" THEN after ELSE @]
    BY <1>11 DEF Abort
  <2>3. sock[job.old] = "slot" /\ job.old \in Ports
    BY <2>1 DEF SlotsInv, Lowering
  <2>4. sock' = [sock EXCEPT ![job.old] = after]
    BY <2>2, <2>3
  <2> QED BY <2>1, <2>3, <2>4
<1>12. CASE Move
  <2>1. CASE UNCHANGED <<accepted, sock>> /\ job' = NoJob /\ job.at = "move"
    BY <2>1
  <2>2. ASSUME NEW old \in table, NEW p \in Ports \ (table \cup avoid), ~Unseen(p),
               UNCHANGED <<accepted, sock>>, job.at = "move",
               job' = [at |-> "rebind", port |-> p, old |-> old]
        PROVE  UncrossedInv'
    BY <2>2, Unclaimed DEF Lowering
  <2> QED BY <1>12, <2>1, <2>2 DEF Move
<1>13. CASE Rebind
  <2>1. job.at = "rebind" /\ job.port \in Ports /\ UNCHANGED accepted
    BY <1>13 DEF Rebind
  <2>2. CASE sock' = [sock EXCEPT ![job.port] = "slot"] /\ Goto("redirect")
    <3>1. job'.at = "redirect" /\ job'.port = job.port
      BY <2>2 DEF JobType
    <3> QED BY <2>1, <2>2, <3>1
  <2>3. CASE job' = NoJob /\ UNCHANGED sock
    BY <2>1, <2>3
  <2> QED BY <1>13, <2>2, <2>3 DEF Rebind
<1>14. CASE Redirect
  BY <1>14 DEF Redirect, JobType
<1> QED BY <1>4, <1>5, <1>6, <1>7, <1>8, <1>9, <1>10, <1>11, <1>12, <1>13, <1>14 DEF FacadeStep

LEMMA EnvironmentUncrossed == ASSUME TypeInv, SlotsInv, UncrossedInv, Elsewhere PROVE UncrossedInv'
<1> SUFFICES ASSUME ~crossed' PROVE UncrossedInv'
  BY DEF UncrossedInv
<1> USE NobodyIsNoFlow DEF EngAt, JobAt
<1>1. /\ sock \in [Ports -> {"free", "slot", "dying", "hold", "closing"}]
      /\ Raising \/ JobAt("redirect") => job.port \in Ports
      /\ Claiming \/ EngAt("unaccept") => eng.flow \in Flow
      /\ \A c \in Flow : c.port \in Ports
  BY PortsOfFlows DEF TypeInv, TypeOK
<1>2. /\ UNCHANGED <<job, eng, accepted>> /\ PortsOf(eng'.live) = PortsOf(eng.live)
      /\ \A p \in Ports : sock'[p] # sock[p] => sock[p] \in {"dying", "closing"} /\ sock'[p] = "free"
  <2>1. UNCHANGED <<job, eng, accepted>>
    BY DEF Elsewhere, Close, FlowStarts, FlowEnds
  <2>2. \A p \in Ports : sock'[p] # sock[p] => sock[p] \in {"dying", "closing"} /\ sock'[p] = "free"
    BY <1>1 DEF Elsewhere, Close, FlowStarts, FlowEnds
  <2> QED BY <2>1, <2>2 DEF PortsOf
<1>3. ~crossed
  BY DEF Elsewhere, Close, FlowStarts, FlowEnds
<1>4. Raising => job.port \notin PortsOf(flows')
  <2> SUFFICES ASSUME Raising PROVE job.port \notin PortsOf(flows')
    OBVIOUS
  <2>1. job.port \notin PortsOf(flows) /\ job.port \in table /\ sock[job.port] # "slot"
    BY <1>3 DEF UncrossedInv, SlotsInv
  <2>2. ASSUME NEW p \in Ports, NEW h \in Hosts, FlowStarts(p, h) PROVE p # job.port
    BY <2>1, <2>2 DEF FlowStarts
  <2>3. CASE UNCHANGED flows
    BY <2>1, <2>3 DEF PortsOf
  <2>4. ASSUME NEW p \in Ports, NEW h \in Hosts, FlowStarts(p, h) PROVE job.port \notin PortsOf(flows')
    BY <2>1, <2>2, <2>4 DEF FlowStarts, PortsOf
  <2>5. ASSUME NEW c \in flows, FlowEnds(c) PROVE job.port \notin PortsOf(flows')
    BY <2>1, <2>5 DEF FlowEnds, PortsOf
  <2> QED BY <2>3, <2>4, <2>5 DEF Elsewhere, Close
<1> QED BY <1>1, <1>2, <1>3, <1>4 DEF UncrossedInv, Raising, Claiming

-----------------------------------------------------------------------------
LEMMA Unchanged == EInv /\ UNCHANGED vars => EInv'
BY DEF vars, EInv, TypeInv, TypeOK, HoldsInv, RoomInv, BudgetKept, HostBudget, SlotsInv, AcceptedInv,
       UncrossedInv, Raising, Lowering, Claiming, EngAt, JobAt, PortsOf

LEMMA NextEngine == EInv /\ [Next]_vars => EInv'
<1> SUFFICES ASSUME EInv, [Next]_vars PROVE EInv'
  OBVIOUS
<1> USE DEF EInv
<1>1. CASE EngineStep
  BY <1>1, TickTypes, TickHolds, TickSlots, TickAccepted, TickUncrossed
<1>2. CASE FacadeStep
  BY <1>2, FacadeTypes, FacadeHolds, FacadeSlots, FacadeAccepted, FacadeUncrossed
<1>3. CASE Elsewhere
  BY <1>3, EnvironmentTypes, EnvironmentHolds, EnvironmentSlots, EnvironmentAccepted,
     EnvironmentUncrossed DEF Elsewhere
<1>4. CASE UNCHANGED vars
  BY <1>4, Unchanged
<1> QED BY <1>1, <1>2, <1>3, <1>4 DEF Next, Elsewhere

LEMMA EngineInvariant == Spec => []EInv
<1>1. EInv /\ [Next]_vars => EInv'
  BY NextEngine
<1> QED BY InitEngine, <1>1, PTL DEF Spec

-----------------------------------------------------------------------------
(* Types, for ticks and grants in any interleaving. *)
THEOREM EngineTypes == Spec => []TypeOK
<1>1. EInv => TypeOK
  BY DEF EInv, TypeInv
<1> QED BY EngineInvariant, <1>1, PTL

(* When neither the tick of engine.rs nor a handler of upnpsvc.rs is under *)
(* way, the firewall accepts no port that has neither a slot nor a hold;   *)
(* and it accepts every slot's and hold's, unless a grant and a flow took  *)
(* one port unseen by each other.                                          *)
THEOREM AcceptedIsServed == Spec => []AcceptedMatchesServed
<1>1. EInv => AcceptedMatchesServed
  <2> SUFFICES ASSUME EInv, EngAt("idle"), JobAt("idle")
               PROVE  /\ accepted \subseteq Served
                      /\ ~crossed => Served \subseteq accepted
    BY DEF AcceptedMatchesServed
  <2>1. eng.at = "idle" /\ job.at = "idle" /\ accepted \subseteq Ports
    BY DEF EInv, TypeInv, TypeOK, EngAt, JobAt
  <2>2. ASSUME NEW p \in accepted PROVE p \in Served
    <3>1. sock[p] = "slot" \/ p \in PortsOf(holds)
      BY <2>1 DEF EInv, AcceptedInv, EngAt, JobAt
    <3>2. p \in PortsOf(holds) => sock[p] = "hold"
      BY DEF EInv, HoldsInv, PortsOf
    <3> QED BY <2>1, <3>1, <3>2 DEF Served
  <2>3. ASSUME ~crossed, NEW p \in Served PROVE p \in accepted
    BY <2>1, <2>3 DEF EInv, UncrossedInv, Served, Claiming, EngAt, JobAt
  <2> QED BY <2>2, <2>3
<1> QED BY EngineInvariant, <1>1, PTL

(* Between ticks the engine's self-pins are exactly its holds', also after *)
(* a pin or an accept was refused half way through a claim.                *)
THEOREM PinsAreHolds == Spec => []PinsMatchHolds
<1>1. EInv => PinsMatchHolds
  BY DEF EInv, HoldsInv, PinsMatchHolds, EngAt
<1> QED BY EngineInvariant, <1>1, PTL

(* claim_allowed and host_budget_ok are asked before the steps of a claim, *)
(* and the hold is pushed after them; no device ever holds more than its   *)
(* share, nor the engine more than its budget.                             *)
THEOREM BudgetIsKept == Spec => []BudgetKept
<1>1. EInv => BudgetKept
  BY DEF EInv, RoomInv
<1> QED BY EngineInvariant, <1>1, PTL
=============================================================================
