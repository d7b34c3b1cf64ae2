----------------------------- MODULE SlotTable -----------------------------
(***************************************************************************)
(* The lease table of slot.rs as a value: a set of slot records and the    *)
(* operators the table's methods are built from.  The Vec the code keeps   *)
(* is a set here, because "slot order carries no meaning"; where the code  *)
(* takes the first match, a step of the modules above takes any match.     *)
(* A slot's target is its client and internal port (the daemon never       *)
(* grants anything else), so it is not kept apart from the key.            *)
(***************************************************************************)
EXTENDS Integers, FiniteSets

CONSTANTS
  Clients,           \* LAN hosts that ask for mappings
  Operator,          \* the holder of every static slot
  IntPorts,          \* internal ports the clients map
  Lo, Hi,            \* the bind-port range, --slot-range
  MaxSlots,          \* --max-slots
  MaxMapsPerClient   \* --max-maps-per-client

(* What parse_args enforces of the configuration. *)
ASSUME RangeAssumption == Lo \in Nat \ {0} /\ Hi \in Nat /\ Lo <= Hi
ASSUME LimitAssumption == MaxSlots \in Nat /\ MaxMapsPerClient \in Nat
ASSUME OperatorAssumption == Operator \notin Clients
ASSUME IntPortAssumption == IntPorts \subseteq Nat

Ports == Lo .. Hi
Protos == {"udp", "tcp"}

(* life, exp and act are seconds: the granted lifetime, the expiry and the *)
(* last-seen stamp.                                                        *)
Slot == [bind: Ports, proto: Protos, client: Clients \cup {Operator},
         int: IntPorts \cup {0}, life: Nat, exp: Nat, act: Nat]

IsStatic(s) == s.client = Operator

StaticSlot(p) == [bind |-> p, proto |-> "udp", client |-> Operator,
                  int |-> 0, life |-> 0, exp |-> 0, act |-> 0]

GrantSlot(p, pr, i, c, life, now) ==
  [bind |-> p, proto |-> pr, client |-> c, int |-> i,
   life |-> life, exp |-> now + life, act |-> now]

(* saturating_sub *)
SatSub(a, b) == IF b <= a THEN a - b ELSE 0

Grants(T) == {s \in T : ~IsStatic(s)}

(* pcp_key: a static has no key and is never addressed by one. *)
HasKey(s, pr, i, c) == /\ ~IsStatic(s)
                       /\ s.proto = pr
                       /\ s.int = i
                       /\ s.client = c

SameKey(s, t) == s.client = t.client /\ s.proto = t.proto /\ s.int = t.int

PortsOf(T) == {s.bind : s \in T}

(* Fault: the probe looks at the live flows only. *)
FreePortsUnprobed(T, avoid) == Ports \ avoid

(* Fault: the range is walked one port too far. *)
FreePortsPastEnd(T, avoid) == ((Lo .. Hi + 1) \ avoid) \ PortsOf(T)

(* find_free_bind_port: in range, held by no slot and by no live flow. *)
FreePorts(T, avoid) == (Ports \ avoid) \ PortsOf(T)

IsLowestFree(p, T, avoid) ==
  p \in FreePorts(T, avoid) /\ \A q \in FreePorts(T, avoid) : p <= q

OfClient(T, c) == {s \in T : s.client = c}

OverQuota(T, c) == Cardinality(OfClient(T, c)) >= MaxMapsPerClient

IsFull(T) == Cardinality(T) >= MaxSlots

(* Fault: the sweep forgets that a static has no expiry. *)
CollectableAnyKind(s, now, grace) ==
  now >= s.exp /\ SatSub(now, s.exp) > grace /\ s.act < SatSub(now, grace)

(* gc: expired, past its grace, and with no traffic inside the grace. *)
Collectable(s, now, grace) == /\ ~IsStatic(s)
                              /\ now >= s.exp
                              /\ SatSub(now, s.exp) > grace
                              /\ s.act < SatSub(now, grace)

(* gc_idle and evict_idle_client: a silent UDP grant. *)
Idle(s, now, window) == /\ ~IsStatic(s)
                        /\ s.proto = "udp"
                        /\ s.act < SatSub(now, window)

(* evict_idle_client: another client's longest-idle UDP grant. *)
Evictable(T, now, window, requester) ==
  LET idle == {s \in T : Idle(s, now, window) /\ s.client # requester}
  IN  {s \in idle : \A t \in idle : s.act <= t.act}

(* One row of restore(): the lease keeps its port, its expiry is clamped   *)
(* to the lifetime from now, and it counts as freshly active.              *)
Clamp(x, lo, hi) == IF x < lo THEN lo ELSE IF x > hi THEN hi ELSE x

(* Fault: the restore keeps the time left as the expiry. *)
RestoredRelative(r, now) ==
  [r EXCEPT !.exp = Clamp(SatSub(r.exp, now), 1, r.life), !.act = now]

RestoredSlot(r, now) ==
  [r EXCEPT !.exp = now + Clamp(SatSub(r.exp, now), 1, r.life), !.act = now]

(* restore() refuses a table in which two rows hold one port. *)
PortsDistinct(T) == \A s, t \in T : s.bind = t.bind => s = t
=============================================================================
