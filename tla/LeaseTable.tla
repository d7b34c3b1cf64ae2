----------------------------- MODULE LeaseTable -----------------------------
(***************************************************************************)
(* The lease table as the daemon's tasks drive it: every step is one       *)
(* critical section of the table's mutex, in the order any interleaving of *)
(* the HTTP handlers, the PCP loop, the slot tasks and the GC loop allows. *)
(* The persisted rows (leases.tsv) and the snapshots taken but not yet     *)
(* written are here too, because a respawn rebuilds the table from them.   *)
(***************************************************************************)
EXTENDS SlotTable

CONSTANTS
  Asked,          \* the keys asked for: <<protocol, internal port, client>>
  Lifetimes,      \* lifetimes a client can be granted, in seconds
  FlowReports,    \* the live-flow port sets a probe may report
  StaticConfigs,  \* the sets of static bind ports the operator may configure
  Grace,          \* gc grace, seconds
  Backstop,       \* idle backstop, seconds
  EvictGrace,     \* how long a UDP grant is silent before pressure evicts it
  MaxTime,        \* bound on the clock (model checking only)
  MaxSnaps        \* bound on the snapshots waiting to be written

ASSUME LifetimeAssumption == Lifetimes \subseteq Nat \ {0}
ASSUME WindowAssumption == Grace \in Nat /\ Backstop \in Nat /\ EvictGrace \in Nat
ASSUME StaticAssumption == \A S \in StaticConfigs : S \subseteq Ports
ASSUME BoundAssumption == MaxTime \in Nat /\ MaxSnaps \in Nat

VARIABLES
  slots,    \* the table
  avoid,    \* ports a live flow holds, as the last probe reported them
  now,      \* Epoch::now()
  moving,   \* a yield under way: {} or {[from, to]}
  victim,   \* an eviction under way: {} or {the port picked}
  disk,     \* the granted rows of leases.tsv
  snaps,    \* row sets projected from the table and not yet written
  putBack   \* history: ports a failed yield gave back since the last boot

vars == <<slots, avoid, now, moving, victim, disk, snaps, putBack>>

MoveRecord == [from: Ports, to: Ports]

(* The first boot: nothing persisted, the statics of some configuration. *)
Init == /\ \E S \in StaticConfigs : slots = {StaticSlot(p) : p \in S}
        /\ avoid = {}
        /\ now = 0
        /\ moving = {}
        /\ victim = {}
        /\ disk = {}
        /\ snaps = {}
        /\ putBack = {}

Tick == /\ now < MaxTime
        /\ now' = now + 1
        /\ UNCHANGED <<slots, avoid, moving, victim, disk, snaps, putBack>>

-----------------------------------------------------------------------------
(* Fault: ports outside the range are kept. *)
AvoidPortsUnfiltered(live) ==
  avoid' = live /\ UNCHANGED <<slots, now, moving, victim, disk, snaps, putBack>>

(* avoid_ports: the probe's report replaces the reservation; ports outside *)
(* the range are dropped.                                                  *)
AvoidPorts(live) == /\ avoid' = live \cap Ports
                    /\ UNCHANGED <<slots, now, moving, victim, disk, snaps, putBack>>

(* upsert_pcp, the key is held: new expiry and stamp, same port. *)
RefreshSlot(s, life) == [s EXCEPT !.life = life, !.exp = now + life, !.act = now]

Refresh(pr, i, c, life) ==
  /\ \E s \in slots :
       /\ HasKey(s, pr, i, c)
       /\ slots' = (slots \ {s}) \cup {RefreshSlot(s, life)}
  /\ UNCHANGED <<avoid, now, moving, victim, disk, snaps, putBack>>

(* upsert_pcp, a new key: under the quota, the table not full, and the     *)
(* lowest free port.  The refusals change nothing and are not steps.       *)
Grant(pr, i, c, life) ==
  /\ \A s \in slots : ~HasKey(s, pr, i, c)
  /\ ~OverQuota(slots, c)
  /\ ~IsFull(slots)
  /\ \E p \in Ports :
       /\ IsLowestFree(p, slots, avoid)
       /\ slots' = slots \cup {GrantSlot(p, pr, i, c, life, now)}
  /\ UNCHANGED <<avoid, now, moving, victim, disk, snaps, putBack>>

(* delete_by_bind_port: the first slot on that port, whatever its kind. *)
Delete(p) ==
  /\ \E s \in slots : s.bind = p /\ slots' = slots \ {s}
  /\ UNCHANGED <<avoid, now, moving, victim, disk, snaps, putBack>>

(* stamp_activity_if_stale: inbound traffic on the port (rate-limited to   *)
(* one stamp per 15 s) or a SOAP request of its client (not limited).      *)
Stamp(p) ==
  /\ \E s \in slots :
       /\ s.bind = p
       /\ s.act < now
       /\ slots' = (slots \ {s}) \cup {[s EXCEPT !.act = now]}
  /\ UNCHANGED <<avoid, now, moving, victim, disk, snaps, putBack>>

Gc == /\ \E s \in slots : Collectable(s, now, Grace)
      /\ slots' = {s \in slots : ~Collectable(s, now, Grace)}
      /\ UNCHANGED <<avoid, now, moving, victim, disk, snaps, putBack>>

GcIdle == /\ \E s \in slots : Idle(s, now, Backstop)
          /\ slots' = {s \in slots : ~Idle(s, now, Backstop)}
          /\ UNCHANGED <<avoid, now, moving, victim, disk, snaps, putBack>>

(* evict_candidate: a client refused for want of a slot picks the victim   *)
(* in one critical section and deletes it, by its port, in a later one.    *)
Refused(pr, i, c) == /\ \A s \in slots : ~HasKey(s, pr, i, c)
                     /\ ~OverQuota(slots, c)
                     /\ IsFull(slots) \/ FreePorts(slots, avoid) = {}

PickVictim(pr, i, c) ==
  /\ victim = {}
  /\ Refused(pr, i, c)
  /\ \E s \in Evictable(slots, now, EvictGrace, c) : victim' = {s.bind}
  /\ UNCHANGED <<slots, avoid, now, moving, disk, snaps, putBack>>

Evict ==
  \E p \in victim :
    /\ victim' = {}
    /\ \/ \E s \in slots : s.bind = p /\ slots' = slots \ {s}
       \/ p \notin PortsOf(slots) /\ UNCHANGED slots
    /\ UNCHANGED <<avoid, now, moving, disk, snaps, putBack>>

-----------------------------------------------------------------------------
(* Fault: the moved lease is left where it was, too. *)
MoveCopies(old) ==
  /\ moving = {}
  /\ avoid' = avoid \cup {old}
  /\ \E s \in slots, p \in FreePorts(slots, avoid') :
       /\ s.bind = old /\ ~IsStatic(s)
       /\ slots' = slots \cup {[s EXCEPT !.bind = p]}
       /\ moving' = {[from |-> old, to |-> p]}
  /\ UNCHANGED <<now, victim, disk, snaps, putBack>>

(* The yield of a collided port, by the one GC loop: move_bind_port        *)
(* reserves the old port and takes the lowest free one ...                 *)
Move(old) ==
  /\ moving = {}
  /\ avoid' = avoid \cup {old}
  /\ \E s \in slots :
       /\ s.bind = old
       /\ ~IsStatic(s)
       /\ \/ \E p \in Ports :
               /\ IsLowestFree(p, slots, avoid')
               /\ slots' = (slots \ {s}) \cup {[s EXCEPT !.bind = p]}
               /\ moving' = {[from |-> old, to |-> p]}
          \/ /\ FreePorts(slots, avoid') = {}
             /\ UNCHANGED <<slots, moving>>
  /\ UNCHANGED <<now, victim, disk, snaps, putBack>>

(* ... and either the new socket binds, or restore_bind_port puts the      *)
(* lease back.  Both find the lease by the port it moved to; it may have   *)
(* been deleted meanwhile.                                                 *)
MoveDone == /\ moving # {}
            /\ moving' = {}
            /\ UNCHANGED <<slots, avoid, now, victim, disk, snaps, putBack>>

MoveBack ==
  \E m \in moving :
    /\ moving' = {}
    /\ \/ \E s \in slots :
            /\ s.bind = m.to
            /\ slots' = (slots \ {s}) \cup {[s EXCEPT !.bind = m.from]}
            /\ putBack' = putBack \cup {m.from}
       \/ m.to \notin PortsOf(slots) /\ UNCHANGED <<slots, putBack>>
    /\ UNCHANGED <<avoid, now, victim, disk, snaps>>

-----------------------------------------------------------------------------
(* persist: the rows are projected under the lock and written after it is  *)
(* released, so several snapshots can be waiting and any may land last.    *)
TakeSnapshot == /\ Cardinality(snaps) < MaxSnaps
                /\ snaps' = snaps \cup {Grants(slots)}
                /\ UNCHANGED <<slots, avoid, now, moving, victim, disk, putBack>>

WriteSnapshot(rows) == /\ rows \in snaps
                       /\ disk' = rows
                       /\ snaps' = snaps \ {rows}
                       /\ UNCHANGED <<slots, avoid, now, moving, victim, putBack>>

(* A crash and the respawn: the configured statics first, then each row    *)
(* not on a static's port, re-bound where it was; the rows are written     *)
(* back.  restore() refuses rows that share a port and the daemon exits,   *)
(* so there is no step then.                                               *)
RestoredTable(S, rows) == {StaticSlot(p) : p \in S}
                            \cup {RestoredSlot(r, now) : r \in rows}

Respawn(S) ==
  LET rows == {r \in disk : r.bind \notin S}
  IN  /\ PortsDistinct(rows)
      /\ slots' = RestoredTable(S, rows)
      /\ disk' = {RestoredSlot(r, now) : r \in rows}
      /\ avoid' = {}
      /\ moving' = {}
      /\ victim' = {}
      /\ snaps' = {}
      /\ putBack' = {}
      /\ UNCHANGED now

-----------------------------------------------------------------------------
Next ==
  \/ Tick
  \/ \E live \in FlowReports : AvoidPorts(live)
  \/ \E pr \in Protos, i \in IntPorts, c \in Clients :
       /\ <<pr, i, c>> \in Asked
       /\ \/ \E life \in Lifetimes : Refresh(pr, i, c, life) \/ Grant(pr, i, c, life)
          \/ PickVictim(pr, i, c)
  \/ Evict
  \/ \E p \in Ports : Delete(p) \/ Stamp(p) \/ Move(p)
  \/ Gc
  \/ GcIdle
  \/ MoveDone
  \/ MoveBack
  \/ TakeSnapshot
  \/ \E rows \in snaps : WriteSnapshot(rows)
  \/ \E S \in StaticConfigs : Respawn(S)

Spec == Init /\ [][Next]_vars

-----------------------------------------------------------------------------
(* Every table the daemon can be serving or can come back with. *)
Tables == {slots, disk} \cup snaps

(* Types. *)
TypeOK == /\ slots \subseteq Slot
          /\ disk \subseteq Slot
          /\ snaps \subseteq SUBSET Slot
          /\ avoid \subseteq Ports
          /\ now \in Nat
          /\ moving \subseteq MoveRecord
          /\ victim \subseteq Ports
          /\ putBack \subseteq Ports

(* upsert_pcp never duplicates a (protocol, internal port, client): not    *)
(* through moves and roll-backs, and not through a respawn from a stale    *)
(* snapshot either.                                                        *)
OneSlotPerKey == \A T \in Tables : \A s, t \in Grants(T) : SameKey(s, t) => s = t

(* No client ever holds more grants than --max-maps-per-client, also after *)
(* a respawn, which restores rows without asking for the quota again.      *)
QuotaKept == \A T \in Tables, c \in Clients :
               Cardinality(OfClient(T, c)) <= MaxMapsPerClient

(* The grants never outnumber --max-slots, also after a respawn with other *)
(* statics, which restore() inserts without looking at the capacity.       *)
CapacityKept == \A T \in Tables : Cardinality(Grants(T)) <= MaxSlots

(* Two slots share a bind port only where a failed yield put a lease back  *)
(* on a port that was granted again in between.                            *)
SharedPortWasPutBack ==
  \A T \in Tables : \A s, t \in T : s.bind = t.bind => s = t \/ s.bind \in putBack

(* No lease, persisted or live, has a zero lifetime (restore()'s clamp     *)
(* would panic on one), runs longer than its lifetime from now, or was     *)
(* last seen in the future: what makes the clamp of a restore exact.       *)
LeaseBounded == \A T \in Tables : \A s \in Grants(T) :
                  1 <= s.life /\ s.act <= now /\ s.exp <= now + s.life

(* A respawn neither shortens nor renews a lease that is still running:    *)
(* the row comes back on its port with the expiry it was granted.          *)
RespawnKeepsLeases ==
  [][\A S \in StaticConfigs : Respawn(S) =>
       \A r \in disk : r.bind \notin S /\ r.exp > now =>
         \E s \in slots' : SameKey(r, s) /\ s.bind = r.bind /\ s.exp = r.exp]_vars

(* The sweeps take only what is silent: never a static, never a lease seen *)
(* within both windows, and a TCP grant only once it is long expired.      *)
SweepsTakeTheSilent ==
  [][Gc \/ GcIdle => \A s \in slots \ slots' :
       /\ ~IsStatic(s)
       /\ now > s.act + Grace \/ now > s.act + Backstop
       /\ s.proto = "tcp" => now > s.exp + Grace]_vars
=============================================================================
