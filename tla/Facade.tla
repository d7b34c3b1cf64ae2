------------------------------- MODULE Facade -------------------------------
(***************************************************************************)
(* The facade of upnpsvc.rs as it composes the lease table, the index of   *)
(* control-plane entries, the slot tasks and their sockets, the nftables   *)
(* elements, the published tuples and the two state files.  A handler is a *)
(* job that takes one step per lock it acquires or external call it makes, *)
(* so the handlers interleave as the tokio tasks do.  One transport        *)
(* protocol (UDP); time is abstracted to a lease being stale or not.       *)
(***************************************************************************)
EXTENDS SlotTable

CONSTANTS
  Workers,    \* request handlers: the HTTP connections and the PCP loop
  Collector,  \* the one GC loop
  Serves,     \* Serves[h]: the clients whose requests the worker h handles
  StaticConfigs, \* the sets of static bind ports a configuration may name
  Scenarios,  \* [uses, requests, busy]: the kinds of job and event that occur
              \* together in a behaviour, the mappings asked for, and the bound
              \* on the jobs under way at once
  Faults      \* which external calls may fail: a grant's "nft" and "bind",
              \* a yield's "rebind" and "redirect"

ASSUME CollectorAssumption == Collector \notin Workers
ASSUME StaticsAssumption == \A S \in StaticConfigs : S \subseteq Ports
ASSUME RequestsAssumption ==
  \A s \in Scenarios :
    s.requests \subseteq [ext: Nat, owner: Clients, client: Clients, int: IntPorts]

VARIABLES
  slots,    \* the lease table: [bind, client, int, stale]
  entries,  \* the index: [ext, owner, client, int, bind]
  tasks,    \* the ports whose task handles are registered
  socks,    \* bound sockets: [port, client, int, dying]
  nft,      \* the elements of the inbound set, the inbound map, the accept set
  tuples,   \* published tuples, by port and the mapping they were learned for
  disk,     \* the rows of leases.tsv and of upnp.tsv
  job,      \* what each worker and the collector are doing
  up,       \* whether the process runs
  statics,  \* the static bind ports of the configuration in force
  refused,     \* history: a yield's batch was refused
  scene     \* the scenario of this behaviour, which never changes

vars == <<slots, entries, tasks, socks, nft, tuples, disk, job, up, statics, refused, scene>>

Jobs == Workers \cup {Collector}
NoReq == [ext |-> 0, owner |-> Operator, client |-> Operator, int |-> 0]
Idling == [at |-> "idle", kind |-> "none", req |-> NoReq, port |-> 0, old |-> 0,
           retried |-> FALSE, todo |-> {}, freed |-> {}, rows |-> {}]

FSlot(p, c, i) == [bind |-> p, client |-> c, int |-> i, stale |-> FALSE]
Sock(p, c, i) == [port |-> p, client |-> c, int |-> i, dying |-> FALSE]
Target(p, c, i) == [port |-> p, client |-> c, int |-> i]
TargetOf(s) == Target(s.bind, s.client, s.int)

Busy == {h \in Jobs : job[h].at # "idle"}
Quiet == up /\ Busy = {}

(* Move a job on, with the fields that change; a finished job idles. *)
Do(h, j) == job' = [job EXCEPT ![h] = j]
Goto(h, l) == Do(h, [job[h] EXCEPT !.at = l])
Finish(h) == Do(h, Idling)
At(h, l) == up /\ job[h].at = l

MayStart(h, use) == /\ At(h, "idle")
                    /\ use \in scene.uses
                    /\ Cardinality(Busy) < scene.busy

(* What follows a persist: a retried upsert, the next deletion, or the end. *)
AfterSave(j) == IF j.kind = "evict" THEN [j EXCEPT !.at = "upsert", !.kind = "grant"]
                ELSE IF j.kind = "delete" /\ j.todo # {} THEN [j EXCEPT !.at = "find"]
                ELSE Idling

(* Fault: the sweep does not persist. *)
SaveExceptSweep(j) == IF "persist" \in scene.uses /\ j.kind # "sweep"
                      THEN [j EXCEPT !.at = "snapshot"] ELSE AfterSave(j)

(* A persist is skipped altogether when the state directory refuses writes. *)
Save(j) == IF "persist" \in scene.uses THEN [j EXCEPT !.at = "snapshot"] ELSE AfterSave(j)

Init == /\ statics \in StaticConfigs
        /\ slots = {FSlot(p, Operator, 0) : p \in statics}
        /\ entries = {}
        /\ tasks = {}
        /\ socks = {Sock(p, Operator, 0) : p \in statics}
        /\ nft = [admitted |-> statics,
                  dnat |-> {Target(p, Operator, 0) : p \in statics},
                  accepted |-> statics]
        /\ tuples = {}
        /\ disk = [leases |-> {}, index |-> {}]
        /\ job = [h \in Jobs |-> Idling]
        /\ up = TRUE
        /\ refused = FALSE
        /\ scene \in Scenarios

-----------------------------------------------------------------------------
(* The shared resources. *)

TableDelete(p) == IF p \in PortsOf(slots)
                  THEN \E s \in slots : s.bind = p /\ slots' = slots \ {s}
                  ELSE UNCHANGED slots

Granted(n, p, c, i) == [admitted |-> n.admitted \cup {p},
                        dnat |-> n.dnat \cup {Target(p, c, i)},
                        accepted |-> n.accepted \cup {p}]

(* grant_script, one all-or-nothing batch: nft refuses an element that is  *)
(* in the map with another value.                                          *)
Conflict(n, p, c, i) == \E d \in n.dnat : d.port = p /\ d # Target(p, c, i)

(* Fault: the revoke forgets the accept element. *)
RevokedKeepsAccept(n, p) == [admitted |-> n.admitted \ {p},
                             dnat |-> {d \in n.dnat : d.port # p},
                             accepted |-> n.accepted]

(* revoke_datapath: the statements run one at a time, so each element goes. *)
Revoked(n, p) == [admitted |-> n.admitted \ {p},
                  dnat |-> {d \in n.dnat : d.port # p},
                  accepted |-> n.accepted \ {p}]

RemoveTuple(p) == tuples' = {t \in tuples : t.port # p}

(* Fault: the sockets share their port. *)
BindableAlways(p) == TRUE

Bindable(p) == \A k \in socks : k.port # p

(* An abort takes effect when the task is next polled: the socket may      *)
(* linger, still bound, until then.  Only registered handles are aborted.  *)
Abort(p) ==
  LET mine == {k \in socks : k.port = p /\ p \in tasks}
  IN  /\ tasks' = tasks \ {p}
      /\ \/ socks' = socks \ mine
         \/ /\ "linger" \in scene.uses
            /\ socks' = (socks \ mine) \cup {[k EXCEPT !.dying = TRUE] : k \in mine}

-----------------------------------------------------------------------------
(* grant_mapping: one step per lock or call, named for the call. *)
StartGrant(h, r) ==
  /\ MayStart(h, "grant")
  /\ r.owner \in Serves[h]
  /\ Do(h, [Idling EXCEPT !.at = "upsert", !.kind = "grant", !.req = r])
  /\ UNCHANGED <<slots, entries, tasks, socks, nft, tuples, disk, up, statics, refused, scene>>

Holds(s, c, i) == ~IsStatic(s) /\ s.client = c /\ s.int = i

UpsertRefresh(h) ==
  LET r == job[h].req IN
  /\ At(h, "upsert")
  /\ \E s \in slots :
       /\ Holds(s, r.client, r.int)
       /\ slots' = (slots \ {s}) \cup {[s EXCEPT !.stale = FALSE]}
       /\ Do(h, [job[h] EXCEPT !.at = "entry", !.port = s.bind])
  /\ UNCHANGED <<entries, tasks, socks, nft, tuples, disk, up, statics, refused, scene>>

(* Which free port is lowest depends on the live flows the probe saw, so   *)
(* any free port may be taken (LeaseTable has the rule itself).            *)
UpsertNew(h) ==
  LET r == job[h].req IN
  /\ At(h, "upsert")
  /\ \A s \in slots : ~Holds(s, r.client, r.int)
  /\ ~OverQuota(slots, r.client) /\ ~IsFull(slots)
  /\ \E p \in FreePorts(slots, {}) :
       /\ slots' = slots \cup {FSlot(p, r.client, r.int)}
       /\ Do(h, [job[h] EXCEPT !.at = "datapath", !.port = p])
  /\ UNCHANGED <<entries, tasks, socks, nft, tuples, disk, up, statics, refused, scene>>

NoRoom == IsFull(slots) \/ FreePorts(slots, {}) = {}

(* Over the quota the request fails; without a slot or a port it picks a   *)
(* victim, once.                                                           *)
UpsertRefused(h) ==
  LET r == job[h].req IN
  /\ At(h, "upsert")
  /\ \A s \in slots : ~Holds(s, r.client, r.int)
  /\ \/ /\ OverQuota(slots, r.client) \/ (NoRoom /\ job[h].retried)
        /\ Finish(h)
     \/ /\ ~OverQuota(slots, r.client) /\ NoRoom /\ ~job[h].retried
        /\ Goto(h, "pick")
  /\ UNCHANGED <<slots, entries, tasks, socks, nft, tuples, disk, up, statics, refused, scene>>

(* evict_candidate: a stale grant of another client, or the refusal. *)
EvictPick(h) ==
  LET idle == {s \in slots : ~IsStatic(s) /\ s.stale /\ s.client # job[h].req.client}
  IN  /\ At(h, "pick")
      /\ \/ /\ idle = {}
            /\ Finish(h)
         \/ \E s \in idle :
              Do(h, [job[h] EXCEPT !.at = "remove", !.kind = "evict",
                                   !.old = s.bind, !.retried = TRUE])
      /\ UNCHANGED <<slots, entries, tasks, socks, nft, tuples, disk, up, statics, refused, scene>>

(* Fault: a refused element is not noticed. *)
GrantDatapathUnchecked(h) ==
  LET r == job[h].req
      p == job[h].port
  IN  /\ At(h, "datapath")
      /\ nft' = IF Conflict(nft, p, r.client, r.int) THEN nft
                ELSE Granted(nft, p, r.client, r.int)
      /\ Goto(h, "bind")
      /\ UNCHANGED <<slots, entries, tasks, socks, tuples, disk, up, statics, refused, scene>>

(* grant_datapath; on an error the revoke follows in the same breath.      *)
GrantDatapath(h) ==
  LET r == job[h].req
      p == job[h].port
  IN  /\ At(h, "datapath")
      /\ \/ /\ ~Conflict(nft, p, r.client, r.int)
            /\ nft' = Granted(nft, p, r.client, r.int)
            /\ Goto(h, "bind")
            /\ UNCHANGED tuples
         \/ /\ Conflict(nft, p, r.client, r.int) \/ "nft" \in Faults
            /\ nft' = Revoked(nft, p)
            /\ RemoveTuple(p)
            /\ Goto(h, "undo")
      /\ UNCHANGED <<slots, entries, tasks, socks, disk, up, statics, refused, scene>>

(* spawn_udp_slot; a failed bind closes the accept and nothing else.       *)
BindSlot(h) ==
  LET r == job[h].req
      p == job[h].port
  IN  /\ At(h, "bind")
      /\ \/ /\ Bindable(p)
            /\ socks' = socks \cup {Sock(p, r.client, r.int)}
            /\ Goto(h, "register")
            /\ UNCHANGED nft
         \/ /\ ~Bindable(p) \/ "bind" \in Faults
            /\ nft' = [nft EXCEPT !.accepted = @ \ {p}]
            /\ Goto(h, "undo")
            /\ UNCHANGED socks
      /\ UNCHANGED <<slots, entries, tasks, tuples, disk, up, statics, refused, scene>>

UndoSlot(h) == /\ At(h, "undo")
               /\ TableDelete(job[h].port)
               /\ Finish(h)
               /\ UNCHANGED <<entries, tasks, socks, nft, tuples, disk, up, statics, refused, scene>>

RegisterTasks(h) == /\ At(h, "register")
                    /\ tasks' = tasks \cup {job[h].port}
                    /\ Goto(h, "entry")
                    /\ UNCHANGED <<slots, entries, socks, nft, tuples, disk, up, statics, refused, scene>>

(* Fault: only the same label counts as the same entry. *)
SameTupleAndLabel(e, r) == e.owner = r.owner /\ e.int = r.int /\ e.ext = r.ext

SameTuple(e, r) == e.owner = r.owner /\ e.int = r.int

(* The slot an entry was moved off is torn down by the grant itself, which *)
(* then goes on; every other teardown drops the entries of the port.       *)
Stray(j, old) == [j EXCEPT !.at = "remove", !.kind = "stray", !.old = old]
AfterAbort(j) == IF j.kind = "stray" THEN Save(j) ELSE [j EXCEPT !.at = "forget"]

(* apply_entry: the entry of the same internal tuple is relabelled;        *)
(* otherwise the caller's entry of that label is taken over, and its old   *)
(* port is a stray; otherwise the entry is new.                            *)
ApplyEntry(h) ==
  LET r     == job[h].req
      p     == job[h].port
      same  == {e \in entries : SameTuple(e, r)}
      label == {e \in entries : e.ext = r.ext /\ e.owner = r.owner}
      saved == Save(job[h])
  IN  /\ At(h, "entry")
      /\ \/ \E e \in same :
              /\ entries' = (entries \ {e}) \cup {[e EXCEPT !.ext = r.ext]}
              /\ Do(h, saved)
         \/ /\ same = {} /\ r.ext # 0
            /\ \E e \in label :
                 /\ entries' = (entries \ {e})
                      \cup {[e EXCEPT !.client = r.client, !.int = r.int, !.bind = p]}
                 /\ IF e.bind # p
                    THEN Do(h, Stray(job[h], e.bind))
                    ELSE Do(h, saved)
         \/ /\ same = {} /\ (r.ext = 0 \/ label = {})
            /\ entries' = entries \cup {[ext |-> r.ext, owner |-> r.owner,
                                         client |-> r.client, int |-> r.int, bind |-> p]}
            /\ Do(h, saved)
      /\ UNCHANGED <<slots, tasks, socks, nft, tuples, disk, up, statics, refused, scene>>

-----------------------------------------------------------------------------
(* The teardown of the port job.old, shared by the eviction, the stray of  *)
(* a grant, delete_mapping and (without the table step) the sweep.         *)
Remove(h) == /\ At(h, "remove")
             /\ TableDelete(job[h].old)
             /\ Goto(h, "revoke")
             /\ UNCHANGED <<entries, tasks, socks, nft, tuples, disk, up, statics, refused, scene>>

Revoke(h) == /\ At(h, "revoke")
             /\ nft' = Revoked(nft, job[h].old)
             /\ RemoveTuple(job[h].old)
             /\ Goto(h, "abort")
             /\ UNCHANGED <<slots, entries, tasks, socks, disk, up, statics, refused, scene>>

AbortTasks(h) == /\ At(h, "abort")
                 /\ Abort(job[h].old)
                 /\ Do(h, AfterAbort(job[h]))
                 /\ UNCHANGED <<slots, entries, nft, tuples, disk, up, statics, refused, scene>>

(* Faults: the entries of a label go whoever owns them; no entry goes.     *)
DroppedAnyOwner(j) == IF j.kind = "delete" THEN {e \in entries : e.ext = j.req.ext}
                      ELSE {e \in entries : e.bind = j.old}
DroppedNone(j) == {}

(* delete_mapping drops the caller's entries of that label; the eviction   *)
(* and the sweep drop the entries on the port.                             *)
Dropped(j) == IF j.kind = "delete"
              THEN {e \in entries : e.ext = j.req.ext /\ e.owner = j.req.owner}
              ELSE {e \in entries : e.bind = j.old}

Forget(h) ==
  /\ At(h, "forget")
  /\ entries' = entries \ Dropped(job[h])
  /\ \/ /\ job[h].freed # {}
        /\ \E p \in job[h].freed :
             Do(h, [job[h] EXCEPT !.at = "revoke", !.old = p, !.freed = @ \ {p}])
     \/ job[h].freed = {} /\ Do(h, Save(job[h]))
  /\ UNCHANGED <<slots, tasks, socks, nft, tuples, disk, up, statics, refused, scene>>

-----------------------------------------------------------------------------
(* Deletions work through labels: one for DeletePortMapping, the caller's  *)
(* own labels of a range, the label found for a PCP key, and those of the  *)
(* clients the GC loop finds absent.                                       *)
Label(e) == [ext |-> e.ext, owner |-> e.owner]

StartDelete(h, use, labels) ==
  /\ MayStart(h, use)
  /\ labels # {}
  /\ Do(h, [Idling EXCEPT !.at = "find", !.kind = "delete", !.todo = labels])
  /\ UNCHANGED <<slots, entries, tasks, socks, nft, tuples, disk, up, statics, refused, scene>>

DeleteMapping(h, l) == l.owner \in Serves[h] /\ StartDelete(h, "delete", {l})

DeleteRange(h, c) ==
  c \in Serves[h] /\ StartDelete(h, "range", {Label(e) : e \in {x \in entries : x.owner = c}})

(* admit_map with lifetime 0. *)
DeleteKey(h, c, i) ==
  /\ c \in Serves[h]
  /\ \E e \in entries : e.owner = c /\ e.int = i /\ StartDelete(h, "pcp", {Label(e)})

ReapAbsent(gone) ==
  StartDelete(Collector, "reap", {Label(e) : e \in {x \in entries : x.client \in gone}})

FindEntry(h) ==
  /\ At(h, "find")
  /\ \E l \in job[h].todo :
       LET rest == [job[h] EXCEPT !.todo = @ \ {l}] IN
       \/ \E e \in entries :
            /\ Label(e) = l
            /\ Do(h, [rest EXCEPT !.at = "remove", !.old = e.bind,
                                  !.req = [ext |-> e.ext, owner |-> e.owner,
                                           client |-> e.client, int |-> e.int]])
       \/ /\ \A e \in entries : Label(e) # l
          /\ Do(h, AfterSave(rest))
  /\ UNCHANGED <<slots, entries, tasks, socks, nft, tuples, disk, up, statics, refused, scene>>

(* gc and gc_idle: the stale grants leave the table at once, then each     *)
(* port is torn down.                                                      *)
Sweep ==
  LET stale == {s \in slots : ~IsStatic(s) /\ s.stale}
      freed == PortsOf(stale)
  IN  /\ MayStart(Collector, "sweep")
      /\ stale # {}
      /\ slots' = slots \ stale
      /\ \E p \in freed :
           Do(Collector, [Idling EXCEPT !.at = "revoke", !.kind = "sweep",
                                        !.old = p, !.freed = freed \ {p}])
      /\ UNCHANGED <<entries, tasks, socks, nft, tuples, disk, up, statics, refused, scene>>

-----------------------------------------------------------------------------
(* collided: any port of a grant may turn out to be a device's flow's. *)
Collided == {s.bind : s \in Grants(slots)}

(* yield_port: a device's flow took the port, so its lease moves.          *)
StartYield(old) ==
  /\ MayStart(Collector, "yield")
  /\ old \in Collided
  /\ \E e \in entries :
       /\ e.bind = old
       /\ Do(Collector, [Idling EXCEPT !.at = "move", !.kind = "yield", !.old = old,
                          !.req = [ext |-> e.ext, owner |-> e.owner,
                                   client |-> e.client, int |-> e.int]])
  /\ UNCHANGED <<slots, entries, tasks, socks, nft, tuples, disk, up, statics, refused, scene>>

MoveLease(h) ==
  /\ At(h, "move")
  /\ \/ \E s \in slots, p \in FreePorts(slots, {}) :
          /\ s.bind = job[h].old
          /\ slots' = (slots \ {s}) \cup {[s EXCEPT !.bind = p]}
          /\ Do(h, [job[h] EXCEPT !.at = "rebind", !.port = p])
     \/ /\ job[h].old \notin PortsOf(slots) \/ FreePorts(slots, {}) = {}
        /\ Finish(h)
        /\ UNCHANGED slots
  /\ UNCHANGED <<entries, tasks, socks, nft, tuples, disk, up, statics, refused, scene>>

Rebind(h) ==
  LET r == job[h].req
      p == job[h].port
  IN  /\ At(h, "rebind")
      /\ \/ /\ Bindable(p)
            /\ socks' = socks \cup {Sock(p, r.client, r.int)}
            /\ Goto(h, "redirect")
         \/ /\ ~Bindable(p) \/ "rebind" \in Faults
            /\ Goto(h, "moveback")
            /\ UNCHANGED socks
      /\ UNCHANGED <<slots, entries, tasks, nft, tuples, disk, up, statics, refused, scene>>

MoveBack(h) ==
  /\ At(h, "moveback")
  /\ IF job[h].port \in PortsOf(slots)
     THEN \E s \in slots : /\ s.bind = job[h].port
                           /\ slots' = (slots \ {s}) \cup {[s EXCEPT !.bind = job[h].old]}
     ELSE UNCHANGED slots
  /\ Finish(h)
  /\ UNCHANGED <<entries, tasks, socks, nft, tuples, disk, up, statics, refused, scene>>

(* The result of grant_datapath is not looked at here. *)
Redirect(h) ==
  LET r == job[h].req
      p == job[h].port
  IN  /\ At(h, "redirect")
      /\ \/ /\ ~Conflict(nft, p, r.client, r.int)
            /\ nft' = Granted(nft, p, r.client, r.int)
            /\ UNCHANGED refused
         \/ /\ Conflict(nft, p, r.client, r.int) \/ "redirect" \in Faults
            /\ UNCHANGED nft
            /\ refused' = TRUE
         \/ /\ ~Conflict(nft, p, r.client, r.int) /\ "redirect" \in Faults
            /\ nft' = [Granted(nft, p, r.client, r.int) EXCEPT !.accepted = nft.accepted]
            /\ refused' = TRUE
      /\ Goto(h, "reregister")
      /\ UNCHANGED <<slots, entries, tasks, socks, tuples, disk, up, statics, scene>>

(* The new handles are registered and the old port's datapath revoked ...  *)
Reregister(h) == /\ At(h, "reregister")
                 /\ tasks' = tasks \cup {job[h].port}
                 /\ nft' = Revoked(nft, job[h].old)
                 /\ Goto(h, "release")
                 /\ UNCHANGED <<slots, entries, socks, tuples, disk, up, statics, refused, scene>>

(* ... then the old tasks aborted and the old tuple removed ...            *)
ReleaseOld(h) == /\ At(h, "release")
                 /\ Abort(job[h].old)
                 /\ RemoveTuple(job[h].old)
                 /\ Goto(h, "reindex")
                 /\ UNCHANGED <<slots, entries, nft, disk, up, statics, refused, scene>>

(* ... and the entry follows its lease. *)
Reindex(h) ==
  /\ At(h, "reindex")
  /\ IF \E e \in entries : e.bind = job[h].old
     THEN \E e \in entries :
            /\ e.bind = job[h].old
            /\ entries' = (entries \ {e}) \cup {[e EXCEPT !.bind = job[h].port]}
     ELSE UNCHANGED entries
  /\ Do(h, Save(job[h]))
  /\ UNCHANGED <<slots, tasks, socks, nft, tuples, disk, up, statics, refused, scene>>

-----------------------------------------------------------------------------
(* persist: leases.tsv from a copy of the table, then upnp.tsv from a copy *)
(* of the index; each copy is taken under its lock and written after it.   *)
Row(s) == [bind |-> s.bind, client |-> s.client, int |-> s.int]

CopyTable(h) ==
  /\ At(h, "snapshot")
  /\ Do(h, [job[h] EXCEPT !.at = "leases", !.rows = {Row(s) : s \in Grants(slots)}])
  /\ UNCHANGED <<slots, entries, tasks, socks, nft, tuples, disk, up, statics, refused, scene>>

WriteLeases(h) ==
  /\ At(h, "leases")
  /\ disk' = [disk EXCEPT !.leases = job[h].rows]
  /\ Do(h, [job[h] EXCEPT !.at = "copyindex", !.rows = {}])
  /\ UNCHANGED <<slots, entries, tasks, socks, nft, tuples, up, statics, refused, scene>>

CopyIndex(h) ==
  /\ At(h, "copyindex")
  /\ Do(h, [job[h] EXCEPT !.at = "index", !.rows = entries])
  /\ UNCHANGED <<slots, entries, tasks, socks, nft, tuples, disk, up, statics, refused, scene>>

WriteIndex(h) ==
  /\ At(h, "index")
  /\ disk' = [disk EXCEPT !.index = job[h].rows]
  /\ Do(h, AfterSave([job[h] EXCEPT !.rows = {}]))
  /\ UNCHANGED <<slots, entries, tasks, socks, nft, tuples, up, statics, refused, scene>>

-----------------------------------------------------------------------------
(* The environment and the slot tasks.                                     *)

(* A lease's time runs out, or its client falls silent long enough ...     *)
Age(s) == /\ up /\ "age" \in scene.uses
          /\ ~IsStatic(s) /\ ~s.stale
          /\ slots' = (slots \ {s}) \cup {[s EXCEPT !.stale = TRUE]}
          /\ UNCHANGED <<entries, tasks, socks, nft, tuples, disk, job, up, statics, refused, scene>>

(* ... and inbound traffic or a SOAP request stamps it again. *)
Touch(s) == /\ up /\ "age" \in scene.uses
            /\ s.stale
            /\ slots' = (slots \ {s}) \cup {[s EXCEPT !.stale = FALSE]}
            /\ UNCHANGED <<entries, tasks, socks, nft, tuples, disk, job, up, statics, refused, scene>>

(* run_slot: a confirmed STUN answer on a slot's socket publishes its      *)
(* tuple; a task told to stop may still be in the middle of it.            *)
Publish(k) ==
  /\ up /\ "publish" \in scene.uses
  /\ tuples' = {t \in tuples : t.port # k.port} \cup {Target(k.port, k.client, k.int)}
  /\ UNCHANGED <<slots, entries, tasks, socks, nft, disk, job, up, statics, refused, scene>>

(* The aborted tasks drop their socket. *)
CloseSock(k) == /\ up /\ k.dying
                /\ socks' = socks \ {k}
                /\ UNCHANGED <<slots, entries, tasks, nft, tuples, disk, job, up, statics, refused, scene>>

(* http_serve's 30 s timeout drops a handler at an await: where it waits   *)
(* for a lock.                                                             *)
Awaiting == {"upsert", "pick", "remove", "abort", "forget", "undo", "register",
             "entry", "find", "snapshot", "copyindex"}

Cancel(h) == /\ up /\ "cancel" \in scene.uses
             /\ job[h].at \in Awaiting
             /\ Finish(h)
             /\ UNCHANGED <<slots, entries, tasks, socks, nft, tuples, disk, up, statics, refused, scene>>

(* The process dies: what it held in memory is gone, the kernel's elements *)
(* and the files stay.                                                     *)
Crash == /\ up /\ "crash" \in scene.uses
         /\ up' = FALSE
         /\ slots' = {} /\ entries' = {} /\ tasks' = {} /\ socks' = {}
         /\ job' = [h \in Jobs |-> Idling]
         /\ UNCHANGED <<nft, tuples, disk, statics, refused, scene>>

(* What a boot restores: the statics, the rows not on a static's port, and *)
(* the entries whose port holds a slot, whichever slot that is.            *)
RestoredSlots(S) == {FSlot(p, Operator, 0) : p \in S}
                      \cup {FSlot(r.bind, r.client, r.int) :
                              r \in {x \in disk.leases : x.bind \notin S}}
RestoredEntries(T) == {e \in disk.index : e.bind \in PortsOf(T)}

(* main exits on two rows that share a port, and when nft refuses a slot's *)
(* elements: ensure_ruleset empties the two sets, the map keeps its own.   *)
Bootable(n, T) == /\ PortsDistinct(T)
                  /\ \A s \in T : ~Conflict(n, s.bind, s.client, s.int)

(* The init script deletes the daemon's whole table, and a new             *)
(* configuration comes with it; a respawn finds the table as it was.       *)
Inherited(S) == {[nft EXCEPT !.dnat = {}]} \cup (IF S = statics THEN {nft} ELSE {})

(* ensure_inbound empties its set, and ensure_ruleset the accept set. *)
InboundEmptied(n) == [n EXCEPT !.admitted = {}]
AcceptEmptied(n) == [n EXCEPT !.accepted = {}]

(* ensure_ruleset keeps the table and its maps. *)
RulesetEnsured(n) == AcceptEmptied(InboundEmptied(n))

(* grant_datapath for every restored slot. *)
GrantedAll(n, T) == [admitted |-> n.admitted \cup PortsOf(T),
                     dnat |-> n.dnat \cup {TargetOf(s) : s \in T},
                     accepted |-> n.accepted \cup PortsOf(T)]

(* spawn_restored_grants walks the entries: the first one of a granted     *)
(* slot's port binds a socket, to that entry's target.                     *)
Boot(S) ==
  LET T     == RestoredSlots(S)
      owned == {e \in RestoredEntries(T) : e.bind \notin S}
  IN  /\ ~up
      /\ \E kept \in Inherited(S) :
           /\ Bootable(kept, T)
           /\ nft' = GrantedAll(RulesetEnsured(kept), T)
      /\ up' = TRUE
      /\ statics' = S
      /\ slots' = T
      /\ entries' = RestoredEntries(T)
      /\ disk' = [disk EXCEPT !.leases = {Row(s) : s \in Grants(T)}]
      /\ \E picked \in SUBSET owned :
           /\ PortsOf(picked) = PortsOf(owned) /\ PortsDistinct(picked)
           /\ tasks' = PortsOf(picked)
           /\ socks' = {Sock(p, Operator, 0) : p \in S}
                         \cup {Sock(e.bind, e.client, e.int) : e \in picked}
      /\ UNCHANGED <<tuples, job, refused, scene>>

-----------------------------------------------------------------------------
GrantStep(h) == UpsertRefresh(h) \/ UpsertNew(h) \/ UpsertRefused(h) \/ EvictPick(h)
                  \/ GrantDatapath(h) \/ BindSlot(h) \/ UndoSlot(h)
                  \/ RegisterTasks(h) \/ ApplyEntry(h)
TeardownStep(h) == Remove(h) \/ Revoke(h) \/ AbortTasks(h) \/ Forget(h) \/ FindEntry(h)
YieldStep(h) == MoveLease(h) \/ Rebind(h) \/ MoveBack(h) \/ Redirect(h)
                  \/ Reregister(h) \/ ReleaseOld(h) \/ Reindex(h)
PersistStep(h) == CopyTable(h) \/ WriteLeases(h) \/ CopyIndex(h) \/ WriteIndex(h)

Step(h) == GrantStep(h) \/ TeardownStep(h) \/ YieldStep(h) \/ PersistStep(h)

Start == \/ \E h \in Workers :
              \/ \E r \in scene.requests : StartGrant(h, r)
              \/ \E r \in scene.requests : DeleteMapping(h, [ext |-> r.ext, owner |-> r.owner])
              \/ \E c \in Clients : DeleteRange(h, c)
              \/ \E c \in Clients, i \in IntPorts : DeleteKey(h, c, i)
         \/ \E gone \in SUBSET Clients : ReapAbsent(gone)
         \/ \E p \in Ports : StartYield(p)
         \/ Sweep

Environment == \/ \E s \in slots : Age(s) \/ Touch(s)
               \/ \E k \in socks : Publish(k) \/ CloseSock(k)
               \/ \E h \in Workers : Cancel(h)
               \/ Crash
               \/ \E S \in StaticConfigs : Boot(S)

Next == Start \/ (\E h \in Jobs : Step(h)) \/ Environment

Spec == Init /\ [][Next]_vars

-----------------------------------------------------------------------------
(* Types. *)
Labels == {"idle", "upsert", "pick", "datapath", "bind", "undo", "register", "entry",
           "remove", "revoke", "abort", "forget", "find", "move", "rebind", "moveback",
           "redirect", "reregister", "release", "reindex",
           "snapshot", "leases", "copyindex", "index"}
EntryType == [ext: Nat, owner: Clients, client: Clients, int: IntPorts, bind: Ports]
RowType == [bind: Ports, client: Clients, int: IntPorts]
TargetType == [port: Ports, client: Clients \cup {Operator}, int: IntPorts \cup {0}]

TypeOK ==
  /\ slots \subseteq [bind: Ports, client: Clients \cup {Operator},
                      int: IntPorts \cup {0}, stale: BOOLEAN]
  /\ entries \subseteq EntryType
  /\ tasks \subseteq Ports
  /\ socks \subseteq [port: Ports, client: Clients \cup {Operator},
                      int: IntPorts \cup {0}, dying: BOOLEAN]
  /\ nft.admitted \subseteq Ports /\ nft.accepted \subseteq Ports
  /\ nft.dnat \subseteq TargetType
  /\ tuples \subseteq TargetType
  /\ disk.leases \subseteq RowType /\ disk.index \subseteq EntryType
  /\ \A h \in Jobs : job[h].at \in Labels /\ job[h].port \in Ports \cup {0}
  /\ up \in BOOLEAN /\ refused \in BOOLEAN
  /\ scene \in Scenarios /\ statics \in StaticConfigs

(* Every granted slot is one entry's, and every entry has its slot: what a *)
(* client was told it holds is what the table holds.                       *)
EntriesMatchSlots ==
  Quiet => /\ \A s \in Grants(slots) : \E e \in entries :
                e.bind = s.bind /\ e.client = s.client /\ e.int = s.int
           /\ \A e \in entries : \E s \in Grants(slots) :
                e.bind = s.bind /\ e.client = s.client /\ e.int = s.int

(* Every slot is served by one live socket to its own target, the daemon   *)
(* can stop it, no other socket is left running, and the firewall is open  *)
(* for no other port.                                                      *)
SocketsMatchSlots ==
  Quiet => /\ {k \in socks : ~k.dying} = {Sock(s.bind, s.client, s.int) : s \in slots}
           /\ tasks = PortsOf(Grants(slots))
           /\ nft.accepted \subseteq PortsOf(slots)

(* The kernel translates and admits exactly the ports of the slots, each   *)
(* to its own target, after every request and every boot of a daemon that  *)
(* runs one job at a time - as long as no handler was dropped half way and *)
(* no yield's batch was refused, which yield_port does not notice.         *)
Translated == {d \in nft.dnat : d.port \in nft.admitted}

DatapathMatchesSlots ==
  Quiet /\ scene.busy = 1 /\ "cancel" \notin scene.uses /\ ~refused =>
           /\ Translated = {TargetOf(s) : s \in slots}
           /\ nft.accepted = PortsOf(slots)

(* apply_entry keeps one entry per internal tuple, whoever interleaves.    *)
EntryPerTuple == \A e, f \in entries : e.owner = f.owner /\ e.int = f.int => e = f

(* A teardown takes its own caller's slot: a delete the very mapping it    *)
(* was asked for, an eviction a stale lease.                               *)
TakesOnlyOwn ==
  [][\A h \in Jobs : Remove(h) => \A s \in slots \ slots' :
       CASE job[h].kind = "delete" -> s.client = job[h].req.client /\ s.int = job[h].req.int
         [] job[h].kind = "evict"  -> s.stale
         [] job[h].kind = "stray"  -> s.client = job[h].req.client]_vars

(* The operator's statics stay: nothing a client does takes the slot, the  *)
(* socket or the datapath of one.                                          *)
StaticsServed ==
  up => \A p \in statics :
          /\ FSlot(p, Operator, 0) \in slots
          /\ Sock(p, Operator, 0) \in socks
          /\ Target(p, Operator, 0) \in Translated /\ p \in nft.accepted

(* The new datapath is up before the old one comes down, as yield_port has *)
(* it (upnpsvc.rs:1557).                                                   *)
NewBeforeOld ==
  [][\A h \in Jobs : Reregister(h) =>
       Target(job[h].port, job[h].req.client, job[h].req.int) \in Translated]_vars

(* After a crash the daemon can come back with the configuration it had:   *)
(* no element that the last run left in the maps is in the way of a lease  *)
(* on disk (in scenarios without a yield; with one, see NewBeforeOld).     *)
BootNeverRefused == ~up => Bootable(nft, RestoredSlots(statics))

(* Whenever nothing is under way and the state directory takes writes,     *)
(* leases.tsv holds the grants of the table (serially; concurrent persists *)
(* may land out of order).                                                 *)
LeasesOnDisk ==
  Quiet /\ "persist" \in scene.uses => disk.leases = {Row(s) : s \in Grants(slots)}
=============================================================================
