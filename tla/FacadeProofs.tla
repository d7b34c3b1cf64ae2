----------------------------- MODULE FacadeProofs -----------------------------
(***************************************************************************)
(* The facade for any clients, ports, limits, workers and scenarios: any   *)
(* number of handlers at once, dropped at any lock, with crashes, failing  *)
(* calls and lingering sockets.                                            *)
(***************************************************************************)
EXTENDS Facade, FiniteSetTheorems, TLAPS

Request == [ext: Nat, owner: Clients, client: Clients, int: IntPorts]
LabelType == [ext: Nat, owner: Clients]
SlotType == {s \in [bind: Ports, client: Clients \cup {Operator}, int: IntPorts \cup {0}, stale: BOOLEAN] :
               ~IsStatic(s) => s.int \in IntPorts}
SockType == [port: Ports, client: Clients \cup {Operator}, int: IntPorts \cup {0}, dying: BOOLEAN]
NftType == [admitted: SUBSET Ports, dnat: SUBSET TargetType, accepted: SUBSET Ports]
DiskType == [leases: SUBSET RowType, index: SUBSET EntryType]
Kinds == {"none", "grant", "evict", "stray", "delete", "sweep", "yield"}

OnePerTuple(E) == \A e, f \in E : e.owner = f.owner /\ e.int = f.int => e = f

(* What a job carries at the steps that use it. *)
Asking == {"upsert", "pick", "datapath", "bind", "register", "entry", "move", "rebind", "redirect"}
Placed == {"datapath", "bind", "undo", "register", "entry", "rebind", "moveback", "redirect",
           "reregister", "release", "reindex"}
JobShape == [at: Labels, kind: Kinds, req: Request \cup {NoReq}, port: Ports \cup {0},
             old: Ports \cup {0}, retried: BOOLEAN, todo: SUBSET LabelType,
             freed: SUBSET Ports, rows: SUBSET (RowType \cup EntryType)]
Carries(j) ==
  /\ j.at \in Asking \/ j.kind = "evict" => j.req \in Request
  /\ j.at \in Placed => j.port \in Ports
  /\ j.at \in {"move", "rebind", "moveback"} => j.old \in Ports
  /\ j.at = "leases" => j.rows \subseteq RowType
  /\ j.at = "index" => j.rows \subseteq EntryType /\ OnePerTuple(j.rows)
Job == {j \in JobShape : Carries(j)}

SlotsInv == slots \subseteq SlotType
EntriesInv == entries \subseteq EntryType /\ OnePerTuple(entries)
SocksInv == socks \subseteq SockType /\ tasks \subseteq Ports
NftInv == nft \in NftType /\ tuples \subseteq TargetType
DiskInv == disk \in DiskType /\ OnePerTuple(disk.index)
JobInv == job \in [Jobs -> Job]
RestInv == up \in BOOLEAN /\ refused \in BOOLEAN /\ scene \in Scenarios /\ statics \in StaticConfigs
TypeInv == SlotsInv /\ EntriesInv /\ SocksInv /\ NftInv /\ DiskInv /\ JobInv /\ RestInv

-----------------------------------------------------------------------------
(* The jobs. *)
LEMMA PortsArePositive == Ports \subseteq Nat \ {0} /\ 0 \notin Ports
BY RangeAssumption DEF Ports

LEMMA IdlingIsJob == Idling \in Job
<1>1. Idling \in JobShape
  BY DEF Idling, JobShape, Labels, Kinds
<1> QED BY <1>1 DEF Idling, Job, Carries, Asking, Placed

(* A job that only moves on. *)
LEMMA MovedJob ==
  ASSUME NEW j \in Job, NEW l \in Labels \ {"leases", "index"},
         l \in Asking => j.req \in Request,
         l \in Placed => j.port \in Ports,
         l \in {"move", "rebind", "moveback"} => j.old \in Ports
  PROVE  [j EXCEPT !.at = l] \in Job
<1> DEFINE k == [j EXCEPT !.at = l]
<1>1. j \in JobShape /\ Carries(j)
  BY DEF Job
<1>2. k \in JobShape /\ k.at = l /\ k.kind = j.kind /\ k.req = j.req /\ k.port = j.port /\ k.old = j.old
  BY <1>1 DEF JobShape
<1> HIDE DEF k
<1>3. Carries(k)
  BY <1>1, <1>2 DEF Carries
<1> QED BY <1>2, <1>3 DEF Job, k

LEMMA SavedJob ==
  ASSUME NEW j \in Job
  PROVE  AfterSave(j) \in Job /\ Save(j) \in Job
<1>1. j \in JobShape /\ Carries(j)
  BY DEF Job
<1>2. [j EXCEPT !.at = "snapshot"] \in Job
  BY MovedJob DEF Labels, Asking, Placed
<1>3. ASSUME j.kind = "evict" PROVE [j EXCEPT !.at = "upsert", !.kind = "grant"] \in Job
  <2> DEFINE k == [j EXCEPT !.at = "upsert", !.kind = "grant"]
  <2>1. k \in JobShape /\ k.at = "upsert" /\ k.kind = "grant" /\ k.req = j.req
    BY <1>1 DEF JobShape, Labels, Kinds
  <2>2. j.req \in Request
    BY <1>1, <1>3 DEF Carries
  <2> HIDE DEF k
  <2>3. Carries(k)
    BY <2>1, <2>2 DEF Carries, Placed
  <2> QED BY <2>1, <2>3 DEF Job, k
<1>4. [j EXCEPT !.at = "find"] \in Job
  BY MovedJob DEF Labels, Asking, Placed
<1>5. AfterSave(j) \in Job
  BY <1>3, <1>4, IdlingIsJob DEF AfterSave
<1> QED BY <1>2, <1>5 DEF Save

LEMMA JobMoves ==
  ASSUME JobInv, NEW h \in Jobs, NEW j \in Job, Do(h, j)
  PROVE  JobInv' /\ \A g \in Jobs : job'[g] = IF g = h THEN j ELSE job[g]
BY DEF JobInv, Do

LEMMA JobParts ==
  ASSUME JobInv, NEW h \in Jobs
  PROVE  job[h] \in Job /\ job[h] \in JobShape /\ Carries(job[h])
BY DEF JobInv, Job

LEMMA GotoMoves ==
  ASSUME JobInv, NEW h \in Jobs, NEW l \in Labels \ {"leases", "index"}, Goto(h, l),
         l \in Asking => job[h].req \in Request,
         l \in Placed => job[h].port \in Ports,
         l \in {"move", "rebind", "moveback"} => job[h].old \in Ports
  PROVE  JobInv'
BY JobParts, MovedJob, JobMoves DEF Goto

LEMMA FinishMoves == ASSUME JobInv, NEW h \in Jobs, Finish(h) PROVE JobInv'
BY IdlingIsJob, JobMoves DEF Finish

LEMMA SaveMoves == ASSUME JobInv, NEW h \in Jobs, Do(h, Save(job[h])) PROVE JobInv'
BY JobParts, SavedJob, JobMoves

-----------------------------------------------------------------------------
(* Types and one entry per tuple, action by action. *)
LEMMA TableDeleteTypes == ASSUME SlotsInv, NEW p, TableDelete(p) PROVE SlotsInv'
BY DEF SlotsInv, TableDelete

LEMMA RevokedType == ASSUME NEW n \in NftType, NEW p PROVE Revoked(n, p) \in NftType
BY DEF NftType, Revoked

LEMMA GrantedType ==
  ASSUME NEW n \in NftType, NEW p \in Ports, NEW r \in Request
  PROVE  Granted(n, p, r.client, r.int) \in NftType
<1>1. Target(p, r.client, r.int) \in TargetType
  BY DEF Target, TargetType, Request
<1> QED BY <1>1 DEF NftType, Granted

LEMMA AbortTypes == ASSUME SocksInv, NEW p, Abort(p) PROVE SocksInv'
<1> DEFINE mine == {k \in socks : k.port = p /\ p \in tasks}
           dead == {[k EXCEPT !.dying = TRUE] : k \in mine}
<1>1. tasks' = tasks \ {p} /\ (socks' = socks \ mine \/ socks' = (socks \ mine) \cup dead)
  BY DEF Abort
<1>2. socks \subseteq SockType /\ tasks \subseteq Ports
  BY DEF SocksInv
<1>3. mine \subseteq SockType
  BY <1>2
<1>4. dead \subseteq SockType
  <2>1. \A k \in SockType : [k EXCEPT !.dying = TRUE] \in SockType
    BY DEF SockType
  <2> QED BY <2>1, <1>3
<1> QED BY <1>1, <1>2, <1>4 DEF SocksInv

LEMMA StartGrantTypes ==
  ASSUME TypeInv, NEW h \in Workers, NEW r \in scene.requests, StartGrant(h, r)
  PROVE  TypeInv'
<1>1. h \in Jobs /\ r \in Request
  BY RequestsAssumption DEF TypeInv, RestInv, Request, Jobs
<1>2. [Idling EXCEPT !.at = "upsert", !.kind = "grant", !.req = r] \in Job
  <2> DEFINE k == [Idling EXCEPT !.at = "upsert", !.kind = "grant", !.req = r]
  <2>1. k \in JobShape /\ k.at = "upsert" /\ k.req = r
    BY <1>1, IdlingIsJob DEF Job, JobShape, Labels, Kinds
  <2> HIDE DEF k
  <2>2. Carries(k)
    BY <1>1, <2>1 DEF Carries, Placed
  <2> QED BY <2>1, <2>2 DEF Job, k
<1>3. JobInv'
  BY <1>1, <1>2, JobMoves DEF StartGrant, TypeInv
<1> QED BY <1>3 DEF StartGrant, TypeInv, SlotsInv, EntriesInv, SocksInv, NftInv, DiskInv, RestInv

(* A job that learns its port. *)
LEMMA PlacedJob ==
  ASSUME NEW j \in Job, j.req \in Request, NEW p \in Ports, NEW l \in {"entry", "datapath"}
  PROVE  [j EXCEPT !.at = l, !.port = p] \in Job
<1> DEFINE k == [j EXCEPT !.at = l, !.port = p]
<1>1. j \in JobShape /\ Carries(j)
  BY DEF Job
<1>2. k \in JobShape /\ k.at = l /\ k.req = j.req /\ k.port = p
  BY <1>1 DEF JobShape, Labels
<1> HIDE DEF k
<1>3. Carries(k)
  BY <1>2 DEF Carries
<1> QED BY <1>2, <1>3 DEF Job, k

LEMMA UpsertRefreshTypes == ASSUME TypeInv, NEW h \in Jobs, UpsertRefresh(h) PROVE TypeInv'
<1>1. JobInv /\ SlotsInv /\ job[h].at = "upsert"
  BY DEF TypeInv, UpsertRefresh, At
<1>2. job[h] \in Job /\ job[h].req \in Request
  BY <1>1, JobParts DEF Carries, Asking
<1>3. PICK s \in slots : /\ slots' = (slots \ {s}) \cup {[s EXCEPT !.stale = FALSE]}
                         /\ Do(h, [job[h] EXCEPT !.at = "entry", !.port = s.bind])
  BY DEF UpsertRefresh
<1>4. s \in SlotType
  BY <1>1 DEF SlotsInv
<1>5. SlotsInv'
  BY <1>1, <1>3, <1>4 DEF SlotsInv, SlotType, IsStatic
<1>6. JobInv'
  <2>1. s.bind \in Ports
    BY <1>4 DEF SlotType
  <2> QED BY <1>1, <1>2, <1>3, <2>1, PlacedJob, JobMoves
<1> QED BY <1>5, <1>6 DEF UpsertRefresh, TypeInv, EntriesInv, SocksInv, NftInv, DiskInv, RestInv

LEMMA UpsertNewTypes == ASSUME TypeInv, NEW h \in Jobs, UpsertNew(h) PROVE TypeInv'
<1>1. JobInv /\ SlotsInv /\ job[h].at = "upsert"
  BY DEF TypeInv, UpsertNew, At
<1>2. job[h] \in Job /\ job[h].req \in Request
  BY <1>1, JobParts DEF Carries, Asking
<1>3. PICK p \in FreePorts(slots, {}) :
        /\ slots' = slots \cup {FSlot(p, job[h].req.client, job[h].req.int)}
        /\ Do(h, [job[h] EXCEPT !.at = "datapath", !.port = p])
  BY DEF UpsertNew
<1>4. p \in Ports
  BY DEF FreePorts
<1>5. FSlot(p, job[h].req.client, job[h].req.int) \in SlotType
  BY <1>2, <1>4 DEF FSlot, SlotType, Request, IsStatic
<1>6. SlotsInv'
  BY <1>1, <1>3, <1>5 DEF SlotsInv
<1>7. JobInv'
  BY <1>1, <1>2, <1>3, <1>4, PlacedJob, JobMoves
<1> QED BY <1>6, <1>7 DEF UpsertNew, TypeInv, EntriesInv, SocksInv, NftInv, DiskInv, RestInv

LEMMA UpsertRefusedTypes == ASSUME TypeInv, NEW h \in Jobs, UpsertRefused(h) PROVE TypeInv'
<1>1. JobInv /\ job[h].at = "upsert" /\ (Finish(h) \/ Goto(h, "pick"))
  BY DEF TypeInv, UpsertRefused, At
<1>2. job[h].req \in Request
  BY <1>1, JobParts DEF Carries, Asking
<1>3. JobInv'
  BY <1>1, <1>2, FinishMoves, GotoMoves DEF Labels, Placed
<1> QED BY <1>3 DEF UpsertRefused, TypeInv, SlotsInv, EntriesInv, SocksInv, NftInv, DiskInv, RestInv

(* A job that turns to the teardown of a port. *)
LEMMA LeavingJob ==
  ASSUME NEW j \in Job, NEW o \in Ports, NEW k \in {"evict", "stray"}, NEW b \in BOOLEAN,
         j.req \in Request
  PROVE  [j EXCEPT !.at = "remove", !.kind = k, !.old = o, !.retried = b] \in Job
<1> DEFINE n == [j EXCEPT !.at = "remove", !.kind = k, !.old = o, !.retried = b]
<1>1. j \in JobShape /\ Carries(j)
  BY DEF Job
<1>2. n \in JobShape /\ n.at = "remove" /\ n.req = j.req
  BY <1>1 DEF JobShape, Labels, Kinds
<1> HIDE DEF n
<1>3. Carries(n)
  BY <1>2 DEF Carries, Placed
<1> QED BY <1>2, <1>3 DEF Job, n

LEMMA EvictPickTypes == ASSUME TypeInv, NEW h \in Jobs, EvictPick(h) PROVE TypeInv'
<1>1. JobInv /\ SlotsInv /\ job[h].at = "pick"
  BY DEF TypeInv, EvictPick, At
<1>2. job[h] \in Job /\ job[h].req \in Request
  BY <1>1, JobParts DEF Carries, Asking
<1>3. JobInv'
  <2>1. CASE Finish(h)
    BY <1>1, <2>1, FinishMoves
  <2>2. ASSUME NEW s \in slots,
               Do(h, [job[h] EXCEPT !.at = "remove", !.kind = "evict",
                                    !.old = s.bind, !.retried = TRUE])
        PROVE  JobInv'
    <3>1. s.bind \in Ports
      BY <1>1 DEF SlotsInv, SlotType
    <3> QED BY <1>1, <1>2, <2>2, <3>1, LeavingJob, JobMoves
  <2> QED BY <2>1, <2>2 DEF EvictPick
<1> QED BY <1>3 DEF EvictPick, TypeInv, SlotsInv, EntriesInv, SocksInv, NftInv, DiskInv, RestInv

LEMMA GrantDatapathTypes == ASSUME TypeInv, NEW h \in Jobs, GrantDatapath(h) PROVE TypeInv'
<1>1. JobInv /\ NftInv /\ job[h].at = "datapath"
  BY DEF TypeInv, GrantDatapath, At
<1>2. job[h].req \in Request /\ job[h].port \in Ports
  BY <1>1, JobParts DEF Carries, Asking, Placed
<1>3. NftInv' /\ JobInv'
  <2>1. CASE /\ nft' = Granted(nft, job[h].port, job[h].req.client, job[h].req.int)
             /\ Goto(h, "bind") /\ UNCHANGED tuples
    BY <1>1, <1>2, <2>1, GrantedType, GotoMoves DEF NftInv, Labels
  <2>2. CASE nft' = Revoked(nft, job[h].port) /\ RemoveTuple(job[h].port) /\ Goto(h, "undo")
    BY <1>1, <1>2, <2>2, RevokedType, GotoMoves DEF NftInv, RemoveTuple, Labels
  <2> QED BY <2>1, <2>2 DEF GrantDatapath
<1> QED BY <1>3 DEF GrantDatapath, TypeInv, SlotsInv, EntriesInv, SocksInv, DiskInv, RestInv

LEMMA SockTyped ==
  ASSUME NEW p \in Ports, NEW r \in Request
  PROVE  Sock(p, r.client, r.int) \in SockType
BY DEF Sock, SockType, Request

LEMMA BindSlotTypes == ASSUME TypeInv, NEW h \in Jobs, BindSlot(h) PROVE TypeInv'
<1>1. JobInv /\ NftInv /\ SocksInv /\ job[h].at = "bind"
  BY DEF TypeInv, BindSlot, At
<1>2. job[h].req \in Request /\ job[h].port \in Ports
  BY <1>1, JobParts DEF Carries, Asking, Placed
<1>3. NftInv' /\ SocksInv' /\ JobInv'
  <2>1. CASE /\ socks' = socks \cup {Sock(job[h].port, job[h].req.client, job[h].req.int)}
             /\ Goto(h, "register") /\ UNCHANGED nft
    BY <1>1, <1>2, <2>1, SockTyped, GotoMoves DEF NftInv, SocksInv, Labels, BindSlot
  <2>2. CASE /\ nft' = [nft EXCEPT !.accepted = @ \ {job[h].port}]
             /\ Goto(h, "undo") /\ UNCHANGED socks
    <3>1. nft' \in NftType
      BY <1>1, <2>2 DEF NftInv, NftType
    <3> QED BY <1>1, <1>2, <2>2, <3>1, GotoMoves DEF NftInv, SocksInv, Labels, BindSlot
  <2> QED BY <2>1, <2>2 DEF BindSlot
<1> QED BY <1>3 DEF BindSlot, TypeInv, SlotsInv, EntriesInv, DiskInv, RestInv

LEMMA UndoSlotTypes == ASSUME TypeInv, NEW h \in Jobs, UndoSlot(h) PROVE TypeInv'
<1>1. SlotsInv' /\ JobInv'
  BY TableDeleteTypes, FinishMoves DEF TypeInv, UndoSlot
<1> QED BY <1>1 DEF UndoSlot, TypeInv, EntriesInv, SocksInv, NftInv, DiskInv, RestInv

LEMMA RegisterTasksTypes == ASSUME TypeInv, NEW h \in Jobs, RegisterTasks(h) PROVE TypeInv'
<1>1. JobInv /\ SocksInv /\ job[h].at = "register"
  BY DEF TypeInv, RegisterTasks, At
<1>2. job[h].req \in Request /\ job[h].port \in Ports
  BY <1>1, JobParts DEF Carries, Asking, Placed
<1>3. JobInv' /\ SocksInv'
  BY <1>1, <1>2, GotoMoves DEF RegisterTasks, SocksInv, Labels
<1> QED BY <1>3 DEF RegisterTasks, TypeInv, SlotsInv, EntriesInv, NftInv, DiskInv, RestInv

LEMMA StrayJob ==
  ASSUME NEW j \in Job, NEW o \in Ports, j.req \in Request
  PROVE  Stray(j, o) \in Job
<1> DEFINE n == [j EXCEPT !.at = "remove", !.kind = "stray", !.old = o]
<1>1. j \in JobShape /\ Carries(j)
  BY DEF Job
<1>2. n \in JobShape /\ n.at = "remove" /\ n.req = j.req
  BY <1>1 DEF JobShape, Labels, Kinds
<1>3. Stray(j, o) = n
  BY DEF Stray
<1> HIDE DEF n
<1>4. Carries(n)
  BY <1>2 DEF Carries, Placed
<1> QED BY <1>2, <1>3, <1>4 DEF Job

(* An entry whose tuple no other entry has may take a place. *)
LEMMA EntryReplaced ==
  ASSUME NEW E, NEW D, OnePerTuple(E), D \subseteq E, NEW f,
         \A x \in D : ~(x.owner = f.owner /\ x.int = f.int)
  PROVE  OnePerTuple(D \cup {f})
<1> SUFFICES ASSUME NEW x \in D \cup {f}, NEW y \in D \cup {f}, x.owner = y.owner, x.int = y.int
             PROVE  x = y
  BY DEF OnePerTuple
<1>1. CASE x \in D /\ y \in D
  BY <1>1 DEF OnePerTuple
<1> QED BY <1>1

LEMMA ApplyEntryTypes == ASSUME TypeInv, NEW h \in Jobs, ApplyEntry(h) PROVE TypeInv'
<1> DEFINE r == job[h].req
           p == job[h].port
<1>1. JobInv /\ EntriesInv /\ job[h].at = "entry"
  BY DEF TypeInv, ApplyEntry, At
<1>2. job[h] \in Job /\ r \in Request /\ p \in Ports
  BY <1>1, JobParts DEF Carries, Asking, Placed
<1>3. entries \subseteq EntryType /\ OnePerTuple(entries)
  BY <1>1 DEF EntriesInv
<1>4. ASSUME Do(h, Save(job[h])) PROVE JobInv'
  BY <1>1, <1>4, SaveMoves
<1>5. CASE \E e \in entries : /\ SameTuple(e, r)
                              /\ entries' = (entries \ {e}) \cup {[e EXCEPT !.ext = r.ext]}
                              /\ Do(h, Save(job[h]))
  <2>1. PICK e \in entries : entries' = (entries \ {e}) \cup {[e EXCEPT !.ext = r.ext]}
    BY <1>5
  <2> DEFINE f == [e EXCEPT !.ext = r.ext]
  <2>2. f \in EntryType /\ f.owner = e.owner /\ f.int = e.int
    BY <1>2, <1>3 DEF EntryType, Request
  <2> HIDE DEF f
  <2>3. entries' = (entries \ {e}) \cup {f}
    BY <2>1 DEF f
  <2>4. \A x \in entries \ {e} : ~(x.owner = f.owner /\ x.int = f.int)
    BY <1>3, <2>2 DEF OnePerTuple
  <2>5. OnePerTuple((entries \ {e}) \cup {f})
    BY <1>3, <2>4, EntryReplaced
  <2>6. EntriesInv'
    BY <1>3, <2>2, <2>3, <2>5 DEF EntriesInv
  <2> QED BY <1>4, <1>5, <2>6
             DEF ApplyEntry, TypeInv, SlotsInv, SocksInv, NftInv, DiskInv, RestInv
<1>6. CASE \E e \in entries :
             /\ e.owner = r.owner /\ (\A x \in entries : ~SameTuple(x, r))
             /\ entries' = (entries \ {e})
                  \cup {[e EXCEPT !.client = r.client, !.int = r.int, !.bind = p]}
             /\ IF e.bind # p THEN Do(h, Stray(job[h], e.bind)) ELSE Do(h, Save(job[h]))
  <2>1. PICK e \in entries :
             /\ e.owner = r.owner
             /\ entries' = (entries \ {e})
                  \cup {[e EXCEPT !.client = r.client, !.int = r.int, !.bind = p]}
             /\ IF e.bind # p THEN Do(h, Stray(job[h], e.bind)) ELSE Do(h, Save(job[h]))
    BY <1>6
  <2> DEFINE f == [e EXCEPT !.client = r.client, !.int = r.int, !.bind = p]
  <2>2. f \in EntryType /\ f.owner = r.owner /\ f.int = r.int /\ e.bind \in Ports
    BY <1>2, <1>3, <2>1 DEF EntryType, Request
  <2> HIDE DEF f
  <2>3. entries' = (entries \ {e}) \cup {f}
    BY <2>1 DEF f
  <2>4. \A x \in entries \ {e} : ~(x.owner = f.owner /\ x.int = f.int)
    BY <1>6, <2>2 DEF SameTuple
  <2>5. OnePerTuple((entries \ {e}) \cup {f})
    BY <1>3, <2>4, EntryReplaced
  <2>6. EntriesInv'
    BY <1>3, <2>2, <2>3, <2>5 DEF EntriesInv
  <2>7. JobInv'
    BY <1>1, <1>2, <1>4, <2>1, <2>2, StrayJob, JobMoves
  <2> QED BY <2>6, <2>7
             DEF ApplyEntry, TypeInv, SlotsInv, SocksInv, NftInv, DiskInv, RestInv
<1>7. CASE /\ \A x \in entries : ~SameTuple(x, r)
           /\ entries' = entries \cup {[ext |-> r.ext, owner |-> r.owner,
                                        client |-> r.client, int |-> r.int, bind |-> p]}
           /\ Do(h, Save(job[h]))
  <2> DEFINE f == [ext |-> r.ext, owner |-> r.owner, client |-> r.client, int |-> r.int, bind |-> p]
  <2>1. f \in EntryType /\ f.owner = r.owner /\ f.int = r.int
    BY <1>2 DEF EntryType, Request
  <2>2. entries' = entries \cup {f}
    BY <1>7
  <2> HIDE DEF f
  <2>4. \A x \in entries : ~(x.owner = f.owner /\ x.int = f.int)
    BY <1>7, <2>1 DEF SameTuple
  <2>5. OnePerTuple(entries \cup {f})
    BY <1>3, <2>4, EntryReplaced
  <2>3. EntriesInv'
    BY <1>3, <2>1, <2>2, <2>5 DEF EntriesInv
  <2> QED BY <1>4, <1>7, <2>3
             DEF ApplyEntry, TypeInv, SlotsInv, SocksInv, NftInv, DiskInv, RestInv
<1> QED BY <1>5, <1>6, <1>7 DEF ApplyEntry

LEMMA RemoveTypes == ASSUME TypeInv, NEW h \in Jobs, Remove(h) PROVE TypeInv'
<1>1. SlotsInv' /\ JobInv'
  BY TableDeleteTypes, GotoMoves DEF TypeInv, Remove, Labels, Asking, Placed
<1> QED BY <1>1 DEF Remove, TypeInv, EntriesInv, SocksInv, NftInv, DiskInv, RestInv

LEMMA RevokeTypes == ASSUME TypeInv, NEW h \in Jobs, Revoke(h) PROVE TypeInv'
<1>1. JobInv'
  BY GotoMoves DEF TypeInv, Revoke, Labels, Asking, Placed
<1>2. NftInv'
  BY RevokedType DEF TypeInv, NftInv, Revoke, RemoveTuple
<1> QED BY <1>1, <1>2 DEF Revoke, TypeInv, SlotsInv, EntriesInv, SocksInv, DiskInv, RestInv

LEMMA AbortTasksTypes == ASSUME TypeInv, NEW h \in Jobs, AbortTasks(h) PROVE TypeInv'
<1>1. JobInv /\ SocksInv /\ Abort(job[h].old) /\ Do(h, AfterAbort(job[h]))
  BY DEF TypeInv, AbortTasks
<1>2. AfterAbort(job[h]) \in Job
  BY <1>1, JobParts, SavedJob, MovedJob DEF AfterAbort, Labels, Asking, Placed
<1>3. JobInv' /\ SocksInv'
  BY <1>1, <1>2, JobMoves, AbortTypes
<1> QED BY <1>3 DEF AbortTasks, TypeInv, SlotsInv, EntriesInv, NftInv, DiskInv, RestInv

LEMMA ForgetTypes == ASSUME TypeInv, NEW h \in Jobs, Forget(h) PROVE TypeInv'
<1>1. JobInv /\ job[h] \in JobShape /\ Carries(job[h]) /\ entries' \subseteq entries
  BY JobParts DEF TypeInv, Forget
<1>2. EntriesInv'
  BY <1>1 DEF TypeInv, EntriesInv, OnePerTuple
<1>3. ASSUME NEW p \in job[h].freed,
             Do(h, [job[h] EXCEPT !.at = "revoke", !.old = p, !.freed = @ \ {p}])
      PROVE  JobInv'
  <2> DEFINE k == [job[h] EXCEPT !.at = "revoke", !.old = p, !.freed = @ \ {p}]
  <2>1. k \in JobShape /\ k.at = "revoke" /\ k.req = job[h].req /\ k.kind = job[h].kind
    BY <1>1 DEF JobShape, Labels
  <2>2. Do(h, k)
    BY <1>3
  <2> HIDE DEF k
  <2>3. Carries(k)
    BY <1>1, <2>1 DEF Carries, Asking, Placed
  <2>4. k \in Job
    BY <2>1, <2>3 DEF Job
  <2> QED BY <1>1, <2>2, <2>4, JobMoves
<1>4. JobInv'
  BY <1>1, <1>3, SaveMoves DEF Forget
<1> QED BY <1>2, <1>4 DEF Forget, TypeInv, SlotsInv, SocksInv, NftInv, DiskInv, RestInv

LEMMA StartDeleteTypes ==
  ASSUME TypeInv, NEW h \in Jobs, NEW use, NEW labels \in SUBSET LabelType, StartDelete(h, use, labels)
  PROVE  TypeInv'
<1> DEFINE k == [Idling EXCEPT !.at = "find", !.kind = "delete", !.todo = labels]
<1>1. k \in JobShape /\ k.at = "find" /\ k.kind = "delete"
  BY IdlingIsJob DEF Job, JobShape, Labels, Kinds
<1>2. Do(h, k)
  BY DEF StartDelete
<1> HIDE DEF k
<1>3. Carries(k)
  BY <1>1 DEF Carries, Asking, Placed
<1>4. k \in Job
  BY <1>1, <1>3 DEF Job
<1>5. JobInv'
  BY <1>2, <1>4, JobMoves DEF TypeInv
<1> QED BY <1>5 DEF StartDelete, TypeInv, SlotsInv, EntriesInv, SocksInv, NftInv, DiskInv, RestInv

LEMMA LabelTyped == ASSUME NEW e \in EntryType PROVE Label(e) \in LabelType
BY DEF EntryType, Label, LabelType

LEMMA DeletingTypes ==
  ASSUME TypeInv, NEW h \in Jobs,
         \/ \E r \in scene.requests : DeleteMapping(h, [ext |-> r.ext, owner |-> r.owner])
         \/ \E c \in Clients : DeleteRange(h, c)
         \/ \E c \in Clients, i \in IntPorts : DeleteKey(h, c, i)
         \/ h = Collector /\ \E gone \in SUBSET Clients : ReapAbsent(gone)
  PROVE  TypeInv'
<1>1. entries \subseteq EntryType
  BY DEF TypeInv, EntriesInv
<1>2. \A e \in entries : Label(e) \in LabelType
  BY <1>1, LabelTyped
<1>3. ASSUME NEW r \in scene.requests, DeleteMapping(h, [ext |-> r.ext, owner |-> r.owner])
      PROVE  TypeInv'
  <2>1. [ext |-> r.ext, owner |-> r.owner] \in LabelType
    BY RequestsAssumption DEF TypeInv, RestInv, LabelType
  <2> QED BY <1>3, <2>1, StartDeleteTypes DEF DeleteMapping
<1>4. ASSUME NEW c \in Clients, DeleteRange(h, c) PROVE TypeInv'
  BY <1>2, <1>4, StartDeleteTypes DEF DeleteRange
<1>5. ASSUME NEW c \in Clients, NEW i \in IntPorts, DeleteKey(h, c, i) PROVE TypeInv'
  <2>1. PICK e \in entries : StartDelete(h, "pcp", {Label(e)})
    BY <1>5 DEF DeleteKey
  <2> QED BY <1>2, <2>1, StartDeleteTypes
<1>6. ASSUME h = Collector, NEW gone \in SUBSET Clients, ReapAbsent(gone) PROVE TypeInv'
  BY <1>2, <1>6, StartDeleteTypes DEF ReapAbsent
<1> QED BY <1>3, <1>4, <1>5, <1>6

LEMMA FindEntryTypes == ASSUME TypeInv, NEW h \in Jobs, FindEntry(h) PROVE TypeInv'
<1>1. JobInv /\ job[h] \in JobShape /\ Carries(job[h]) /\ entries \subseteq EntryType
  BY JobParts DEF TypeInv, EntriesInv
<1>2. job[h].at = "find"
  BY DEF FindEntry, At
<1>3. JobInv'
  <2>1. PICK l \in job[h].todo :
          LET rest == [job[h] EXCEPT !.todo = @ \ {l}] IN
          \/ \E e \in entries :
               Do(h, [rest EXCEPT !.at = "remove", !.old = e.bind,
                                  !.req = [ext |-> e.ext, owner |-> e.owner,
                                           client |-> e.client, int |-> e.int]])
          \/ Do(h, AfterSave(rest))
    BY DEF FindEntry
  <2> DEFINE rest == [job[h] EXCEPT !.todo = @ \ {l}]
  <2>2. rest \in JobShape /\ rest.at = "find" /\ rest.kind = job[h].kind /\ rest.req = job[h].req
    BY <1>1, <1>2 DEF JobShape
  <2> HIDE DEF rest
  <2>3. Carries(rest)
    BY <1>1, <2>2 DEF Carries, Asking, Placed
  <2>4. rest \in Job
    BY <2>2, <2>3 DEF Job
  <2>5. ASSUME NEW e \in entries,
               Do(h, [rest EXCEPT !.at = "remove", !.old = e.bind,
                                  !.req = [ext |-> e.ext, owner |-> e.owner,
                                           client |-> e.client, int |-> e.int]])
        PROVE  JobInv'
    <3> DEFINE q == [ext |-> e.ext, owner |-> e.owner, client |-> e.client, int |-> e.int]
    <3>1. q \in Request /\ e.bind \in Ports
      BY <1>1 DEF EntryType, Request
    <3>2. Do(h, [rest EXCEPT !.at = "remove", !.old = e.bind, !.req = q])
      BY <2>5
    <3> HIDE DEF q
    <3> DEFINE k == [rest EXCEPT !.at = "remove", !.old = e.bind, !.req = q]
    <3>3. k \in JobShape /\ k.at = "remove" /\ k.req = q
      BY <2>2, <3>1 DEF JobShape, Labels
    <3>4. Do(h, k)
      BY <3>2
    <3> HIDE DEF k
    <3>5. Carries(k)
      BY <3>1, <3>3 DEF Carries, Placed
    <3>6. k \in Job
      BY <3>3, <3>5 DEF Job
    <3> QED BY <1>1, <3>4, <3>6, JobMoves
  <2>6. ASSUME Do(h, AfterSave(rest)) PROVE JobInv'
    BY <1>1, <2>4, <2>6, SavedJob, JobMoves
  <2> QED BY <2>1, <2>5, <2>6 DEF rest
<1> QED BY <1>3 DEF FindEntry, TypeInv, SlotsInv, EntriesInv, SocksInv, NftInv, DiskInv, RestInv

LEMMA SweepTypes == ASSUME TypeInv, Sweep PROVE TypeInv'
<1> DEFINE stale == {s \in slots : ~IsStatic(s) /\ s.stale}
           freed == PortsOf(stale)
<1>1. JobInv /\ slots \subseteq SlotType /\ Collector \in Jobs /\ slots' \subseteq slots
  BY DEF TypeInv, SlotsInv, Jobs, Sweep
<1>2. freed \subseteq Ports
  BY <1>1 DEF PortsOf, SlotType
<1>3. PICK p \in freed :
        Do(Collector, [Idling EXCEPT !.at = "revoke", !.kind = "sweep", !.old = p, !.freed = freed \ {p}])
  BY DEF Sweep
<1> HIDE DEF freed
<1> DEFINE k == [Idling EXCEPT !.at = "revoke", !.kind = "sweep", !.old = p, !.freed = freed \ {p}]
<1>4. k \in JobShape /\ k.at = "revoke" /\ k.kind = "sweep"
  BY <1>2, IdlingIsJob DEF Job, JobShape, Labels, Kinds
<1>5. Do(Collector, k)
  BY <1>3
<1> HIDE DEF k
<1>6. Carries(k)
  BY <1>4 DEF Carries, Asking, Placed
<1>7. k \in Job
  BY <1>4, <1>6 DEF Job
<1>8. JobInv' /\ SlotsInv'
  BY <1>1, <1>5, <1>7, JobMoves DEF SlotsInv
<1> QED BY <1>8 DEF Sweep, TypeInv, EntriesInv, SocksInv, NftInv, DiskInv, RestInv

LEMMA StartYieldTypes == ASSUME TypeInv, NEW old, StartYield(old) PROVE TypeInv'
<1>1. JobInv /\ entries \subseteq EntryType /\ Collector \in Jobs
  BY DEF TypeInv, EntriesInv, Jobs
<1>2. PICK e \in entries :
        /\ e.bind = old
        /\ Do(Collector, [Idling EXCEPT !.at = "move", !.kind = "yield", !.old = old,
                          !.req = [ext |-> e.ext, owner |-> e.owner,
                                   client |-> e.client, int |-> e.int]])
  BY DEF StartYield
<1> DEFINE q == [ext |-> e.ext, owner |-> e.owner, client |-> e.client, int |-> e.int]
<1>3. q \in Request /\ old \in Ports
  BY <1>1, <1>2 DEF EntryType, Request
<1>4. Do(Collector, [Idling EXCEPT !.at = "move", !.kind = "yield", !.old = old, !.req = q])
  BY <1>2
<1> HIDE DEF q
<1> DEFINE k == [Idling EXCEPT !.at = "move", !.kind = "yield", !.old = old, !.req = q]
<1>5. k \in JobShape /\ k.at = "move" /\ k.old = old /\ k.req = q
  BY <1>3, IdlingIsJob DEF Job, JobShape, Labels, Kinds
<1>6. Do(Collector, k)
  BY <1>4
<1> HIDE DEF k
<1>7. Carries(k)
  BY <1>3, <1>5 DEF Carries, Placed
<1>8. k \in Job
  BY <1>5, <1>7 DEF Job
<1>9. JobInv'
  BY <1>1, <1>6, <1>8, JobMoves
<1> QED BY <1>9 DEF StartYield, TypeInv, SlotsInv, EntriesInv, SocksInv, NftInv, DiskInv, RestInv

LEMMA MovedSlot ==
  ASSUME NEW s \in SlotType, NEW p \in Ports
  PROVE  [s EXCEPT !.bind = p] \in SlotType
BY DEF SlotType, IsStatic

LEMMA MoveLeaseTypes == ASSUME TypeInv, NEW h \in Jobs, MoveLease(h) PROVE TypeInv'
<1>1. JobInv /\ slots \subseteq SlotType /\ job[h].at = "move"
  BY DEF TypeInv, SlotsInv, MoveLease, At
<1>2. job[h] \in JobShape /\ job[h].req \in Request /\ job[h].old \in Ports
  BY <1>1, JobParts DEF Carries, Asking
<1>3. SlotsInv' /\ JobInv'
  <2>1. ASSUME NEW s \in slots, NEW p \in FreePorts(slots, {}),
               slots' = (slots \ {s}) \cup {[s EXCEPT !.bind = p]},
               Do(h, [job[h] EXCEPT !.at = "rebind", !.port = p])
        PROVE  SlotsInv' /\ JobInv'
    <3>1. p \in Ports
      BY DEF FreePorts
    <3>2. SlotsInv'
      BY <1>1, <2>1, <3>1, MovedSlot DEF SlotsInv
    <3> DEFINE k == [job[h] EXCEPT !.at = "rebind", !.port = p]
    <3>3. k \in JobShape /\ k.at = "rebind" /\ k.port = p /\ k.old = job[h].old /\ k.req = job[h].req
      BY <1>2, <3>1 DEF JobShape, Labels
    <3>4. Do(h, k)
      BY <2>1
    <3> HIDE DEF k
    <3>5. Carries(k)
      BY <1>2, <3>1, <3>3 DEF Carries
    <3>6. k \in Job
      BY <3>3, <3>5 DEF Job
    <3> QED BY <1>1, <3>2, <3>4, <3>6, JobMoves
  <2>2. CASE Finish(h) /\ UNCHANGED slots
    BY <1>1, <2>2, FinishMoves DEF SlotsInv
  <2> QED BY <2>1, <2>2 DEF MoveLease
<1> QED BY <1>3 DEF MoveLease, TypeInv, EntriesInv, SocksInv, NftInv, DiskInv, RestInv

LEMMA RebindTypes == ASSUME TypeInv, NEW h \in Jobs, Rebind(h) PROVE TypeInv'
<1>1. JobInv /\ SocksInv /\ job[h].at = "rebind"
  BY DEF TypeInv, Rebind, At
<1>2. job[h].req \in Request /\ job[h].port \in Ports /\ job[h].old \in Ports
  BY <1>1, JobParts DEF Carries, Asking, Placed
<1>3. SocksInv' /\ JobInv'
  <2>1. CASE /\ socks' = socks \cup {Sock(job[h].port, job[h].req.client, job[h].req.int)}
             /\ Goto(h, "redirect")
    BY <1>1, <1>2, <2>1, SockTyped, GotoMoves DEF SocksInv, Labels, Rebind
  <2>2. CASE Goto(h, "moveback") /\ UNCHANGED socks
    BY <1>1, <1>2, <2>2, GotoMoves DEF SocksInv, Labels, Asking, Rebind
  <2> QED BY <2>1, <2>2 DEF Rebind
<1> QED BY <1>3 DEF Rebind, TypeInv, SlotsInv, EntriesInv, NftInv, DiskInv, RestInv

LEMMA MoveBackTypes == ASSUME TypeInv, NEW h \in Jobs, MoveBack(h) PROVE TypeInv'
<1>1. JobInv /\ slots \subseteq SlotType /\ job[h].at = "moveback"
  BY DEF TypeInv, SlotsInv, MoveBack, At
<1>2. job[h].old \in Ports
  BY <1>1, JobParts DEF Carries
<1>3. SlotsInv'
  <2>1. CASE job[h].port \in PortsOf(slots)
    <3>1. PICK s \in slots : slots' = (slots \ {s}) \cup {[s EXCEPT !.bind = job[h].old]}
      BY <2>1 DEF MoveBack
    <3> QED BY <1>1, <1>2, <3>1, MovedSlot DEF SlotsInv
  <2>2. CASE job[h].port \notin PortsOf(slots)
    BY <1>1, <2>2 DEF MoveBack, SlotsInv
  <2> QED BY <2>1, <2>2
<1>4. JobInv'
  BY <1>1, FinishMoves DEF MoveBack
<1> QED BY <1>3, <1>4 DEF MoveBack, TypeInv, EntriesInv, SocksInv, NftInv, DiskInv, RestInv

LEMMA RedirectTypes == ASSUME TypeInv, NEW h \in Jobs, Redirect(h) PROVE TypeInv'
<1> DEFINE g == Granted(nft, job[h].port, job[h].req.client, job[h].req.int)
<1>1. JobInv /\ NftInv /\ job[h].at = "redirect"
  BY DEF TypeInv, Redirect, At
<1>2. job[h].req \in Request /\ job[h].port \in Ports
  BY <1>1, JobParts DEF Carries, Asking, Placed
<1>3. g \in NftType
  BY <1>1, <1>2, GrantedType DEF NftInv
<1>4. nft' = g \/ nft' = nft \/ nft' = [g EXCEPT !.accepted = nft.accepted]
  BY DEF Redirect
<1> HIDE DEF g
<1>5. nft' \in NftType
  BY <1>1, <1>3, <1>4 DEF NftInv, NftType
<1>6. NftInv' /\ JobInv'
  BY <1>1, <1>2, <1>5, GotoMoves DEF Redirect, NftInv, Labels, Asking
<1>7. refused' \in BOOLEAN
  <2>1. refused' = refused \/ refused' = TRUE
    BY DEF Redirect
  <2> QED BY <2>1 DEF TypeInv, RestInv
<1>8. RestInv'
  BY <1>7 DEF Redirect, TypeInv, RestInv
<1> QED BY <1>6, <1>8 DEF Redirect, TypeInv, SlotsInv, EntriesInv, SocksInv, DiskInv

LEMMA ReregisterTypes == ASSUME TypeInv, NEW h \in Jobs, Reregister(h) PROVE TypeInv'
<1>1. JobInv /\ NftInv /\ SocksInv /\ job[h].at = "reregister"
  BY DEF TypeInv, Reregister, At
<1>2. job[h].port \in Ports
  BY <1>1, JobParts DEF Carries, Placed
<1>3. NftInv' /\ SocksInv' /\ JobInv'
  BY <1>1, <1>2, RevokedType, GotoMoves DEF Reregister, NftInv, SocksInv, Labels, Asking
<1> QED BY <1>3 DEF Reregister, TypeInv, SlotsInv, EntriesInv, DiskInv, RestInv

LEMMA ReleaseOldTypes == ASSUME TypeInv, NEW h \in Jobs, ReleaseOld(h) PROVE TypeInv'
<1>1. JobInv /\ NftInv /\ SocksInv /\ job[h].at = "release"
  BY DEF TypeInv, ReleaseOld, At
<1>2. job[h].port \in Ports
  BY <1>1, JobParts DEF Carries, Placed
<1>3. JobInv' /\ SocksInv' /\ NftInv'
  BY <1>1, <1>2, AbortTypes, GotoMoves DEF ReleaseOld, RemoveTuple, NftInv, Labels, Asking
<1> QED BY <1>3 DEF ReleaseOld, TypeInv, SlotsInv, EntriesInv, DiskInv, RestInv

LEMMA ReindexTypes == ASSUME TypeInv, NEW h \in Jobs, Reindex(h) PROVE TypeInv'
<1>1. JobInv /\ entries \subseteq EntryType /\ OnePerTuple(entries) /\ job[h].at = "reindex"
  BY DEF TypeInv, EntriesInv, Reindex, At
<1>2. job[h].port \in Ports
  BY <1>1, JobParts DEF Carries, Placed
<1>3. EntriesInv'
  <2>1. CASE \E e \in entries : e.bind = job[h].old
    <3>1. PICK e \in entries : entries' = (entries \ {e}) \cup {[e EXCEPT !.bind = job[h].port]}
      BY <2>1 DEF Reindex
    <3> DEFINE f == [e EXCEPT !.bind = job[h].port]
    <3>2. f \in EntryType /\ f.owner = e.owner /\ f.int = e.int
      BY <1>1, <1>2 DEF EntryType
    <3>3. entries' = (entries \ {e}) \cup {f}
      BY <3>1
    <3> HIDE DEF f
    <3>4. \A x \in entries \ {e} : ~(x.owner = f.owner /\ x.int = f.int)
      BY <1>1, <3>2 DEF OnePerTuple
    <3>5. OnePerTuple((entries \ {e}) \cup {f})
      BY <1>1, <3>4, EntryReplaced
    <3> QED BY <1>1, <3>2, <3>3, <3>5 DEF EntriesInv
  <2>2. CASE ~\E e \in entries : e.bind = job[h].old
    BY <1>1, <2>2 DEF Reindex, EntriesInv
  <2> QED BY <2>1, <2>2
<1>4. JobInv'
  BY <1>1, SaveMoves DEF Reindex
<1> QED BY <1>3, <1>4 DEF Reindex, TypeInv, SlotsInv, SocksInv, NftInv, DiskInv, RestInv

(* persist: what is copied has the rows of the file it is copied for. *)
LEMMA RowsOfSlots ==
  ASSUME NEW T \in SUBSET SlotType
  PROVE  {Row(s) : s \in Grants(T)} \subseteq RowType
BY DEF Row, Grants, RowType, SlotType, IsStatic

LEMMA CopyTableTypes == ASSUME TypeInv, NEW h \in Jobs, CopyTable(h) PROVE TypeInv'
<1> DEFINE rows == {Row(s) : s \in Grants(slots)}
<1>1. JobInv /\ job[h] \in JobShape /\ Carries(job[h]) /\ job[h].at = "snapshot"
  BY JobParts DEF TypeInv, CopyTable, At
<1>2. rows \subseteq RowType
  BY RowsOfSlots DEF TypeInv, SlotsInv
<1>3. Do(h, [job[h] EXCEPT !.at = "leases", !.rows = rows])
  BY DEF CopyTable
<1> HIDE DEF rows
<1> DEFINE k == [job[h] EXCEPT !.at = "leases", !.rows = rows]
<1>4. k \in JobShape /\ k.at = "leases" /\ k.kind = job[h].kind /\ k.req = job[h].req /\ k.rows = rows
  BY <1>1, <1>2 DEF JobShape, Labels
<1>5. Do(h, k)
  BY <1>3
<1> HIDE DEF k
<1>6. Carries(k)
  BY <1>1, <1>2, <1>4 DEF Carries, Asking, Placed
<1>7. k \in Job
  BY <1>4, <1>6 DEF Job
<1>8. JobInv'
  BY <1>1, <1>5, <1>7, JobMoves
<1> QED BY <1>8 DEF CopyTable, TypeInv, SlotsInv, EntriesInv, SocksInv, NftInv, DiskInv, RestInv

LEMMA WriteLeasesTypes == ASSUME TypeInv, NEW h \in Jobs, WriteLeases(h) PROVE TypeInv'
<1>1. JobInv /\ job[h] \in JobShape /\ Carries(job[h]) /\ job[h].at = "leases" /\ DiskInv
  BY JobParts DEF TypeInv, WriteLeases, At
<1>2. DiskInv'
  BY <1>1 DEF WriteLeases, DiskInv, DiskType, Carries
<1> DEFINE k == [job[h] EXCEPT !.at = "copyindex", !.rows = {}]
<1>3. k \in JobShape /\ k.at = "copyindex" /\ k.kind = job[h].kind /\ k.req = job[h].req
  BY <1>1 DEF JobShape, Labels
<1>4. Do(h, k)
  BY DEF WriteLeases
<1> HIDE DEF k
<1>5. Carries(k)
  BY <1>1, <1>3 DEF Carries, Asking, Placed
<1>6. k \in Job
  BY <1>3, <1>5 DEF Job
<1>7. JobInv'
  BY <1>1, <1>4, <1>6, JobMoves
<1> QED BY <1>2, <1>7 DEF WriteLeases, TypeInv, SlotsInv, EntriesInv, SocksInv, NftInv, RestInv

LEMMA CopyIndexTypes == ASSUME TypeInv, NEW h \in Jobs, CopyIndex(h) PROVE TypeInv'
<1>1. JobInv /\ job[h] \in JobShape /\ Carries(job[h]) /\ job[h].at = "copyindex"
  BY JobParts DEF TypeInv, CopyIndex, At
<1>2. entries \subseteq EntryType /\ OnePerTuple(entries)
  BY DEF TypeInv, EntriesInv
<1> DEFINE k == [job[h] EXCEPT !.at = "index", !.rows = entries]
<1>3. k \in JobShape /\ k.at = "index" /\ k.kind = job[h].kind /\ k.req = job[h].req /\ k.rows = entries
  BY <1>1, <1>2 DEF JobShape, Labels
<1>4. Do(h, k)
  BY DEF CopyIndex
<1> HIDE DEF k
<1>5. Carries(k)
  BY <1>1, <1>2, <1>3 DEF Carries, Asking, Placed
<1>6. k \in Job
  BY <1>3, <1>5 DEF Job
<1>7. JobInv'
  BY <1>1, <1>4, <1>6, JobMoves
<1> QED BY <1>7 DEF CopyIndex, TypeInv, SlotsInv, EntriesInv, SocksInv, NftInv, DiskInv, RestInv

LEMMA WriteIndexTypes == ASSUME TypeInv, NEW h \in Jobs, WriteIndex(h) PROVE TypeInv'
<1>1. JobInv /\ job[h] \in JobShape /\ Carries(job[h]) /\ job[h].at = "index" /\ DiskInv
  BY JobParts DEF TypeInv, WriteIndex, At
<1>2. job[h].rows \subseteq EntryType /\ OnePerTuple(job[h].rows)
  BY <1>1 DEF Carries
<1>3. DiskInv'
  BY <1>1, <1>2 DEF WriteIndex, DiskInv, DiskType
<1> DEFINE k == [job[h] EXCEPT !.rows = {}]
<1>4. k \in JobShape /\ k.at = "index" /\ k.kind = job[h].kind /\ k.req = job[h].req /\ k.rows = {}
  BY <1>1 DEF JobShape
<1>5. Do(h, AfterSave(k))
  BY DEF WriteIndex
<1> HIDE DEF k
<1>6. Carries(k)
  BY <1>1, <1>4 DEF Carries, Asking, Placed, OnePerTuple
<1>7. k \in Job
  BY <1>4, <1>6 DEF Job
<1>8. JobInv'
  BY <1>1, <1>5, <1>7, SavedJob, JobMoves
<1> QED BY <1>3, <1>8 DEF WriteIndex, TypeInv, SlotsInv, EntriesInv, SocksInv, NftInv, RestInv

-----------------------------------------------------------------------------
(* The environment. *)
LEMMA AgeTypes == ASSUME TypeInv, NEW s \in slots, Age(s) \/ Touch(s) PROVE TypeInv'
<1>1. PICK b \in BOOLEAN : slots' = (slots \ {s}) \cup {[s EXCEPT !.stale = b]}
  BY DEF Age, Touch
<1>2. s \in SlotType
  BY DEF TypeInv, SlotsInv
<1>3. [s EXCEPT !.stale = b] \in SlotType
  BY <1>2 DEF SlotType, IsStatic
<1>4. SlotsInv'
  BY <1>1, <1>3 DEF TypeInv, SlotsInv
<1> QED BY <1>4 DEF Age, Touch, TypeInv, EntriesInv, SocksInv, NftInv, DiskInv, JobInv, RestInv, Do

LEMMA PublishTypes == ASSUME TypeInv, NEW k \in socks, Publish(k) \/ CloseSock(k) PROVE TypeInv'
<1>1. k \in SockType
  BY DEF TypeInv, SocksInv
<1>2. CASE Publish(k)
  <2>1. Target(k.port, k.client, k.int) \in TargetType
    BY <1>1 DEF Target, TargetType, SockType
  <2>2. NftInv'
    BY <1>2, <2>1 DEF Publish, TypeInv, NftInv
  <2> QED BY <1>2, <2>2 DEF Publish, TypeInv, SlotsInv, EntriesInv, SocksInv, DiskInv, JobInv, RestInv
<1>3. CASE CloseSock(k)
  <2>1. SocksInv'
    BY <1>3 DEF CloseSock, TypeInv, SocksInv
  <2> QED BY <1>3, <2>1 DEF CloseSock, TypeInv, SlotsInv, EntriesInv, NftInv, DiskInv, JobInv, RestInv
<1> QED BY <1>2, <1>3

LEMMA CancelTypes == ASSUME TypeInv, NEW h \in Workers, Cancel(h) PROVE TypeInv'
<1>1. JobInv'
  BY FinishMoves DEF Cancel, TypeInv, Jobs
<1> QED BY <1>1 DEF Cancel, TypeInv, SlotsInv, EntriesInv, SocksInv, NftInv, DiskInv, RestInv

LEMMA CrashTypes == ASSUME TypeInv, Crash PROVE TypeInv'
<1>1. JobInv'
  BY IdlingIsJob DEF Crash, JobInv
<1>2. SlotsInv' /\ EntriesInv' /\ SocksInv'
  BY DEF Crash, SlotsInv, EntriesInv, SocksInv, OnePerTuple
<1>3. up' \in BOOLEAN
  BY DEF Crash
<1> QED BY <1>1, <1>2, <1>3 DEF Crash, TypeInv, NftInv, DiskInv, RestInv

LEMMA StaticTyped ==
  ASSUME NEW S \in StaticConfigs, NEW p \in S
  PROVE  /\ p \in Ports
         /\ FSlot(p, Operator, 0) \in SlotType
         /\ Sock(p, Operator, 0) \in SockType
         /\ Target(p, Operator, 0) \in TargetType
BY StaticsAssumption DEF FSlot, Sock, Target, SlotType, SockType, TargetType, IsStatic

LEMMA RestoredTypes ==
  ASSUME DiskInv, NEW S \in StaticConfigs
  PROVE  /\ RestoredSlots(S) \subseteq SlotType
         /\ RestoredEntries(RestoredSlots(S)) \subseteq disk.index
<1>1. \A r \in disk.leases : FSlot(r.bind, r.client, r.int) \in SlotType
  BY DEF DiskInv, DiskType, RowType, FSlot, SlotType, IsStatic
<1>2. \A p \in S : FSlot(p, Operator, 0) \in SlotType
  BY StaticTyped
<1> QED BY <1>1, <1>2 DEF RestoredSlots, RestoredEntries

LEMMA BootTypes == ASSUME TypeInv, NEW S \in StaticConfigs, Boot(S) PROVE TypeInv'
<1> DEFINE T == RestoredSlots(S)
           owned == {e \in RestoredEntries(T) : e.bind \notin S}
<1>1. NftInv /\ DiskInv /\ JobInv /\ RestInv
  BY DEF TypeInv
<1>2. T \subseteq SlotType /\ RestoredEntries(T) \subseteq disk.index
  BY <1>1, RestoredTypes
<1>3. disk.index \subseteq EntryType /\ OnePerTuple(disk.index)
  BY <1>1 DEF DiskInv, DiskType
<1>4. SlotsInv' /\ EntriesInv'
  BY <1>2, <1>3 DEF Boot, SlotsInv, EntriesInv, OnePerTuple
<1>5. NftInv'
  <2>1. PICK kept \in Inherited(S) : nft' = GrantedAll(RulesetEnsured(kept), T)
    BY DEF Boot
  <2>2. kept \in NftType
    BY <1>1, <2>1 DEF Inherited, NftInv, NftType
  <2>3. PortsOf(T) \subseteq Ports /\ {TargetOf(s) : s \in T} \subseteq TargetType
    BY <1>2 DEF PortsOf, TargetOf, Target, TargetType, SlotType
  <2>4. RulesetEnsured(kept) \in NftType
    BY <2>2 DEF RulesetEnsured, AcceptEmptied, InboundEmptied, NftType
  <2>5. GrantedAll(RulesetEnsured(kept), T) \in NftType
    <3> HIDE DEF T
    <3> QED BY <2>3, <2>4 DEF GrantedAll, NftType
  <2> QED BY <1>1, <2>1, <2>5 DEF Boot, NftInv
<1>6. DiskInv'
  <2>1. {Row(s) : s \in Grants(T)} \subseteq RowType
    BY <1>2, RowsOfSlots
  <2>2. disk' = [disk EXCEPT !.leases = {Row(s) : s \in Grants(T)}]
    BY DEF Boot
  <2> HIDE DEF T
  <2> QED BY <1>1, <2>1, <2>2 DEF DiskInv, DiskType
<1>7. SocksInv'
  <2>1. PICK picked \in SUBSET owned :
           /\ tasks' = PortsOf(picked)
           /\ socks' = {Sock(p, Operator, 0) : p \in S}
                         \cup {Sock(e.bind, e.client, e.int) : e \in picked}
    BY DEF Boot
  <2>2. picked \subseteq EntryType
    BY <1>2, <1>3
  <2>3. PortsOf(picked) \subseteq Ports
    BY <2>2 DEF PortsOf, EntryType
  <2>4. {Sock(e.bind, e.client, e.int) : e \in picked} \subseteq SockType
    <3>1. \A e \in EntryType : Sock(e.bind, e.client, e.int) \in SockType
      BY DEF Sock, EntryType, SockType
    <3> QED BY <2>2, <3>1
  <2>5. {Sock(p, Operator, 0) : p \in S} \subseteq SockType
    BY StaticTyped
  <2> QED BY <2>1, <2>3, <2>4, <2>5 DEF SocksInv
<1>8. RestInv'
  <2>1. up' = TRUE /\ statics' = S /\ UNCHANGED <<refused, scene>>
    BY DEF Boot
  <2>2. up' \in BOOLEAN
    BY <2>1
  <2> QED BY <1>1, <2>1, <2>2 DEF RestInv
<1>9. JobInv'
  BY <1>1 DEF Boot, JobInv
<1> QED BY <1>4, <1>5, <1>6, <1>7, <1>8, <1>9 DEF TypeInv

LEMMA InitTypes == ASSUME Init PROVE TypeInv
<1>1. statics \in StaticConfigs /\ statics \subseteq Ports
  BY StaticsAssumption DEF Init
<1>2. SlotsInv
  BY <1>1, StaticTyped DEF Init, SlotsInv
<1>3. SocksInv
  BY <1>1, StaticTyped DEF Init, SocksInv
<1>4. NftInv
  <2>1. {Target(p, Operator, 0) : p \in statics} \subseteq TargetType
    BY <1>1, StaticTyped
  <2> QED BY <1>1, <2>1 DEF Init, NftInv, NftType
<1>5. EntriesInv /\ DiskInv
  BY DEF Init, EntriesInv, DiskInv, DiskType, OnePerTuple
<1>6. JobInv
  BY IdlingIsJob DEF Init, JobInv
<1>7. RestInv
  BY <1>1 DEF Init, RestInv
<1> QED BY <1>2, <1>3, <1>4, <1>5, <1>6, <1>7 DEF TypeInv

LEMMA StepTypes == ASSUME TypeInv, NEW h \in Jobs, Step(h) PROVE TypeInv'
<1>1. CASE GrantStep(h)
  BY <1>1, UpsertRefreshTypes, UpsertNewTypes, UpsertRefusedTypes, EvictPickTypes,
     GrantDatapathTypes, BindSlotTypes, UndoSlotTypes, RegisterTasksTypes, ApplyEntryTypes
     DEF GrantStep
<1>2. CASE TeardownStep(h)
  BY <1>2, RemoveTypes, RevokeTypes, AbortTasksTypes, ForgetTypes, FindEntryTypes DEF TeardownStep
<1>3. CASE YieldStep(h)
  BY <1>3, MoveLeaseTypes, RebindTypes, MoveBackTypes, RedirectTypes, ReregisterTypes,
     ReleaseOldTypes, ReindexTypes DEF YieldStep
<1>4. CASE PersistStep(h)
  BY <1>4, CopyTableTypes, WriteLeasesTypes, CopyIndexTypes, WriteIndexTypes DEF PersistStep
<1> QED BY <1>1, <1>2, <1>3, <1>4 DEF Step

LEMMA NextTypes == TypeInv /\ [Next]_vars => TypeInv'
<1> SUFFICES ASSUME TypeInv, [Next]_vars PROVE TypeInv'
  OBVIOUS
<1>1. CASE Start
  <2>1. ASSUME NEW h \in Workers, NEW r \in scene.requests, StartGrant(h, r) PROVE TypeInv'
    BY <2>1, StartGrantTypes
  <2>2. ASSUME NEW h \in Workers,
               \/ \E r \in scene.requests : DeleteMapping(h, [ext |-> r.ext, owner |-> r.owner])
               \/ \E c \in Clients : DeleteRange(h, c)
               \/ \E c \in Clients, i \in IntPorts : DeleteKey(h, c, i)
        PROVE  TypeInv'
    BY <2>2, DeletingTypes DEF Jobs
  <2>3. ASSUME \E gone \in SUBSET Clients : ReapAbsent(gone) PROVE TypeInv'
    BY <2>3, DeletingTypes DEF Jobs
  <2>4. ASSUME NEW p \in Ports, StartYield(p) PROVE TypeInv'
    BY <2>4, StartYieldTypes
  <2> QED BY <1>1, <2>1, <2>2, <2>3, <2>4, SweepTypes DEF Start
<1>2. ASSUME NEW h \in Jobs, Step(h) PROVE TypeInv'
  BY <1>2, StepTypes
<1>3. CASE Environment
  BY <1>3, AgeTypes, PublishTypes, CancelTypes, CrashTypes, BootTypes DEF Environment
<1>4. CASE UNCHANGED vars
  BY <1>4 DEF vars, TypeInv, SlotsInv, EntriesInv, SocksInv, NftInv, DiskInv, JobInv, RestInv
<1> QED BY <1>1, <1>2, <1>3, <1>4 DEF Next

LEMMA Typed == Spec => []TypeInv
<1>1. Init => TypeInv
  BY InitTypes
<1> QED BY <1>1, NextTypes, PTL DEF Spec

(* Whatever handlers interleave, are dropped at a lock or die with the     *)
(* process, every table, set and file keeps its shape: no port leaves the  *)
(* range and no row of leases.tsv is a static's (grant_mapping,            *)
(* delete_mapping, yield_port, persist and the restore of upnpsvc.rs).     *)
THEOREM FacadeTypes == Spec => []TypeOK
<1>1. ASSUME TypeInv PROVE TypeOK
  <2>1. \A h \in Jobs : job[h].at \in Labels /\ job[h].port \in Ports \cup {0}
    BY <1>1, JobParts DEF TypeInv, JobShape
  <2>2. slots \subseteq [bind: Ports, client: Clients \cup {Operator},
                         int: IntPorts \cup {0}, stale: BOOLEAN]
    BY <1>1 DEF TypeInv, SlotsInv, SlotType
  <2>3. socks \subseteq [port: Ports, client: Clients \cup {Operator},
                         int: IntPorts \cup {0}, dying: BOOLEAN] /\ tasks \subseteq Ports
    BY <1>1 DEF TypeInv, SocksInv, SockType
  <2>4. /\ nft.admitted \subseteq Ports /\ nft.accepted \subseteq Ports
        /\ nft.dnat \subseteq TargetType /\ tuples \subseteq TargetType
    BY <1>1 DEF TypeInv, NftInv, NftType
  <2>5. disk.leases \subseteq RowType /\ disk.index \subseteq EntryType
    BY <1>1 DEF TypeInv, DiskInv, DiskType
  <2>6. entries \subseteq EntryType
    BY <1>1 DEF TypeInv, EntriesInv
  <2>7. up \in BOOLEAN /\ refused \in BOOLEAN /\ scene \in Scenarios /\ statics \in StaticConfigs
    BY <1>1 DEF TypeInv, RestInv
  <2> QED BY <2>1, <2>2, <2>3, <2>4, <2>5, <2>6, <2>7 DEF TypeOK
<1> QED BY <1>1, Typed, PTL

(* apply_entry, yield_port and the restore keep one entry per internal     *)
(* tuple, however many handlers interleave and wherever one is dropped or  *)
(* the process dies between the writes of persist.                         *)
THEOREM TuplesStayUnique == Spec => []EntryPerTuple
<1>1. TypeInv => EntryPerTuple
  BY DEF TypeInv, EntriesInv, OnePerTuple, EntryPerTuple
<1> QED BY <1>1, Typed, PTL

-----------------------------------------------------------------------------
(* The statics.  While the configuration stays the same, nothing a client  *)
(* or the collector names is a static's port.                              *)
Aside(j) == /\ j.old \notin statics /\ j.port \notin statics /\ j.freed \cap statics = {}
            /\ j.at = "index" => \A e \in j.rows : e.bind \notin statics
SlotsAside == \A s \in slots : s.bind \in statics => IsStatic(s)
EntriesAside == /\ \A e \in entries : e.bind \notin statics
                /\ \A e \in disk.index : e.bind \notin statics
JobsAside == \A h \in Jobs : Aside(job[h])
SlotsServed == up => \A p \in statics : FSlot(p, Operator, 0) \in slots
SocksServed == up => \A p \in statics : Sock(p, Operator, 0) \in socks
NftServed == up => \A p \in statics :
               Target(p, Operator, 0) \in nft.dnat /\ p \in nft.admitted /\ p \in nft.accepted
StaticInv == SlotsAside /\ EntriesAside /\ JobsAside /\ SlotsServed /\ SocksServed /\ NftServed

LEMMA StaticsArePorts == ASSUME TypeInv PROVE statics \subseteq Ports /\ 0 \notin statics
BY StaticsAssumption, PortsArePositive DEF TypeInv, RestInv

LEMMA IdlingAside == ASSUME TypeInv PROVE Aside(Idling)
BY StaticsArePorts DEF Aside, Idling

LEMMA SavedAside ==
  ASSUME TypeInv, NEW j \in Job, Aside(j)
  PROVE  Aside(AfterSave(j)) /\ Aside(Save(j))
<1>1. j \in JobShape
  BY DEF Job
<1>2. Aside([j EXCEPT !.at = "snapshot"]) /\ Aside([j EXCEPT !.at = "find"])
  BY <1>1 DEF Aside, JobShape
<1>3. Aside([j EXCEPT !.at = "upsert", !.kind = "grant"])
  BY <1>1 DEF Aside, JobShape
<1>4. Aside(AfterSave(j))
  BY <1>2, <1>3, IdlingAside DEF AfterSave
<1> QED BY <1>2, <1>4 DEF Save

LEMMA AsideMoves ==
  ASSUME TypeInv, JobsAside, NEW h \in Jobs, NEW j, Do(h, j), Aside(j), UNCHANGED statics
  PROVE  JobsAside'
<1>1. \A g \in Jobs : job'[g] = IF g = h THEN j ELSE job[g]
  BY DEF TypeInv, JobInv, Do
<1> QED BY <1>1 DEF JobsAside, Aside

LEMMA GotoAside ==
  ASSUME TypeInv, JobsAside, NEW h \in Jobs, NEW l, l # "index", Goto(h, l), UNCHANGED statics
  PROVE  JobsAside'
<1>1. job[h] \in JobShape /\ Aside(job[h])
  BY JobParts DEF TypeInv, JobsAside
<1>2. Aside([job[h] EXCEPT !.at = l])
  BY <1>1 DEF Aside, JobShape
<1> QED BY <1>2, AsideMoves DEF Goto

LEMMA FinishAside ==
  ASSUME TypeInv, JobsAside, NEW h \in Jobs, Finish(h), UNCHANGED statics
  PROVE  JobsAside'
BY IdlingAside, AsideMoves DEF Finish

LEMMA SaveAside ==
  ASSUME TypeInv, JobsAside, NEW h \in Jobs, Do(h, Save(job[h])), UNCHANGED statics
  PROVE  JobsAside'
BY JobParts, SavedAside, AsideMoves DEF TypeInv, JobsAside

(* The resources: what is done to a port that is no static's. *)
LEMMA DeletedAside ==
  ASSUME SlotsAside, SlotsServed, NEW p, p \notin statics, TableDelete(p), UNCHANGED <<statics, up>>
  PROVE  SlotsAside' /\ SlotsServed'
<1>1. slots' \subseteq slots /\ \A s \in slots \ slots' : s.bind = p
  BY DEF TableDelete
<1>2. \A q \in statics : FSlot(q, Operator, 0).bind = q
  BY DEF FSlot
<1> QED BY <1>1, <1>2 DEF SlotsAside, SlotsServed

LEMMA RevokedAside ==
  ASSUME NftServed, NEW p, p \notin statics, nft' = Revoked(nft, p), UNCHANGED <<statics, up>>
  PROVE  NftServed'
BY DEF NftServed, Revoked, Target

LEMMA GrantedAside ==
  ASSUME NftServed, NEW p, NEW c, NEW i, nft' = Granted(nft, p, c, i), UNCHANGED <<statics, up>>
  PROVE  NftServed'
BY DEF NftServed, Granted

LEMMA AbortAside ==
  ASSUME SocksServed, NEW p, p \notin statics, Abort(p), UNCHANGED <<statics, up>>
  PROVE  SocksServed'
<1>1. \A k \in socks \ socks' : k.port = p
  BY DEF Abort
<1>2. \A q \in statics : Sock(q, Operator, 0).port = q
  BY DEF Sock
<1> QED BY <1>1, <1>2 DEF SocksServed

LEMMA FreeIsAside ==
  ASSUME SlotsServed, up, NEW p \in FreePorts(slots, {})
  PROVE  p \notin statics
<1>1. \A q \in statics : FSlot(q, Operator, 0) \in slots /\ FSlot(q, Operator, 0).bind = q
  BY DEF SlotsServed, FSlot
<1> QED BY <1>1 DEF FreePorts, PortsOf

(* The actions. *)
LEMMA StartGrantAside ==
  ASSUME TypeInv, StaticInv, NEW h \in Workers, NEW r, StartGrant(h, r)
  PROVE  StaticInv'
<1>1. Aside([Idling EXCEPT !.at = "upsert", !.kind = "grant", !.req = r])
  BY StaticsArePorts DEF Aside, Idling
<1>2. JobsAside'
  BY <1>1, AsideMoves DEF StartGrant, StaticInv, Jobs
<1> QED BY <1>2 DEF StartGrant, StaticInv, SlotsAside, EntriesAside, SlotsServed, SocksServed, NftServed

LEMMA UpsertAside ==
  ASSUME TypeInv, StaticInv, NEW h \in Jobs,
         UpsertRefresh(h) \/ UpsertNew(h) \/ UpsertRefused(h) \/ EvictPick(h)
  PROVE  StaticInv'
<1>1. up /\ job[h] \in JobShape /\ Aside(job[h])
  BY JobParts DEF UpsertRefresh, UpsertNew, UpsertRefused, EvictPick, At, StaticInv, JobsAside, TypeInv
<1>2. UNCHANGED <<entries, socks, nft, disk, up, statics>>
  BY DEF UpsertRefresh, UpsertNew, UpsertRefused, EvictPick
<1>3. SlotsAside' /\ SlotsServed' /\ JobsAside'
  <2>1. CASE UpsertRefresh(h)
    <3>1. PICK s \in slots :
            /\ ~IsStatic(s)
            /\ slots' = (slots \ {s}) \cup {[s EXCEPT !.stale = FALSE]}
            /\ Do(h, [job[h] EXCEPT !.at = "entry", !.port = s.bind])
      BY <2>1 DEF UpsertRefresh, Holds
    <3>2. s.bind \notin statics /\ s \in SlotType
      BY <3>1 DEF StaticInv, SlotsAside, TypeInv, SlotsInv
    <3>3. \A p \in statics : FSlot(p, Operator, 0) # s
      BY <3>1 DEF FSlot, IsStatic
    <3>4. [s EXCEPT !.stale = FALSE].bind = s.bind
      BY <3>2 DEF SlotType
    <3>5. Aside([job[h] EXCEPT !.at = "entry", !.port = s.bind])
      BY <1>1, <3>2 DEF Aside, JobShape
    <3>6. JobsAside'
      BY <1>2, <3>1, <3>5, AsideMoves DEF StaticInv
    <3> QED BY <1>2, <3>1, <3>2, <3>3, <3>4, <3>6 DEF StaticInv, SlotsAside, SlotsServed
  <2>2. CASE UpsertNew(h)
    <3>1. PICK p \in FreePorts(slots, {}) :
            /\ slots' = slots \cup {FSlot(p, job[h].req.client, job[h].req.int)}
            /\ Do(h, [job[h] EXCEPT !.at = "datapath", !.port = p])
      BY <2>2 DEF UpsertNew
    <3>2. p \notin statics
      BY <1>1, FreeIsAside DEF StaticInv
    <3>3. FSlot(p, job[h].req.client, job[h].req.int).bind = p
      BY DEF FSlot
    <3>4. Aside([job[h] EXCEPT !.at = "datapath", !.port = p])
      BY <1>1, <3>2 DEF Aside, JobShape
    <3>5. JobsAside'
      BY <1>2, <3>1, <3>4, AsideMoves DEF StaticInv
    <3> QED BY <1>2, <3>1, <3>2, <3>3, <3>5 DEF StaticInv, SlotsAside, SlotsServed
  <2>3. CASE UpsertRefused(h)
    <3>1. UNCHANGED <<slots, statics, up>> /\ (Finish(h) \/ Goto(h, "pick"))
      BY <2>3 DEF UpsertRefused
    <3>2. JobsAside'
      BY <3>1, FinishAside, GotoAside DEF StaticInv
    <3> QED BY <3>1, <3>2 DEF StaticInv, SlotsAside, SlotsServed
  <2>4. CASE EvictPick(h)
    <3>1. ASSUME NEW s \in slots, ~IsStatic(s),
                 Do(h, [job[h] EXCEPT !.at = "remove", !.kind = "evict", !.old = s.bind, !.retried = TRUE])
          PROVE  JobsAside'
      <4>1. s.bind \notin statics
        BY <3>1 DEF StaticInv, SlotsAside
      <4>2. Aside([job[h] EXCEPT !.at = "remove", !.kind = "evict", !.old = s.bind, !.retried = TRUE])
        BY <1>1, <4>1 DEF Aside, JobShape
      <4> QED BY <1>2, <3>1, <4>2, AsideMoves DEF StaticInv
    <3>2. JobsAside'
      BY <1>2, <2>4, <3>1, FinishAside DEF EvictPick, StaticInv
    <3>3. UNCHANGED slots
      BY <2>4 DEF EvictPick
    <3> QED BY <1>2, <3>2, <3>3 DEF StaticInv, SlotsAside, SlotsServed
  <2> QED BY <2>1, <2>2, <2>3, <2>4
<1> QED BY <1>2, <1>3 DEF StaticInv, EntriesAside, SocksServed, NftServed

LEMMA PlacingAside ==
  ASSUME TypeInv, StaticInv, NEW h \in Jobs,
         GrantDatapath(h) \/ BindSlot(h) \/ UndoSlot(h) \/ RegisterTasks(h)
  PROVE  StaticInv'
<1>1. job[h].port \notin statics
  BY DEF StaticInv, JobsAside, Aside
<1>2. UNCHANGED <<entries, disk, up, statics>>
  BY DEF GrantDatapath, BindSlot, UndoSlot, RegisterTasks
<1>3. JobsAside'
  BY <1>2, GotoAside, FinishAside DEF StaticInv, GrantDatapath, BindSlot, UndoSlot, RegisterTasks
<1>4. NftServed'
  <2>1. CASE GrantDatapath(h)
    BY <1>1, <1>2, <2>1, GrantedAside, RevokedAside DEF StaticInv, GrantDatapath
  <2>2. CASE BindSlot(h)
    <3>1. nft' = nft \/ nft' = [nft EXCEPT !.accepted = @ \ {job[h].port}]
      BY <2>2 DEF BindSlot
    <3>2. nft \in NftType
      BY DEF TypeInv, NftInv
    <3> QED BY <1>1, <1>2, <3>1, <3>2 DEF StaticInv, NftServed, NftType
  <2>3. CASE UndoSlot(h) \/ RegisterTasks(h)
    BY <1>2, <2>3 DEF StaticInv, NftServed, UndoSlot, RegisterTasks
  <2> QED BY <2>1, <2>2, <2>3
<1>5. SocksServed'
  <2>1. socks \subseteq socks'
    BY DEF GrantDatapath, BindSlot, UndoSlot, RegisterTasks
  <2> QED BY <1>2, <2>1 DEF StaticInv, SocksServed
<1>6. SlotsAside' /\ SlotsServed'
  <2>1. CASE UndoSlot(h)
    BY <1>1, <1>2, <2>1, DeletedAside DEF StaticInv, UndoSlot
  <2>2. CASE UNCHANGED slots
    BY <1>2, <2>2 DEF StaticInv, SlotsAside, SlotsServed
  <2> QED BY <2>1, <2>2 DEF GrantDatapath, BindSlot, RegisterTasks
<1> QED BY <1>2, <1>3, <1>4, <1>5, <1>6 DEF StaticInv, EntriesAside

LEMMA ApplyEntryAside ==
  ASSUME TypeInv, StaticInv, NEW h \in Jobs, ApplyEntry(h)
  PROVE  StaticInv'
<1> DEFINE r == job[h].req
           p == job[h].port
<1>1. p \notin statics /\ job[h] \in JobShape /\ Aside(job[h]) /\ entries \subseteq EntryType
  BY JobParts DEF StaticInv, JobsAside, Aside, TypeInv, EntriesInv
<1>2. UNCHANGED <<slots, socks, nft, disk, up, statics>>
  BY DEF ApplyEntry
<1>3. \A e \in entries : e.bind \notin statics
  BY DEF StaticInv, EntriesAside
<1>4. ASSUME Do(h, Save(job[h])) PROVE JobsAside'
  BY <1>2, <1>4, SaveAside DEF StaticInv
<1>5. (\A e \in entries' : e.bind \notin statics) /\ JobsAside'
  <2>1. ASSUME NEW e \in entries,
               entries' = (entries \ {e}) \cup {[e EXCEPT !.ext = r.ext]},
               Do(h, Save(job[h]))
        PROVE  (\A x \in entries' : x.bind \notin statics) /\ JobsAside'
    <3>1. [e EXCEPT !.ext = r.ext].bind = e.bind
      BY <1>1 DEF EntryType
    <3> QED BY <1>3, <1>4, <2>1, <3>1
  <2>2. ASSUME NEW e \in entries,
               entries' = (entries \ {e})
                  \cup {[e EXCEPT !.client = r.client, !.int = r.int, !.bind = p]},
               IF e.bind # p THEN Do(h, Stray(job[h], e.bind)) ELSE Do(h, Save(job[h]))
        PROVE  (\A x \in entries' : x.bind \notin statics) /\ JobsAside'
    <3>1. [e EXCEPT !.client = r.client, !.int = r.int, !.bind = p].bind = p
      BY <1>1 DEF EntryType
    <3>2. Aside(Stray(job[h], e.bind))
      BY <1>1, <1>3 DEF Aside, Stray, JobShape
    <3>3. JobsAside'
      BY <1>2, <1>4, <2>2, <3>2, AsideMoves DEF StaticInv
    <3>4. \A x \in entries' : x \in entries \/ x.bind = p
      BY <2>2, <3>1
    <3> QED BY <1>1, <1>3, <3>3, <3>4
  <2>3. ASSUME entries' = entries \cup {[ext |-> r.ext, owner |-> r.owner,
                                         client |-> r.client, int |-> r.int, bind |-> p]},
               Do(h, Save(job[h]))
        PROVE  (\A x \in entries' : x.bind \notin statics) /\ JobsAside'
    BY <1>1, <1>3, <1>4, <2>3
  <2> QED BY <2>1, <2>2, <2>3 DEF ApplyEntry
<1> QED BY <1>2, <1>5 DEF StaticInv, SlotsAside, EntriesAside, SlotsServed, SocksServed, NftServed

LEMMA TeardownAside ==
  ASSUME TypeInv, StaticInv, NEW h \in Jobs,
         Remove(h) \/ Revoke(h) \/ AbortTasks(h) \/ Forget(h)
  PROVE  StaticInv'
<1>1. job[h].old \notin statics /\ job[h] \in Job /\ job[h] \in JobShape /\ Aside(job[h])
  BY JobParts DEF StaticInv, JobsAside, Aside, TypeInv
<1>2. UNCHANGED <<disk, up, statics>>
  BY DEF Remove, Revoke, AbortTasks, Forget
<1>3. EntriesAside'
  <2>1. entries' \subseteq entries
    BY DEF Remove, Revoke, AbortTasks, Forget
  <2> QED BY <1>2, <2>1 DEF StaticInv, EntriesAside
<1>4. JobsAside'
  <2>1. CASE Remove(h) \/ Revoke(h)
    BY <1>2, <2>1, GotoAside DEF StaticInv, Remove, Revoke
  <2>2. CASE AbortTasks(h)
    <3>1. Aside([job[h] EXCEPT !.at = "forget"])
      BY <1>1 DEF Aside, JobShape
    <3>2. Aside(AfterAbort(job[h]))
      BY <1>1, <3>1, SavedAside DEF AfterAbort
    <3> QED BY <1>2, <2>2, <3>2, AsideMoves DEF StaticInv, AbortTasks
  <2>3. CASE Forget(h)
    <3>1. ASSUME NEW p \in job[h].freed
          PROVE  Aside([job[h] EXCEPT !.at = "revoke", !.old = p, !.freed = @ \ {p}])
      BY <1>1 DEF Aside, JobShape
    <3> QED BY <1>2, <2>3, <3>1, AsideMoves, SaveAside DEF StaticInv, Forget
  <2> QED BY <2>1, <2>2, <2>3
<1>5. SlotsAside' /\ SlotsServed'
  <2>1. CASE Remove(h)
    BY <1>1, <1>2, <2>1, DeletedAside DEF StaticInv, Remove
  <2>2. CASE UNCHANGED slots
    BY <1>2, <2>2 DEF StaticInv, SlotsAside, SlotsServed
  <2> QED BY <2>1, <2>2 DEF Revoke, AbortTasks, Forget
<1>6. NftServed'
  <2>1. CASE Revoke(h)
    BY <1>1, <1>2, <2>1, RevokedAside DEF StaticInv, Revoke
  <2>2. CASE UNCHANGED nft
    BY <1>2, <2>2 DEF StaticInv, NftServed
  <2> QED BY <2>1, <2>2 DEF Remove, AbortTasks, Forget
<1>7. SocksServed'
  <2>1. CASE AbortTasks(h)
    BY <1>1, <1>2, <2>1, AbortAside DEF StaticInv, AbortTasks
  <2>2. CASE UNCHANGED socks
    BY <1>2, <2>2 DEF StaticInv, SocksServed
  <2> QED BY <2>1, <2>2 DEF Remove, Revoke, Forget
<1> QED BY <1>3, <1>4, <1>5, <1>6, <1>7 DEF StaticInv

LEMMA StartDeleteAside ==
  ASSUME TypeInv, StaticInv, NEW h \in Jobs, NEW use, NEW labels, StartDelete(h, use, labels)
  PROVE  StaticInv'
<1>1. Aside([Idling EXCEPT !.at = "find", !.kind = "delete", !.todo = labels])
  BY StaticsArePorts DEF Aside, Idling
<1>2. JobsAside'
  BY <1>1, AsideMoves DEF StartDelete, StaticInv
<1> QED BY <1>2 DEF StartDelete, StaticInv, SlotsAside, EntriesAside, SlotsServed, SocksServed, NftServed

LEMMA FindEntryAside ==
  ASSUME TypeInv, StaticInv, NEW h \in Jobs, FindEntry(h)
  PROVE  StaticInv'
<1>1. job[h] \in Job /\ job[h] \in JobShape /\ Aside(job[h]) /\ job[h].at = "find" /\ Carries(job[h])
  BY JobParts DEF StaticInv, JobsAside, TypeInv, FindEntry, At
<1>2. JobsAside'
  <2>1. PICK l \in job[h].todo :
          LET rest == [job[h] EXCEPT !.todo = @ \ {l}] IN
          \/ \E e \in entries :
               Do(h, [rest EXCEPT !.at = "remove", !.old = e.bind,
                                  !.req = [ext |-> e.ext, owner |-> e.owner,
                                           client |-> e.client, int |-> e.int]])
          \/ Do(h, AfterSave(rest))
    BY DEF FindEntry
  <2> DEFINE rest == [job[h] EXCEPT !.todo = @ \ {l}]
  <2>2. rest \in JobShape /\ rest.at = "find" /\ rest.kind = job[h].kind /\ rest.req = job[h].req
    BY <1>1 DEF JobShape
  <2>3. Aside(rest)
    BY <1>1 DEF Aside, JobShape
  <2> HIDE DEF rest
  <2>4. rest \in Job
    BY <1>1, <2>2 DEF Job, Carries, Asking, Placed
  <2>5. ASSUME NEW e \in entries, NEW q, Do(h, [rest EXCEPT !.at = "remove", !.old = e.bind, !.req = q])
        PROVE  JobsAside'
    <3>1. Aside([rest EXCEPT !.at = "remove", !.old = e.bind, !.req = q])
      BY <2>2, <2>3 DEF Aside, JobShape, StaticInv, EntriesAside
    <3> QED BY <2>5, <3>1, AsideMoves DEF StaticInv, FindEntry
  <2>6. ASSUME Do(h, AfterSave(rest)) PROVE JobsAside'
    BY <2>3, <2>4, <2>6, SavedAside, AsideMoves DEF StaticInv, FindEntry
  <2> QED BY <2>1, <2>5, <2>6 DEF rest
<1> QED BY <1>2 DEF FindEntry, StaticInv, SlotsAside, EntriesAside, SlotsServed, SocksServed, NftServed

LEMMA SweepAside == ASSUME TypeInv, StaticInv, Sweep PROVE StaticInv'
<1> DEFINE stale == {s \in slots : ~IsStatic(s) /\ s.stale}
           freed == PortsOf(stale)
<1>1. UNCHANGED <<entries, socks, nft, disk, up, statics>> /\ slots' = slots \ stale
  BY DEF Sweep
<1>2. freed \cap statics = {}
  BY DEF StaticInv, SlotsAside, PortsOf
<1>3. PICK p \in freed :
        Do(Collector, [Idling EXCEPT !.at = "revoke", !.kind = "sweep", !.old = p, !.freed = freed \ {p}])
  BY DEF Sweep
<1>4. \A q \in statics : IsStatic(FSlot(q, Operator, 0))
  BY DEF FSlot, IsStatic
<1>5. SlotsAside' /\ SlotsServed'
  BY <1>1, <1>4 DEF StaticInv, SlotsAside, SlotsServed
<1> HIDE DEF freed
<1>6. Aside([Idling EXCEPT !.at = "revoke", !.kind = "sweep", !.old = p, !.freed = freed \ {p}])
  BY <1>2, StaticsArePorts DEF Aside, Idling
<1>7. JobsAside'
  BY <1>1, <1>3, <1>6, AsideMoves DEF StaticInv, Jobs
<1> QED BY <1>1, <1>5, <1>7 DEF StaticInv, EntriesAside, SocksServed, NftServed

LEMMA StartYieldAside == ASSUME TypeInv, StaticInv, NEW old, StartYield(old) PROVE StaticInv'
<1>1. PICK e \in entries :
        /\ e.bind = old
        /\ Do(Collector, [Idling EXCEPT !.at = "move", !.kind = "yield", !.old = old,
                          !.req = [ext |-> e.ext, owner |-> e.owner,
                                   client |-> e.client, int |-> e.int]])
  BY DEF StartYield
<1>2. old \notin statics
  BY <1>1 DEF StaticInv, EntriesAside
<1>3. ASSUME NEW q PROVE Aside([Idling EXCEPT !.at = "move", !.kind = "yield", !.old = old, !.req = q])
  BY <1>2, StaticsArePorts DEF Aside, Idling
<1>4. JobsAside'
  BY <1>1, <1>3, AsideMoves DEF StaticInv, StartYield, Jobs
<1> QED BY <1>4 DEF StartYield, StaticInv, SlotsAside, EntriesAside, SlotsServed, SocksServed, NftServed

(* A slot that is no static's moves to a port that is none either. *)
LEMMA MovedAside ==
  ASSUME TypeInv, SlotsAside, SlotsServed, NEW s \in slots, s.bind \notin statics,
         NEW p, p \notin statics,
         slots' = (slots \ {s}) \cup {[s EXCEPT !.bind = p]}, UNCHANGED <<up, statics>>
  PROVE  SlotsAside' /\ SlotsServed'
<1>1. [s EXCEPT !.bind = p].bind = p
  BY DEF TypeInv, SlotsInv, SlotType
<1>2. \A q \in statics : FSlot(q, Operator, 0) # s
  BY DEF FSlot
<1> QED BY <1>1, <1>2 DEF SlotsAside, SlotsServed

LEMMA MoveAside ==
  ASSUME TypeInv, StaticInv, NEW h \in Jobs, MoveLease(h) \/ MoveBack(h)
  PROVE  StaticInv'
<1>1. /\ job[h] \in JobShape /\ Aside(job[h]) /\ up
      /\ job[h].old \notin statics /\ job[h].port \notin statics
  BY JobParts DEF StaticInv, JobsAside, Aside, TypeInv, MoveLease, MoveBack, At
<1>2. UNCHANGED <<entries, socks, nft, disk, up, statics>>
  BY DEF MoveLease, MoveBack
<1>3. SlotsAside' /\ SlotsServed' /\ JobsAside'
  <2>1. ASSUME NEW s \in slots, NEW p \in FreePorts(slots, {}), s.bind = job[h].old,
               slots' = (slots \ {s}) \cup {[s EXCEPT !.bind = p]},
               Do(h, [job[h] EXCEPT !.at = "rebind", !.port = p])
        PROVE  SlotsAside' /\ SlotsServed' /\ JobsAside'
    <3>1. p \notin statics
      BY <1>1, FreeIsAside DEF StaticInv
    <3>2. Aside([job[h] EXCEPT !.at = "rebind", !.port = p])
      BY <1>1, <3>1 DEF Aside, JobShape
    <3> QED BY <1>1, <1>2, <2>1, <3>1, <3>2, MovedAside, AsideMoves DEF StaticInv
  <2>2. CASE Finish(h) /\ UNCHANGED slots
    BY <1>2, <2>2, FinishAside DEF StaticInv, SlotsAside, SlotsServed
  <2>3. ASSUME NEW s \in slots, s.bind = job[h].port,
               slots' = (slots \ {s}) \cup {[s EXCEPT !.bind = job[h].old]}, Finish(h)
        PROVE  SlotsAside' /\ SlotsServed' /\ JobsAside'
    BY <1>1, <1>2, <2>3, MovedAside, FinishAside DEF StaticInv
  <2> QED BY <2>1, <2>2, <2>3 DEF MoveLease, MoveBack
<1> QED BY <1>2, <1>3 DEF StaticInv, EntriesAside, SocksServed, NftServed

LEMMA RebindAside ==
  ASSUME TypeInv, StaticInv, NEW h \in Jobs,
         Rebind(h) \/ Redirect(h) \/ Reregister(h) \/ ReleaseOld(h)
  PROVE  StaticInv'
<1>1. job[h].old \notin statics /\ job[h].port \notin statics
  BY DEF StaticInv, JobsAside, Aside
<1>2. UNCHANGED <<slots, entries, disk, up, statics>>
  BY DEF Rebind, Redirect, Reregister, ReleaseOld
<1>3. JobsAside'
  BY <1>2, GotoAside DEF StaticInv, Rebind, Redirect, Reregister, ReleaseOld
<1>4. SocksServed'
  <2>1. CASE ReleaseOld(h)
    BY <1>1, <1>2, <2>1, AbortAside DEF StaticInv, ReleaseOld
  <2>2. CASE socks \subseteq socks'
    BY <1>2, <2>2 DEF StaticInv, SocksServed
  <2> QED BY <2>1, <2>2 DEF Rebind, Redirect, Reregister
<1>5. NftServed'
  <2>1. CASE Reregister(h)
    BY <1>1, <1>2, <2>1, RevokedAside DEF StaticInv, Reregister
  <2>2. CASE Redirect(h)
    <3> DEFINE g == Granted(nft, job[h].port, job[h].req.client, job[h].req.int)
    <3>1. nft' = g \/ nft' = nft \/ nft' = [g EXCEPT !.accepted = nft.accepted]
      BY <2>2 DEF Redirect
    <3>2. [g EXCEPT !.accepted = nft.accepted].admitted = g.admitted
          /\ [g EXCEPT !.accepted = nft.accepted].dnat = g.dnat
          /\ [g EXCEPT !.accepted = nft.accepted].accepted = nft.accepted
      BY DEF Granted
    <3>3. nft.admitted \subseteq g.admitted /\ nft.dnat \subseteq g.dnat /\ nft.accepted \subseteq g.accepted
      BY DEF Granted
    <3> HIDE DEF g
    <3>4. nft.admitted \subseteq nft'.admitted /\ nft.dnat \subseteq nft'.dnat /\ nft.accepted \subseteq nft'.accepted
      BY <3>1, <3>2, <3>3
    <3> QED BY <1>2, <3>4 DEF StaticInv, NftServed
  <2>3. CASE UNCHANGED nft
    BY <1>2, <2>3 DEF StaticInv, NftServed
  <2> QED BY <2>1, <2>2, <2>3 DEF Rebind, ReleaseOld
<1> QED BY <1>2, <1>3, <1>4, <1>5 DEF StaticInv, SlotsAside, EntriesAside, SlotsServed

LEMMA ReindexAside == ASSUME TypeInv, StaticInv, NEW h \in Jobs, Reindex(h) PROVE StaticInv'
<1>1. job[h].port \notin statics /\ entries \subseteq EntryType
  BY DEF StaticInv, JobsAside, Aside, TypeInv, EntriesInv
<1>2. UNCHANGED <<slots, socks, nft, disk, up, statics>>
  BY DEF Reindex
<1>3. \A e \in entries' : e.bind \notin statics
  <2>1. ASSUME NEW e \in entries, entries' = (entries \ {e}) \cup {[e EXCEPT !.bind = job[h].port]}
        PROVE  \A x \in entries' : x.bind \notin statics
    <3>1. [e EXCEPT !.bind = job[h].port].bind = job[h].port
      BY <1>1 DEF EntryType
    <3> QED BY <1>1, <2>1, <3>1 DEF StaticInv, EntriesAside
  <2>2. CASE UNCHANGED entries
    BY <2>2 DEF StaticInv, EntriesAside
  <2> QED BY <2>1, <2>2 DEF Reindex
<1>4. JobsAside'
  BY <1>2, SaveAside DEF Reindex, StaticInv
<1> QED BY <1>2, <1>3, <1>4 DEF StaticInv, SlotsAside, EntriesAside, SlotsServed, SocksServed, NftServed

LEMMA PersistAside ==
  ASSUME TypeInv, StaticInv, NEW h \in Jobs, PersistStep(h)
  PROVE  StaticInv'
<1>1. job[h] \in Job /\ job[h] \in JobShape /\ Aside(job[h]) /\ Carries(job[h]) /\ disk \in DiskType
  BY JobParts DEF StaticInv, JobsAside, TypeInv, DiskInv
<1>2. UNCHANGED <<slots, entries, socks, nft, up, statics>>
  BY DEF PersistStep, CopyTable, WriteLeases, CopyIndex, WriteIndex
<1>3. JobsAside' /\ \A e \in disk'.index : e.bind \notin statics
  <2>1. CASE CopyTable(h)
    <3>1. ASSUME NEW rows PROVE Aside([job[h] EXCEPT !.at = "leases", !.rows = rows])
      BY <1>1 DEF Aside, JobShape
    <3>2. UNCHANGED disk
      BY <2>1 DEF CopyTable
    <3> QED BY <1>2, <2>1, <3>1, <3>2, AsideMoves DEF CopyTable, StaticInv, EntriesAside
  <2>2. CASE WriteLeases(h)
    <3>1. Aside([job[h] EXCEPT !.at = "copyindex", !.rows = {}])
      BY <1>1 DEF Aside, JobShape
    <3>2. disk'.index = disk.index
      BY <1>1, <2>2 DEF WriteLeases, DiskType
    <3> QED BY <1>2, <2>2, <3>1, <3>2, AsideMoves DEF WriteLeases, StaticInv, EntriesAside
  <2>3. CASE CopyIndex(h)
    <3>1. Aside([job[h] EXCEPT !.at = "index", !.rows = entries])
      BY <1>1 DEF Aside, JobShape, StaticInv, EntriesAside
    <3>2. UNCHANGED disk
      BY <2>3 DEF CopyIndex
    <3> QED BY <1>2, <2>3, <3>1, <3>2, AsideMoves DEF CopyIndex, StaticInv, EntriesAside
  <2>4. CASE WriteIndex(h)
    <3>1. job[h].at = "index" /\ disk' = [disk EXCEPT !.index = job[h].rows]
          /\ Do(h, AfterSave([job[h] EXCEPT !.rows = {}]))
      BY <2>4 DEF WriteIndex, At
    <3>2. disk'.index = job[h].rows
      BY <1>1, <3>1 DEF DiskType
    <3> DEFINE k == [job[h] EXCEPT !.rows = {}]
    <3>3. /\ k \in JobShape /\ Aside(k) /\ k.at = "index" /\ k.kind = job[h].kind
          /\ k.req = job[h].req /\ k.rows = {}
      BY <1>1, <3>1 DEF Aside, JobShape
    <3> HIDE DEF k
    <3>4. k \in Job
      BY <1>1, <3>1, <3>3 DEF Job, Carries, Asking, Placed, OnePerTuple
    <3>5. Do(h, AfterSave(k)) /\ Aside(AfterSave(k))
      BY <3>1, <3>3, <3>4, SavedAside DEF k
    <3>6. JobsAside'
      BY <1>2, <3>5, AsideMoves DEF StaticInv
    <3> QED BY <1>1, <3>1, <3>2, <3>6 DEF Aside
  <2> QED BY <2>1, <2>2, <2>3, <2>4 DEF PersistStep
<1> QED BY <1>2, <1>3 DEF StaticInv, SlotsAside, EntriesAside, SlotsServed, SocksServed, NftServed

LEMMA EnvironmentAside ==
  ASSUME TypeInv, StaticInv, Environment, \A S \in StaticConfigs : ~Boot(S)
  PROVE  StaticInv'
<1>1. ASSUME NEW s \in slots, Age(s) \/ Touch(s) PROVE StaticInv'
  <2>1. PICK b \in BOOLEAN : slots' = (slots \ {s}) \cup {[s EXCEPT !.stale = b]}
    BY <1>1 DEF Age, Touch
  <2>2. UNCHANGED <<entries, socks, nft, disk, job, up, statics>>
    BY <1>1 DEF Age, Touch
  <2>3. s \in SlotType
    BY DEF TypeInv, SlotsInv
  <2>4. [s EXCEPT !.stale = b].bind = s.bind /\ [s EXCEPT !.stale = b].client = s.client
    BY <2>3 DEF SlotType
  <2>5. \A p \in statics : FSlot(p, Operator, 0) # s
    BY <1>1 DEF Age, Touch, FSlot, IsStatic
  <2>6. SlotsAside' /\ SlotsServed'
    BY <2>1, <2>2, <2>4, <2>5 DEF StaticInv, SlotsAside, SlotsServed, IsStatic
  <2> QED BY <2>2, <2>6 DEF StaticInv, EntriesAside, JobsAside, Aside, SocksServed, NftServed
<1>2. ASSUME NEW k \in socks, Publish(k) \/ CloseSock(k) PROVE StaticInv'
  <2>1. UNCHANGED <<slots, entries, nft, disk, job, up, statics>>
        /\ \A x \in socks \ socks' : x.dying
    BY <1>2 DEF Publish, CloseSock
  <2>2. SocksServed'
    BY <2>1 DEF StaticInv, SocksServed, Sock
  <2> QED BY <2>1, <2>2 DEF StaticInv, SlotsAside, EntriesAside, JobsAside, Aside, SlotsServed, NftServed
<1>3. ASSUME NEW h \in Workers, Cancel(h) PROVE StaticInv'
  <2>1. JobsAside'
    BY <1>3, FinishAside DEF StaticInv, Cancel, Jobs
  <2> QED BY <1>3, <2>1 DEF Cancel, StaticInv, SlotsAside, EntriesAside, SlotsServed, SocksServed, NftServed
<1>4. ASSUME Crash PROVE StaticInv'
  <2>1. UNCHANGED <<disk, statics>> /\ up' = FALSE /\ slots' = {} /\ entries' = {}
        /\ \A h \in Jobs : job'[h] = Idling
    BY <1>4 DEF Crash
  <2>2. JobsAside'
    BY <2>1, IdlingAside DEF JobsAside, Aside
  <2> QED BY <2>1, <2>2 DEF StaticInv, SlotsAside, EntriesAside, SlotsServed, SocksServed, NftServed
<1> QED BY <1>1, <1>2, <1>3, <1>4 DEF Environment

LEMMA BootAside ==
  ASSUME TypeInv, StaticInv, NEW S \in StaticConfigs, Boot(S), S = statics
  PROVE  StaticInv'
<1> DEFINE T == RestoredSlots(S)
<1>1. UNCHANGED <<statics, job>> /\ slots' = T /\ entries' = RestoredEntries(T)
  BY DEF Boot
<1>2. disk \in DiskType /\ RestoredEntries(T) \subseteq disk.index
  BY RestoredTypes DEF TypeInv, DiskInv
<1>3. disk'.index = disk.index
  BY <1>2 DEF Boot, DiskType
<1>4. SlotsAside'
  <2>1. ASSUME NEW s \in T, s.bind \in S PROVE IsStatic(s)
    BY <2>1 DEF RestoredSlots, FSlot, IsStatic
  <2> QED BY <1>1, <2>1 DEF SlotsAside
<1>5. SlotsServed'
  BY <1>1 DEF SlotsServed, RestoredSlots
<1>6. SocksServed'
  <2>1. {Sock(p, Operator, 0) : p \in S} \subseteq socks'
    BY DEF Boot
  <2> QED BY <1>1, <2>1 DEF SocksServed
<1>7. NftServed'
  <2>1. PICK kept \in Inherited(S) : nft' = GrantedAll(RulesetEnsured(kept), T)
    BY DEF Boot
  <2>2. ASSUME NEW p \in S
        PROVE  /\ Target(p, Operator, 0) \in {TargetOf(s) : s \in T}
               /\ p \in PortsOf(T)
    <3>1. FSlot(p, Operator, 0) \in T
      BY DEF RestoredSlots
    <3>2. TargetOf(FSlot(p, Operator, 0)) = Target(p, Operator, 0) /\ FSlot(p, Operator, 0).bind = p
      BY DEF FSlot, TargetOf, Target
    <3> HIDE DEF T
    <3>3. Target(p, Operator, 0) \in {TargetOf(s) : s \in T}
      BY <3>1, <3>2
    <3>4. p \in PortsOf(T)
      BY <3>1, <3>2 DEF PortsOf
    <3> QED BY <3>3, <3>4
  <2> HIDE DEF T
  <2>3. /\ PortsOf(T) \subseteq nft'.admitted /\ PortsOf(T) \subseteq nft'.accepted
        /\ {TargetOf(s) : s \in T} \subseteq nft'.dnat
    BY <2>1 DEF GrantedAll
  <2> QED BY <1>1, <2>2, <2>3 DEF NftServed
<1>8. EntriesAside'
  BY <1>1, <1>2, <1>3 DEF StaticInv, EntriesAside
<1>9. JobsAside'
  BY <1>1 DEF StaticInv, JobsAside, Aside
<1> QED BY <1>4, <1>5, <1>6, <1>7, <1>8, <1>9 DEF StaticInv

LEMMA InitAside == ASSUME Init PROVE StaticInv
<1>1. TypeInv
  BY InitTypes
<1>2. SlotsAside /\ SlotsServed /\ SocksServed
  <2>1. SlotsAside
    BY DEF Init, SlotsAside, FSlot, IsStatic
  <2>2. SlotsServed
    BY DEF Init, SlotsServed
  <2>3. SocksServed
    BY DEF Init, SocksServed
  <2> QED BY <2>1, <2>2, <2>3
<1>3. EntriesAside /\ NftServed
  BY DEF Init, EntriesAside, NftServed
<1>4. JobsAside
  BY <1>1, IdlingAside DEF Init, JobsAside
<1> QED BY <1>2, <1>3, <1>4 DEF StaticInv

LEMMA NextAside ==
  ASSUME \A S, T \in StaticConfigs : S = T, TypeInv, StaticInv, [Next]_vars
  PROVE  StaticInv'
<1>1. CASE Start
  <2>1. ASSUME NEW h \in Workers, NEW r \in scene.requests, StartGrant(h, r) PROVE StaticInv'
    BY <2>1, StartGrantAside
  <2>2. ASSUME NEW h \in Jobs, NEW use, NEW labels, StartDelete(h, use, labels) PROVE StaticInv'
    BY <2>2, StartDeleteAside
  <2>3. ASSUME NEW h \in Workers,
               \/ \E r \in scene.requests : DeleteMapping(h, [ext |-> r.ext, owner |-> r.owner])
               \/ \E c \in Clients : DeleteRange(h, c)
               \/ \E c \in Clients, i \in IntPorts : DeleteKey(h, c, i)
        PROVE  StaticInv'
    BY <2>2, <2>3 DEF DeleteMapping, DeleteRange, DeleteKey, Jobs
  <2>4. ASSUME NEW gone \in SUBSET Clients, ReapAbsent(gone) PROVE StaticInv'
    BY <2>2, <2>4 DEF ReapAbsent, Jobs
  <2> QED BY <1>1, <2>1, <2>3, <2>4, StartYieldAside, SweepAside DEF Start
<1>2. ASSUME NEW h \in Jobs, Step(h) PROVE StaticInv'
  <2>1. CASE GrantStep(h)
    BY <2>1, UpsertAside, PlacingAside, ApplyEntryAside DEF GrantStep
  <2>2. CASE TeardownStep(h)
    BY <2>2, TeardownAside, FindEntryAside DEF TeardownStep
  <2>3. CASE YieldStep(h)
    BY <2>3, MoveAside, RebindAside, ReindexAside DEF YieldStep
  <2>4. CASE PersistStep(h)
    BY <2>4, PersistAside
  <2> QED BY <1>2, <2>1, <2>2, <2>3, <2>4 DEF Step
<1>3. CASE Environment
  <2>1. ASSUME NEW S \in StaticConfigs, Boot(S) PROVE StaticInv'
    <3>1. S = statics
      BY DEF TypeInv, RestInv
    <3> QED BY <2>1, <3>1, BootAside
  <2> QED BY <1>3, <2>1, EnvironmentAside
<1>4. CASE UNCHANGED vars
  BY <1>4 DEF vars, StaticInv, SlotsAside, EntriesAside, JobsAside, Aside,
              SlotsServed, SocksServed, NftServed
<1> QED BY <1>1, <1>2, <1>3, <1>4 DEF Next

(* While the configuration names the same statics at every boot, each of   *)
(* them keeps its slot, its socket and its datapath, whatever the clients  *)
(* ask for, however their handlers interleave and fail, and over every     *)
(* crash (delete_mapping, yield_port, gc and the restore of upnpsvc.rs).   *)
THEOREM StaticsStayServed ==
  ASSUME \A S, T \in StaticConfigs : S = T
  PROVE  Spec => []StaticsServed
<1>1. Init => StaticInv
  BY InitAside
<1>2. TypeInv /\ StaticInv /\ [Next]_vars => StaticInv'
  BY NextAside
<1>3. ASSUME StaticInv PROVE StaticsServed
  <2>1. \A p \in statics : Target(p, Operator, 0).port = p
    BY DEF Target
  <2> QED BY <1>3, <2>1 DEF StaticInv, SlotsServed, SocksServed, NftServed, StaticsServed, Translated
<1> QED BY <1>1, <1>2, <1>3, Typed, PTL DEF Spec

-----------------------------------------------------------------------------
(* One job at a time.  The steps that change the table, and what of them   *)
(* the rows of leases.tsv show.                                            *)
RowsOf(T) == {Row(s) : s \in Grants(T)}
MovedRow(r, from, to) == IF r.bind = from THEN [r EXCEPT !.bind = to] ELSE r
Restamped(T, s, b) == (T \ {s}) \cup {[s EXCEPT !.stale = b]}
Moved(T, s, to) == (T \ {s}) \cup {[s EXCEPT !.bind = to]}

LEMMA RestampedRows ==
  ASSUME NEW T \in SUBSET SlotType, NEW s \in T, NEW b \in BOOLEAN
  PROVE  /\ RowsOf(Restamped(T, s, b)) = RowsOf(T)
         /\ PortsOf(Restamped(T, s, b)) = PortsOf(T)
         /\ PortsDistinct(T) => PortsDistinct(Restamped(T, s, b))
<1> DEFINE t == [s EXCEPT !.stale = b]
<1>1. t \in SlotType /\ t.bind = s.bind /\ t.client = s.client /\ t.int = s.int
  BY DEF SlotType, IsStatic
<1>2. Restamped(T, s, b) = (T \ {s}) \cup {t}
  BY DEF Restamped
<1> HIDE DEF t
<1>3. Row(t) = Row(s) /\ (IsStatic(t) <=> IsStatic(s))
  BY <1>1 DEF Row, IsStatic
<1>4. RowsOf(Restamped(T, s, b)) = RowsOf(T)
  BY <1>2, <1>3 DEF RowsOf, Grants
<1>5. PortsOf(Restamped(T, s, b)) = PortsOf(T)
  BY <1>1, <1>2 DEF PortsOf
<1>6. PortsDistinct(T) => PortsDistinct(Restamped(T, s, b))
  BY <1>1, <1>2 DEF PortsDistinct
<1> QED BY <1>4, <1>5, <1>6

LEMMA FreedRows ==
  ASSUME NEW T \in SUBSET SlotType, PortsDistinct(T), NEW s \in T
  PROVE  /\ RowsOf(T \ {s}) = {r \in RowsOf(T) : r.bind # s.bind}
         /\ PortsDistinct(T \ {s})
<1>1. \A t \in T : Row(t).bind = t.bind
  BY DEF Row
<1>2. \A t \in T : t.bind = s.bind <=> t = s
  BY DEF PortsDistinct
<1>3. RowsOf(T \ {s}) = {r \in RowsOf(T) : r.bind # s.bind}
  BY <1>1, <1>2 DEF RowsOf, Grants
<1> QED BY <1>3 DEF PortsDistinct

LEMMA AddedRows ==
  ASSUME NEW T \in SUBSET SlotType, PortsDistinct(T), NEW p \in FreePorts(T, {}), NEW c, NEW i
  PROVE  /\ {r \in RowsOf(T \cup {FSlot(p, c, i)}) : r.bind # p} = RowsOf(T)
         /\ PortsDistinct(T \cup {FSlot(p, c, i)})
<1> DEFINE n == FSlot(p, c, i)
<1>1. n.bind = p /\ Row(n).bind = p
  BY DEF FSlot, Row
<1> HIDE DEF n
<1>2. \A t \in T : t.bind # p /\ Row(t).bind = t.bind
  BY DEF FreePorts, PortsOf, Row
<1>3. {r \in RowsOf(T \cup {n}) : r.bind # p} = RowsOf(T)
  BY <1>1, <1>2 DEF RowsOf, Grants
<1>4. PortsDistinct(T \cup {n})
  BY <1>1, <1>2 DEF PortsDistinct
<1> QED BY <1>3, <1>4 DEF n

LEMMA MovedRows ==
  ASSUME NEW T \in SUBSET SlotType, PortsDistinct(T), NEW s \in T,
         NEW to \in Ports, to \notin PortsOf(T)
  PROVE  /\ PortsDistinct(Moved(T, s, to))
         /\ s.bind \notin PortsOf(Moved(T, s, to))
         /\ RowsOf(Moved(T, s, to)) = {MovedRow(r, s.bind, to) : r \in RowsOf(T)}
<1> DEFINE t == [s EXCEPT !.bind = to]
<1>1. t \in SlotType /\ t.bind = to /\ t.client = s.client /\ t.int = s.int
  BY MovedSlot DEF SlotType
<1>2. Row(t) = [Row(s) EXCEPT !.bind = to]
  BY <1>1 DEF Row
<1>3. Moved(T, s, to) = (T \ {s}) \cup {t}
  BY DEF Moved
<1> HIDE DEF t
<1>4. \A x \in T : x.bind # to /\ (x.bind = s.bind <=> x = s)
  BY DEF PortsDistinct, PortsOf
<1>5. PortsDistinct(Moved(T, s, to))
  BY <1>1, <1>3, <1>4 DEF PortsDistinct
<1>6. s.bind \notin PortsOf(Moved(T, s, to))
  BY <1>1, <1>3, <1>4 DEF PortsOf
<1>7. \A x \in T : MovedRow(Row(x), s.bind, to) = IF x = s THEN Row(t) ELSE Row(x)
  BY <1>2, <1>4 DEF MovedRow, Row
<1>8. IsStatic(t) <=> IsStatic(s)
  BY <1>1 DEF IsStatic
<1>9. RowsOf(Moved(T, s, to)) = {MovedRow(r, s.bind, to) : r \in RowsOf(T)}
  BY <1>3, <1>7, <1>8 DEF RowsOf, Grants
<1> QED BY <1>5, <1>6, <1>9

(* Rows without the port are not moved. *)
LEMMA UnmovedRows ==
  ASSUME NEW R, NEW from, NEW to, \A r \in R : r.bind # from
  PROVE  {MovedRow(r, from, to) : r \in R} = R
BY DEF MovedRow

(* leases.tsv, by the stage of the one job under way: it has the table's   *)
(* rows, or those from before the job's own change, or the job will still  *)
(* write.                                                                  *)
Settled == {"idle", "upsert", "pick", "find", "move", "copyindex", "index"}
Placing == {"datapath", "bind", "undo"}
Moving == {"rebind", "moveback"}
Stage(j, T, D) ==
  /\ j.at \in Settled => D = RowsOf(T)
  /\ j.at \in Placing => D = {r \in RowsOf(T) : r.bind # j.port}
  /\ j.at \in Moving => /\ j.old \notin PortsOf(T)
                        /\ D = {MovedRow(r, j.port, j.old) : r \in RowsOf(T)}
  /\ j.at = "leases" => j.rows = RowsOf(T)

(* Only h may be under way. *)
Turn(h) == \A g \in Jobs : g = h \/ job[g].at = "idle"
OneJob == \A g, h \in Jobs : job[g].at # "idle" /\ job[h].at # "idle" => g = h
Filed == scene.busy = 1 /\ "cancel" \notin scene.uses /\ "persist" \in scene.uses
FileInv == /\ ~up => \A h \in Jobs : job[h].at = "idle"
           /\ up /\ Filed => /\ OneJob /\ PortsDistinct(slots)
                             /\ \A h \in Jobs : Turn(h) => Stage(job[h], slots, disk.leases)

LEMMA UnderWay ==
  ASSUME OneJob, NEW h \in Jobs, job[h].at # "idle"
  PROVE  Turn(h)
BY DEF OneJob, Turn

(* A job that may start finds no other. *)
LEMMA MayStartAlone ==
  ASSUME OneJob, scene.busy = 1, NEW h \in Jobs, NEW use, MayStart(h, use)
  PROVE  Turn(h) /\ job[h].at = "idle" /\ up
<1>1. Cardinality(Busy) < 1
  BY DEF MayStart
<1>2. Busy = {}
  <2> SUFFICES ASSUME NEW g \in Busy PROVE FALSE
    OBVIOUS
  <2>1. Busy = {g}
    BY DEF Busy, OneJob
  <2>2. Cardinality(Busy) = 1
    BY <2>1, FS_Singleton
  <2> QED BY <1>1, <2>2
<1> QED BY <1>2 DEF Busy, Turn, MayStart, At

(* The one job goes on to j. *)
LEMMA FilesMove ==
  ASSUME TypeInv, FileInv, Filed, up, NEW h \in Jobs, Turn(h), NEW j, Do(h, j),
         UNCHANGED <<up, scene>>, PortsDistinct(slots'), Stage(j, slots', disk'.leases)
  PROVE  FileInv'
<1>1. \A g \in Jobs : job'[g] = IF g = h THEN j ELSE job[g]
  BY DEF TypeInv, JobInv, Do
<1>2. \A g \in Jobs : g # h => job'[g].at = "idle"
  BY <1>1 DEF Turn
<1>3. OneJob'
  BY <1>2 DEF OneJob
<1>4. ASSUME NEW g \in Jobs, Turn(g)' PROVE Stage(job'[g], slots', disk'.leases)
  <2>1. CASE g = h
    BY <1>1, <2>1
  <2>2. CASE g # h
    <3>1. j.at = "idle" /\ job'[g].at = "idle"
      BY <1>1, <1>2, <1>4, <2>2 DEF Turn
    <3> QED BY <3>1 DEF Stage, Settled, Placing, Moving
  <2> QED BY <2>1, <2>2
<1>5. up' /\ PortsDistinct(slots')
  OBVIOUS
<1> QED BY <1>3, <1>4, <1>5 DEF FileInv

(* It stays among the stages at which the file says the same. *)
LEMMA FilesGo ==
  ASSUME TypeInv, FileInv, Filed, up, NEW h \in Jobs, Turn(h), NEW j, Do(h, j),
         UNCHANGED <<up, scene, slots>>, disk'.leases = disk.leases,
         j.at \in Settled => job[h].at \in Settled,
         j.at \in Placing => job[h].at \in Placing /\ j.port = job[h].port,
         j.at \in Moving => job[h].at \in Moving /\ j.port = job[h].port /\ j.old = job[h].old,
         j.at # "leases"
  PROVE  FileInv'
<1>1. Stage(job[h], slots, disk.leases) /\ PortsDistinct(slots)
  BY DEF FileInv
<1>2. Stage(j, slots', disk'.leases)
  BY <1>1 DEF Stage
<1> QED BY <1>1, <1>2, FilesMove

(* It is at a stage after which it will still write. *)
Writing == Labels \ (Settled \cup Placing \cup Moving \cup {"leases"})
LEMMA Writers == {"entry", "register", "remove", "revoke", "abort", "forget", "redirect",
                  "reregister", "release", "reindex", "snapshot"} \subseteq Writing
BY DEF Writing, Labels, Settled, Placing, Moving

LEMMA FilesWrite ==
  ASSUME TypeInv, FileInv, Filed, up, NEW h \in Jobs, Turn(h), NEW j, Do(h, j),
         UNCHANGED <<up, scene>>, PortsDistinct(slots'), j.at \in Writing
  PROVE  FileInv'
<1>1. Stage(j, slots', disk'.leases)
  BY DEF Stage, Writing, Labels, Settled, Placing, Moving
<1> QED BY <1>1, FilesMove

(* A table step of a teardown. *)
LEMMA DeletedRows ==
  ASSUME slots \in SUBSET SlotType, PortsDistinct(slots), NEW p, TableDelete(p)
  PROVE  /\ PortsDistinct(slots')
         /\ RowsOf(slots') = {r \in RowsOf(slots) : r.bind # p}
<1>1. CASE p \in PortsOf(slots)
  <2>1. PICK s \in slots : s.bind = p /\ slots' = slots \ {s}
    BY <1>1 DEF TableDelete
  <2> QED BY <2>1, FreedRows
<1>2. CASE p \notin PortsOf(slots)
  <2>1. slots' = slots
    BY <1>2 DEF TableDelete
  <2>2. \A r \in RowsOf(slots) : r.bind # p
    BY <1>2 DEF RowsOf, Grants, Row, PortsOf
  <2> QED BY <2>1, <2>2
<1> QED BY <1>1, <1>2

LEMMA GrantFiles ==
  ASSUME TypeInv, FileInv, Filed, NEW h \in Jobs, GrantStep(h)
  PROVE  FileInv'
<1> DEFINE J == job[h]
<1>1. /\ up /\ J.at # "idle" /\ UNCHANGED <<up, scene, disk>> /\ J \in JobShape
      /\ slots \in SUBSET SlotType
  BY JobParts DEF GrantStep, UpsertRefresh, UpsertNew, UpsertRefused, EvictPick, GrantDatapath, BindSlot,
                  UndoSlot, RegisterTasks, ApplyEntry, At, TypeInv, SlotsInv
<1>2. Turn(h) /\ PortsDistinct(slots) /\ Stage(J, slots, disk.leases)
  BY <1>1, UnderWay DEF FileInv
<1>3. \A j : UNCHANGED slots /\ Do(h, j) /\ j.at \in Settled /\ J.at \in Settled => FileInv'
  <2> TAKE j
  <2> HAVE UNCHANGED slots /\ Do(h, j) /\ j.at \in Settled /\ J.at \in Settled
  <2>1. j.at \notin Placing \cup Moving \cup {"leases"}
    BY DEF Settled, Placing, Moving
  <2> QED BY <1>1, <1>2, <2>1, FilesGo
<1>4. \A j : UNCHANGED slots /\ Do(h, j) /\ j.at \in Writing => FileInv'
  BY <1>1, <1>2, FilesWrite
<1>5. ASSUME NEW l, Goto(h, l), UNCHANGED slots, l \in Writing \/ (l \in Settled /\ J.at \in Settled)
      PROVE  FileInv'
  <2> DEFINE k == [J EXCEPT !.at = l]
  <2>1. Do(h, k) /\ k.at = l
    BY <1>1, <1>5 DEF Goto, JobShape
  <2> HIDE DEF k
  <2> QED BY <1>3, <1>4, <1>5, <2>1
<1>6. ASSUME Finish(h), UNCHANGED slots, J.at \in Settled PROVE FileInv'
  <2>1. Do(h, Idling) /\ Idling.at \in Settled
    BY <1>6 DEF Finish, Idling, Settled
  <2> QED BY <1>3, <1>6, <2>1
<1>7. CASE UpsertRefresh(h)
  <2>1. PICK s \in slots : /\ slots' = Restamped(slots, s, FALSE)
                           /\ Do(h, [J EXCEPT !.at = "entry", !.port = s.bind])
    BY <1>7 DEF UpsertRefresh, Restamped
  <2>2. [J EXCEPT !.at = "entry", !.port = s.bind].at = "entry" /\ "entry" \in Writing
    BY <1>1, Writers DEF JobShape
  <2>3. PortsDistinct(slots')
    BY <1>1, <1>2, <2>1, RestampedRows
  <2> QED BY <1>1, <1>2, <2>1, <2>2, <2>3, FilesWrite
<1>8. CASE UpsertNew(h)
  <2>1. PICK p \in FreePorts(slots, {}) : /\ slots' = slots \cup {FSlot(p, J.req.client, J.req.int)}
                                          /\ Do(h, [J EXCEPT !.at = "datapath", !.port = p])
    BY <1>8 DEF UpsertNew
  <2> DEFINE k == [J EXCEPT !.at = "datapath", !.port = p]
  <2>2. k.at = "datapath" /\ k.port = p
    BY <1>1 DEF JobShape
  <2>3. Do(h, k)
    BY <2>1
  <2> HIDE DEF k
  <2>4. disk.leases = RowsOf(slots)
    BY <1>2, <1>8 DEF Stage, Settled, UpsertNew, At
  <2>5. PortsDistinct(slots') /\ {r \in RowsOf(slots') : r.bind # p} = RowsOf(slots)
    BY <1>1, <1>2, <2>1, AddedRows
  <2>6. Stage(k, slots', disk'.leases)
    BY <1>1, <2>2, <2>4, <2>5 DEF Stage, Settled, Placing, Moving
  <2> QED BY <1>1, <1>2, <2>3, <2>5, <2>6, FilesMove
<1>9. CASE UpsertRefused(h) \/ EvictPick(h)
  <2>1. UNCHANGED slots /\ J.at \in Settled /\ "pick" \in Settled
    BY <1>9 DEF UpsertRefused, EvictPick, At, Settled
  <2>2. CASE Finish(h) \/ Goto(h, "pick")
    BY <1>5, <1>6, <2>1, <2>2
  <2>3. ASSUME NEW s \in slots,
               Do(h, [J EXCEPT !.at = "remove", !.kind = "evict", !.old = s.bind, !.retried = TRUE])
        PROVE  FileInv'
    <3>1. [J EXCEPT !.at = "remove", !.kind = "evict", !.old = s.bind, !.retried = TRUE].at = "remove"
      BY <1>1 DEF JobShape
    <3> QED BY <1>4, <2>1, <2>3, <3>1, Writers
  <2> QED BY <1>9, <2>2, <2>3 DEF UpsertRefused, EvictPick
<1>10. CASE GrantDatapath(h) \/ BindSlot(h)
  <2>1. UNCHANGED slots /\ J.at \in Placing /\ {"bind", "undo"} \subseteq Placing
    BY <1>10 DEF GrantDatapath, BindSlot, At, Placing
  <2>2. ASSUME NEW l \in {"bind", "undo"}, Goto(h, l) PROVE FileInv'
    <3> DEFINE k == [J EXCEPT !.at = l]
    <3>1. Do(h, k) /\ k.at = l /\ k.port = J.port
      BY <1>1, <2>2 DEF Goto, JobShape
    <3> HIDE DEF k
    <3>2. k.at \notin Settled /\ k.at \notin Moving /\ k.at # "leases"
      BY <3>1 DEF Settled, Moving
    <3> QED BY <1>1, <1>2, <2>1, <3>1, <3>2, FilesGo
  <2>3. Goto(h, "register") => FileInv'
    BY <1>5, <2>1, Writers
  <2> QED BY <1>10, <2>2, <2>3 DEF GrantDatapath, BindSlot
<1>11. CASE UndoSlot(h)
  <2>1. TableDelete(J.port) /\ Do(h, Idling) /\ J.at \in Placing
    BY <1>11 DEF UndoSlot, Finish, At, Placing
  <2>2. PortsDistinct(slots') /\ RowsOf(slots') = disk'.leases
    BY <1>1, <1>2, <2>1, DeletedRows DEF Stage
  <2>3. Stage(Idling, slots', disk'.leases)
    BY <2>2 DEF Stage, Idling, Placing, Moving
  <2> QED BY <1>1, <1>2, <2>1, <2>2, <2>3, FilesMove
<1>12. CASE RegisterTasks(h)
  BY <1>5, <1>12, Writers DEF RegisterTasks
<1>13. CASE ApplyEntry(h)
  <2>1. UNCHANGED slots /\ (Do(h, Save(J)) \/ \E e \in entries : Do(h, Stray(J, e.bind)))
    BY <1>13 DEF ApplyEntry
  <2>2. Save(J).at = "snapshot" /\ \A e \in entries : Stray(J, e.bind).at = "remove"
    BY <1>1 DEF Filed, Save, Stray, JobShape
  <2> QED BY <1>4, <2>1, <2>2, Writers
<1> QED BY <1>7, <1>8, <1>9, <1>10, <1>11, <1>12, <1>13 DEF GrantStep

LEMMA TeardownFiles ==
  ASSUME TypeInv, FileInv, Filed, NEW h \in Jobs, TeardownStep(h)
  PROVE  FileInv'
<1> DEFINE J == job[h]
<1>1. /\ up /\ J.at # "idle" /\ UNCHANGED <<up, scene, disk>> /\ J \in JobShape
      /\ slots \in SUBSET SlotType
  BY JobParts DEF TeardownStep, Remove, Revoke, AbortTasks, Forget, FindEntry, At, TypeInv, SlotsInv
<1>2. Turn(h) /\ PortsDistinct(slots)
  BY <1>1, UnderWay DEF FileInv
<1>3. \A j : PortsDistinct(slots') /\ Do(h, j) /\ j.at \in Writing => FileInv'
  BY <1>1, <1>2, FilesWrite
<1>4. ASSUME NEW l \in Writing, Goto(h, l), PortsDistinct(slots') PROVE FileInv'
  <2> DEFINE k == [J EXCEPT !.at = l]
  <2>1. Do(h, k) /\ k.at = l
    BY <1>1, <1>4 DEF Goto, JobShape
  <2> HIDE DEF k
  <2> QED BY <1>3, <1>4, <2>1
<1>5. CASE Remove(h)
  <2>1. PortsDistinct(slots')
    BY <1>1, <1>2, <1>5, DeletedRows DEF Remove
  <2> QED BY <1>4, <1>5, <2>1, Writers DEF Remove
<1>6. CASE Revoke(h)
  BY <1>2, <1>4, <1>6, Writers DEF Revoke
<1>7. Save(J).at = "snapshot"
  BY <1>1 DEF Filed, Save, JobShape
<1>8. CASE AbortTasks(h)
  <2>1. AfterAbort(J).at \in {"snapshot", "forget"}
    BY <1>1, <1>7 DEF AfterAbort, JobShape
  <2> QED BY <1>2, <1>3, <1>8, <2>1, Writers DEF AbortTasks
<1>9. CASE Forget(h)
  <2>1. UNCHANGED slots
    BY <1>9 DEF Forget
  <2>2. ASSUME NEW p, Do(h, [J EXCEPT !.at = "revoke", !.old = p, !.freed = @ \ {p}]) PROVE FileInv'
    <3>1. [J EXCEPT !.at = "revoke", !.old = p, !.freed = @ \ {p}].at = "revoke"
      BY <1>1 DEF JobShape
    <3> QED BY <1>2, <1>3, <2>1, <2>2, <3>1, Writers
  <2>3. Do(h, Save(J)) => FileInv'
    BY <1>2, <1>3, <1>7, <2>1, Writers
  <2> QED BY <1>9, <2>2, <2>3 DEF Forget
<1>10. CASE FindEntry(h)
  <2>1. UNCHANGED slots /\ J.at \in Settled
    BY <1>10 DEF FindEntry, At, Settled
  <2>2. PICK l \in J.todo :
          \/ \E e \in entries :
               Do(h, [[J EXCEPT !.todo = @ \ {l}]
                        EXCEPT !.at = "remove", !.old = e.bind,
                               !.req = [ext |-> e.ext, owner |-> e.owner,
                                        client |-> e.client, int |-> e.int]])
          \/ Do(h, AfterSave([J EXCEPT !.todo = @ \ {l}]))
    BY <1>10 DEF FindEntry
  <2> DEFINE rest == [J EXCEPT !.todo = @ \ {l}]
  <2>3. rest \in JobShape /\ rest.at = J.at
    BY <1>1 DEF JobShape
  <2>4. ASSUME NEW e \in entries,
               Do(h, [rest EXCEPT !.at = "remove", !.old = e.bind,
                                  !.req = [ext |-> e.ext, owner |-> e.owner,
                                           client |-> e.client, int |-> e.int]])
        PROVE  FileInv'
    <3> DEFINE k == [rest EXCEPT !.at = "remove", !.old = e.bind,
                                 !.req = [ext |-> e.ext, owner |-> e.owner,
                                          client |-> e.client, int |-> e.int]]
    <3> HIDE DEF rest
    <3>1. k.at = "remove"
      BY <2>3 DEF JobShape
    <3> QED BY <1>2, <1>3, <2>1, <2>4, <3>1, Writers
  <2>5. ASSUME Do(h, AfterSave(rest)) PROVE FileInv'
    <3> HIDE DEF rest
    <3>1. AfterSave(rest).at \in {"upsert", "find", "idle"}
      BY <2>3 DEF AfterSave, JobShape, Idling
    <3> DEFINE k == AfterSave(rest)
    <3> HIDE DEF k
    <3>2. k.at \in Settled /\ k.at \notin Placing /\ k.at \notin Moving /\ k.at # "leases"
      BY <3>1 DEF k, Settled, Placing, Moving
    <3>3. Do(h, k)
      BY <2>5 DEF k
    <3> QED BY <1>1, <1>2, <2>1, <3>2, <3>3, FilesGo
  <2> QED BY <2>2, <2>4, <2>5
<1> QED BY <1>5, <1>6, <1>8, <1>9, <1>10 DEF TeardownStep

LEMMA YieldFiles ==
  ASSUME TypeInv, FileInv, Filed, NEW h \in Jobs, YieldStep(h)
  PROVE  FileInv'
<1> DEFINE J == job[h]
<1>1. /\ up /\ J.at # "idle" /\ UNCHANGED <<up, scene, disk>> /\ J \in JobShape /\ Carries(J)
      /\ slots \in SUBSET SlotType
  BY JobParts DEF YieldStep, MoveLease, Rebind, MoveBack, Redirect, Reregister, ReleaseOld, Reindex,
                  At, TypeInv, SlotsInv
<1>2. Turn(h) /\ PortsDistinct(slots) /\ Stage(J, slots, disk.leases)
  BY <1>1, UnderWay DEF FileInv
<1>3. ASSUME NEW l \in Writing, Goto(h, l), UNCHANGED slots PROVE FileInv'
  <2> DEFINE k == [J EXCEPT !.at = l]
  <2>1. Do(h, k) /\ k.at = l
    BY <1>1, <1>3 DEF Goto, JobShape
  <2> HIDE DEF k
  <2> QED BY <1>1, <1>2, <1>3, <2>1, FilesWrite
<1>4. CASE MoveLease(h)
  <2>1. J.at = "move" /\ disk.leases = RowsOf(slots)
    BY <1>2, <1>4 DEF MoveLease, At, Stage, Settled
  <2>2. CASE Finish(h) /\ UNCHANGED slots
    <3>1. Stage(Idling, slots', disk'.leases)
      BY <1>1, <2>1, <2>2 DEF Stage, Idling, Placing, Moving
    <3> QED BY <1>1, <1>2, <2>2, <3>1, FilesMove DEF Finish
  <2>3. ASSUME NEW s \in slots, NEW p \in FreePorts(slots, {}), s.bind = J.old,
               slots' = Moved(slots, s, p), Do(h, [J EXCEPT !.at = "rebind", !.port = p])
        PROVE  FileInv'
    <3> DEFINE k == [J EXCEPT !.at = "rebind", !.port = p]
               t == [s EXCEPT !.bind = p]
    <3>1. k.at = "rebind" /\ k.port = p /\ k.old = s.bind
      BY <1>1, <2>3 DEF JobShape
    <3>2. p \in Ports /\ p \notin PortsOf(slots) /\ s.bind \in Ports /\ s \in SlotType
      BY <1>1 DEF FreePorts, SlotType
    <3>3. t \in SlotType /\ t.bind = p /\ [t EXCEPT !.bind = s.bind] = s
      BY <3>2, MovedSlot DEF SlotType
    <3>4. slots' = (slots \ {s}) \cup {t}
      BY <2>3 DEF Moved
    <3>5. /\ PortsDistinct(slots') /\ s.bind \notin PortsOf(slots')
      BY <1>1, <1>2, <2>3, <3>2, MovedRows
    <3> HIDE DEF t, k
    <3>6. \A x \in slots : x.bind # p
      BY <3>2 DEF PortsOf
    <3>7. Moved(slots', t, s.bind) = slots
      BY <3>3, <3>4, <3>6 DEF Moved
    <3>8. slots' \in SUBSET SlotType
      BY <1>1, <3>3, <3>4
    <3>9. RowsOf(slots) = {MovedRow(r, p, s.bind) : r \in RowsOf(slots')}
      BY <3>2, <3>3, <3>4, <3>5, <3>7, <3>8, MovedRows
    <3>10. Stage(k, slots', disk'.leases)
      BY <1>1, <2>1, <3>1, <3>5, <3>9 DEF Stage, Settled, Placing, Moving
    <3>11. Do(h, k)
      BY <2>3 DEF k
    <3> QED BY <1>1, <1>2, <3>5, <3>10, <3>11, FilesMove
  <2> QED BY <1>4, <2>2, <2>3 DEF MoveLease, Moved
<1>5. CASE Rebind(h)
  <2>1. UNCHANGED slots /\ J.at \in Moving /\ "moveback" \in Moving
    BY <1>5 DEF Rebind, At, Moving
  <2>2. ASSUME Goto(h, "moveback") PROVE FileInv'
    <3> DEFINE k == [J EXCEPT !.at = "moveback"]
    <3>1. Do(h, k) /\ k.at = "moveback" /\ k.port = J.port /\ k.old = J.old
      BY <1>1, <2>2 DEF Goto, JobShape
    <3> HIDE DEF k
    <3>2. k.at \notin Settled /\ k.at \notin Placing /\ k.at # "leases"
      BY <3>1 DEF Settled, Placing
    <3> QED BY <1>1, <1>2, <2>1, <3>1, <3>2, FilesGo
  <2>3. Goto(h, "redirect") => FileInv'
    BY <1>3, <2>1, Writers
  <2> QED BY <1>5, <2>2, <2>3 DEF Rebind
<1>6. CASE MoveBack(h)
  <2>1. /\ J.old \notin PortsOf(slots) /\ J.old \in Ports
        /\ disk.leases = {MovedRow(r, J.port, J.old) : r \in RowsOf(slots)}
    BY <1>1, <1>2, <1>6 DEF MoveBack, At, Stage, Moving, Carries
  <2>2. PortsDistinct(slots') /\ RowsOf(slots') = disk.leases
    <3>1. CASE J.port \in PortsOf(slots)
      <4>1. PICK s \in slots : s.bind = J.port /\ slots' = Moved(slots, s, J.old)
        BY <1>6, <3>1 DEF MoveBack, Moved
      <4> QED BY <1>1, <1>2, <2>1, <4>1, MovedRows
    <3>2. CASE J.port \notin PortsOf(slots)
      <4>1. UNCHANGED slots
        BY <1>6, <3>2 DEF MoveBack
      <4>2. \A r \in RowsOf(slots) : r.bind # J.port
        BY <3>2 DEF RowsOf, Grants, Row, PortsOf
      <4> QED BY <1>2, <2>1, <4>1, <4>2, UnmovedRows
    <3> QED BY <3>1, <3>2
  <2>3. Stage(Idling, slots', disk'.leases)
    BY <1>1, <2>2 DEF Stage, Idling, Placing, Moving
  <2>4. Do(h, Idling)
    BY <1>6 DEF MoveBack, Finish
  <2> QED BY <1>1, <1>2, <2>2, <2>3, <2>4, FilesMove
<1>7. CASE Redirect(h) \/ Reregister(h) \/ ReleaseOld(h)
  BY <1>3, <1>7, Writers DEF Redirect, Reregister, ReleaseOld
<1>8. CASE Reindex(h)
  <2>1. Save(J).at = "snapshot"
    BY <1>1 DEF Filed, Save, JobShape
  <2> QED BY <1>1, <1>2, <1>8, <2>1, Writers, FilesWrite DEF Reindex
<1> QED BY <1>4, <1>5, <1>6, <1>7, <1>8 DEF YieldStep

LEMMA PersistFiles ==
  ASSUME TypeInv, FileInv, Filed, NEW h \in Jobs, PersistStep(h)
  PROVE  FileInv'
<1> DEFINE J == job[h]
<1>1. /\ up /\ J.at # "idle" /\ UNCHANGED <<up, scene, slots>> /\ J \in JobShape /\ disk \in DiskType
  BY JobParts DEF PersistStep, CopyTable, WriteLeases, CopyIndex, WriteIndex, At, TypeInv, DiskInv
<1>2. Turn(h) /\ PortsDistinct(slots) /\ Stage(J, slots, disk.leases)
  BY <1>1, UnderWay DEF FileInv
<1>3. ASSUME NEW k, Do(h, k), k.at \in Settled, disk'.leases = RowsOf(slots) PROVE FileInv'
  <2>1. Stage(k, slots', disk'.leases)
    BY <1>1, <1>3 DEF Stage, Settled, Placing, Moving
  <2> QED BY <1>1, <1>2, <1>3, <2>1, FilesMove
<1>4. CASE CopyTable(h)
  <2> DEFINE k == [J EXCEPT !.at = "leases", !.rows = {Row(s) : s \in Grants(slots)}]
  <2>1. k.at = "leases" /\ k.rows = RowsOf(slots)
    BY <1>1 DEF JobShape, RowsOf
  <2>2. Do(h, k)
    BY <1>4 DEF CopyTable
  <2> HIDE DEF k
  <2>3. Stage(k, slots', disk'.leases)
    BY <1>1, <2>1 DEF Stage, Settled, Placing, Moving
  <2> QED BY <1>1, <1>2, <2>2, <2>3, FilesMove
<1>5. CASE WriteLeases(h)
  <2> DEFINE k == [J EXCEPT !.at = "copyindex", !.rows = {}]
  <2>1. k.at \in Settled
    BY <1>1 DEF JobShape, Settled
  <2>2. Do(h, k) /\ disk' = [disk EXCEPT !.leases = J.rows] /\ J.at = "leases"
    BY <1>5 DEF WriteLeases, At
  <2>3. disk'.leases = RowsOf(slots)
    BY <1>1, <1>2, <2>2 DEF DiskType, Stage
  <2> HIDE DEF k
  <2> QED BY <1>3, <2>1, <2>2, <2>3
<1>6. CASE CopyIndex(h)
  <2> DEFINE k == [J EXCEPT !.at = "index", !.rows = entries]
  <2>1. k.at \in Settled
    BY <1>1 DEF JobShape, Settled
  <2>2. Do(h, k) /\ UNCHANGED disk /\ J.at = "copyindex"
    BY <1>6 DEF CopyIndex, At
  <2>3. disk'.leases = RowsOf(slots)
    BY <1>2, <2>2 DEF Stage, Settled
  <2> HIDE DEF k
  <2> QED BY <1>3, <2>1, <2>2, <2>3
<1>7. CASE WriteIndex(h)
  <2> DEFINE k == AfterSave([J EXCEPT !.rows = {}])
  <2>1. [J EXCEPT !.rows = {}] \in JobShape /\ [J EXCEPT !.rows = {}].at = "index"
    BY <1>1, <1>7 DEF JobShape, WriteIndex, At
  <2>2. k.at \in Settled
    BY <2>1 DEF AfterSave, JobShape, Idling, Settled
  <2>3. Do(h, k) /\ disk' = [disk EXCEPT !.index = J.rows] /\ J.at = "index"
    BY <1>7 DEF WriteIndex, At
  <2>4. disk'.leases = RowsOf(slots)
    BY <1>1, <1>2, <2>3 DEF DiskType, Stage, Settled
  <2> HIDE DEF k
  <2> QED BY <1>3, <2>2, <2>3, <2>4
<1> QED BY <1>4, <1>5, <1>6, <1>7 DEF PersistStep

LEMMA StartFiles == ASSUME TypeInv, FileInv, Filed, Start PROVE FileInv'
<1>1. slots \in SUBSET SlotType /\ scene.busy = 1
  BY DEF TypeInv, SlotsInv, Filed
<1>2. ASSUME NEW h \in Jobs, NEW use, MayStart(h, use)
      PROVE  /\ Turn(h) /\ up /\ job[h].at \in Settled /\ PortsDistinct(slots)
             /\ Stage(job[h], slots, disk.leases)
  <2>1. up
    BY <1>2 DEF MayStart, At
  <2>2. Turn(h) /\ job[h].at = "idle"
    BY <1>1, <1>2, <2>1, MayStartAlone DEF FileInv
  <2> QED BY <2>1, <2>2 DEF FileInv, Settled
<1>3. ASSUME NEW h \in Jobs, NEW use, MayStart(h, use), NEW k, Do(h, k), k.at \in {"upsert", "find", "move"},
             UNCHANGED <<up, scene, slots, disk>>
      PROVE  FileInv'
  <2>1. k.at \in Settled /\ k.at \notin Placing /\ k.at \notin Moving /\ k.at # "leases"
    BY <1>3 DEF Settled, Placing, Moving
  <2> QED BY <1>2, <1>3, <2>1, FilesGo
<1>4. ASSUME NEW h \in Workers, NEW r \in scene.requests, StartGrant(h, r) PROVE FileInv'
  <2> DEFINE k == [Idling EXCEPT !.at = "upsert", !.kind = "grant", !.req = r]
  <2>1. k.at = "upsert"
    BY DEF Idling
  <2>2. h \in Jobs /\ MayStart(h, "grant") /\ Do(h, k) /\ UNCHANGED <<up, scene, slots, disk>>
    BY <1>4 DEF StartGrant, Jobs
  <2> HIDE DEF k
  <2> QED BY <1>3, <2>1, <2>2
<1>5. ASSUME NEW h \in Jobs, NEW use, NEW labels, StartDelete(h, use, labels) PROVE FileInv'
  <2> DEFINE k == [Idling EXCEPT !.at = "find", !.kind = "delete", !.todo = labels]
  <2>1. k.at = "find"
    BY DEF Idling
  <2>2. MayStart(h, use) /\ Do(h, k) /\ UNCHANGED <<up, scene, slots, disk>>
    BY <1>5 DEF StartDelete
  <2> HIDE DEF k
  <2> QED BY <1>3, <2>1, <2>2
<1>6. ASSUME NEW old, StartYield(old) PROVE FileInv'
  <2>1. PICK e \in entries :
          Do(Collector, [Idling EXCEPT !.at = "move", !.kind = "yield", !.old = old,
                           !.req = [ext |-> e.ext, owner |-> e.owner,
                                    client |-> e.client, int |-> e.int]])
    BY <1>6 DEF StartYield
  <2> DEFINE k == [Idling EXCEPT !.at = "move", !.kind = "yield", !.old = old,
                           !.req = [ext |-> e.ext, owner |-> e.owner,
                                    client |-> e.client, int |-> e.int]]
  <2>2. k.at = "move"
    BY DEF Idling
  <2>3. /\ Collector \in Jobs /\ MayStart(Collector, "yield") /\ Do(Collector, k)
        /\ UNCHANGED <<up, scene, slots, disk>>
    BY <1>6, <2>1 DEF StartYield, Jobs
  <2> HIDE DEF k
  <2> QED BY <1>3, <2>2, <2>3
<1>7. CASE Sweep
  <2> DEFINE freed == PortsOf({s \in slots : ~IsStatic(s) /\ s.stale})
  <2>1. PICK p \in freed :
          Do(Collector, [Idling EXCEPT !.at = "revoke", !.kind = "sweep", !.old = p, !.freed = freed \ {p}])
    BY <1>7 DEF Sweep
  <2>2. /\ Collector \in Jobs /\ MayStart(Collector, "sweep") /\ slots' \subseteq slots
        /\ UNCHANGED <<up, scene>>
    BY <1>7 DEF Sweep, Jobs
  <2>3. PortsDistinct(slots')
    BY <1>2, <2>2 DEF PortsDistinct
  <2> HIDE DEF freed
  <2> DEFINE k == [Idling EXCEPT !.at = "revoke", !.kind = "sweep", !.old = p, !.freed = freed \ {p}]
  <2>4. k.at = "revoke" /\ Do(Collector, k)
    BY <2>1 DEF Idling
  <2> HIDE DEF k
  <2> QED BY <1>2, <2>2, <2>3, <2>4, Writers, FilesWrite
<1>8. ASSUME NEW h \in Workers,
             \/ \E r \in scene.requests : DeleteMapping(h, [ext |-> r.ext, owner |-> r.owner])
             \/ \E c \in Clients : DeleteRange(h, c)
             \/ \E c \in Clients, i \in IntPorts : DeleteKey(h, c, i)
      PROVE  FileInv'
  BY <1>5, <1>8 DEF DeleteMapping, DeleteRange, DeleteKey, Jobs
<1>9. ASSUME NEW gone \in SUBSET Clients, ReapAbsent(gone) PROVE FileInv'
  BY <1>5, <1>9 DEF ReapAbsent, Jobs
<1> QED BY <1>4, <1>6, <1>7, <1>8, <1>9 DEF Start

(* With the process down there is no job; what a boot restores is written  *)
(* back at once.                                                           *)
LEMMA EnvironmentFiles == ASSUME TypeInv, FileInv, Environment PROVE FileInv'
<1>1. CASE Crash
  BY <1>1 DEF Crash, FileInv, Idling
<1>2. ASSUME NEW S \in StaticConfigs, Boot(S) PROVE FileInv'
  <2> DEFINE T == RestoredSlots(S)
  <2>1. /\ slots' = T /\ UNCHANGED job /\ PortsDistinct(T) /\ ~up /\ up'
        /\ disk' = [disk EXCEPT !.leases = {Row(s) : s \in Grants(T)}]
    BY <1>2 DEF Boot, Bootable
  <2>2. \A h \in Jobs : job'[h].at = "idle"
    BY <2>1 DEF FileInv
  <2>3. disk'.leases = RowsOf(T)
    BY <2>1 DEF TypeInv, DiskInv, DiskType, RowsOf
  <2> HIDE DEF T
  <2>4. \A h \in Jobs : Stage(job'[h], slots', disk'.leases)
    BY <2>1, <2>2, <2>3 DEF Stage, Placing, Moving
  <2>5. OneJob'
    BY <2>2 DEF OneJob
  <2> QED BY <2>1, <2>4, <2>5 DEF FileInv
<1>3. ASSUME NEW s \in slots, Age(s) \/ Touch(s) PROVE FileInv'
  <2>1. PICK b \in BOOLEAN : slots' = Restamped(slots, s, b)
    BY <1>3 DEF Age, Touch, Restamped
  <2>2. UNCHANGED <<job, disk, up, scene>>
    BY <1>3 DEF Age, Touch
  <2>3. /\ RowsOf(slots') = RowsOf(slots) /\ PortsOf(slots') = PortsOf(slots)
        /\ PortsDistinct(slots) => PortsDistinct(slots')
    BY <2>1, RestampedRows DEF TypeInv, SlotsInv
  <2>4. ASSUME NEW h \in Jobs, Stage(job[h], slots, disk.leases)
        PROVE  Stage(job'[h], slots', disk'.leases)
    BY <2>2, <2>3, <2>4 DEF Stage
  <2> QED BY <2>2, <2>3, <2>4 DEF FileInv, Filed, OneJob, Turn
<1>4. ASSUME NEW k \in socks, Publish(k) \/ CloseSock(k) PROVE FileInv'
  <2>1. UNCHANGED <<slots, job, disk, up, scene>>
    BY <1>4 DEF Publish, CloseSock
  <2> QED BY <2>1 DEF FileInv, Filed, OneJob, Turn
<1>5. ASSUME NEW h \in Workers, Cancel(h) PROVE FileInv'
  <2>1. ~Filed' /\ up'
    BY <1>5 DEF Cancel, Filed
  <2> QED BY <2>1 DEF FileInv
<1> QED BY <1>1, <1>2, <1>3, <1>4, <1>5 DEF Environment

(* What starts or goes on does so in a running process. *)
LEMMA Running ==
  ASSUME Start \/ \E h \in Jobs : Step(h)
  PROVE  up /\ UNCHANGED <<up, scene>>
<1>1. Start => up /\ UNCHANGED <<up, scene>>
  BY DEF Start, StartGrant, DeleteMapping, DeleteRange, DeleteKey, ReapAbsent, StartDelete, StartYield,
         Sweep, MayStart, At
<1>2. ASSUME NEW h \in Jobs, Step(h) PROVE up /\ UNCHANGED <<up, scene>>
  <2>1. GrantStep(h) => up /\ UNCHANGED <<up, scene>>
    BY DEF GrantStep, UpsertRefresh, UpsertNew, UpsertRefused, EvictPick, GrantDatapath, BindSlot,
           UndoSlot, RegisterTasks, ApplyEntry, At
  <2>2. TeardownStep(h) => up /\ UNCHANGED <<up, scene>>
    BY DEF TeardownStep, Remove, Revoke, AbortTasks, Forget, FindEntry, At
  <2>3. YieldStep(h) => up /\ UNCHANGED <<up, scene>>
    BY DEF YieldStep, MoveLease, Rebind, MoveBack, Redirect, Reregister, ReleaseOld, Reindex, At
  <2>4. PersistStep(h) => up /\ UNCHANGED <<up, scene>>
    BY DEF PersistStep, CopyTable, WriteLeases, CopyIndex, WriteIndex, At
  <2> QED BY <1>2, <2>1, <2>2, <2>3, <2>4 DEF Step
<1> QED BY <1>1, <1>2

LEMMA NextFiles == ASSUME TypeInv, FileInv, [Next]_vars PROVE FileInv'
<1>1. CASE Environment
  BY <1>1, EnvironmentFiles
<1>2. CASE UNCHANGED vars
  BY <1>2 DEF vars, FileInv, Filed, OneJob, Turn
<1>3. CASE Start \/ \E h \in Jobs : Step(h)
  <2>1. up /\ UNCHANGED <<up, scene>>
    BY <1>3, Running
  <2>2. CASE Filed
    <3>1. ASSUME NEW h \in Jobs, Step(h) PROVE FileInv'
      BY <2>2, <3>1, GrantFiles, TeardownFiles, YieldFiles, PersistFiles DEF Step
    <3> QED BY <1>3, <2>2, <3>1, StartFiles
  <2>3. CASE ~Filed
    <3>1. ~Filed' /\ up'
      BY <2>1, <2>3 DEF Filed
    <3> QED BY <3>1 DEF FileInv
  <2> QED BY <2>2, <2>3
<1> QED BY <1>1, <1>2, <1>3 DEF Next

LEMMA FilesKept == Spec => []FileInv
<1>1. ASSUME Init PROVE FileInv
  <2>1. \A h \in Jobs : job[h] = Idling
    BY <1>1 DEF Init
  <2>2. RowsOf(slots) = {} /\ disk.leases = {} /\ up
    BY <1>1 DEF Init, RowsOf, Grants, IsStatic, FSlot
  <2>3. PortsDistinct(slots)
    <3>1. slots = {FSlot(p, Operator, 0) : p \in statics}
      BY <1>1 DEF Init
    <3>2. \A p \in statics : FSlot(p, Operator, 0).bind = p
      BY DEF FSlot
    <3> QED BY <3>1, <3>2 DEF PortsDistinct
  <2>4. \A h \in Jobs : Stage(job[h], slots, disk.leases)
    BY <2>1, <2>2 DEF Stage, Idling, Placing, Moving
  <2>5. OneJob
    BY <2>1 DEF OneJob, Idling
  <2> QED BY <2>2, <2>3, <2>4, <2>5 DEF FileInv
<1> QED BY <1>1, Typed, NextFiles, PTL DEF Spec

(* While handlers do not overlap and none is dropped half way, leases.tsv  *)
(* has exactly the grants of the table whenever nothing is under way, with *)
(* every fault, roll-back, yield, sweep and crash: the steps of a job that *)
(* does not persist take back what they changed (persist and its callers,  *)
(* upnpsvc.rs).  Overlapping persists may land out of order.               *)
THEOREM LeasesStayOnDisk ==
  ASSUME \A s \in Scenarios : "persist" \in s.uses => s.busy = 1 /\ "cancel" \notin s.uses
  PROVE  Spec => []LeasesOnDisk
<1>1. ASSUME TypeInv, FileInv PROVE LeasesOnDisk
  <2> SUFFICES ASSUME Quiet, "persist" \in scene.uses PROVE disk.leases = RowsOf(slots)
    BY DEF LeasesOnDisk, RowsOf
  <2>1. Filed /\ up
    BY <1>1 DEF TypeInv, RestInv, Filed, Quiet
  <2>2. \A h \in Jobs : job[h].at = "idle"
    BY DEF Quiet, Busy
  <2>3. Stage(job[Collector], slots, disk.leases)
    BY <1>1, <2>1, <2>2 DEF FileInv, Turn, Jobs
  <2> QED BY <2>2, <2>3 DEF Stage, Settled, Jobs
<1> QED BY <1>1, Typed, FilesKept, PTL

-----------------------------------------------------------------------------
(* Coming back.  What a crash leaves in the kernel's map is in the way of  *)
(* no row on disk: the rows of slots whose elements are up agree with the  *)
(* map, and a port is not on disk before its elements are.                 *)
Agree(n, p, c, i) == \A d \in n.dnat : d.port = p => d = Target(p, c, i)
Yielding == {"move", "rebind", "moveback", "redirect", "reregister", "release", "reindex"}
Untried == {"datapath", "undo"}

(* By the stage of the one job under way, without yields. *)
Agreed(j, T, n) ==
  /\ j.at \notin Yielding
  /\ \A s \in T : Agree(n, s.bind, s.client, s.int) \/ (j.at \in Untried /\ s.bind = j.port)
  /\ j.at \in Placing => \A s \in T : s.bind = j.port => s.client = j.req.client /\ s.int = j.req.int

StaticsAgree == \A p \in statics : Agree(nft, p, Operator, 0)
DiskAgrees == /\ \A r \in disk.leases : r.bind \notin statics => Agree(nft, r.bind, r.client, r.int)
              /\ \A q, r \in disk.leases : q.bind = r.bind => q = r
Recovering == Filed /\ "yield" \notin scene.uses
BootInv == /\ ~up => "crash" \in scene.uses
           /\ Recovering => /\ StaticsAgree /\ DiskAgrees
                            /\ up => \A h \in Jobs : Turn(h) => Agreed(job[h], slots, nft)

(* The slots of U are slots of T, but for their stamps. *)
Covers(T, U) == \A u \in U : \E t \in T : t.bind = u.bind /\ t.client = u.client /\ t.int = u.int

LEMMA AgreeKept ==
  ASSUME NEW m, NEW n, n.dnat \subseteq m.dnat, NEW p, NEW c, NEW i, Agree(m, p, c, i)
  PROVE  Agree(n, p, c, i)
BY DEF Agree

(* The one job goes on to j. *)
LEMMA BootMove ==
  ASSUME TypeInv, BootInv, Recovering, up, NEW h \in Jobs, Turn(h), NEW j, Do(h, j),
         UNCHANGED <<up, scene>>, StaticsAgree', DiskAgrees', Agreed(j, slots', nft')
  PROVE  BootInv'
<1>1. \A g \in Jobs : job'[g] = IF g = h THEN j ELSE job[g]
  BY DEF TypeInv, JobInv, Do
<1>2. \A g \in Jobs : g # h => job'[g].at = "idle"
  BY <1>1 DEF Turn
<1>3. ASSUME NEW g \in Jobs, Turn(g)' PROVE Agreed(job'[g], slots', nft')
  <2>1. CASE g = h
    BY <1>1, <2>1
  <2>2. CASE g # h
    <3>1. j.at = "idle" /\ job'[g].at = "idle"
      BY <1>1, <1>2, <1>3, <2>2 DEF Turn
    <3> QED BY <3>1 DEF Agreed, Yielding, Untried, Placing
  <2> QED BY <2>1, <2>2
<1> QED BY <1>3 DEF BootInv

(* A step that brings up no element and no slot, and writes no lease. *)
LEMMA BootGo ==
  ASSUME TypeInv, BootInv, Recovering, up, NEW h \in Jobs, Turn(h), NEW j, Do(h, j),
         UNCHANGED <<up, scene, statics>>, disk'.leases = disk.leases, nft'.dnat \subseteq nft.dnat,
         Covers(slots, slots'), job[h].at \notin Untried, j.at \notin Yielding, j.at \notin Placing
  PROVE  BootInv'
<1>1. Agreed(job[h], slots, nft)
  BY DEF BootInv
<1>2. \A s \in slots : Agree(nft', s.bind, s.client, s.int)
  BY <1>1, AgreeKept DEF Agreed
<1>3. Agreed(j, slots', nft')
  BY <1>2 DEF Agreed, Covers
<1>4. StaticsAgree' /\ DiskAgrees'
  BY AgreeKept DEF BootInv, StaticsAgree, DiskAgrees
<1> QED BY <1>3, <1>4, BootMove

LEMMA CoversSelf == ASSUME NEW T PROVE \A U \in SUBSET T : Covers(T, U)
BY DEF Covers

LEMMA CoversRestamped ==
  ASSUME NEW T \in SUBSET SlotType, NEW s \in T, NEW b \in BOOLEAN
  PROVE  Covers(T, Restamped(T, s, b))
<1> DEFINE t == [s EXCEPT !.stale = b]
<1>1. t.bind = s.bind /\ t.client = s.client /\ t.int = s.int
  BY DEF SlotType
<1> HIDE DEF t
<1>2. \A u \in (T \ {s}) \cup {t} : u \in T \/ u = t
  OBVIOUS
<1> QED BY <1>1, <1>2 DEF Covers, Restamped, t

(* Elements for a slot on a port that had none in the way. *)
LEMMA AgreeGranted ==
  ASSUME NEW n \in NftType, NEW p, NEW c, NEW i, ~Conflict(n, p, c, i),
         NEW q, NEW d, NEW j, q # p \/ (d = c /\ j = i), q = p \/ Agree(n, q, d, j)
  PROVE  Agree(Granted(n, p, c, i), q, d, j)
<1>1. Granted(n, p, c, i).dnat = n.dnat \cup {Target(p, c, i)}
  BY DEF Granted
<1>2. Target(p, c, i).port = p
  BY DEF Target
<1> QED BY <1>1, <1>2 DEF Agree, Conflict

LEMMA GrantBoots ==
  ASSUME TypeInv, StaticInv, FileInv, BootInv, Recovering, NEW h \in Jobs, GrantStep(h)
  PROVE  BootInv'
<1> DEFINE J == job[h]
<1>1. /\ up /\ J.at # "idle" /\ UNCHANGED <<up, scene, disk, statics>> /\ J \in JobShape
      /\ slots \in SUBSET SlotType /\ nft \in NftType
  BY JobParts DEF GrantStep, UpsertRefresh, UpsertNew, UpsertRefused, EvictPick, GrantDatapath, BindSlot,
                  UndoSlot, RegisterTasks, ApplyEntry, At, TypeInv, SlotsInv, NftInv
<1>2. /\ Turn(h) /\ PortsDistinct(slots) /\ Stage(J, slots, disk.leases)
      /\ Agreed(J, slots, nft) /\ StaticsAgree /\ DiskAgrees
  <2>1. OneJob
    BY <1>1 DEF FileInv, Recovering
  <2>2. Turn(h)
    BY <1>1, <2>1, UnderWay
  <2> QED BY <1>1, <2>2 DEF FileInv, BootInv, Recovering
<1>3. ASSUME NEW j, Do(h, j), Covers(slots, slots'), UNCHANGED nft, J.at \notin Untried,
             j.at \notin Yielding, j.at \notin Placing
      PROVE  BootInv'
  BY <1>1, <1>2, <1>3, BootGo
<1>4. ASSUME NEW l, Goto(h, l), UNCHANGED <<slots, nft>>, J.at \notin Untried,
             l \notin Yielding, l \notin Placing
      PROVE  BootInv'
  <2> DEFINE k == [J EXCEPT !.at = l]
  <2>1. Do(h, k) /\ k.at = l
    BY <1>1, <1>4 DEF Goto, JobShape
  <2> HIDE DEF k
  <2> QED BY <1>3, <1>4, <2>1, CoversSelf
<1>5. ASSUME Finish(h), UNCHANGED <<slots, nft>>, J.at \notin Untried PROVE BootInv'
  <2>1. Do(h, Idling) /\ Idling.at \notin Yielding /\ Idling.at \notin Placing
    BY <1>5 DEF Finish, Idling, Yielding, Placing
  <2> QED BY <1>3, <1>5, <2>1, CoversSelf
<1>6. CASE UpsertRefresh(h)
  <2>1. PICK s \in slots : /\ slots' = Restamped(slots, s, FALSE)
                           /\ Do(h, [J EXCEPT !.at = "entry", !.port = s.bind])
    BY <1>6 DEF UpsertRefresh, Restamped
  <2> DEFINE k == [J EXCEPT !.at = "entry", !.port = s.bind]
  <2>2. k.at \notin Yielding /\ k.at \notin Placing
    BY <1>1 DEF JobShape, Yielding, Placing
  <2>3. UNCHANGED nft /\ J.at \notin Untried /\ Do(h, k)
    BY <1>6, <2>1 DEF UpsertRefresh, At, Untried
  <2>4. Covers(slots, slots')
    BY <1>1, <2>1, CoversRestamped
  <2> HIDE DEF k
  <2> QED BY <1>3, <2>2, <2>3, <2>4
<1>7. CASE UpsertNew(h)
  <2>1. PICK p \in FreePorts(slots, {}) : /\ slots' = slots \cup {FSlot(p, J.req.client, J.req.int)}
                                          /\ Do(h, [J EXCEPT !.at = "datapath", !.port = p])
    BY <1>7 DEF UpsertNew
  <2> DEFINE k == [J EXCEPT !.at = "datapath", !.port = p]
             n == FSlot(p, J.req.client, J.req.int)
  <2>2. k.at = "datapath" /\ k.port = p /\ k.req = J.req
    BY <1>1 DEF JobShape
  <2>3. Do(h, k) /\ UNCHANGED nft /\ J.at \notin Untried
    BY <1>7, <2>1 DEF UpsertNew, At, Untried
  <2>4. n.bind = p /\ n.client = J.req.client /\ n.int = J.req.int
    BY DEF FSlot
  <2>5. \A s \in slots : s.bind # p
    BY DEF FreePorts, PortsOf
  <2>6. slots' = slots \cup {n}
    BY <2>1
  <2> HIDE DEF k, n
  <2>7. Agreed(k, slots', nft')
    BY <1>2, <2>2, <2>3, <2>4, <2>5, <2>6 DEF Agreed, Untried, Placing, Yielding
  <2>8. StaticsAgree' /\ DiskAgrees'
    BY <1>1, <1>2, <2>3 DEF StaticsAgree, DiskAgrees
  <2> QED BY <1>1, <1>2, <2>3, <2>7, <2>8, BootMove
<1>8. CASE UpsertRefused(h) \/ EvictPick(h)
  <2>1. UNCHANGED <<slots, nft>> /\ J.at \notin Untried
    BY <1>8 DEF UpsertRefused, EvictPick, At, Untried
  <2>2. "pick" \notin Yielding /\ "pick" \notin Placing
    BY DEF Yielding, Placing
  <2>3. CASE Finish(h) \/ Goto(h, "pick")
    BY <1>4, <1>5, <2>1, <2>2, <2>3
  <2>4. ASSUME NEW s \in slots,
               Do(h, [J EXCEPT !.at = "remove", !.kind = "evict", !.old = s.bind, !.retried = TRUE])
        PROVE  BootInv'
    <3> DEFINE k == [J EXCEPT !.at = "remove", !.kind = "evict", !.old = s.bind, !.retried = TRUE]
    <3>1. k.at \notin Yielding /\ k.at \notin Placing
      BY <1>1 DEF JobShape, Yielding, Placing
    <3> HIDE DEF k
    <3> QED BY <1>3, <2>1, <2>4, <3>1, CoversSelf DEF k
  <2> QED BY <1>8, <2>3, <2>4 DEF UpsertRefused, EvictPick
<1>9. CASE GrantDatapath(h)
  <2> DEFINE p == J.port
             c == J.req.client
             i == J.req.int
  <2>1. J.at = "datapath" /\ UNCHANGED slots
    BY <1>9 DEF GrantDatapath, At
  <2>2. \A s \in slots : IF s.bind = p THEN s.client = c /\ s.int = i
                         ELSE Agree(nft, s.bind, s.client, s.int)
    BY <1>2, <2>1 DEF Agreed, Placing
  <2>3. CASE ~Conflict(nft, p, c, i) /\ nft' = Granted(nft, p, c, i) /\ Goto(h, "bind")
    <3> DEFINE k == [J EXCEPT !.at = "bind"]
    <3>1. Do(h, k) /\ k.at = "bind" /\ k.port = p /\ k.req = J.req
      BY <1>1, <2>3 DEF Goto, JobShape
    <3>2. \A s \in slots : Agree(nft', s.bind, s.client, s.int)
      BY <1>1, <2>2, <2>3, AgreeGranted
    <3>3. \A r \in disk.leases : r.bind # p
      BY <1>2, <2>1 DEF Stage, Placing
    <3>4. DiskAgrees'
      BY <1>1, <1>2, <2>3, <3>3, AgreeGranted DEF DiskAgrees
    <3>5. Agree(nft, p, c, i)
      BY <2>3 DEF Conflict, Agree
    <3>6. StaticsAgree'
      <4> SUFFICES ASSUME NEW q \in statics PROVE Agree(nft', q, Operator, 0)
        BY <1>1 DEF StaticsAgree
      <4>1. q # p /\ Agree(nft, q, Operator, 0)
        BY <1>2 DEF StaticInv, JobsAside, Aside, StaticsAgree
      <4> QED BY <1>1, <2>3, <4>1, AgreeGranted
    <3> HIDE DEF k
    <3>7. Agreed(k, slots', nft')
      BY <2>1, <2>2, <3>1, <3>2 DEF Agreed, Untried, Placing, Yielding
    <3> QED BY <1>1, <1>2, <3>1, <3>4, <3>6, <3>7, BootMove
  <2>4. CASE nft' = Revoked(nft, p) /\ Goto(h, "undo")
    <3> DEFINE k == [J EXCEPT !.at = "undo"]
    <3>1. Do(h, k) /\ k.at = "undo" /\ k.port = p /\ k.req = J.req
      BY <1>1, <2>4 DEF Goto, JobShape
    <3>2. nft'.dnat \subseteq nft.dnat
      BY <2>4 DEF Revoked
    <3> HIDE DEF k
    <3>3. Agreed(k, slots', nft')
      BY <2>1, <2>2, <3>1, <3>2, AgreeKept DEF Agreed, Untried, Placing, Yielding
    <3>4. StaticsAgree' /\ DiskAgrees'
      BY <1>1, <1>2, <3>2, AgreeKept DEF StaticsAgree, DiskAgrees
    <3> QED BY <1>1, <1>2, <3>1, <3>3, <3>4, BootMove
  <2> QED BY <1>9, <2>3, <2>4 DEF GrantDatapath
<1>10. CASE BindSlot(h)
  <2>1. J.at = "bind" /\ UNCHANGED slots /\ \A s \in slots : Agree(nft, s.bind, s.client, s.int)
    BY <1>2, <1>10 DEF BindSlot, At, Agreed, Untried
  <2>2. CASE UNCHANGED nft /\ Goto(h, "register")
    BY <1>4, <2>1, <2>2 DEF Untried, Yielding, Placing
  <2>3. CASE nft' = [nft EXCEPT !.accepted = @ \ {J.port}] /\ Goto(h, "undo")
    <3> DEFINE k == [J EXCEPT !.at = "undo"]
    <3>1. Do(h, k) /\ k.at = "undo" /\ k.port = J.port /\ k.req = J.req
      BY <1>1, <2>3 DEF Goto, JobShape
    <3>2. nft'.dnat = nft.dnat
      BY <1>1, <2>3 DEF NftType
    <3> HIDE DEF k
    <3>3. \A s \in slots : s.bind = k.port => s.client = k.req.client /\ s.int = k.req.int
      BY <1>2, <2>1, <3>1 DEF Agreed, Placing
    <3>4. Agreed(k, slots', nft')
      BY <2>1, <3>1, <3>2, <3>3 DEF Agreed, Agree, Yielding
    <3>5. StaticsAgree' /\ DiskAgrees'
      BY <1>1, <1>2, <3>2 DEF StaticsAgree, DiskAgrees, Agree
    <3> QED BY <1>1, <1>2, <3>1, <3>4, <3>5, BootMove
  <2> QED BY <1>10, <2>2, <2>3 DEF BindSlot
<1>11. CASE UndoSlot(h)
  <2>1. J.at = "undo" /\ TableDelete(J.port) /\ Do(h, Idling) /\ UNCHANGED nft
    BY <1>11 DEF UndoSlot, Finish, At
  <2>2. slots' \subseteq slots /\ \A s \in slots' : s.bind # J.port
    <3>1. CASE J.port \in PortsOf(slots)
      BY <1>2, <2>1, <3>1 DEF TableDelete, PortsDistinct
    <3>2. CASE J.port \notin PortsOf(slots)
      BY <2>1, <3>2 DEF TableDelete, PortsOf
    <3> QED BY <3>1, <3>2
  <2>3. Agreed(Idling, slots', nft')
    BY <1>2, <2>1, <2>2 DEF Agreed, Idling, Yielding, Placing
  <2>4. StaticsAgree' /\ DiskAgrees'
    BY <1>1, <1>2, <2>1 DEF StaticsAgree, DiskAgrees
  <2> QED BY <1>1, <1>2, <2>1, <2>3, <2>4, BootMove
<1>12. CASE RegisterTasks(h)
  <2>1. J.at \notin Untried /\ UNCHANGED <<slots, nft>> /\ Goto(h, "entry")
    BY <1>12 DEF RegisterTasks, At, Untried
  <2> QED BY <1>4, <2>1 DEF Yielding, Placing
<1>13. CASE ApplyEntry(h)
  <2>1. /\ UNCHANGED <<slots, nft>> /\ J.at \notin Untried
        /\ Do(h, Save(J)) \/ \E e \in entries : Do(h, Stray(J, e.bind))
    BY <1>13 DEF ApplyEntry, At, Untried
  <2>2. Save(J).at = "snapshot" /\ \A e \in entries : Stray(J, e.bind).at = "remove"
    BY <1>1 DEF Recovering, Filed, Save, Stray, JobShape
  <2>3. Covers(slots, slots')
    BY <2>1, CoversSelf
  <2>4. \A l \in {"snapshot", "remove"} : l \notin Yielding /\ l \notin Placing
    BY DEF Yielding, Placing
  <2> QED BY <1>3, <2>1, <2>2, <2>3, <2>4
<1> QED BY <1>6, <1>7, <1>8, <1>9, <1>10, <1>11, <1>12, <1>13 DEF GrantStep

LEMMA TeardownBoots ==
  ASSUME TypeInv, FileInv, BootInv, Recovering, NEW h \in Jobs, TeardownStep(h)
  PROVE  BootInv'
<1> DEFINE J == job[h]
<1>1. /\ up /\ J.at # "idle" /\ J.at \notin Untried /\ UNCHANGED <<up, scene, disk, statics>>
      /\ J \in JobShape
  <2>1. /\ up /\ J.at \in {"remove", "revoke", "abort", "forget", "find"}
        /\ UNCHANGED <<up, scene, disk, statics>>
    BY DEF TeardownStep, Remove, Revoke, AbortTasks, Forget, FindEntry, At
  <2> QED BY <2>1, JobParts DEF TypeInv, Untried
<1>2. Turn(h)
  BY <1>1, UnderWay DEF FileInv, Recovering
<1>3. Covers(slots, slots') /\ nft'.dnat \subseteq nft.dnat
  <2>1. CASE Remove(h)
    BY <2>1, CoversSelf DEF Remove, TableDelete
  <2>2. CASE Revoke(h)
    BY <2>2, CoversSelf DEF Revoke, Revoked
  <2>3. CASE AbortTasks(h) \/ Forget(h) \/ FindEntry(h)
    BY <2>3, CoversSelf DEF AbortTasks, Forget, FindEntry
  <2> QED BY <2>1, <2>2, <2>3 DEF TeardownStep
<1>4. ASSUME NEW j, Do(h, j), j.at \notin Yielding, j.at \notin Placing PROVE BootInv'
  BY <1>1, <1>2, <1>3, <1>4, BootGo
<1> DEFINE Next1 == {"revoke", "abort", "forget", "snapshot", "remove", "upsert", "find", "idle"}
<1>5. \A l \in Next1 : l \notin Yielding /\ l \notin Placing
  BY DEF Yielding, Placing
<1>6. PICK j : Do(h, j) /\ j.at \in Next1
  <2>1. ASSUME NEW l \in Next1, Goto(h, l) PROVE \E j : Do(h, j) /\ j.at \in Next1
    <3> DEFINE k == [J EXCEPT !.at = l]
    <3>1. Do(h, k) /\ k.at = l
      BY <1>1, <2>1 DEF Goto, JobShape
    <3> HIDE DEF k
    <3> QED BY <2>1, <3>1
  <2>2. CASE Remove(h) \/ Revoke(h)
    BY <2>1, <2>2 DEF Remove, Revoke
  <2>3. Save(J).at = "snapshot"
    BY <1>1 DEF Recovering, Filed, Save, JobShape
  <2>4. CASE AbortTasks(h)
    <3>1. AfterAbort(J).at \in {"snapshot", "forget"}
      BY <1>1, <2>3 DEF AfterAbort, JobShape
    <3> QED BY <2>4, <3>1 DEF AbortTasks
  <2>5. CASE Forget(h)
    <3>1. \A p : [J EXCEPT !.at = "revoke", !.old = p, !.freed = @ \ {p}].at = "revoke"
      BY <1>1 DEF JobShape
    <3> QED BY <2>3, <2>5, <3>1 DEF Forget
  <2>6. CASE FindEntry(h)
    <3>1. PICK l \in J.todo :
            \/ \E e \in entries :
                 Do(h, [[J EXCEPT !.todo = @ \ {l}]
                          EXCEPT !.at = "remove", !.old = e.bind,
                                 !.req = [ext |-> e.ext, owner |-> e.owner,
                                          client |-> e.client, int |-> e.int]])
            \/ Do(h, AfterSave([J EXCEPT !.todo = @ \ {l}]))
      BY <2>6 DEF FindEntry
    <3> DEFINE rest == [J EXCEPT !.todo = @ \ {l}]
               found(e) == [rest EXCEPT !.at = "remove", !.old = e.bind,
                                        !.req = [ext |-> e.ext, owner |-> e.owner,
                                                 client |-> e.client, int |-> e.int]]
    <3>2. rest \in JobShape
      BY <1>1 DEF JobShape
    <3>3. (\E e \in entries : Do(h, found(e))) \/ Do(h, AfterSave(rest))
      BY <3>1
    <3> HIDE DEF rest
    <3>4. \A e : found(e).at = "remove"
      BY <3>2 DEF JobShape
    <3>5. AfterSave(rest).at \in {"upsert", "find", "idle"}
      BY <3>2 DEF AfterSave, JobShape, Idling
    <3> HIDE DEF found
    <3> QED BY <3>3, <3>4, <3>5
  <2> QED BY <2>2, <2>4, <2>5, <2>6 DEF TeardownStep
<1> QED BY <1>4, <1>5, <1>6

LEMMA PersistBoots ==
  ASSUME TypeInv, FileInv, BootInv, Recovering, NEW h \in Jobs, PersistStep(h)
  PROVE  BootInv'
<1> DEFINE J == job[h]
<1>1. /\ up /\ J.at # "idle" /\ J.at \notin Untried /\ UNCHANGED <<up, scene, slots, nft, statics>>
      /\ J \in JobShape /\ disk \in DiskType
  BY JobParts DEF PersistStep, CopyTable, WriteLeases, CopyIndex, WriteIndex, At, TypeInv, DiskInv, Untried
<1>2. Turn(h) /\ PortsDistinct(slots) /\ Stage(J, slots, disk.leases) /\ Agreed(J, slots, nft)
  BY <1>1, UnderWay DEF FileInv, BootInv, Recovering
<1>3. Covers(slots, slots')
  BY <1>1, CoversSelf
<1>4. ASSUME NEW j, Do(h, j), j.at \notin Yielding, j.at \notin Placing, disk'.leases = disk.leases
      PROVE  BootInv'
  BY <1>1, <1>2, <1>3, <1>4, BootGo
<1>5. CASE CopyTable(h)
  <2> DEFINE k == [J EXCEPT !.at = "leases", !.rows = {Row(s) : s \in Grants(slots)}]
  <2>1. k.at \notin Yielding /\ k.at \notin Placing
    BY <1>1 DEF JobShape, Yielding, Placing
  <2>2. Do(h, k) /\ UNCHANGED disk
    BY <1>5 DEF CopyTable
  <2> HIDE DEF k
  <2> QED BY <1>4, <2>1, <2>2
<1>6. CASE WriteLeases(h)
  <2> DEFINE k == [J EXCEPT !.at = "copyindex", !.rows = {}]
  <2>1. k.at = "copyindex"
    BY <1>1 DEF JobShape
  <2>2. Do(h, k) /\ disk' = [disk EXCEPT !.leases = J.rows] /\ J.at = "leases"
    BY <1>6 DEF WriteLeases, At
  <2>3. disk'.leases = RowsOf(slots)
    BY <1>1, <1>2, <2>2 DEF DiskType, Stage
  <2> HIDE DEF k
  <2>4. \A s \in slots : Agree(nft, s.bind, s.client, s.int)
    BY <1>1, <1>2 DEF Agreed
  <2>5. Agreed(k, slots', nft')
    BY <1>1, <2>1, <2>4 DEF Agreed, Yielding, Placing
  <2>6. \A r \in RowsOf(slots) : \E s \in slots : r = Row(s) /\ r.bind = s.bind /\ r.client = s.client /\ r.int = s.int
    BY DEF RowsOf, Grants, Row
  <2>7. DiskAgrees'
    <3>1. \A r \in RowsOf(slots) : Agree(nft, r.bind, r.client, r.int)
      BY <2>4, <2>6
    <3>2. \A q, r \in RowsOf(slots) : q.bind = r.bind => q = r
      BY <1>2, <2>6 DEF PortsDistinct
    <3> QED BY <1>1, <2>3, <3>1, <3>2 DEF DiskAgrees
  <2>8. StaticsAgree'
    BY <1>1 DEF BootInv, StaticsAgree
  <2> QED BY <1>1, <1>2, <2>2, <2>5, <2>7, <2>8, BootMove
<1>7. CASE CopyIndex(h)
  <2> DEFINE k == [J EXCEPT !.at = "index", !.rows = entries]
  <2>1. k.at \notin Yielding /\ k.at \notin Placing
    BY <1>1 DEF JobShape, Yielding, Placing
  <2>2. Do(h, k) /\ UNCHANGED disk
    BY <1>7 DEF CopyIndex
  <2> HIDE DEF k
  <2> QED BY <1>4, <2>1, <2>2
<1>8. CASE WriteIndex(h)
  <2> DEFINE k == AfterSave([J EXCEPT !.rows = {}])
  <2>1. [J EXCEPT !.rows = {}] \in JobShape /\ [J EXCEPT !.rows = {}].at = "index"
    BY <1>1, <1>8 DEF JobShape, WriteIndex, At
  <2>2. k.at \notin Yielding /\ k.at \notin Placing
    BY <2>1 DEF AfterSave, JobShape, Idling, Yielding, Placing
  <2>3. Do(h, k) /\ disk' = [disk EXCEPT !.index = J.rows]
    BY <1>8 DEF WriteIndex
  <2>4. disk'.leases = disk.leases
    BY <1>1, <2>3 DEF DiskType
  <2> HIDE DEF k
  <2> QED BY <1>4, <2>2, <2>3, <2>4
<1> QED BY <1>5, <1>6, <1>7, <1>8 DEF PersistStep

LEMMA StartBoots == ASSUME TypeInv, FileInv, BootInv, Recovering, Start PROVE BootInv'
<1>1. scene.busy = 1
  BY DEF Recovering, Filed
<1>2. ASSUME NEW h \in Jobs, NEW use, MayStart(h, use), NEW k, Do(h, k),
             k.at \notin Yielding, k.at \notin Placing,
             Covers(slots, slots'), UNCHANGED <<up, scene, statics, nft, disk>>
      PROVE  BootInv'
  <2>1. up
    BY <1>2 DEF MayStart, At
  <2>2. Turn(h) /\ job[h].at = "idle"
    BY <1>1, <1>2, <2>1, MayStartAlone DEF FileInv, Recovering
  <2>3. job[h].at \notin Untried
    BY <2>2 DEF Untried
  <2> QED BY <1>2, <2>1, <2>2, <2>3, BootGo
<1>3. ASSUME NEW h \in Workers, NEW r \in scene.requests, StartGrant(h, r) PROVE BootInv'
  <2> DEFINE k == [Idling EXCEPT !.at = "upsert", !.kind = "grant", !.req = r]
  <2>1. k.at \notin Yielding /\ k.at \notin Placing
    BY DEF Idling, Yielding, Placing
  <2>2. /\ h \in Jobs /\ MayStart(h, "grant") /\ Do(h, k)
        /\ UNCHANGED <<up, scene, statics, slots, nft, disk>>
    BY <1>3 DEF StartGrant, Jobs
  <2> HIDE DEF k
  <2> QED BY <1>2, <2>1, <2>2, CoversSelf
<1>4. ASSUME NEW h \in Jobs, NEW use, NEW labels, StartDelete(h, use, labels) PROVE BootInv'
  <2> DEFINE k == [Idling EXCEPT !.at = "find", !.kind = "delete", !.todo = labels]
  <2>1. k.at \notin Yielding /\ k.at \notin Placing
    BY DEF Idling, Yielding, Placing
  <2>2. /\ MayStart(h, use) /\ Do(h, k)
        /\ UNCHANGED <<up, scene, statics, slots, nft, disk>>
    BY <1>4 DEF StartDelete
  <2> HIDE DEF k
  <2> QED BY <1>2, <2>1, <2>2, CoversSelf
<1>5. ASSUME NEW old PROVE ~StartYield(old)
  BY DEF StartYield, MayStart, Recovering
<1>6. CASE Sweep
  <2> DEFINE freed == PortsOf({s \in slots : ~IsStatic(s) /\ s.stale})
  <2>1. PICK p \in freed :
          Do(Collector, [Idling EXCEPT !.at = "revoke", !.kind = "sweep", !.old = p, !.freed = freed \ {p}])
    BY <1>6 DEF Sweep
  <2>2. /\ Collector \in Jobs /\ MayStart(Collector, "sweep") /\ slots' \subseteq slots
        /\ UNCHANGED <<up, scene, statics, nft, disk>>
    BY <1>6 DEF Sweep, Jobs
  <2> HIDE DEF freed
  <2> DEFINE k == [Idling EXCEPT !.at = "revoke", !.kind = "sweep", !.old = p, !.freed = freed \ {p}]
  <2>3. k.at \notin Yielding /\ k.at \notin Placing
    BY DEF Idling, Yielding, Placing
  <2>4. Do(Collector, k)
    BY <2>1
  <2> HIDE DEF k
  <2> QED BY <1>2, <2>2, <2>3, <2>4, CoversSelf
<1>7. ASSUME NEW h \in Workers,
             \/ \E r \in scene.requests : DeleteMapping(h, [ext |-> r.ext, owner |-> r.owner])
             \/ \E c \in Clients : DeleteRange(h, c)
             \/ \E c \in Clients, i \in IntPorts : DeleteKey(h, c, i)
      PROVE  BootInv'
  BY <1>4, <1>7 DEF DeleteMapping, DeleteRange, DeleteKey, Jobs
<1>8. ASSUME NEW gone \in SUBSET Clients, ReapAbsent(gone) PROVE BootInv'
  BY <1>4, <1>8 DEF ReapAbsent, Jobs
<1> QED BY <1>3, <1>5, <1>6, <1>7, <1>8 DEF Start

(* A boot that nft did not refuse leaves every slot it restored agreeing   *)
(* with the map, whatever elements the map kept.                           *)
LEMMA BootAgrees ==
  ASSUME TypeInv, NEW S \in StaticConfigs, Boot(S)
  PROVE  /\ PortsDistinct(slots') /\ \A s \in slots' : Agree(nft', s.bind, s.client, s.int)
<1> DEFINE T == RestoredSlots(S)
<1>1. PICK kept \in Inherited(S) : Bootable(kept, T) /\ nft' = GrantedAll(RulesetEnsured(kept), T)
  BY DEF Boot
<1>2. slots' = T
  BY DEF Boot
<1> HIDE DEF T
<1>3. kept \in NftType
  BY DEF Inherited, TypeInv, NftInv, NftType
<1>4. nft'.dnat = kept.dnat \cup {TargetOf(s) : s \in T}
  BY <1>1, <1>3 DEF GrantedAll, RulesetEnsured, AcceptEmptied, InboundEmptied, NftType
<1>5. ASSUME NEW s \in T, NEW d \in nft'.dnat, d.port = s.bind PROVE d = Target(s.bind, s.client, s.int)
  <2>1. CASE d \in kept.dnat
    BY <1>1, <1>5, <2>1 DEF Bootable, Conflict
  <2>2. ASSUME NEW t \in T, d = TargetOf(t) PROVE d = Target(s.bind, s.client, s.int)
    <3>1. t.bind = s.bind
      BY <1>5, <2>2 DEF TargetOf, Target
    <3>2. t = s
      BY <1>1, <3>1 DEF Bootable, PortsDistinct
    <3> QED BY <2>2, <3>2 DEF TargetOf
  <2> QED BY <1>4, <2>1, <2>2
<1> QED BY <1>1, <1>2, <1>5 DEF Agree, Bootable

LEMMA EnvironmentBoots == ASSUME TypeInv, FileInv, BootInv, Environment PROVE BootInv'
<1>1. CASE Crash
  BY <1>1 DEF Crash, BootInv, Recovering, Filed, StaticsAgree, DiskAgrees
<1>2. ASSUME NEW S \in StaticConfigs, Boot(S) PROVE BootInv'
  <2> DEFINE T == RestoredSlots(S)
  <2>1. /\ slots' = T /\ statics' = S /\ UNCHANGED job /\ ~up /\ up'
        /\ disk' = [disk EXCEPT !.leases = {Row(s) : s \in Grants(T)}]
    BY <1>2 DEF Boot
  <2>2. \A h \in Jobs : job'[h].at = "idle"
    BY <2>1 DEF FileInv
  <2>3. disk'.leases = {Row(s) : s \in Grants(T)}
    BY <2>1 DEF TypeInv, DiskInv, DiskType
  <2>4. PortsDistinct(T) /\ \A s \in T : Agree(nft', s.bind, s.client, s.int)
    BY <1>2, <2>1, BootAgrees
  <2>5. \A p \in S : FSlot(p, Operator, 0) \in T
    BY DEF RestoredSlots
  <2> HIDE DEF T
  <2>6. \A h \in Jobs : Agreed(job'[h], slots', nft')
    BY <2>1, <2>2, <2>4 DEF Agreed, Yielding, Placing
  <2>7. StaticsAgree'
    BY <2>1, <2>4, <2>5 DEF StaticsAgree, FSlot
  <2>8. DiskAgrees'
    BY <2>3, <2>4 DEF DiskAgrees, Grants, Row, PortsDistinct
  <2> QED BY <2>1, <2>6, <2>7, <2>8 DEF BootInv
<1>3. ASSUME NEW s \in slots, Age(s) \/ Touch(s) PROVE BootInv'
  <2>1. PICK b \in BOOLEAN : slots' = Restamped(slots, s, b)
    BY <1>3 DEF Age, Touch, Restamped
  <2>2. UNCHANGED <<job, disk, up, scene, statics, nft>>
    BY <1>3 DEF Age, Touch
  <2>3. Covers(slots, slots')
    BY <2>1, CoversRestamped DEF TypeInv, SlotsInv
  <2>4. ASSUME NEW h \in Jobs, Agreed(job[h], slots, nft) PROVE Agreed(job'[h], slots', nft')
    BY <2>2, <2>3, <2>4 DEF Agreed, Covers
  <2> QED BY <2>2, <2>4 DEF BootInv, Recovering, Filed, StaticsAgree, DiskAgrees, Turn
<1>4. ASSUME NEW k \in socks, Publish(k) \/ CloseSock(k) PROVE BootInv'
  <2>1. UNCHANGED <<slots, job, disk, up, scene, statics, nft>>
    BY <1>4 DEF Publish, CloseSock
  <2> QED BY <2>1 DEF BootInv, Recovering, Filed, StaticsAgree, DiskAgrees, Turn
<1>5. ASSUME NEW h \in Workers, Cancel(h) PROVE BootInv'
  <2>1. ~Recovering' /\ up'
    BY <1>5 DEF Cancel, Recovering, Filed
  <2> QED BY <2>1 DEF BootInv
<1> QED BY <1>1, <1>2, <1>3, <1>4, <1>5 DEF Environment

LEMMA NextBoots ==
  ASSUME TypeInv, StaticInv, FileInv, BootInv, [Next]_vars
  PROVE  BootInv'
<1>1. CASE Environment
  BY <1>1, EnvironmentBoots
<1>2. CASE UNCHANGED vars
  BY <1>2 DEF vars, BootInv, Recovering, Filed, StaticsAgree, DiskAgrees, Turn
<1>3. CASE Start \/ \E h \in Jobs : Step(h)
  <2>1. up /\ UNCHANGED <<up, scene>>
    BY <1>3, Running
  <2>2. CASE Recovering
    <3>1. ASSUME NEW h \in Jobs, Step(h) PROVE BootInv'
      <4>1. ~YieldStep(h)
        <5>1. YieldStep(h) => up /\ job[h].at \in Yielding
          BY DEF YieldStep, MoveLease, Rebind, MoveBack, Redirect, Reregister, ReleaseOld, Reindex, At, Yielding
        <5>2. ASSUME job[h].at \in Yielding PROVE FALSE
          <6>1. Turn(h)
            BY <2>1, <2>2, <5>2, UnderWay DEF FileInv, Recovering, Yielding
          <6> QED BY <2>1, <2>2, <5>2, <6>1 DEF BootInv, Agreed
        <5> QED BY <5>1, <5>2
      <4> QED BY <2>2, <3>1, <4>1, GrantBoots, TeardownBoots, PersistBoots DEF Step
    <3> QED BY <1>3, <2>2, <3>1, StartBoots
  <2>3. CASE ~Recovering
    <3>1. ~Recovering' /\ up'
      BY <2>1, <2>3 DEF Recovering, Filed
    <3> QED BY <3>1 DEF BootInv
  <2> QED BY <2>2, <2>3
<1> QED BY <1>1, <1>2, <1>3 DEF Next

LEMMA RecoveryKept == ASSUME \A S, T \in StaticConfigs : S = T PROVE Spec => [](StaticInv /\ BootInv)
<1>1. ASSUME Init PROVE BootInv
  <2>1. \A h \in Jobs : job[h] = Idling
    BY <1>1 DEF Init
  <2>2. up /\ disk.leases = {} /\ slots = {FSlot(p, Operator, 0) : p \in statics}
    BY <1>1 DEF Init
  <2>3. nft.dnat = {Target(p, Operator, 0) : p \in statics}
    BY <1>1 DEF Init
  <2>4. \A p \in statics : Agree(nft, p, Operator, 0)
    BY <2>3 DEF Agree, Target
  <2>5. \A s \in slots : Agree(nft, s.bind, s.client, s.int)
    BY <2>2, <2>4 DEF FSlot
  <2>6. \A h \in Jobs : Agreed(job[h], slots, nft)
    BY <2>1, <2>5 DEF Agreed, Idling, Yielding, Placing
  <2> QED BY <2>2, <2>4, <2>6 DEF BootInv, StaticsAgree, DiskAgrees
<1>2. TypeInv /\ StaticInv /\ FileInv /\ BootInv /\ [Next]_vars => BootInv'
  BY NextBoots
<1>3. TypeInv /\ StaticInv /\ [Next]_vars => StaticInv'
  BY NextAside
<1> QED BY <1>1, <1>2, <1>3, InitAside, Typed, FilesKept, PTL DEF Spec

(* What can come back after any crash: with the configuration it had, in   *)
(* scenarios with writes and no yield, while handlers do not overlap and   *)
(* none is dropped, nft refuses the daemon none of the leases on disk,     *)
(* whatever elements the last run left in the map and whenever it died     *)
(* (grant_mapping places, then persists; delete_mapping revokes, then      *)
(* persists; upnpsvc.rs and main.rs's restore).                            *)
THEOREM BootsComeBack ==
  ASSUME \A S, T \in StaticConfigs : S = T,
         \A s \in Scenarios : "crash" \in s.uses =>
           s.busy = 1 /\ "cancel" \notin s.uses /\ "yield" \notin s.uses /\ "persist" \in s.uses
  PROVE  Spec => []BootNeverRefused
<1>1. ASSUME TypeInv, BootInv PROVE BootNeverRefused
  <2> SUFFICES ASSUME ~up PROVE Bootable(nft, RestoredSlots(statics))
    BY DEF BootNeverRefused
  <2>1. "crash" \in scene.uses /\ scene \in Scenarios
    BY <1>1 DEF BootInv, TypeInv, RestInv
  <2>2. StaticsAgree /\ DiskAgrees
    BY <1>1, <2>1 DEF BootInv, Recovering, Filed
  <2> DEFINE apart == {x \in disk.leases : x.bind \notin statics}
             A == {FSlot(p, Operator, 0) : p \in statics}
             B == {FSlot(r.bind, r.client, r.int) : r \in apart}
  <2>3. RestoredSlots(statics) = A \cup B
    BY DEF RestoredSlots
  <2>4. \A s \in A : s.bind \in statics /\ s = FSlot(s.bind, Operator, 0) /\ Agree(nft, s.bind, s.client, s.int)
    BY <2>2 DEF FSlot, StaticsAgree
  <2>5. \A s \in B : \E r \in apart : s = FSlot(r.bind, r.client, r.int) /\ s.bind = r.bind
                                      /\ Agree(nft, s.bind, s.client, s.int)
    BY <2>2 DEF FSlot, DiskAgrees
  <2> HIDE DEF A, B
  <2>6. PortsDistinct(A \cup B)
    <3>1. \A s, t \in B : s.bind = t.bind => s = t
      BY <2>2, <2>5 DEF DiskAgrees
    <3> QED BY <2>4, <2>5, <3>1 DEF PortsDistinct
  <2>7. \A s \in A \cup B : ~Conflict(nft, s.bind, s.client, s.int)
    BY <2>4, <2>5 DEF Agree, Conflict
  <2> QED BY <2>3, <2>6, <2>7 DEF Bootable
<1> QED BY <1>1, RecoveryKept, Typed, PTL

-----------------------------------------------------------------------------
(* The datapath.  With one job under way, at each of its stages: which     *)
(* slot may lack its elements, which ports may keep elements, a socket or  *)
(* an entry after their slot has gone, and what the job knows of its slot. *)
Tearing == {"revoke", "abort", "forget"}
Shifting == {"rebind", "moveback", "redirect", "reregister", "release", "reindex"}

Unlit(j) == IF j.at \in {"datapath", "undo", "rebind", "moveback", "redirect"} THEN {j.port} ELSE {}
Left(j, L) == (IF j.at \in L THEN {j.old} ELSE {}) \cup (IF j.at \in Tearing THEN j.freed ELSE {})
Leaving(j) == Left(j, {"revoke", "rebind", "moveback", "redirect", "reregister"})
Closing(j) == Left(j, {"revoke", "abort", "rebind", "moveback", "redirect", "reregister", "release"})
Gone(j) == Left(j, Tearing \cup Shifting)

HasSlot(T, p, r) == \E s \in T : s.bind = p /\ s.client = r.client /\ s.int = r.int
Lit(n, p, c, i) == /\ p \in n.admitted /\ p \in n.accepted
                   /\ Target(p, c, i) \in n.dnat /\ Agree(n, p, c, i)

Standing(j, T) ==
  /\ PortsDistinct(T)
  /\ \A p \in Leaving(j) : p \notin PortsOf(T)
  /\ j.at # "idle" => j.freed = {} \/ (j.at \in Tearing /\ j.kind = "sweep")
  /\ j.at = "find" => j.kind = "delete"
  /\ j.at \in Placed => HasSlot(T, j.port, j.req)
  /\ j.at = "move" => \A s \in T : s.bind = j.old => s.client = j.req.client /\ s.int = j.req.int
Lighted(j, n, T) ==
  /\ \A s \in T : s.bind \in Unlit(j) \/ Lit(n, s.bind, s.client, s.int)
  /\ \A p \in n.admitted \cup n.accepted : p \notin Unlit(j) /\ p \in PortsOf(T) \cup Leaving(j)
  /\ j.at \in Moving => Lit(n, j.old, j.req.client, j.req.int)
Listening(j, K, X, T) ==
  /\ \A k \in K : k.port \in PortsOf(T) \cup Closing(j)
  /\ \A k \in K : \/ k.port \in statics \cup X
                  \/ j.at \in {"register", "redirect", "reregister"} /\ k.port = j.port
  /\ j.at \in Placing \cup Moving => \A k \in K : k.port # j.port
Matched(j, E, T) ==
  /\ \A e \in E : e.owner = e.client /\ (e.bind \in Gone(j) \/ HasSlot(T, e.bind, e))
  /\ j.at # "idle" => j.req.owner = j.req.client
  /\ j.at \in Tearing \cup {"remove"} =>
       \A e \in E : e.bind = j.old =>
         /\ j.kind # "stray"
         /\ j.kind = "delete" => e.ext = j.req.ext /\ e.owner = j.req.owner
  /\ j.at \in Placing => \A e \in E : e.bind # j.port
  /\ j.at \in Shifting =>
       /\ \A e \in E : e.bind = j.old => e.client = j.req.client /\ e.int = j.req.int
       /\ j.at \in Moving => \A e \in E : e.bind # j.port

Yields == "yield" \in scene.uses
Sane == scene.busy = 1 /\ "cancel" \notin scene.uses /\ "linger" \notin scene.uses /\ ~refused
SoundInv ==
  up /\ Sane =>
    /\ OneJob
    /\ \A h \in Jobs : Turn(h) =>
         /\ Standing(job[h], slots) /\ Lighted(job[h], nft, slots)
         /\ Listening(job[h], socks, tasks, slots)
         /\ Yields => Matched(job[h], entries, slots)

(* The one job goes on to j. *)
LEMMA SoundMove ==
  ASSUME TypeInv, NEW h \in Jobs, Turn(h), NEW j, Do(h, j), UNCHANGED <<scene, statics>>,
         Standing(j, slots'), Lighted(j, nft', slots'), Listening(j, socks', tasks', slots'),
         Yields => Matched(j, entries', slots')
  PROVE  SoundInv'
<1>1. \A g \in Jobs : job'[g] = IF g = h THEN j ELSE job[g]
  BY DEF TypeInv, JobInv, Do
<1>2. \A g \in Jobs : g # h => job'[g].at = "idle"
  BY <1>1 DEF Turn
<1>3. OneJob'
  BY <1>2 DEF OneJob
<1>4. ASSUME NEW g \in Jobs, Turn(g)'
      PROVE  /\ Standing(job'[g], slots') /\ Lighted(job'[g], nft', slots')
             /\ Listening(job'[g], socks', tasks', slots')
             /\ Yields => Matched(job'[g], entries', slots')
  <2>1. CASE g = h
    BY <1>1, <2>1
  <2>2. CASE g # h
    <3> DEFINE i == job'[g]
    <3>1. j.at = "idle" /\ i.at = "idle"
      BY <1>1, <1>2, <1>4, <2>2 DEF Turn
    <3> HIDE DEF i
    <3>2. Unlit(i) = Unlit(j) /\ Leaving(i) = Leaving(j) /\ Closing(i) = Closing(j) /\ Gone(i) = Gone(j)
      BY <3>1 DEF Unlit, Leaving, Closing, Gone, Left, Tearing, Shifting
    <3>3. Standing(i, slots')
      BY <3>1, <3>2 DEF Standing, Placed
    <3>4. Lighted(i, nft', slots')
      BY <3>1, <3>2 DEF Lighted, Moving
    <3>5. Listening(i, socks', tasks', slots')
      BY <3>1, <3>2 DEF Listening, Placing, Moving
    <3>6. Yields => Matched(i, entries', slots')
      BY <3>1, <3>2 DEF Matched, Placing, Tearing, Shifting
    <3> QED BY <3>3, <3>4, <3>5, <3>6 DEF i
  <2> QED BY <2>1, <2>2
<1>5. Yields' = Yields
  BY DEF Yields
<1>6. UNCHANGED statics
  OBVIOUS
<1> QED BY <1>3, <1>4, <1>5, <1>6 DEF SoundInv, Listening

(* Stages at which nothing is missing and nothing is left over. *)
Resting == {"idle", "upsert", "pick", "find", "snapshot", "leases", "copyindex", "index"}
Calm == Resting \cup {"bind", "register", "entry", "remove", "move"}
LEMMA CalmSets ==
  ASSUME NEW j, j.at \in Calm
  PROVE  Unlit(j) = {} /\ Leaving(j) = {} /\ Closing(j) = {} /\ Gone(j) = {}
BY DEF Calm, Resting, Unlit, Leaving, Closing, Gone, Left, Tearing, Shifting

(* A step between such stages. *)
LEMMA SoundRest ==
  ASSUME TypeInv, SoundInv, Sane, up, NEW h \in Jobs, Turn(h), NEW j, Do(h, j),
         UNCHANGED <<scene, statics, slots, nft, socks, tasks, entries>>,
         job[h].at \in Resting, j.at \in Resting \cup {"remove"},
         j.at # "idle" => j.freed = {}, j.at = "find" => j.kind = "delete",
         Yields /\ j.at # "idle" => j.req.owner = j.req.client,
         Yields /\ j.at = "remove" => \A e \in entries : e.bind = j.old =>
           j.kind # "stray" /\ (j.kind = "delete" => e.ext = j.req.ext /\ e.owner = j.req.owner)
  PROVE  SoundInv'
<1> DEFINE J == job[h]
<1>1. /\ Standing(J, slots) /\ Lighted(J, nft, slots) /\ Listening(J, socks, tasks, slots)
      /\ Yields => Matched(J, entries, slots)
  BY DEF SoundInv
<1>2. J.at \in Calm /\ j.at \in Calm
  BY DEF Calm
<1> HIDE DEF J
<1>3. /\ Unlit(J) = {} /\ Leaving(J) = {} /\ Closing(J) = {} /\ Gone(J) = {}
      /\ Unlit(j) = {} /\ Leaving(j) = {} /\ Closing(j) = {} /\ Gone(j) = {}
  BY <1>2, CalmSets
<1>4. /\ j.at \notin Placed /\ j.at # "move" /\ j.at \notin Moving /\ j.at \notin Placing
      /\ j.at \notin Shifting /\ J.at \notin {"register", "redirect", "reregister"}
  BY DEF Resting, Placed, Moving, Placing, Shifting, J
<1>5. j.at \in Tearing \cup {"remove"} => j.at = "remove"
  BY DEF Resting, Tearing
<1>6. Standing(j, slots')
  BY <1>1, <1>3, <1>4 DEF Standing
<1>7. Lighted(j, nft', slots')
  BY <1>1, <1>3, <1>4 DEF Lighted
<1>8. Listening(j, socks', tasks', slots')
  BY <1>1, <1>3, <1>4 DEF Listening
<1>9. Yields => Matched(j, entries', slots')
  BY <1>1, <1>3, <1>4, <1>5 DEF Matched
<1> QED BY <1>6, <1>7, <1>8, <1>9, SoundMove

LEMMA AtWork ==
  ASSUME TypeInv, SoundInv, Sane, up, NEW h \in Jobs, job[h].at # "idle"
  PROVE  /\ Turn(h) /\ job[h] \in JobShape /\ Carries(job[h])
         /\ Standing(job[h], slots) /\ Lighted(job[h], nft, slots)
         /\ Listening(job[h], socks, tasks, slots)
         /\ Yields => Matched(job[h], entries, slots)
<1>1. Turn(h)
  BY UnderWay DEF SoundInv
<1> QED BY <1>1, JobParts DEF SoundInv, TypeInv

(* The slots of a table and those of the same table with a stamp changed.  *)
LEMMA StampedSlots ==
  ASSUME NEW T \in SUBSET SlotType, NEW s \in T, NEW b \in BOOLEAN
  PROVE  /\ \A u \in Restamped(T, s, b) : \E t \in T : t.bind = u.bind /\ t.client = u.client /\ t.int = u.int
         /\ \A t \in T : \E u \in Restamped(T, s, b) : t.bind = u.bind /\ t.client = u.client /\ t.int = u.int
         /\ PortsOf(Restamped(T, s, b)) = PortsOf(T)
         /\ PortsDistinct(T) => PortsDistinct(Restamped(T, s, b))
<1> DEFINE v == [s EXCEPT !.stale = b]
<1>1. v.bind = s.bind /\ v.client = s.client /\ v.int = s.int
  BY DEF SlotType
<1> HIDE DEF v
<1>2. Restamped(T, s, b) = (T \ {s}) \cup {v}
  BY DEF Restamped, v
<1>3. \A t \in T : \E u \in (T \ {s}) \cup {v} : t.bind = u.bind /\ t.client = u.client /\ t.int = u.int
  BY <1>1
<1>4. \A u \in (T \ {s}) \cup {v} : \E t \in T : t.bind = u.bind /\ t.client = u.client /\ t.int = u.int
  BY <1>1
<1> QED BY <1>2, <1>3, <1>4, RestampedRows

LEMMA StampedKeeps ==
  ASSUME NEW T \in SUBSET SlotType, NEW s \in T, NEW b \in BOOLEAN, NEW U, U = Restamped(T, s, b), NEW j
  PROVE  /\ Standing(j, T) => Standing(j, U)
         /\ \A n : Lighted(j, n, T) => Lighted(j, n, U)
         /\ \A K, X : Listening(j, K, X, T) => Listening(j, K, X, U)
         /\ \A E : Matched(j, E, T) => Matched(j, E, U)
<1>1. /\ \A u \in U : \E t \in T : t.bind = u.bind /\ t.client = u.client /\ t.int = u.int
      /\ \A t \in T : \E u \in U : t.bind = u.bind /\ t.client = u.client /\ t.int = u.int
      /\ PortsOf(U) = PortsOf(T) /\ (PortsDistinct(T) => PortsDistinct(U))
  BY StampedSlots
<1>2. \A p, r : HasSlot(T, p, r) => HasSlot(U, p, r)
  BY <1>1 DEF HasSlot
<1>3. Standing(j, T) => Standing(j, U)
  BY <1>1, <1>2 DEF Standing
<1>4. \A n : Lighted(j, n, T) => Lighted(j, n, U)
  BY <1>1 DEF Lighted
<1>5. \A K, X : Listening(j, K, X, T) => Listening(j, K, X, U)
  BY <1>1 DEF Listening
<1>6. \A E : Matched(j, E, T) => Matched(j, E, U)
  BY <1>2 DEF Matched
<1> QED BY <1>3, <1>4, <1>5, <1>6

LEMMA UpsertRefreshSound ==
  ASSUME TypeInv, SoundInv, Sane, NEW h \in Jobs, UpsertRefresh(h)
  PROVE  SoundInv'
<1> DEFINE J == job[h]
<1>1. /\ up /\ J.at = "upsert" /\ UNCHANGED <<scene, statics, nft, socks, tasks, entries>>
  BY DEF UpsertRefresh, At
<1>2. /\ Turn(h) /\ J \in JobShape /\ Standing(J, slots) /\ Lighted(J, nft, slots)
      /\ Listening(J, socks, tasks, slots) /\ (Yields => Matched(J, entries, slots))
  BY <1>1, AtWork
<1>3. PICK s \in slots : /\ s.client = J.req.client /\ s.int = J.req.int
                         /\ slots' = Restamped(slots, s, FALSE)
                         /\ Do(h, [J EXCEPT !.at = "entry", !.port = s.bind])
  BY DEF UpsertRefresh, Holds, Restamped
<1> DEFINE k == [J EXCEPT !.at = "entry", !.port = s.bind]
<1>4. k.at = "entry" /\ k.port = s.bind /\ k.req = J.req /\ k.freed = J.freed
  BY <1>2 DEF JobShape
<1>5. Do(h, k) /\ slots \in SUBSET SlotType
  BY <1>3 DEF TypeInv, SlotsInv
<1> HIDE DEF k, J
<1>6. /\ Unlit(J) = {} /\ Leaving(J) = {} /\ Closing(J) = {} /\ Gone(J) = {}
      /\ Unlit(k) = {} /\ Leaving(k) = {} /\ Closing(k) = {} /\ Gone(k) = {}
  BY <1>1, <1>4, CalmSets DEF Calm, Resting
<1>7. HasSlot(slots, k.port, k.req)
  BY <1>3, <1>4 DEF HasSlot
<1>8. Standing(k, slots)
  BY <1>1, <1>2, <1>4, <1>6, <1>7 DEF Standing, Tearing
<1>9. Lighted(k, nft, slots)
  BY <1>2, <1>4, <1>6 DEF Lighted, Moving
<1>10. Listening(k, socks, tasks, slots)
  BY <1>1, <1>2, <1>4, <1>6 DEF Listening, Placing, Moving
<1>11. Yields => Matched(k, entries, slots)
  BY <1>1, <1>2, <1>4, <1>6 DEF Matched, Placing, Shifting, Tearing
<1>12. /\ Standing(k, slots') /\ Lighted(k, nft', slots') /\ Listening(k, socks', tasks', slots')
       /\ Yields => Matched(k, entries', slots')
  BY <1>1, <1>3, <1>5, <1>8, <1>9, <1>10, <1>11, StampedKeeps
<1> QED BY <1>1, <1>2, <1>5, <1>12, SoundMove

LEMMA UpsertNewSound ==
  ASSUME TypeInv, SoundInv, Sane, NEW h \in Jobs, UpsertNew(h)
  PROVE  SoundInv'
<1> DEFINE J == job[h]
<1>1. /\ up /\ J.at = "upsert" /\ UNCHANGED <<scene, statics, nft, socks, tasks, entries>>
  BY DEF UpsertNew, At
<1>2. /\ Turn(h) /\ J \in JobShape /\ Standing(J, slots) /\ Lighted(J, nft, slots)
      /\ Listening(J, socks, tasks, slots) /\ (Yields => Matched(J, entries, slots))
  BY <1>1, AtWork
<1>3. PICK p \in FreePorts(slots, {}) : /\ slots' = slots \cup {FSlot(p, J.req.client, J.req.int)}
                                        /\ Do(h, [J EXCEPT !.at = "datapath", !.port = p])
  BY DEF UpsertNew
<1> DEFINE k == [J EXCEPT !.at = "datapath", !.port = p]
           n == FSlot(p, J.req.client, J.req.int)
<1>4. k.at = "datapath" /\ k.port = p /\ k.req = J.req /\ k.freed = J.freed
  BY <1>2 DEF JobShape
<1>5. Do(h, k) /\ slots' = slots \cup {n} /\ n.bind = p /\ n.client = J.req.client /\ n.int = J.req.int
  BY <1>3 DEF FSlot
<1> HIDE DEF k, J, n
<1>6. /\ Unlit(J) = {} /\ Leaving(J) = {} /\ Closing(J) = {} /\ Gone(J) = {}
  BY <1>1, CalmSets DEF Calm, Resting
<1>7. Unlit(k) = {p} /\ Leaving(k) = {} /\ Closing(k) = {} /\ Gone(k) = {}
  BY <1>4 DEF Unlit, Leaving, Closing, Gone, Left, Tearing, Shifting
<1>8. p \notin PortsOf(slots) /\ PortsOf(slots') = PortsOf(slots) \cup {p} /\ \A s \in slots : s.bind # p
  BY <1>5 DEF FreePorts, PortsOf
<1>9. Standing(k, slots')
  <2>1. PortsDistinct(slots')
    BY <1>2, <1>5, <1>8 DEF Standing, PortsDistinct
  <2>2. HasSlot(slots', k.port, k.req)
    BY <1>4, <1>5 DEF HasSlot
  <2> QED BY <1>1, <1>2, <1>4, <1>7, <2>1, <2>2 DEF Standing, Tearing
<1>10. Lighted(k, nft', slots')
  BY <1>1, <1>2, <1>4, <1>5, <1>6, <1>7, <1>8 DEF Lighted, Moving
<1>11. Listening(k, socks', tasks', slots')
  BY <1>1, <1>2, <1>4, <1>6, <1>7, <1>8 DEF Listening, Moving
<1>12. Yields => Matched(k, entries', slots')
  <2>1. \A q, r : HasSlot(slots, q, r) => HasSlot(slots', q, r) /\ q # p
    BY <1>5, <1>8 DEF HasSlot
  <2> QED BY <1>1, <1>2, <1>4, <1>6, <1>7, <2>1 DEF Matched, Shifting, Tearing
<1> QED BY <1>1, <1>2, <1>5, <1>9, <1>10, <1>11, <1>12, SoundMove

LEMMA UpsertLeftSound ==
  ASSUME TypeInv, SoundInv, Sane, NEW h \in Jobs, UpsertRefused(h) \/ EvictPick(h)
  PROVE  SoundInv'
<1> DEFINE J == job[h]
<1>1. /\ up /\ J.at \in {"upsert", "pick"}
      /\ UNCHANGED <<scene, statics, slots, nft, socks, tasks, entries>>
  BY DEF UpsertRefused, EvictPick, At
<1>2. /\ Turn(h) /\ J \in JobShape /\ Standing(J, slots) /\ (Yields => Matched(J, entries, slots))
  BY <1>1, AtWork
<1>3. J.at \in Resting /\ J.freed = {} /\ (Yields => J.req.owner = J.req.client)
  BY <1>1, <1>2 DEF Resting, Standing, Tearing, Matched
<1>4. ASSUME NEW k, Do(h, k), k.at \in {"idle", "pick", "remove"},
             k.at # "idle" => k.freed = J.freed /\ k.req = J.req,
             k.at = "remove" => k.kind = "evict"
      PROVE  SoundInv'
  <2>1. k.at \in Resting \cup {"remove"} /\ k.at # "find"
    BY <1>4 DEF Resting
  <2> QED BY <1>1, <1>2, <1>3, <1>4, <2>1, SoundRest
<1>5. CASE Finish(h)
  BY <1>4, <1>5 DEF Finish, Idling
<1>6. CASE Goto(h, "pick")
  <2> DEFINE k == [J EXCEPT !.at = "pick"]
  <2>1. Do(h, k) /\ k.at = "pick" /\ k.freed = J.freed /\ k.req = J.req
    BY <1>2, <1>6 DEF Goto, JobShape
  <2> HIDE DEF k
  <2> QED BY <1>4, <2>1
<1>7. ASSUME NEW s \in slots,
             Do(h, [J EXCEPT !.at = "remove", !.kind = "evict", !.old = s.bind, !.retried = TRUE])
      PROVE  SoundInv'
  <2> DEFINE k == [J EXCEPT !.at = "remove", !.kind = "evict", !.old = s.bind, !.retried = TRUE]
  <2>1. Do(h, k) /\ k.at = "remove" /\ k.kind = "evict" /\ k.freed = J.freed /\ k.req = J.req
    BY <1>2, <1>7 DEF JobShape
  <2> HIDE DEF k
  <2> QED BY <1>4, <2>1
<1> QED BY <1>5, <1>6, <1>7 DEF UpsertRefused, EvictPick

LEMMA SlotIs ==
  ASSUME NEW T, NEW p, NEW r, PortsDistinct(T), HasSlot(T, p, r)
  PROVE  p \in PortsOf(T) /\ \A s \in T : s.bind = p => s.client = r.client /\ s.int = r.int
BY DEF PortsDistinct, HasSlot, PortsOf

(* Elements for one port and away from it. *)
LEMMA GrantedLit ==
  ASSUME NEW n \in NftType, NEW p, NEW c, NEW i, ~Conflict(n, p, c, i)
  PROVE  /\ Lit(Granted(n, p, c, i), p, c, i)
         /\ \A q, d, j : q # p /\ Lit(n, q, d, j) => Lit(Granted(n, p, c, i), q, d, j)
         /\ Granted(n, p, c, i).admitted = n.admitted \cup {p}
         /\ Granted(n, p, c, i).accepted = n.accepted \cup {p}
<1> DEFINE m == Granted(n, p, c, i)
<1>1. m.admitted = n.admitted \cup {p} /\ m.accepted = n.accepted \cup {p} /\ m.dnat = n.dnat \cup {Target(p, c, i)}
  BY DEF Granted
<1>2. Target(p, c, i).port = p
  BY DEF Target
<1> HIDE DEF m
<1>3. Lit(m, p, c, i)
  BY <1>1, <1>2 DEF Lit, Agree, Conflict
<1>4. \A q, d, j : q # p /\ Lit(n, q, d, j) => Lit(m, q, d, j)
  BY <1>1, <1>2 DEF Lit, Agree
<1> QED BY <1>1, <1>3, <1>4 DEF m

LEMMA RevokedDark ==
  ASSUME NEW n \in NftType, NEW p
  PROVE  /\ Revoked(n, p).admitted = n.admitted \ {p} /\ Revoked(n, p).accepted = n.accepted \ {p}
         /\ \A q, d, j : q # p /\ Lit(n, q, d, j) => Lit(Revoked(n, p), q, d, j)
<1> DEFINE m == Revoked(n, p)
<1>1. /\ m.admitted = n.admitted \ {p} /\ m.accepted = n.accepted \ {p}
      /\ m.dnat = {d \in n.dnat : d.port # p}
  BY DEF Revoked
<1> HIDE DEF m
<1>2. \A q, d, j : Target(q, d, j).port = q
  BY DEF Target
<1>3. \A q, d, j : q # p /\ Lit(n, q, d, j) => Lit(m, q, d, j)
  BY <1>1, <1>2 DEF Lit, Agree
<1> QED BY <1>1, <1>3 DEF m

LEMMA GrantDatapathSound ==
  ASSUME TypeInv, SoundInv, Sane, NEW h \in Jobs, GrantDatapath(h)
  PROVE  SoundInv'
<1> DEFINE J == job[h]
           p == J.port
           c == J.req.client
           i == J.req.int
<1>1. /\ up /\ J.at = "datapath" /\ UNCHANGED <<scene, statics, slots, socks, tasks, entries>>
      /\ nft \in NftType
  BY DEF GrantDatapath, At, TypeInv, NftInv
<1>2. /\ Turn(h) /\ J \in JobShape /\ Standing(J, slots) /\ Lighted(J, nft, slots)
      /\ Listening(J, socks, tasks, slots) /\ (Yields => Matched(J, entries, slots))
  BY <1>1, AtWork
<1>3. Unlit(J) = {p} /\ Leaving(J) = {} /\ Closing(J) = {} /\ Gone(J) = {}
  BY <1>1 DEF Unlit, Leaving, Closing, Gone, Left, Tearing, Shifting
<1>4. p \in PortsOf(slots) /\ \A s \in slots : s.bind = p => s.client = c /\ s.int = i
  BY <1>1, <1>2, SlotIs DEF Standing, Placed
<1>5. /\ \A s \in slots : s.bind # p => Lit(nft, s.bind, s.client, s.int)
      /\ \A q \in nft.admitted \cup nft.accepted : q # p /\ q \in PortsOf(slots)
  BY <1>2, <1>3 DEF Lighted
<1>6. ASSUME NEW k, Do(h, k), k.at \in {"bind", "undo"}, k.port = p, k.req = J.req, k.freed = J.freed,
             Lighted(k, nft', slots)
      PROVE  SoundInv'
  <2>1. Leaving(k) = {} /\ Closing(k) = {} /\ Gone(k) = {}
    BY <1>6 DEF Leaving, Closing, Gone, Left, Tearing, Shifting
  <2>2. Standing(k, slots')
    BY <1>1, <1>2, <1>3, <1>6, <2>1 DEF Standing, Placed, Tearing
  <2>3. Listening(k, socks', tasks', slots')
    BY <1>1, <1>2, <1>3, <1>6, <2>1 DEF Listening, Placing, Moving
  <2>4. Yields => Matched(k, entries', slots')
    BY <1>1, <1>2, <1>3, <1>6, <2>1 DEF Matched, Placing, Shifting, Tearing
  <2> QED BY <1>1, <1>2, <1>6, <2>2, <2>3, <2>4, SoundMove
<1>7. CASE ~Conflict(nft, p, c, i) /\ nft' = Granted(nft, p, c, i) /\ Goto(h, "bind")
  <2> DEFINE k == [J EXCEPT !.at = "bind"]
  <2>1. Do(h, k) /\ k.at = "bind" /\ k.port = p /\ k.req = J.req /\ k.freed = J.freed
    BY <1>2, <1>7 DEF Goto, JobShape
  <2> HIDE DEF k, J
  <2>2. Unlit(k) = {} /\ Leaving(k) = {}
    BY <2>1, CalmSets DEF Calm
  <2>3. \A s \in slots : Lit(nft', s.bind, s.client, s.int)
    BY <1>1, <1>4, <1>5, <1>7, GrantedLit
  <2>4. \A q \in nft'.admitted \cup nft'.accepted : q \in PortsOf(slots)
    BY <1>1, <1>4, <1>5, <1>7, GrantedLit
  <2>5. Lighted(k, nft', slots)
    BY <2>1, <2>2, <2>3, <2>4 DEF Lighted, Moving
  <2> QED BY <1>6, <2>1, <2>5
<1>8. CASE nft' = Revoked(nft, p) /\ Goto(h, "undo")
  <2> DEFINE k == [J EXCEPT !.at = "undo"]
  <2>1. Do(h, k) /\ k.at = "undo" /\ k.port = p /\ k.req = J.req /\ k.freed = J.freed
    BY <1>2, <1>8 DEF Goto, JobShape
  <2> HIDE DEF k, J
  <2>2. Unlit(k) = {p} /\ Leaving(k) = {}
    BY <2>1 DEF Unlit, Leaving, Left, Tearing
  <2>3. \A s \in slots : s.bind = p \/ Lit(nft', s.bind, s.client, s.int)
    BY <1>1, <1>5, <1>8, RevokedDark
  <2>4. \A q \in nft'.admitted \cup nft'.accepted : q # p /\ q \in PortsOf(slots)
    BY <1>1, <1>5, <1>8, RevokedDark
  <2>5. Lighted(k, nft', slots)
    BY <2>1, <2>2, <2>3, <2>4 DEF Lighted, Moving
  <2> QED BY <1>6, <2>1, <2>5
<1> QED BY <1>7, <1>8 DEF GrantDatapath

(* No socket is in the way, so the bind does not fail by itself. *)
LEMMA BindSlotSound ==
  ASSUME TypeInv, SoundInv, Sane, "bind" \notin Faults, NEW h \in Jobs, BindSlot(h)
  PROVE  SoundInv'
<1> DEFINE J == job[h]
           p == J.port
<1>1. /\ up /\ J.at = "bind" /\ UNCHANGED <<scene, statics, slots, tasks, entries>>
  BY DEF BindSlot, At
<1>2. /\ Turn(h) /\ J \in JobShape /\ Standing(J, slots) /\ Lighted(J, nft, slots)
      /\ Listening(J, socks, tasks, slots) /\ (Yields => Matched(J, entries, slots))
  BY <1>1, AtWork
<1>3. Bindable(p)
  BY <1>1, <1>2 DEF Listening, Placing, Bindable
<1>4. socks' = socks \cup {Sock(p, J.req.client, J.req.int)} /\ Goto(h, "register") /\ UNCHANGED nft
  BY <1>3 DEF BindSlot
<1> DEFINE k == [J EXCEPT !.at = "register"]
           new == Sock(p, J.req.client, J.req.int)
<1>5. Do(h, k) /\ k.at = "register" /\ k.port = p /\ k.req = J.req /\ k.freed = J.freed
  BY <1>2, <1>4 DEF Goto, JobShape
<1>6. new.port = p /\ socks' = socks \cup {new}
  BY <1>4 DEF Sock
<1> HIDE DEF k, J, new
<1>7. /\ Unlit(J) = {} /\ Leaving(J) = {} /\ Closing(J) = {} /\ Gone(J) = {}
      /\ Unlit(k) = {} /\ Leaving(k) = {} /\ Closing(k) = {} /\ Gone(k) = {}
  BY <1>1, <1>5, CalmSets DEF Calm
<1>8. Standing(k, slots')
  BY <1>1, <1>2, <1>5, <1>7 DEF Standing, Placed, Tearing
<1>9. Lighted(k, nft', slots')
  BY <1>1, <1>2, <1>4, <1>5, <1>7 DEF Lighted, Moving
<1>10. p \in PortsOf(slots)
  BY <1>1, <1>2, SlotIs DEF Standing, Placed
<1>11. Listening(k, socks', tasks', slots')
  BY <1>1, <1>2, <1>5, <1>6, <1>7, <1>10 DEF Listening, Placing, Moving
<1>12. Yields => Matched(k, entries', slots')
  BY <1>1, <1>2, <1>5, <1>7 DEF Matched, Placing, Shifting, Tearing
<1> QED BY <1>1, <1>2, <1>5, <1>8, <1>9, <1>11, <1>12, SoundMove

LEMMA RegisterTasksSound ==
  ASSUME TypeInv, SoundInv, Sane, NEW h \in Jobs, RegisterTasks(h)
  PROVE  SoundInv'
<1> DEFINE J == job[h]
           k == [J EXCEPT !.at = "entry"]
<1>1. /\ up /\ J.at = "register" /\ UNCHANGED <<scene, statics, slots, socks, nft, entries>>
      /\ tasks' = tasks \cup {J.port}
  BY DEF RegisterTasks, At
<1>2. /\ Turn(h) /\ J \in JobShape /\ Standing(J, slots) /\ Lighted(J, nft, slots)
      /\ Listening(J, socks, tasks, slots) /\ (Yields => Matched(J, entries, slots))
  BY <1>1, AtWork
<1>3. Do(h, k) /\ k.at = "entry" /\ k.port = J.port /\ k.req = J.req /\ k.freed = J.freed
  BY <1>2 DEF RegisterTasks, Goto, JobShape
<1> HIDE DEF k, J
<1>4. /\ Unlit(J) = {} /\ Leaving(J) = {} /\ Closing(J) = {} /\ Gone(J) = {}
      /\ Unlit(k) = {} /\ Leaving(k) = {} /\ Closing(k) = {} /\ Gone(k) = {}
  BY <1>1, <1>3, CalmSets DEF Calm
<1>5. Standing(k, slots')
  BY <1>1, <1>2, <1>3, <1>4 DEF Standing, Placed, Tearing
<1>6. Lighted(k, nft', slots')
  BY <1>1, <1>2, <1>3, <1>4 DEF Lighted, Moving
<1>7. Listening(k, socks', tasks', slots')
  BY <1>1, <1>2, <1>3, <1>4 DEF Listening, Placing, Moving
<1>8. Yields => Matched(k, entries', slots')
  BY <1>1, <1>2, <1>3, <1>4 DEF Matched, Placing, Shifting, Tearing
<1> QED BY <1>1, <1>2, <1>3, <1>5, <1>6, <1>7, <1>8, SoundMove

(* What a table step takes. *)
LEMMA DeletedSlots ==
  ASSUME NEW p, PortsDistinct(slots), TableDelete(p)
  PROVE  /\ slots' = {s \in slots : s.bind # p}
         /\ PortsDistinct(slots') /\ PortsOf(slots') = PortsOf(slots) \ {p}
         /\ \A q, r : HasSlot(slots, q, r) /\ q # p => HasSlot(slots', q, r)
<1>1. slots' = {s \in slots : s.bind # p}
  <2>1. CASE p \in PortsOf(slots)
    BY <2>1 DEF TableDelete, PortsDistinct
  <2>2. CASE p \notin PortsOf(slots)
    BY <2>2 DEF TableDelete, PortsOf
  <2> QED BY <2>1, <2>2
<1> QED BY <1>1 DEF PortsDistinct, PortsOf, HasSlot

LEMMA UndoSlotSound ==
  ASSUME TypeInv, SoundInv, Sane, NEW h \in Jobs, UndoSlot(h)
  PROVE  SoundInv'
<1> DEFINE J == job[h]
           p == J.port
<1>1. /\ up /\ J.at = "undo" /\ UNCHANGED <<scene, statics, socks, tasks, nft, entries>>
      /\ TableDelete(p) /\ Do(h, Idling)
  BY DEF UndoSlot, At, Finish
<1>2. /\ Turn(h) /\ J \in JobShape /\ Standing(J, slots) /\ Lighted(J, nft, slots)
      /\ Listening(J, socks, tasks, slots) /\ (Yields => Matched(J, entries, slots))
  BY <1>1, AtWork
<1> HIDE DEF J
<1>3. Unlit(J) = {p} /\ Leaving(J) = {} /\ Closing(J) = {} /\ Gone(J) = {}
  BY <1>1 DEF Unlit, Leaving, Closing, Gone, Left, Tearing, Shifting
<1>4. /\ slots' = {s \in slots : s.bind # p}
      /\ PortsDistinct(slots') /\ PortsOf(slots') = PortsOf(slots) \ {p}
      /\ \A q, r : HasSlot(slots, q, r) /\ q # p => HasSlot(slots', q, r)
  BY <1>1, <1>2, DeletedSlots DEF Standing
<1>5. Idling.at = "idle"
  BY DEF Idling
<1>6. /\ Unlit(Idling) = {} /\ Leaving(Idling) = {} /\ Closing(Idling) = {} /\ Gone(Idling) = {}
  BY <1>5, CalmSets DEF Calm, Resting
<1>7. Standing(Idling, slots')
  BY <1>4, <1>5, <1>6 DEF Standing, Placed
<1>8. Lighted(Idling, nft', slots')
  BY <1>1, <1>2, <1>3, <1>4, <1>5, <1>6 DEF Lighted, Moving
<1>9. Listening(Idling, socks', tasks', slots')
  BY <1>1, <1>2, <1>3, <1>4, <1>5, <1>6 DEF Listening, Placing, Moving
<1>10. Yields => Matched(Idling, entries', slots')
  BY <1>1, <1>2, <1>3, <1>4, <1>5, <1>6 DEF Matched, Placing, Shifting, Tearing
<1> QED BY <1>1, <1>2, <1>7, <1>8, <1>9, <1>10, SoundMove

(* What follows a save, or what a save is skipped for. *)
LEMMA SavedStage ==
  ASSUME NEW j \in JobShape, NEW k \in {Save(j), AfterSave(j)}
  PROVE  /\ k.at \in {"snapshot", "upsert", "find", "idle"} /\ k.at \in Resting
         /\ k.at # "idle" => k.freed = j.freed /\ k.req = j.req
         /\ k.at = "find" => k.kind = "delete"
<1>1. ASSUME NEW x \in {[j EXCEPT !.at = "upsert", !.kind = "grant"], [j EXCEPT !.at = "snapshot"],
                       [j EXCEPT !.at = "find"]}
      PROVE  /\ x.at \in {"snapshot", "upsert", "find"} /\ x.freed = j.freed /\ x.req = j.req
             /\ x.at = "find" => x.kind = j.kind
  BY DEF JobShape
<1>2. Idling.at = "idle"
  BY DEF Idling
<1>3. \/ k = Idling \/ k = [j EXCEPT !.at = "upsert", !.kind = "grant"] \/ k = [j EXCEPT !.at = "snapshot"]
      \/ k = [j EXCEPT !.at = "find"] /\ j.kind = "delete"
  BY DEF Save, AfterSave
<1>4. /\ k.at \in {"snapshot", "upsert", "find", "idle"}
      /\ k.at # "idle" => k.freed = j.freed /\ k.req = j.req
      /\ k.at = "find" => k.kind = "delete"
  <2>1. CASE k = Idling
    BY <1>2, <2>1
  <2>2. CASE k = [j EXCEPT !.at = "upsert", !.kind = "grant"]
    BY <2>2 DEF JobShape
  <2>3. CASE k = [j EXCEPT !.at = "snapshot"]
    BY <2>3 DEF JobShape
  <2>4. CASE k = [j EXCEPT !.at = "find"] /\ j.kind = "delete"
    BY <2>4 DEF JobShape
  <2> QED BY <1>3, <2>1, <2>2, <2>3, <2>4
<1> QED BY <1>4 DEF Resting

(* A job that comes to rest leaves nothing over. *)
LEMMA SoundSettle ==
  ASSUME TypeInv, NEW h \in Jobs, Turn(h), NEW j, Do(h, j), UNCHANGED <<scene, statics>>,
         j.at \in Resting, j.at # "idle" => j.freed = {}, j.at = "find" => j.kind = "delete",
         PortsDistinct(slots'), \A s \in slots' : Lit(nft', s.bind, s.client, s.int),
         nft'.admitted \subseteq PortsOf(slots'), nft'.accepted \subseteq PortsOf(slots'),
         \A k \in socks' : k.port \in PortsOf(slots') /\ k.port \in statics \cup tasks',
         Yields => \A e \in entries' : e.owner = e.client /\ HasSlot(slots', e.bind, e),
         Yields /\ j.at # "idle" => j.req.owner = j.req.client
  PROVE  SoundInv'
<1>1. Unlit(j) = {} /\ Leaving(j) = {} /\ Closing(j) = {} /\ Gone(j) = {}
  BY CalmSets DEF Calm
<1>2. /\ j.at \notin Placed /\ j.at # "move" /\ j.at \notin Moving /\ j.at \notin Placing
      /\ j.at \notin Shifting /\ j.at \notin Tearing \cup {"remove"}
  BY DEF Resting, Placed, Moving, Placing, Shifting, Tearing
<1>3. Standing(j, slots')
  BY <1>1, <1>2 DEF Standing
<1>4. Lighted(j, nft', slots')
  BY <1>1, <1>2 DEF Lighted
<1>5. Listening(j, socks', tasks', slots')
  BY <1>1, <1>2 DEF Listening
<1>6. Yields => Matched(j, entries', slots')
  BY <1>1, <1>2 DEF Matched
<1> QED BY <1>3, <1>4, <1>5, <1>6, SoundMove

(* Two entries on one slot would be of one tuple. *)
LEMMA EntryPerSlot ==
  ASSUME NEW E, OnePerTuple(E), NEW T, PortsDistinct(T), NEW e \in E, NEW f \in E,
         e.owner = e.client, f.owner = f.client, e.bind = f.bind,
         HasSlot(T, e.bind, e), HasSlot(T, f.bind, f)
  PROVE  e = f
<1>1. e.client = f.client /\ e.int = f.int
  BY DEF HasSlot, PortsDistinct
<1> QED BY <1>1 DEF OnePerTuple

LEMMA ApplyEntrySound ==
  ASSUME TypeInv, SoundInv, Sane, NEW h \in Jobs, ApplyEntry(h)
  PROVE  SoundInv'
<1> DEFINE J == job[h]
           r == J.req
           p == J.port
<1>1. /\ up /\ J.at = "entry" /\ UNCHANGED <<scene, statics, slots, socks, tasks, nft>>
      /\ entries \subseteq EntryType /\ OnePerTuple(entries)
  BY DEF ApplyEntry, At, TypeInv, EntriesInv
<1>2. /\ Turn(h) /\ J \in JobShape /\ Carries(J) /\ Standing(J, slots) /\ Lighted(J, nft, slots)
      /\ Listening(J, socks, tasks, slots) /\ (Yields => Matched(J, entries, slots))
  BY <1>1, AtWork
<1>3. /\ Unlit(J) = {} /\ Leaving(J) = {} /\ Closing(J) = {} /\ Gone(J) = {}
  BY <1>1, CalmSets DEF Calm
<1>4. /\ PortsDistinct(slots) /\ HasSlot(slots, p, r) /\ J.freed = {} /\ r \in Request
  BY <1>1, <1>2 DEF Standing, Placed, Tearing, Carries, Asking
<1>5. /\ \A s \in slots : Lit(nft, s.bind, s.client, s.int)
      /\ nft.admitted \subseteq PortsOf(slots) /\ nft.accepted \subseteq PortsOf(slots)
      /\ \A k \in socks : k.port \in PortsOf(slots) /\ k.port \in statics \cup tasks
  BY <1>1, <1>2, <1>3 DEF Lighted, Listening
<1>6. Yields => /\ \A e \in entries : e.owner = e.client /\ HasSlot(slots, e.bind, e)
                /\ r.owner = r.client
  BY <1>1, <1>2, <1>3 DEF Matched
<1>7. ASSUME Do(h, Save(J)), Yields => \A e \in entries' : e.owner = e.client /\ HasSlot(slots, e.bind, e)
      PROVE  SoundInv'
  <2> DEFINE k == Save(J)
  <2>1. /\ k.at \in Resting /\ (k.at # "idle" => k.freed = J.freed /\ k.req = J.req)
        /\ k.at = "find" => k.kind = "delete"
    BY <1>2, SavedStage
  <2> HIDE DEF k, J
  <2>2. Do(h, k)
    BY <1>7 DEF k
  <2> QED BY <1>1, <1>2, <1>4, <1>5, <1>6, <1>7, <2>1, <2>2, SoundSettle
<1>8. ASSUME NEW e \in entries, r.ext # 0, e.ext = r.ext, e.owner = r.owner,
             entries' = (entries \ {e}) \cup {[e EXCEPT !.client = r.client, !.int = r.int, !.bind = p]}
      PROVE  Yields => /\ \A f \in entries' : f.owner = f.client /\ HasSlot(slots, f.bind, f)
                       /\ e.bind # p => \A f \in entries' : f.bind # e.bind
  <2> DEFINE x == [e EXCEPT !.client = r.client, !.int = r.int, !.bind = p]
  <2>1. x.owner = r.owner /\ x.client = r.client /\ x.int = r.int /\ x.bind = p
    BY <1>1, <1>8 DEF EntryType
  <2> HIDE DEF x
  <2>2. entries' = (entries \ {e}) \cup {x}
    BY <1>8 DEF x
  <2>3. HasSlot(slots, x.bind, x)
    BY <1>4, <2>1 DEF HasSlot
  <2>4. ASSUME Yields, NEW f \in entries, f # e PROVE f.bind # e.bind
    BY <1>1, <1>4, <1>6, <2>4, EntryPerSlot
  <2> QED BY <1>6, <2>1, <2>2, <2>3, <2>4
<1>9. ASSUME NEW e \in entries, SameTuple(e, r), Do(h, Save(J)),
             entries' = (entries \ {e}) \cup {[e EXCEPT !.ext = r.ext]}
      PROVE  SoundInv'
  <2> DEFINE x == [e EXCEPT !.ext = r.ext]
  <2>1. x.owner = e.owner /\ x.client = e.client /\ x.int = e.int /\ x.bind = e.bind
    BY <1>1, <1>9 DEF EntryType
  <2> HIDE DEF x
  <2>2. entries' = (entries \ {e}) \cup {x}
    BY <1>9 DEF x
  <2>3. HasSlot(slots, e.bind, e) => HasSlot(slots, x.bind, x)
    BY <2>1 DEF HasSlot
  <2>4. Yields => \A f \in entries' : f.owner = f.client /\ HasSlot(slots, f.bind, f)
    BY <1>6, <2>1, <2>2, <2>3
  <2> QED BY <1>7, <1>9, <2>4
<1>10. ASSUME NEW e \in entries, r.ext # 0, e.ext = r.ext, e.owner = r.owner,
              entries' = (entries \ {e}) \cup {[e EXCEPT !.client = r.client, !.int = r.int, !.bind = p]},
              e.bind # p, Do(h, Stray(J, e.bind))
       PROVE  SoundInv'
  <2> DEFINE k == Stray(J, e.bind)
  <2>1. k.at = "remove" /\ k.kind = "stray" /\ k.old = e.bind /\ k.req = r /\ k.freed = J.freed
    BY <1>2 DEF Stray, JobShape
  <2>2. Do(h, k)
    BY <1>10
  <2> HIDE DEF k, J
  <2>3. Unlit(k) = {} /\ Leaving(k) = {} /\ Closing(k) = {} /\ Gone(k) = {}
    BY <2>1, CalmSets DEF Calm
  <2>4. Standing(k, slots')
    BY <1>1, <1>4, <2>1, <2>3 DEF Standing, Placed
  <2>5. Lighted(k, nft', slots')
    BY <1>1, <1>5, <2>1, <2>3 DEF Lighted, Moving
  <2>6. Listening(k, socks', tasks', slots')
    BY <1>1, <1>5, <2>1, <2>3 DEF Listening, Placing, Moving
  <2>7. Yields => /\ \A f \in entries' : f.owner = f.client /\ HasSlot(slots', f.bind, f)
                  /\ \A f \in entries' : f.bind # k.old
    <3>1. Yields => /\ \A f \in entries' : f.owner = f.client /\ HasSlot(slots, f.bind, f)
                    /\ \A f \in entries' : f.bind # e.bind
      BY <1>8, <1>10, Zenon
    <3> QED BY <1>1, <2>1, <3>1
  <2>8. Yields => Matched(k, entries', slots')
    BY <1>6, <2>1, <2>7 DEF Matched, Placing, Shifting
  <2> QED BY <1>1, <1>2, <2>2, <2>4, <2>5, <2>6, <2>8, SoundMove
<1>11. ASSUME NEW x, entries' = entries \cup {x}, Do(h, Save(J)),
              x = [ext |-> r.ext, owner |-> r.owner, client |-> r.client, int |-> r.int, bind |-> p]
       PROVE  SoundInv'
  <2>1. HasSlot(slots, x.bind, x) /\ x.owner = r.owner /\ x.client = r.client
    BY <1>4, <1>11 DEF HasSlot
  <2> QED BY <1>6, <1>7, <1>11, <2>1
<1>12. \/ \E e \in entries : /\ SameTuple(e, r) /\ Do(h, Save(J))
                             /\ entries' = (entries \ {e}) \cup {[e EXCEPT !.ext = r.ext]}
       \/ /\ r.ext # 0
          /\ \E e \in entries :
               /\ e.ext = r.ext /\ e.owner = r.owner
               /\ entries' = (entries \ {e})
                               \cup {[e EXCEPT !.client = r.client, !.int = r.int, !.bind = p]}
               /\ IF e.bind # p THEN Do(h, Stray(J, e.bind)) ELSE Do(h, Save(J))
       \/ /\ entries' = entries \cup {[ext |-> r.ext, owner |-> r.owner, client |-> r.client,
                                       int |-> r.int, bind |-> p]}
          /\ Do(h, Save(J))
  BY DEF ApplyEntry
<1> HIDE DEF J
<1> QED BY <1>7, <1>8, <1>9, <1>10, <1>11, <1>12

LEMMA RemoveSound ==
  ASSUME TypeInv, SoundInv, Sane, NEW h \in Jobs, Remove(h)
  PROVE  SoundInv'
<1> DEFINE J == job[h]
           k == [J EXCEPT !.at = "revoke"]
<1>1. /\ up /\ J.at = "remove" /\ UNCHANGED <<scene, statics, socks, tasks, nft, entries>>
      /\ TableDelete(J.old)
  BY DEF Remove, At
<1>2. /\ Turn(h) /\ J \in JobShape /\ Standing(J, slots) /\ Lighted(J, nft, slots)
      /\ Listening(J, socks, tasks, slots) /\ (Yields => Matched(J, entries, slots))
  BY <1>1, AtWork
<1>3. /\ Do(h, k) /\ k.at = "revoke" /\ k.old = J.old /\ k.req = J.req /\ k.freed = J.freed
      /\ k.kind = J.kind
  BY <1>2 DEF Remove, Goto, JobShape
<1> HIDE DEF k, J
<1>4. /\ Unlit(J) = {} /\ Leaving(J) = {} /\ Closing(J) = {} /\ Gone(J) = {} /\ J.freed = {}
  BY <1>1, <1>2, CalmSets DEF Calm, Standing, Tearing
<1>5. Unlit(k) = {} /\ Leaving(k) = {J.old} /\ Closing(k) = {J.old} /\ Gone(k) = {J.old}
  BY <1>3, <1>4 DEF Unlit, Leaving, Closing, Gone, Left, Tearing
<1>6. /\ slots' = {s \in slots : s.bind # J.old}
      /\ PortsDistinct(slots') /\ PortsOf(slots') = PortsOf(slots) \ {J.old}
      /\ \A q, r : HasSlot(slots, q, r) /\ q # J.old => HasSlot(slots', q, r)
  BY <1>1, <1>2, DeletedSlots DEF Standing
<1>7. Standing(k, slots')
  BY <1>3, <1>4, <1>5, <1>6 DEF Standing, Placed
<1>8. Lighted(k, nft', slots')
  BY <1>1, <1>2, <1>3, <1>4, <1>5, <1>6 DEF Lighted, Moving
<1>9. Listening(k, socks', tasks', slots')
  BY <1>1, <1>2, <1>3, <1>4, <1>5, <1>6 DEF Listening, Placing, Moving
<1>10. Yields => Matched(k, entries', slots')
  BY <1>1, <1>2, <1>3, <1>4, <1>5, <1>6 DEF Matched, Placing, Shifting
<1> QED BY <1>1, <1>2, <1>3, <1>7, <1>8, <1>9, <1>10, SoundMove

LEMMA RevokeSound ==
  ASSUME TypeInv, SoundInv, Sane, NEW h \in Jobs, Revoke(h)
  PROVE  SoundInv'
<1> DEFINE J == job[h]
           k == [J EXCEPT !.at = "abort"]
<1>1. /\ up /\ J.at = "revoke" /\ UNCHANGED <<scene, statics, slots, socks, tasks, entries>>
      /\ nft \in NftType /\ nft' = Revoked(nft, J.old)
  BY DEF Revoke, At, TypeInv, NftInv
<1>2. /\ Turn(h) /\ J \in JobShape /\ Standing(J, slots) /\ Lighted(J, nft, slots)
      /\ Listening(J, socks, tasks, slots) /\ (Yields => Matched(J, entries, slots))
  BY <1>1, AtWork
<1>3. /\ Do(h, k) /\ k.at = "abort" /\ k.old = J.old /\ k.req = J.req /\ k.freed = J.freed
      /\ k.kind = J.kind
  BY <1>2 DEF Revoke, Goto, JobShape
<1> HIDE DEF k, J
<1>4. /\ Unlit(J) = {} /\ Leaving(J) = {J.old} \cup J.freed /\ Closing(J) = {J.old} \cup J.freed
      /\ Gone(J) = {J.old} \cup J.freed
      /\ Unlit(k) = {} /\ Leaving(k) = J.freed /\ Closing(k) = {J.old} \cup J.freed
      /\ Gone(k) = {J.old} \cup J.freed
  BY <1>1, <1>3 DEF Unlit, Leaving, Closing, Gone, Left, Tearing
<1>5. Standing(k, slots')
  BY <1>1, <1>2, <1>3, <1>4 DEF Standing, Placed, Tearing
<1>6. \A s \in slots : s.bind # J.old
  BY <1>2, <1>4 DEF Standing, PortsOf
<1>7. /\ \A s \in slots : Lit(nft', s.bind, s.client, s.int)
      /\ \A q \in nft'.admitted \cup nft'.accepted : q \in PortsOf(slots) \cup J.freed
  BY <1>1, <1>2, <1>4, <1>6, RevokedDark DEF Lighted
<1>8. Lighted(k, nft', slots')
  BY <1>1, <1>3, <1>4, <1>7 DEF Lighted, Moving
<1>9. Listening(k, socks', tasks', slots')
  BY <1>1, <1>2, <1>3, <1>4 DEF Listening, Placing, Moving
<1>10. Yields => Matched(k, entries', slots')
  BY <1>1, <1>2, <1>3, <1>4 DEF Matched, Placing, Shifting, Tearing
<1> QED BY <1>1, <1>2, <1>3, <1>5, <1>8, <1>9, <1>10, SoundMove

(* Without lingering tasks an abort closes the port's socket. *)
LEMMA Aborted ==
  ASSUME Sane, NEW p, p \notin statics, Abort(p),
         \A k \in socks : k.port = p => k.port \in statics \cup tasks
  PROVE  socks' \subseteq socks /\ (\A k \in socks' : k.port # p) /\ tasks' = tasks \ {p}
<1>1. /\ tasks' = tasks \ {p}
      /\ socks' = socks \ {k \in socks : k.port = p /\ p \in tasks}
  BY DEF Abort, Sane
<1> QED BY <1>1

LEMMA AbortTasksSound ==
  ASSUME TypeInv, StaticInv, SoundInv, Sane, NEW h \in Jobs, AbortTasks(h)
  PROVE  SoundInv'
<1> DEFINE J == job[h]
<1>1. /\ up /\ J.at = "abort" /\ UNCHANGED <<scene, statics, slots, nft, entries>>
      /\ Abort(J.old) /\ Do(h, AfterAbort(J))
  BY DEF AbortTasks, At
<1>2. /\ Turn(h) /\ J \in JobShape /\ Standing(J, slots) /\ Lighted(J, nft, slots)
      /\ Listening(J, socks, tasks, slots) /\ (Yields => Matched(J, entries, slots))
  BY <1>1, AtWork
<1>3. /\ Unlit(J) = {} /\ Leaving(J) = J.freed /\ Closing(J) = {J.old} \cup J.freed
      /\ Gone(J) = {J.old} \cup J.freed
  BY <1>1 DEF Unlit, Leaving, Closing, Gone, Left, Tearing
<1>4. socks' \subseteq socks /\ (\A k \in socks' : k.port # J.old) /\ tasks' = tasks \ {J.old}
  <2>1. J.old \notin statics
    BY DEF StaticInv, JobsAside, Aside
  <2>2. \A k \in socks : k.port \in statics \cup tasks
    BY <1>1, <1>2 DEF Listening
  <2> QED BY <1>1, <2>1, <2>2, Aborted
<1>5. \A k \in socks' : k.port \in PortsOf(slots) \cup J.freed /\ k.port \in statics \cup tasks'
  BY <1>1, <1>2, <1>3, <1>4 DEF Listening
<1>6. CASE J.kind = "stray"
  <2> DEFINE k == Save(J)
  <2>1. /\ k.at \in Resting /\ (k.at # "idle" => k.freed = J.freed /\ k.req = J.req)
        /\ k.at = "find" => k.kind = "delete"
    BY <1>2, SavedStage
  <2>2. Do(h, k)
    BY <1>1, <1>6 DEF AfterAbort
  <2> HIDE DEF k, J
  <2>3. J.freed = {} /\ PortsDistinct(slots)
    BY <1>1, <1>2, <1>6 DEF Standing
  <2>4. /\ \A s \in slots : Lit(nft, s.bind, s.client, s.int)
        /\ nft.admitted \subseteq PortsOf(slots) /\ nft.accepted \subseteq PortsOf(slots)
    BY <1>2, <1>3, <2>3 DEF Lighted
  <2>5. Yields => /\ \A e \in entries : e.owner = e.client /\ HasSlot(slots, e.bind, e)
                  /\ J.req.owner = J.req.client
    BY <1>1, <1>2, <1>3, <1>6, <2>3 DEF Matched, Tearing
  <2> QED BY <1>1, <1>2, <1>5, <2>1, <2>2, <2>3, <2>4, <2>5, SoundSettle
<1>7. CASE J.kind # "stray"
  <2> DEFINE k == [J EXCEPT !.at = "forget"]
  <2>1. /\ Do(h, k) /\ k.at = "forget" /\ k.old = J.old /\ k.req = J.req /\ k.freed = J.freed
        /\ k.kind = J.kind
    BY <1>1, <1>2, <1>7 DEF AfterAbort, JobShape
  <2> HIDE DEF k, J
  <2>2. /\ Unlit(k) = {} /\ Leaving(k) = J.freed /\ Closing(k) = J.freed
        /\ Gone(k) = {J.old} \cup J.freed
    BY <2>1 DEF Unlit, Leaving, Closing, Gone, Left, Tearing
  <2>3. Standing(k, slots')
    BY <1>1, <1>2, <1>3, <2>1, <2>2 DEF Standing, Placed, Tearing
  <2>4. Lighted(k, nft', slots')
    BY <1>1, <1>2, <1>3, <2>1, <2>2 DEF Lighted, Moving
  <2>5. Listening(k, socks', tasks', slots')
    BY <1>1, <1>5, <2>1, <2>2 DEF Listening, Placing, Moving
  <2>6. Yields => Matched(k, entries', slots')
    BY <1>1, <1>2, <1>3, <2>1, <2>2 DEF Matched, Placing, Shifting, Tearing
  <2> QED BY <1>1, <1>2, <2>1, <2>3, <2>4, <2>5, <2>6, SoundMove
<1> QED BY <1>6, <1>7

LEMMA ForgetSound ==
  ASSUME TypeInv, SoundInv, Sane, NEW h \in Jobs, Forget(h)
  PROVE  SoundInv'
<1> DEFINE J == job[h]
<1>1. /\ up /\ J.at = "forget" /\ UNCHANGED <<scene, statics, slots, nft, socks, tasks>>
      /\ entries' = entries \ Dropped(J)
  BY DEF Forget, At
<1>2. /\ Turn(h) /\ J \in JobShape /\ Standing(J, slots) /\ Lighted(J, nft, slots)
      /\ Listening(J, socks, tasks, slots) /\ (Yields => Matched(J, entries, slots))
  BY <1>1, AtWork
<1>3. /\ Unlit(J) = {} /\ Leaving(J) = J.freed /\ Closing(J) = J.freed
      /\ Gone(J) = {J.old} \cup J.freed
  BY <1>1 DEF Unlit, Leaving, Closing, Gone, Left, Tearing
<1>4. Yields => \A e \in entries' : /\ e.owner = e.client
                                    /\ e.bind \in J.freed \/ HasSlot(slots, e.bind, e)
  <2> SUFFICES ASSUME Yields, NEW e \in entries'
               PROVE  e.owner = e.client /\ (e.bind \in J.freed \/ HasSlot(slots, e.bind, e))
    OBVIOUS
  <2>1. e \in entries /\ e \notin Dropped(J)
    BY <1>1
  <2>2. e.bind # J.old
    BY <1>1, <1>2, <2>1 DEF Matched, Tearing, Dropped
  <2> QED BY <1>2, <1>3, <2>1, <2>2 DEF Matched
<1>5. Yields => J.req.owner = J.req.client
  BY <1>1, <1>2 DEF Matched
<1>6. ASSUME NEW p \in J.freed, Do(h, [J EXCEPT !.at = "revoke", !.old = p, !.freed = @ \ {p}])
      PROVE  SoundInv'
  <2> DEFINE k == [J EXCEPT !.at = "revoke", !.old = p, !.freed = @ \ {p}]
  <2>1. /\ Do(h, k) /\ k.at = "revoke" /\ k.old = p /\ k.req = J.req /\ k.freed = J.freed \ {p}
        /\ k.kind = J.kind
    BY <1>2, <1>6 DEF JobShape
  <2> HIDE DEF k, J
  <2>2. Unlit(k) = {} /\ Leaving(k) = J.freed /\ Closing(k) = J.freed /\ Gone(k) = J.freed
    BY <1>6, <2>1 DEF Unlit, Leaving, Closing, Gone, Left, Tearing
  <2>3. J.kind = "sweep"
    BY <1>1, <1>2, <1>6 DEF Standing
  <2>4. Standing(k, slots')
    BY <1>1, <1>2, <1>3, <2>1, <2>2, <2>3 DEF Standing, Placed, Tearing
  <2>5. Lighted(k, nft', slots')
    BY <1>1, <1>2, <1>3, <2>1, <2>2 DEF Lighted, Moving
  <2>6. Listening(k, socks', tasks', slots')
    BY <1>1, <1>2, <1>3, <2>1, <2>2 DEF Listening, Placing, Moving
  <2>7. Yields => Matched(k, entries', slots')
    BY <1>1, <1>4, <1>5, <2>1, <2>2, <2>3 DEF Matched, Placing, Shifting
  <2> QED BY <1>1, <1>2, <2>1, <2>4, <2>5, <2>6, <2>7, SoundMove
<1>7. CASE J.freed = {} /\ Do(h, Save(J))
  <2> DEFINE k == Save(J)
  <2>1. /\ k.at \in Resting /\ (k.at # "idle" => k.freed = J.freed /\ k.req = J.req)
        /\ k.at = "find" => k.kind = "delete"
    BY <1>2, SavedStage
  <2>2. Do(h, k)
    BY <1>7
  <2> HIDE DEF k, J
  <2>3. /\ PortsDistinct(slots) /\ \A s \in slots : Lit(nft, s.bind, s.client, s.int)
        /\ nft.admitted \subseteq PortsOf(slots) /\ nft.accepted \subseteq PortsOf(slots)
        /\ \A x \in socks : x.port \in PortsOf(slots) /\ x.port \in statics \cup tasks
    BY <1>1, <1>2, <1>3, <1>7 DEF Standing, Lighted, Listening
  <2> QED BY <1>1, <1>2, <1>4, <1>5, <1>7, <2>1, <2>2, <2>3, SoundSettle
<1> QED BY <1>6, <1>7 DEF Forget

LEMMA FindEntrySound ==
  ASSUME TypeInv, SoundInv, Sane, NEW h \in Jobs, FindEntry(h)
  PROVE  SoundInv'
<1> DEFINE J == job[h]
<1>1. /\ up /\ J.at = "find" /\ UNCHANGED <<scene, statics, slots, nft, socks, tasks, entries>>
      /\ entries \subseteq EntryType /\ OnePerTuple(entries)
  BY DEF FindEntry, At, TypeInv, EntriesInv
<1>2. /\ Turn(h) /\ J \in JobShape /\ Standing(J, slots) /\ (Yields => Matched(J, entries, slots))
  BY <1>1, AtWork
<1>3. /\ J.at \in Resting /\ J.freed = {} /\ PortsDistinct(slots) /\ J.kind = "delete"
      /\ Yields => /\ J.req.owner = J.req.client
                   /\ \A e \in entries : e.owner = e.client /\ HasSlot(slots, e.bind, e)
  <2>1. Gone(J) = {}
    BY <1>1, CalmSets DEF Calm, Resting
  <2> QED BY <1>1, <1>2, <2>1 DEF Resting, Standing, Tearing, Matched
<1>4. PICK l \in J.todo :
        \/ \E e \in entries :
             Do(h, [[J EXCEPT !.todo = @ \ {l}]
                      EXCEPT !.at = "remove", !.old = e.bind,
                             !.req = [ext |-> e.ext, owner |-> e.owner,
                                      client |-> e.client, int |-> e.int]])
        \/ Do(h, AfterSave([J EXCEPT !.todo = @ \ {l}]))
  BY DEF FindEntry
<1> DEFINE rest == [J EXCEPT !.todo = @ \ {l}]
<1>5. rest \in JobShape /\ rest.freed = J.freed /\ rest.req = J.req /\ rest.kind = J.kind
  BY <1>2 DEF JobShape
<1>6. ASSUME NEW e \in entries,
             Do(h, [rest EXCEPT !.at = "remove", !.old = e.bind,
                                !.req = [ext |-> e.ext, owner |-> e.owner,
                                         client |-> e.client, int |-> e.int]])
      PROVE  SoundInv'
  <2> DEFINE k == [rest EXCEPT !.at = "remove", !.old = e.bind,
                               !.req = [ext |-> e.ext, owner |-> e.owner,
                                        client |-> e.client, int |-> e.int]]
  <2> HIDE DEF rest
  <2>1. /\ k.at = "remove" /\ k.old = e.bind /\ k.freed = rest.freed /\ k.kind = rest.kind
        /\ k.req = [ext |-> e.ext, owner |-> e.owner, client |-> e.client, int |-> e.int]
    BY <1>5 DEF JobShape
  <2>2. Do(h, k)
    BY <1>6
  <2> HIDE DEF k, J
  <2>3. ASSUME Yields
        PROVE  /\ k.req.owner = k.req.client
               /\ \A f \in entries : f.bind = k.old => f.ext = k.req.ext /\ f.owner = k.req.owner
    <3>1. \A f \in entries : f.bind = e.bind => f = e
      BY <1>1, <1>3, <2>3, EntryPerSlot
    <3> QED BY <1>3, <2>1, <2>3, <3>1
  <2>4. k.freed = {} /\ k.kind # "stray"
    BY <1>3, <1>5, <2>1
  <2> QED BY <1>1, <1>2, <1>3, <2>1, <2>2, <2>3, <2>4, SoundRest DEF J
<1>7. ASSUME Do(h, AfterSave(rest)) PROVE SoundInv'
  <2> HIDE DEF rest
  <2> DEFINE k == AfterSave(rest)
  <2>1. /\ k.at \in Resting /\ (k.at # "idle" => k.freed = J.freed /\ k.req = J.req)
        /\ k.at = "find" => k.kind = "delete"
    BY <1>5, SavedStage
  <2>2. Do(h, k)
    BY <1>7
  <2> HIDE DEF k
  <2>3. k.at # "remove"
    BY <2>1 DEF Resting
  <2> QED BY <1>1, <1>2, <1>3, <2>1, <2>2, <2>3, SoundRest
<1> QED BY <1>4, <1>6, <1>7

LEMMA PersistSound ==
  ASSUME TypeInv, SoundInv, Sane, NEW h \in Jobs, PersistStep(h)
  PROVE  SoundInv'
<1> DEFINE J == job[h]
<1>1. /\ up /\ J.at \in {"snapshot", "leases", "copyindex", "index"}
      /\ UNCHANGED <<scene, statics, slots, nft, socks, tasks, entries>>
  BY DEF PersistStep, CopyTable, WriteLeases, CopyIndex, WriteIndex, At
<1>2. Turn(h) /\ J \in JobShape /\ Standing(J, slots) /\ (Yields => Matched(J, entries, slots))
  BY <1>1, AtWork
<1>3. J.at \in Resting /\ J.freed = {} /\ (Yields => J.req.owner = J.req.client)
  BY <1>1, <1>2 DEF Resting, Standing, Tearing, Matched
<1>4. ASSUME NEW k, Do(h, k), k.at \in Resting, k.at # "idle" => k.freed = J.freed /\ k.req = J.req,
             k.at = "find" => k.kind = "delete"
      PROVE  SoundInv'
  <2>1. k.at # "remove"
    BY <1>4 DEF Resting
  <2> QED BY <1>1, <1>2, <1>3, <1>4, <2>1, SoundRest
<1>5. ASSUME NEW l \in {"leases", "copyindex", "index"}, NEW R, Do(h, [J EXCEPT !.at = l, !.rows = R])
      PROVE  SoundInv'
  <2> DEFINE k == [J EXCEPT !.at = l, !.rows = R]
  <2>1. Do(h, k) /\ k.at = l /\ k.freed = J.freed /\ k.req = J.req
    BY <1>2, <1>5 DEF JobShape
  <2> HIDE DEF k
  <2> QED BY <1>4, <2>1 DEF Resting
<1>6. CASE WriteIndex(h)
  <2> DEFINE rest == [J EXCEPT !.rows = {}]
             k == AfterSave(rest)
  <2>1. rest \in JobShape /\ rest.freed = J.freed /\ rest.req = J.req
    BY <1>2 DEF JobShape
  <2>2. Do(h, k)
    BY <1>6 DEF WriteIndex
  <2> HIDE DEF rest
  <2>3. /\ k.at \in Resting /\ (k.at # "idle" => k.freed = rest.freed /\ k.req = rest.req)
        /\ k.at = "find" => k.kind = "delete"
    BY <2>1, SavedStage
  <2> HIDE DEF k
  <2> QED BY <1>4, <2>1, <2>2, <2>3
<1>7. CASE CopyTable(h) \/ WriteLeases(h) \/ CopyIndex(h)
  BY <1>5, <1>7 DEF CopyTable, WriteLeases, CopyIndex
<1> QED BY <1>6, <1>7 DEF PersistStep

(* The requests of a scenario with yields are the callers' own. *)
OwnRequests == Yields => \A r \in scene.requests : r.owner = r.client

LEMMA StartSound == ASSUME TypeInv, SoundInv, Sane, OwnRequests, Start PROVE SoundInv'
<1>1. ASSUME NEW h \in Jobs, NEW use, MayStart(h, use)
      PROVE  /\ up /\ Turn(h) /\ job[h].at = "idle" /\ job[h].at \in Resting
             /\ Standing(job[h], slots) /\ Lighted(job[h], nft, slots)
             /\ Listening(job[h], socks, tasks, slots)
             /\ Yields => Matched(job[h], entries, slots)
  <2>1. up
    BY <1>1 DEF MayStart, At
  <2>2. Turn(h) /\ job[h].at = "idle"
    BY <1>1, <2>1, MayStartAlone DEF SoundInv, Sane
  <2> QED BY <2>1, <2>2 DEF SoundInv, Resting
<1>2. ASSUME NEW h \in Jobs, NEW use, MayStart(h, use), NEW k, Do(h, k), k.at \in {"upsert", "find"},
             k.freed = {}, k.at = "find" => k.kind = "delete", Yields => k.req.owner = k.req.client,
             UNCHANGED <<scene, statics, slots, nft, socks, tasks, entries>>
      PROVE  SoundInv'
  <2>1. k.at \in Resting \cup {"remove"} /\ k.at # "remove"
    BY <1>2 DEF Resting
  <2> QED BY <1>1, <1>2, <2>1, SoundRest
<1>3. ASSUME NEW h \in Workers, NEW r \in scene.requests, StartGrant(h, r) PROVE SoundInv'
  <2> DEFINE k == [Idling EXCEPT !.at = "upsert", !.kind = "grant", !.req = r]
  <2>1. k.at = "upsert" /\ k.freed = {} /\ k.req = r
    BY DEF Idling
  <2>2. /\ h \in Jobs /\ MayStart(h, "grant") /\ Do(h, k)
        /\ UNCHANGED <<scene, statics, slots, nft, socks, tasks, entries>>
    BY <1>3 DEF StartGrant, Jobs
  <2> HIDE DEF k
  <2> QED BY <1>2, <2>1, <2>2 DEF OwnRequests
<1>4. ASSUME NEW h \in Jobs, NEW use, NEW labels, StartDelete(h, use, labels) PROVE SoundInv'
  <2> DEFINE k == [Idling EXCEPT !.at = "find", !.kind = "delete", !.todo = labels]
  <2>1. k.at = "find" /\ k.freed = {} /\ k.kind = "delete" /\ k.req.owner = k.req.client
    BY DEF Idling, NoReq
  <2>2. /\ MayStart(h, use) /\ Do(h, k)
        /\ UNCHANGED <<scene, statics, slots, nft, socks, tasks, entries>>
    BY <1>4 DEF StartDelete
  <2> HIDE DEF k
  <2> QED BY <1>2, <2>1, <2>2
<1>5. ASSUME NEW old, StartYield(old) PROVE SoundInv'
  <2>1. PICK e \in entries : e.bind = old /\
          Do(Collector, [Idling EXCEPT !.at = "move", !.kind = "yield", !.old = old,
                           !.req = [ext |-> e.ext, owner |-> e.owner,
                                    client |-> e.client, int |-> e.int]])
    BY <1>5 DEF StartYield
  <2> DEFINE J == job[Collector]
             k == [Idling EXCEPT !.at = "move", !.kind = "yield", !.old = old,
                           !.req = [ext |-> e.ext, owner |-> e.owner,
                                    client |-> e.client, int |-> e.int]]
  <2>2. /\ k.at = "move" /\ k.old = old /\ k.freed = {}
        /\ k.req.owner = e.owner /\ k.req.client = e.client /\ k.req.int = e.int
    BY DEF Idling
  <2>3. /\ Collector \in Jobs /\ MayStart(Collector, "yield") /\ Do(Collector, k) /\ Yields
        /\ UNCHANGED <<scene, statics, slots, nft, socks, tasks, entries>>
    BY <1>5, <2>1 DEF StartYield, MayStart, Jobs, Yields
  <2>4. /\ Turn(Collector) /\ J.at = "idle" /\ Standing(J, slots) /\ Lighted(J, nft, slots)
        /\ Listening(J, socks, tasks, slots) /\ Matched(J, entries, slots)
    BY <1>1, <2>3
  <2> HIDE DEF k, J
  <2>5. /\ Unlit(J) = {} /\ Leaving(J) = {} /\ Closing(J) = {} /\ Gone(J) = {}
        /\ Unlit(k) = {} /\ Leaving(k) = {} /\ Closing(k) = {} /\ Gone(k) = {}
    BY <2>2, <2>4, CalmSets DEF Calm, Resting
  <2>6. /\ PortsDistinct(slots) /\ HasSlot(slots, old, e) /\ e.owner = e.client
    BY <2>1, <2>4, <2>5 DEF Standing, Matched
  <2>7. \A s \in slots : s.bind = old => s.client = e.client /\ s.int = e.int
    BY <2>6, SlotIs
  <2>8. Standing(k, slots')
    BY <2>2, <2>3, <2>5, <2>6, <2>7 DEF Standing, Placed
  <2>9. Lighted(k, nft', slots')
    BY <2>2, <2>3, <2>4, <2>5 DEF Lighted, Moving
  <2>10. Listening(k, socks', tasks', slots')
    BY <2>2, <2>3, <2>4, <2>5 DEF Listening, Placing, Moving
  <2>11. Yields => Matched(k, entries', slots')
    BY <2>2, <2>3, <2>4, <2>5, <2>6 DEF Matched, Placing, Shifting, Tearing
  <2> QED BY <2>3, <2>4, <2>8, <2>9, <2>10, <2>11, SoundMove
<1>6. CASE Sweep
  <2> DEFINE stale == {s \in slots : ~IsStatic(s) /\ s.stale}
             freed == PortsOf(stale)
             J == job[Collector]
  <2>1. PICK p \in freed :
          Do(Collector, [Idling EXCEPT !.at = "revoke", !.kind = "sweep", !.old = p, !.freed = freed \ {p}])
    BY <1>6 DEF Sweep
  <2>2. /\ Collector \in Jobs /\ MayStart(Collector, "sweep") /\ slots' = slots \ stale
        /\ UNCHANGED <<scene, statics, nft, socks, tasks, entries>>
    BY <1>6 DEF Sweep, Jobs
  <2>3. /\ Turn(Collector) /\ J.at = "idle" /\ Standing(J, slots) /\ Lighted(J, nft, slots)
        /\ Listening(J, socks, tasks, slots) /\ (Yields => Matched(J, entries, slots))
    BY <1>1, <2>2
  <2> DEFINE k == [Idling EXCEPT !.at = "revoke", !.kind = "sweep", !.old = p, !.freed = freed \ {p}]
  <2>4. stale \subseteq slots
    OBVIOUS
  <2> HIDE DEF J, stale
  <2>5. /\ k.at = "revoke" /\ k.old = p /\ k.freed = freed \ {p} /\ k.kind = "sweep"
        /\ k.req.owner = k.req.client
    BY DEF Idling, NoReq
  <2>6. Do(Collector, k)
    BY <2>1
  <2> HIDE DEF k
  <2>7. /\ Unlit(J) = {} /\ Leaving(J) = {} /\ Closing(J) = {} /\ Gone(J) = {}
    BY <2>3, CalmSets DEF Calm, Resting
  <2>8. Unlit(k) = {} /\ Leaving(k) = freed /\ Closing(k) = freed /\ Gone(k) = freed
    BY <2>1, <2>5 DEF Unlit, Leaving, Closing, Gone, Left, Tearing
  <2>9. /\ PortsDistinct(slots') /\ PortsOf(slots) = PortsOf(slots') \cup freed
        /\ \A q \in freed : q \notin PortsOf(slots')
    BY <2>2, <2>3, <2>4 DEF Standing, PortsDistinct, PortsOf
  <2>10. \A q, r : HasSlot(slots, q, r) => q \in freed \/ HasSlot(slots', q, r)
    BY <2>2 DEF HasSlot, PortsOf
  <2> HIDE DEF freed
  <2>11. Standing(k, slots')
    BY <2>5, <2>8, <2>9 DEF Standing, Placed, Tearing
  <2>12. Lighted(k, nft', slots')
    BY <2>2, <2>3, <2>5, <2>7, <2>8, <2>9 DEF Lighted, Moving
  <2>13. Listening(k, socks', tasks', slots')
    BY <2>2, <2>3, <2>5, <2>7, <2>8, <2>9 DEF Listening, Placing, Moving
  <2>14. Yields => Matched(k, entries', slots')
    BY <2>2, <2>3, <2>5, <2>7, <2>8, <2>10 DEF Matched, Placing, Shifting
  <2> QED BY <2>2, <2>3, <2>6, <2>11, <2>12, <2>13, <2>14, SoundMove
<1>7. ASSUME NEW h \in Workers,
             \/ \E r \in scene.requests : DeleteMapping(h, [ext |-> r.ext, owner |-> r.owner])
             \/ \E c \in Clients : DeleteRange(h, c)
             \/ \E c \in Clients, i \in IntPorts : DeleteKey(h, c, i)
      PROVE  SoundInv'
  BY <1>4, <1>7 DEF DeleteMapping, DeleteRange, DeleteKey, Jobs
<1>8. ASSUME NEW gone \in SUBSET Clients, ReapAbsent(gone) PROVE SoundInv'
  BY <1>4, <1>8 DEF ReapAbsent, Jobs
<1> QED BY <1>3, <1>5, <1>6, <1>7, <1>8 DEF Start

(* The yield.  A slot under another port. *)
LEMMA ShiftedSlots ==
  ASSUME NEW T \in SUBSET SlotType, PortsDistinct(T), NEW s \in T,
         NEW to \in Ports, to \notin PortsOf(T), NEW U, U = Moved(T, s, to)
  PROVE  /\ PortsDistinct(U) /\ PortsOf(U) = (PortsOf(T) \ {s.bind}) \cup {to}
         /\ HasSlot(U, to, s) /\ \A q, r : q # s.bind /\ HasSlot(T, q, r) => HasSlot(U, q, r)
         /\ \A u \in U : \/ u \in T /\ u.bind # s.bind
                         \/ u.bind = to /\ u.client = s.client /\ u.int = s.int
<1> DEFINE t == [s EXCEPT !.bind = to]
<1>1. t.bind = to /\ t.client = s.client /\ t.int = s.int
  BY DEF SlotType
<1>2. U = (T \ {s}) \cup {t}
  BY DEF Moved
<1> HIDE DEF t
<1>3. \A x \in T : x.bind # to /\ (x.bind = s.bind <=> x = s)
  BY DEF PortsDistinct, PortsOf
<1>4. PortsDistinct(U)
  BY MovedRows
<1>5. PortsOf(U) = (PortsOf(T) \ {s.bind}) \cup {to}
  BY <1>1, <1>2, <1>3 DEF PortsOf
<1>6. HasSlot(U, to, s)
  BY <1>1, <1>2 DEF HasSlot
<1>7. \A q, r : q # s.bind /\ HasSlot(T, q, r) => HasSlot(U, q, r)
  BY <1>2, <1>3 DEF HasSlot
<1>8. \A u \in U : (u \in T /\ u.bind # s.bind) \/ (u.bind = to /\ u.client = s.client /\ u.int = s.int)
  BY <1>1, <1>2, <1>3
<1> QED BY <1>4, <1>5, <1>6, <1>7, <1>8

LEMMA MoveLeaseSound ==
  ASSUME TypeInv, SoundInv, Sane, NEW h \in Jobs, MoveLease(h)
  PROVE  SoundInv'
<1> DEFINE J == job[h]
<1>1. /\ up /\ J.at = "move" /\ UNCHANGED <<scene, statics, nft, socks, tasks, entries>>
      /\ slots \in SUBSET SlotType
  BY DEF MoveLease, At, TypeInv, SlotsInv
<1>2. /\ Turn(h) /\ J \in JobShape /\ Standing(J, slots) /\ Lighted(J, nft, slots)
      /\ Listening(J, socks, tasks, slots) /\ (Yields => Matched(J, entries, slots))
  BY <1>1, AtWork
<1>3. Unlit(J) = {} /\ Leaving(J) = {} /\ Closing(J) = {} /\ Gone(J) = {}
  BY <1>1, CalmSets DEF Calm
<1>4. /\ PortsDistinct(slots) /\ J.freed = {}
      /\ \A s \in slots : s.bind = J.old => s.client = J.req.client /\ s.int = J.req.int
      /\ \A s \in slots : Lit(nft, s.bind, s.client, s.int)
      /\ nft.admitted \subseteq PortsOf(slots) /\ nft.accepted \subseteq PortsOf(slots)
      /\ \A k \in socks : k.port \in PortsOf(slots) /\ k.port \in statics \cup tasks
  BY <1>1, <1>2, <1>3 DEF Standing, Tearing, Lighted, Listening
<1>5. Yields => /\ \A e \in entries : e.owner = e.client /\ HasSlot(slots, e.bind, e)
                /\ J.req.owner = J.req.client
  BY <1>1, <1>2, <1>3 DEF Matched
<1>6. CASE Finish(h) /\ UNCHANGED slots
  <2>1. Do(h, Idling) /\ Idling.at = "idle"
    BY <1>6 DEF Finish, Idling
  <2>2. Idling.at \in Resting
    BY <2>1 DEF Resting
  <2> HIDE DEF J
  <2> QED BY <1>1, <1>2, <1>4, <1>5, <1>6, <2>1, <2>2, SoundSettle
<1>7. ASSUME NEW s \in slots, NEW p \in FreePorts(slots, {}), s.bind = J.old,
             slots' = Moved(slots, s, p), Do(h, [J EXCEPT !.at = "rebind", !.port = p])
      PROVE  SoundInv'
  <2> DEFINE k == [J EXCEPT !.at = "rebind", !.port = p]
  <2>1. /\ Do(h, k) /\ k.at = "rebind" /\ k.port = p /\ k.old = J.old /\ k.req = J.req
        /\ k.freed = J.freed
    BY <1>2, <1>7 DEF JobShape
  <2> HIDE DEF k, J
  <2>2. Unlit(k) = {p} /\ Leaving(k) = {J.old} /\ Closing(k) = {J.old} /\ Gone(k) = {J.old}
    BY <2>1 DEF Unlit, Leaving, Closing, Gone, Left, Tearing, Shifting
  <2>3. p \in Ports /\ p \notin PortsOf(slots)
    BY DEF FreePorts
  <2>4. /\ PortsDistinct(slots') /\ PortsOf(slots') = (PortsOf(slots) \ {J.old}) \cup {p}
        /\ HasSlot(slots', p, s) /\ \A q, r : q # J.old /\ HasSlot(slots, q, r) => HasSlot(slots', q, r)
        /\ \A u \in slots' : (u \in slots /\ u.bind # J.old) \/ u.bind = p
    BY <1>1, <1>4, <1>7, <2>3, ShiftedSlots
  <2>5. s.client = J.req.client /\ s.int = J.req.int /\ J.old \in PortsOf(slots)
    BY <1>4, <1>7 DEF PortsOf
  <2>6. HasSlot(slots', p, J.req)
    BY <2>4, <2>5 DEF HasSlot
  <2>7. Standing(k, slots')
    BY <1>4, <2>1, <2>2, <2>3, <2>4, <2>5, <2>6 DEF Standing
  <2>8. Lit(nft, J.old, J.req.client, J.req.int)
    BY <1>4, <1>7, <2>5
  <2>9. Lighted(k, nft', slots')
    BY <1>1, <1>4, <2>1, <2>2, <2>3, <2>4, <2>8 DEF Lighted
  <2>10. Listening(k, socks', tasks', slots')
    BY <1>1, <1>4, <2>1, <2>2, <2>3, <2>4 DEF Listening
  <2>11. ASSUME Yields, NEW e \in entries
         PROVE  /\ e.bind # p
                /\ e.bind = J.old => e.client = J.req.client /\ e.int = J.req.int
    <3>1. HasSlot(slots, e.bind, e)
      BY <1>5, <2>11
    <3> QED BY <1>4, <2>3, <3>1, SlotIs DEF HasSlot
  <2>12. Yields => Matched(k, entries', slots')
    BY <1>1, <1>5, <2>1, <2>2, <2>4, <2>11 DEF Matched, Placing, Tearing
  <2> QED BY <1>1, <1>2, <2>1, <2>7, <2>9, <2>10, <2>12, SoundMove
<1> QED BY <1>6, <1>7 DEF MoveLease, Moved

LEMMA RebindSound ==
  ASSUME TypeInv, SoundInv, Sane, NEW h \in Jobs, Rebind(h)
  PROVE  SoundInv'
<1> DEFINE J == job[h]
           p == J.port
           new == Sock(p, J.req.client, J.req.int)
<1>1. /\ up /\ J.at = "rebind" /\ UNCHANGED <<scene, statics, slots, nft, tasks, entries>>
  BY DEF Rebind, At
<1>2. /\ Turn(h) /\ J \in JobShape /\ Standing(J, slots) /\ Lighted(J, nft, slots)
      /\ Listening(J, socks, tasks, slots) /\ (Yields => Matched(J, entries, slots))
  BY <1>1, AtWork
<1>3. /\ Unlit(J) = {p} /\ Leaving(J) = {J.old} /\ Closing(J) = {J.old} /\ Gone(J) = {J.old}
      /\ J.freed = {}
  BY <1>1, <1>2 DEF Unlit, Leaving, Closing, Gone, Left, Tearing, Shifting, Standing
<1>4. p \in PortsOf(slots) /\ new.port = p
  BY <1>1, <1>2, SlotIs DEF Standing, Placed, Sock
<1>5. ASSUME NEW l \in {"moveback", "redirect"}, Goto(h, l), socks' \subseteq socks \cup {new},
             l = "moveback" => UNCHANGED socks
      PROVE  SoundInv'
  <2> DEFINE k == [J EXCEPT !.at = l]
  <2>1. /\ Do(h, k) /\ k.at = l /\ k.port = p /\ k.old = J.old /\ k.req = J.req /\ k.freed = J.freed
    BY <1>2, <1>5 DEF Goto, JobShape
  <2> HIDE DEF k, J, new
  <2>2. Unlit(k) = {p} /\ Leaving(k) = {J.old} /\ Closing(k) = {J.old} /\ Gone(k) = {J.old}
    BY <2>1, <1>3 DEF Unlit, Leaving, Closing, Gone, Left, Tearing, Shifting
  <2>3. Standing(k, slots')
    BY <1>1, <1>2, <1>3, <2>1, <2>2 DEF Standing, Placed
  <2>4. Lighted(k, nft', slots')
    BY <1>1, <1>2, <1>3, <2>1, <2>2 DEF Lighted, Moving
  <2>5. Listening(k, socks', tasks', slots')
    <3>1. CASE l = "moveback"
      BY <1>1, <1>2, <1>3, <1>5, <2>1, <2>2, <3>1 DEF Listening, Moving
    <3>2. CASE l = "redirect"
      BY <1>1, <1>2, <1>3, <1>4, <1>5, <2>1, <2>2, <3>2 DEF Listening, Placing, Moving
    <3> QED BY <3>1, <3>2
  <2>6. Yields => Matched(k, entries', slots')
    BY <1>1, <1>2, <1>3, <2>1, <2>2 DEF Matched, Placing, Moving, Shifting, Tearing
  <2> QED BY <1>1, <1>2, <2>1, <2>3, <2>4, <2>5, <2>6, SoundMove
<1>6. \/ socks' = socks \cup {new} /\ Goto(h, "redirect")
      \/ UNCHANGED socks /\ Goto(h, "moveback")
  BY DEF Rebind
<1> HIDE DEF J, new
<1>7. "redirect" # "moveback"
  OBVIOUS
<1> QED BY <1>5, <1>6, <1>7

LEMMA MoveBackSound ==
  ASSUME TypeInv, SoundInv, Sane, NEW h \in Jobs, MoveBack(h)
  PROVE  SoundInv'
<1> DEFINE J == job[h]
           p == J.port
<1>1. /\ up /\ J.at = "moveback" /\ UNCHANGED <<scene, statics, nft, socks, tasks, entries>>
      /\ slots \in SUBSET SlotType /\ Do(h, Idling)
  BY DEF MoveBack, At, TypeInv, SlotsInv, Finish
<1>2. /\ Turn(h) /\ J \in JobShape /\ Carries(J) /\ Standing(J, slots) /\ Lighted(J, nft, slots)
      /\ Listening(J, socks, tasks, slots) /\ (Yields => Matched(J, entries, slots))
  BY <1>1, AtWork
<1>3. /\ Unlit(J) = {p} /\ Leaving(J) = {J.old} /\ Closing(J) = {J.old} /\ Gone(J) = {J.old}
  BY <1>1, <1>2 DEF Unlit, Leaving, Closing, Gone, Left, Tearing, Shifting, Standing
<1>4. /\ PortsDistinct(slots) /\ HasSlot(slots, p, J.req) /\ J.old \notin PortsOf(slots) /\ J.old \in Ports
  BY <1>1, <1>2, <1>3 DEF Standing, Placed, Carries
<1>5. PICK s \in slots : s.bind = p /\ slots' = Moved(slots, s, J.old)
  BY <1>4, SlotIs DEF MoveBack, Moved
<1> HIDE DEF J
<1>6. s.client = J.req.client /\ s.int = J.req.int
  BY <1>4, <1>5, SlotIs
<1>7. /\ PortsDistinct(slots') /\ PortsOf(slots') = (PortsOf(slots) \ {p}) \cup {J.old}
      /\ HasSlot(slots', J.old, s) /\ \A q, r : q # p /\ HasSlot(slots, q, r) => HasSlot(slots', q, r)
      /\ \A u \in slots' : \/ u \in slots /\ u.bind # p
                           \/ u.bind = J.old /\ u.client = s.client /\ u.int = s.int
  BY <1>1, <1>4, <1>5, ShiftedSlots
<1>8. \A u \in slots' : Lit(nft, u.bind, u.client, u.int)
  <2>1. Lit(nft, J.old, J.req.client, J.req.int)
    BY <1>1, <1>2 DEF Lighted, Moving
  <2>2. \A u \in slots : u.bind # p => Lit(nft, u.bind, u.client, u.int)
    BY <1>2, <1>3 DEF Lighted
  <2> QED BY <1>6, <1>7, <2>1, <2>2
<1>9. nft.admitted \subseteq PortsOf(slots') /\ nft.accepted \subseteq PortsOf(slots')
  BY <1>2, <1>3, <1>7 DEF Lighted
<1>10. \A k \in socks : k.port \in PortsOf(slots') /\ k.port \in statics \cup tasks
  BY <1>1, <1>2, <1>3, <1>7 DEF Listening, Moving
<1>11. ASSUME Yields, NEW e \in entries PROVE e.owner = e.client /\ HasSlot(slots', e.bind, e)
  <2>1. e.owner = e.client /\ e.bind # p /\ (e.bind = J.old \/ HasSlot(slots, e.bind, e))
    BY <1>1, <1>2, <1>3, <1>11 DEF Matched, Shifting, Moving
  <2>2. CASE e.bind = J.old
    <3>1. e.client = J.req.client /\ e.int = J.req.int
      BY <1>1, <1>2, <1>11, <2>2 DEF Matched, Shifting
    <3> QED BY <1>6, <1>7, <2>1, <2>2, <3>1 DEF HasSlot
  <2>3. CASE HasSlot(slots, e.bind, e)
    BY <1>7, <2>1, <2>3
  <2> QED BY <2>1, <2>2, <2>3
<1>12. Idling.at = "idle" /\ Idling.at \in Resting
  BY DEF Idling, Resting
<1> QED BY <1>1, <1>2, <1>7, <1>8, <1>9, <1>10, <1>11, <1>12, SoundSettle

LEMMA RedirectSound ==
  ASSUME TypeInv, SoundInv, Sane, NEW h \in Jobs, Redirect(h)
  PROVE  SoundInv'
<1> DEFINE J == job[h]
           p == J.port
           c == J.req.client
           i == J.req.int
           k == [J EXCEPT !.at = "reregister"]
<1>1. /\ up /\ J.at = "redirect" /\ UNCHANGED <<scene, statics, slots, socks, tasks, entries>>
      /\ nft \in NftType /\ Goto(h, "reregister")
      /\ refused' = TRUE \/ (~Conflict(nft, p, c, i) /\ nft' = Granted(nft, p, c, i))
  BY DEF Redirect, At, TypeInv, NftInv
<1>2. CASE refused' = TRUE
  BY <1>2 DEF SoundInv, Sane
<1>3. CASE ~Conflict(nft, p, c, i) /\ nft' = Granted(nft, p, c, i)
  <2>1. /\ Turn(h) /\ J \in JobShape /\ Standing(J, slots) /\ Lighted(J, nft, slots)
        /\ Listening(J, socks, tasks, slots) /\ (Yields => Matched(J, entries, slots))
    BY <1>1, AtWork
  <2>2. /\ Do(h, k) /\ k.at = "reregister" /\ k.port = p /\ k.old = J.old /\ k.req = J.req
        /\ k.freed = J.freed
    BY <1>1, <2>1 DEF Goto, JobShape
  <2> HIDE DEF k, J
  <2>3. /\ Unlit(J) = {p} /\ Leaving(J) = {J.old} /\ Closing(J) = {J.old} /\ Gone(J) = {J.old}
        /\ Unlit(k) = {} /\ Leaving(k) = {J.old} /\ Closing(k) = {J.old} /\ Gone(k) = {J.old}
    BY <1>1, <2>2 DEF Unlit, Leaving, Closing, Gone, Left, Tearing, Shifting
  <2>4. p \in PortsOf(slots) /\ \A s \in slots : s.bind = p => s.client = c /\ s.int = i
    BY <1>1, <2>1, SlotIs DEF Standing, Placed
  <2>5. Standing(k, slots')
    BY <1>1, <2>1, <2>2, <2>3 DEF Standing, Placed, Tearing
  <2>6. /\ \A s \in slots : s.bind # p => Lit(nft, s.bind, s.client, s.int)
        /\ \A q \in nft.admitted \cup nft.accepted : q \in PortsOf(slots) \cup {J.old}
    BY <2>1, <2>3 DEF Lighted
  <2>7. /\ \A s \in slots : Lit(nft', s.bind, s.client, s.int)
        /\ \A q \in nft'.admitted \cup nft'.accepted : q \in PortsOf(slots) \cup {J.old}
    BY <1>1, <1>3, <2>4, <2>6, GrantedLit
  <2>8. Lighted(k, nft', slots')
    BY <1>1, <2>2, <2>3, <2>7 DEF Lighted, Moving
  <2>9. Listening(k, socks', tasks', slots')
    BY <1>1, <2>1, <2>2, <2>3 DEF Listening, Placing, Moving
  <2>10. Yields => Matched(k, entries', slots')
    BY <1>1, <2>1, <2>2, <2>3 DEF Matched, Placing, Moving, Shifting, Tearing
  <2> QED BY <1>1, <2>1, <2>2, <2>5, <2>8, <2>9, <2>10, SoundMove
<1> QED BY <1>1, <1>2, <1>3

LEMMA ReregisterSound ==
  ASSUME TypeInv, SoundInv, Sane, NEW h \in Jobs, Reregister(h)
  PROVE  SoundInv'
<1> DEFINE J == job[h]
           k == [J EXCEPT !.at = "release"]
<1>1. /\ up /\ J.at = "reregister" /\ UNCHANGED <<scene, statics, slots, socks, entries>>
      /\ nft \in NftType /\ nft' = Revoked(nft, J.old) /\ tasks' = tasks \cup {J.port}
  BY DEF Reregister, At, TypeInv, NftInv
<1>2. /\ Turn(h) /\ J \in JobShape /\ Standing(J, slots) /\ Lighted(J, nft, slots)
      /\ Listening(J, socks, tasks, slots) /\ (Yields => Matched(J, entries, slots))
  BY <1>1, AtWork
<1>3. /\ Do(h, k) /\ k.at = "release" /\ k.port = J.port /\ k.old = J.old /\ k.req = J.req
      /\ k.freed = J.freed
  BY <1>2 DEF Reregister, Goto, JobShape
<1> HIDE DEF k, J
<1>4. /\ Unlit(J) = {} /\ Leaving(J) = {J.old} /\ Closing(J) = {J.old} /\ Gone(J) = {J.old}
      /\ Unlit(k) = {} /\ Leaving(k) = {} /\ Closing(k) = {J.old} /\ Gone(k) = {J.old}
  BY <1>1, <1>3 DEF Unlit, Leaving, Closing, Gone, Left, Tearing, Shifting
<1>5. Standing(k, slots')
  BY <1>1, <1>2, <1>3, <1>4 DEF Standing, Placed, Tearing
<1>6. \A s \in slots : s.bind # J.old
  BY <1>2, <1>4 DEF Standing, PortsOf
<1>7. /\ \A s \in slots : Lit(nft', s.bind, s.client, s.int)
      /\ \A q \in nft'.admitted \cup nft'.accepted : q \in PortsOf(slots)
  BY <1>1, <1>2, <1>4, <1>6, RevokedDark DEF Lighted
<1>8. Lighted(k, nft', slots')
  BY <1>1, <1>3, <1>4, <1>7 DEF Lighted, Moving
<1>9. Listening(k, socks', tasks', slots')
  BY <1>1, <1>2, <1>3, <1>4 DEF Listening, Placing, Moving
<1>10. Yields => Matched(k, entries', slots')
  BY <1>1, <1>2, <1>3, <1>4 DEF Matched, Placing, Moving, Shifting, Tearing
<1> QED BY <1>1, <1>2, <1>3, <1>5, <1>8, <1>9, <1>10, SoundMove

LEMMA ReleaseOldSound ==
  ASSUME TypeInv, StaticInv, SoundInv, Sane, NEW h \in Jobs, ReleaseOld(h)
  PROVE  SoundInv'
<1> DEFINE J == job[h]
           k == [J EXCEPT !.at = "reindex"]
<1>1. /\ up /\ J.at = "release" /\ UNCHANGED <<scene, statics, slots, nft, entries>> /\ Abort(J.old)
  BY DEF ReleaseOld, At
<1>2. /\ Turn(h) /\ J \in JobShape /\ Standing(J, slots) /\ Lighted(J, nft, slots)
      /\ Listening(J, socks, tasks, slots) /\ (Yields => Matched(J, entries, slots))
  BY <1>1, AtWork
<1>3. /\ Do(h, k) /\ k.at = "reindex" /\ k.port = J.port /\ k.old = J.old /\ k.req = J.req
      /\ k.freed = J.freed
  BY <1>2 DEF ReleaseOld, Goto, JobShape
<1>4. socks' \subseteq socks /\ (\A x \in socks' : x.port # J.old) /\ tasks' = tasks \ {J.old}
  <2>1. J.old \notin statics
    BY DEF StaticInv, JobsAside, Aside
  <2>2. \A x \in socks : x.port \in statics \cup tasks
    BY <1>1, <1>2 DEF Listening
  <2> QED BY <1>1, <2>1, <2>2, Aborted
<1> HIDE DEF k, J
<1>5. /\ Unlit(J) = {} /\ Leaving(J) = {} /\ Closing(J) = {J.old} /\ Gone(J) = {J.old}
      /\ Unlit(k) = {} /\ Leaving(k) = {} /\ Closing(k) = {} /\ Gone(k) = {J.old}
  BY <1>1, <1>3 DEF Unlit, Leaving, Closing, Gone, Left, Tearing, Shifting
<1>6. Standing(k, slots')
  BY <1>1, <1>2, <1>3, <1>5 DEF Standing, Placed, Tearing
<1>7. Lighted(k, nft', slots')
  BY <1>1, <1>2, <1>3, <1>5 DEF Lighted, Moving
<1>8. Listening(k, socks', tasks', slots')
  BY <1>1, <1>2, <1>3, <1>4, <1>5 DEF Listening, Placing, Moving
<1>9. Yields => Matched(k, entries', slots')
  BY <1>1, <1>2, <1>3, <1>5 DEF Matched, Placing, Moving, Shifting, Tearing
<1> QED BY <1>1, <1>2, <1>3, <1>6, <1>7, <1>8, <1>9, SoundMove

LEMMA ReindexSound ==
  ASSUME TypeInv, SoundInv, Sane, NEW h \in Jobs, Reindex(h)
  PROVE  SoundInv'
<1> DEFINE J == job[h]
           k == Save(J)
<1>1. /\ up /\ J.at = "reindex" /\ UNCHANGED <<scene, statics, slots, nft, socks, tasks>>
      /\ entries \subseteq EntryType /\ OnePerTuple(entries) /\ Do(h, k)
  BY DEF Reindex, At, TypeInv, EntriesInv
<1>2. /\ Turn(h) /\ J \in JobShape /\ Standing(J, slots) /\ Lighted(J, nft, slots)
      /\ Listening(J, socks, tasks, slots) /\ (Yields => Matched(J, entries, slots))
  BY <1>1, AtWork
<1>3. /\ k.at \in Resting /\ (k.at # "idle" => k.freed = J.freed /\ k.req = J.req)
      /\ k.at = "find" => k.kind = "delete"
  BY <1>2, SavedStage
<1>4. \/ entries' = entries /\ \A e \in entries : e.bind # J.old
      \/ \E e \in entries : /\ e.bind = J.old
                            /\ entries' = (entries \ {e}) \cup {[e EXCEPT !.bind = J.port]}
  BY DEF Reindex
<1> HIDE DEF k, J
<1>5. /\ Unlit(J) = {} /\ Leaving(J) = {} /\ Closing(J) = {} /\ Gone(J) = {J.old}
  BY <1>1 DEF Unlit, Leaving, Closing, Gone, Left, Tearing, Shifting
<1>6. /\ PortsDistinct(slots) /\ J.freed = {} /\ HasSlot(slots, J.port, J.req)
      /\ \A s \in slots : Lit(nft, s.bind, s.client, s.int)
      /\ nft.admitted \subseteq PortsOf(slots) /\ nft.accepted \subseteq PortsOf(slots)
      /\ \A x \in socks : x.port \in PortsOf(slots) /\ x.port \in statics \cup tasks
  BY <1>1, <1>2, <1>5 DEF Standing, Placed, Tearing, Lighted, Listening
<1>7. Yields => /\ \A e \in entries : /\ e.owner = e.client
                                      /\ e.bind = J.old \/ HasSlot(slots, e.bind, e)
                                      /\ e.bind = J.old => e.client = J.req.client /\ e.int = J.req.int
                /\ J.req.owner = J.req.client
  BY <1>1, <1>2, <1>5 DEF Matched, Shifting
<1>8. Yields => \A e \in entries' : e.owner = e.client /\ HasSlot(slots, e.bind, e)
  <2>1. CASE entries' = entries /\ \A e \in entries : e.bind # J.old
    BY <1>7, <2>1
  <2>2. ASSUME Yields, NEW e \in entries, e.bind = J.old,
               entries' = (entries \ {e}) \cup {[e EXCEPT !.bind = J.port]}
        PROVE  \A f \in entries' : f.owner = f.client /\ HasSlot(slots, f.bind, f)
    <3> DEFINE x == [e EXCEPT !.bind = J.port]
    <3>1. x.owner = e.owner /\ x.client = e.client /\ x.int = e.int /\ x.bind = J.port
      BY <1>1 DEF EntryType
    <3> HIDE DEF x
    <3>2. entries' = (entries \ {e}) \cup {x}
      BY <2>2 DEF x
    <3>3. x.owner = x.client /\ HasSlot(slots, x.bind, x)
      BY <1>6, <1>7, <2>2, <3>1 DEF HasSlot
    <3>4. ASSUME NEW f \in entries, f # e PROVE f.owner = f.client /\ HasSlot(slots, f.bind, f)
      <4>1. CASE f.bind = J.old
        <5>1. f.owner = e.owner /\ f.int = e.int
          BY <1>7, <2>2, <4>1
        <5> QED BY <1>1, <3>4, <5>1 DEF OnePerTuple
      <4> QED BY <1>7, <2>2, <4>1
    <3> QED BY <3>2, <3>3, <3>4
  <2> QED BY <1>4, <2>1, <2>2
<1> QED BY <1>1, <1>2, <1>3, <1>6, <1>7, <1>8, SoundSettle

(* What a yield presumes: callers that map for themselves, and no boot.    *)
Tame == scene.busy = 1 /\ "cancel" \notin scene.uses /\ Yields =>
          OwnRequests /\ "crash" \notin scene.uses

(* A boot leaves no job, and elements and sockets for the slots it has.    *)
LEMMA BootSound ==
  ASSUME TypeInv, FileInv, BootInv, Tame, NEW S \in StaticConfigs, Boot(S)
  PROVE  SoundInv'
<1> DEFINE T == RestoredSlots(S)
           kept == RestoredEntries(T)
<1>1. /\ slots' = T /\ statics' = S /\ UNCHANGED <<job, scene>> /\ ~up
      /\ PortsDistinct(T) /\ \A s \in T : Agree(nft', s.bind, s.client, s.int)
  BY BootAgrees DEF Boot
<1>2. Sane' => ~Yields'
  BY <1>1 DEF BootInv, Tame, Yields, Sane
<1>3. \A h \in Jobs : job'[h].at = "idle"
  BY <1>1 DEF FileInv
<1>4. \A p \in S : p \in PortsOf(T)
  <2>1. \A p \in S : FSlot(p, Operator, 0) \in T /\ FSlot(p, Operator, 0).bind = p
    BY DEF RestoredSlots, FSlot
  <2> QED BY <2>1 DEF PortsOf
<1>5. PICK n : nft' = GrantedAll(RulesetEnsured(n), T)
  BY DEF Boot
<1>6. PICK picked \in SUBSET {e \in kept : e.bind \notin S} :
        /\ tasks' = PortsOf(picked)
        /\ socks' = {Sock(p, Operator, 0) : p \in S} \cup {Sock(e.bind, e.client, e.int) : e \in picked}
  BY DEF Boot
<1>7. \A e \in picked : e.bind \in PortsOf(T) /\ e.bind \in tasks'
  BY <1>6 DEF RestoredEntries, PortsOf
<1>8. \A k \in socks' : k.port \in PortsOf(T) /\ k.port \in S \cup tasks'
  BY <1>4, <1>6, <1>7 DEF Sock
<1>9. /\ nft'.admitted = PortsOf(T) /\ nft'.accepted = PortsOf(T)
      /\ \A s \in T : Target(s.bind, s.client, s.int) \in nft'.dnat
  BY <1>5 DEF GrantedAll, RulesetEnsured, AcceptEmptied, InboundEmptied, TargetOf
<1> HIDE DEF T
<1>10. \A s \in T : Lit(nft', s.bind, s.client, s.int)
  BY <1>1, <1>9 DEF Lit, PortsOf
<1>11. ASSUME NEW h \in Jobs
       PROVE  /\ Standing(job'[h], slots') /\ Lighted(job'[h], nft', slots')
              /\ Listening(job[h], socks, tasks, slots)'
  <2>1. job'[h].at = "idle"
    BY <1>3
  <2>2. Unlit(job'[h]) = {} /\ Leaving(job'[h]) = {} /\ Closing(job'[h]) = {}
    BY <2>1, CalmSets DEF Calm, Resting
  <2>3. Standing(job'[h], T)
    BY <1>1, <2>1, <2>2 DEF Standing, Placed
  <2>4. Lighted(job'[h], nft', T)
    BY <1>9, <1>10, <2>1, <2>2 DEF Lighted, Moving
  <2>5. Listening(job[h], socks, tasks, slots)'
    BY <1>1, <1>8, <2>1, <2>2 DEF Listening, Placing, Moving
  <2> QED BY <1>1, <2>3, <2>4, <2>5
<1>12. OneJob'
  BY <1>3 DEF OneJob
<1> QED BY <1>2, <1>11, <1>12 DEF SoundInv

LEMMA EnvironmentSound ==
  ASSUME TypeInv, FileInv, BootInv, SoundInv, Tame, Environment
  PROVE  SoundInv'
<1>1. CASE Crash
  BY <1>1 DEF Crash, SoundInv
<1>2. ASSUME NEW S \in StaticConfigs, Boot(S) PROVE SoundInv'
  BY <1>2, BootSound
<1>3. ASSUME NEW s \in slots, Age(s) \/ Touch(s) PROVE SoundInv'
  <2>1. PICK b \in BOOLEAN : slots' = Restamped(slots, s, b)
    BY <1>3 DEF Age, Touch, Restamped
  <2>2. UNCHANGED <<job, up, scene, statics, refused, nft, socks, tasks, entries>>
    BY <1>3 DEF Age, Touch
  <2>3. /\ \A j : Standing(j, slots) => Standing(j, slots')
        /\ \A j, n : Lighted(j, n, slots) => Lighted(j, n, slots')
        /\ \A j, K, X : Listening(j, K, X, slots) => Listening(j, K, X, slots')
        /\ \A j, E : Matched(j, E, slots) => Matched(j, E, slots')
    BY <2>1, StampedKeeps DEF TypeInv, SlotsInv
  <2>4. \A h \in Jobs : Listening(job[h], socks, tasks, slots') => Listening(job[h], socks, tasks, slots)'
    BY <2>2 DEF Listening
  <2> QED BY <2>2, <2>3, <2>4 DEF SoundInv, Sane, Yields, OneJob, Turn
<1>4. ASSUME NEW k \in socks, Publish(k) \/ CloseSock(k) PROVE SoundInv'
  <2>1. UNCHANGED <<slots, job, up, scene, statics, refused, nft, tasks, entries>> /\ socks' \subseteq socks
    BY <1>4 DEF Publish, CloseSock
  <2>2. \A h \in Jobs : Listening(job[h], socks, tasks, slots) => Listening(job[h], socks, tasks, slots)'
    BY <2>1 DEF Listening
  <2> QED BY <2>1, <2>2 DEF SoundInv, Sane, Yields, OneJob, Turn
<1>5. ASSUME NEW h \in Workers, Cancel(h) PROVE SoundInv'
  BY <1>5 DEF Cancel, SoundInv, Sane
<1> QED BY <1>1, <1>2, <1>3, <1>4, <1>5 DEF Environment

(* A refusal is not taken back. *)
LEMMA StaysRefused ==
  ASSUME Start \/ \E h \in Jobs : Step(h)
  PROVE  refused => refused'
<1>1. Start => refused' = refused
  BY DEF Start, StartGrant, DeleteMapping, DeleteRange, DeleteKey, ReapAbsent, StartDelete, StartYield, Sweep
<1>2. ASSUME NEW h \in Jobs, Step(h) PROVE refused => refused'
  <2>1. GrantStep(h) => refused' = refused
    BY DEF GrantStep, UpsertRefresh, UpsertNew, UpsertRefused, EvictPick, GrantDatapath, BindSlot,
           UndoSlot, RegisterTasks, ApplyEntry
  <2>2. TeardownStep(h) => refused' = refused
    BY DEF TeardownStep, Remove, Revoke, AbortTasks, Forget, FindEntry
  <2>3. YieldStep(h) => refused' = refused \/ refused' = TRUE
    BY DEF YieldStep, MoveLease, Rebind, MoveBack, Redirect, Reregister, ReleaseOld, Reindex
  <2>4. PersistStep(h) => refused' = refused
    BY DEF PersistStep, CopyTable, WriteLeases, CopyIndex, WriteIndex
  <2> QED BY <1>2, <2>1, <2>2, <2>3, <2>4 DEF Step
<1> QED BY <1>1, <1>2

LEMMA NextSound ==
  ASSUME "bind" \notin Faults, TypeInv, StaticInv, FileInv, BootInv, SoundInv, Tame, [Next]_vars
  PROVE  SoundInv'
<1>1. CASE Environment
  BY <1>1, EnvironmentSound
<1>2. CASE UNCHANGED vars
  <2>1. \A h \in Jobs : Listening(job[h], socks, tasks, slots) => Listening(job[h], socks, tasks, slots)'
    BY <1>2 DEF vars, Listening
  <2> QED BY <1>2, <2>1 DEF vars, SoundInv, Sane, Yields, OneJob, Turn
<1>3. CASE Start \/ \E h \in Jobs : Step(h)
  <2>1. up /\ UNCHANGED <<up, scene>> /\ (refused => refused')
    BY <1>3, Running, StaysRefused
  <2>2. CASE Sane
    <3>1. ASSUME NEW h \in Jobs, Step(h) PROVE SoundInv'
      <4>1. CASE GrantStep(h)
        BY <2>2, <4>1, UpsertRefreshSound, UpsertNewSound, UpsertLeftSound, GrantDatapathSound,
           BindSlotSound, UndoSlotSound, RegisterTasksSound, ApplyEntrySound DEF GrantStep
      <4>2. CASE TeardownStep(h)
        BY <2>2, <4>2, RemoveSound, RevokeSound, AbortTasksSound, ForgetSound, FindEntrySound
           DEF TeardownStep
      <4>3. CASE YieldStep(h)
        BY <2>2, <4>3, MoveLeaseSound, RebindSound, MoveBackSound, RedirectSound, ReregisterSound,
           ReleaseOldSound, ReindexSound DEF YieldStep
      <4> QED BY <2>2, <3>1, <4>1, <4>2, <4>3, PersistSound DEF Step
    <3>2. OwnRequests
      BY <2>2 DEF Tame, Sane, OwnRequests
    <3> QED BY <1>3, <2>2, <3>1, <3>2, StartSound
  <2>3. CASE ~Sane
    <3>1. ~Sane'
      BY <2>1, <2>3 DEF Sane
    <3> QED BY <3>1 DEF SoundInv
  <2> QED BY <2>2, <2>3
<1> QED BY <1>1, <1>2, <1>3 DEF Next

LEMMA InitSound == ASSUME Init PROVE SoundInv
<1>1. \A h \in Jobs : job[h].at = "idle"
  BY DEF Init, Idling
<1>2. /\ slots = {FSlot(p, Operator, 0) : p \in statics}
      /\ socks = {Sock(p, Operator, 0) : p \in statics}
      /\ nft.admitted = statics /\ nft.accepted = statics
      /\ nft.dnat = {Target(p, Operator, 0) : p \in statics}
      /\ entries = {}
  BY DEF Init
<1>3. \A p \in statics : Lit(nft, p, Operator, 0)
  BY <1>2 DEF Lit, Agree, Target
<1>4. \A s \in slots : s.bind \in statics /\ s = FSlot(s.bind, Operator, 0)
  BY <1>2 DEF FSlot
<1>5. PortsDistinct(slots)
  BY <1>4 DEF PortsDistinct
<1>6. \A s \in slots : Lit(nft, s.bind, s.client, s.int)
  BY <1>3, <1>4 DEF FSlot
<1>7. \A p \in statics : p \in PortsOf(slots)
  <2>1. \A p \in statics : FSlot(p, Operator, 0) \in slots /\ FSlot(p, Operator, 0).bind = p
    BY <1>2 DEF FSlot
  <2> QED BY <2>1 DEF PortsOf
<1>8. \A k \in socks : k.port \in statics
  BY <1>2 DEF Sock
<1>9. ASSUME NEW h \in Jobs
      PROVE  /\ Standing(job[h], slots) /\ Lighted(job[h], nft, slots)
             /\ Listening(job[h], socks, tasks, slots) /\ Matched(job[h], entries, slots)
  <2>1. job[h].at = "idle"
    BY <1>1
  <2>2. Unlit(job[h]) = {} /\ Leaving(job[h]) = {} /\ Closing(job[h]) = {}
    BY <2>1, CalmSets DEF Calm, Resting
  <2>3. Standing(job[h], slots)
    BY <1>5, <2>1, <2>2 DEF Standing, Placed
  <2>4. Lighted(job[h], nft, slots)
    BY <1>2, <1>6, <1>7, <2>1, <2>2 DEF Lighted, Moving
  <2>5. Listening(job[h], socks, tasks, slots)
    BY <1>7, <1>8, <2>1, <2>2 DEF Listening, Placing, Moving
  <2>6. Matched(job[h], entries, slots)
    BY <1>2, <2>1 DEF Matched, Placing, Shifting, Tearing
  <2> QED BY <2>3, <2>4, <2>5, <2>6
<1> QED BY <1>1, <1>9 DEF SoundInv, OneJob

(* While handlers do not overlap, the kernel translates and admits exactly *)
(* the slots' ports, each to its own target, whenever nothing is under way *)
(* and no yield's batch was refused: after every grant that nft refused,   *)
(* every eviction, deletion, sweep, yield (also one moved back) and boot   *)
(* (grant_mapping, delete_mapping, gc, yield_port of upnpsvc.rs, with      *)
(* grant_datapath and revoke_datapath).  A bind that fails by itself, or   *)
(* because an aborted task still holds the port, leaves the set and the    *)
(* map behind; a yield revokes another's elements when its entry is on     *)
(* another's slot, as a boot and a mapping for a third party may have it.  *)
THEOREM DatapathFollowsSlots ==
  ASSUME \A S, T \in StaticConfigs : S = T,
         "bind" \notin Faults,
         \A s \in Scenarios : s.busy = 1 /\ "cancel" \notin s.uses =>
           /\ "linger" \notin s.uses
           /\ "yield" \in s.uses => /\ "crash" \notin s.uses
                                    /\ \A r \in s.requests : r.owner = r.client
  PROVE  Spec => []DatapathMatchesSlots
<1>1. TypeInv => Tame
  BY DEF TypeInv, RestInv, Tame, Yields, OwnRequests
<1>2. ASSUME TypeInv, SoundInv PROVE DatapathMatchesSlots
  <2> SUFFICES ASSUME Quiet, scene.busy = 1, "cancel" \notin scene.uses, ~refused
               PROVE  Translated = {TargetOf(s) : s \in slots} /\ nft.accepted = PortsOf(slots)
    BY DEF DatapathMatchesSlots
  <2>1. up /\ Sane
    BY <1>2 DEF TypeInv, RestInv, Quiet, Sane
  <2>2. \A h \in Jobs : job[h].at = "idle"
    BY DEF Quiet, Busy
  <2>3. Standing(job[Collector], slots) /\ Lighted(job[Collector], nft, slots)
    BY <1>2, <2>1, <2>2 DEF SoundInv, Turn, Jobs
  <2>4. Unlit(job[Collector]) = {} /\ Leaving(job[Collector]) = {}
    BY <2>2, CalmSets DEF Calm, Resting, Jobs
  <2>5. /\ \A s \in slots : Lit(nft, s.bind, s.client, s.int)
        /\ \A p \in nft.admitted \cup nft.accepted : p \in PortsOf(slots)
    BY <2>3, <2>4 DEF Lighted
  <2>6. nft.accepted = PortsOf(slots)
    BY <2>5 DEF Lit, PortsOf
  <2>7. ASSUME NEW s \in slots PROVE TargetOf(s) \in Translated
    <3>1. TargetOf(s).port = s.bind
      BY DEF TargetOf, Target
    <3> QED BY <2>5, <3>1 DEF Lit, TargetOf, Translated
  <2>8. ASSUME NEW d \in Translated PROVE \E s \in slots : d = TargetOf(s)
    <3>1. d \in nft.dnat /\ d.port \in PortsOf(slots)
      BY <2>5 DEF Translated
    <3>2. PICK s \in slots : s.bind = d.port
      BY <3>1 DEF PortsOf
    <3> QED BY <2>5, <3>1, <3>2 DEF Lit, Agree, TargetOf
  <2> QED BY <2>6, <2>7, <2>8
<1>3. TypeInv /\ StaticInv /\ FileInv /\ BootInv /\ SoundInv /\ [Next]_vars => SoundInv'
  BY <1>1, NextSound
<1>4. Init => SoundInv
  BY InitSound
<1> QED BY <1>2, <1>3, <1>4, RecoveryKept, Typed, FilesKept, PTL DEF Spec

-----------------------------------------------------------------------------
(* Clients apart.  Any number of handlers overlap, but those of one client *)
(* do not; no step is an eviction, a sweep, a yield, a timeout or a crash, *)
(* and a client asks for one label per internal port.                      *)
Alongside == {"grant", "delete", "range", "pcp", "persist", "publish", "linger"}
OneLabelEach(R) == /\ \A r \in R : r.owner = r.client /\ r.ext # 0
                   /\ \A q, r \in R : q.owner = r.owner /\ q.int = r.int => q.ext = r.ext
ClientsApart ==
  /\ \A g, h \in Workers : g # h => Serves[g] \cap Serves[h] = {}
  /\ \A s \in Scenarios : s.uses \subseteq Alongside /\ OneLabelEach(s.requests)

(* The holders whose slots are the job's to change; the collector, which   *)
(* has nothing to do here, has the statics.                                *)
Ours(h) == IF h = Collector THEN {Operator} ELSE Serves[h] \cap Clients

Registering == Placing \cup {"register"}
Indexing == Registering \cup {"entry"}
Deleting(j) == j.kind = "delete" /\ j.at \in Tearing \cup {"remove"}

(* The ports whose slot has no socket, task or entry yet (or no more), and *)
(* those whose slot has gone and whose entry or socket has not.            *)
Deaf(j) == IF j.at \in Placing THEN {j.port} ELSE {}
Untasked(j) == IF j.at \in Registering THEN {j.port} ELSE {}
Unindexed(j) == IF j.at \in Indexing THEN {j.port}
                ELSE IF j.at = "remove" /\ j.kind = "stray" THEN {j.old} ELSE {}
Dangling(j) == IF j.at \in Tearing /\ j.kind = "delete" THEN {j.old} ELSE {}
Open(j) == IF j.at \in {"revoke", "abort"} THEN {j.old} ELSE {}

SameLabel(e, r) == e.ext = r.ext /\ e.owner = r.owner
HasEntry(E, s) == \E e \in E : e.bind = s.bind /\ e.owner = s.client /\ e.int = s.int
Asked(R, r) == \E q \in R : SameLabel(q, r) /\ q.client = r.client /\ q.int = r.int

(* What the job does is for its own clients. *)
Task(R, C, j) ==
  /\ j.at \in {"idle", "upsert", "pick", "find"} \cup Indexing \cup {"remove"} \cup Tearing
              \cup {"snapshot", "leases", "copyindex", "index"}
  /\ j.at # "idle" => /\ j.freed = {} /\ j.kind \in {"grant", "stray", "delete"}
                      /\ \A l \in j.todo : l.owner \in C
  /\ j.at \in {"upsert", "pick"} \cup Indexing => j.kind = "grant"
  /\ j.at \in {"find", "forget"} => j.kind = "delete"
  /\ j.at \in {"remove", "revoke", "abort"} => j.kind # "grant"
  /\ j.at \in {"upsert", "pick", "remove"} \cup Indexing \cup Tearing => Asked(R, j.req) /\ j.req.owner \in C

(* Its clients' slots ... *)
Tabled(C, j, T, E, K, X) ==
  /\ \A s \in T : s.client \in C =>
       /\ s.bind \in Deaf(j) \/ Sock(s.bind, s.client, s.int) \in K
       /\ ~IsStatic(s) => /\ s.bind \in Untasked(j) \cup X
                          /\ s.bind \in Unindexed(j) \/ HasEntry(E, s)
  /\ \A s, t \in T : s.client \in C /\ ~IsStatic(s) /\ s.client = t.client /\ s.int = t.int => s = t
  /\ j.at \in Indexing => HasSlot(T, j.port, j.req)
  /\ j.at = "remove" => \E s \in T : s.bind = j.old /\ s.client = j.req.client
                                       /\ (j.kind = "delete" => s.int = j.req.int)
  /\ j.at \in Tearing => \A s \in T : s.client \in C => s.bind # j.old

(* ... their entries ... *)
Listed(R, C, j, T, E) ==
  /\ \A e \in E : e.owner \in C => Asked(R, e) /\ (e.bind \in Dangling(j) \/ HasSlot(T, e.bind, e))
  /\ \A e, f \in E : e.owner \in C /\ SameLabel(e, f) => e = f
  /\ j.at \in Registering => \A e \in E : ~SameTuple(e, j.req)
  /\ \A e \in E : e.owner \in C => /\ j.at = "remove" /\ j.kind = "stray" => e.bind # j.old
                                   /\ Deleting(j) => (e.bind = j.old <=> SameLabel(e, j.req))

(* ... and their sockets. *)
Served(C, j, T, K, X) ==
  /\ \A k \in K : k.client \in C /\ ~k.dying =>
       /\ k.port \notin Deaf(j)
       /\ k.port \in Open(j) \/ \E s \in T : s.bind = k.port /\ s.client = k.client /\ s.int = k.int
  /\ j.at \in {"revoke", "abort"} =>
       j.old \in X /\ \E k \in K : k.port = j.old /\ k.client \in C /\ ~k.dying

Own(R, C, j, T, E, K, X) ==
  Task(R, C, j) /\ Tabled(C, j, T, E, K, X) /\ Listed(R, C, j, T, E) /\ Served(C, j, T, K, X)

OnePerPort(K) == \A k, l \in K : k.port = l.port => k = l
Someones(c) == \E h \in Jobs : c \in Ours(h)
Shared(T, E, K, X) ==
  /\ PortsDistinct(T) /\ OnePerPort(K)
  /\ \A s \in T : ~s.stale /\ Someones(s.client)
  /\ \A e \in E : Someones(e.owner)
  /\ \A k \in K : Someones(k.client)
  /\ \A p \in X : \E k \in K : k.port = p /\ ~k.dying /\ k.client # Operator
ApartInv ==
  /\ up /\ job[Collector].at = "idle" /\ Shared(slots, entries, socks, tasks)
  /\ \A h \in Jobs : Own(scene.requests, Ours(h), job[h], slots, entries, socks, tasks)

LEMMA AskedIs ==
  ASSUME NEW R, OneLabelEach(R)
  PROVE  /\ \A r : Asked(R, r) => r.owner = r.client /\ r.ext # 0
         /\ \A q, r : Asked(R, q) /\ Asked(R, r) /\ SameTuple(q, r) => q.ext = r.ext
BY DEF OneLabelEach, Asked, SameLabel, SameTuple

(* A step that only touches what the holders of D have.                    *)
Confined(D, T, U, E, F, K, L, X, Y) ==
  /\ \A s \in T \cup U : s.client \notin D => s \in T /\ s \in U
  /\ \A e \in E \cup F : e.owner \notin D => e \in E /\ e \in F
  /\ \A k \in K \cup L : k.client \notin D /\ ~k.dying => k \in K /\ k \in L
  /\ \A p \in X : p \in Y \/ \E k \in K : k.port = p /\ k.client \in D /\ ~k.dying

LEMMA OthersKeep ==
  ASSUME NEW R, OneLabelEach(R), NEW C, NEW D, C \cap D = {}, NEW j,
         NEW T, NEW U, NEW E, NEW F, NEW K, NEW L, NEW X, NEW Y,
         OnePerPort(K), Confined(D, T, U, E, F, K, L, X, Y), Own(R, C, j, T, E, K, X)
  PROVE  Own(R, C, j, U, F, L, Y)
<1>1. \A s \in T \cup U : s.client \in C => s \in T /\ s \in U
  BY DEF Confined
<1>2. \A e \in E \cup F : e.owner \in C => e \in E /\ e \in F
  BY DEF Confined
<1>3. \A k \in K \cup L : k.client \in C /\ ~k.dying => k \in K /\ k \in L
  BY DEF Confined
<1>4. Task(R, C, j) /\ Tabled(C, j, T, E, K, X) /\ Listed(R, C, j, T, E) /\ Served(C, j, T, K, X)
  BY DEF Own
<1>5. \A r : Asked(R, r) => r.owner = r.client
  BY AskedIs
<1>6. \A p, r : r.client \in C /\ HasSlot(T, p, r) => HasSlot(U, p, r)
  BY <1>1 DEF HasSlot
<1>7. \A p, c, i : Sock(p, c, i).client = c /\ Sock(p, c, i).port = p /\ ~Sock(p, c, i).dying
  BY DEF Sock
<1>8. ASSUME NEW s \in U, s.client \in C
      PROVE  s.bind \in Deaf(j) \/ Sock(s.bind, s.client, s.int) \in L
  BY <1>1, <1>3, <1>4, <1>7, <1>8 DEF Tabled
<1>9. ASSUME NEW s \in U, s.client \in C, ~IsStatic(s)
      PROVE  s.bind \in Untasked(j) \cup Y
  <2>1. s \in T
    BY <1>1, <1>9
  <2>2. s.bind \in Untasked(j) \cup X
    BY <1>4, <1>9, <2>1 DEF Tabled
  <2>3. s.bind \in Deaf(j) => s.bind \in Untasked(j)
    BY DEF Deaf, Untasked, Registering
  <2>4. ASSUME Sock(s.bind, s.client, s.int) \in K, NEW k \in K, k.port = s.bind, k.client \in D PROVE FALSE
    BY <1>7, <1>9, <2>4 DEF OnePerPort
  <2>5. s.bind \in Deaf(j) \/ Sock(s.bind, s.client, s.int) \in K
    BY <1>4, <1>9, <2>1 DEF Tabled
  <2> QED BY <2>2, <2>3, <2>4, <2>5 DEF Confined
<1>10. ASSUME NEW s \in U, s.client \in C, ~IsStatic(s)
       PROVE  s.bind \in Unindexed(j) \/ HasEntry(F, s)
  BY <1>1, <1>2, <1>4, <1>10 DEF Tabled, HasEntry
<1>11. ASSUME j.at \in Indexing PROVE HasSlot(U, j.port, j.req)
  <2>1. HasSlot(T, j.port, j.req) /\ Asked(R, j.req) /\ j.req.owner \in C
    BY <1>4, <1>11 DEF Tabled, Task
  <2> QED BY <1>5, <1>6, <2>1
<1>12. ASSUME j.at = "remove"
       PROVE  \E s \in U : /\ s.bind = j.old /\ s.client = j.req.client
                           /\ j.kind = "delete" => s.int = j.req.int
  <2>1. Asked(R, j.req) /\ j.req.owner \in C
    BY <1>4, <1>12 DEF Task
  <2>2. j.req.client \in C
    BY <1>5, <2>1
  <2> QED BY <1>1, <1>4, <1>12, <2>2 DEF Tabled
<1>13. /\ \A s, t \in U : s.client \in C /\ ~IsStatic(s) /\ s.client = t.client /\ s.int = t.int => s = t
       /\ j.at \in Tearing => \A s \in U : s.client \in C => s.bind # j.old
  BY <1>1, <1>4 DEF Tabled
<1>14. Tabled(C, j, U, F, L, Y)
  BY <1>8, <1>9, <1>10, <1>11, <1>12, <1>13 DEF Tabled
<1>15. \A e \in F : e.owner \in C => Asked(R, e) /\ (e.bind \in Dangling(j) \/ HasSlot(U, e.bind, e))
  BY <1>2, <1>4, <1>5, <1>6 DEF Listed
<1>16. Listed(R, C, j, U, F)
  <2>1. \A e, f \in F : e.owner \in C /\ SameLabel(e, f) => e = f
    BY <1>2, <1>4 DEF Listed, SameLabel
  <2>2. ASSUME j.at \in Registering, NEW e \in F PROVE ~SameTuple(e, j.req)
    <3>1. j.req.owner \in C
      BY <1>4, <2>2 DEF Task, Indexing
    <3> QED BY <1>2, <1>4, <2>2, <3>1 DEF Listed, SameTuple
  <2>3. ASSUME NEW e \in F, e.owner \in C
        PROVE  /\ j.at = "remove" /\ j.kind = "stray" => e.bind # j.old
               /\ Deleting(j) => (e.bind = j.old <=> SameLabel(e, j.req))
    BY <1>2, <1>4, <2>3 DEF Listed
  <2> QED BY <1>15, <2>1, <2>2, <2>3 DEF Listed
<1>17. ASSUME NEW k \in L, k.client \in C, ~k.dying
       PROVE  /\ k.port \notin Deaf(j)
              /\ k.port \in Open(j) \/ \E s \in U : s.bind = k.port /\ s.client = k.client /\ s.int = k.int
  BY <1>1, <1>3, <1>4, <1>17 DEF Served
<1>18. ASSUME j.at \in {"revoke", "abort"}
       PROVE  j.old \in Y /\ \E k \in L : k.port = j.old /\ k.client \in C /\ ~k.dying
  <2>1. PICK k \in K : k.port = j.old /\ k.client \in C /\ ~k.dying
    BY <1>4, <1>18 DEF Served
  <2>2. k \in L /\ j.old \in X
    BY <1>3, <1>4, <1>18, <2>1 DEF Served
  <2>3. ASSUME NEW l \in K, l.port = j.old, l.client \in D PROVE FALSE
    BY <2>1, <2>3 DEF OnePerPort
  <2> QED BY <2>1, <2>2, <2>3 DEF Confined
<1>19. Served(C, j, U, L, Y)
  BY <1>17, <1>18 DEF Served
<1> QED BY <1>4, <1>14, <1>16, <1>19 DEF Own

LEMMA OursApart ==
  ASSUME ClientsApart, NEW g \in Jobs, NEW h \in Jobs, g # h
  PROVE  Ours(g) \cap Ours(h) = {}
BY OperatorAssumption, CollectorAssumption DEF ClientsApart, Ours, Jobs

LEMMA ProperRequests ==
  ASSUME ClientsApart, TypeInv
  PROVE  OneLabelEach(scene.requests) /\ scene.uses \subseteq Alongside
BY DEF ClientsApart, TypeInv, RestInv

(* The job goes on to j, within what is its own.                           *)
LEMMA ApartMove ==
  ASSUME ClientsApart, TypeInv, ApartInv, NEW h \in Workers, NEW j, Do(h, j), UNCHANGED <<up, scene>>,
         Shared(slots', entries', socks', tasks'),
         Confined(Ours(h), slots, slots', entries, entries', socks, socks', tasks, tasks'),
         Own(scene.requests, Ours(h), j, slots', entries', socks', tasks')
  PROVE  ApartInv'
<1> h \in Jobs /\ Collector \in Jobs /\ h # Collector
  BY CollectorAssumption DEF Jobs
<1>1. \A g \in Jobs : job'[g] = IF g = h THEN j ELSE job[g]
  BY DEF TypeInv, JobInv, Do
<1>2. ASSUME NEW g \in Jobs, g # h
      PROVE  Own(scene.requests, Ours(g), job[g], slots', entries', socks', tasks')
  <2>1. Own(scene.requests, Ours(g), job[g], slots, entries, socks, tasks) /\ OnePerPort(socks)
    BY <1>2 DEF ApartInv, Shared
  <2>2. Ours(g) \cap Ours(h) = {} /\ OneLabelEach(scene.requests)
    BY <1>2, OursApart, ProperRequests
  <2> QED BY <2>1, <2>2, OthersKeep
<1>3. \A g \in Jobs : Own(scene.requests, Ours(g), job'[g], slots', entries', socks', tasks')
  BY <1>1, <1>2
<1>4. job'[Collector].at = "idle"
  BY <1>1 DEF ApartInv
<1> QED BY <1>3, <1>4 DEF ApartInv

LEMMA ConfinedSelf == ASSUME NEW D, NEW T, NEW E, NEW K, NEW X PROVE Confined(D, T, T, E, E, K, K, X, X)
BY DEF Confined

(* A step of the job that changes none of them. *)
LEMMA ApartGo ==
  ASSUME ClientsApart, TypeInv, ApartInv, NEW h \in Workers, NEW j, Do(h, j),
         UNCHANGED <<up, scene, slots, entries, socks, tasks>>,
         Own(scene.requests, Ours(h), j, slots, entries, socks, tasks)
  PROVE  ApartInv'
<1>1. Confined(Ours(h), slots, slots', entries, entries', socks, socks', tasks, tasks')
  BY ConfinedSelf
<1>2. Shared(slots', entries', socks', tasks')
  BY DEF ApartInv
<1> QED BY <1>1, <1>2, ApartMove

(* At rest nothing is missing and nothing is left over. *)
Whole(R, C, T, E, K, X) ==
  /\ \A s \in T : s.client \in C =>
       /\ Sock(s.bind, s.client, s.int) \in K
       /\ ~IsStatic(s) => s.bind \in X /\ HasEntry(E, s)
  /\ \A s, t \in T : s.client \in C /\ ~IsStatic(s) /\ s.client = t.client /\ s.int = t.int => s = t
  /\ \A e \in E : e.owner \in C => Asked(R, e) /\ HasSlot(T, e.bind, e)
  /\ \A e, f \in E : e.owner \in C /\ SameLabel(e, f) => e = f
  /\ \A k \in K : k.client \in C /\ ~k.dying =>
       \E s \in T : s.bind = k.port /\ s.client = k.client /\ s.int = k.int

LEMMA WholeOwn ==
  ASSUME NEW R, NEW C, NEW j, j.at \in Resting, NEW T, NEW E, NEW K, NEW X
  PROVE  Own(R, C, j, T, E, K, X) <=> Task(R, C, j) /\ Whole(R, C, T, E, K, X)
<1>1. /\ Deaf(j) = {} /\ Untasked(j) = {} /\ Unindexed(j) = {} /\ Dangling(j) = {} /\ Open(j) = {}
      /\ ~Deleting(j) /\ j.at \notin Indexing /\ j.at \notin Registering /\ j.at # "remove"
      /\ j.at \notin Tearing /\ j.at \notin {"revoke", "abort"}
  BY DEF Resting, Deaf, Untasked, Unindexed, Dangling, Open, Deleting, Placing, Registering, Indexing, Tearing
<1>2. Tabled(C, j, T, E, K, X) <=>
        /\ \A s \in T : s.client \in C =>
             /\ Sock(s.bind, s.client, s.int) \in K
             /\ ~IsStatic(s) => s.bind \in X /\ HasEntry(E, s)
        /\ \A s, t \in T : s.client \in C /\ ~IsStatic(s) /\ s.client = t.client /\ s.int = t.int => s = t
  BY <1>1 DEF Tabled
<1>3. Listed(R, C, j, T, E) <=>
        /\ \A e \in E : e.owner \in C => Asked(R, e) /\ HasSlot(T, e.bind, e)
        /\ \A e, f \in E : e.owner \in C /\ SameLabel(e, f) => e = f
  BY <1>1 DEF Listed
<1>4. Served(C, j, T, K, X) <=>
        \A k \in K : k.client \in C /\ ~k.dying =>
          \E s \in T : s.bind = k.port /\ s.client = k.client /\ s.int = k.int
  BY <1>1 DEF Served
<1> QED BY <1>2, <1>3, <1>4 DEF Own, Whole

(* What a job at work knows. *)
LEMMA ApartWork ==
  ASSUME ClientsApart, TypeInv, ApartInv, NEW h \in Jobs, job[h].at # "idle"
  PROVE  /\ h \in Workers /\ job[h] \in JobShape /\ Carries(job[h])
         /\ Task(scene.requests, Ours(h), job[h])
         /\ Tabled(Ours(h), job[h], slots, entries, socks, tasks)
         /\ Listed(scene.requests, Ours(h), job[h], slots, entries)
         /\ Served(Ours(h), job[h], slots, socks, tasks)
         /\ Ours(h) \subseteq Clients /\ \A c \in Ours(h) : c # Operator /\ Someones(c)
         /\ OneLabelEach(scene.requests) /\ Shared(slots, entries, socks, tasks)
<1>1. h \in Workers /\ h # Collector
  BY CollectorAssumption DEF ApartInv, Jobs
<1>2. Ours(h) \subseteq Clients /\ \A c \in Ours(h) : c # Operator /\ Someones(c)
  BY <1>1, OperatorAssumption DEF Ours, Someones
<1>3. job[h] \in JobShape /\ Carries(job[h])
  BY JobParts DEF TypeInv
<1>4. Own(scene.requests, Ours(h), job[h], slots, entries, socks, tasks) /\ Shared(slots, entries, socks, tasks)
  BY DEF ApartInv
<1> QED BY <1>1, <1>2, <1>3, <1>4, ProperRequests DEF Own

(* The resting job goes on to another stage of rest. *)
LEMMA ApartRest ==
  ASSUME ClientsApart, TypeInv, ApartInv, NEW h \in Workers, job[h].at \in Resting,
         NEW j, Do(h, j), j.at \in Resting, Task(scene.requests, Ours(h), j),
         UNCHANGED <<up, scene, slots, entries, socks, tasks>>
  PROVE  ApartInv'
<1>1. Own(scene.requests, Ours(h), job[h], slots, entries, socks, tasks)
  BY DEF ApartInv, Jobs
<1>2. Own(scene.requests, Ours(h), j, slots, entries, socks, tasks)
  BY <1>1, WholeOwn
<1> QED BY <1>2, ApartGo

(* What follows a save, and what a save is skipped for. *)
LEMMA SavedTask ==
  ASSUME NEW R, NEW C, NEW j \in JobShape, j.kind \in {"grant", "stray", "delete"}, j.freed = {},
         \A l \in j.todo : l.owner \in C, NEW k \in {Save(j), AfterSave(j)}
  PROVE  k.at \in Resting /\ Task(R, C, k)
<1>1. CASE k = Idling
  BY <1>1 DEF Idling, Task, Resting, Indexing, Registering, Placing, Tearing
<1>2. ASSUME NEW l \in {"snapshot", "find"}, k = [j EXCEPT !.at = l], l = "find" => j.kind = "delete"
      PROVE  k.at \in Resting /\ Task(R, C, k)
  <2>1. k.at = l /\ k.freed = {} /\ k.kind = j.kind /\ k.todo = j.todo
    BY <1>2 DEF JobShape
  <2> QED BY <1>2, <2>1 DEF Task, Resting, Indexing, Registering, Placing, Tearing
<1> QED BY <1>1, <1>2 DEF Save, AfterSave

LEMMA PersistApart ==
  ASSUME ClientsApart, TypeInv, ApartInv, NEW h \in Jobs, PersistStep(h)
  PROVE  ApartInv'
<1> DEFINE J == job[h]
           R == scene.requests
           C == Ours(h)
<1>1. /\ J.at \in {"snapshot", "leases", "copyindex", "index"}
      /\ UNCHANGED <<up, scene, slots, entries, socks, tasks>>
  BY DEF PersistStep, CopyTable, WriteLeases, CopyIndex, WriteIndex, At
<1>2. h \in Workers /\ J \in JobShape /\ Task(R, C, J)
  BY <1>1, ApartWork
<1>3. /\ J.at \in Resting /\ J.freed = {} /\ J.kind \in {"grant", "stray", "delete"}
      /\ \A l \in J.todo : l.owner \in C
  BY <1>1, <1>2 DEF Resting, Task
<1>4. ASSUME NEW k, Do(h, k), k.at \in Resting, Task(R, C, k) PROVE ApartInv'
  BY <1>1, <1>2, <1>3, <1>4, ApartRest
<1>5. ASSUME NEW l \in {"leases", "copyindex", "index"}, NEW S, Do(h, [J EXCEPT !.at = l, !.rows = S])
      PROVE  ApartInv'
  <2> DEFINE k == [J EXCEPT !.at = l, !.rows = S]
  <2>1. Do(h, k) /\ k.at = l /\ k.freed = J.freed /\ k.kind = J.kind /\ k.todo = J.todo
    BY <1>2, <1>5 DEF JobShape
  <2> HIDE DEF k, J, R, C
  <2>2. k.at \in Resting /\ Task(R, C, k)
    BY <1>3, <2>1 DEF Resting, Task, Indexing, Registering, Placing, Tearing
  <2> QED BY <1>4, <2>1, <2>2
<1>6. CASE WriteIndex(h)
  <2> DEFINE rest == [J EXCEPT !.rows = {}]
  <2>1. rest \in JobShape /\ rest.freed = J.freed /\ rest.kind = J.kind /\ rest.todo = J.todo
    BY <1>2 DEF JobShape
  <2>2. Do(h, AfterSave(rest))
    BY <1>6 DEF WriteIndex
  <2> HIDE DEF rest, J, R, C
  <2> QED BY <1>3, <1>4, <2>1, <2>2, SavedTask
<1>7. CASE CopyTable(h) \/ WriteLeases(h) \/ CopyIndex(h)
  BY <1>5, <1>7 DEF CopyTable, WriteLeases, CopyIndex
<1> QED BY <1>6, <1>7 DEF PersistStep

LEMMA StartApart == ASSUME ClientsApart, TypeInv, ApartInv, Start PROVE ApartInv'
<1> DEFINE R == scene.requests
<1>1. scene.uses \subseteq Alongside /\ scene \in Scenarios
  BY ProperRequests DEF TypeInv, RestInv
<1>2. ASSUME NEW h \in Workers, NEW use, MayStart(h, use), NEW k, Do(h, k), k.at \in {"upsert", "find"},
             Task(R, Ours(h), k), UNCHANGED <<up, scene, slots, entries, socks, tasks>>
      PROVE  ApartInv'
  BY <1>2, ApartRest DEF MayStart, At, Resting
<1>3. ASSUME NEW h \in Workers, NEW r \in R, StartGrant(h, r) PROVE ApartInv'
  <2> DEFINE k == [Idling EXCEPT !.at = "upsert", !.kind = "grant", !.req = r]
  <2>1. k.at = "upsert" /\ k.kind = "grant" /\ k.freed = {} /\ k.req = r /\ k.todo = {}
    BY DEF Idling
  <2>2. /\ MayStart(h, "grant") /\ Do(h, k) /\ UNCHANGED <<up, scene, slots, entries, socks, tasks>>
    BY <1>3 DEF StartGrant
  <2>3. r.owner \in Clients
    BY <1>1, RequestsAssumption
  <2>4. r.owner \in Ours(h)
    BY <1>3, <2>3, CollectorAssumption DEF StartGrant, Ours
  <2>5. Asked(R, r)
    BY DEF Asked, SameLabel
  <2> HIDE DEF k, R
  <2>6. Task(R, Ours(h), k)
    BY <2>1, <2>4, <2>5 DEF Task, Indexing, Registering, Placing, Tearing
  <2> QED BY <1>2, <2>1, <2>2, <2>6
<1>4. ASSUME NEW h \in Workers, NEW use, NEW labels, \A l \in labels : l.owner \in Ours(h),
             StartDelete(h, use, labels)
      PROVE  ApartInv'
  <2> DEFINE k == [Idling EXCEPT !.at = "find", !.kind = "delete", !.todo = labels]
  <2>1. k.at = "find" /\ k.kind = "delete" /\ k.freed = {} /\ k.todo = labels
    BY DEF Idling
  <2>2. /\ MayStart(h, use) /\ Do(h, k) /\ UNCHANGED <<up, scene, slots, entries, socks, tasks>>
    BY <1>4 DEF StartDelete
  <2> HIDE DEF k, R
  <2>3. Task(R, Ours(h), k)
    BY <1>4, <2>1 DEF Task, Indexing, Registering, Placing, Tearing
  <2> QED BY <1>2, <2>1, <2>2, <2>3
<1>5. \A h \in Workers, c \in Clients : c \in Serves[h] => c \in Ours(h)
  BY CollectorAssumption DEF Ours
<1>6. \A r \in R : r.owner \in Clients
  BY <1>1, RequestsAssumption
<1>7. ASSUME NEW h \in Workers, NEW r \in R, DeleteMapping(h, [ext |-> r.ext, owner |-> r.owner])
      PROVE  ApartInv'
  BY <1>4, <1>5, <1>6, <1>7 DEF DeleteMapping
<1>8. ASSUME NEW h \in Workers, NEW c \in Clients, DeleteRange(h, c) PROVE ApartInv'
  <2>1. \A l \in {Label(e) : e \in {x \in entries : x.owner = c}} : l.owner = c
    BY DEF Label
  <2> QED BY <1>4, <1>5, <1>8, <2>1 DEF DeleteRange
<1>9. ASSUME NEW h \in Workers, NEW c \in Clients, NEW i \in IntPorts, DeleteKey(h, c, i) PROVE ApartInv'
  <2>1. PICK e \in entries : e.owner = c /\ StartDelete(h, "pcp", {Label(e)})
    BY <1>9 DEF DeleteKey
  <2>2. \A l \in {Label(e)} : l.owner = c
    BY <2>1 DEF Label
  <2> QED BY <1>4, <1>5, <1>9, <2>1, <2>2 DEF DeleteKey
<1>10. \A h \in Jobs : ~MayStart(h, "reap") /\ ~MayStart(h, "yield") /\ ~MayStart(h, "sweep")
  BY <1>1 DEF Alongside, MayStart
<1>11. ~(\E gone \in SUBSET Clients : ReapAbsent(gone)) /\ ~(\E p \in Ports : StartYield(p)) /\ ~Sweep
  BY <1>10 DEF ReapAbsent, StartDelete, StartYield, Sweep, Jobs
<1> QED BY <1>3, <1>7, <1>8, <1>9, <1>11 DEF Start

LEMMA EnvironmentApart == ASSUME ClientsApart, TypeInv, ApartInv, Environment PROVE ApartInv'
<1>1. scene.uses \subseteq Alongside
  BY ProperRequests
<1>2. ~Crash /\ (\A s : ~Age(s) /\ ~Touch(s)) /\ (\A h : ~Cancel(h)) /\ (\A S : ~Boot(S))
  BY <1>1 DEF ApartInv, Alongside, Crash, Age, Touch, Cancel, Boot
<1>3. PICK k \in socks : Publish(k) \/ CloseSock(k)
  BY <1>2 DEF Environment
<1>4. UNCHANGED <<slots, entries, tasks, job, up, scene>> /\ (socks' = socks \/ (k.dying /\ socks' = socks \ {k}))
  BY <1>3 DEF Publish, CloseSock
<1>5. Confined({}, slots, slots', entries, entries', socks, socks', tasks, tasks')
  BY <1>4 DEF Confined
<1>6. ASSUME NEW h \in Jobs PROVE Own(scene.requests, Ours(h), job[h], slots', entries', socks', tasks')
  BY <1>5, OthersKeep, ProperRequests DEF ApartInv, Shared
<1>7. Shared(slots', entries', socks', tasks')
  BY <1>4 DEF ApartInv, Shared, OnePerPort
<1> QED BY <1>4, <1>6, <1>7 DEF ApartInv

LEMMA UpsertRefreshApart ==
  ASSUME ClientsApart, TypeInv, ApartInv, NEW h \in Jobs, UpsertRefresh(h)
  PROVE  ApartInv'
<1> DEFINE J == job[h]
           R == scene.requests
           C == Ours(h)
<1>1. J.at = "upsert" /\ UNCHANGED <<up, scene, entries, socks, tasks>> /\ slots \subseteq SlotType
  BY DEF UpsertRefresh, At, TypeInv, SlotsInv
<1>2. /\ h \in Workers /\ J \in JobShape /\ Task(R, C, J) /\ Shared(slots, entries, socks, tasks)
      /\ \A s \in slots : ~s.stale
  BY <1>1, ApartWork DEF Shared
<1>3. PICK s \in slots : /\ Holds(s, J.req.client, J.req.int)
                         /\ slots' = (slots \ {s}) \cup {[s EXCEPT !.stale = FALSE]}
                         /\ Do(h, [J EXCEPT !.at = "entry", !.port = s.bind])
  BY DEF UpsertRefresh
<1>4. UNCHANGED slots
  <2>1. s \in SlotType /\ s.stale = FALSE
    BY <1>1, <1>2 DEF SlotType
  <2>2. [s EXCEPT !.stale = FALSE] = s
    BY <2>1 DEF SlotType
  <2> QED BY <1>3, <2>2
<1> DEFINE k == [J EXCEPT !.at = "entry", !.port = s.bind]
<1>5. /\ k.at = "entry" /\ k.port = s.bind /\ k.kind = J.kind /\ k.req = J.req /\ k.freed = J.freed
      /\ k.todo = J.todo /\ Do(h, k)
  BY <1>2, <1>3 DEF JobShape
<1>6. Whole(R, C, slots, entries, socks, tasks)
  BY <1>1, <1>2, WholeOwn DEF ApartInv, Resting
<1> HIDE DEF k, J, R, C
<1>7. Unindexed(k) = {s.bind} /\ Deaf(k) = {} /\ Untasked(k) = {} /\ Dangling(k) = {} /\ Open(k) = {}
  BY <1>5 DEF Unindexed, Deaf, Untasked, Dangling, Open, Indexing, Registering, Placing, Tearing
<1>8. /\ k.at \notin Registering /\ k.at # "remove" /\ k.at \notin Tearing /\ ~Deleting(k)
      /\ k.at \in Indexing /\ k.at \notin {"revoke", "abort"}
  BY <1>5 DEF Indexing, Registering, Placing, Tearing, Deleting
<1>9. Task(R, C, k)
  BY <1>1, <1>2, <1>5 DEF Task, Indexing, Registering, Placing, Tearing
<1>10. HasSlot(slots, k.port, k.req)
  BY <1>3, <1>5 DEF HasSlot, Holds
<1>11. Tabled(C, k, slots, entries, socks, tasks)
  BY <1>6, <1>7, <1>8, <1>10 DEF Tabled, Whole
<1>12. Listed(R, C, k, slots, entries)
  BY <1>6, <1>7, <1>8 DEF Listed, Whole
<1>13. Served(C, k, slots, socks, tasks)
  BY <1>6, <1>7, <1>8 DEF Served, Whole
<1> QED BY <1>1, <1>2, <1>4, <1>5, <1>9, <1>11, <1>12, <1>13, ApartGo DEF Own, R, C

LEMMA UpsertNewApart ==
  ASSUME ClientsApart, TypeInv, ApartInv, NEW h \in Jobs, UpsertNew(h)
  PROVE  ApartInv'
<1> DEFINE J == job[h]
           R == scene.requests
           C == Ours(h)
           r == J.req
<1>1. /\ J.at = "upsert" /\ UNCHANGED <<up, scene, entries, socks, tasks>>
      /\ \A s \in slots : ~Holds(s, r.client, r.int)
  BY DEF UpsertNew, At
<1>2. /\ h \in Workers /\ J \in JobShape /\ Task(R, C, J) /\ Shared(slots, entries, socks, tasks)
      /\ OneLabelEach(R) /\ C \subseteq Clients /\ \A c \in C : c # Operator /\ Someones(c)
  BY <1>1, ApartWork
<1>3. PICK p \in FreePorts(slots, {}) : /\ slots' = slots \cup {FSlot(p, r.client, r.int)}
                                        /\ Do(h, [J EXCEPT !.at = "datapath", !.port = p])
  BY DEF UpsertNew
<1> DEFINE k == [J EXCEPT !.at = "datapath", !.port = p]
           n == FSlot(p, r.client, r.int)
<1>4. /\ k.at = "datapath" /\ k.port = p /\ k.kind = J.kind /\ k.req = r /\ k.freed = J.freed
      /\ k.todo = J.todo /\ Do(h, k)
  BY <1>2, <1>3 DEF JobShape
<1>5. Whole(R, C, slots, entries, socks, tasks)
  BY <1>1, <1>2, WholeOwn DEF ApartInv, Resting
<1>6. n.bind = p /\ n.client = r.client /\ n.int = r.int /\ ~n.stale /\ slots' = slots \cup {n}
  BY <1>3 DEF FSlot
<1> HIDE DEF k, J, R, C, n
<1>7. /\ Unindexed(k) = {p} /\ Deaf(k) = {p} /\ Untasked(k) = {p} /\ Dangling(k) = {} /\ Open(k) = {}
  BY <1>4 DEF Unindexed, Deaf, Untasked, Dangling, Open, Indexing, Registering, Placing, Tearing
<1>8. /\ k.at \in Registering /\ k.at # "remove" /\ k.at \notin Tearing /\ ~Deleting(k)
      /\ k.at \in Indexing /\ k.at \notin {"revoke", "abort"}
  BY <1>4 DEF Indexing, Registering, Placing, Tearing, Deleting
<1>9. Asked(R, r) /\ r.owner \in C
  BY <1>1, <1>2 DEF Task
<1>10. Task(R, C, k)
  BY <1>1, <1>2, <1>4, <1>9 DEF Task, Indexing, Registering, Placing, Tearing
<1>11. r.client = r.owner /\ (\A e \in entries : e.owner \in C => e.client = e.owner)
  BY <1>2, <1>5, <1>9, AskedIs DEF Whole
<1>12. /\ \A s \in slots : s.bind # p
       /\ \A s \in slots : ~IsStatic(s) => ~(s.client = r.client /\ s.int = r.int)
  BY <1>1 DEF FreePorts, PortsOf, Holds
<1>13. ~IsStatic(n) /\ n.client \in C /\ \A s \in slots : s.client = n.client => ~IsStatic(s)
  BY <1>2, <1>6, <1>9, <1>11 DEF IsStatic
<1>14. Confined(C, slots, slots', entries, entries', socks, socks', tasks, tasks')
  BY <1>1, <1>6, <1>13 DEF Confined
<1>15. Shared(slots', entries', socks', tasks')
  BY <1>1, <1>2, <1>6, <1>12, <1>13 DEF Shared, PortsDistinct
<1>16. \A q, x : HasSlot(slots, q, x) => HasSlot(slots', q, x)
  BY <1>6 DEF HasSlot
<1>17. HasSlot(slots', k.port, k.req)
  BY <1>4, <1>6 DEF HasSlot
<1>18. Tabled(C, k, slots', entries', socks', tasks')
  BY <1>1, <1>5, <1>6, <1>7, <1>8, <1>12, <1>13, <1>17 DEF Tabled, Whole
<1>19. ASSUME NEW e \in entries, SameTuple(e, r) PROVE FALSE
  <2>1. e.owner \in C /\ e.client = r.client /\ e.int = r.int
    BY <1>9, <1>11, <1>19 DEF SameTuple
  <2>2. PICK s \in slots : s.client = r.client /\ s.int = r.int
    BY <1>5, <2>1 DEF Whole, HasSlot
  <2> QED BY <1>6, <1>12, <1>13, <2>2
<1>20. Listed(R, C, k, slots', entries')
  BY <1>1, <1>4, <1>5, <1>7, <1>8, <1>16, <1>19 DEF Listed, Whole
<1>21. Served(C, k, slots', socks', tasks')
  BY <1>1, <1>5, <1>6, <1>7, <1>8, <1>12 DEF Served, Whole
<1> QED BY <1>1, <1>2, <1>4, <1>10, <1>14, <1>15, <1>18, <1>20, <1>21, ApartMove DEF Own, R, C

LEMMA UpsertLeftApart ==
  ASSUME ClientsApart, TypeInv, ApartInv, NEW h \in Jobs, UpsertRefused(h) \/ EvictPick(h)
  PROVE  ApartInv'
<1> DEFINE J == job[h]
           k == [J EXCEPT !.at = "pick"]
<1>1. J.at \in {"upsert", "pick"} /\ UNCHANGED <<up, scene, slots, entries, socks, tasks>>
  BY DEF UpsertRefused, EvictPick, At
<1>2. /\ h \in Workers /\ J \in JobShape /\ Task(scene.requests, Ours(h), J)
      /\ \A s \in slots : ~s.stale
  BY <1>1, ApartWork DEF Shared
<1>3. Finish(h) \/ Goto(h, "pick")
  BY <1>2 DEF UpsertRefused, EvictPick
<1>4. CASE Finish(h)
  <2>1. Task(scene.requests, Ours(h), Idling) /\ Idling.at \in Resting
    BY DEF Idling, Task, Resting, Indexing, Registering, Placing, Tearing
  <2> QED BY <1>1, <1>2, <1>4, <2>1, ApartRest DEF Finish, Resting
<1>5. CASE Goto(h, "pick")
  <2>1. /\ k.at = "pick" /\ k.kind = J.kind /\ k.req = J.req /\ k.freed = J.freed /\ k.todo = J.todo
        /\ Do(h, k)
    BY <1>2, <1>5 DEF Goto, JobShape
  <2> HIDE DEF k
  <2>2. Task(scene.requests, Ours(h), k)
    BY <1>1, <1>2, <2>1 DEF Task, Indexing, Registering, Placing, Tearing
  <2> QED BY <1>1, <1>2, <2>1, <2>2, ApartRest DEF Resting
<1> QED BY <1>3, <1>4, <1>5

(* A placement goes on, or is given up, with its slot still without socket. *)
LEMMA PlacingApart ==
  ASSUME ClientsApart, TypeInv, ApartInv, NEW h \in Jobs, job[h].at \in Placing,
         NEW l \in Placing, Goto(h, l), UNCHANGED <<up, scene, slots, entries, socks, tasks>>
  PROVE  ApartInv'
<1> DEFINE J == job[h]
           R == scene.requests
           C == Ours(h)
           k == [J EXCEPT !.at = l]
<1>1. /\ h \in Workers /\ J \in JobShape /\ Task(R, C, J)
      /\ Tabled(C, J, slots, entries, socks, tasks) /\ Listed(R, C, J, slots, entries)
      /\ Served(C, J, slots, socks, tasks)
  BY ApartWork DEF Placing
<1>2. /\ k.at = l /\ k.port = J.port /\ k.kind = J.kind /\ k.req = J.req /\ k.freed = J.freed
      /\ k.todo = J.todo /\ Do(h, k)
  BY <1>1 DEF Goto, JobShape
<1>3. J.at \in Placing /\ l \in Placing
  OBVIOUS
<1> HIDE DEF k, J, R, C
<1>4. /\ Unindexed(k) = Unindexed(J) /\ Deaf(k) = Deaf(J) /\ Untasked(k) = Untasked(J)
      /\ Dangling(k) = Dangling(J) /\ Open(k) = Open(J)
  BY <1>2, <1>3 DEF Unindexed, Deaf, Untasked, Dangling, Open, Indexing, Registering, Placing, Tearing
<1>5. /\ J.at \in Registering /\ J.at \in Indexing
      /\ k.at \in Registering /\ k.at \in Indexing /\ k.at # "remove" /\ k.at \notin Tearing
      /\ ~Deleting(k) /\ k.at \notin {"revoke", "abort"}
  BY <1>2, <1>3 DEF Indexing, Registering, Placing, Tearing, Deleting
<1>6. Task(R, C, k)
  BY <1>1, <1>2, <1>3, <1>5 DEF Task, Placing
<1>7. Tabled(C, k, slots, entries, socks, tasks)
  BY <1>1, <1>2, <1>4, <1>5 DEF Tabled
<1>8. Listed(R, C, k, slots, entries)
  BY <1>1, <1>2, <1>4, <1>5 DEF Listed
<1>9. Served(C, k, slots, socks, tasks)
  BY <1>1, <1>4, <1>5 DEF Served
<1> QED BY <1>1, <1>2, <1>6, <1>7, <1>8, <1>9, ApartGo DEF Own, R, C

LEMMA GrantDatapathApart ==
  ASSUME ClientsApart, TypeInv, ApartInv, NEW h \in Jobs, GrantDatapath(h)
  PROVE  ApartInv'
<1>1. /\ job[h].at \in Placing /\ (Goto(h, "bind") \/ Goto(h, "undo"))
      /\ UNCHANGED <<up, scene, slots, entries, socks, tasks>>
  BY DEF GrantDatapath, At, Placing
<1> QED BY <1>1, PlacingApart DEF Placing

LEMMA BindSlotApart ==
  ASSUME ClientsApart, TypeInv, ApartInv, NEW h \in Jobs, BindSlot(h)
  PROVE  ApartInv'
<1> DEFINE J == job[h]
           R == scene.requests
           C == Ours(h)
           p == J.port
           n == Sock(p, J.req.client, J.req.int)
           k == [J EXCEPT !.at = "register"]
<1>1. J.at = "bind" /\ J.at \in Placing /\ UNCHANGED <<up, scene, slots, entries, tasks>>
  BY DEF BindSlot, At, Placing
<1>2. CASE Goto(h, "undo") /\ UNCHANGED socks
  BY <1>1, <1>2, PlacingApart DEF Placing
<1>3. CASE Bindable(p) /\ socks' = socks \cup {n} /\ Goto(h, "register")
  <2>1. /\ h \in Workers /\ J \in JobShape /\ Task(R, C, J)
        /\ Tabled(C, J, slots, entries, socks, tasks) /\ Listed(R, C, J, slots, entries)
        /\ Served(C, J, slots, socks, tasks) /\ Shared(slots, entries, socks, tasks)
        /\ OneLabelEach(R) /\ C \subseteq Clients /\ \A c \in C : c # Operator /\ Someones(c)
    BY <1>1, ApartWork
  <2>2. /\ k.at = "register" /\ k.port = p /\ k.kind = J.kind /\ k.req = J.req /\ k.freed = J.freed
        /\ k.todo = J.todo /\ Do(h, k)
    BY <1>3, <2>1 DEF Goto, JobShape
  <2>3. n.port = p /\ n.client = J.req.client /\ n.int = J.req.int /\ ~n.dying
        /\ n = Sock(p, J.req.client, J.req.int) /\ socks' = socks \cup {n}
    BY <1>3 DEF Sock
  <2>4. \A x \in socks : x.port # p
    BY <1>3 DEF Bindable
  <2> HIDE DEF k, J, R, C, n, p
  <2>5. /\ Unindexed(J) = {p} /\ Deaf(J) = {p} /\ Untasked(J) = {p} /\ Dangling(J) = {} /\ Open(J) = {}
        /\ Unindexed(k) = {p} /\ Deaf(k) = {} /\ Untasked(k) = {p} /\ Dangling(k) = {} /\ Open(k) = {}
    BY <1>1, <2>2 DEF Unindexed, Deaf, Untasked, Dangling, Open, Indexing, Registering, Placing, Tearing, p
  <2>6. /\ J.at \in Registering /\ J.at \in Indexing
        /\ k.at \in Registering /\ k.at \in Indexing /\ k.at # "remove" /\ k.at \notin Tearing
        /\ ~Deleting(k) /\ k.at \notin {"revoke", "abort"}
    BY <1>1, <2>2 DEF Indexing, Registering, Placing, Tearing, Deleting
  <2>7. Task(R, C, k)
    BY <1>1, <2>1, <2>2, <2>6 DEF Task, Tearing
  <2>8. Asked(R, J.req) /\ J.req.owner \in C
    BY <2>1, <2>6 DEF Task
  <2>9. n.client \in C
    BY <2>1, <2>3, <2>8, AskedIs
  <2>10. HasSlot(slots, p, J.req) /\ PortsDistinct(slots)
    BY <2>1, <2>6 DEF Tabled, Shared, p
  <2>11. \A s \in slots : s.bind = p => n = Sock(s.bind, s.client, s.int)
    BY <2>3, <2>10 DEF HasSlot, PortsDistinct
  <2>12. Tabled(C, k, slots, entries, socks', tasks)
    <3>1. \A s \in slots : s.client \in C => s.bind \in Deaf(k) \/ Sock(s.bind, s.client, s.int) \in socks'
      BY <2>1, <2>3, <2>5, <2>11 DEF Tabled
    <3> QED BY <2>1, <2>2, <2>5, <2>6, <2>10, <3>1 DEF Tabled
  <2>13. Listed(R, C, k, slots, entries)
    BY <2>1, <2>2, <2>5, <2>6 DEF Listed
  <2>14. \E s \in slots : s.bind = n.port /\ s.client = n.client /\ s.int = n.int
    BY <2>3, <2>10 DEF HasSlot
  <2>15. Served(C, k, slots, socks', tasks)
    BY <2>1, <2>3, <2>5, <2>6, <2>14 DEF Served
  <2>16. Confined(C, slots, slots', entries, entries', socks, socks', tasks, tasks')
    BY <1>1, <2>3, <2>9 DEF Confined
  <2>17. OnePerPort(socks')
    BY <2>1, <2>3, <2>4 DEF Shared, OnePerPort
  <2>18. Shared(slots', entries', socks', tasks')
    BY <1>1, <2>1, <2>3, <2>9, <2>17 DEF Shared
  <2> QED BY <1>1, <2>1, <2>2, <2>7, <2>12, <2>13, <2>15, <2>16, <2>18, ApartMove DEF Own, R, C
<1> QED BY <1>2, <1>3 DEF BindSlot

LEMMA RegisterTasksApart ==
  ASSUME ClientsApart, TypeInv, ApartInv, NEW h \in Jobs, RegisterTasks(h)
  PROVE  ApartInv'
<1> DEFINE J == job[h]
           R == scene.requests
           C == Ours(h)
           p == J.port
           k == [J EXCEPT !.at = "entry"]
<1>1. J.at = "register" /\ UNCHANGED <<up, scene, slots, entries, socks>> /\ tasks' = tasks \cup {p}
  BY DEF RegisterTasks, At
<1>2. /\ h \in Workers /\ J \in JobShape /\ Task(R, C, J)
      /\ Tabled(C, J, slots, entries, socks, tasks) /\ Listed(R, C, J, slots, entries)
      /\ Served(C, J, slots, socks, tasks) /\ Shared(slots, entries, socks, tasks)
      /\ OneLabelEach(R) /\ C \subseteq Clients /\ \A c \in C : c # Operator /\ Someones(c)
  BY <1>1, ApartWork
<1>3. /\ k.at = "entry" /\ k.port = p /\ k.kind = J.kind /\ k.req = J.req /\ k.freed = J.freed
      /\ k.todo = J.todo /\ Do(h, k)
  BY <1>2 DEF RegisterTasks, Goto, JobShape
<1> HIDE DEF k, J, R, C, p
<1>4. /\ Unindexed(J) = {p} /\ Deaf(J) = {} /\ Untasked(J) = {p} /\ Dangling(J) = {} /\ Open(J) = {}
      /\ Unindexed(k) = {p} /\ Deaf(k) = {} /\ Untasked(k) = {} /\ Dangling(k) = {} /\ Open(k) = {}
  BY <1>1, <1>3 DEF Unindexed, Deaf, Untasked, Dangling, Open, Indexing, Registering, Placing, Tearing, p
<1>5. /\ J.at \in Indexing /\ k.at \notin Registering /\ k.at \in Indexing /\ k.at # "remove"
      /\ k.at \notin Tearing /\ ~Deleting(k) /\ k.at \notin {"revoke", "abort"}
  BY <1>1, <1>3 DEF Indexing, Registering, Placing, Tearing, Deleting
<1>6. Task(R, C, k)
  BY <1>1, <1>2, <1>3, <1>5 DEF Task, Tearing
<1>7. Tabled(C, k, slots, entries, socks, tasks')
  BY <1>1, <1>2, <1>3, <1>4, <1>5 DEF Tabled, p
<1>8. Listed(R, C, k, slots, entries)
  BY <1>2, <1>3, <1>4, <1>5 DEF Listed
<1>9. Served(C, k, slots, socks, tasks')
  BY <1>2, <1>4, <1>5 DEF Served
<1>10. Confined(C, slots, slots', entries, entries', socks, socks', tasks, tasks')
  BY <1>1 DEF Confined
<1>11. \E x \in socks : x.port = p /\ ~x.dying /\ x.client # Operator
  <2>1. Asked(R, J.req) /\ J.req.owner \in C
    BY <1>2, <1>5 DEF Task
  <2>2. J.req.client \in C
    BY <1>2, <2>1, AskedIs
  <2>3. PICK s \in slots : s.bind = p /\ s.client = J.req.client
    BY <1>2, <1>5 DEF Tabled, HasSlot, p
  <2>4. Sock(s.bind, s.client, s.int) \in socks
    BY <1>2, <1>4, <2>2, <2>3 DEF Tabled
  <2> QED BY <1>2, <2>2, <2>3, <2>4 DEF Sock
<1>12. Shared(slots', entries', socks', tasks')
  BY <1>1, <1>2, <1>11 DEF Shared
<1> QED BY <1>1, <1>2, <1>3, <1>6, <1>7, <1>8, <1>9, <1>10, <1>12, ApartMove DEF Own, R, C

LEMMA UndoSlotApart ==
  ASSUME ClientsApart, TypeInv, ApartInv, NEW h \in Jobs, UndoSlot(h)
  PROVE  ApartInv'
<1> DEFINE J == job[h]
           R == scene.requests
           C == Ours(h)
           p == J.port
<1>1. J.at = "undo" /\ UNCHANGED <<up, scene, entries, socks, tasks>> /\ TableDelete(p) /\ Do(h, Idling)
  BY DEF UndoSlot, At, Finish
<1>2. /\ h \in Workers /\ J \in JobShape /\ Task(R, C, J)
      /\ Tabled(C, J, slots, entries, socks, tasks) /\ Listed(R, C, J, slots, entries)
      /\ Served(C, J, slots, socks, tasks) /\ Shared(slots, entries, socks, tasks)
      /\ OneLabelEach(R) /\ C \subseteq Clients /\ \A c \in C : c # Operator /\ Someones(c)
  BY <1>1, ApartWork
<1> HIDE DEF J, R, C, p
<1>3. Unindexed(J) = {p} /\ Deaf(J) = {p} /\ Untasked(J) = {p} /\ Dangling(J) = {} /\ Open(J) = {}
  BY <1>1 DEF Unindexed, Deaf, Untasked, Dangling, Open, Indexing, Registering, Placing, Tearing, p
<1>4. J.at \in Registering /\ J.at \in Indexing
  BY <1>1 DEF Indexing, Registering, Placing
<1>5. Asked(R, J.req) /\ J.req.owner \in C
  BY <1>2, <1>4 DEF Task
<1>6. J.req.client = J.req.owner /\ (\A e \in entries : e.owner \in C => e.client = e.owner)
  BY <1>2, <1>5, AskedIs DEF Listed
<1>7. PortsDistinct(slots) /\ HasSlot(slots, p, J.req)
  BY <1>2, <1>4 DEF Tabled, Shared, p
<1>8. PICK s \in slots : s.bind = p /\ s.client = J.req.client /\ s.int = J.req.int /\ slots' = slots \ {s}
  BY <1>1, <1>7 DEF HasSlot, TableDelete, PortsDistinct, PortsOf
<1>9. \A t \in slots' : t.bind # p
  BY <1>7, <1>8 DEF PortsDistinct
<1>10. ASSUME NEW e \in entries, e.owner \in C PROVE HasSlot(slots', e.bind, e)
  <2>1. HasSlot(slots, e.bind, e) /\ ~SameTuple(e, J.req)
    BY <1>2, <1>3, <1>4, <1>10 DEF Listed
  <2>2. PICK t \in slots : t.bind = e.bind /\ t.client = e.client /\ t.int = e.int
    BY <2>1 DEF HasSlot
  <2>3. t # s
    BY <1>6, <1>8, <1>10, <2>1, <2>2 DEF SameTuple
  <2> QED BY <1>8, <2>2, <2>3 DEF HasSlot
<1>11. ASSUME NEW x \in socks, x.client \in C, ~x.dying
       PROVE  \E t \in slots' : t.bind = x.port /\ t.client = x.client /\ t.int = x.int
  <2>1. x.port # p
    BY <1>2, <1>3, <1>11 DEF Served
  <2> QED BY <1>2, <1>3, <1>8, <1>11, <2>1 DEF Served
<1>12. \A t \in slots' : t \in slots
  BY <1>8
<1>13. Whole(R, C, slots', entries', socks', tasks')
  <2>1. \A t \in slots' : t.client \in C =>
           /\ Sock(t.bind, t.client, t.int) \in socks
           /\ ~IsStatic(t) => t.bind \in tasks /\ HasEntry(entries, t)
    BY <1>2, <1>3, <1>9, <1>12 DEF Tabled
  <2>2. \A t, u \in slots' : t.client \in C /\ ~IsStatic(t) /\ t.client = u.client /\ t.int = u.int => t = u
    BY <1>2, <1>12 DEF Tabled
  <2>3. \A e \in entries : e.owner \in C => Asked(R, e)
    BY <1>2 DEF Listed
  <2>4. \A e, f \in entries : e.owner \in C /\ SameLabel(e, f) => e = f
    BY <1>2 DEF Listed
  <2> QED BY <1>1, <1>10, <1>11, <2>1, <2>2, <2>3, <2>4 DEF Whole
<1>14. Task(R, C, Idling) /\ Idling.at \in Resting
  BY DEF Idling, Task, Resting, Indexing, Registering, Placing, Tearing
<1>15. Own(R, C, Idling, slots', entries', socks', tasks')
  BY <1>13, <1>14, WholeOwn
<1>16. Confined(C, slots, slots', entries, entries', socks, socks', tasks, tasks')
  BY <1>1, <1>5, <1>6, <1>8 DEF Confined
<1>17. Shared(slots', entries', socks', tasks')
  BY <1>1, <1>2, <1>12 DEF Shared, PortsDistinct
<1> QED BY <1>1, <1>2, <1>15, <1>16, <1>17, ApartMove DEF R, C

LEMMA ApplyEntryApart ==
  ASSUME ClientsApart, TypeInv, ApartInv, NEW h \in Jobs, ApplyEntry(h)
  PROVE  ApartInv'
<1> DEFINE J == job[h]
           R == scene.requests
           C == Ours(h)
           p == J.port
           r == J.req
<1>1. /\ J.at = "entry" /\ UNCHANGED <<up, scene, slots, socks, tasks>>
      /\ entries \subseteq EntryType /\ OnePerTuple(entries)
  BY DEF ApplyEntry, At, TypeInv, EntriesInv
<1>2. /\ h \in Workers /\ J \in JobShape /\ Task(R, C, J)
      /\ Tabled(C, J, slots, entries, socks, tasks) /\ Listed(R, C, J, slots, entries)
      /\ Served(C, J, slots, socks, tasks) /\ Shared(slots, entries, socks, tasks)
      /\ OneLabelEach(R) /\ C \subseteq Clients /\ \A c \in C : c # Operator /\ Someones(c)
  BY <1>1, ApartWork
<1>3. \/ \E e \in entries : /\ SameTuple(e, r) /\ Do(h, Save(J))
                            /\ entries' = (entries \ {e}) \cup {[e EXCEPT !.ext = r.ext]}
      \/ /\ \A e \in entries : ~SameTuple(e, r)
         /\ \E e \in entries :
              /\ SameLabel(e, r)
              /\ entries' = (entries \ {e})
                   \cup {[e EXCEPT !.client = r.client, !.int = r.int, !.bind = p]}
              /\ e.bind # p => Do(h, Stray(J, e.bind))
      \/ /\ \A e \in entries : ~SameTuple(e, r)
         /\ r.ext = 0 \/ \A e \in entries : ~SameLabel(e, r)
         /\ entries' = entries \cup {[ext |-> r.ext, owner |-> r.owner,
                                      client |-> r.client, int |-> r.int, bind |-> p]}
         /\ Do(h, Save(J))
  BY DEF ApplyEntry, SameLabel
<1> HIDE DEF J, R, C, p, r
<1>4. Unindexed(J) = {p} /\ Deaf(J) = {} /\ Untasked(J) = {} /\ Dangling(J) = {} /\ Open(J) = {}
  BY <1>1 DEF Unindexed, Deaf, Untasked, Dangling, Open, Indexing, Registering, Placing, Tearing, p
<1>5. Asked(R, r) /\ r.owner \in C /\ J.freed = {} /\ J.kind = "grant" /\ \A l \in J.todo : l.owner \in C
  BY <1>1, <1>2 DEF Task, Indexing, r
<1>6. /\ r.client = r.owner /\ r.ext # 0
      /\ \A e \in entries : e.owner \in C => /\ e.client = e.owner /\ Asked(R, e)
                                             /\ HasSlot(slots, e.bind, e)
  BY <1>2, <1>4, <1>5, AskedIs DEF Listed
<1>7. PortsDistinct(slots) /\ HasSlot(slots, p, r)
  BY <1>1, <1>2 DEF Tabled, Shared, Indexing, p, r
<1>8. PICK s \in slots : s.bind = p /\ s.client = r.client /\ s.int = r.int
  BY <1>7 DEF HasSlot
<1>9. \A t \in slots : t.client \in C => ~IsStatic(t)
  BY <1>2 DEF IsStatic
<1>10. \A t \in slots : t.client \in C =>
         /\ Sock(t.bind, t.client, t.int) \in socks /\ t.bind \in tasks
         /\ t.bind = p \/ HasEntry(entries, t)
  BY <1>2, <1>4, <1>9 DEF Tabled
<1>11. \A t, u \in slots : t.client \in C /\ t.client = u.client /\ t.int = u.int => t = u
  BY <1>2, <1>9 DEF Tabled
<1>12. \A e, f \in entries : e.owner \in C /\ SameLabel(e, f) => e = f
  BY <1>2 DEF Listed
<1>13. \A k \in socks : k.client \in C /\ ~k.dying =>
         \E t \in slots : t.bind = k.port /\ t.client = k.client /\ t.int = k.int
  BY <1>2, <1>4 DEF Served
<1>14. ASSUME Do(h, Save(J)), Whole(R, C, slots, entries', socks, tasks),
              \A e \in entries' : e.owner \notin C => e \in entries,
              \A e \in entries : e.owner \notin C => e \in entries'
       PROVE  ApartInv'
  <2>1. Save(J).at \in Resting /\ Task(R, C, Save(J))
    BY <1>2, <1>5, SavedTask
  <2>2. Own(R, C, Save(J), slots', entries', socks', tasks')
    BY <1>1, <1>14, <2>1, WholeOwn
  <2>3. Confined(C, slots, slots', entries, entries', socks, socks', tasks, tasks')
    BY <1>1, <1>14 DEF Confined
  <2>4. \A e \in entries' : Someones(e.owner)
    BY <1>2, <1>14 DEF Shared
  <2>5. Shared(slots', entries', socks', tasks')
    BY <1>1, <1>2, <2>4 DEF Shared
  <2> QED BY <1>1, <1>2, <1>14, <2>2, <2>3, <2>5, ApartMove DEF R, C
<1>15. ASSUME NEW n, n.bind = p, n.owner = r.owner, n.client = r.client, n.int = r.int, n.ext = r.ext
       PROVE  Asked(R, n) /\ HasSlot(slots, n.bind, n) /\ n.owner \in C
  BY <1>5, <1>8, <1>15 DEF Asked, SameLabel, HasSlot
<1>16. ASSUME NEW e \in entries, SameTuple(e, r), Do(h, Save(J)),
              entries' = (entries \ {e}) \cup {[e EXCEPT !.ext = r.ext]}
       PROVE  ApartInv'
  <2>1. e.owner = r.owner /\ e.int = r.int
    BY <1>16 DEF SameTuple
  <2>2. e.ext = r.ext
    BY <1>2, <1>5, <1>6, <1>16, <2>1, AskedIs
  <2>3. entries' = entries
    <3>1. e \in EntryType
      BY <1>1
    <3>2. [e EXCEPT !.ext = r.ext] = e
      BY <2>2, <3>1 DEF EntryType
    <3> QED BY <1>16, <3>2
  <2>4. PICK t \in slots : t.bind = e.bind /\ t.client = e.client /\ t.int = e.int
    BY <1>5, <1>6, <2>1 DEF HasSlot
  <2>5. t = s
    BY <1>5, <1>6, <1>8, <1>11, <2>1, <2>4
  <2>6. \A u \in slots : u.client \in C => HasEntry(entries, u)
    <3>1. \A u \in slots : u.bind = p => u = s
      BY <1>7, <1>8 DEF PortsDistinct
    <3>2. HasEntry(entries, s)
      BY <1>6, <1>8, <2>1, <2>4, <2>5 DEF HasEntry
    <3> QED BY <1>10, <3>1, <3>2
  <2>7. Whole(R, C, slots, entries', socks, tasks)
    BY <1>6, <1>10, <1>11, <1>12, <1>13, <2>3, <2>6 DEF Whole
  <2> QED BY <1>14, <1>16, <2>3, <2>7
<1>17. ASSUME \A e \in entries : ~SameTuple(e, r), \A e \in entries : ~SameLabel(e, r), NEW n,
              n = [ext |-> r.ext, owner |-> r.owner, client |-> r.client, int |-> r.int, bind |-> p],
              entries' = entries \cup {n}, Do(h, Save(J))
       PROVE  ApartInv'
  <2>1. n.bind = p /\ n.owner = r.owner /\ n.client = r.client /\ n.int = r.int /\ n.ext = r.ext
    BY <1>17
  <2>2. Asked(R, n) /\ HasSlot(slots, n.bind, n) /\ n.owner \in C
    BY <1>15, <2>1
  <2>3. \A u \in slots : u.client \in C => HasEntry(entries', u)
    <3>1. \A u \in slots : u.bind = p => u = s
      BY <1>7, <1>8 DEF PortsDistinct
    <3>2. HasEntry(entries', s)
      BY <1>6, <1>8, <1>17, <2>1 DEF HasEntry
    <3>3. \A u : HasEntry(entries, u) => HasEntry(entries', u)
      BY <1>17 DEF HasEntry
    <3> QED BY <1>10, <3>1, <3>2, <3>3
  <2>4. \A e, f \in entries' : e.owner \in C /\ SameLabel(e, f) => e = f
    <3>1. \A e \in entries : ~SameLabel(e, n) /\ ~SameLabel(n, e)
      BY <1>17, <2>1 DEF SameLabel
    <3> QED BY <1>12, <1>17, <3>1
  <2>5. \A e \in entries' : e.owner \in C => Asked(R, e) /\ HasSlot(slots, e.bind, e)
    BY <1>6, <1>17, <2>2
  <2>6. Whole(R, C, slots, entries', socks, tasks)
    BY <1>10, <1>11, <1>13, <2>3, <2>4, <2>5 DEF Whole
  <2> QED BY <1>14, <1>17, <2>2, <2>6
<1>18. ASSUME \A e \in entries : ~SameTuple(e, r), NEW e \in entries, SameLabel(e, r), NEW n,
              n = [e EXCEPT !.client = r.client, !.int = r.int, !.bind = p],
              entries' = (entries \ {e}) \cup {n}, e.bind # p => Do(h, Stray(J, e.bind))
       PROVE  ApartInv'
  <2>1. n.bind = p /\ n.owner = r.owner /\ n.client = r.client /\ n.int = r.int /\ n.ext = r.ext
    <3>1. e \in EntryType /\ e.ext = r.ext /\ e.owner = r.owner
      BY <1>1, <1>18 DEF SameLabel
    <3> QED BY <1>18, <3>1 DEF EntryType
  <2>2. Asked(R, n) /\ HasSlot(slots, n.bind, n) /\ n.owner \in C
    BY <1>15, <2>1
  <2>3. e.owner = r.owner /\ e.client = r.client /\ e.int # r.int /\ HasSlot(slots, e.bind, e)
    BY <1>5, <1>6, <1>18 DEF SameLabel, SameTuple
  <2>4. PICK t \in slots : t.bind = e.bind /\ t.client = e.client /\ t.int = e.int
    BY <2>3 DEF HasSlot
  <2>5. e.bind # p
    BY <1>7, <1>8, <2>3, <2>4 DEF PortsDistinct
  <2> DEFINE k == Stray(J, e.bind)
  <2>6. /\ k.at = "remove" /\ k.kind = "stray" /\ k.old = e.bind /\ k.req = r /\ k.freed = J.freed
        /\ k.todo = J.todo /\ Do(h, k)
    BY <1>2, <1>18, <2>5 DEF Stray, JobShape, J, r
  <2> HIDE DEF k
  <2>7. /\ Unindexed(k) = {e.bind} /\ Deaf(k) = {} /\ Untasked(k) = {} /\ Dangling(k) = {} /\ Open(k) = {}
    BY <2>6 DEF Unindexed, Deaf, Untasked, Dangling, Open, Indexing, Registering, Placing, Tearing
  <2>8. /\ k.at \notin Registering /\ k.at \notin Indexing /\ k.at \notin Tearing
        /\ ~Deleting(k) /\ k.at \notin {"revoke", "abort"}
    BY <2>6 DEF Indexing, Registering, Placing, Tearing, Deleting
  <2>9. Task(R, C, k)
    BY <1>5, <2>6, <2>8 DEF Task
  <2>10. ASSUME NEW u \in slots, u.client \in C PROVE u.bind = e.bind \/ HasEntry(entries', u)
    <3>1. CASE u.bind = p
      <4>1. u = s
        BY <1>7, <1>8, <3>1 DEF PortsDistinct
      <4> QED BY <1>6, <1>8, <1>18, <2>1, <4>1 DEF HasEntry
    <3>2. CASE u.bind # p
      BY <1>10, <1>18, <2>10, <3>2 DEF HasEntry
    <3> QED BY <3>1, <3>2
  <2>11. Tabled(C, k, slots, entries', socks, tasks)
    BY <1>10, <1>11, <2>3, <2>4, <2>6, <2>7, <2>8, <2>10 DEF Tabled
  <2>12. ASSUME NEW f \in entries', f.owner \in C PROVE f.bind # e.bind
    <3>1. CASE f = n
      BY <2>1, <2>5, <3>1
    <3>2. ASSUME f \in entries, f # e, f.bind = e.bind PROVE FALSE
      <4>1. PICK u \in slots : u.bind = f.bind /\ u.client = f.client /\ u.int = f.int
        BY <1>6, <2>12, <3>2 DEF HasSlot
      <4>2. u = t
        BY <1>7, <2>4, <3>2, <4>1 DEF PortsDistinct
      <4>3. f.owner = e.owner /\ f.int = e.int
        BY <1>5, <1>6, <2>3, <2>4, <2>12, <3>2, <4>1, <4>2
      <4> QED BY <1>1, <3>2, <4>3 DEF OnePerTuple
    <3> QED BY <1>18, <3>1, <3>2
  <2>13. \A f, g \in entries' : f.owner \in C /\ SameLabel(f, g) => f = g
    <3>1. \A f \in entries : SameLabel(f, n) \/ SameLabel(n, f) => f = e
      BY <1>5, <1>12, <1>18, <2>1 DEF SameLabel
    <3> QED BY <1>12, <1>18, <3>1
  <2>14. \A f \in entries' : f.owner \in C => Asked(R, f) /\ HasSlot(slots, f.bind, f)
    BY <1>6, <1>18, <2>2
  <2>15. Listed(R, C, k, slots, entries')
    BY <2>6, <2>7, <2>8, <2>12, <2>13, <2>14 DEF Listed
  <2>16. Served(C, k, slots, socks, tasks)
    BY <1>13, <2>7, <2>8 DEF Served
  <2>17. Confined(C, slots, slots', entries, entries', socks, socks', tasks, tasks')
    BY <1>1, <1>5, <1>18, <2>2, <2>3 DEF Confined
  <2>18. \A f \in entries' : Someones(f.owner)
    BY <1>2, <1>18, <2>2 DEF Shared
  <2>19. Shared(slots', entries', socks', tasks')
    BY <1>1, <1>2, <2>18 DEF Shared
  <2> QED BY <1>1, <1>2, <2>6, <2>9, <2>11, <2>15, <2>16, <2>17, <2>19, ApartMove DEF Own, R, C
<1>19. r.ext # 0
  BY <1>6
<1> QED BY <1>3, <1>16, <1>17, <1>18, <1>19

LEMMA RemoveApart ==
  ASSUME ClientsApart, TypeInv, ApartInv, NEW h \in Jobs, Remove(h)
  PROVE  ApartInv'
<1> DEFINE J == job[h]
           R == scene.requests
           C == Ours(h)
           old == J.old
           k == [J EXCEPT !.at = "revoke"]
<1>1. J.at = "remove" /\ UNCHANGED <<up, scene, entries, socks, tasks>> /\ TableDelete(old)
  BY DEF Remove, At
<1>2. /\ h \in Workers /\ J \in JobShape /\ Task(R, C, J)
      /\ Tabled(C, J, slots, entries, socks, tasks) /\ Listed(R, C, J, slots, entries)
      /\ Served(C, J, slots, socks, tasks) /\ Shared(slots, entries, socks, tasks)
      /\ OneLabelEach(R) /\ C \subseteq Clients /\ \A c \in C : c # Operator /\ Someones(c)
  BY <1>1, ApartWork
<1>3. /\ k.at = "revoke" /\ k.kind = J.kind /\ k.req = J.req /\ k.freed = J.freed /\ k.old = old
      /\ k.todo = J.todo /\ Do(h, k)
  BY <1>2 DEF Remove, Goto, JobShape
<1> HIDE DEF J, R, C, old, k
<1>4. /\ Deaf(J) = {} /\ Untasked(J) = {} /\ Dangling(J) = {} /\ Open(J) = {}
      /\ Deaf(k) = {} /\ Untasked(k) = {} /\ Unindexed(k) = {} /\ Open(k) = {old}
  BY <1>1, <1>3 DEF Unindexed, Deaf, Untasked, Dangling, Open, Indexing, Registering, Placing, Tearing
<1>5. /\ Unindexed(J) = IF J.kind = "stray" THEN {old} ELSE {}
      /\ Dangling(k) = IF J.kind = "delete" THEN {old} ELSE {}
      /\ Deleting(J) <=> J.kind = "delete"
      /\ Deleting(k) <=> J.kind = "delete"
  BY <1>1, <1>3 DEF Unindexed, Dangling, Indexing, Registering, Placing, Tearing, Deleting, old
<1>6. /\ k.at \notin Registering /\ k.at \notin Indexing /\ k.at # "remove" /\ k.at \in Tearing
      /\ k.at \in {"revoke", "abort"}
  BY <1>3 DEF Indexing, Registering, Placing, Tearing
<1>7. Asked(R, J.req) /\ J.req.owner \in C /\ J.kind \in {"stray", "delete"} /\ J.freed = {}
  BY <1>1, <1>2 DEF Task
<1>8. Task(R, C, k)
  BY <1>2, <1>1, <1>3, <1>6, <1>7 DEF Task, Tearing
<1>9. J.req.client \in C
  BY <1>2, <1>7, AskedIs
<1>10. PICK s \in slots : s.bind = old /\ s.client \in C
  BY <1>1, <1>2, <1>9 DEF Tabled, old
<1>11. PortsDistinct(slots) /\ slots' = slots \ {s}
  BY <1>1, <1>2, <1>10 DEF TableDelete, PortsDistinct, PortsOf, Shared
<1>12. \A t \in slots' : t \in slots /\ t.bind # old
  BY <1>10, <1>11 DEF PortsDistinct
<1>13. \A q, e : q # old /\ HasSlot(slots, q, e) => HasSlot(slots', q, e)
  BY <1>10, <1>11 DEF HasSlot
<1>14. s.bind \in tasks /\ Sock(s.bind, s.client, s.int) \in socks
  BY <1>2, <1>4, <1>10 DEF Tabled, IsStatic
<1>15. Tabled(C, k, slots', entries, socks, tasks)
  <2>1. \A t \in slots' : t.client \in C =>
          /\ Sock(t.bind, t.client, t.int) \in socks
          /\ ~IsStatic(t) => t.bind \in tasks /\ HasEntry(entries, t)
    BY <1>2, <1>4, <1>5, <1>12 DEF Tabled
  <2>2. \A t, u \in slots' : t.client \in C /\ ~IsStatic(t) /\ t.client = u.client /\ t.int = u.int => t = u
    BY <1>2, <1>12 DEF Tabled
  <2> QED BY <1>3, <1>6, <1>12, <2>1, <2>2 DEF Tabled
<1>16. \A e \in entries : e.owner \in C =>
         /\ Asked(R, e)
         /\ e.bind \in Dangling(k) \/ HasSlot(slots', e.bind, e)
         /\ J.kind = "delete" => (e.bind = old <=> SameLabel(e, J.req))
  BY <1>1, <1>2, <1>4, <1>5, <1>7, <1>13 DEF Listed, old
<1>17. Listed(R, C, k, slots', entries)
  <2>1. \A e, f \in entries : e.owner \in C /\ SameLabel(e, f) => e = f
    BY <1>2 DEF Listed
  <2> QED BY <1>3, <1>5, <1>6, <1>16, <2>1 DEF Listed
<1>18. Served(C, k, slots', socks, tasks)
  <2>1. \A x \in socks : x.client \in C /\ ~x.dying =>
          x.port = old \/ \E t \in slots' : t.bind = x.port /\ t.client = x.client /\ t.int = x.int
    BY <1>2, <1>4, <1>10, <1>11 DEF Served
  <2>2. old \in tasks /\ \E x \in socks : x.port = old /\ x.client \in C /\ ~x.dying
    BY <1>10, <1>14 DEF Sock
  <2> QED BY <1>3, <1>4, <2>1, <2>2 DEF Served
<1>19. Confined(C, slots, slots', entries, entries', socks, socks', tasks, tasks')
  BY <1>1, <1>10, <1>11 DEF Confined
<1>20. Shared(slots', entries', socks', tasks')
  BY <1>1, <1>2, <1>12 DEF Shared, PortsDistinct
<1> QED BY <1>1, <1>2, <1>3, <1>8, <1>15, <1>17, <1>18, <1>19, <1>20, ApartMove DEF Own, R, C

LEMMA RevokeApart ==
  ASSUME ClientsApart, TypeInv, ApartInv, NEW h \in Jobs, Revoke(h)
  PROVE  ApartInv'
<1> DEFINE J == job[h]
           R == scene.requests
           C == Ours(h)
           k == [J EXCEPT !.at = "abort"]
<1>1. J.at = "revoke" /\ UNCHANGED <<up, scene, slots, entries, socks, tasks>>
  BY DEF Revoke, At
<1>2. /\ h \in Workers /\ J \in JobShape /\ Task(R, C, J)
      /\ Tabled(C, J, slots, entries, socks, tasks) /\ Listed(R, C, J, slots, entries)
      /\ Served(C, J, slots, socks, tasks)
  BY <1>1, ApartWork
<1>3. /\ k.at = "abort" /\ k.kind = J.kind /\ k.req = J.req /\ k.freed = J.freed /\ k.old = J.old
      /\ k.todo = J.todo /\ Do(h, k)
  BY <1>2 DEF Revoke, Goto, JobShape
<1> HIDE DEF J, R, C, k
<1>4. /\ Deaf(J) = Deaf(k) /\ Untasked(J) = Untasked(k) /\ Dangling(J) = Dangling(k)
      /\ Open(J) = Open(k) /\ Unindexed(J) = Unindexed(k) /\ (Deleting(J) <=> Deleting(k))
  BY <1>1, <1>3 DEF Unindexed, Deaf, Untasked, Dangling, Open, Indexing, Registering, Placing, Tearing, Deleting
<1>5. /\ k.at \notin Registering /\ k.at \notin Indexing /\ k.at # "remove"
      /\ J.at \in Tearing /\ k.at \in Tearing
  BY <1>1, <1>3 DEF Indexing, Registering, Placing, Tearing
<1>6. Task(R, C, k)
  BY <1>1, <1>2, <1>3, <1>5 DEF Task, Tearing
<1>7. Tabled(C, k, slots, entries, socks, tasks)
  BY <1>2, <1>3, <1>4, <1>5 DEF Tabled
<1>8. Listed(R, C, k, slots, entries)
  BY <1>2, <1>3, <1>4, <1>5 DEF Listed
<1>9. Served(C, k, slots, socks, tasks)
  BY <1>1, <1>2, <1>3, <1>4 DEF Served
<1> QED BY <1>1, <1>2, <1>3, <1>6, <1>7, <1>8, <1>9, ApartGo DEF Own, R, C

LEMMA AbortTasksApart ==
  ASSUME ClientsApart, TypeInv, ApartInv, NEW h \in Jobs, AbortTasks(h)
  PROVE  ApartInv'
<1> DEFINE J == job[h]
           R == scene.requests
           C == Ours(h)
           old == J.old
<1>1. /\ J.at = "abort" /\ UNCHANGED <<up, scene, slots, entries>> /\ Abort(old)
      /\ Do(h, AfterAbort(J)) /\ socks \subseteq SockType
  BY DEF AbortTasks, At, TypeInv, SocksInv
<1>2. /\ h \in Workers /\ J \in JobShape /\ Task(R, C, J)
      /\ Tabled(C, J, slots, entries, socks, tasks) /\ Listed(R, C, J, slots, entries)
      /\ Served(C, J, slots, socks, tasks) /\ Shared(slots, entries, socks, tasks)
      /\ OneLabelEach(R) /\ C \subseteq Clients /\ \A c \in C : c # Operator /\ Someones(c)
  BY <1>1, ApartWork
<1> HIDE DEF J, R, C, old
<1>3. /\ Deaf(J) = {} /\ Untasked(J) = {} /\ Unindexed(J) = {} /\ Open(J) = {old}
      /\ Dangling(J) = IF J.kind = "delete" THEN {old} ELSE {}
      /\ Deleting(J) <=> J.kind = "delete"
      /\ J.at \in Tearing
  BY <1>1 DEF Unindexed, Deaf, Untasked, Dangling, Open, Indexing, Registering, Placing, Tearing, Deleting, old
<1>4. Asked(R, J.req) /\ J.req.owner \in C /\ J.kind \in {"stray", "delete"} /\ J.freed = {}
      /\ \A l \in J.todo : l.owner \in C
  BY <1>1, <1>2, <1>3 DEF Task
<1>5. PICK w \in socks : w.port = old /\ w.client \in C /\ ~w.dying /\ old \in tasks
  BY <1>1, <1>2 DEF Served, old
<1>6. OnePerPort(socks)
  BY <1>2 DEF Shared
<1> DEFINE d == [w EXCEPT !.dying = TRUE]
<1>7. d.port = old /\ d.client = w.client /\ d.dying
  <2>1. w \in SockType
    BY <1>1
  <2> QED BY <1>5, <2>1 DEF SockType
<1>8. tasks' = tasks \ {old} /\ (socks' = socks \ {w} \/ socks' = (socks \ {w}) \cup {d})
  <2>1. {x \in socks : x.port = old /\ old \in tasks} = {w}
    BY <1>5, <1>6 DEF OnePerPort
  <2>2. {[x EXCEPT !.dying = TRUE] : x \in {w}} = {d}
    OBVIOUS
  <2> QED BY <1>1, <2>1, <2>2 DEF Abort
<1> HIDE DEF d
<1>9. \A x \in socks : x.port # old => x \in socks'
  BY <1>5, <1>8
<1>10. \A x \in socks' : ~x.dying => x \in socks /\ x.port # old
  BY <1>5, <1>6, <1>7, <1>8 DEF OnePerPort
<1>11. \A t \in slots : t.client \in C => t.bind # old
  BY <1>2, <1>3 DEF Tabled, old
<1>12. \A t \in slots : t.client \in C =>
         /\ Sock(t.bind, t.client, t.int) \in socks'
         /\ ~IsStatic(t) => t.bind \in tasks' /\ HasEntry(entries, t)
  BY <1>2, <1>3, <1>8, <1>9, <1>11 DEF Tabled, Sock
<1>13. \A t, u \in slots : t.client \in C /\ ~IsStatic(t) /\ t.client = u.client /\ t.int = u.int => t = u
  BY <1>2 DEF Tabled
<1>14. \A x \in socks' : x.client \in C /\ ~x.dying =>
         \E t \in slots : t.bind = x.port /\ t.client = x.client /\ t.int = x.int
  BY <1>2, <1>3, <1>10 DEF Served
<1>15. /\ \A e \in entries : e.owner \in C => Asked(R, e) /\ (e.bind \in Dangling(J) \/ HasSlot(slots, e.bind, e))
       /\ \A e, f \in entries : e.owner \in C /\ SameLabel(e, f) => e = f
  BY <1>2 DEF Listed
<1>16. Confined(C, slots, slots', entries, entries', socks, socks', tasks, tasks')
  <2>1. \A x \in socks \cup socks' : x.client \notin C /\ ~x.dying => x \in socks /\ x \in socks'
    BY <1>5, <1>7, <1>8
  <2>2. \A p \in tasks : p \in tasks' \/ \E x \in socks : x.port = p /\ x.client \in C /\ ~x.dying
    BY <1>5, <1>8
  <2> QED BY <1>1, <2>1, <2>2 DEF Confined
<1>17. Shared(slots', entries', socks', tasks')
  <2>1. OnePerPort(socks')
    BY <1>5, <1>6, <1>7, <1>8 DEF OnePerPort
  <2>2. \A x \in socks' : Someones(x.client)
    BY <1>2, <1>5, <1>7, <1>8 DEF Shared
  <2>3. \A p \in tasks' : \E x \in socks' : x.port = p /\ ~x.dying /\ x.client # Operator
    BY <1>2, <1>8, <1>9 DEF Shared
  <2> QED BY <1>1, <1>2, <2>1, <2>2, <2>3 DEF Shared
<1>18. ASSUME NEW k, Do(h, k), Own(R, C, k, slots', entries', socks', tasks') PROVE ApartInv'
  BY <1>1, <1>2, <1>16, <1>17, <1>18, ApartMove DEF R, C
<1>19. CASE J.kind = "stray"
  <2>1. AfterAbort(J) = Save(J)
    BY <1>19 DEF AfterAbort
  <2>2. Save(J).at \in Resting /\ Task(R, C, Save(J))
    BY <1>2, <1>4, SavedTask
  <2>3. Whole(R, C, slots', entries', socks', tasks')
    BY <1>1, <1>3, <1>12, <1>13, <1>14, <1>15, <1>19 DEF Whole
  <2> QED BY <1>1, <1>18, <2>1, <2>2, <2>3, WholeOwn
<1>20. CASE J.kind = "delete"
  <2> DEFINE k == [J EXCEPT !.at = "forget"]
  <2>1. /\ k.at = "forget" /\ k.kind = J.kind /\ k.req = J.req /\ k.freed = J.freed /\ k.old = old
        /\ k.todo = J.todo /\ Do(h, k)
    BY <1>1, <1>2, <1>20 DEF AfterAbort, JobShape, old
  <2> HIDE DEF k
  <2>2. /\ Deaf(k) = {} /\ Untasked(k) = {} /\ Unindexed(k) = {} /\ Open(k) = {}
        /\ Dangling(k) = Dangling(J) /\ Deleting(k)
    BY <1>3, <1>20, <2>1 DEF Unindexed, Deaf, Untasked, Dangling, Open, Indexing, Registering, Placing, Tearing, Deleting
  <2>3. /\ k.at \notin Registering /\ k.at \notin Indexing /\ k.at # "remove" /\ k.at \in Tearing
        /\ k.at \notin {"revoke", "abort"}
    BY <2>1 DEF Indexing, Registering, Placing, Tearing
  <2>4. Task(R, C, k)
    BY <1>2, <1>4, <1>20, <2>1, <2>3 DEF Task, Tearing
  <2>5. Tabled(C, k, slots, entries, socks', tasks')
    BY <1>11, <1>12, <1>13, <2>1, <2>3 DEF Tabled
  <2>6. \A e \in entries : e.owner \in C => (e.bind = old <=> SameLabel(e, J.req))
    BY <1>2, <1>3, <1>20 DEF Listed, old
  <2>7. Listed(R, C, k, slots, entries)
    BY <1>15, <2>1, <2>2, <2>3, <2>6 DEF Listed
  <2>8. Served(C, k, slots, socks', tasks')
    BY <1>14, <2>2, <2>3 DEF Served
  <2> QED BY <1>1, <1>18, <2>1, <2>4, <2>5, <2>7, <2>8 DEF Own
<1> QED BY <1>4, <1>19, <1>20

LEMMA ForgetApart ==
  ASSUME ClientsApart, TypeInv, ApartInv, NEW h \in Jobs, Forget(h)
  PROVE  ApartInv'
<1> DEFINE J == job[h]
           R == scene.requests
           C == Ours(h)
           old == J.old
<1>1. /\ J.at = "forget" /\ UNCHANGED <<up, scene, slots, socks, tasks>>
      /\ entries' = entries \ Dropped(J)
      /\ J.freed # {} \/ Do(h, Save(J))
  BY DEF Forget, At
<1>2. /\ h \in Workers /\ J \in JobShape /\ Task(R, C, J)
      /\ Tabled(C, J, slots, entries, socks, tasks) /\ Listed(R, C, J, slots, entries)
      /\ Served(C, J, slots, socks, tasks) /\ Shared(slots, entries, socks, tasks)
      /\ OneLabelEach(R) /\ C \subseteq Clients /\ \A c \in C : c # Operator /\ Someones(c)
  BY <1>1, ApartWork
<1> HIDE DEF J, R, C, old
<1>3. /\ Deaf(J) = {} /\ Untasked(J) = {} /\ Unindexed(J) = {} /\ Open(J) = {} /\ J.at \in Tearing
  BY <1>1 DEF Unindexed, Deaf, Untasked, Open, Indexing, Registering, Placing, Tearing
<1>4. /\ Asked(R, J.req) /\ J.req.owner \in C /\ J.kind = "delete" /\ J.freed = {}
      /\ \A l \in J.todo : l.owner \in C
  BY <1>1, <1>2, <1>3 DEF Task
<1>5. Dangling(J) = {old} /\ Deleting(J)
  BY <1>3, <1>4 DEF Dangling, Deleting, old
<1>6. \A e \in entries : e \in entries' <=> ~SameLabel(e, J.req)
  BY <1>1, <1>4 DEF Dropped, SameLabel
<1>7. \A e \in entries : e.owner \in C => /\ Asked(R, e)
                                          /\ e.bind = old \/ HasSlot(slots, e.bind, e)
                                          /\ e.bind = old <=> SameLabel(e, J.req)
  BY <1>2, <1>5 DEF Listed, old
<1>8. \A t \in slots : t.client \in C =>
        /\ Sock(t.bind, t.client, t.int) \in socks /\ t.bind # old
        /\ ~IsStatic(t) => t.bind \in tasks /\ HasEntry(entries, t)
  BY <1>2, <1>3 DEF Tabled, old
<1>9. \A t \in slots : t.client \in C /\ t.bind # old /\ HasEntry(entries, t) => HasEntry(entries', t)
  BY <1>6, <1>7 DEF HasEntry
<1>10. entries' \subseteq entries
  BY <1>1
<1>11. Whole(R, C, slots', entries', socks', tasks')
  <2>1. \A t, u \in slots : t.client \in C /\ ~IsStatic(t) /\ t.client = u.client /\ t.int = u.int => t = u
    BY <1>2 DEF Tabled
  <2>2. \A e, f \in entries : e.owner \in C /\ SameLabel(e, f) => e = f
    BY <1>2 DEF Listed
  <2>3. \A x \in socks : x.client \in C /\ ~x.dying =>
          \E t \in slots : t.bind = x.port /\ t.client = x.client /\ t.int = x.int
    BY <1>2, <1>3 DEF Served
  <2>4. \A e \in entries' : e.owner \in C => Asked(R, e) /\ HasSlot(slots, e.bind, e)
    BY <1>6, <1>7, <1>10
  <2> QED BY <1>1, <1>8, <1>9, <1>10, <2>1, <2>2, <2>3, <2>4 DEF Whole
<1>12. Save(J).at \in Resting /\ Task(R, C, Save(J))
  BY <1>2, <1>4, SavedTask
<1>13. Own(R, C, Save(J), slots', entries', socks', tasks')
  BY <1>11, <1>12, WholeOwn
<1>14. Confined(C, slots, slots', entries, entries', socks, socks', tasks, tasks')
  BY <1>1, <1>4, <1>6, <1>10 DEF Confined, SameLabel
<1>15. Shared(slots', entries', socks', tasks')
  BY <1>1, <1>2, <1>10 DEF Shared
<1> QED BY <1>1, <1>2, <1>4, <1>13, <1>14, <1>15, ApartMove DEF R, C

LEMMA FindEntryApart ==
  ASSUME ClientsApart, TypeInv, ApartInv, NEW h \in Jobs, FindEntry(h)
  PROVE  ApartInv'
<1> DEFINE J == job[h]
           R == scene.requests
           C == Ours(h)
<1>1. /\ J.at = "find" /\ UNCHANGED <<up, scene, slots, entries, socks, tasks>>
      /\ entries \subseteq EntryType /\ OnePerTuple(entries)
  BY DEF FindEntry, At, TypeInv, EntriesInv
<1>2. /\ h \in Workers /\ J \in JobShape /\ Task(R, C, J) /\ Shared(slots, entries, socks, tasks)
      /\ OneLabelEach(R)
  BY <1>1, ApartWork
<1>3. Whole(R, C, slots, entries, socks, tasks)
  BY <1>1, <1>2, WholeOwn DEF ApartInv, Resting
<1>4. J.kind = "delete" /\ J.freed = {} /\ \A l \in J.todo : l.owner \in C
  BY <1>1, <1>2 DEF Task
<1>5. PICK l \in J.todo :
        \/ \E e \in entries :
             /\ Label(e) = l
             /\ Do(h, [[J EXCEPT !.todo = @ \ {l}]
                         EXCEPT !.at = "remove", !.old = e.bind,
                                !.req = [ext |-> e.ext, owner |-> e.owner,
                                         client |-> e.client, int |-> e.int]])
        \/ Do(h, AfterSave([J EXCEPT !.todo = @ \ {l}]))
  BY DEF FindEntry
<1>6. CASE Do(h, AfterSave([J EXCEPT !.todo = @ \ {l}]))
  <2> DEFINE k == [J EXCEPT !.todo = @ \ {l}]
  <2>1. k \in JobShape /\ k.kind = J.kind /\ k.freed = J.freed /\ k.todo = J.todo \ {l} /\ Do(h, AfterSave(k))
    BY <1>2, <1>6 DEF JobShape
  <2> HIDE DEF J, R, C, k
  <2>2. AfterSave(k).at \in Resting /\ Task(R, C, AfterSave(k))
    BY <1>4, <2>1, SavedTask
  <2> QED BY <1>1, <1>2, <2>1, <2>2, ApartRest DEF Resting, J, R, C
<1>7. ASSUME NEW e \in entries, Label(e) = l, NEW q,
             q = [ext |-> e.ext, owner |-> e.owner, client |-> e.client, int |-> e.int],
             Do(h, [[J EXCEPT !.todo = @ \ {l}] EXCEPT !.at = "remove", !.old = e.bind, !.req = q])
      PROVE  ApartInv'
  <2> DEFINE k == [[J EXCEPT !.todo = @ \ {l}] EXCEPT !.at = "remove", !.old = e.bind, !.req = q]
  <2>1. /\ k.at = "remove" /\ k.kind = J.kind /\ k.req = q /\ k.freed = J.freed /\ k.old = e.bind
        /\ k.todo = J.todo \ {l} /\ Do(h, k)
    BY <1>2, <1>7 DEF JobShape
  <2>2. q.ext = e.ext /\ q.owner = e.owner /\ q.client = e.client /\ q.int = e.int
    BY <1>7
  <2> HIDE DEF J, R, C, k
  <2>3. e.owner \in C
    BY <1>4, <1>7 DEF Label
  <2>4. Asked(R, e) /\ HasSlot(slots, e.bind, e)
    BY <1>3, <2>3 DEF Whole
  <2>5. Asked(R, q)
    BY <2>2, <2>4 DEF Asked, SameLabel
  <2>6. /\ Unindexed(k) = {} /\ Deaf(k) = {} /\ Untasked(k) = {} /\ Dangling(k) = {} /\ Open(k) = {}
    BY <1>4, <2>1 DEF Unindexed, Deaf, Untasked, Dangling, Open, Indexing, Registering, Placing, Tearing
  <2>7. /\ k.at \notin Registering /\ k.at \notin Indexing /\ k.at \notin Tearing
        /\ k.at \notin {"revoke", "abort"} /\ k.kind # "stray"
    BY <1>4, <2>1 DEF Indexing, Registering, Placing, Tearing
  <2>8. Task(R, C, k)
    BY <1>4, <2>1, <2>2, <2>3, <2>5, <2>7 DEF Task
  <2>9. \E s \in slots : s.bind = k.old /\ s.client = k.req.client /\ s.int = k.req.int
    BY <2>1, <2>2, <2>4 DEF HasSlot
  <2>10. Tabled(C, k, slots, entries, socks, tasks)
    BY <1>3, <2>6, <2>7, <2>9 DEF Tabled, Whole
  <2>11. ASSUME NEW f \in entries, f.owner \in C PROVE f.bind = e.bind <=> SameLabel(f, q)
    <3>1. SameLabel(f, q) => f = e
      BY <1>3, <2>2, <2>3, <2>11 DEF Whole, SameLabel
    <3>2. SameLabel(e, q)
      BY <2>2 DEF SameLabel
    <3>3. ASSUME f.bind = e.bind PROVE f = e
      <4>1. Asked(R, f) /\ HasSlot(slots, f.bind, f)
        BY <1>3, <2>11 DEF Whole
      <4>2. f.client = e.client /\ f.int = e.int
        BY <1>2, <2>4, <3>3, <4>1 DEF HasSlot, Shared, PortsDistinct
      <4>3. f.owner = e.owner
        BY <1>2, <2>4, <4>1, <4>2, AskedIs
      <4> QED BY <1>1, <4>2, <4>3 DEF OnePerTuple
    <3> QED BY <3>1, <3>2, <3>3
  <2>12. Listed(R, C, k, slots, entries)
    BY <1>3, <2>1, <2>6, <2>7, <2>11 DEF Listed, Whole
  <2>13. Served(C, k, slots, socks, tasks)
    BY <1>3, <2>6, <2>7 DEF Served, Whole
  <2> QED BY <1>1, <1>2, <2>1, <2>8, <2>10, <2>12, <2>13, ApartGo DEF Own, R, C
<1> QED BY <1>5, <1>6, <1>7

LEMMA NextApart == ASSUME ClientsApart, TypeInv, ApartInv, [Next]_vars PROVE ApartInv'
<1>1. CASE UNCHANGED vars
  BY <1>1 DEF vars, ApartInv
<1>2. ASSUME NEW h \in Jobs, Step(h) PROVE ApartInv'
  <2>1. CASE GrantStep(h)
    BY <2>1, UpsertRefreshApart, UpsertNewApart, UpsertLeftApart, GrantDatapathApart, BindSlotApart,
       UndoSlotApart, RegisterTasksApart, ApplyEntryApart DEF GrantStep
  <2>2. CASE TeardownStep(h)
    BY <2>2, RemoveApart, RevokeApart, AbortTasksApart, ForgetApart, FindEntryApart DEF TeardownStep
  <2>3. CASE YieldStep(h)
    <3>1. job[h].at \in {"move", "rebind", "moveback", "redirect", "reregister", "release", "reindex"}
      BY <2>3 DEF YieldStep, MoveLease, Rebind, MoveBack, Redirect, Reregister, ReleaseOld, Reindex, At
    <3>2. Task(scene.requests, Ours(h), job[h])
      BY <3>1, ApartWork
    <3> QED BY <3>1, <3>2 DEF Task, Indexing, Registering, Placing, Tearing
  <2> QED BY <1>2, <2>1, <2>2, <2>3, PersistApart DEF Step
<1> QED BY <1>1, <1>2, StartApart, EnvironmentApart DEF Next

LEMMA InitApart == ASSUME Init PROVE ApartInv
<1>1. \A h \in Jobs : job[h] = Idling
  BY DEF Init
<1>2. /\ slots = {FSlot(p, Operator, 0) : p \in statics} /\ socks = {Sock(p, Operator, 0) : p \in statics}
      /\ entries = {} /\ tasks = {} /\ up
  BY DEF Init
<1>3. \A s \in slots : s = FSlot(s.bind, Operator, 0) /\ s.client = Operator /\ s.int = 0 /\ ~s.stale /\ IsStatic(s)
  BY <1>2 DEF FSlot, IsStatic
<1>4. \A k \in socks : k = Sock(k.port, Operator, 0) /\ k.client = Operator /\ k.int = 0
                       /\ FSlot(k.port, Operator, 0) \in slots
  BY <1>2 DEF Sock
<1>5. Someones(Operator)
  BY DEF Someones, Ours, Jobs
<1>6. Shared(slots, entries, socks, tasks)
  BY <1>2, <1>3, <1>4, <1>5 DEF Shared, PortsDistinct, OnePerPort
<1>7. ASSUME NEW R, NEW C PROVE Own(R, C, Idling, slots, entries, socks, tasks)
  <2>1. Idling.at \in Resting /\ Task(R, C, Idling)
    BY DEF Idling, Task, Resting, Indexing, Registering, Placing, Tearing
  <2>2. \A s \in slots : Sock(s.bind, s.client, s.int) \in socks
    BY <1>2, <1>3 DEF FSlot
  <2>3. \A k \in socks : \E s \in slots : s.bind = k.port /\ s.client = k.client /\ s.int = k.int
    BY <1>4 DEF FSlot
  <2>4. Whole(R, C, slots, entries, socks, tasks)
    BY <1>2, <1>3, <2>2, <2>3 DEF Whole
  <2> QED BY <2>1, <2>4, WholeOwn
<1>8. job[Collector].at = "idle"
  BY <1>1 DEF Idling, Jobs
<1> QED BY <1>1, <1>2, <1>6, <1>7, <1>8 DEF ApartInv

LEMMA ClientsStayApart == ASSUME ClientsApart PROVE Spec => []ApartInv
<1>1. TypeInv /\ ApartInv /\ [Next]_vars => ApartInv'
  BY NextApart
<1>2. Init => ApartInv
  BY InitApart
<1> QED BY <1>1, <1>2, Typed, PTL DEF Spec

(* The accept set.  An open port is a slot's or is about to be closed, and *)
(* a grant that is undone has closed its port before it gives it back.     *)
Closes(j, p) == j.at = "revoke" /\ j.old = p
AcceptInv ==
  /\ \A p \in nft.accepted : p \in PortsOf(slots) \/ \E h \in Jobs : Closes(job[h], p)
  /\ \A h \in Jobs : job[h].at = "undo" => job[h].port \notin nft.accepted

LEMMA AcceptMove ==
  ASSUME TypeInv, AcceptInv, NEW h \in Jobs, NEW j, Do(h, j),
         \A p \in nft'.accepted : p \in nft.accepted \/ p \in PortsOf(slots'),
         \A p \in nft'.accepted : ~Closes(job[h], p),
         \A p \in PortsOf(slots) : p \in PortsOf(slots') \/ p \notin nft'.accepted \/ Closes(j, p),
         \A g \in Jobs : g # h /\ job[g].at = "undo" /\ job[g].port \in nft'.accepted =>
            job[g].port \in nft.accepted,
         j.at = "undo" => j.port \notin nft'.accepted
  PROVE  AcceptInv'
<1>1. \A g \in Jobs : job'[g] = IF g = h THEN j ELSE job[g]
  BY DEF TypeInv, JobInv, Do
<1>2. ASSUME NEW p \in nft'.accepted PROVE p \in PortsOf(slots') \/ \E g \in Jobs : Closes(job'[g], p)
  <2>1. CASE p \in PortsOf(slots)
    BY <1>1, <1>2, <2>1
  <2>2. CASE p \in PortsOf(slots')
    BY <2>2
  <2>3. CASE p \notin PortsOf(slots) /\ p \notin PortsOf(slots')
    <3>1. PICK g \in Jobs : Closes(job[g], p)
      BY <1>2, <2>3 DEF AcceptInv
    <3>2. g # h
      BY <1>2, <3>1
    <3> QED BY <1>1, <3>1, <3>2
  <2> QED BY <2>1, <2>2, <2>3
<1>3. ASSUME NEW g \in Jobs, job'[g].at = "undo" PROVE job'[g].port \notin nft'.accepted
  BY <1>1, <1>3 DEF AcceptInv
<1> QED BY <1>2, <1>3 DEF AcceptInv, Closes

(* A step that opens and closes nothing and frees no port. *)
LEMMA AcceptGo ==
  ASSUME TypeInv, AcceptInv, NEW h \in Jobs, job[h].at # "revoke", NEW j, Do(h, j), j.at # "undo",
         UNCHANGED nft, PortsOf(slots) \subseteq PortsOf(slots')
  PROVE  AcceptInv'
BY AcceptMove DEF Closes

LEMMA StartAccepts ==
  ASSUME ClientsApart, TypeInv, AcceptInv, Start
  PROVE  AcceptInv'
<1>1. scene.uses \subseteq Alongside
  BY ProperRequests
<1>2. ~(\E gone \in SUBSET Clients : ReapAbsent(gone)) /\ ~(\E p \in Ports : StartYield(p)) /\ ~Sweep
  <2>1. \A h \in Jobs : ~MayStart(h, "reap") /\ ~MayStart(h, "yield") /\ ~MayStart(h, "sweep")
    BY <1>1 DEF Alongside, MayStart
  <2> QED BY <2>1 DEF ReapAbsent, StartDelete, StartYield, Sweep, Jobs
<1>3. ASSUME NEW h \in Workers, NEW use, MayStart(h, use), NEW l \in {"upsert", "find"}, NEW j, j.at = l,
             Do(h, j), UNCHANGED <<nft, slots>>
      PROVE  AcceptInv'
  BY <1>3, AcceptGo DEF MayStart, At, Jobs
<1>4. ASSUME NEW h \in Workers, NEW r, StartGrant(h, r) PROVE AcceptInv'
  <2> DEFINE k == [Idling EXCEPT !.at = "upsert", !.kind = "grant", !.req = r]
  <2>1. k.at = "upsert"
    BY DEF Idling
  <2>2. MayStart(h, "grant") /\ Do(h, k) /\ UNCHANGED <<nft, slots>>
    BY <1>4 DEF StartGrant
  <2> HIDE DEF k
  <2> QED BY <1>3, <2>1, <2>2
<1>5. ASSUME NEW h \in Workers, NEW use, NEW labels, StartDelete(h, use, labels) PROVE AcceptInv'
  <2> DEFINE k == [Idling EXCEPT !.at = "find", !.kind = "delete", !.todo = labels]
  <2>1. k.at = "find"
    BY DEF Idling
  <2>2. MayStart(h, use) /\ Do(h, k) /\ UNCHANGED <<nft, slots>>
    BY <1>5 DEF StartDelete
  <2> HIDE DEF k
  <2> QED BY <1>3, <2>1, <2>2
<1>6. ASSUME NEW h \in Workers
      PROVE  /\ \A l : DeleteMapping(h, l) => AcceptInv'
             /\ \A c : DeleteRange(h, c) => AcceptInv'
             /\ \A c, i : DeleteKey(h, c, i) => AcceptInv'
  BY <1>5 DEF DeleteMapping, DeleteRange, DeleteKey
<1> QED BY <1>2, <1>4, <1>6 DEF Start

LEMMA EnvironmentAccepts ==
  ASSUME ClientsApart, TypeInv, ApartInv, AcceptInv, Environment
  PROVE  AcceptInv'
<1>1. scene.uses \subseteq Alongside
  BY ProperRequests
<1>2. ~Crash /\ (\A s : ~Age(s) /\ ~Touch(s)) /\ (\A h : ~Cancel(h)) /\ (\A S : ~Boot(S))
  BY <1>1 DEF ApartInv, Alongside, Crash, Age, Touch, Cancel, Boot
<1>3. UNCHANGED <<slots, nft, job>>
  BY <1>2 DEF Environment, Publish, CloseSock
<1> QED BY <1>3 DEF AcceptInv

(* The steps that leave the accept set alone and free no port.             *)
LEMMA WorkAccepts ==
  ASSUME ClientsApart, TypeInv, ApartInv, AcceptInv, NEW h \in Jobs,
         \/ UpsertRefused(h) \/ EvictPick(h) \/ RegisterTasks(h) \/ ApplyEntry(h)
         \/ AbortTasks(h) \/ Forget(h) \/ FindEntry(h) \/ PersistStep(h)
  PROVE  AcceptInv'
<1> DEFINE J == job[h]
<1>1. UNCHANGED <<slots, nft>> /\ J.at \notin {"idle", "revoke", "undo"}
  BY DEF UpsertRefused, EvictPick, RegisterTasks, ApplyEntry, AbortTasks, Forget, FindEntry, PersistStep,
         CopyTable, WriteLeases, CopyIndex, WriteIndex, At
<1>2. J \in JobShape
  BY JobParts DEF TypeInv
<1>3. \A j : Do(h, j) /\ j.at # "undo" => AcceptInv'
  BY <1>1, AcceptGo
<1>4. \A l \in Labels : Goto(h, l) /\ l # "undo" => AcceptInv'
  BY <1>2, <1>3 DEF Goto, JobShape
<1>5. Finish(h) => AcceptInv'
  BY <1>3 DEF Finish, Idling
<1>6. \A k \in JobShape : k.at # "undo" => Save(k).at # "undo" /\ AfterSave(k).at # "undo"
  BY DEF Save, AfterSave, JobShape, Idling
<1>7. CASE UpsertRefused(h)
  BY <1>4, <1>5, <1>7 DEF UpsertRefused, Labels
<1>8. CASE EvictPick(h)
  <2>1. ASSUME NEW p, Do(h, [J EXCEPT !.at = "remove", !.kind = "evict", !.old = p, !.retried = TRUE])
        PROVE  AcceptInv'
    BY <1>2, <1>3, <2>1 DEF JobShape
  <2> QED BY <1>5, <1>8, <2>1 DEF EvictPick
<1>9. CASE RegisterTasks(h)
  BY <1>4, <1>9 DEF RegisterTasks, Labels
<1>10. CASE ApplyEntry(h)
  <2>1. Save(J).at # "undo"
    BY <1>1, <1>2, <1>6
  <2>2. ASSUME NEW p PROVE Stray(J, p).at # "undo"
    BY <1>2 DEF Stray, JobShape
  <2>3. Do(h, Save(J)) \/ \E p : Do(h, Stray(J, p))
    BY <1>10 DEF ApplyEntry
  <2> QED BY <1>3, <2>1, <2>2, <2>3
<1>11. CASE AbortTasks(h)
  <2>1. Save(J).at # "undo"
    BY <1>1, <1>2, <1>6
  <2>2. AfterAbort(J).at # "undo"
    BY <1>2, <2>1 DEF AfterAbort, JobShape
  <2>3. Do(h, AfterAbort(J))
    BY <1>11 DEF AbortTasks
  <2> QED BY <1>3, <2>2, <2>3
<1>12. CASE Forget(h)
  <2>1. Save(J).at # "undo"
    BY <1>1, <1>2, <1>6
  <2>2. ASSUME NEW p, Do(h, [J EXCEPT !.at = "revoke", !.old = p, !.freed = @ \ {p}]) PROVE AcceptInv'
    BY <1>2, <1>3, <2>2 DEF JobShape
  <2> QED BY <1>3, <1>12, <2>1, <2>2 DEF Forget
<1>13. CASE FindEntry(h)
  <2>1. PICK l \in J.todo :
          \/ \E e \in entries :
               Do(h, [[J EXCEPT !.todo = @ \ {l}]
                        EXCEPT !.at = "remove", !.old = e.bind,
                               !.req = [ext |-> e.ext, owner |-> e.owner,
                                        client |-> e.client, int |-> e.int]])
          \/ Do(h, AfterSave([J EXCEPT !.todo = @ \ {l}]))
    BY <1>13 DEF FindEntry
  <2>2. ASSUME NEW p, NEW q, Do(h, [[J EXCEPT !.todo = @ \ {l}] EXCEPT !.at = "remove", !.old = p, !.req = q])
        PROVE  AcceptInv'
    BY <1>2, <1>3, <2>2 DEF JobShape
  <2>3. [J EXCEPT !.todo = @ \ {l}] \in JobShape /\ [J EXCEPT !.todo = @ \ {l}].at # "undo"
    BY <1>1, <1>2 DEF JobShape
  <2> QED BY <1>3, <1>6, <2>1, <2>2, <2>3
<1>14. CASE PersistStep(h)
  <2>1. ASSUME NEW l \in {"leases", "copyindex", "index"}, NEW S, Do(h, [J EXCEPT !.at = l, !.rows = S])
        PROVE  AcceptInv'
    BY <1>2, <1>3, <2>1 DEF JobShape
  <2>2. [J EXCEPT !.rows = {}] \in JobShape /\ [J EXCEPT !.rows = {}].at # "undo"
    BY <1>1, <1>2 DEF JobShape
  <2>3. WriteIndex(h) => AcceptInv'
    BY <1>3, <1>6, <2>2 DEF WriteIndex
  <2> QED BY <1>14, <2>1, <2>3 DEF PersistStep, CopyTable, WriteLeases, CopyIndex
<1> QED BY <1>7, <1>8, <1>9, <1>10, <1>11, <1>12, <1>13, <1>14

(* A grant takes its slot, and its port is opened ...                      *)
LEMMA UpsertAccepts ==
  ASSUME TypeInv, AcceptInv, NEW h \in Jobs, UpsertRefresh(h) \/ UpsertNew(h)
  PROVE  AcceptInv'
<1>1. job[h].at = "upsert" /\ UNCHANGED nft /\ job[h] \in JobShape
  BY JobParts DEF UpsertRefresh, UpsertNew, At, TypeInv
<1>2. ASSUME NEW l \in {"entry", "datapath"}, NEW p, Do(h, [job[h] EXCEPT !.at = l, !.port = p]),
             PortsOf(slots) \subseteq PortsOf(slots')
      PROVE  AcceptInv'
  <2> DEFINE k == [job[h] EXCEPT !.at = l, !.port = p]
  <2>1. k.at = l
    BY <1>1 DEF JobShape
  <2>2. Do(h, k)
    BY <1>2
  <2> HIDE DEF k
  <2> QED BY <1>1, <1>2, <2>1, <2>2, AcceptGo
<1>3. CASE UpsertRefresh(h)
  <2>1. PICK s \in slots : /\ slots' = (slots \ {s}) \cup {[s EXCEPT !.stale = FALSE]}
                           /\ Do(h, [job[h] EXCEPT !.at = "entry", !.port = s.bind])
    BY <1>3 DEF UpsertRefresh
  <2>2. s \in SlotType
    BY DEF TypeInv, SlotsInv
  <2>3. [s EXCEPT !.stale = FALSE].bind = s.bind
    BY <2>2 DEF SlotType
  <2>4. PortsOf(slots) \subseteq PortsOf(slots')
    BY <2>1, <2>3 DEF PortsOf
  <2> QED BY <1>2, <2>1, <2>4
<1>4. CASE UpsertNew(h)
  <2>1. PICK p \in FreePorts(slots, {}) : /\ slots' = slots \cup {FSlot(p, job[h].req.client, job[h].req.int)}
                                          /\ Do(h, [job[h] EXCEPT !.at = "datapath", !.port = p])
    BY <1>4 DEF UpsertNew
  <2>2. PortsOf(slots) \subseteq PortsOf(slots')
    BY <2>1 DEF PortsOf
  <2> QED BY <1>2, <2>1, <2>2
<1> QED BY <1>3, <1>4

(* The port of a grant that is not yet up is its own client's slot's. *)
LEMMA PlacedPorts ==
  ASSUME ClientsApart, TypeInv, ApartInv, NEW h \in Jobs, job[h].at \in Placing
  PROVE  /\ \E s \in slots : s.bind = job[h].port /\ s.client \in Ours(h)
         /\ \A g \in Jobs : g # h /\ job[g].at \in Placing => job[g].port # job[h].port
<1>1. ASSUME NEW g \in Jobs, job[g].at \in Placing
      PROVE  \E s \in slots : s.bind = job[g].port /\ s.client \in Ours(g)
  <2>1. job[g].at # "idle" /\ job[g].at \in Indexing
    BY <1>1 DEF Placing, Indexing, Registering
  <2>2. /\ HasSlot(slots, job[g].port, job[g].req)
        /\ Asked(scene.requests, job[g].req) /\ job[g].req.owner \in Ours(g) /\ OneLabelEach(scene.requests)
    BY <2>1, ApartWork DEF Tabled, Task
  <2>3. job[g].req.client = job[g].req.owner
    BY <2>2, AskedIs
  <2> QED BY <2>2, <2>3 DEF HasSlot
<1>2. PortsDistinct(slots)
  BY DEF ApartInv, Shared
<1>3. ASSUME NEW g \in Jobs, g # h, job[g].at \in Placing, job[g].port = job[h].port PROVE FALSE
  <2>1. PICK s \in slots : s.bind = job[g].port /\ s.client \in Ours(g)
    BY <1>1, <1>3
  <2>2. PICK t \in slots : t.bind = job[h].port /\ t.client \in Ours(h)
    BY <1>1
  <2>3. s = t
    BY <1>2, <1>3, <2>1, <2>2 DEF PortsDistinct
  <2> QED BY <1>3, <2>1, <2>2, <2>3, OursApart
<1> QED BY <1>1, <1>3

LEMMA GrantDatapathAccepts ==
  ASSUME ClientsApart, TypeInv, ApartInv, AcceptInv, NEW h \in Jobs, GrantDatapath(h)
  PROVE  AcceptInv'
<1> DEFINE J == job[h]
           p == J.port
<1>1. J.at = "datapath" /\ J \in JobShape /\ UNCHANGED slots
  BY JobParts DEF GrantDatapath, At, TypeInv
<1>2. /\ p \in PortsOf(slots)
      /\ \A g \in Jobs : g # h /\ job[g].at = "undo" => job[g].port # p
  BY <1>1, PlacedPorts DEF Placing, PortsOf
<1>3. ASSUME NEW j, Do(h, j), j.at = "bind", nft' = Granted(nft, p, J.req.client, J.req.int) PROVE AcceptInv'
  <2>1. nft'.accepted = nft.accepted \cup {p}
    BY <1>3 DEF Granted
  <2> QED BY <1>1, <1>2, <1>3, <2>1, AcceptMove DEF Closes
<1>4. ASSUME NEW j, Do(h, j), j.at = "undo", j.port = p, nft' = Revoked(nft, p) PROVE AcceptInv'
  <2>1. nft'.accepted = nft.accepted \ {p}
    BY <1>4 DEF Revoked
  <2> QED BY <1>1, <1>4, <2>1, AcceptMove DEF Closes
<1> DEFINE k(l) == [J EXCEPT !.at = l]
<1>5. \A l : k(l).at = l /\ k(l).port = p
  BY <1>1 DEF JobShape
<1>6. \/ Do(h, k("bind")) /\ nft' = Granted(nft, p, J.req.client, J.req.int)
      \/ Do(h, k("undo")) /\ nft' = Revoked(nft, p)
  BY DEF GrantDatapath, Goto
<1> HIDE DEF k, J, p
<1> QED BY <1>3, <1>4, <1>5, <1>6

(* ... or closed again before the slot is given back.                      *)
LEMMA BindSlotAccepts ==
  ASSUME TypeInv, AcceptInv, NEW h \in Jobs, BindSlot(h)
  PROVE  AcceptInv'
<1> DEFINE J == job[h]
           p == J.port
           k(l) == [J EXCEPT !.at = l]
<1>1. J.at = "bind" /\ J \in JobShape /\ UNCHANGED slots
  BY JobParts DEF BindSlot, At, TypeInv
<1>2. \A l : k(l).at = l /\ k(l).port = p
  BY <1>1 DEF JobShape
<1>3. \/ Do(h, k("register")) /\ UNCHANGED nft
      \/ Do(h, k("undo")) /\ nft' = [nft EXCEPT !.accepted = @ \ {p}]
  BY DEF BindSlot, Goto
<1>4. nft \in NftType
  BY DEF TypeInv, NftInv
<1> HIDE DEF k, J, p
<1>5. CASE Do(h, k("register")) /\ UNCHANGED nft
  BY <1>1, <1>2, <1>5, AcceptGo DEF J
<1>6. CASE Do(h, k("undo")) /\ nft' = [nft EXCEPT !.accepted = @ \ {p}]
  <2>1. nft'.accepted = nft.accepted \ {p}
    BY <1>4, <1>6 DEF NftType
  <2>2. \A q : ~Closes(J, q)
    BY <1>1 DEF Closes
  <2> QED BY <1>1, <1>2, <1>6, <2>1, <2>2, AcceptMove DEF J
<1> QED BY <1>3, <1>5, <1>6

LEMMA UndoSlotAccepts ==
  ASSUME ClientsApart, TypeInv, ApartInv, AcceptInv, NEW h \in Jobs, UndoSlot(h)
  PROVE  AcceptInv'
<1>1. job[h].at = "undo" /\ TableDelete(job[h].port) /\ Do(h, Idling) /\ UNCHANGED nft
  BY DEF UndoSlot, At, Finish
<1>2. job[h].port \notin nft.accepted
  BY <1>1 DEF AcceptInv
<1>3. \A q \in PortsOf(slots) : q \in PortsOf(slots') \/ q = job[h].port
  BY <1>1 DEF TableDelete, PortsOf
<1>4. Idling.at = "idle"
  BY DEF Idling
<1> QED BY <1>1, <1>2, <1>3, <1>4, AcceptMove DEF Closes

(* A teardown takes the slot and then closes its port.                     *)
LEMMA RemoveAccepts ==
  ASSUME TypeInv, AcceptInv, NEW h \in Jobs, Remove(h)
  PROVE  AcceptInv'
<1> DEFINE k == [job[h] EXCEPT !.at = "revoke"]
<1>1. job[h].at = "remove" /\ TableDelete(job[h].old) /\ Do(h, k) /\ UNCHANGED nft
  BY DEF Remove, At, Goto
<1>2. k.at = "revoke" /\ k.old = job[h].old
  BY JobParts DEF TypeInv, JobShape
<1>3. \A q \in PortsOf(slots) : q \in PortsOf(slots') \/ q = job[h].old
  BY <1>1 DEF TableDelete, PortsOf
<1> HIDE DEF k
<1> QED BY <1>1, <1>2, <1>3, AcceptMove DEF Closes

LEMMA RevokeAccepts ==
  ASSUME TypeInv, AcceptInv, NEW h \in Jobs, Revoke(h)
  PROVE  AcceptInv'
<1> DEFINE k == [job[h] EXCEPT !.at = "abort"]
<1>1. nft' = Revoked(nft, job[h].old) /\ Do(h, k) /\ UNCHANGED slots
  BY DEF Revoke, Goto
<1>2. k.at = "abort"
  BY JobParts DEF TypeInv, JobShape
<1>3. nft'.accepted = nft.accepted \ {job[h].old}
  BY <1>1 DEF Revoked
<1> HIDE DEF k
<1> QED BY <1>1, <1>2, <1>3, AcceptMove DEF Closes

LEMMA NextAccepts ==
  ASSUME ClientsApart, TypeInv, ApartInv, AcceptInv, [Next]_vars
  PROVE  AcceptInv'
<1>1. CASE UNCHANGED vars
  BY <1>1 DEF vars, AcceptInv
<1>2. ASSUME NEW h \in Jobs, Step(h) PROVE AcceptInv'
  <2>1. CASE GrantStep(h)
    BY <2>1, UpsertAccepts, WorkAccepts, GrantDatapathAccepts, BindSlotAccepts, UndoSlotAccepts DEF GrantStep
  <2>2. CASE TeardownStep(h)
    BY <2>2, RemoveAccepts, RevokeAccepts, WorkAccepts DEF TeardownStep
  <2>3. ~YieldStep(h)
    <3>1. SUFFICES ASSUME YieldStep(h) PROVE FALSE
      OBVIOUS
    <3>2. job[h].at \in {"move", "rebind", "moveback", "redirect", "reregister", "release", "reindex"}
      BY <3>1 DEF YieldStep, MoveLease, Rebind, MoveBack, Redirect, Reregister, ReleaseOld, Reindex, At
    <3>3. Task(scene.requests, Ours(h), job[h])
      BY <3>2, ApartWork
    <3> QED BY <3>2, <3>3 DEF Task, Indexing, Registering, Placing, Tearing
  <2> QED BY <1>2, <2>1, <2>2, <2>3, WorkAccepts DEF Step
<1> QED BY <1>1, <1>2, StartAccepts, EnvironmentAccepts DEF Next

LEMMA PortsStayClosed == ASSUME ClientsApart PROVE Spec => []AcceptInv
<1>1. Init => AcceptInv
  <2> SUFFICES ASSUME Init PROVE AcceptInv
    OBVIOUS
  <2>1. nft.accepted = statics /\ slots = {FSlot(p, Operator, 0) : p \in statics}
    BY DEF Init
  <2>2. \A p : FSlot(p, Operator, 0).bind = p
    BY DEF FSlot
  <2>3. nft.accepted \subseteq PortsOf(slots)
    BY <2>1, <2>2 DEF PortsOf
  <2>4. \A h \in Jobs : job[h].at = "idle"
    BY DEF Init, Idling
  <2> QED BY <2>3, <2>4 DEF AcceptInv
<1>2. TypeInv /\ ApartInv /\ AcceptInv /\ [Next]_vars => AcceptInv'
  BY NextAccepts
<1> QED BY <1>1, <1>2, Typed, ClientsStayApart, PTL DEF Spec

(* When nothing is under way, every holder's part is whole. *)
LEMMA QuietWhole ==
  ASSUME ClientsApart, TypeInv, ApartInv, Quiet
  PROVE  /\ Shared(slots, entries, socks, tasks) /\ OneLabelEach(scene.requests)
         /\ \A c : Someones(c) =>
              \E h \in Jobs : c \in Ours(h) /\ Whole(scene.requests, Ours(h), slots, entries, socks, tasks)
<1>1. \A h \in Jobs : job[h].at \in Resting
  BY DEF Quiet, Busy, Resting
<1>2. \A h \in Jobs : Whole(scene.requests, Ours(h), slots, entries, socks, tasks)
  BY <1>1, WholeOwn DEF ApartInv
<1> QED BY <1>2, ProperRequests DEF ApartInv, Someones

(* However the handlers of different clients overlap, whichever of their   *)
(* batches and binds fail, and as long as an aborted socket may linger, a  *)
(* quiet daemon has one entry for every granted slot and one slot for      *)
(* every entry (grant_mapping, apply_entry, delete_mapping of upnpsvc.rs). *)
(* The handlers of one client must not overlap: two deletes of one entry   *)
(* both tear its port down.                                                *)
THEOREM EntriesFollowSlots == ASSUME ClientsApart PROVE Spec => []EntriesMatchSlots
<1>1. ASSUME TypeInv, ApartInv PROVE EntriesMatchSlots
  <2> SUFFICES ASSUME Quiet
               PROVE  /\ \A s \in Grants(slots) : \E e \in entries :
                           e.bind = s.bind /\ e.client = s.client /\ e.int = s.int
                      /\ \A e \in entries : \E s \in Grants(slots) :
                           e.bind = s.bind /\ e.client = s.client /\ e.int = s.int
    BY DEF EntriesMatchSlots
  <2>1. /\ \A s \in slots : Someones(s.client)
        /\ \A e \in entries : Someones(e.owner)
        /\ \A r : Asked(scene.requests, r) => r.owner = r.client
    BY <1>1, QuietWhole, AskedIs DEF Shared
  <2>2. ASSUME NEW s \in Grants(slots)
        PROVE  \E e \in entries : e.bind = s.bind /\ e.client = s.client /\ e.int = s.int
    <3>1. s \in slots /\ ~IsStatic(s)
      BY DEF Grants
    <3>2. PICK h \in Jobs : s.client \in Ours(h) /\ Whole(scene.requests, Ours(h), slots, entries, socks, tasks)
      BY <1>1, <2>1, <3>1, QuietWhole
    <3>3. PICK e \in entries : e.bind = s.bind /\ e.owner = s.client /\ e.int = s.int
      BY <3>1, <3>2 DEF Whole, HasEntry
    <3> QED BY <2>1, <3>2, <3>3 DEF Whole
  <2>3. ASSUME NEW e \in entries
        PROVE  \E s \in Grants(slots) : e.bind = s.bind /\ e.client = s.client /\ e.int = s.int
    <3>1. PICK h \in Jobs : e.owner \in Ours(h) /\ Whole(scene.requests, Ours(h), slots, entries, socks, tasks)
      BY <1>1, <2>1, QuietWhole
    <3>2. PICK s \in slots : s.bind = e.bind /\ s.client = e.client /\ s.int = e.int
      BY <3>1 DEF Whole, HasSlot
    <3>3. e.client \in Clients
      BY <1>1 DEF TypeInv, EntriesInv, EntryType
    <3> QED BY <3>2, <3>3, OperatorAssumption DEF Grants, IsStatic
  <2> QED BY <2>2, <2>3
<1> QED BY <1>1, Typed, ClientsStayApart, PTL

(* Under the same conditions every slot has its one live socket, to its    *)
(* own target, no other live socket runs, the registered task handles are  *)
(* exactly those of the granted ports, and the accept set opens no port    *)
(* without a slot (spawn_udp_slot, register_tasks, abort_tasks, and every  *)
(* way grant_datapath and revoke_datapath can meet).  That it opens every  *)
(* slot's port does not hold: a delete revokes by port after its slot has  *)
(* gone, and the port may have been granted again.                         *)
THEOREM SocketsFollowSlots == ASSUME ClientsApart PROVE Spec => []SocketsMatchSlots
<1>1. ASSUME TypeInv, ApartInv, AcceptInv PROVE SocketsMatchSlots
  <2> SUFFICES ASSUME Quiet
               PROVE  /\ {k \in socks : ~k.dying} = {Sock(s.bind, s.client, s.int) : s \in slots}
                      /\ tasks = PortsOf(Grants(slots))
                      /\ nft.accepted \subseteq PortsOf(slots)
    BY DEF SocketsMatchSlots
  <2>1. /\ \A s \in slots : Someones(s.client)
        /\ \A k \in socks : Someones(k.client)
        /\ \A p \in tasks : \E k \in socks : k.port = p /\ ~k.dying /\ k.client # Operator
    BY <1>1, QuietWhole DEF Shared
  <2>2. \A s \in slots : /\ Sock(s.bind, s.client, s.int) \in socks
                         /\ ~IsStatic(s) => s.bind \in tasks
    BY <1>1, <2>1, QuietWhole DEF Whole
  <2>3. \A k \in socks : ~k.dying => \E s \in slots : s.bind = k.port /\ s.client = k.client /\ s.int = k.int
    BY <1>1, <2>1, QuietWhole DEF Whole
  <2>4. ASSUME NEW k \in socks, ~k.dying PROVE \E s \in slots : k = Sock(s.bind, s.client, s.int)
    <3>1. k \in SockType
      BY <1>1 DEF TypeInv, SocksInv
    <3>2. k = Sock(k.port, k.client, k.int)
      BY <2>4, <3>1 DEF SockType, Sock
    <3> QED BY <2>3, <2>4, <3>2
  <2>5. \A s \in slots : ~Sock(s.bind, s.client, s.int).dying
    BY DEF Sock
  <2>6. {k \in socks : ~k.dying} = {Sock(s.bind, s.client, s.int) : s \in slots}
    BY <2>2, <2>4, <2>5
  <2>7. \A p \in tasks : \E s \in slots : s.bind = p /\ ~IsStatic(s)
    BY <2>1, <2>3 DEF IsStatic
  <2>8. tasks = PortsOf(Grants(slots))
    BY <2>2, <2>7 DEF PortsOf, Grants
  <2>9. nft.accepted \subseteq PortsOf(slots)
    <3>1. \A h \in Jobs : job[h].at = "idle"
      BY DEF Quiet, Busy
    <3> QED BY <1>1, <3>1 DEF AcceptInv, Closes
  <2> QED BY <2>6, <2>8, <2>9
<1> QED BY <1>1, Typed, ClientsStayApart, PortsStayClosed, PTL

(* Under the same conditions a teardown takes its own caller's slot off    *)
(* the table: a delete the very mapping it was asked for, although it      *)
(* looked the port up under another lock than it deletes it under, and a   *)
(* grant's stray the caller's own (delete_mapping, apply_entry).           *)
THEOREM TeardownsTakeTheirOwn == ASSUME ClientsApart PROVE Spec => TakesOnlyOwn
<1> DEFINE Takes == \A h \in Jobs : Remove(h) => \A s \in slots \ slots' :
                      CASE job[h].kind = "delete" -> s.client = job[h].req.client /\ s.int = job[h].req.int
                        [] job[h].kind = "evict"  -> s.stale
                        [] job[h].kind = "stray"  -> s.client = job[h].req.client
<1>1. ASSUME TypeInv, ApartInv, NEW h \in Jobs, Remove(h), NEW s \in slots \ slots'
      PROVE  CASE job[h].kind = "delete" -> s.client = job[h].req.client /\ s.int = job[h].req.int
               [] job[h].kind = "evict"  -> s.stale
               [] job[h].kind = "stray"  -> s.client = job[h].req.client
  <2>1. job[h].at = "remove" /\ TableDelete(job[h].old)
    BY <1>1 DEF Remove, At
  <2>2. /\ job[h].kind \in {"delete", "stray"} /\ PortsDistinct(slots)
        /\ \E t \in slots : /\ t.bind = job[h].old /\ t.client = job[h].req.client
                            /\ job[h].kind = "delete" => t.int = job[h].req.int
    BY <1>1, <2>1, ApartWork DEF Task, Tabled, Shared
  <2>3. s.bind = job[h].old
    BY <1>1, <2>1 DEF TableDelete
  <2>4. s.client = job[h].req.client /\ (job[h].kind = "delete" => s.int = job[h].req.int)
    BY <1>1, <2>2, <2>3 DEF PortsDistinct
  <2> QED BY <2>2, <2>4
<1>2. TypeInv /\ ApartInv => [Takes]_vars
  BY <1>1
<1>3. []TypeInv /\ []ApartInv => [][Takes]_vars
  BY <1>2, PTL
<1> QED BY <1>3, Typed, ClientsStayApart DEF TakesOnlyOwn
=============================================================================
