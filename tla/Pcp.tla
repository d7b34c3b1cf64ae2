-------------------------------- MODULE Pcp --------------------------------
(***************************************************************************)
(* The PCP and NAT-PMP server of upnpsvc.rs: one loop that handles one     *)
(* datagram at a time, beside the HTTP handlers and the GC loop, which     *)
(* grant, delete and sweep the same mappings and probe the LAN for clients *)
(* that left.  A grant and a deletion are one step here: their inside is   *)
(* Facade's subject.  A request suggests its internal port as its label,   *)
(* so a label and an owner name one entry.                                 *)
(***************************************************************************)
EXTENDS SlotTable

LOCAL INSTANCE SequencesExt

CONSTANTS
  Lifted,      \* the hosts with a logged-in session, which may use THIRD_PARTY
  PeerEnabled  \* whether the PEER opcode is served

ASSUME LiftedAssumption == Lifted \subseteq Clients
ASSUME PeerAssumption == PeerEnabled \in BOOLEAN

VARIABLES
  slots,    \* the lease table: [bind, client, int]
  entries,  \* the index: [owner, client, int, bind]
  tuples,   \* the ports with a published tuple
  wait,     \* pcp_wait, by port: no wait, or one younger or older than 10 s
  misses,   \* presence_misses, by port
  here,     \* the hosts that are on the LAN
  doomed,   \* the labels [owner, int] the GC loop decided to release
  loop      \* the datagram in hand, or the answer to the last one

vars == <<slots, entries, tuples, wait, misses, here, doomed, loop>>
mappings == <<slots, entries, tuples>>

MISSES_TO_ABSENT == 2

Codes == {"none", "silent", "SUCCESS", "NETWORK_FAILURE", "deleted", "refused"}
Stages == {"idle", "admitted", "peering", "deleting"}

Label(e) == [owner |-> e.owner, int |-> e.int]
EntriesOf(o, i) == {e \in entries : e.owner = o /\ e.int = i}
Asking(l, o, i) == loop.at = l /\ loop.owner = o /\ loop.int = i

Init == /\ slots = {}
        /\ entries = {}
        /\ tuples = {}
        /\ wait = [p \in Ports |-> "none"]
        /\ misses = [p \in Ports |-> 0]
        /\ here = Clients
        /\ doomed = {}
        /\ loop \in {[at |-> "idle", owner |-> o, int |-> i, port |-> 0, code |-> "none"] :
                        o \in Clients, i \in IntPorts}

-----------------------------------------------------------------------------
(* The mapping operations the dialects share. *)

(* apply_entry, for labels that are internal ports: the owner's entry of   *)
(* that internal port stays as it is, whatever client it names.            *)
WithEntry(o, c, i, p) ==
  IF EntriesOf(o, i) # {} THEN entries
  ELSE entries \cup {[owner |-> o, client |-> c, int |-> i, bind |-> p]}

(* grant_mapping for client c on behalf of owner o, onto port p: the slot  *)
(* the client holds, or a new one.                                         *)
GrantTo(o, c, i, p) ==
  /\ \/ \E s \in slots : s = [bind |-> p, client |-> c, int |-> i] /\ UNCHANGED slots
     \/ /\ \A s \in slots : s.client # c \/ s.int # i
        /\ ~OverQuota(slots, c) /\ ~IsFull(slots)
        /\ p \in FreePorts(slots, {})
        /\ slots' = slots \cup {[bind |-> p, client |-> c, int |-> i]}
  /\ entries' = WithEntry(o, c, i, p)
  /\ UNCHANGED tuples

(* A teardown removes the tuple before it aborts the slot's task, which    *)
(* may learn and publish one in between.                                   *)
Teardown(p) == /\ slots' = {s \in slots : s.bind # p}
               /\ tuples' \in {tuples \ {p}, tuples \cup {p}}

(* delete_mapping by label. *)
DeleteLabel(l) == \E e \in entries : /\ Label(e) = l
                                     /\ Teardown(e.bind)
                                     /\ entries' = entries \ EntriesOf(l.owner, l.int)

-----------------------------------------------------------------------------
(* The loop.  The admission of a MAP, then its answer; Done carries the    *)
(* answer of a datagram handled without one.                               *)
Hand(l, o, i, p) ==
  loop' = [at |-> l, owner |-> o, int |-> i, port |-> p, code |-> "none"]
Done(o, i, c) ==
  loop' = [at |-> "idle", owner |-> o, int |-> i, port |-> 0, code |-> c]

(* What is answered without touching a mapping: a datagram that does not   *)
(* parse, a filter, PREFER_FAILURE, a protocol that is not UDP or TCP, a   *)
(* THIRD_PARTY request without the lift, a grant that failed or found no   *)
(* room, a PEER that is off.                                               *)
Refuse(o, i) == /\ loop.at = "idle" /\ o \in here
                /\ Done(o, i, "refused")
                /\ UNCHANGED <<mappings, wait, misses, here, doomed>>

(* admit_map, which both protocols share. *)
Admit(o, c, i) ==
  /\ loop.at = "idle" /\ o \in here
  /\ \E p \in Ports : GrantTo(o, c, i, p) /\ Hand("admitted", o, i, p)
  /\ UNCHANGED <<wait, misses, here, doomed>>

MapRequest(o, c, i) == (c = o \/ o \in Lifted) /\ Admit(o, c, i)

(* NAT-PMP maps for the sender alone; its deletions are DeleteRequest too. *)
NatPmpMap(o, i) == Admit(o, o, i)

(* PEER: the port of the asker's entry; without one nothing is extended.   *)
PeerRequest(o, i) ==
  /\ loop.at = "idle" /\ o \in here
  /\ PeerEnabled
  /\ \/ \E e \in EntriesOf(o, i) : Hand("peering", o, i, e.bind)
     \/ EntriesOf(o, i) = {} /\ Done(o, i, "refused")
  /\ UNCHANGED <<mappings, wait, misses, here, doomed>>

(* Lifetime 0: the entry is looked up, then deleted by its label; if it is *)
(* gone by then the answer is an error, if there was none it is a success. *)
DeleteRequest(o, i) ==
  /\ loop.at = "idle" /\ o \in here
  /\ \/ EntriesOf(o, i) # {} /\ Hand("deleting", o, i, 0)
     \/ EntriesOf(o, i) = {} /\ Done(o, i, "deleted")
  /\ UNCHANGED <<mappings, wait, misses, here, doomed>>

DeleteFound ==
  LET l == [owner |-> loop.owner, int |-> loop.int] IN
  /\ loop.at = "deleting"
  /\ \/ DeleteLabel(l) /\ Done(l.owner, l.int, "deleted")
     \/ /\ EntriesOf(l.owner, l.int) = {}
        /\ Done(l.owner, l.int, "refused")
        /\ UNCHANGED mappings
  /\ UNCHANGED <<wait, misses, here, doomed>>

(* external_tuple: what the publisher has of the port. *)
Known(p) == p \in tuples

(* The tuple is known: it is the answer, and a MAP forgets the wait. *)
AnswerTuple ==
  /\ loop.at \in {"admitted", "peering"}
  /\ Known(loop.port)
  /\ wait' = IF loop.at = "admitted" THEN [wait EXCEPT ![loop.port] = "none"] ELSE wait
  /\ Done(loop.owner, loop.int, "SUCCESS")
  /\ UNCHANGED <<mappings, misses, here, doomed>>

(* Fault: every request starts the wait anew. *)
DiscoveryAnswerRestarts ==
  /\ loop.at \in {"admitted", "peering"}
  /\ ~Known(loop.port)
  /\ wait' = [wait EXCEPT ![loop.port] = "young"]
  /\ Done(loop.owner, loop.int, "silent")
  /\ UNCHANGED <<mappings, misses, here, doomed>>

(* discovery_answer: silence while the port's wait is young. *)
DiscoveryAnswer ==
  LET p == loop.port IN
  /\ loop.at \in {"admitted", "peering"}
  /\ ~Known(p)
  /\ \/ /\ wait[p] = "old"
        /\ wait' = [wait EXCEPT ![p] = "none"]
        /\ Done(loop.owner, loop.int, "NETWORK_FAILURE")
     \/ /\ wait[p] # "old"
        /\ wait' = [wait EXCEPT ![p] = "young"]
        /\ Done(loop.owner, loop.int, "silent")
  /\ UNCHANGED <<mappings, misses, here, doomed>>

Ripen(p) == /\ wait[p] = "young"
            /\ wait' = [wait EXCEPT ![p] = "old"]
            /\ UNCHANGED <<mappings, misses, here, doomed, loop>>

-----------------------------------------------------------------------------
(* The other tasks: a SOAP grant or deletion, the sweep of a silent slot   *)
(* (or its eviction for another grant), and the first confirmed tuple.     *)
OtherGrant(o, c, i) == /\ o \in here
                       /\ c = o \/ o \in Lifted
                       /\ \E p \in Ports : GrantTo(o, c, i, p)
                       /\ UNCHANGED <<wait, misses, here, doomed, loop>>

OtherDelete(o, i) == /\ o \in here
                     /\ DeleteLabel([owner |-> o, int |-> i])
                     /\ UNCHANGED <<wait, misses, here, doomed, loop>>

SweepSlot(s) == /\ Teardown(s.bind)
                /\ entries' = {e \in entries : e.bind # s.bind}
                /\ UNCHANGED <<wait, misses, here, doomed, loop>>

Learn(s) == /\ s.bind \notin tuples
            /\ tuples' = tuples \cup {s.bind}
            /\ UNCHANGED <<slots, entries, wait, misses, here, doomed, loop>>

Leave(h) == h \in here /\ here' = here \ {h}
            /\ UNCHANGED <<mappings, wait, misses, doomed, loop>>
Return(h) == h \notin here /\ here' = here \cup {h}
             /\ UNCHANGED <<mappings, wait, misses, doomed, loop>>

-----------------------------------------------------------------------------
(* reap_absent_clients: every entry's client is probed, in the order of    *)
(* the index, and the miss is counted against the entry's bind port; up    *)
(* are the hosts that answered, which a host on the LAN may fail to do.    *)
(* The labels are released one by one, after the lock is.                  *)
LivePorts == {e.bind : e \in entries}

(* Fault: a sweep starts its count from nothing. *)
CountsKeptNone == [p \in Ports |-> 0]

(* The counters of the ports that still have an entry. *)
CountsKept == [p \in Ports |-> IF p \in LivePorts THEN misses[p] ELSE 0]

(* device_up says so of no host that is away, release_absent of n misses.  *)
Answering(up) == up \subseteq here
ReleaseAbsent(n) == n >= MISSES_TO_ABSENT

(* Fault: the counter stays at the threshold when the label is condemned. *)
ProbeKeepsCount(sofar, e, up) ==
  IF e.client \in up THEN [sofar EXCEPT !.misses[e.bind] = 0]
  ELSE LET n == sofar.misses[e.bind] + 1
       IN  [misses |-> [sofar.misses EXCEPT ![e.bind] = n],
            gone |-> IF ReleaseAbsent(n) THEN sofar.gone \cup {Label(e)} ELSE sofar.gone]

Probe(sofar, e, up) ==
  LET n == sofar.misses[e.bind] + 1
  IN  CASE e.client \in up -> [sofar EXCEPT !.misses[e.bind] = 0]
        [] e.client \notin up /\ ~ReleaseAbsent(n) ->
             [sofar EXCEPT !.misses[e.bind] = n]
        [] e.client \notin up /\ ReleaseAbsent(n) ->
             [sofar EXCEPT !.misses[e.bind] = 0, !.gone = @ \cup {Label(e)}]

Reap(up) ==
  /\ doomed = {}
  /\ Answering(up)
  /\ \E order \in SetToSeqs(entries) :
       LET end == FoldLeft(LAMBDA sofar, e : Probe(sofar, e, up),
                           [misses |-> CountsKept, gone |-> {}], order)
       IN  misses' = end.misses /\ doomed' = end.gone
  /\ UNCHANGED <<mappings, wait, here, loop>>

Release == /\ \E l \in doomed :
                /\ doomed' = doomed \ {l}
                /\ \/ DeleteLabel(l)
                   \/ EntriesOf(l.owner, l.int) = {} /\ UNCHANGED mappings
           /\ UNCHANGED <<wait, misses, here, loop>>

-----------------------------------------------------------------------------
Answer == AnswerTuple \/ DiscoveryAnswer \/ DeleteFound

Next == \/ \E o, c \in Clients, i \in IntPorts : MapRequest(o, c, i) \/ OtherGrant(o, c, i)
        \/ \E o \in Clients, i \in IntPorts :
             \/ Refuse(o, i) \/ NatPmpMap(o, i)
             \/ PeerRequest(o, i) \/ DeleteRequest(o, i) \/ OtherDelete(o, i)
        \/ Answer
        \/ \E p \in Ports : Ripen(p)
        \/ \E s \in slots : SweepSlot(s) \/ Learn(s)
        \/ \E h \in Clients : Leave(h) \/ Return(h)
        \/ \E up \in SUBSET Clients : Reap(up)
        \/ Release

Spec == Init /\ [][Next]_vars

(* The clock runs, the loop finishes the datagram in hand, and the GC loop *)
(* ticks and finishes its releases.  No client is assumed to ask.          *)
FairSpec == /\ Spec
            /\ WF_vars(Answer)
            /\ \A p \in Ports : WF_vars(Ripen(p))
            /\ WF_vars(\E up \in SUBSET Clients : Reap(up))
            /\ WF_vars(Release)

-----------------------------------------------------------------------------
(* Types. *)
TypeOK ==
  /\ slots \subseteq [bind: Ports, client: Clients, int: IntPorts]
  /\ entries \subseteq [owner: Clients, client: Clients, int: IntPorts, bind: Ports]
  /\ tuples \subseteq Ports
  /\ wait \in [Ports -> {"none", "young", "old"}]
  /\ misses \in [Ports -> 0 .. MISSES_TO_ABSENT - 1]
  /\ here \subseteq Clients
  /\ doomed \subseteq [owner: Clients, int: IntPorts]
  /\ loop \in [at: Stages, owner: Clients, int: IntPorts, port: Ports \cup {0}, code: Codes]

(* "Recording the wait so silence does not last forever" (discovery_answer): a client that *)
(* keeps asking about a mapping it keeps is answered again and again.      *)
SilenceEnds ==
  \A o \in Clients, i \in IntPorts, p \in Ports :
    /\ <>[](\E e \in EntriesOf(o, i) : e.bind = p)
    /\ []<>(Asking("admitted", o, i) \/ Asking("peering", o, i))
    => []<>(Asking("idle", o, i) /\ loop.code \in {"SUCCESS", "NETWORK_FAILURE"})

(* The mappings of a client that left for good are released, however often *)
(* the hosts that stay ask, miss a probe or come and go.                   *)
LeaversReleased ==
  \A h \in Clients : <>[](h \notin here) => <>[](\A e \in entries : e.client # h)
=============================================================================
