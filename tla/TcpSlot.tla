------------------------------- MODULE TcpSlot -------------------------------
(***************************************************************************)
(* A TCP slot's external tuple, from the carrier to the front door.        *)
(* run_connection wakes up at every interval, pokes the front through a    *)
(* folded port, and then asks the server it holds a connection to, or dials *)
(* the next one through another folded port.  What two servers agree on is *)
(* published, and the push tells the front.  A teardown aborts the loop    *)
(* wherever it waits; a respawn finds the folds of the last run.           *)
(***************************************************************************)
EXTENDS Naturals, Sequences, FiniteSets

CONSTANTS
  Servers,    \* the resolved servers in their configured order
  Answering,  \* those that answer STUN over TCP
  Tuples,     \* external tuples the carrier can map the slot to
  Ports,      \* ephemeral ports of the router
  None,
  Attempts    \* of one push

Addrs == {Servers[k] : k \in DOMAIN Servers}
SlotBudget == [grants: Nat, rekeys: Nat, faults: Nat, teardowns: Nat, respawns: Nat]

ASSUME ServersAssumption == Servers \in Seq(Addrs) /\ Servers # <<>>
ASSUME AnsweringAssumption == Answering \subseteq Addrs
ASSUME NoneAssumption == None \notin Tuples \cup Ports
ASSUME AttemptsAssumption == Attempts \in Nat \ {0}

VARIABLES
  mapping,  \* the tuple the carrier maps the slot to now
  slot,     \* "held" in the table, "leaving" between removal and abort, "gone"
  at,       \* where the loop waits: "tick", "poking", "poked", "dialing", "aborted"
  conn,     \* the server of the held connection, 0 for none
  link,     \* what became of that connection: "up", "cut", "mute"
  idx,      \* server_idx, from 1
  using,    \* the local port of the dial or poke under way
  local,    \* last_local
  folds,    \* local ports in snat_map that lead to this slot
  leaked,   \* history: folds whose loop ended without removing them
  vote,     \* VoteState
  tuple,    \* the publisher's tuple of the slot, in memory and in its file
  push,     \* the push under way: its body and the attempts left
  delayed,  \* a body that a failed attempt left on the way
  front,    \* the tuple the front routes the slot to
  left      \* what is left of the bounds

loop == <<at, conn, link, idx, using, local, vote>>
told == <<push, delayed, front>>
slotVars == <<mapping, slot, loop, folds, leaked, tuple, told, left>>

Unheard == [confirmed |-> None, pend |-> [k \in DOMAIN Servers |-> None]]
NoPush == [body |-> None, left |-> 0]

SlotInit == /\ mapping \in Tuples
            /\ slot = "gone" /\ at = "aborted"
            /\ conn = 0 /\ link = "cut" /\ idx = 1
            /\ using = None /\ local = None
            /\ folds = {} /\ leaked = {}
            /\ vote = Unheard /\ tuple = None
            /\ push = NoPush /\ delayed = None /\ front = None

Spend(what) == left[what] > 0 /\ left' = [left EXCEPT ![what] = @ - 1]

-----------------------------------------------------------------------------
(* The votes with server k's in them, and what they make of it. *)
Voted(k, t) == [vote.pend EXCEPT ![k] = t]

Observed(k, t) ==
  IF t = vote.confirmed THEN [vote EXCEPT !.pend = Unheard.pend]
  ELSE IF \/ vote.confirmed = None
          \/ Cardinality({j \in DOMAIN Servers : Voted(k, t)[j] = t}) >= 2
    THEN [Unheard EXCEPT !.confirmed = t]
    ELSE [vote EXCEPT !.pend = Voted(k, t)]

(* An answer is voted on and a move of the confirmed tuple is published. *)
Hear(k) == /\ vote' = Observed(k, mapping)
           /\ tuple' = IF vote'.confirmed = vote.confirmed THEN tuple ELSE vote'.confirmed

(* An ephemeral port that no socket of the slot has. *)
Bindable(p) == p # using /\ ~(conn # 0 /\ p = local)

(* add_pin and del_pin: traffic from the local port leaves as the slot's. *)
WithFold(F, p) == F \cup {p}
WithoutFold(F, p) == F \ {p}

(* The interval is over: the poke leaves through a fold of its own, and a  *)
(* fold that cannot be installed costs the poke. *)
Poke ==
  /\ at = "tick"
  /\ \/ \E p \in Ports : /\ Bindable(p)
                         /\ using' = p /\ folds' = WithFold(folds, p) /\ at' = "poking"
                         /\ UNCHANGED left
     \/ Spend("faults") /\ at' = "poked" /\ UNCHANGED <<using, folds>>
  /\ UNCHANGED <<mapping, slot, conn, link, idx, local, vote, leaked, tuple, told>>

(* Fault: the fold of a poke stays. *)
PokedKeepsFold ==
  /\ at = "poking" /\ at' = "poked"
  /\ using' = None
  /\ UNCHANGED <<mapping, slot, conn, link, idx, local, folds, vote, leaked, tuple, told, left>>

(* The mark was sent, or the dial failed. *)
Poked ==
  /\ at = "poking" /\ at' = "poked"
  /\ using' = None /\ folds' = WithoutFold(folds, using)
  /\ UNCHANGED <<mapping, slot, conn, link, idx, local, vote, leaked, tuple, told, left>>

(* Live: the held connection is asked again.  A mute server is waited for. *)
Refresh ==
  /\ at = "poked" /\ conn # 0 /\ link = "up"
  /\ at' = "tick"
  /\ Hear(conn)
  /\ UNCHANGED <<mapping, slot, conn, link, idx, using, local, folds, leaked, told, left>>

RefreshFails ==
  /\ at = "poked" /\ conn # 0 /\ link = "cut"
  /\ at' = "tick" /\ conn' = 0
  /\ UNCHANGED <<mapping, slot, link, idx, using, local, folds, vote, leaked, tuple, told, left>>

(* Fault: the rotation does not wrap around. *)
NextServerPastEnd == idx + 1

NextServer == (idx % Len(Servers)) + 1

(* Fault: a server that does not answer is dialled again. *)
RedialSame ==
  /\ at = "poked" /\ conn = 0
  /\ local' = None
  /\ \/ \E p \in Ports : /\ Bindable(p)
                         /\ using' = p /\ at' = "dialing"
                         /\ folds' = WithFold(WithoutFold(folds, local), p)
                         /\ UNCHANGED left
     \/ Spend("faults") /\ at' = "tick" /\ folds' = WithoutFold(folds, local) /\ UNCHANGED using
  /\ UNCHANGED <<mapping, slot, conn, link, idx, vote, leaked, tuple, told>>

(* Dead: the fold of the last connection goes, and the next server is      *)
(* dialled through a new one.                                              *)
Redial ==
  /\ at = "poked" /\ conn = 0
  /\ idx' = NextServer
  /\ local' = None
  /\ \/ \E p \in Ports : /\ Bindable(p)
                         /\ using' = p /\ at' = "dialing"
                         /\ folds' = WithFold(WithoutFold(folds, local), p)
                         /\ UNCHANGED left
     \/ Spend("faults") /\ at' = "tick" /\ folds' = WithoutFold(folds, local) /\ UNCHANGED using
  /\ UNCHANGED <<mapping, slot, conn, link, vote, leaked, tuple, told>>

Dialed ==
  /\ at = "dialing" /\ Servers[idx] \in Answering
  /\ at' = "tick"
  /\ conn' = idx /\ link' = "up"
  /\ local' = using /\ using' = None
  /\ Hear(idx)
  /\ UNCHANGED <<mapping, slot, idx, folds, leaked, told, left>>

(* No answer within STUN_TCP_TIMEOUT_SECS, or an error. *)
DialFails ==
  /\ at = "dialing"
  /\ IF Servers[idx] \in Answering THEN Spend("faults") ELSE UNCHANGED left
  /\ at' = "tick"
  /\ using' = None /\ folds' = WithoutFold(folds, using)
  /\ UNCHANGED <<mapping, slot, conn, link, idx, local, vote, leaked, tuple, told>>

-----------------------------------------------------------------------------
(* The carrier moves the mapping under the connection. *)
Rekey == /\ Spend("rekeys")
         /\ \E t \in Tuples \ {mapping} : mapping' = t
         /\ link' = "cut"
         /\ UNCHANGED <<slot, at, conn, idx, using, local, vote, folds, leaked, tuple, told>>

(* The server closes the connection, or keeps it without an answer. *)
Falter == /\ conn # 0 /\ link = "up"
          /\ Spend("faults")
          /\ link' \in {"cut", "mute"}
          /\ UNCHANGED <<mapping, slot, at, conn, idx, using, local, vote, folds, leaked, tuple, told>>

(* delete_mapping: the slot and its tuple go first ... *)
Leave == /\ slot = "held" /\ Spend("teardowns")
         /\ slot' = "leaving" /\ tuple' = None
         /\ UNCHANGED <<mapping, loop, folds, leaked, told>>

(* ... then the loop is aborted where it waits; its folds stay. *)
Abort == /\ slot = "leaving" /\ slot' = "gone"
         /\ at' = "aborted" /\ conn' = 0
         /\ using' = None /\ local' = None
         /\ leaked' = leaked \cup folds
         /\ UNCHANGED <<mapping, link, idx, vote, folds, tuple, told, left>>

Started == /\ slot' = "held" /\ at' = "tick"
           /\ conn' = 0 /\ link' = "cut" /\ idx' = 1
           /\ using' = None /\ local' = None
           /\ vote' = Unheard

(* spawn_tcp_slot: a lease on the port. *)
Grant == /\ slot = "gone" /\ Spend("grants")
         /\ Started
         /\ UNCHANGED <<mapping, folds, leaked, tuple, told>>

(* A respawn finds snat_map and the tuple file as they are. *)
Respawn == /\ Spend("respawns")
           /\ IF slot = "gone" THEN UNCHANGED <<slot, loop>> ELSE Started
           /\ leaked' = leaked \cup folds
           /\ push' = NoPush
           /\ UNCHANGED <<mapping, folds, tuple, delayed, front>>

-----------------------------------------------------------------------------
(* push_to_front: the table's slots with their tuples; none, no push. *)
Entries == IF slot = "held" THEN tuple ELSE None

StartPush == /\ push.left = 0 /\ Entries # None
             /\ push' = [body |-> Entries, left |-> Attempts]
             /\ UNCHANGED <<mapping, slot, loop, folds, leaked, tuple, delayed, front, left>>

Accepted == /\ push.left > 0
            /\ front' = push.body /\ push' = NoPush
            /\ UNCHANGED <<mapping, slot, loop, folds, leaked, tuple, delayed, left>>

(* One attempt less, and nothing more of this push after the last. *)
Retried == IF push.left = 1 THEN NoPush ELSE [push EXCEPT !.left = @ - 1]

(* The attempt does not arrive, or its answer does not, or it arrives late. *)
PushFails == /\ push.left > 0 /\ Spend("faults")
             /\ \/ front' \in {front, push.body} /\ UNCHANGED delayed
                \/ delayed' = push.body /\ UNCHANGED front
             /\ push' = Retried
             /\ UNCHANGED <<mapping, slot, loop, folds, leaked, tuple>>

Deliver == /\ delayed # None
           /\ front' = delayed /\ delayed' = None
           /\ UNCHANGED <<mapping, slot, loop, folds, leaked, tuple, push, left>>

Wake == Poke \/ Poked \/ Refresh \/ RefreshFails \/ Redial \/ Dialed \/ DialFails
Push == StartPush \/ Accepted

SlotNext == Wake \/ Push \/ PushFails \/ Deliver
            \/ Rekey \/ Falter \/ Leave \/ Abort \/ Grant

(* The loop and the push go on, and what was begun ends; Respawn is the   *)
(* whole daemon's.                                                         *)
SlotFairness == /\ WF_slotVars(Wake) /\ WF_slotVars(Push) /\ WF_slotVars(Deliver)
                /\ WF_slotVars(Abort)

-----------------------------------------------------------------------------
SlotTypeOK ==
  /\ mapping \in Tuples
  /\ slot \in {"held", "leaving", "gone"}
  /\ at \in {"tick", "poking", "poked", "dialing", "aborted"}
  /\ conn \in 0 .. Len(Servers) /\ idx \in DOMAIN Servers
  /\ link \in {"up", "cut", "mute"}
  /\ using \in Ports \cup {None} /\ local \in Ports \cup {None}
  /\ folds \subseteq Ports /\ leaked \subseteq Ports
  /\ vote \in [confirmed: Tuples \cup {None}, pend: [DOMAIN Servers -> Tuples \cup {None}]]
  /\ {tuple, delayed, front, push.body} \subseteq Tuples \cup {None}
  /\ push.left \in 0 .. Attempts
  /\ left \in SlotBudget

(* A port is folded to the slot's tuple only for a socket of the slot or,  *)
(* until the next interval, for the connection just lost; but for what an  *)
(* abort or a respawn left.  The held connection keeps its fold.           *)
FoldsOwned == /\ folds \subseteq {using, local} \cup leaked
              /\ conn # 0 => local \in folds

(* Once the carrier and the network are at rest, a slot that is held       *)
(* publishes its true tuple and the front routes to what is published,     *)
(* past dead servers, lost answers and late tables - unless the slot holds *)
(* on to a connection that went mute, or to one server that has the true   *)
(* tuple and makes up one vote only.                                       *)
OneVote == conn # 0 /\ vote.pend[conn] = mapping
LineFollows ==
  /\ <>[](slot = "held" => tuple = mapping \/ OneVote \/ (conn # 0 /\ link = "mute"))
  /\ <>[](Entries # None => front = Entries)
=============================================================================
