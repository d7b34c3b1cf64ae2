----------------------------- MODULE StunHealth -----------------------------
(***************************************************************************)
(* How one UDP slot learns and keeps its external tuple: the keepalive     *)
(* loop asks one STUN server a tick and rotates after silence, the receive *)
(* loop feeds every answer to the vote, and the vote decides what is       *)
(* published.  The carrier re-keys the NAT mapping under the daemon; the   *)
(* network loses, delays and duplicates answers.  Both loops share State   *)
(* under a lock they take once per step.                                   *)
(***************************************************************************)
EXTENDS Naturals, FiniteSets, Sequences

CONSTANTS
  Servers,      \* the resolved servers in their configured order: addresses
  Answering,    \* the addresses that answer
  Liars,        \* answering addresses that report Lie, whatever the mapping
  Tuples,       \* external tuples the carrier can map the slot to
  Lie,          \* the tuple a liar reports
  None,         \* no tuple
  VoteSlots,    \* MAX_VOTE_SERVERS
  RotateAfter,  \* State.rotate_after
  MaxRekeys,    \* bound on the carrier's re-keyings
  MaxFaults     \* bound on the answers that are lost, late or duplicated

Addrs == {Servers[k] : k \in DOMAIN Servers}
Honest == Answering \ Liars
Reports == Tuples \cup {Lie}

ASSUME ServerAssumption == /\ Servers \in Seq(Addrs) /\ Servers # <<>>
                           /\ Answering \subseteq Addrs
ASSUME LiarAssumption == Liars \subseteq Answering /\ Lie \notin Tuples
ASSUME NoneAssumption == None \notin Reports
ASSUME BoundAssumption == VoteSlots \in Nat /\ RotateAfter \in Nat
                          /\ MaxRekeys \in Nat /\ MaxFaults \in Nat

VARIABLES
  mapping,    \* the tuple the carrier's NAT maps the slot to now
  rekeys,     \* re-keyings so far
  cur,        \* server_idx, from 1
  silent,     \* silent_ticks
  ka,         \* the keepalive loop: "wait" for the tick, or "sent"
  rx,         \* the receive loop: [at, addr, tuple]
  wire,       \* answers to the last request
  late,       \* answers (and copies) the next tick overtook
  faults,     \* answers lost or late so far
  confirmed,  \* VoteState.confirmed
  pend,       \* VoteState.pend
  published,  \* the tuple the publisher has for the slot
  heard       \* history: answers since confirmed was last heard or moved

vars == <<mapping, rekeys, cur, silent, ka, rx, wire, late, faults,
          confirmed, pend, published, heard>>
network == <<mapping, rekeys, wire, late, faults>>
vote == <<confirmed, pend, published, heard>>

NServers == Len(Servers)
Answer == [addr: Addrs, tuple: Reports]
Listening == [at |-> "listen", addr |-> Servers[1], tuple |-> None]
NoVotes == [k \in 1 .. VoteSlots |-> None]

Init == /\ mapping \in Tuples
        /\ rekeys = 0
        /\ cur = 1
        /\ silent = 0
        /\ ka = "wait"
        /\ rx = Listening
        /\ wire = {} /\ late = {} /\ faults = 0
        /\ confirmed = None /\ pend = NoVotes /\ published = None
        /\ heard = {}

-----------------------------------------------------------------------------
(* The carrier moves the mapping to another tuple. *)
Rekey == /\ rekeys < MaxRekeys
         /\ rekeys' = rekeys + 1
         /\ \E t \in Tuples \ {mapping} : mapping' = t
         /\ UNCHANGED <<cur, silent, ka, rx, wire, late, faults, vote>>

Report(a) == IF a \in Liars THEN Lie ELSE mapping

(* keepalive_loop: ask the current server, which answers with the tuple it *)
(* saw, or is dead.  The ticks are further apart than a round trip and the *)
(* handling of its answer: an answer the next tick overtakes is one that   *)
(* Delay made late.                                                        *)
Ask == /\ ka = "wait" /\ wire = {} /\ rx.at = "listen"
       /\ wire' = {[addr |-> x, tuple |-> Report(x)] : x \in {Servers[cur]} \cap Answering}
       /\ ka' = "sent"
       /\ UNCHANGED <<mapping, rekeys, cur, silent, rx, late, faults, vote>>

(* Fault: the rotation does not wrap around. *)
NextServerPastEnd == cur + 1

NextServer == (cur % NServers) + 1

(* note_silence, after the send: every tick counts, an answer resets.  A   *)
(* lone server has nowhere to rotate to; its count is cut off here.        *)
NoteSilence ==
  /\ ka = "sent"
  /\ ka' = "wait"
  /\ IF silent + 1 >= RotateAfter /\ NServers > 1
     THEN cur' = NextServer /\ silent' = 0
     ELSE silent' = (IF silent < RotateAfter THEN silent + 1 ELSE silent) /\ UNCHANGED cur
  /\ UNCHANGED <<network, rx, vote>>

Lose == /\ faults < MaxFaults
        /\ wire # {} /\ wire' = {}
        /\ faults' = faults + 1
        /\ UNCHANGED <<mapping, rekeys, cur, silent, ka, rx, late, vote>>

(* An answer is overtaken by the next tick, or a copy of it is. *)
Delay == /\ faults < MaxFaults
         /\ \E r \in wire : late' = late \cup {r} /\ wire' \in {wire, {}}
         /\ faults' = faults + 1
         /\ UNCHANGED <<mapping, rekeys, cur, silent, ka, rx, vote>>

-----------------------------------------------------------------------------
(* note_response: any valid answer ends the silence, whatever the vote says. *)
NoteResponse == silent' = 0

(* run_slot: an answer of a configured server ... *)
Receive(r) ==
  /\ rx.at = "listen"
  /\ \/ r \in wire /\ wire' = {} /\ UNCHANGED late
     \/ r \in late /\ late' = late \ {r} /\ UNCHANGED wire
  /\ NoteResponse
  /\ rx' = [at |-> "vote", addr |-> r.addr, tuple |-> r.tuple]
  /\ UNCHANGED <<mapping, rekeys, faults, cur, ka, vote>>

(* server_index: the first configured server with that address. *)
IndexOf(a) == CHOOSE k \in DOMAIN Servers :
                Servers[k] = a /\ \A j \in 1 .. k - 1 : Servers[j] # a

(* The votes with this answer in them; a server beyond the vote's slots    *)
(* has no vote.                                                            *)
Voted(a, t) == [k \in 1 .. VoteSlots |-> IF k = IndexOf(a) THEN t ELSE pend[k]]

Agreed(a, t) == Cardinality({k \in 1 .. VoteSlots : Voted(a, t)[k] = t}) >= 2

(* Fault: hearing the confirmed tuple again leaves the dissents standing. *)
HealKeepsVotes ==
  /\ rx.at = "vote" /\ rx.tuple = confirmed
  /\ heard' = {}
  /\ rx' = Listening
  /\ UNCHANGED <<network, cur, silent, ka, confirmed, pend, published>>

(* ... then observe: the confirmed tuple again forgets the dissents,       *)
Heal == /\ rx.at = "vote" /\ rx.tuple = confirmed
        /\ pend' = NoVotes
        /\ heard' = {}
        /\ rx' = Listening
        /\ UNCHANGED <<network, cur, silent, ka, confirmed, published>>

(* a tuple two votes agree on, or the first one ever, is confirmed and     *)
(* published,                                                              *)
Churn == /\ rx.at = "vote" /\ rx.tuple # confirmed
         /\ Agreed(rx.addr, rx.tuple) \/ confirmed = None
         /\ confirmed' = rx.tuple
         /\ published' = rx.tuple
         /\ pend' = NoVotes
         /\ heard' = {}
         /\ rx' = Listening
         /\ UNCHANGED <<network, cur, silent, ka>>

(* and a lone dissent makes its server suspect ... *)
Disagree == /\ rx.at = "vote" /\ rx.tuple # confirmed
            /\ confirmed # None /\ ~Agreed(rx.addr, rx.tuple)
            /\ pend' = Voted(rx.addr, rx.tuple)
            /\ heard' = heard \cup {[addr |-> rx.addr, tuple |-> rx.tuple]}
            /\ rx' = [rx EXCEPT !.at = "suspect"]
            /\ UNCHANGED <<network, cur, silent, ka, confirmed, published>>

(* Fault: the suspect server is asked again. *)
MarkSuspectStays == /\ rx.at = "suspect"
                    /\ silent' = 0
                    /\ rx' = Listening
                    /\ UNCHANGED <<network, cur, ka, vote>>

(* ... so mark_suspect rotates at once. *)
MarkSuspect == /\ rx.at = "suspect"
               /\ IF NServers > 1 THEN cur' = NextServer /\ silent' = 0
                                  ELSE UNCHANGED <<cur, silent>>
               /\ rx' = Listening
               /\ UNCHANGED <<network, ka, vote>>

-----------------------------------------------------------------------------
Next == \/ Rekey \/ Ask \/ NoteSilence \/ Lose \/ Delay
        \/ \E r \in wire \cup late : Receive(r)
        \/ Heal \/ Churn \/ Disagree \/ MarkSuspect

Spec == Init /\ [][Next]_vars

(* Both loops keep running; the carrier and the network are at rest once   *)
(* their bounds are used up.                                               *)
FairSpec == /\ Spec
            /\ WF_vars(Ask)
            /\ WF_vars(NoteSilence)
            /\ WF_vars(\E r \in wire : Receive(r))
            /\ WF_vars(Heal \/ Churn \/ Disagree)
            /\ WF_vars(MarkSuspect)

-----------------------------------------------------------------------------
(* Types. *)
TypeOK == /\ mapping \in Tuples /\ rekeys \in 0 .. MaxRekeys
          /\ cur \in 1 .. NServers /\ silent \in 0 .. RotateAfter
          /\ ka \in {"wait", "sent"}
          /\ rx \in [at: {"listen", "vote", "suspect"}, addr: Addrs, tuple: Reports \cup {None}]
          /\ wire \subseteq Answer /\ late \subseteq Answer /\ faults \in 0 .. MaxFaults
          /\ confirmed \in Reports \cup {None}
          /\ pend \in [1 .. VoteSlots -> Reports \cup {None}]
          /\ published \in Reports \cup {None}
          /\ heard \subseteq Answer

(* A confirmed tuple moves only on the word of two servers, at different   *)
(* addresses, both heard since the old tuple was last confirmed: neither a *)
(* late copy nor a host listed twice makes up the second one.              *)
MovesOnTwo ==
  [][confirmed # None /\ confirmed' # confirmed =>
       \E r \in heard : r.tuple = confirmed' /\ r.addr # rx.addr]_vars

(* Once the carrier leaves the mapping alone, two honest servers suffice   *)
(* for the slot to publish it, past servers that are dead or lie and past  *)
(* any late answers - unless the first answer of all was the liar's, which *)
(* is confirmed alone and then heals itself.                               *)
Converges == <>[](published = mapping) \/ <>[](confirmed = Lie)
=============================================================================
