-------------------------------- MODULE Gena --------------------------------
(***************************************************************************)
(* The eventing side of the facade (GENA): who is subscribed, what each    *)
(* subscriber was told last, and how a change of the mapping table or of   *)
(* the external address becomes NOTIFYs.  A notification is built from     *)
(* state read under four separate locks and delivered with none held, so   *)
(* the jobs that notify interleave step by step.  All subscribers share    *)
(* one containment scope, so they see the same count of mappings.          *)
(***************************************************************************)
EXTENDS Integers, FiniteSets

CONSTANTS
  Handlers,   \* HTTP handlers that change the table or subscribe
  Events,     \* the event loop, which follows the external address
  Sids,       \* subscription ids random_sid can draw
  MaxSubs,    \* MAX_GENA_SUBS
  Addresses,  \* external addresses
  Unknown,    \* Ipv4Addr::UNSPECIFIED: no tuple confirmed yet
  MaxChanges, \* bound on the changes of the table and of the address
  MaxBusy     \* bound on the jobs under way at once

ASSUME EventsAssumption == Events \notin Handlers
ASSUME BoundAssumption == MaxSubs \in Nat /\ MaxChanges \in Nat /\ MaxBusy \in Nat
ASSUME UnknownAssumption == Unknown \notin Addresses /\ "untold" \notin Addresses \cup {Unknown}

VARIABLES
  ext,       \* the external address, as ip_rx holds it
  due,       \* the watch has a value the event loop has not taken
  mappings,  \* number of control-plane entries
  updateId,  \* SystemUpdateID
  subs,      \* live subscriptions: [sid, key, sent, stale]
  drawn,     \* ids drawn so far
  job,       \* what each handler and the event loop are doing
  told,      \* per sid, what its subscriber knows of each variable
  topKey,    \* per sid, the highest eventKey a NOTIFY carried, -1 at first
  changes,   \* changes so far
  disturbed  \* history: two jobs overlapped, one was cut off, or a delivery failed

vars == <<ext, due, mappings, updateId, subs, drawn, job, told, topKey, changes, disturbed>>

Jobs == Handlers \cup {Events}
Nothing == [ext |-> "untold", count |-> -1, id |-> -1]
View(a, n, i) == [ext |-> a, count |-> n, id |-> i]
Now == View(ext, mappings, updateId)
Idling == [at |-> "idle", todo |-> {}, sid |-> "none", force |-> FALSE,
           ext |-> Unknown, count |-> 0, view |-> Nothing, key |-> 0, body |-> {}]

(* Fault: a new subscriber counts as told already. *)
SubKnows(s) == [sid |-> s, key |-> 0, sent |-> Now, stale |-> FALSE]

Sub(s) == [sid |-> s, key |-> 0, sent |-> Nothing, stale |-> FALSE]
SidsOf(S) == {x.sid : x \in S}

Do(h, j) == job' = [job EXCEPT ![h] = j]
At(h, l) == job[h].at = l
Busy == {h \in Jobs : ~At(h, "idle")}
Quiet == Busy = {} /\ ~due

(* A job starts; history notes when another one is under way. *)
Starts(h) == /\ At(h, "idle")
             /\ Cardinality(Busy) < MaxBusy
             /\ disturbed' = (disturbed \/ Busy # {})

Init == /\ ext = Unknown /\ due = FALSE
        /\ mappings = 0 /\ updateId = 0
        /\ subs = {} /\ drawn = {}
        /\ job = [h \in Jobs |-> Idling]
        /\ told = [s \in Sids |-> Nothing]
        /\ topKey = [s \in Sids |-> -1]
        /\ changes = 0
        /\ disturbed = FALSE

-----------------------------------------------------------------------------
(* A slot publishes another external address. *)
Publish == /\ changes < MaxChanges
           /\ changes' = changes + 1
           /\ \E a \in Addresses \ {ext} : ext' = a
           /\ due' = TRUE
           /\ disturbed' = (disturbed \/ Busy # {})
           /\ UNCHANGED <<mappings, updateId, subs, drawn, job, told, topKey>>

(* A grant or a deletion has changed the entries; signal_change follows.   *)
Change(h) == /\ Starts(h)
             /\ changes < MaxChanges
             /\ changes' = changes + 1
             /\ \E n \in {mappings - 1, mappings + 1} : n >= 0 /\ mappings' = n
             /\ Do(h, [Idling EXCEPT !.at = "bump"])
             /\ UNCHANGED <<ext, due, updateId, subs, drawn, told, topKey>>

(* Fault: the id moves twice for one change. *)
BumpTwice(h) == /\ At(h, "bump")
                /\ updateId' = updateId + 2
                /\ Do(h, [job[h] EXCEPT !.at = "list"])
                /\ UNCHANGED <<ext, due, mappings, subs, drawn, told, topKey,
                               changes, disturbed>>

(* bump_update_id *)
Bump(h) == /\ At(h, "bump")
           /\ updateId' = updateId + 1
           /\ Do(h, [job[h] EXCEPT !.at = "list"])
           /\ UNCHANGED <<ext, due, mappings, subs, drawn, told, topKey, changes, disturbed>>

Goes(h, S, j) == Do(h, IF S = {} THEN Idling ELSE [j EXCEPT !.at = "count", !.todo = S])

(* notify_all: the address, then the subscribers of this moment. *)
List(h) == /\ At(h, "list")
           /\ Goes(h, SidsOf(subs), [job[h] EXCEPT !.ext = ext])
           /\ UNCHANGED <<ext, due, mappings, updateId, subs, drawn, told, topKey,
                          changes, disturbed>>

(* The event loop takes the latest address there is. *)
Follow == /\ due
          /\ Starts(Events)
          /\ due' = FALSE
          /\ Goes(Events, SidsOf(subs), [Idling EXCEPT !.ext = ext])
          /\ UNCHANGED <<ext, mappings, updateId, subs, drawn, told, topKey, changes>>

(* gena_subscribe: the subscription is live before its initial event. *)
Subscribe(h, s) ==
  /\ Starts(h)
  /\ s \notin drawn
  /\ Cardinality(subs) < MaxSubs
  /\ drawn' = drawn \cup {s}
  /\ subs' = subs \cup {Sub(s)}
  /\ Goes(h, {s}, [Idling EXCEPT !.ext = ext, !.force = TRUE])
  /\ UNCHANGED <<ext, due, mappings, updateId, told, topKey, changes>>

-----------------------------------------------------------------------------
(* view_for: the count under the entries lock ... *)
Count(h) == /\ At(h, "count")
            /\ \E s \in job[h].todo :
                 Do(h, [job[h] EXCEPT !.at = "id", !.sid = s, !.todo = @ \ {s},
                                      !.count = mappings])
            /\ UNCHANGED <<ext, due, mappings, updateId, subs, drawn, told, topKey,
                           changes, disturbed>>

(* ... and the update id under another. *)
ReadId(h) == /\ At(h, "id")
             /\ Do(h, [job[h] EXCEPT !.at = "offer",
                         !.view = View(job[h].ext, job[h].count, updateId)])
             /\ UNCHANGED <<ext, due, mappings, updateId, subs, drawn, told, topKey,
                            changes, disturbed>>

(* Fault: a moved count is not a reason for an event. *)
MovedWithoutCount(old, new) == {v \in {"ext", "id"} : old[v] # new[v]}

(* propertyset: the variables that moved (the status moves only with the   *)
(* address). *)
Moved(old, new) == {v \in {"ext", "count", "id"} : old[v] # new[v]}

Proceed(h, j) == Goes(h, j.todo, j)

(* notify_view: nothing for a subscription that is gone or has seen it all *)
Offer(h) ==
  LET j    == job[h]
      mine == {x \in subs : x.sid = j.sid}
      Body(x) == IF j.force THEN {"ext", "count", "id"} ELSE Moved(x.sent, j.view)
  IN  /\ At(h, "offer")
      /\ \/ /\ \A x \in mine : Body(x) = {}
            /\ Proceed(h, j)
         \/ \E x \in mine :
              /\ Body(x) # {}
              /\ Do(h, [j EXCEPT !.at = "deliver", !.key = x.key, !.body = Body(x)])
      /\ UNCHANGED <<ext, due, mappings, updateId, subs, drawn, told, topKey,
                     changes, disturbed>>

(* The callback takes the NOTIFY, or it times out or refuses. *)
Deliver(h) ==
  LET j == job[h] IN
  /\ At(h, "deliver")
  /\ topKey' = [topKey EXCEPT ![j.sid] = IF j.key > @ THEN j.key ELSE @]
  /\ \/ /\ told' = [told EXCEPT ![j.sid] =
                      [v \in DOMAIN @ |-> IF v \in j.body THEN j.view[v] ELSE @[v]]]
        /\ UNCHANGED disturbed
     \/ disturbed' = TRUE /\ UNCHANGED told
  /\ Do(h, [j EXCEPT !.at = "record"])
  /\ UNCHANGED <<ext, due, mappings, updateId, subs, drawn, changes>>

(* Fault: the key advances by two. *)
RecordSkips(h) ==
  LET j == job[h]
      Seen(x) == IF x.sid = j.sid THEN [x EXCEPT !.sent = j.view, !.key = j.key + 2] ELSE x
  IN  /\ At(h, "record")
      /\ subs' = {Seen(x) : x \in subs}
      /\ Proceed(h, j)
      /\ UNCHANGED <<ext, due, mappings, updateId, drawn, told, topKey, changes, disturbed>>

(* Either way the view is remembered and the key advances from the one     *)
(* that was sent.                                                          *)
Record(h) ==
  LET j == job[h]
      Seen(x) == IF x.sid = j.sid THEN [x EXCEPT !.sent = j.view, !.key = j.key + 1] ELSE x
  IN  /\ At(h, "record")
      /\ subs' = {Seen(x) : x \in subs}
      /\ Proceed(h, j)
      /\ UNCHANGED <<ext, due, mappings, updateId, drawn, told, topKey, changes, disturbed>>

-----------------------------------------------------------------------------
(* gena_unsubscribe; expiry at twice the timeout, gena_renew, and the      *)
(* pruner, each one critical section.                                      *)
Unsubscribe(x) == subs' = subs \ {x}
Expire(x) == ~x.stale /\ subs' = (subs \ {x}) \cup {[x EXCEPT !.stale = TRUE]}
Renew(x) == x.stale /\ subs' = (subs \ {x}) \cup {[x EXCEPT !.stale = FALSE]}
Prune == (\E x \in subs : x.stale) /\ subs' = {x \in subs : ~x.stale}

Manage == /\ (\E x \in subs : Unsubscribe(x) \/ Expire(x) \/ Renew(x)) \/ Prune
          /\ UNCHANGED <<ext, due, mappings, updateId, drawn, job, told, topKey,
                         changes, disturbed>>

(* http_serve's 30 s timeout drops a handler where it waits. *)
Cancel(h) == /\ ~At(h, "idle")
             /\ Do(h, Idling)
             /\ disturbed' = TRUE
             /\ UNCHANGED <<ext, due, mappings, updateId, subs, drawn, told, topKey, changes>>

-----------------------------------------------------------------------------
Step(h) == Bump(h) \/ List(h) \/ Count(h) \/ ReadId(h) \/ Offer(h) \/ Deliver(h) \/ Record(h)

Next == \/ \E h \in Handlers : Change(h) \/ Cancel(h) \/ \E s \in Sids : Subscribe(h, s)
        \/ \E h \in Jobs : Step(h)
        \/ Publish \/ Follow \/ Manage

Spec == Init /\ [][Next]_vars

-----------------------------------------------------------------------------
(* Types. *)
ViewType == [ext: Addresses \cup {Unknown, "untold"}, count: -1 .. MaxChanges,
             id: -1 .. MaxChanges]
SubType == [sid: Sids, key: Nat, sent: ViewType, stale: BOOLEAN]

TypeOK == /\ ext \in Addresses \cup {Unknown} /\ due \in BOOLEAN
          /\ mappings \in Nat /\ updateId \in 0 .. MaxChanges
          /\ subs \subseteq SubType /\ Cardinality(subs) <= MaxSubs
          /\ SidsOf(subs) \subseteq drawn
          /\ told \in [Sids -> ViewType]
          /\ topKey \in [Sids -> Int]

(* The eventKeys a subscriber sees never leave a gap: every NOTIFY carries *)
(* a key it has seen or the next one, from 0, however the jobs interleave  *)
(* and whatever is lost, so that a gap would mean an event of another      *)
(* sender.                                                                 *)
NoKeySkipped == \A h \in Jobs : At(h, "deliver") => job[h].key <= topKey[job[h].sid] + 1

(* Until a first NOTIFY has been tried, every NOTIFY carries every         *)
(* variable: an event of a concurrent change that overtakes the initial    *)
(* event does not take its place with a part of the view.                  *)
FirstTellsAll == \A h \in Jobs : At(h, "deliver") /\ topKey[job[h].sid] = -1 =>
                   job[h].body = {"ext", "count", "id"}

(* When changes come one after the other and the callbacks answer, every   *)
(* subscriber knows the address, the count and the update id as they are.  *)
AllKnow == Quiet /\ ~disturbed => \A x \in subs : told[x.sid] = Now
=============================================================================
