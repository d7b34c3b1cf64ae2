----------------------------- MODULE LineProofs -----------------------------
(***************************************************************************)
(* The TCP slot and the carrier watch, for any servers, answering or not,  *)
(* any tuples, ports, windows and bounds.                                  *)
(***************************************************************************)
EXTENDS Line, FiniteSetTheorems, TLAPS

(* The loop has a socket of its own while it pokes or dials; the socket    *)
(* and the held connection have their folds and are not the same.          *)
SocketInv ==
  /\ at \in {"poking", "dialing"} <=> using # None
  /\ using # None => using \in folds
  /\ conn # 0 => local # None /\ using # local
  /\ at = "dialing" => conn = 0 /\ local = None
  /\ at = "aborted" => conn = 0 /\ local = None
  /\ slot = "gone" => at = "aborted"

SlotInv == SlotTypeOK /\ SocketInv /\ FoldsOwned

(* Without the accept sets no probe is counted; with them the counter only *)
(* rises, and since it was last read it has risen if a probe arrived more  *)
(* recently than the watch believes.                                       *)
CountInv ==
  /\ counter.packets > 0 => counter.there
  /\ (\E c \in Chains : chain[c] # {}) => counter.there /\ accepts
  /\ accepts /\ watch.primed => counter.packets >= watch.count
  /\ ~blind /\ watch.primed => watch.age <= quiet \/ counter.packets > watch.count

WatchInv == CarrierTypeOK /\ CountInv

-----------------------------------------------------------------------------
(* The slot. *)
LEMMA ServersAreMany == Len(Servers) \in Nat \ {0} /\ DOMAIN Servers = 1 .. Len(Servers)
BY ServersAssumption

LEMMA NextServerIsServer == ASSUME idx \in DOMAIN Servers PROVE NextServer \in DOMAIN Servers
BY ServersAreMany DEF NextServer

Vote == [confirmed: Tuples \cup {None}, pend: [DOMAIN Servers -> Tuples \cup {None}]]

LEMMA HearTypes ==
  ASSUME SlotTypeOK, NEW k \in DOMAIN Servers, Hear(k)
  PROVE  vote' \in Vote /\ tuple' \in Tuples \cup {None}
<1>1. vote \in Vote /\ mapping \in Tuples /\ tuple \in Tuples \cup {None}
  BY DEF SlotTypeOK, Vote
<1>2. Unheard \in Vote
  BY DEF Unheard, Vote
<1>3. Voted(k, mapping) \in [DOMAIN Servers -> Tuples \cup {None}]
  BY <1>1 DEF Voted, Vote
<1>4. Observed(k, mapping) \in Vote
  BY <1>1, <1>2, <1>3 DEF Observed, Vote
<1> QED BY <1>1, <1>4 DEF Hear, Vote

LEMMA SpendTypes == ASSUME left \in SlotBudget, NEW w \in {"grants", "rekeys", "faults", "teardowns", "respawns"}, Spend(w)
                    PROVE  left' \in SlotBudget
BY DEF Spend, SlotBudget

LEMMA SlotTypes == ASSUME SlotTypeOK, SlotNext \/ Respawn PROVE SlotTypeOK'
<1> USE ServersAreMany, NextServerIsServer, SpendTypes, AttemptsAssumption DEF SlotTypeOK
<1>1. CASE Poke \/ Poked
  BY <1>1 DEF Poke, Poked, WithFold, WithoutFold, told
<1>2. CASE Refresh
  BY <1>2, HearTypes DEF Refresh, Vote, told
<1>3. CASE RefreshFails
  BY <1>3 DEF RefreshFails, told
<1>4. CASE Redial
  BY <1>4 DEF Redial, WithFold, WithoutFold, told
<1>5. CASE Dialed
  BY <1>5, HearTypes DEF Dialed, Vote, told
<1>6. CASE DialFails
  BY <1>6 DEF DialFails, WithoutFold, told
<1>7. CASE Rekey \/ Falter
  BY <1>7 DEF Rekey, Falter, told
<1>8. CASE Leave \/ Abort
  BY <1>8 DEF Leave, Abort, loop, told
<1>9. Unheard \in Vote
  BY DEF Unheard, Vote
<1>10. CASE Grant
  BY <1>9, <1>10 DEF Grant, Started, Vote, told
<1>11. CASE Respawn
  BY <1>9, <1>11 DEF Respawn, Started, Vote, NoPush, loop
<1>12. CASE StartPush
  BY <1>12 DEF StartPush, Entries, loop
<1>13. CASE Accepted \/ Deliver
  BY <1>13 DEF Accepted, Deliver, NoPush, loop
<1>14. CASE PushFails
  BY <1>14 DEF PushFails, Retried, NoPush, loop
<1> QED BY <1>1, <1>2, <1>3, <1>4, <1>5, <1>6, <1>7, <1>8, <1>10, <1>11, <1>12, <1>13, <1>14
        DEF SlotNext, Wake, Push

(* The folds. *)
LEMMA SlotFolds ==
  ASSUME SlotTypeOK, SocketInv, FoldsOwned, SlotNext \/ Respawn
  PROVE  SocketInv' /\ FoldsOwned'
<1> USE NoneAssumption, ServersAreMany DEF SlotTypeOK, SocketInv, FoldsOwned
<1>1. CASE Poke
  BY <1>1 DEF Poke, Bindable, WithFold, told
<1>2. CASE Poked
  BY <1>2 DEF Poked, WithoutFold, told
<1>3. CASE Refresh \/ RefreshFails
  BY <1>3 DEF Refresh, RefreshFails, told
<1>4. CASE Redial
  BY <1>4 DEF Redial, Bindable, WithFold, WithoutFold, told
<1>5. CASE Dialed
  BY <1>5 DEF Dialed, told
<1>6. CASE DialFails
  BY <1>6 DEF DialFails, WithoutFold, told
<1>7. CASE Rekey \/ Falter
  BY <1>7 DEF Rekey, Falter, told
<1>8. CASE Leave \/ Abort
  BY <1>8 DEF Leave, Abort, loop, told
<1>9. CASE Grant
  BY <1>9 DEF Grant, Started, told
<1>10. CASE Respawn
  BY <1>10 DEF Respawn, Started, loop
<1>11. CASE StartPush \/ Accepted \/ Deliver \/ PushFails
  BY <1>11 DEF StartPush, Accepted, Deliver, PushFails, loop
<1> QED BY <1>1, <1>2, <1>3, <1>4, <1>5, <1>6, <1>7, <1>8, <1>9, <1>10, <1>11
        DEF SlotNext, Wake, Push

-----------------------------------------------------------------------------
(* The watch. *)
LEMMA RulesCounted ==
  ASSUME NEW R \in SUBSET Rules
  PROVE  Cardinality(R) \in Nat /\ (R # {} => Cardinality(R) > 0)
<1>1. IsFiniteSet(R)
  <2>1. IsFiniteSet({"this", "older"})
    <3>1. IsFiniteSet({} \cup {"this"})
      BY FS_EmptySet, FS_AddElement
    <3>2. IsFiniteSet(({} \cup {"this"}) \cup {"older"})
      BY <3>1, FS_AddElement
    <3>3. ({} \cup {"this"}) \cup {"older"} = {"this", "older"}
      OBVIOUS
    <3> QED BY <3>2, <3>3
  <2> QED BY <2>1, FS_Subset DEF Rules
<1>2. Cardinality(R) \in Nat
  BY <1>1, FS_CardinalityType
<1>3. Cardinality(R) = 0 <=> R = {}
  BY <1>1, FS_EmptySet
<1> QED BY <1>2, <1>3

Counter == [there: BOOLEAN, packets: Nat]
Watching == [primed: BOOLEAN, count: Nat, age: 0 .. Window, alarmed: BOOLEAN]

LEMMA PresentIsCounter ==
  ASSUME WatchInv
  PROVE  Present \in Counter /\ Present.there /\ Present.packets = counter.packets
<1>1. counter \in Counter /\ (counter.packets > 0 => counter.there)
  BY DEF WatchInv, CountInv, CarrierTypeOK, Counter
<1> QED BY <1>1 DEF Present, Counter

(* What one reading makes of the watch. *)
LEMMA Reading ==
  ASSUME NEW w \in Watching, NEW n \in Nat
  PROVE  /\ ReadCounter(w, n) \in Watching
         /\ ReadCounter(w, n).primed
         /\ ReadCounter(w, n).age = IF w.primed /\ n > w.count THEN 0 ELSE w.age
         /\ ReadCounter(w, n).count = IF w.primed /\ n <= w.count THEN w.count ELSE n
         /\ ReadCounter(w, n).alarmed /\ ~w.alarmed => w.primed /\ n <= w.count /\ w.age >= Window
<1>1. CASE ~w.primed
  BY <1>1 DEF ReadCounter, Watching
<1>2. CASE w.primed /\ n > w.count
  <2>1. ReadCounter(w, n) = [w EXCEPT !.count = n, !.age = 0, !.alarmed = FALSE]
    BY <1>2 DEF ReadCounter
  <2>2. 0 \in 0 .. Window /\ ~(n <= w.count)
    BY <1>2, WindowAssumption DEF Watching
  <2>3. ReadCounter(w, n).alarmed = FALSE
    BY <2>1 DEF Watching
  <2>4. /\ ReadCounter(w, n) \in Watching /\ ReadCounter(w, n).primed = w.primed
        /\ ReadCounter(w, n).age = 0 /\ ReadCounter(w, n).count = n
    BY <2>1, <2>2 DEF Watching
  <2> QED BY <1>2, <2>2, <2>3, <2>4
<1>3. CASE w.primed /\ ~(n > w.count)
  <2> DEFINE a == w.alarmed \/ w.age >= Window
  <2>1. a \in BOOLEAN /\ (a /\ ~w.alarmed => w.age >= Window)
    OBVIOUS
  <2>2. ReadCounter(w, n) = [w EXCEPT !.alarmed = a]
    BY <1>3 DEF ReadCounter
  <2>3. n <= w.count
    BY <1>3 DEF Watching
  <2> HIDE DEF a
  <2> QED BY <1>3, <2>1, <2>2, <2>3 DEF Watching
<1> QED BY <1>1, <1>2, <1>3

LEMMA RecordKeeps ==
  ASSUME WatchInv, Record(counter.packets), UNCHANGED <<accepts, quiet>>,
         cleft' \in CarrierBudget,
         counter' \in Counter, counter'.packets = counter.packets,
         counter'.packets > 0 => counter'.there,
         chain' \in [Chains -> SUBSET Rules],
         (\E c \in Chains : chain'[c] # {}) => counter'.there /\ accepts
  PROVE  WatchInv'
<1> DEFINE n == counter.packets
<1>1. /\ counter \in Counter /\ watch \in Watching /\ n \in Nat
      /\ quiet \in 0 .. Window /\ blind \in BOOLEAN
  BY DEF WatchInv, CarrierTypeOK, Counter, Watching
<1>2. watch' = ReadCounter(watch, n)
  BY DEF Record
<1>3. watch' \in Watching
  BY <1>1, <1>2, Reading
<1>4. blind' \in BOOLEAN
  BY DEF Record, WatchInv, CarrierTypeOK
<1>5. CarrierTypeOK'
  BY <1>3, <1>4 DEF WatchInv, CarrierTypeOK, Counter, Watching
<1>6. accepts' => counter'.packets >= watch'.count
  BY <1>1, <1>2, Reading DEF WatchInv, CountInv
<1>7. ~blind' => watch'.age <= quiet' \/ counter'.packets > watch'.count
  <2>1. watch'.age = (IF watch.primed /\ n > watch.count THEN 0 ELSE watch.age)
        /\ watch'.count = (IF watch.primed /\ n <= watch.count THEN watch.count ELSE n)
    BY <1>1, <1>2, Reading
  <2>2. CASE watch.primed /\ n > watch.count
    BY <1>1, <2>1, <2>2
  <2>3. CASE watch.primed /\ ~(n > watch.count)
    <3>1. ~blind' => ~blind
      <4>1. n <= watch.count
        BY <1>1, <2>3 DEF Watching, Counter
      <4>2. blind' = (blind /\ n <= watch.count)
        BY <2>3 DEF Record
      <4> QED BY <4>1, <4>2
    <3>2. ~blind => watch.age <= quiet
      BY <2>3 DEF WatchInv, CountInv
    <3> QED BY <2>1, <2>3, <3>1, <3>2
  <2>4. CASE ~watch.primed
    <3>1. ~blind' => ~(quiet < watch.age)
      BY <2>4 DEF Record
    <3>2. watch.age \in Nat /\ quiet \in Nat
      BY <1>1, WindowAssumption DEF Watching
    <3> QED BY <2>1, <2>4, <3>1, <3>2
  <2> QED BY <2>2, <2>3, <2>4
<1>8. CountInv'
  BY <1>6, <1>7 DEF CountInv
<1> QED BY <1>5, <1>8 DEF WatchInv

LEMMA EnsuredKeeps ==
  ASSUME WatchInv
  PROVE  /\ Ensured \in [Chains -> SUBSET Rules]
         /\ (\E c \in Chains : Ensured[c] # {}) => accepts
BY DEF WatchInv, CarrierTypeOK, CountInv, Ensured, Chains, Rules

LEMMA WatchKeeps == ASSUME WatchInv, CarrierNext PROVE WatchInv'
<1> USE DEF Counter
<1>1. /\ counter \in Counter /\ watch \in Watching /\ counter.packets \in Nat
      /\ quiet \in 0 .. Window /\ blind \in BOOLEAN /\ chain \in [Chains -> SUBSET Rules]
      /\ cleft \in CarrierBudget /\ accepts \in BOOLEAN
  BY DEF WatchInv, CarrierTypeOK, Watching
<1>2. ASSUME NEW what \in {"probes", "rebuilds", "blips"}, SpendC(what) PROVE cleft' \in CarrierBudget
  BY <1>1, <1>2 DEF SpendC, CarrierBudget
<1>3. ASSUME NEW c \in Chains, Arrive(c) PROVE WatchInv'
  <2> DEFINE n == Cardinality(chain[c])
  <2>1. n \in Nat /\ (chain[c] # {} => n > 0)
    BY <1>1, RulesCounted
  <2>2. counter' = [counter EXCEPT !.packets = @ + n]
    BY <1>3 DEF Arrive
  <2> HIDE DEF n
  <2>3. counter' \in Counter /\ counter'.packets = counter.packets + n /\ counter'.there = counter.there
    BY <1>1, <2>1, <2>2
  <2>4. n = 0 => chain[c] = {}
    BY <2>1
  <2>5. chain[c] = {} => n = 0
    BY FS_EmptySet DEF n
  <2>6. UNCHANGED <<chain, accepts, watch>> /\ quiet' = 0 /\ quiet' \in 0 .. Window
    BY <1>3, WindowAssumption DEF Arrive
  <2>7. blind' = (blind \/ chain[c] = {})
    BY <1>3 DEF Arrive
  <2>8. CarrierTypeOK'
    <3>1. blind' \in BOOLEAN
      BY <2>7
    <3>2. cleft' \in CarrierBudget
      BY <1>2, <1>3 DEF Arrive
    <3> QED BY <1>1, <2>3, <2>6, <3>1, <3>2 DEF CarrierTypeOK, Watching
  <2>9. counter'.packets > 0 => counter'.there
    BY <1>1, <2>1, <2>3, <2>5 DEF WatchInv, CountInv
  <2>10. (\E d \in Chains : chain'[d] # {}) => counter'.there /\ accepts'
    BY <2>3, <2>6 DEF WatchInv, CountInv
  <2>11. accepts' /\ watch'.primed => counter'.packets >= watch'.count
    BY <1>1, <2>1, <2>3, <2>6 DEF WatchInv, CountInv, Watching
  <2>12. ~blind' /\ watch'.primed => counter'.packets > watch'.count
    <3>1. ~blind' => chain[c] # {}
      BY <2>7
    <3>2. chain[c] # {} => accepts /\ n > 0
      BY <2>1 DEF WatchInv, CountInv
    <3>3. accepts /\ watch.primed => counter.packets >= watch.count
      BY DEF WatchInv, CountInv
    <3>4. watch.count \in Nat
      BY <1>1 DEF Watching
    <3> QED BY <1>1, <2>1, <2>3, <2>6, <3>1, <3>2, <3>3, <3>4
  <2> QED BY <2>8, <2>9, <2>10, <2>11, <2>12 DEF WatchInv, CountInv
<1>4. CASE Rebuild
  <2>1. chain' = [c \in Chains |-> {}] /\ UNCHANGED <<watch, quiet>> /\ cleft' \in CarrierBudget
    BY <1>2, <1>4 DEF Rebuild
  <2>2. CASE UNCHANGED <<counter, accepts, blind>>
    BY <1>1, <2>1, <2>2 DEF WatchInv, CountInv, CarrierTypeOK, Watching
  <2>3. CASE /\ counter' = NoCounter /\ accepts' = FALSE
             /\ blind' = (blind \/ counter.packets > watch.count)
    <3>1. counter' \in Counter /\ counter'.packets = 0
      BY <2>3 DEF NoCounter
    <3>2. accepts' = FALSE /\ blind' \in BOOLEAN
      BY <2>3
    <3>3. ~blind' /\ watch'.primed => watch'.age <= quiet'
      BY <2>1, <2>3 DEF WatchInv, CountInv
    <3>4. CarrierTypeOK'
      BY <1>1, <2>1, <3>1, <3>2 DEF CarrierTypeOK, Watching
    <3> QED BY <2>1, <3>1, <3>2, <3>3, <3>4 DEF WatchInv, CountInv
  <2> QED BY <1>4, <2>2, <2>3 DEF Rebuild
<1>5. CASE Pass
  <2>1. watch' = [watch EXCEPT !.age = Saturating(@)] /\ quiet' = Saturating(quiet)
        /\ UNCHANGED <<chain, counter, accepts, blind, cleft>>
    BY <1>5 DEF Pass
  <2>2. watch.age \in 0 .. Window /\ Window \in Nat
    BY <1>1, WindowAssumption DEF Watching
  <2>3. /\ Saturating(watch.age) \in 0 .. Window /\ quiet' \in 0 .. Window
        /\ watch.age <= quiet => Saturating(watch.age) <= quiet'
    BY <1>1, <2>1, <2>2 DEF Saturating
  <2>4. /\ watch' \in Watching /\ watch'.age = Saturating(watch.age)
        /\ watch'.primed = watch.primed /\ watch'.count = watch.count
    BY <1>1, <2>1, <2>3 DEF Watching
  <2> QED BY <1>1, <2>1, <2>3, <2>4 DEF WatchInv, CountInv, CarrierTypeOK, Watching
<1>6. CASE Poll
  <2>1. /\ counter' = Present /\ chain' = Ensured /\ Record(counter.packets)
        /\ UNCHANGED <<accepts, quiet, cleft>>
    BY <1>6, PresentIsCounter DEF Poll
  <2> QED BY <1>1, <2>1, PresentIsCounter, EnsuredKeeps, RecordKeeps
<1>7. CASE PollFails
  <2>1. UNCHANGED <<accepts, quiet>> /\ cleft' \in CarrierBudget
    BY <1>2, <1>7 DEF PollFails
  <2>2. CASE UNCHANGED <<chain, counter, watch, blind>>
    BY <1>1, <2>1, <2>2 DEF WatchInv, CountInv, CarrierTypeOK, Watching
  <2>3. CASE counter' = Present /\ chain' = Ensured /\ UNCHANGED <<watch, blind>>
    BY <1>1, <2>1, <2>3, PresentIsCounter, EnsuredKeeps
       DEF WatchInv, CountInv, CarrierTypeOK, Watching
  <2>4. CASE Record(counter.packets) /\ UNCHANGED <<chain, counter>>
    BY <1>1, <2>1, <2>4, RecordKeeps DEF WatchInv, CountInv
  <2> QED BY <1>7, <2>2, <2>3, <2>4 DEF PollFails
<1> QED BY <1>3, <1>4, <1>5, <1>6, <1>7 DEF CarrierNext

(* Only a reading raises the alarm, and only over an old last probe. *)
Alarms == ~watch.alarmed /\ watch'.alarmed

LEMMA ReadingAlarms ==
  ASSUME WatchInv, Record(counter.packets), Alarms
  PROVE  quiet = Window \/ blind
<1>1. /\ watch \in Watching /\ counter.packets \in Nat /\ quiet \in 0 .. Window
      /\ watch' = ReadCounter(watch, counter.packets)
  BY DEF WatchInv, CarrierTypeOK, Watching, Record
<1>2. watch.primed /\ counter.packets <= watch.count /\ watch.age >= Window
  BY <1>1, Reading DEF Alarms
<1>3. ~blind => watch.age <= quiet
  <2>1. ~(counter.packets > watch.count)
    BY <1>1, <1>2 DEF Watching
  <2> QED BY <1>2, <2>1 DEF WatchInv, CountInv
<1>4. watch.age <= quiet => quiet = Window
  BY <1>1, <1>2, WindowAssumption DEF Watching
<1> QED BY <1>3, <1>4

LEMMA StepAlarms ==
  ASSUME WatchInv, CarrierNext, Alarms
  PROVE  quiet = Window \/ blind
<1>1. CASE Record(counter.packets)
  BY <1>1, ReadingAlarms
<1>2. CASE UNCHANGED watch
  BY <1>2 DEF Alarms
<1>3. ~Pass
  <2> SUFFICES ASSUME Pass PROVE FALSE
    OBVIOUS
  <2>1. watch \in Watching /\ watch' = [watch EXCEPT !.age = Saturating(@)]
    BY DEF Pass, WatchInv, CarrierTypeOK, Watching
  <2>2. watch'.alarmed = watch.alarmed
    BY <2>1 DEF Watching
  <2> QED BY <2>2 DEF Alarms
<1> QED BY <1>1, <1>2, <1>3, PresentIsCounter DEF CarrierNext, Arrive, Rebuild, Poll, PollFails

-----------------------------------------------------------------------------
LineInv == SlotInv /\ WatchInv

LEMMA InitLine == Init => LineInv
<1> SUFFICES ASSUME Init PROVE LineInv
  OBVIOUS
<1>1. PICK b \in Budgets : left = b.slot /\ cleft = b.watch
  BY DEF Init
<1>2. left \in SlotBudget /\ cleft \in CarrierBudget
  BY <1>1, BudgetAssumption
<1>3. SlotTypeOK
  <2>1. Unheard \in Vote
    BY DEF Unheard, Vote
  <2> QED BY <1>2, <2>1, ServersAreMany, AttemptsAssumption DEF Init, SlotInit, SlotTypeOK, Vote, NoPush
<1>4. SocketInv /\ FoldsOwned
  BY DEF Init, SlotInit, SocketInv, FoldsOwned
<1>7. counter \in Counter /\ (counter.packets > 0 => counter.there)
  <2>1. counter = NoCounter \/ counter \in [there: {TRUE}, packets: {1}]
    BY DEF Init, CarrierInit
  <2>2. CASE counter = NoCounter
    <3>1. NoCounter \in Counter /\ NoCounter.packets = 0
      BY DEF NoCounter, Counter
    <3> QED BY <2>2, <3>1
  <2>3. CASE counter \in [there: {TRUE}, packets: {1}]
    <3>1. counter.there = TRUE
      BY <2>3
    <3>3. TRUE \in BOOLEAN /\ 1 \in Nat
      OBVIOUS
    <3>2. counter \in Counter
      BY ZenonT(20), <2>3, <3>1, <3>3 DEF Counter
    <3> QED BY <3>1, <3>2
  <2> QED BY <2>1, <2>2, <2>3
<1>5. CarrierTypeOK
  <2>1. watch \in Watching
    BY WindowAssumption DEF Init, CarrierInit, New, Watching
  <2>2. blind \in BOOLEAN /\ accepts \in BOOLEAN
    BY DEF Init, CarrierInit
  <2>3. quiet \in 0 .. Window
    BY WindowAssumption DEF Init, CarrierInit
  <2>4. chain \in [Chains -> SUBSET Rules]
    BY DEF Init, CarrierInit, Rules
  <2> QED BY <1>2, <1>7, <2>1, <2>2, <2>3, <2>4 DEF CarrierTypeOK, Watching, Counter
<1>6. CountInv
  <2>1. ~watch.primed
    BY DEF Init, CarrierInit, New
  <2> QED BY <1>7, <2>1 DEF Init, CarrierInit, CountInv
<1> QED BY <1>3, <1>4, <1>5, <1>6 DEF LineInv, SlotInv, WatchInv

LEMMA NextLine == LineInv /\ [Next]_vars => LineInv'
<1> SUFFICES ASSUME LineInv, [Next]_vars PROVE LineInv'
  OBVIOUS
<1>1. SlotNext \/ Respawn \/ UNCHANGED slotVars
  BY DEF Next, vars, Restart
<1>2. CarrierNext \/ Restart \/ UNCHANGED carrierVars
  BY DEF Next, vars
<1>3. SlotInv'
  <2>1. CASE UNCHANGED slotVars
    BY <2>1 DEF LineInv, SlotInv, SlotTypeOK, SocketInv, FoldsOwned, slotVars, loop, told
  <2> QED BY <1>1, <2>1, SlotTypes, SlotFolds DEF LineInv, SlotInv
<1>4. WatchInv'
  <2>1. CASE UNCHANGED carrierVars
    BY <2>1 DEF LineInv, WatchInv, CarrierTypeOK, CountInv, carrierVars
  <2>2. CASE Restart
    <3>1. /\ UNCHANGED <<chain, counter, cleft>> /\ watch' = New /\ quiet' = 0
          /\ blind' = FALSE /\ accepts' = TRUE
      BY <2>2 DEF Restart
    <3>2. New \in Watching /\ ~New.primed /\ 0 \in 0 .. Window
      BY WindowAssumption DEF New, Watching
    <3>3. blind' \in BOOLEAN /\ accepts' \in BOOLEAN
      BY <3>1
    <3>4. CarrierTypeOK'
      BY <3>1, <3>2, <3>3 DEF LineInv, WatchInv, CarrierTypeOK, Watching
    <3>5. CountInv'
      BY <3>1, <3>2 DEF LineInv, WatchInv, CountInv
    <3> QED BY <3>4, <3>5 DEF WatchInv
  <2> QED BY <1>2, <2>1, <2>2, WatchKeeps DEF LineInv
<1> QED BY <1>3, <1>4 DEF LineInv

LEMMA LineInvariant == Spec => []LineInv
BY InitLine, NextLine, PTL DEF Spec

-----------------------------------------------------------------------------
(* Types, whatever fails, moves or restarts. *)
THEOREM LineTypes == Spec => []TypeOK
<1>1. LineInv => TypeOK
  BY DEF LineInv, SlotInv, WatchInv, TypeOK
<1> QED BY LineInvariant, <1>1, PTL

(* run_connection (tcpslot.rs) removes the fold of every socket it drops,  *)
(* wherever a dial or a poke fails: only an abort or a respawn leaves one, *)
(* and the held connection never loses its own to a poke.                  *)
THEOREM FoldsAreOwned == Spec => []FoldsOwned
<1>1. LineInv => FoldsOwned
  BY DEF LineInv, SlotInv
<1> QED BY LineInvariant, <1>1, PTL

(* Watch::poll (carrier.rs) reports a silence only when no probe came for  *)
(* the whole window, or one came while nothing counted it.                 *)
THEOREM AlarmsAreTrue == Spec => AlarmsTrue
<1>1. LineInv /\ [Next]_vars => [~watch.alarmed /\ watch'.alarmed => quiet = Window \/ blind]_carrierVars
  <2> SUFFICES ASSUME LineInv, [Next]_vars, Alarms PROVE quiet = Window \/ blind
    BY DEF Alarms
  <2>1. CASE Restart
    <3>1. watch' = New /\ New.alarmed = FALSE
      BY <2>1 DEF Restart, New
    <3> QED BY <3>1 DEF Alarms
  <2>2. CASE UNCHANGED carrierVars
    BY <2>2 DEF Alarms, carrierVars
  <2> QED BY <2>1, <2>2, StepAlarms DEF Next, vars, LineInv
<1> QED BY LineInvariant, <1>1, PTL DEF Spec, AlarmsTrue
=============================================================================
