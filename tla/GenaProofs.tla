------------------------------ MODULE GenaProofs ------------------------------
(***************************************************************************)
(* Eventing, for any number of handlers, subscribers and changes: what no  *)
(* interleaving of the notifying jobs does to the event keys and to the    *)
(* first event, and what every subscriber knows after undisturbed changes. *)
(***************************************************************************)
EXTENDS Gena, FiniteSetTheorems, TLAPS

Stages == {"idle", "bump", "list", "count", "id", "offer", "deliver", "record"}
Address == Addresses \cup {Unknown}
Full == {"ext", "count", "id"}

(* A view that was read, and a job of any stage. *)
Real == [ext: Address, count: 0 .. MaxChanges, id: 0 .. MaxChanges]
JobType == [at: Stages, todo: SUBSET Sids, sid: Sids \cup {"none"}, force: BOOLEAN,
            ext: Address, count: 0 .. MaxChanges, view: Real \cup {Nothing}, key: Nat,
            body: SUBSET Full]

(* Each pending bump is owed to a change of its own. *)
Bumping == {h \in Jobs : At(h, "bump")}
CountersOK == /\ changes \in 0 .. MaxChanges /\ mappings <= changes
              /\ IsFiniteSet(Bumping)
              /\ updateId + Cardinality(Bumping) <= changes

(* A job is about subscribers that were there, and offers what it read. *)
Offering(h) == job[h].at \in {"offer", "deliver", "record"}
Telling(h) == At(h, "id") \/ Offering(h)
JobsOK == /\ job \in [Jobs -> JobType]
          /\ \A h \in Jobs : /\ job[h].todo \subseteq drawn
                             /\ Telling(h) => job[h].sid \in drawn
                             /\ Offering(h) => job[h].view \in Real

TypeInv == /\ TypeOK /\ CountersOK /\ JobsOK
           /\ IsFiniteSet(subs) /\ drawn \subseteq Sids /\ disturbed \in BOOLEAN

-----------------------------------------------------------------------------
LEMMA DoIsDone ==
  ASSUME job \in [Jobs -> JobType], NEW h \in Jobs, NEW j \in JobType, Do(h, j)
  PROVE  /\ job' \in [Jobs -> JobType]
         /\ job'[h] = j
         /\ \A g \in Jobs : g # h => job'[g] = job[g]
BY DEF Do

LEMMA Bounds == MaxSubs \in Nat /\ MaxChanges \in Nat /\ MaxBusy \in Nat
BY BoundAssumption

LEMMA IdlingIsJob == Idling \in JobType /\ Idling.at = "idle" /\ Idling.todo = {}
BY Bounds DEF Idling, JobType, Stages, Address

LEMMA NothingIsUnreal == Nothing \in ViewType /\ Nothing \notin Real /\ Real \subseteq ViewType
BY Bounds, UnknownAssumption DEF Nothing, Real, ViewType, Address

(* What is read of the state is a view. *)
LEMMA ViewIsReal ==
  ASSUME NEW a \in Address, NEW n \in 0 .. MaxChanges, NEW i \in 0 .. MaxChanges
  PROVE  View(a, n, i) \in Real
BY DEF View, Real

-----------------------------------------------------------------------------
LEMMA InitTypes == Init => TypeInv
<1> SUFFICES ASSUME Init PROVE TypeInv
  OBVIOUS
<1> USE Bounds, IdlingIsJob, NothingIsUnreal
<1>1. IsFiniteSet({}) /\ Cardinality({}) = 0
  BY FS_EmptySet
<1>2. Bumping = {}
  BY DEF Init, Bumping, At
<1>3. TypeOK
  <2>1. due \in BOOLEAN /\ subs = {} /\ SidsOf(subs) = {} /\ drawn = {}
    BY DEF Init, SidsOf
  <2>2. ext \in Addresses \cup {Unknown} /\ mappings \in Nat /\ updateId \in 0 .. MaxChanges
    BY DEF Init
  <2>3. told \in [Sids -> ViewType] /\ topKey \in [Sids -> Int]
    BY DEF Init
  <2> QED BY <1>1, <2>1, <2>2, <2>3 DEF TypeOK
<1>4. CountersOK
  BY <1>1, <1>2 DEF Init, CountersOK
<1>5. JobsOK
  BY DEF Init, JobsOK, Telling, Offering, At
<1> QED BY <1>1, <1>3, <1>4, <1>5 DEF TypeInv, Init

(* A step that puts one job at another stage keeps the jobs typed, ...     *)
LEMMA JobsKept ==
  ASSUME TypeInv, NEW h \in Jobs, NEW j \in JobType, Do(h, j),
         drawn \subseteq drawn', j.todo \subseteq drawn',
         j.at \in {"id", "offer", "deliver", "record"} => j.sid \in drawn',
         j.at \in {"offer", "deliver", "record"} => j.view \in Real
  PROVE  JobsOK'
BY DoIsDone DEF TypeInv, JobsOK, Telling, Offering, At

(* ... and no bump more is owed unless that stage is the bump. *)
LEMMA CountersKept ==
  ASSUME TypeInv, NEW h \in Jobs, NEW j \in JobType, Do(h, j), j.at # "bump",
         UNCHANGED <<changes, mappings, updateId>>
  PROVE  CountersOK'
<1>1. Bumping' \subseteq Bumping
  BY DoIsDone DEF TypeInv, JobsOK, Bumping, At
<1>2. IsFiniteSet(Bumping') /\ Cardinality(Bumping') <= Cardinality(Bumping)
      /\ Cardinality(Bumping') \in Nat /\ Cardinality(Bumping) \in Nat
  BY <1>1, FS_Subset, FS_CardinalityType DEF TypeInv, CountersOK
<1> QED BY <1>2 DEF TypeInv, CountersOK, TypeOK

(* A stage that reads or sends, with the rest of the state as it is. *)
LEMMA StageTypes ==
  ASSUME TypeInv, NEW h \in Jobs, NEW j \in JobType, Do(h, j), j.at # "bump",
         j.todo \subseteq drawn,
         j.at \in {"id", "offer", "deliver", "record"} => j.sid \in drawn,
         j.at \in {"offer", "deliver", "record"} => j.view \in Real,
         UNCHANGED <<ext, due, mappings, updateId, subs, drawn, changes>>,
         told' \in [Sids -> ViewType], topKey' \in [Sids -> Int], disturbed' \in BOOLEAN
  PROVE  TypeInv'
<1>1. JobsOK' /\ CountersOK'
  BY JobsKept, CountersKept
<1> QED BY <1>1 DEF TypeInv, TypeOK, SidsOf

(* The next subscriber of a job that has any left. *)
LEMMA GoesOn ==
  ASSUME TypeInv, NEW S, S \subseteq drawn, NEW j \in JobType
  PROVE  LET k == IF S = {} THEN Idling ELSE [j EXCEPT !.at = "count", !.todo = S]
         IN  k \in JobType /\ k.at \in {"idle", "count"} /\ k.todo \subseteq drawn
BY IdlingIsJob DEF TypeInv, JobType, Stages

-----------------------------------------------------------------------------
(* The stages of a job under way. *)
LEMMA BumpTypes == ASSUME TypeInv, NEW h \in Jobs, Bump(h) PROVE TypeInv'
<1> DEFINE j == [job[h] EXCEPT !.at = "list"]
<1> USE Bounds
<1>1. j \in JobType /\ j.at = "list" /\ j.todo \subseteq drawn /\ Do(h, j)
  BY DEF TypeInv, JobsOK, JobType, Stages, Bump
<1>2. JobsOK'
  <2> HIDE DEF j
  <2> QED BY <1>1, JobsKept DEF Bump
<1>3. Bumping' = Bumping \ {h} /\ h \in Bumping
  <2> HIDE DEF j
  <2> QED BY <1>1, DoIsDone DEF TypeInv, JobsOK, Bumping, At, Bump
<1>4. IsFiniteSet(Bumping') /\ Cardinality(Bumping') = Cardinality(Bumping) - 1
      /\ Cardinality(Bumping') \in Nat /\ Cardinality(Bumping) \in Nat
  BY <1>3, FS_RemoveElement, FS_CardinalityType DEF TypeInv, CountersOK
<1>5. CountersOK' /\ updateId' \in 0 .. MaxChanges
  BY <1>4 DEF TypeInv, TypeOK, CountersOK, Bump
<1> QED BY <1>2, <1>5 DEF TypeInv, TypeOK, SidsOf, Bump

LEMMA ListTypes == ASSUME TypeInv, NEW h \in Jobs, List(h) PROVE TypeInv'
<1> DEFINE j == [job[h] EXCEPT !.ext = ext]
           S == SidsOf(subs)
           k == IF S = {} THEN Idling ELSE [j EXCEPT !.at = "count", !.todo = S]
<1>1. j \in JobType /\ S \subseteq drawn
  BY DEF TypeInv, TypeOK, JobsOK, JobType, Address
<1>2. Do(h, k)
  BY DEF List, Goes
<1>3. k \in JobType /\ k.at \in {"idle", "count"} /\ k.todo \subseteq drawn
  <2> HIDE DEF j, S
  <2> QED BY <1>1, GoesOn
<1> HIDE DEF k
<1> QED BY <1>2, <1>3, StageTypes DEF List, TypeInv, TypeOK

LEMMA CountTypes == ASSUME TypeInv, NEW h \in Jobs, Count(h) PROVE TypeInv'
<1>1. PICK s \in job[h].todo :
        Do(h, [job[h] EXCEPT !.at = "id", !.sid = s, !.todo = @ \ {s}, !.count = mappings])
  BY DEF Count
<1> DEFINE j == [job[h] EXCEPT !.at = "id", !.sid = s, !.todo = @ \ {s}, !.count = mappings]
<1>2. mappings \in 0 .. MaxChanges /\ s \in drawn /\ s \in Sids
  BY Bounds DEF TypeInv, TypeOK, CountersOK, JobsOK
<1>3. j \in JobType /\ j.at = "id" /\ j.sid = s /\ j.todo \subseteq drawn
  BY <1>2 DEF TypeInv, JobsOK, JobType, Stages
<1> HIDE DEF j
<1>4. Do(h, j)
  BY <1>1 DEF j
<1> QED BY <1>2, <1>3, <1>4, StageTypes DEF Count, TypeInv, TypeOK

LEMMA ReadIdTypes == ASSUME TypeInv, NEW h \in Jobs, ReadId(h) PROVE TypeInv'
<1> DEFINE w == View(job[h].ext, job[h].count, updateId)
           j == [job[h] EXCEPT !.at = "offer", !.view = w]
<1>1. w \in Real
  BY ViewIsReal DEF TypeInv, TypeOK, JobsOK, JobType
<1>2. j \in JobType /\ j.at = "offer" /\ j.view = w /\ j.todo \subseteq drawn /\ j.sid \in drawn
  <2> HIDE DEF w
  <2> QED BY <1>1 DEF TypeInv, JobsOK, JobType, Stages, ReadId, At, Telling
<1>3. Do(h, j)
  BY DEF ReadId
<1> HIDE DEF j, w
<1> QED BY <1>1, <1>2, <1>3, StageTypes DEF ReadId, TypeInv, TypeOK

LEMMA OfferTypes == ASSUME TypeInv, NEW h \in Jobs, Offer(h) PROVE TypeInv'
<1> USE DEF TypeInv
<1>1. job[h] \in JobType /\ job[h].todo \subseteq drawn /\ job[h].sid \in drawn /\ job[h].view \in Real
  BY DEF JobsOK, Offer, At, Telling, Offering
<1>2. CASE Proceed(h, job[h])
  <2> DEFINE S == job[h].todo
             k == IF S = {} THEN Idling ELSE [job[h] EXCEPT !.at = "count", !.todo = S]
  <2>1. Do(h, k)
    BY <1>2 DEF Proceed, Goes
  <2>2. k \in JobType /\ k.at \in {"idle", "count"} /\ k.todo \subseteq drawn
    <3> HIDE DEF S
    <3> QED BY <1>1, GoesOn DEF S
  <2> HIDE DEF k
  <2> QED BY <2>1, <2>2, StageTypes DEF Offer, TypeOK
<1>3. CASE ~Proceed(h, job[h])
  <2> DEFINE Body(x) == IF job[h].force THEN Full ELSE Moved(x.sent, job[h].view)
  <2>1. PICK x \in subs : Do(h, [job[h] EXCEPT !.at = "deliver", !.key = x.key, !.body = Body(x)])
    BY <1>3 DEF Offer, Full
  <2>2. x.key \in Nat /\ Body(x) \subseteq Full
    BY DEF TypeOK, SubType, Moved, Full
  <2> DEFINE b == Body(x)
             j == [job[h] EXCEPT !.at = "deliver", !.key = x.key, !.body = b]
  <2>3. j \in JobType /\ j.at = "deliver" /\ j.view = job[h].view /\ j.sid = job[h].sid
        /\ j.todo = job[h].todo
    <3> HIDE DEF Body, b
    <3> QED BY <1>1, <2>2 DEF JobType, Stages, b
  <2>4. Do(h, j)
    BY <2>1
  <2> HIDE DEF j
  <2> QED BY <1>1, <2>3, <2>4, StageTypes DEF Offer, TypeOK
<1> QED BY <1>2, <1>3

(* What a subscriber knows after a delivery of the variables in B. *)
Merged(r, w, B) == [v \in DOMAIN r |-> IF v \in B THEN w[v] ELSE r[v]]

LEMMA MergedIsView ==
  ASSUME NEW r \in ViewType, NEW w \in Real, NEW B
  PROVE  /\ Merged(r, w, B) \in ViewType
         /\ \A v \in Full : Merged(r, w, B)[v] = IF v \in B THEN w[v] ELSE r[v]
BY NothingIsUnreal DEF Merged, ViewType, Full

LEMMA DeliverTypes == ASSUME TypeInv, NEW h \in Jobs, Deliver(h) PROVE TypeInv'
<1> USE DEF TypeInv
<1> DEFINE j == [job[h] EXCEPT !.at = "record"]
<1>1. job[h] \in JobType /\ job[h].todo \subseteq drawn /\ job[h].sid \in drawn /\ job[h].view \in Real
  BY DEF JobsOK, Deliver, At, Telling, Offering
<1>2. j \in JobType /\ j.at = "record" /\ j.todo = job[h].todo /\ j.sid = job[h].sid
      /\ j.view = job[h].view
  BY <1>1 DEF JobType, Stages
<1>3. Do(h, j)
  BY DEF Deliver
<1>4. topKey' \in [Sids -> Int]
  BY <1>1 DEF Deliver, TypeOK, JobType
<1>6. disturbed' \in BOOLEAN
  BY DEF Deliver
<1>5. told' \in [Sids -> ViewType]
  <2>1. CASE UNCHANGED told
    BY <2>1 DEF TypeOK
  <2>2. CASE told' = [told EXCEPT ![job[h].sid] = Merged(@, job[h].view, job[h].body)]
    <3>1. Merged(told[job[h].sid], job[h].view, job[h].body) \in ViewType
      BY <1>1, MergedIsView DEF TypeOK
    <3> QED BY <2>2, <3>1 DEF TypeOK
  <2> QED BY <2>1, <2>2 DEF Deliver, Merged
<1> HIDE DEF j
<1> QED BY <1>1, <1>2, <1>3, <1>4, <1>5, <1>6, StageTypes DEF Deliver

LEMMA SidsDrawn ==
  ASSUME NEW S, NEW D
  PROVE  SidsOf(S) \subseteq D <=> \A x \in S : x.sid \in D
BY DEF SidsOf

(* A subscription that has been told the view w with the key before n. *)
SeenTo(x, w, n) == [x EXCEPT !.sent = w, !.key = n]

LEMMA SeenIsSub ==
  ASSUME NEW x \in SubType, NEW w \in ViewType, NEW n \in Nat
  PROVE  /\ SeenTo(x, w, n) \in SubType
         /\ SeenTo(x, w, n).sid = x.sid
         /\ SeenTo(x, w, n).sent = w /\ SeenTo(x, w, n).key = n
BY DEF SubType, SeenTo

LEMMA RecordTypes == ASSUME TypeInv, NEW h \in Jobs, Record(h) PROVE TypeInv'
<1> USE DEF TypeInv
<1> DEFINE S == job[h].todo
           k == IF S = {} THEN Idling ELSE [job[h] EXCEPT !.at = "count", !.todo = S]
           Seen(x) == IF x.sid = job[h].sid THEN SeenTo(x, job[h].view, job[h].key + 1) ELSE x
           see == [x \in subs |-> Seen(x)]
<1>1. job[h] \in JobType /\ job[h].todo \subseteq drawn /\ job[h].sid \in drawn /\ job[h].view \in Real
  BY DEF JobsOK, Record, At, Telling, Offering
<1>2. k \in JobType /\ k.at \in {"idle", "count"} /\ k.todo \subseteq drawn
  <2> HIDE DEF S
  <2> QED BY <1>1, GoesOn DEF S
<1>3. Do(h, k)
  BY DEF Record, Proceed, Goes
<1>4. JobsOK' /\ CountersOK'
  <2> HIDE DEF k
  <2> QED BY <1>2, <1>3, JobsKept, CountersKept DEF Record
<1>5. subs' = {Seen(x) : x \in subs}
  BY DEF Record, SeenTo
<1>6. \A x \in subs : Seen(x) \in SubType /\ Seen(x).sid = x.sid
  <2> SUFFICES ASSUME NEW x \in subs PROVE Seen(x) \in SubType /\ Seen(x).sid = x.sid
    OBVIOUS
  <2>1. x \in SubType
    BY DEF TypeOK
  <2>2. /\ SeenTo(x, job[h].view, job[h].key + 1) \in SubType
        /\ SeenTo(x, job[h].view, job[h].key + 1).sid = x.sid
    <3>1. job[h].view \in ViewType /\ job[h].key + 1 \in Nat
      BY <1>1, NothingIsUnreal DEF JobType
    <3> QED BY <2>1, <3>1, SeenIsSub
  <2> QED BY <2>1, <2>2
<1>7. subs' \subseteq SubType /\ SidsOf(subs') \subseteq drawn'
  <2>1. \A y \in subs' : \E x \in subs : y \in SubType /\ y.sid = x.sid
    <3> HIDE DEF Seen
    <3> QED BY <1>5, <1>6
  <2>2. \A x \in subs : x.sid \in drawn
    BY SidsDrawn DEF TypeOK
  <2>3. drawn' = drawn
    BY DEF Record
  <2>4. \A y \in subs' : y \in SubType /\ y.sid \in drawn'
    BY <2>1, <2>2, <2>3
  <2> HIDE DEF TypeInv, Seen, see, k, S
  <2> QED BY <2>4, SidsDrawn
<1>8. IsFiniteSet(subs') /\ Cardinality(subs') <= MaxSubs
  <2> HIDE DEF Seen
  <2>1. see \in Surjection(subs, subs')
    BY <1>5 DEF Surjection
  <2>2. IsFiniteSet(subs') /\ Cardinality(subs') <= Cardinality(subs)
    <3> HIDE DEF see
    <3> QED BY <2>1, FS_Surjection
  <2> QED BY <2>2, Bounds, FS_CardinalityType DEF TypeOK
<1> QED BY <1>4, <1>7, <1>8 DEF TypeOK, Record

LEMMA CancelTypes == ASSUME TypeInv, NEW h \in Jobs, Cancel(h) PROVE TypeInv'
<1>1. Idling.todo \subseteq drawn /\ Do(h, Idling)
  BY IdlingIsJob DEF Cancel
<1>2. JobsOK' /\ CountersOK'
  BY <1>1, IdlingIsJob, JobsKept, CountersKept DEF Cancel
<1>3. disturbed' \in BOOLEAN
  BY DEF Cancel
<1> QED BY <1>2, <1>3 DEF TypeInv, TypeOK, SidsOf, Cancel

-----------------------------------------------------------------------------
(* The steps that start something. *)
LEMMA ChangeTypes == ASSUME TypeInv, NEW h \in Handlers, Change(h) PROVE TypeInv'
<1> DEFINE j == [Idling EXCEPT !.at = "bump"]
<1> USE Bounds DEF TypeInv
<1>1. h \in Jobs
  BY DEF Jobs
<1>2. j \in JobType /\ j.at = "bump" /\ j.todo = {} /\ Do(h, j)
  BY IdlingIsJob DEF JobType, Stages, Change
<1> HIDE DEF j
<1>3. JobsOK'
  BY <1>1, <1>2, JobsKept DEF Change
<1>4. Bumping' = Bumping \cup {h} /\ h \notin Bumping
  BY <1>1, <1>2, DoIsDone DEF JobsOK, Bumping, At, Change, Starts
<1>5. IsFiniteSet(Bumping') /\ Cardinality(Bumping') = Cardinality(Bumping) + 1
      /\ Cardinality(Bumping) \in Nat
  BY <1>4, FS_AddElement, FS_CardinalityType DEF CountersOK
<1>6. mappings' \in Nat /\ mappings' <= mappings + 1
  BY DEF Change, TypeOK
<1>7. changes' = changes + 1 /\ changes < MaxChanges /\ UNCHANGED updateId
  BY DEF Change
<1>8. CountersOK'
  BY <1>5, <1>6, <1>7 DEF CountersOK, TypeOK
<1>9. disturbed' \in BOOLEAN
  BY DEF Change, Starts
<1> QED BY <1>3, <1>6, <1>8, <1>9 DEF TypeOK, SidsOf, Change

LEMMA FollowTypes == ASSUME TypeInv, Follow PROVE TypeInv'
<1> DEFINE j == [Idling EXCEPT !.ext = ext]
           S == SidsOf(subs)
           k == IF S = {} THEN Idling ELSE [j EXCEPT !.at = "count", !.todo = S]
<1>1. j \in JobType /\ S \subseteq drawn /\ Events \in Jobs
  BY IdlingIsJob DEF TypeInv, TypeOK, JobType, Address, Jobs
<1>2. Do(Events, k)
  BY DEF Follow, Goes
<1>3. k \in JobType /\ k.at \in {"idle", "count"} /\ k.todo \subseteq drawn
  <2> HIDE DEF j, S
  <2> QED BY <1>1, GoesOn
<1> HIDE DEF k
<1>4. JobsOK' /\ CountersOK'
  BY <1>1, <1>2, <1>3, JobsKept, CountersKept DEF Follow
<1>5. disturbed' \in BOOLEAN /\ due' \in BOOLEAN
  BY DEF Follow, Starts
<1> QED BY <1>4, <1>5 DEF TypeInv, TypeOK, SidsOf, Follow

LEMMA SubscribeTypes ==
  ASSUME TypeInv, NEW h \in Handlers, NEW s \in Sids, Subscribe(h, s) PROVE TypeInv'
<1> DEFINE j == [Idling EXCEPT !.ext = ext, !.force = TRUE]
           k == [j EXCEPT !.at = "count", !.todo = {s}]
<1> USE DEF TypeInv
<1>1. h \in Jobs
  BY DEF Jobs
<1>2. Do(h, k)
  BY DEF Subscribe, Goes
<1>3. j \in JobType
  BY IdlingIsJob DEF JobType, TypeOK, Address
<1>4. k \in JobType /\ k.at = "count" /\ k.todo = {s}
  <2> HIDE DEF j
  <2> QED BY <1>3 DEF JobType, Stages
<1> HIDE DEF k
<1>5. drawn' = drawn \cup {s} /\ subs' = subs \cup {Sub(s)} /\ Cardinality(subs) < MaxSubs
  BY DEF Subscribe
<1>6. JobsOK' /\ CountersOK'
  BY <1>1, <1>2, <1>4, <1>5, JobsKept, CountersKept DEF Subscribe
<1>7. Sub(s) \in SubType /\ Sub(s).sid = s
  BY NothingIsUnreal DEF Sub, SubType
<1>8. subs' \subseteq SubType /\ SidsOf(subs') \subseteq drawn'
  <2>1. \A y \in subs' : y \in SubType /\ y.sid \in drawn'
    BY <1>5, <1>7, SidsDrawn DEF TypeOK
  <2> QED BY <2>1, SidsDrawn
<1>9. IsFiniteSet(subs') /\ Cardinality(subs') <= MaxSubs
  <2>1. Cardinality(subs) \in Nat
    BY FS_CardinalityType
  <2>2. IsFiniteSet(subs') /\ Cardinality(subs') <= Cardinality(subs) + 1
    BY <1>5, <2>1, FS_AddElement
  <2>3. Cardinality(subs') \in Nat
    BY <2>2, FS_CardinalityType
  <2> QED BY <1>5, <2>1, <2>2, <2>3, Bounds
<1>10. disturbed' \in BOOLEAN
  BY DEF Subscribe, Starts
<1> QED BY <1>5, <1>6, <1>8, <1>9, <1>10 DEF TypeOK, Subscribe

LEMMA PublishTypes == ASSUME TypeInv, Publish PROVE TypeInv'
<1> USE Bounds DEF TypeInv
<1>1. disturbed' \in BOOLEAN /\ due' \in BOOLEAN /\ ext' \in Addresses \cup {Unknown}
  BY DEF Publish
<1>2. JobsOK'
  BY DEF JobsOK, Telling, Offering, At, Publish
<1>3. CountersOK'
  <2>1. Bumping' = Bumping
    BY DEF Bumping, At, Publish
  <2> QED BY <2>1, FS_CardinalityType DEF CountersOK, TypeOK, Publish
<1> QED BY <1>1, <1>2, <1>3 DEF TypeOK, SidsOf, Publish

(* Unsubscribing and pruning take subscriptions away, expiry and renewal   *)
(* mark one.                                                               *)
LEMMA ManageTypes == ASSUME TypeInv, Manage PROVE TypeInv'
<1> USE DEF TypeInv
<1>1. JobsOK' /\ CountersOK'
  <2>1. UNCHANGED <<job, drawn, changes, mappings, updateId>>
    BY DEF Manage
  <2>2. Bumping' = Bumping
    BY <2>1 DEF Bumping, At
  <2> QED BY <2>1, <2>2 DEF JobsOK, CountersOK, Telling, Offering, At
<1>2. Cardinality(subs) \in Nat
  BY FS_CardinalityType
<1>3. subs' \subseteq subs \/ \E x \in subs, b \in BOOLEAN : subs' = (subs \ {x}) \cup {[x EXCEPT !.stale = b]}
  BY DEF Manage, Unsubscribe, Expire, Renew, Prune
<1>4. subs' \subseteq SubType /\ SidsOf(subs') \subseteq drawn' /\ IsFiniteSet(subs')
      /\ Cardinality(subs') <= MaxSubs
  <2>1. CASE subs' \subseteq subs
    <3>1. IsFiniteSet(subs') /\ Cardinality(subs') <= Cardinality(subs)
      BY <2>1, FS_Subset
    <3>2. Cardinality(subs') \in Nat
      BY <3>1, FS_CardinalityType
    <3>3. \A y \in subs' : y \in SubType /\ y.sid \in drawn'
      BY <2>1, SidsDrawn DEF TypeOK, Manage
    <3> QED BY <1>2, <3>1, <3>2, <3>3, Bounds, SidsDrawn DEF TypeOK
  <2>2. ASSUME NEW x \in subs, NEW b \in BOOLEAN,
               subs' = (subs \ {x}) \cup {[x EXCEPT !.stale = b]}
        PROVE  /\ subs' \subseteq SubType /\ SidsOf(subs') \subseteq drawn'
               /\ IsFiniteSet(subs') /\ Cardinality(subs') <= MaxSubs
    <3> DEFINE y == [x EXCEPT !.stale = b]
               R == subs \ {x}
    <3>1. y \in SubType /\ y.sid = x.sid
      BY DEF TypeOK, SubType
    <3> HIDE DEF y
    <3>2. subs' = R \cup {y}
      BY <2>2 DEF y
    <3>3. IsFiniteSet(R) /\ Cardinality(R) = Cardinality(subs) - 1 /\ Cardinality(R) \in Nat
      BY FS_RemoveElement, FS_CardinalityType
    <3>4. IsFiniteSet(subs') /\ Cardinality(subs') <= Cardinality(R) + 1
      <4> HIDE DEF R, TypeInv
      <4>1. /\ IsFiniteSet(R \cup {y})
            /\ Cardinality(R \cup {y}) = IF y \in R THEN Cardinality(R) ELSE Cardinality(R) + 1
        BY <3>3, FS_AddElement
      <4> QED BY <3>2, <3>3, <4>1
    <3>5. Cardinality(subs') \in Nat
      BY <3>4, FS_CardinalityType
    <3>6. \A z \in subs' : z \in SubType /\ z.sid \in drawn'
      BY <3>1, <3>2, SidsDrawn DEF TypeOK, Manage
    <3>7. Cardinality(subs') <= MaxSubs
      BY <1>2, <3>3, <3>4, <3>5, Bounds DEF TypeOK
    <3> QED BY <3>4, <3>6, <3>7, SidsDrawn
  <2> QED BY <1>3, <2>1, <2>2
<1> QED BY <1>1, <1>4 DEF TypeOK, Manage

LEMMA TypesKept == TypeInv /\ [Next]_vars => TypeInv'
<1> SUFFICES ASSUME TypeInv, [Next]_vars PROVE TypeInv'
  OBVIOUS
<1>1. CASE UNCHANGED vars
  BY <1>1 DEF vars, TypeInv, TypeOK, SidsOf, CountersOK, Bumping, JobsOK, Telling, Offering, At
<1>2. ASSUME NEW h \in Handlers, Change(h) \/ Cancel(h) \/ \E s \in Sids : Subscribe(h, s)
      PROVE  TypeInv'
  BY <1>2, ChangeTypes, CancelTypes, SubscribeTypes DEF Jobs
<1>3. ASSUME NEW h \in Jobs, Step(h) PROVE TypeInv'
  BY <1>3, BumpTypes, ListTypes, CountTypes, ReadIdTypes, OfferTypes, DeliverTypes, RecordTypes
     DEF Step
<1>4. CASE Publish \/ Follow \/ Manage
  BY <1>4, PublishTypes, FollowTypes, ManageTypes
<1> QED BY <1>1, <1>2, <1>3, <1>4 DEF Next

LEMMA TypesHold == Spec => []TypeInv
BY InitTypes, TypesKept, PTL DEF Spec

-----------------------------------------------------------------------------
(* The keys: no subscription is further than the key after the last one    *)
(* tried, and a job under way has taken its key from one.                  *)
KeysOK == /\ \A s \in Sids : topKey[s] >= -1
          /\ \A x \in subs : x.key <= topKey[x.sid] + 1
          /\ NoKeySkipped
          /\ \A h \in Jobs : At(h, "record") => job[h].key <= topKey[job[h].sid]

(* A subscription nobody tried to tell remembers no view. *)
FirstOK == FirstTellsAll /\ \A x \in subs : topKey[x.sid] = -1 => x.sent = Nothing

(* An id that was not drawn yet has no past. *)
FreshOK == \A s \in Sids \ drawn : told[s] = Nothing /\ topKey[s] = -1

TellInv == KeysOK /\ FirstOK /\ FreshOK

LEMMA InitTells == Init => TellInv
BY DEF Init, TellInv, KeysOK, FirstOK, FreshOK, NoKeySkipped, FirstTellsAll, At, Idling

(* A job goes to a stage at which it holds no event. *)
LEMMA HoldsNoEvent ==
  ASSUME TypeInv, TellInv, NEW h \in Jobs, NEW j \in JobType, Do(h, j),
         j.at \notin {"deliver", "record"},
         UNCHANGED <<subs, drawn, told, topKey>>
  PROVE  TellInv'
BY DoIsDone DEF TypeInv, JobsOK, TellInv, KeysOK, FirstOK, FreshOK, NoKeySkipped, FirstTellsAll, At

LEMMA NextIsJob ==
  ASSUME TypeInv, NEW S, S \subseteq drawn, NEW h \in Jobs, NEW j \in JobType, Goes(h, S, j)
  PROVE  \E k \in JobType : Do(h, k) /\ k.at \in {"idle", "count"}
BY GoesOn DEF Goes

LEMMA QuietStagesTell ==
  ASSUME TypeInv, TellInv, NEW h \in Jobs, Bump(h) \/ List(h) \/ Count(h) \/ ReadId(h)
  PROVE  TellInv'
<1> USE DEF TypeInv
<1>0. job[h] \in JobType /\ job[h].todo \subseteq drawn
  BY DEF JobsOK
<1>1. CASE Bump(h)
  <2> DEFINE j == [job[h] EXCEPT !.at = "list"]
  <2>1. j \in JobType /\ j.at = "list" /\ Do(h, j)
    BY <1>0, <1>1 DEF JobType, Stages, Bump
  <2> HIDE DEF j
  <2> QED BY <1>1, <2>1, HoldsNoEvent DEF Bump
<1>2. CASE List(h)
  <2> DEFINE j == [job[h] EXCEPT !.ext = ext]
  <2>1. j \in JobType /\ SidsOf(subs) \subseteq drawn /\ Goes(h, SidsOf(subs), j)
    BY <1>0, <1>2 DEF TypeOK, JobType, Address, List
  <2> HIDE DEF j
  <2> QED BY <1>2, <2>1, NextIsJob, HoldsNoEvent DEF List
<1>3. CASE Count(h)
  <2>1. PICK s \in job[h].todo :
          Do(h, [job[h] EXCEPT !.at = "id", !.sid = s, !.todo = @ \ {s}, !.count = mappings])
    BY <1>3 DEF Count
  <2> DEFINE j == [job[h] EXCEPT !.at = "id", !.sid = s, !.todo = @ \ {s}, !.count = mappings]
  <2>2. mappings \in 0 .. MaxChanges /\ s \in Sids
    BY <1>0, Bounds DEF TypeOK, CountersOK
  <2>3. j \in JobType /\ j.at = "id"
    BY <1>0, <2>2 DEF JobType, Stages
  <2>4. Do(h, j)
    BY <2>1
  <2> HIDE DEF j
  <2> QED BY <1>3, <2>3, <2>4, HoldsNoEvent DEF Count
<1>4. CASE ReadId(h)
  <2> DEFINE w == View(job[h].ext, job[h].count, updateId)
             j == [job[h] EXCEPT !.at = "offer", !.view = w]
  <2>1. w \in Real
    BY <1>0, ViewIsReal DEF TypeOK, JobType
  <2>2. j \in JobType /\ j.at = "offer"
    <3> HIDE DEF w
    <3> QED BY <1>0, <2>1 DEF JobType, Stages
  <2>3. Do(h, j)
    BY <1>4 DEF ReadId
  <2> HIDE DEF j
  <2> QED BY <1>4, <2>2, <2>3, HoldsNoEvent DEF ReadId
<1> QED BY <1>1, <1>2, <1>3, <1>4

LEMMA OfferTells == ASSUME TypeInv, TellInv, NEW h \in Jobs, Offer(h) PROVE TellInv'
<1> USE DEF TypeInv
<1>1. job[h] \in JobType /\ job[h].todo \subseteq drawn /\ job[h].sid \in drawn /\ job[h].view \in Real
  BY DEF JobsOK, Offer, At, Telling, Offering
<1>2. CASE Proceed(h, job[h])
  BY <1>1, <1>2, NextIsJob, HoldsNoEvent DEF Proceed, Offer
<1>3. CASE ~Proceed(h, job[h])
  <2> DEFINE Body(x) == IF job[h].force THEN Full ELSE Moved(x.sent, job[h].view)
  <2>1. PICK x \in subs :
          /\ x.sid = job[h].sid
          /\ Do(h, [job[h] EXCEPT !.at = "deliver", !.key = x.key, !.body = Body(x)])
    BY <1>3 DEF Offer, Full
  <2>2. x.key \in Nat /\ Body(x) \subseteq Full
    BY DEF TypeOK, SubType, Moved, Full
  <2>3. x.sent = Nothing => Body(x) = Full
    BY <1>1, UnknownAssumption DEF Moved, Full, Nothing, Real, Address
  <2> DEFINE b == Body(x)
             j == [job[h] EXCEPT !.at = "deliver", !.key = x.key, !.body = b]
  <2>4. j \in JobType /\ j.at = "deliver" /\ j.sid = x.sid /\ j.key = x.key /\ j.body = b
    <3> HIDE DEF Body, b
    <3> QED BY <1>1, <2>1, <2>2 DEF JobType, Stages, b
  <2>5. Do(h, j)
    BY <2>1
  <2>6. x.sent = Nothing => j.body = Full
    BY <2>3, <2>4
  <2>7. UNCHANGED <<subs, drawn, told, topKey>>
    BY DEF Offer
  <2> HIDE DEF j, b, Body
  <2>8. job'[h] = j /\ \A g \in Jobs : g # h => job'[g] = job[g]
    BY <2>4, <2>5, DoIsDone DEF JobsOK
  <2> QED BY <2>4, <2>6, <2>7, <2>8
          DEF TellInv, KeysOK, FirstOK, FreshOK, NoKeySkipped, FirstTellsAll, Full, At
<1> QED BY <1>2, <1>3

LEMMA DeliverTells == ASSUME TypeInv, TellInv, NEW h \in Jobs, Deliver(h) PROVE TellInv'
<1> USE DEF TypeInv
<1> DEFINE j == [job[h] EXCEPT !.at = "record"]
           s == job[h].sid
<1>1. job[h] \in JobType /\ s \in drawn /\ s \in Sids
  BY DEF JobsOK, Deliver, At, Telling, Offering
<1>2. j \in JobType /\ j.at = "record" /\ j.sid = s /\ j.key = job[h].key
  BY <1>1 DEF JobType, Stages
<1>3. Do(h, j)
  BY DEF Deliver
<1> HIDE DEF j
<1>4. job'[h] = j /\ \A g \in Jobs : g # h => job'[g] = job[g]
  BY <1>2, <1>3, DoIsDone DEF JobsOK
<1>5. /\ \A t \in Sids : topKey'[t] \in Int /\ topKey[t] \in Int /\ topKey'[t] >= topKey[t]
      /\ topKey'[s] >= job[h].key /\ job[h].key \in Nat
      /\ \A t \in Sids \ {s} : topKey'[t] = topKey[t]
  BY <1>1 DEF Deliver, TypeOK, JobType
<1>6. \A g \in Jobs : Telling(g) => job[g].sid \in Sids /\ job[g].key \in Nat
  BY DEF JobsOK, JobType
<1>7. \A x \in subs : x.sid \in Sids /\ x.key \in Nat
  BY DEF TypeOK, SubType
<1>8. KeysOK'
  <2>1. \A t \in Sids : topKey'[t] >= -1
    BY <1>5 DEF TellInv, KeysOK
  <2>2. \A x \in subs' : x.key <= topKey'[x.sid] + 1
    BY <1>5, <1>7 DEF TellInv, KeysOK, Deliver
  <2>3. NoKeySkipped'
    BY <1>2, <1>4, <1>5, <1>6 DEF TellInv, KeysOK, NoKeySkipped, At, Telling, Offering
  <2>4. \A g \in Jobs : job'[g].at = "record" => job'[g].key <= topKey'[job'[g].sid]
    BY <1>2, <1>4, <1>5, <1>6 DEF TellInv, KeysOK, At, Telling, Offering
  <2> QED BY <2>1, <2>2, <2>3, <2>4 DEF KeysOK, At
<1>9. FirstOK'
  <2>1. topKey'[s] # -1
    BY <1>1, <1>5
  <2>2. \A t \in Sids : topKey'[t] = -1 => topKey[t] = -1
    BY <1>5, <2>1
  <2>3. FirstTellsAll'
    BY <1>2, <1>4, <1>6, <2>2 DEF TellInv, FirstOK, FirstTellsAll, At, Telling, Offering
  <2> QED BY <1>7, <2>2, <2>3 DEF TellInv, FirstOK, Deliver
<1>10. FreshOK'
  BY <1>1 DEF TellInv, FreshOK, Deliver, TypeOK
<1> QED BY <1>8, <1>9, <1>10 DEF TellInv

(* A subscription is rewritten to one that remembers the event just tried, *)
(* of its own sid, and keeps its place otherwise.                          *)
LEMMA RecordTells == ASSUME TypeInv, TellInv, NEW h \in Jobs, Record(h) PROVE TellInv'
<1> USE DEF TypeInv
<1>1. job[h] \in JobType /\ job[h].todo \subseteq drawn /\ job[h].sid \in drawn /\ job[h].view \in Real
  BY DEF JobsOK, Record, At, Telling, Offering
<1>2. PICK k \in JobType : Do(h, k) /\ k.at \in {"idle", "count"}
  BY <1>1, NextIsJob DEF Record, Proceed
<1>3. job'[h] = k /\ \A g \in Jobs : g # h => job'[g] = job[g]
  BY <1>2, DoIsDone DEF JobsOK
<1>4. job[h].key <= topKey[job[h].sid] /\ job[h].key \in Nat /\ topKey[job[h].sid] \in Int
  BY <1>1 DEF TellInv, KeysOK, Record, JobType, TypeOK
<1>5. UNCHANGED <<topKey, told, drawn>>
  BY DEF Record
<1>6. \A y \in subs' : \E x \in subs :
        \/ y = x
        \/ y = SeenTo(x, job[h].view, job[h].key + 1) /\ x.sid = job[h].sid
  BY DEF Record, SeenTo
<1>7. \A y \in subs' : /\ y.key <= topKey[y.sid] + 1
                       /\ topKey[y.sid] = -1 => y.sent = Nothing
  <2> SUFFICES ASSUME NEW y \in subs'
               PROVE  y.key <= topKey[y.sid] + 1 /\ (topKey[y.sid] = -1 => y.sent = Nothing)
    OBVIOUS
  <2>1. PICK x \in subs : \/ y = x
                          \/ y = SeenTo(x, job[h].view, job[h].key + 1) /\ x.sid = job[h].sid
    BY <1>6
  <2>2. CASE y = x
    BY <2>2 DEF TellInv, KeysOK, FirstOK
  <2>3. CASE y = SeenTo(x, job[h].view, job[h].key + 1) /\ x.sid = job[h].sid
    <3>1. x \in SubType /\ job[h].view \in ViewType /\ job[h].key + 1 \in Nat
      BY <1>1, <1>4, NothingIsUnreal DEF TypeOK
    <3>2. y.sid = job[h].sid /\ y.key = job[h].key + 1
      BY <2>3, <3>1, SeenIsSub
    <3> QED BY <1>4, <3>2
  <2> QED BY <2>1, <2>2, <2>3
<1>8. KeysOK'
  BY <1>2, <1>3, <1>5, <1>7 DEF TellInv, KeysOK, NoKeySkipped, At
<1>9. FirstOK' /\ FreshOK'
  BY <1>2, <1>3, <1>5, <1>7 DEF TellInv, FirstOK, FirstTellsAll, FreshOK, At
<1> QED BY <1>8, <1>9 DEF TellInv

LEMMA StartsTell ==
  ASSUME TypeInv, TellInv,
         \/ Follow
         \/ \E h \in Handlers : Change(h) \/ Cancel(h) \/ \E s \in Sids : Subscribe(h, s)
  PROVE  TellInv'
<1> USE DEF TypeInv
<1>1. CASE Follow
  <2> DEFINE j == [Idling EXCEPT !.ext = ext]
  <2>1. j \in JobType /\ SidsOf(subs) \subseteq drawn /\ Goes(Events, SidsOf(subs), j)
        /\ Events \in Jobs
    BY <1>1, IdlingIsJob DEF TypeOK, JobType, Address, Follow, Jobs
  <2> HIDE DEF j
  <2> QED BY <1>1, <2>1, NextIsJob, HoldsNoEvent DEF Follow
<1>2. ASSUME NEW h \in Handlers, Change(h) PROVE TellInv'
  <2> DEFINE j == [Idling EXCEPT !.at = "bump"]
  <2>1. j \in JobType /\ j.at = "bump" /\ Do(h, j) /\ h \in Jobs
    BY <1>2, IdlingIsJob DEF JobType, Stages, Change, Jobs
  <2> HIDE DEF j
  <2> QED BY <1>2, <2>1, HoldsNoEvent DEF Change
<1>3. ASSUME NEW h \in Handlers, Cancel(h) PROVE TellInv'
  BY <1>3, IdlingIsJob, HoldsNoEvent DEF Cancel, Jobs
<1>4. ASSUME NEW h \in Handlers, NEW s \in Sids, Subscribe(h, s) PROVE TellInv'
  <2> DEFINE j == [Idling EXCEPT !.ext = ext, !.force = TRUE]
             k == [j EXCEPT !.at = "count", !.todo = {s}]
  <2>1. Do(h, k) /\ h \in Jobs
    BY <1>4 DEF Subscribe, Goes, Jobs
  <2>2. j \in JobType
    BY IdlingIsJob DEF JobType, TypeOK, Address
  <2>3. k \in JobType /\ k.at = "count"
    <3> HIDE DEF j
    <3> QED BY <2>2 DEF JobType, Stages
  <2> HIDE DEF k
  <2>4. job'[h] = k /\ \A g \in Jobs : g # h => job'[g] = job[g]
    BY <2>1, <2>3, DoIsDone DEF JobsOK
  <2>5. drawn' = drawn \cup {s} /\ subs' = subs \cup {Sub(s)} /\ s \notin drawn
        /\ UNCHANGED <<told, topKey>>
    BY <1>4 DEF Subscribe
  <2>6. Sub(s).sid = s /\ Sub(s).key = 0 /\ Sub(s).sent = Nothing /\ topKey[s] = -1
    BY <2>5 DEF Sub, TellInv, FreshOK
  <2>7. \A x \in subs' : x.key <= topKey'[x.sid] + 1 /\ (topKey'[x.sid] = -1 => x.sent = Nothing)
    BY <2>5, <2>6 DEF TellInv, KeysOK, FirstOK
  <2>8. NoKeySkipped' /\ FirstTellsAll'
        /\ \A g \in Jobs : job'[g].at = "record" => job'[g].key <= topKey'[job'[g].sid]
    BY <2>3, <2>4, <2>5 DEF TellInv, KeysOK, FirstOK, NoKeySkipped, FirstTellsAll, At
  <2> QED BY <2>5, <2>7, <2>8 DEF TellInv, KeysOK, FirstOK, FreshOK, At
<1> QED BY <1>1, <1>2, <1>3, <1>4

LEMMA ManageKeeps ==
  ASSUME TypeInv, Manage
  PROVE  \A y \in subs' : \E x \in subs : y.sid = x.sid /\ y.key = x.key /\ y.sent = x.sent
BY DEF TypeInv, TypeOK, SubType, Manage, Unsubscribe, Expire, Renew, Prune

LEMMA TellsKept == TypeInv /\ TellInv /\ [Next]_vars => TellInv'
<1> SUFFICES ASSUME TypeInv, TellInv, [Next]_vars PROVE TellInv'
  OBVIOUS
<1> USE DEF TellInv, KeysOK, FirstOK, FreshOK, NoKeySkipped, FirstTellsAll, At
<1>1. CASE UNCHANGED vars
  BY <1>1 DEF vars
<1>2. ASSUME NEW h \in Jobs, Step(h) PROVE TellInv'
  <2> HIDE DEF TellInv
  <2> QED BY <1>2, QuietStagesTell, OfferTells, DeliverTells, RecordTells DEF Step
<1>3. CASE Publish
  BY <1>3 DEF Publish
<1>4. CASE Manage
  <2>1. UNCHANGED <<job, drawn, told, topKey>>
    BY <1>4 DEF Manage
  <2> QED BY <1>4, <2>1, ManageKeeps
<1>5. CASE \/ Follow
           \/ \E h \in Handlers : Change(h) \/ Cancel(h) \/ \E s \in Sids : Subscribe(h, s)
  <2> HIDE DEF TellInv
  <2> QED BY <1>5, StartsTell
<1> QED BY <1>1, <1>2, <1>3, <1>4, <1>5 DEF Next

LEMMA TellsHold == Spec => []TellInv
BY InitTells, TypesHold, TellsKept, PTL DEF Spec

-----------------------------------------------------------------------------
(* Undisturbed, at most one job is under way.  With none, every subscriber *)
(* knows the count and the id, and the address unless the event loop is    *)
(* due; with one, so does every subscriber that is not still on its list.  *)
Knows(x) == /\ told[x.sid].count = mappings /\ told[x.sid].id = updateId
            /\ due \/ told[x.sid].ext = ext

AllTold == \A x \in subs : x.sent = told[x.sid] /\ Knows(x)

Listed(j, x) == \/ j.at \in {"bump", "list"} \/ x.sid \in j.todo
                \/ j.at \in {"id", "offer", "deliver", "record"} /\ j.sid = x.sid

(* What the job has read is what there is, what it leaves out of an event  *)
(* the subscriber knows, and only the view just sent is not yet remembered. *)
Led(j) ==
  /\ j.at \in {"count", "id", "offer", "deliver", "record"} => j.ext = ext
  /\ j.at = "id" => j.count = mappings
  /\ j.at \in {"offer", "deliver", "record"} => j.view = Now
  /\ j.at = "deliver" => \A v \in Full \ j.body : told[j.sid][v] = Now[v]
  /\ j.at = "record" => told[j.sid] = Now
  /\ \A x \in subs : (j.at = "record" /\ j.sid = x.sid) \/ x.sent = told[x.sid]
  /\ \A x \in subs : Listed(j, x) \/ Knows(x)

Calm == /\ \A g, h \in Busy : g = h
        /\ Busy = {} => AllTold
        /\ \A h \in Busy : Led(job[h])

CalmInv == ~disturbed => Calm

LEMMA InitCalm == Init => CalmInv
BY DEF Init, CalmInv, Calm, Busy, AllTold, At, Idling

(* The one job there is, or the first, goes to another stage. *)
LEMMA Calms ==
  ASSUME TypeInv, NEW h \in Jobs, \A g \in Busy : g = h, NEW j \in JobType, Do(h, j),
         j.at = "idle" => AllTold', j.at # "idle" => Led(j)'
  PROVE  Calm'
<1>1. job'[h] = j /\ \A g \in Jobs : g # h => job'[g] = job[g] /\ job[g].at = "idle"
  BY DoIsDone DEF TypeInv, JobsOK, Busy, At
<1>2. Busy' = IF j.at = "idle" THEN {} ELSE {h}
  BY <1>1 DEF Busy, At
<1> QED BY <1>1, <1>2 DEF Calm

(* Its next subscriber, when everybody not on its list knows. *)
LEMMA GoesCalm ==
  ASSUME TypeInv, NEW h \in Jobs, \A g \in Busy : g = h, NEW j \in JobType,
         NEW S, S \subseteq drawn, Goes(h, S, j), j.ext = ext',
         \A x \in subs' : x.sent = told'[x.sid],
         \A x \in subs' : x.sid \in S \/ Knows(x)'
  PROVE  Calm'
<1>1. CASE S = {}
  <2>1. Do(h, Idling) /\ AllTold'
    BY <1>1 DEF Goes, AllTold
  <2> QED BY <2>1, Calms, IdlingIsJob
<1>2. CASE S # {}
  <2>1. PICK k \in JobType : k = [j EXCEPT !.at = "count", !.todo = S]
    BY DEF JobType, Stages, TypeInv
  <2>2. k.at = "count" /\ k.todo = S /\ k.ext = j.ext
    BY <2>1 DEF JobType
  <2>3. Do(h, k)
    BY <1>2, <2>1 DEF Goes
  <2>4. Led(k)'
    BY <2>2 DEF Led, Listed
  <2> QED BY <2>2, <2>3, <2>4, Calms
<1> QED BY <1>1, <1>2

LEMMA TheJob ==
  ASSUME TypeInv, Calm, NEW h \in Jobs, ~At(h, "idle")
  PROVE  /\ \A g \in Busy : g = h
         /\ Led(job[h])
         /\ job[h] \in JobType /\ job[h].todo \subseteq drawn
         /\ Offering(h) => job[h].sid \in drawn /\ job[h].sid \in Sids /\ job[h].view \in Real
BY DEF TypeInv, JobsOK, Calm, Busy, Telling, Offering, At

LEMMA SidsOfSubs == \A x \in subs : x.sid \in SidsOf(subs)
BY DEF SidsOf

LEMMA BumpCalm == ASSUME TypeInv, Calm, NEW h \in Jobs, Bump(h) PROVE Calm'
<1>1. (\A g \in Busy : g = h) /\ Led(job[h]) /\ job[h] \in JobType
  BY TheJob DEF Bump, At
<1>2. PICK j \in JobType : j = [job[h] EXCEPT !.at = "list"]
  BY <1>1 DEF JobType, Stages
<1>3. j.at = "list" /\ Do(h, j)
  BY <1>1, <1>2 DEF Bump, JobType
<1>4. Led(j)'
  BY <1>1, <1>3 DEF Led, Listed, Bump, At
<1> QED BY <1>1, <1>3, <1>4, Calms

LEMMA ListCalm == ASSUME TypeInv, Calm, NEW h \in Jobs, List(h) PROVE Calm'
<1>1. (\A g \in Busy : g = h) /\ Led(job[h]) /\ job[h] \in JobType
  BY TheJob DEF List, At
<1>2. PICK j \in JobType : j = [job[h] EXCEPT !.ext = ext]
  BY <1>1 DEF JobType, TypeInv, TypeOK, Address
<1>3. j.ext = ext' /\ Goes(h, SidsOf(subs), j) /\ UNCHANGED <<subs, told>>
  BY <1>1, <1>2 DEF List, JobType
<1>4. \A x \in subs : x.sent = told[x.sid]
  BY <1>1 DEF Led, List, At
<1>5. SidsOf(subs) \subseteq drawn
  BY DEF TypeInv, TypeOK
<1> QED BY <1>1, <1>3, <1>4, <1>5, SidsOfSubs, GoesCalm

LEMMA CountCalm == ASSUME TypeInv, Calm, NEW h \in Jobs, Count(h) PROVE Calm'
<1>1. (\A g \in Busy : g = h) /\ Led(job[h]) /\ job[h] \in JobType /\ job[h].todo \subseteq drawn
  BY TheJob DEF Count, At
<1>2. PICK s \in job[h].todo :
        Do(h, [job[h] EXCEPT !.at = "id", !.sid = s, !.todo = @ \ {s}, !.count = mappings])
  BY DEF Count
<1>3. mappings \in 0 .. MaxChanges /\ s \in Sids
  BY <1>1, Bounds DEF TypeInv, TypeOK, CountersOK
<1>4. PICK j \in JobType :
        j = [job[h] EXCEPT !.at = "id", !.sid = s, !.todo = @ \ {s}, !.count = mappings]
  BY <1>1, <1>3 DEF JobType, Stages
<1>5. /\ j.at = "id" /\ j.sid = s /\ j.todo = job[h].todo \ {s} /\ j.count = mappings
      /\ j.ext = job[h].ext /\ Do(h, j)
  BY <1>1, <1>2, <1>4 DEF JobType
<1>6. Led(j)'
  BY <1>1, <1>5 DEF Led, Listed, Knows, Count, At
<1> QED BY <1>1, <1>5, <1>6, Calms

LEMMA ReadIdCalm == ASSUME TypeInv, Calm, NEW h \in Jobs, ReadId(h) PROVE Calm'
<1>1. (\A g \in Busy : g = h) /\ Led(job[h]) /\ job[h] \in JobType
  BY TheJob DEF ReadId, At
<1> DEFINE w == View(job[h].ext, job[h].count, updateId)
<1>2. w = Now /\ w \in Real
  BY <1>1, ViewIsReal DEF Led, Now, ReadId, At, TypeInv, TypeOK, JobType
<1>3. PICK j \in JobType : j = [job[h] EXCEPT !.at = "offer", !.view = w]
  <2> HIDE DEF w
  <2> QED BY <1>1, <1>2 DEF JobType, Stages
<1>4. /\ j.at = "offer" /\ j.sid = job[h].sid /\ j.todo = job[h].todo /\ j.view = w
      /\ j.ext = job[h].ext
  <2> HIDE DEF w
  <2> QED BY <1>1, <1>3 DEF JobType
<1>5. Do(h, j)
  BY <1>3 DEF ReadId
<1>6. UNCHANGED <<ext, due, mappings, updateId, subs, told>>
  BY DEF ReadId
<1> HIDE DEF w
<1>7. Led(j)'
  BY <1>1, <1>2, <1>4, <1>6 DEF Led, Listed, Knows, Now, ReadId, At
<1> QED BY <1>1, <1>4, <1>5, <1>7, Calms

(* A view with nothing moved is the one remembered. *)
LEMMA NothingMoved ==
  ASSUME NEW r \in ViewType, NEW w \in ViewType, Moved(r, w) = {}
  PROVE  r = w
BY DEF Moved, ViewType

LEMMA NowTold == ASSUME NEW x \in subs, told[x.sid] = Now PROVE Knows(x)
BY DEF Now, View, Knows

LEMMA OfferCalm == ASSUME TypeInv, Calm, NEW h \in Jobs, Offer(h) PROVE Calm'
<1>1. /\ \A g \in Busy : g = h
      /\ Led(job[h]) /\ job[h] \in JobType /\ job[h].todo \subseteq drawn
      /\ job[h].sid \in Sids /\ job[h].view \in Real /\ job[h].at = "offer"
  BY TheJob DEF Offer, At, Offering
<1>2. UNCHANGED <<ext, due, mappings, updateId, subs, told>>
  BY DEF Offer
<1>3. /\ job[h].ext = ext /\ job[h].view = Now
      /\ \A x \in subs : x.sent = told[x.sid]
      /\ \A x \in subs : x.sid \in job[h].todo \/ job[h].sid = x.sid \/ Knows(x)
  BY <1>1 DEF Led, Listed
<1>4. \A x \in subs : x.sent \in ViewType
  BY DEF TypeInv, TypeOK, SubType
<1> DEFINE Body(x) == IF job[h].force THEN Full ELSE Moved(x.sent, job[h].view)
<1>5. CASE Proceed(h, job[h]) /\ \A x \in subs : x.sid = job[h].sid => Body(x) = {}
  <2>1. ASSUME NEW x \in subs, x.sid = job[h].sid PROVE Knows(x)
    <3>1. Moved(x.sent, job[h].view) = {}
      BY <1>5, <2>1 DEF Full
    <3>2. x.sent = job[h].view
      BY <1>1, <1>4, <3>1, NothingMoved, NothingIsUnreal
    <3> QED BY <1>3, <3>2, NowTold
  <2>2. \A x \in subs' : x.sid \in job[h].todo \/ Knows(x)'
    BY <1>2, <1>3, <2>1 DEF Knows
  <2> QED BY <1>1, <1>2, <1>3, <1>5, <2>2, GoesCalm DEF Proceed
<1>6. ASSUME NEW x \in subs, x.sid = job[h].sid,
             Do(h, [job[h] EXCEPT !.at = "deliver", !.key = x.key, !.body = Body(x)])
      PROVE  Calm'
  <2>1. x.key \in Nat /\ Body(x) \subseteq Full
    BY DEF TypeInv, TypeOK, SubType, Moved, Full
  <2>2. \A v \in Full \ Body(x) : told[job[h].sid][v] = job[h].view[v]
    BY <1>3, <1>6 DEF Moved, Full
  <2> DEFINE b == Body(x)
  <2>3. PICK j \in JobType : j = [job[h] EXCEPT !.at = "deliver", !.key = x.key, !.body = b]
    <3> HIDE DEF Body, b
    <3> QED BY <1>1, <2>1 DEF JobType, Stages, b
  <2>4. Do(h, j)
    BY <1>6, <2>3
  <2> HIDE DEF Body, b
  <2>5. /\ j.at = "deliver" /\ j.sid = job[h].sid /\ j.todo = job[h].todo /\ j.body = b
        /\ j.view = job[h].view /\ j.ext = job[h].ext
    BY <1>1, <2>3 DEF JobType
  <2>6. \A v \in Full \ b : told[j.sid][v] = Now[v]
    BY <1>3, <2>2, <2>5 DEF b
  <2>7. Led(j)'
    BY <1>2, <1>3, <2>5, <2>6 DEF Led, Listed, Knows, Now
  <2> QED BY <1>1, <2>4, <2>5, <2>7, Calms
<1>7. \/ Proceed(h, job[h]) /\ \A x \in subs : x.sid = job[h].sid => Body(x) = {}
      \/ \E x \in subs : /\ x.sid = job[h].sid
                         /\ Do(h, [job[h] EXCEPT !.at = "deliver", !.key = x.key, !.body = Body(x)])
  BY DEF Offer, Full
<1> QED BY <1>5, <1>6, <1>7

(* A view is what its three variables are. *)
LEMMA SameView ==
  ASSUME NEW r \in ViewType, NEW w \in ViewType, \A v \in Full : r[v] = w[v]
  PROVE  r = w
BY DEF ViewType, Full

LEMMA DeliverCalm == ASSUME TypeInv, Calm, NEW h \in Jobs, Deliver(h), ~disturbed' PROVE Calm'
<1> DEFINE s == job[h].sid
<1>1. /\ \A g \in Busy : g = h
      /\ Led(job[h]) /\ job[h] \in JobType
      /\ s \in Sids /\ job[h].view \in Real /\ job[h].at = "deliver"
  BY TheJob DEF Deliver, At, Offering
<1>2. UNCHANGED <<ext, due, mappings, updateId, subs>>
  BY DEF Deliver
<1>3. PICK j \in JobType : j = [job[h] EXCEPT !.at = "record"]
  BY <1>1 DEF JobType, Stages
<1>4. /\ j.at = "record" /\ j.sid = s /\ j.todo = job[h].todo
      /\ j.view = job[h].view /\ j.ext = job[h].ext /\ Do(h, j)
  BY <1>1, <1>3 DEF Deliver, JobType
<1>5. told' = [told EXCEPT ![s] = Merged(@, job[h].view, job[h].body)]
  BY DEF Deliver, Merged
<1>6. told[s] \in ViewType /\ told \in [Sids -> ViewType]
  BY <1>1 DEF TypeInv, TypeOK
<1>7. told'[s] = Now
  <2> DEFINE m == Merged(told[s], job[h].view, job[h].body)
  <2>1. m \in ViewType /\ \A v \in Full : m[v] = IF v \in job[h].body THEN job[h].view[v] ELSE told[s][v]
    BY <1>1, <1>6, MergedIsView
  <2>2. job[h].view = Now /\ \A v \in Full \ job[h].body : told[s][v] = Now[v]
    BY <1>1 DEF Led
  <2> HIDE DEF m
  <2>3. m = Now
    BY <1>1, <2>1, <2>2, SameView, NothingIsUnreal
  <2> QED BY <1>1, <1>5, <1>6, <2>3 DEF m
<1>8. \A t \in Sids : t # s => told'[t] = told[t]
  BY <1>5, <1>6
<1>9. \A x \in subs : x.sid \in Sids
  BY DEF TypeInv, TypeOK, SubType
<1>10. Led(j)'
  BY <1>1, <1>2, <1>4, <1>7, <1>8, <1>9 DEF Led, Listed, Knows, Now
<1> QED BY <1>1, <1>4, <1>10, Calms

LEMMA RecordCalm == ASSUME TypeInv, Calm, NEW h \in Jobs, Record(h) PROVE Calm'
<1>1. /\ \A g \in Busy : g = h
      /\ Led(job[h]) /\ job[h] \in JobType /\ job[h].todo \subseteq drawn
      /\ job[h].view \in Real /\ job[h].at = "record"
  BY TheJob DEF Record, At, Offering
<1>2. UNCHANGED <<ext, due, mappings, updateId, told>>
  BY DEF Record
<1>3. /\ job[h].ext = ext /\ job[h].view = Now /\ told[job[h].sid] = Now
      /\ \A x \in subs : x.sid = job[h].sid \/ x.sent = told[x.sid]
      /\ \A x \in subs : x.sid \in job[h].todo \/ x.sid = job[h].sid \/ Knows(x)
  BY <1>1 DEF Led, Listed
<1>4. \A y \in subs' : \E x \in subs :
        \/ y = x /\ x.sid # job[h].sid
        \/ y = SeenTo(x, job[h].view, job[h].key + 1) /\ x.sid = job[h].sid
  BY DEF Record, SeenTo
<1>5. ASSUME NEW y \in subs'
      PROVE  y.sent = told[y.sid] /\ (y.sid \in job[h].todo \/ Knows(y))
  <2>1. PICK x \in subs :
          \/ y = x /\ x.sid # job[h].sid
          \/ y = SeenTo(x, job[h].view, job[h].key + 1) /\ x.sid = job[h].sid
    BY <1>4
  <2>2. CASE y = x /\ x.sid # job[h].sid
    BY <1>3, <2>2
  <2>3. CASE y = SeenTo(x, job[h].view, job[h].key + 1) /\ x.sid = job[h].sid
    <3>1. x \in SubType /\ job[h].view \in ViewType /\ job[h].key + 1 \in Nat
      BY <1>1, NothingIsUnreal DEF TypeInv, TypeOK, JobType
    <3>2. y.sid = job[h].sid /\ y.sent = job[h].view
      BY <2>3, <3>1, SeenIsSub
    <3> QED BY <1>3, <3>2 DEF Knows, Now, View
  <2> QED BY <2>1, <2>2, <2>3
<1>6. \A y \in subs' : y.sent = told'[y.sid] /\ (y.sid \in job[h].todo \/ Knows(y)')
  BY <1>2, <1>5 DEF Knows
<1> QED BY <1>1, <1>2, <1>3, <1>6, GoesCalm DEF Record, Proceed

-----------------------------------------------------------------------------
LEMMA FirstJob ==
  ASSUME CalmInv, NEW h \in Jobs, Starts(h), ~disturbed'
  PROVE  /\ \A g \in Busy : g = h
         /\ AllTold
BY DEF CalmInv, Calm, Starts, AllTold

LEMMA StartsCalm ==
  ASSUME TypeInv, TellInv, CalmInv, ~disturbed',
         \/ Follow
         \/ \E h \in Handlers : Change(h) \/ \E s \in Sids : Subscribe(h, s)
  PROVE  Calm'
<1> USE DEF TypeInv
<1>1. CASE Follow
  <2>1. PICK j \in JobType : j = [Idling EXCEPT !.ext = ext]
    BY IdlingIsJob DEF JobType, TypeOK, Address
  <2>2. j.ext = ext
    BY <2>1, IdlingIsJob DEF JobType
  <2>3. /\ SidsOf(subs) \subseteq drawn /\ Goes(Events, SidsOf(subs), j) /\ Events \in Jobs
        /\ UNCHANGED <<ext, subs, told>>
    BY <1>1, <2>1 DEF TypeOK, Follow, Jobs
  <2>4. (\A g \in Busy : g = Events) /\ AllTold
    BY <1>1, <2>3, FirstJob DEF Follow
  <2> QED BY <2>2, <2>3, <2>4, SidsOfSubs, GoesCalm DEF AllTold
<1>2. ASSUME NEW h \in Handlers, Change(h) PROVE Calm'
  <2>1. PICK j \in JobType : j = [Idling EXCEPT !.at = "bump"]
    BY IdlingIsJob DEF JobType, Stages
  <2>2. j.at = "bump" /\ Do(h, j) /\ h \in Jobs
    BY <1>2, <2>1, IdlingIsJob DEF JobType, Change, Jobs
  <2>3. (\A g \in Busy : g = h) /\ AllTold
    BY <1>2, <2>2, FirstJob DEF Change
  <2>4. Led(j)'
    BY <1>2, <2>2, <2>3 DEF Led, Listed, AllTold, Change
  <2> QED BY <2>2, <2>3, <2>4, Calms
<1>3. ASSUME NEW h \in Handlers, NEW s \in Sids, Subscribe(h, s) PROVE Calm'
  <2>1. PICK j \in JobType : j = [Idling EXCEPT !.ext = ext, !.force = TRUE]
    BY IdlingIsJob DEF JobType, TypeOK, Address
  <2>2. PICK k \in JobType : k = [j EXCEPT !.at = "count", !.todo = {s}]
    BY DEF JobType, Stages
  <2>3. k.at = "count" /\ k.todo = {s} /\ k.ext = ext
    BY <2>1, <2>2, IdlingIsJob DEF JobType
  <2>4. Do(h, k) /\ h \in Jobs
    BY <1>3, <2>1, <2>2 DEF Subscribe, Goes, Jobs
  <2>5. (\A g \in Busy : g = h) /\ AllTold
    BY <1>3, <2>4, FirstJob DEF Subscribe
  <2>6. /\ subs' = subs \cup {Sub(s)} /\ UNCHANGED <<ext, due, mappings, updateId, told>>
    BY <1>3 DEF Subscribe
  <2>7. Sub(s).sid = s /\ Sub(s).sent = told[s]
    BY <1>3 DEF Subscribe, Sub, TellInv, FreshOK
  <2>8. Led(k)'
    BY <2>3, <2>5, <2>6, <2>7 DEF Led, Listed, AllTold, Knows
  <2> QED BY <2>3, <2>4, <2>5, <2>8, Calms
<1> QED BY <1>1, <1>2, <1>3

(* Another address: only that it is another is not known yet. *)
LEMMA PublishCalm == ASSUME CalmInv, Publish, ~disturbed' PROVE Calm'
<1>1. Busy = {} /\ AllTold
  BY DEF CalmInv, Calm, Publish
<1>2. due' /\ UNCHANGED <<mappings, updateId, subs, job, told>>
  BY DEF Publish
<1>3. Busy' = {}
  BY <1>1, <1>2 DEF Busy, At
<1>4. AllTold'
  BY <1>1, <1>2 DEF AllTold, Knows
<1> QED BY <1>3, <1>4 DEF Calm

LEMMA ManageCalm == ASSUME TypeInv, Calm, Manage PROVE Calm'
<1>1. UNCHANGED <<ext, due, mappings, updateId, job, told>>
  BY DEF Manage
<1>2. \A y \in subs' : \E x \in subs : y.sid = x.sid /\ y.sent = x.sent
  BY ManageKeeps
<1>3. Busy' = Busy
  BY <1>1 DEF Busy, At
<1>4. AllTold => AllTold'
  BY <1>1, <1>2 DEF AllTold, Knows
<1>5. \A j : Led(j) => /\ \A y \in subs' : (j.at = "record" /\ j.sid = y.sid) \/ y.sent = told[y.sid]
                       /\ \A y \in subs' : Listed(j, y) \/ Knows(y)
  BY <1>2 DEF Led, Listed, Knows
<1>6. ASSUME NEW h \in Busy PROVE Led(job[h])'
  <2>1. Led(job[h])
    BY <1>6 DEF Calm
  <2> QED BY <1>1, <1>5, <2>1 DEF Led, Listed, Knows, Now
<1> QED BY <1>1, <1>3, <1>4, <1>6 DEF Calm

LEMMA CalmKept == TypeInv /\ TellInv /\ CalmInv /\ [Next]_vars => CalmInv'
<1> SUFFICES ASSUME TypeInv, TellInv, CalmInv, [Next]_vars, ~disturbed' PROVE Calm'
  BY DEF CalmInv
<1>1. ASSUME NEW h \in Jobs, Step(h) PROVE Calm'
  <2>1. ~disturbed
    BY <1>1 DEF Step, Bump, List, Count, ReadId, Offer, Deliver, Record, TypeInv
  <2> QED BY <1>1, <2>1, BumpCalm, ListCalm, CountCalm, ReadIdCalm, OfferCalm, DeliverCalm, RecordCalm
          DEF Step, CalmInv
<1>2. CASE UNCHANGED vars
  BY <1>2 DEF vars, CalmInv, Calm, Busy, At, AllTold, Knows, Led, Listed, Now
<1>3. CASE Manage
  BY <1>3, ManageCalm DEF CalmInv, Manage
<1>4. ASSUME NEW h \in Handlers, Cancel(h) PROVE Calm'
  BY <1>4 DEF Cancel
<1> QED BY <1>1, <1>2, <1>3, <1>4, PublishCalm, StartsCalm DEF Next

LEMMA CalmHolds == Spec => []CalmInv
BY InitCalm, TypesHold, TellsHold, CalmKept, PTL DEF Spec

-----------------------------------------------------------------------------
(* Types, however many jobs notify at once. *)
THEOREM EventTypes == Spec => []TypeOK
<1>1. TypeInv => TypeOK
  BY DEF TypeInv
<1> QED BY TypesHold, <1>1, PTL

(* The eventKeys notify_view (upnpsvc.rs) sends leave no gap: each is one  *)
(* the subscriber has seen or the next, whatever is lost, cut off, expired *)
(* or overtaken.                                                           *)
THEOREM KeysLeaveNoGap == Spec => []NoKeySkipped
<1>1. TellInv => NoKeySkipped
  BY DEF TellInv, KeysOK
<1> QED BY TellsHold, <1>1, PTL

(* The first event a subscriber is sent carries every variable, also when  *)
(* a notification of a change overtakes the initial event of               *)
(* gena_subscribe.                                                         *)
THEOREM FirstEventTellsAll == Spec => []FirstTellsAll
<1>1. TellInv => FirstTellsAll
  BY DEF TellInv, FirstOK
<1> QED BY TellsHold, <1>1, PTL

(* After changes that came one after the other and were delivered, every   *)
(* subscriber knows the address, the count and the update id there are.    *)
THEOREM SubscribersKnow == Spec => []AllKnow
<1>1. TypeInv /\ CalmInv => AllKnow
  <2> SUFFICES ASSUME TypeInv, CalmInv, Quiet, ~disturbed, NEW x \in subs
               PROVE  told[x.sid] = Now
    BY DEF AllKnow
  <2>1. Knows(x) /\ ~due
    BY DEF CalmInv, Calm, Quiet, AllTold
  <2>2. told[x.sid] \in ViewType
    BY DEF TypeInv, TypeOK, SubType
  <2>3. told[x.sid].ext = ext /\ told[x.sid].count = mappings /\ told[x.sid].id = updateId
    BY <2>1 DEF Knows
  <2> QED BY <2>2, <2>3 DEF ViewType, Now, View
<1> QED BY TypesHold, CalmHolds, <1>1, PTL
=============================================================================
