-------------------------- MODULE LeaseTableProofs --------------------------
(***************************************************************************)
(* Proofs about LeaseTable, for every range, limit, set of clients and     *)
(* length of run.  TableOK says what a single table satisfies; the         *)
(* invariant says it of every table in Tables, because a respawn turns a   *)
(* persisted row set, possibly an old one, into the live table.            *)
(***************************************************************************)
EXTENDS LeaseTable, FiniteSetTheorems, TLAPS

KeyUnique(T) == \A s, t \in Grants(T) : SameKey(s, t) => s = t

WithinQuota(T) == \A c \in Clients : Cardinality(OfClient(T, c)) <= MaxMapsPerClient

WithinCapacity(T) == Cardinality(Grants(T)) <= MaxSlots

TableOK(T) == /\ T \subseteq Slot
              /\ IsFiniteSet(T)
              /\ KeyUnique(T)
              /\ WithinQuota(T)
              /\ WithinCapacity(T)

RowsOK(T) == TableOK(T) /\ Grants(T) = T

TablesInv == /\ TableOK(slots)
             /\ RowsOK(disk)
             /\ \A T \in snaps : RowsOK(T)
             /\ TypeOK

-----------------------------------------------------------------------------
(* One element more, and one element for another. *)
LEMMA AddOne ==
  ASSUME NEW S, IsFiniteSet(S), NEW x
  PROVE  /\ IsFiniteSet(S \cup {x})
         /\ Cardinality(S \cup {x}) \in Nat
         /\ Cardinality(S) \in Nat
         /\ Cardinality(S \cup {x}) <= Cardinality(S) + 1
<1>1. Cardinality(S) \in Nat
  BY FS_CardinalityType
<1>2. /\ IsFiniteSet(S \cup {x})
      /\ Cardinality(S \cup {x}) =
           IF x \in S THEN Cardinality(S) ELSE Cardinality(S) + 1
  BY FS_AddElement
<1> QED
  BY <1>1, <1>2

LEMMA SwapOne ==
  ASSUME NEW S, IsFiniteSet(S), NEW x \in S, NEW y
  PROVE  /\ IsFiniteSet((S \ {x}) \cup {y})
         /\ Cardinality((S \ {x}) \cup {y}) <= Cardinality(S)
<1>1. /\ IsFiniteSet(S \ {x})
      /\ Cardinality(S \ {x}) = Cardinality(S) - 1
  BY FS_RemoveElement
<1>2. Cardinality(S) \in Nat
  BY FS_CardinalityType
<1>3. /\ IsFiniteSet((S \ {x}) \cup {y})
      /\ Cardinality((S \ {x}) \cup {y}) \in Nat
      /\ Cardinality((S \ {x}) \cup {y}) <= Cardinality(S \ {x}) + 1
  BY <1>1, AddOne
<1> QED
  BY <1>1, <1>2, <1>3

(* The two filters of a finite table are finite, no larger than the table, *)
(* and grow with it.                                                       *)
LEMMA FilterFacts ==
  ASSUME NEW T, IsFiniteSet(T), NEW U \in SUBSET T
  PROVE  /\ IsFiniteSet(U)
         /\ IsFiniteSet(Grants(U))
         /\ Cardinality(Grants(U)) \in Nat
         /\ Cardinality(Grants(U)) <= Cardinality(Grants(T))
         /\ Cardinality(Grants(T)) <= Cardinality(T)
         /\ Cardinality(Grants(T)) \in Nat
         /\ Cardinality(T) \in Nat
         /\ \A c : /\ IsFiniteSet(OfClient(U, c))
                   /\ Cardinality(OfClient(U, c)) \in Nat
                   /\ Cardinality(OfClient(T, c)) \in Nat
                   /\ Cardinality(OfClient(U, c)) <= Cardinality(OfClient(T, c))
<1>1. IsFiniteSet(U)
  BY FS_Subset
<1>2. /\ Grants(U) \in SUBSET U
      /\ Grants(U) \in SUBSET Grants(T)
      /\ Grants(T) \in SUBSET T
  BY DEF Grants
<1>3. \A c : /\ OfClient(U, c) \in SUBSET U
             /\ OfClient(U, c) \in SUBSET OfClient(T, c)
             /\ OfClient(T, c) \in SUBSET T
  BY DEF OfClient
<1>4. /\ IsFiniteSet(Grants(U))
      /\ IsFiniteSet(Grants(T))
  BY <1>1, <1>2, FS_Subset
<1>5. \A c : IsFiniteSet(OfClient(U, c)) /\ IsFiniteSet(OfClient(T, c))
  BY <1>1, <1>3, FS_Subset
<1>6. /\ Cardinality(Grants(U)) <= Cardinality(Grants(T))
      /\ Cardinality(Grants(T)) <= Cardinality(T)
  BY <1>2, <1>4, FS_Subset
<1>7. \A c : Cardinality(OfClient(U, c)) <= Cardinality(OfClient(T, c))
  BY <1>3, <1>5, FS_Subset
<1>8. \A c : /\ Cardinality(OfClient(U, c)) \in Nat
             /\ Cardinality(OfClient(T, c)) \in Nat
  BY <1>5, FS_CardinalityType
<1>9. /\ Cardinality(Grants(U)) \in Nat
      /\ Cardinality(Grants(T)) \in Nat
      /\ Cardinality(T) \in Nat
  BY <1>4, FS_CardinalityType
<1> QED
  BY <1>1, <1>4, <1>5, <1>6, <1>7, <1>8, <1>9

(* Freeing slots, by whichever sweep or delete, keeps a table good. *)
LEMMA FreeingKeepsTableOK ==
  ASSUME NEW T, TableOK(T), NEW U \in SUBSET T
  PROVE  TableOK(U)
<1>1. U \subseteq Slot
  BY DEF TableOK
<1>2. KeyUnique(U)
  BY DEF TableOK, KeyUnique, Grants
<1>3. IsFiniteSet(U) /\ WithinQuota(U) /\ WithinCapacity(U)
  BY FilterFacts, LimitAssumption DEF TableOK, WithinQuota, WithinCapacity
<1> QED
  BY <1>1, <1>2, <1>3 DEF TableOK

(* Rewriting a slot without touching its key (a refresh, a stamp, a move)  *)
(* keeps a table good.                                                     *)
LEMMA RewriteKeepsTableOK ==
  ASSUME NEW T, TableOK(T), NEW s \in T, NEW t \in Slot, SameKey(s, t)
  PROVE  TableOK((T \ {s}) \cup {t})
<1> DEFINE R == T \ {s}
<1> DEFINE U == R \cup {t}
<1>1. R \in SUBSET T /\ IsFiniteSet(T) /\ s \in Slot
  BY DEF TableOK
<1>2. IsFiniteSet(U)
  <2>1. IsFiniteSet(R)
    BY <1>1, FS_Subset
  <2> QED
    BY <2>1, FS_AddElement
<1>3. U \subseteq Slot
  BY DEF TableOK
<1>4. KeyUnique(U)
  BY DEF TableOK, KeyUnique, Grants, SameKey, IsStatic
<1>5. \A c \in Clients : Cardinality(OfClient(U, c)) <= Cardinality(OfClient(T, c))
  <2> TAKE c \in Clients
  <2>1. IsFiniteSet(OfClient(R, c)) /\ IsFiniteSet(OfClient(T, c))
    BY <1>1, FilterFacts
  <2>2. CASE t.client = c
    <3>1. s \in OfClient(T, c)
      BY <2>2 DEF OfClient, SameKey
    <3>2. OfClient(U, c) = (OfClient(T, c) \ {s}) \cup {t}
      BY <2>2 DEF OfClient
    <3> QED
      BY <2>1, <3>1, <3>2, SwapOne
  <2>3. CASE t.client # c
    <3>1. OfClient(U, c) \in SUBSET OfClient(T, c)
      BY <2>3 DEF OfClient
    <3> QED
      BY <2>1, <3>1, FS_Subset
  <2> QED
    BY <2>2, <2>3
<1>6. Cardinality(Grants(U)) <= Cardinality(Grants(T))
  <2>1. IsFiniteSet(Grants(R)) /\ IsFiniteSet(Grants(T))
    BY <1>1, FilterFacts
  <2>2. CASE ~IsStatic(t)
    <3>1. s \in Grants(T)
      BY <2>2 DEF Grants, SameKey, IsStatic
    <3>2. Grants(U) = (Grants(T) \ {s}) \cup {t}
      BY <2>2 DEF Grants
    <3> QED
      BY <2>1, <3>1, <3>2, SwapOne
  <2>3. CASE IsStatic(t)
    <3>1. Grants(U) \in SUBSET Grants(T)
      BY <2>3 DEF Grants
    <3> QED
      BY <2>1, <3>1, FS_Subset
  <2> QED
    BY <2>2, <2>3
<1>7. WithinQuota(U) /\ WithinCapacity(U)
  <2>1. /\ Cardinality(Grants(U)) \in Nat
        /\ Cardinality(Grants(T)) \in Nat
        /\ \A c : /\ Cardinality(OfClient(U, c)) \in Nat
                  /\ Cardinality(OfClient(T, c)) \in Nat
    BY <1>1, <1>2, FilterFacts
  <2> QED
    BY <1>5, <1>6, <2>1, LimitAssumption DEF TableOK, WithinQuota, WithinCapacity
<1> QED
  BY <1>2, <1>3, <1>4, <1>7 DEF TableOK

(* A grant made for an absent key, under the quota and the capacity, keeps *)
(* a table good.                                                           *)
LEMMA GrantKeepsTableOK ==
  ASSUME NEW T, TableOK(T), NEW g \in Slot, g.client \in Clients,
         \A s \in T : ~HasKey(s, g.proto, g.int, g.client),
         ~OverQuota(T, g.client), ~IsFull(T)
  PROVE  TableOK(T \cup {g})
<1> DEFINE U == T \cup {g}
<1>1. U \subseteq Slot /\ IsFiniteSet(T)
  BY DEF TableOK
<1>2. IsFiniteSet(U)
  BY <1>1, FS_AddElement
<1>3. KeyUnique(U)
  BY DEF TableOK, KeyUnique, Grants, SameKey, HasKey
<1>4. WithinQuota(U)
  <2> SUFFICES ASSUME NEW c \in Clients
               PROVE  Cardinality(OfClient(U, c)) <= MaxMapsPerClient
    BY DEF WithinQuota
  <2>1. IsFiniteSet(OfClient(T, c)) /\ Cardinality(OfClient(T, c)) \in Nat
    BY <1>1, FilterFacts
  <2>2. CASE g.client = c
    <3>1. OfClient(U, c) = OfClient(T, c) \cup {g}
      BY <2>2 DEF OfClient
    <3>2. Cardinality(OfClient(U, c)) <= Cardinality(OfClient(T, c)) + 1
      BY <2>1, <3>1, AddOne
    <3>3. Cardinality(OfClient(T, c)) < MaxMapsPerClient
      BY <2>1, <2>2, LimitAssumption DEF OverQuota
    <3> QED
      BY <2>1, <3>2, <3>3, LimitAssumption, <1>2, FilterFacts
  <2>3. CASE g.client # c
    <3>1. OfClient(U, c) = OfClient(T, c)
      BY <2>3 DEF OfClient
    <3> QED
      BY <3>1 DEF TableOK, WithinQuota
  <2> QED
    BY <2>2, <2>3
<1>5. WithinCapacity(U)
  <2>1. /\ IsFiniteSet(Grants(T))
        /\ Cardinality(Grants(T)) \in Nat
        /\ Cardinality(T) \in Nat
        /\ Cardinality(Grants(T)) <= Cardinality(T)
        /\ Cardinality(Grants(U)) \in Nat
    BY <1>1, <1>2, FilterFacts
  <2>2. Grants(U) = Grants(T) \cup {g}
    BY OperatorAssumption DEF Grants, IsStatic
  <2>3. Cardinality(Grants(U)) <= Cardinality(Grants(T)) + 1
    BY <2>1, <2>2, AddOne
  <2>4. Cardinality(T) < MaxSlots
    BY <2>1, LimitAssumption DEF IsFull
  <2> QED
    BY <2>1, <2>3, <2>4, LimitAssumption DEF WithinCapacity
<1> QED
  BY <1>1, <1>2, <1>3, <1>4, <1>5 DEF TableOK

(* A table of statics alone is good: no keys, no clients, no grants. *)
LEMMA StaticsTableOK ==
  ASSUME NEW S \in SUBSET Ports
  PROVE  LET T == {StaticSlot(p) : p \in S} IN TableOK(T) /\ Grants(T) = {}
<1> DEFINE T == {StaticSlot(p) : p \in S}
<1> DEFINE f == [p \in S |-> StaticSlot(p)]
<1>1. IsFiniteSet(T)
  <2>1. IsFiniteSet(S)
    <3>1. IsFiniteSet(Ports)
      BY FS_Interval, RangeAssumption DEF Ports
    <3> QED
      BY <3>1, FS_Subset
  <2>2. f \in Surjection(S, T)
    BY DEF Surjection
  <2> QED
    BY <2>1, <2>2, FS_Surjection
<1>2. T \subseteq Slot
  BY DEF Slot, StaticSlot, Protos
<1>3. Grants(T) = {}
  BY DEF Grants, IsStatic, StaticSlot
<1>4. \A c \in Clients : OfClient(T, c) = {}
  BY OperatorAssumption DEF OfClient, StaticSlot
<1>5. WithinQuota(T) /\ WithinCapacity(T)
  BY <1>3, <1>4, FS_EmptySet, LimitAssumption DEF WithinQuota, WithinCapacity
<1>6. KeyUnique(T)
  BY <1>3 DEF KeyUnique
<1> QED
  BY <1>1, <1>2, <1>3, <1>5, <1>6 DEF TableOK

(* A restored row is a slot with the key and the port of its row. *)
LEMMA RestoredSlotFacts ==
  ASSUME NEW r \in Slot, NEW t \in Nat
  PROVE  /\ RestoredSlot(r, t) \in Slot
         /\ SameKey(r, RestoredSlot(r, t))
         /\ RestoredSlot(r, t).bind = r.bind
         /\ RestoredSlot(r, t).client = r.client
<1>1. SatSub(r.exp, t) \in Nat
  BY DEF SatSub, Slot
<1>2. Clamp(SatSub(r.exp, t), 1, r.life) \in Nat
  BY <1>1 DEF Clamp, Slot
<1> DEFINE e == t + Clamp(SatSub(r.exp, t), 1, r.life)
<1>3. e \in Nat
  BY <1>2
<1>4. RestoredSlot(r, t) = [r EXCEPT !.exp = e, !.act = t]
  BY DEF RestoredSlot
<1> HIDE DEF e
<1> QED
  BY <1>3, <1>4 DEF Slot, SameKey

(* Restoring a good row set yields a good row set: the map from rows to    *)
(* slots keeps keys, so nothing is duplicated and no count grows.          *)
LEMMA RestoredRowsOK ==
  ASSUME NEW D, RowsOK(D), NEW t \in Nat
  PROVE  RowsOK({RestoredSlot(r, t) : r \in D})
<1> DEFINE R == {RestoredSlot(r, t) : r \in D}
<1>1. D \subseteq Slot /\ IsFiniteSet(D) /\ KeyUnique(D) /\ Grants(D) = D
  BY DEF RowsOK, TableOK
<1>2. \A r \in D : /\ RestoredSlot(r, t) \in Slot
                   /\ SameKey(r, RestoredSlot(r, t))
                   /\ RestoredSlot(r, t).client = r.client
  BY <1>1, RestoredSlotFacts
<1>3. R \subseteq Slot
  BY <1>2
<1>4. Grants(R) = R
  BY <1>1, <1>2 DEF Grants, IsStatic
<1>5. KeyUnique(R)
  <2> SUFFICES ASSUME NEW a \in D, NEW b \in D,
                      SameKey(RestoredSlot(a, t), RestoredSlot(b, t))
               PROVE  RestoredSlot(a, t) = RestoredSlot(b, t)
    BY <1>4 DEF KeyUnique
  <2>1. SameKey(a, b)
    BY <1>2 DEF SameKey
  <2> QED
    BY <1>1, <2>1 DEF KeyUnique
<1>6. ASSUME NEW E \in SUBSET D
      PROVE  /\ IsFiniteSet({RestoredSlot(r, t) : r \in E})
             /\ Cardinality({RestoredSlot(r, t) : r \in E}) <= Cardinality(E)
  <2> DEFINE I == {RestoredSlot(r, t) : r \in E}
  <2> DEFINE f == [r \in E |-> RestoredSlot(r, t)]
  <2>1. f \in Surjection(E, I)
    BY DEF Surjection
  <2>2. IsFiniteSet(E)
    BY <1>1, FS_Subset
  <2> QED
    BY <2>1, <2>2, FS_Surjection
<1>7. IsFiniteSet(R)
  BY <1>6
<1>8. WithinQuota(R)
  <2> SUFFICES ASSUME NEW c \in Clients
               PROVE  Cardinality(OfClient(R, c)) <= MaxMapsPerClient
    BY DEF WithinQuota
  <2>1. OfClient(R, c) = {RestoredSlot(r, t) : r \in OfClient(D, c)}
    BY <1>2 DEF OfClient
  <2>2. OfClient(D, c) \in SUBSET D
    BY DEF OfClient
  <2>3. Cardinality(OfClient(R, c)) <= Cardinality(OfClient(D, c))
    BY <1>6, <2>1, <2>2
  <2>4. Cardinality(OfClient(D, c)) <= MaxMapsPerClient
    BY DEF RowsOK, TableOK, WithinQuota
  <2> QED
    BY <2>3, <2>4, <1>1, <1>7, FilterFacts, LimitAssumption
<1>9. WithinCapacity(R)
  <2>1. Cardinality(R) <= Cardinality(D)
    BY <1>6
  <2>2. Cardinality(D) <= MaxSlots
    BY <1>1 DEF RowsOK, TableOK, WithinCapacity
  <2>3. Cardinality(R) \in Nat /\ Cardinality(D) \in Nat
    BY <1>1, <1>7, FS_CardinalityType
  <2>4. Cardinality(R) <= MaxSlots
    BY <2>1, <2>2, <2>3, LimitAssumption
  <2> QED
    BY <1>4, <2>4 DEF WithinCapacity
<1> QED
  BY <1>3, <1>4, <1>5, <1>7, <1>8, <1>9 DEF RowsOK, TableOK

(* Statics beside good rows make a good table: they count for no client    *)
(* and for no grant.                                                       *)
LEMMA StaticsBesideRowsOK ==
  ASSUME NEW S \in SUBSET Ports, NEW R, RowsOK(R)
  PROVE  TableOK({StaticSlot(p) : p \in S} \cup R)
<1> DEFINE P == {StaticSlot(p) : p \in S}
<1> DEFINE U == P \cup R
<1>1. TableOK(P) /\ Grants(P) = {}
  BY StaticsTableOK
<1>2. Grants(U) = R
  BY <1>1 DEF Grants, RowsOK
<1>3. \A c \in Clients : OfClient(U, c) = OfClient(R, c)
  BY OperatorAssumption DEF OfClient, StaticSlot
<1>4. IsFiniteSet(U)
  BY <1>1, FS_Union DEF RowsOK, TableOK
<1>5. U \subseteq Slot /\ KeyUnique(U)
  BY <1>1, <1>2 DEF RowsOK, TableOK, KeyUnique
<1>6. WithinQuota(U) /\ WithinCapacity(U)
  BY <1>2, <1>3 DEF RowsOK, TableOK, WithinQuota, WithinCapacity
<1> QED
  BY <1>4, <1>5, <1>6 DEF TableOK

-----------------------------------------------------------------------------
LEMMA InitTables == Init => TablesInv
<1> SUFFICES ASSUME Init PROVE TablesInv
  OBVIOUS
<1>1. PICK S \in StaticConfigs : slots = {StaticSlot(p) : p \in S}
  BY DEF Init
<1>2. TableOK(slots)
  BY <1>1, StaticsTableOK, StaticAssumption
<1>3. RowsOK({})
  <2>1. Grants({}) = {} /\ \A c : OfClient({}, c) = {}
    BY DEF Grants, OfClient
  <2> QED
    BY <2>1, FS_EmptySet, LimitAssumption
       DEF RowsOK, TableOK, KeyUnique, WithinQuota, WithinCapacity
<1>4. TypeOK
  BY <1>2 DEF Init, TypeOK, TableOK
<1> QED
  BY <1>2, <1>3, <1>4 DEF Init, TablesInv

(* The invariant is kept by every step; the critical sections that rewrite *)
(* the table go through the lemmas above, the others leave it alone.       *)
LEMMA NextTables == TablesInv /\ [Next]_vars => TablesInv'
<1> SUFFICES ASSUME TablesInv, [Next]_vars PROVE TablesInv'
  OBVIOUS
<1> USE DEF TablesInv
<1>0. /\ TableOK(slots) /\ RowsOK(disk) /\ TypeOK
      /\ slots \subseteq Slot /\ disk \subseteq Slot /\ now \in Nat
      /\ \A s \in slots : s \in Slot
  BY DEF TypeOK
<1>1. CASE Tick
  BY <1>1 DEF Tick, TypeOK
<1>2. ASSUME NEW live \in FlowReports, AvoidPorts(live)
      PROVE  TablesInv'
  BY <1>2 DEF AvoidPorts, TypeOK
<1>3. ASSUME NEW pr \in Protos, NEW i \in IntPorts, NEW c \in Clients,
             NEW life \in Lifetimes, Refresh(pr, i, c, life)
      PROVE  TablesInv'
  <2>1. PICK s \in slots : /\ HasKey(s, pr, i, c)
                           /\ slots' = (slots \ {s}) \cup {RefreshSlot(s, life)}
    BY <1>3 DEF Refresh
  <2>2. life \in Nat /\ now + life \in Nat
    BY <1>0, LifetimeAssumption
  <2>3. RefreshSlot(s, life) \in Slot /\ SameKey(s, RefreshSlot(s, life))
    BY <1>0, <2>2 DEF RefreshSlot, Slot, SameKey
  <2>4. TableOK(slots')
    BY <1>0, <2>1, <2>3, RewriteKeepsTableOK
  <2> QED
    BY <1>3, <2>4 DEF Refresh, TypeOK, TableOK
<1>4. ASSUME NEW pr \in Protos, NEW i \in IntPorts, NEW c \in Clients,
             NEW life \in Lifetimes, Grant(pr, i, c, life)
      PROVE  TablesInv'
  <2>1. PICK p \in Ports : slots' = slots \cup {GrantSlot(p, pr, i, c, life, now)}
    BY <1>4 DEF Grant
  <2> DEFINE g == GrantSlot(p, pr, i, c, life, now)
  <2>2. life \in Nat /\ now + life \in Nat
    BY <1>0, LifetimeAssumption
  <2>3. /\ g \in Slot
        /\ g.proto = pr /\ g.int = i /\ g.client = c
    BY <1>0, <2>2 DEF GrantSlot, Slot
  <2>4. TableOK(slots')
    BY <1>0, <1>4, <2>1, <2>3, GrantKeepsTableOK DEF Grant
  <2> QED
    BY <1>4, <2>4 DEF Grant, TypeOK, TableOK
<1>5. ASSUME NEW p \in Ports, Delete(p)
      PROVE  TablesInv'
  <2>1. slots' \in SUBSET slots
    BY <1>5 DEF Delete
  <2>2. TableOK(slots')
    BY <1>0, <2>1, FreeingKeepsTableOK
  <2> QED
    BY <1>5, <2>2 DEF Delete, TypeOK, TableOK
<1>6. ASSUME NEW p \in Ports, Stamp(p)
      PROVE  TablesInv'
  <2>1. PICK s \in slots : slots' = (slots \ {s}) \cup {[s EXCEPT !.act = now]}
    BY <1>6 DEF Stamp
  <2>2. [s EXCEPT !.act = now] \in Slot /\ SameKey(s, [s EXCEPT !.act = now])
    BY <1>0 DEF Slot, SameKey
  <2>3. TableOK(slots')
    BY <1>0, <2>1, <2>2, RewriteKeepsTableOK
  <2> QED
    BY <1>6, <2>3 DEF Stamp, TypeOK, TableOK
<1>7. ASSUME NEW p \in Ports, Move(p)
      PROVE  TablesInv'
  <2>1. avoid' \subseteq Ports /\ UNCHANGED <<now, victim, disk, snaps, putBack>>
    BY <1>7 DEF Move, TypeOK
  <2>2. CASE UNCHANGED <<slots, moving>>
    BY <1>0, <2>1, <2>2 DEF TypeOK
  <2>3. CASE \E s \in slots, q \in Ports :
               /\ slots' = (slots \ {s}) \cup {[s EXCEPT !.bind = q]}
               /\ moving' = {[from |-> p, to |-> q]}
    <3>1. PICK s \in slots, q \in Ports :
            /\ slots' = (slots \ {s}) \cup {[s EXCEPT !.bind = q]}
            /\ moving' = {[from |-> p, to |-> q]}
      BY <2>3
    <3>2. [s EXCEPT !.bind = q] \in Slot /\ SameKey(s, [s EXCEPT !.bind = q])
      BY <1>0 DEF Slot, SameKey
    <3>3. TableOK(slots')
      BY <1>0, <3>1, <3>2, RewriteKeepsTableOK
    <3>4. moving' \subseteq MoveRecord
      BY <3>1 DEF MoveRecord
    <3> QED
      BY <2>1, <3>3, <3>4 DEF TypeOK, TableOK
  <2> QED
    BY <1>7, <2>2, <2>3 DEF Move
<1>8. CASE Gc
  <2>1. slots' \in SUBSET slots
    BY <1>8 DEF Gc
  <2>2. TableOK(slots')
    BY <1>0, <2>1, FreeingKeepsTableOK
  <2> QED
    BY <1>8, <2>2 DEF Gc, TypeOK, TableOK
<1>9. CASE GcIdle
  <2>1. slots' \in SUBSET slots
    BY <1>9 DEF GcIdle
  <2>2. TableOK(slots')
    BY <1>0, <2>1, FreeingKeepsTableOK
  <2> QED
    BY <1>9, <2>2 DEF GcIdle, TypeOK, TableOK
<1>10. ASSUME NEW pr \in Protos, NEW i \in IntPorts, NEW c \in Clients,
              PickVictim(pr, i, c)
       PROVE  TablesInv'
  <2>1. PICK s \in Evictable(slots, now, EvictGrace, c) : victim' = {s.bind}
    BY <1>10 DEF PickVictim
  <2>2. s \in slots
    BY <2>1 DEF Evictable
  <2>3. victim' \subseteq Ports
    BY <1>0, <2>1, <2>2 DEF Slot
  <2> QED
    BY <1>10, <2>3 DEF PickVictim, TypeOK
<1>11. CASE Evict
  <2>1. /\ slots' \in SUBSET slots
        /\ victim' = {}
        /\ UNCHANGED <<avoid, now, moving, disk, snaps, putBack>>
    BY <1>11 DEF Evict
  <2>2. TableOK(slots')
    BY <1>0, <2>1, FreeingKeepsTableOK
  <2> QED
    BY <2>1, <2>2 DEF TypeOK, TableOK
<1>12. CASE MoveDone
  BY <1>12 DEF MoveDone, TypeOK
<1>13. CASE MoveBack
  <2>1. PICK m \in moving :
          /\ moving' = {}
          /\ \/ \E s \in slots :
                  /\ slots' = (slots \ {s}) \cup {[s EXCEPT !.bind = m.from]}
                  /\ putBack' = putBack \cup {m.from}
             \/ UNCHANGED <<slots, putBack>>
          /\ UNCHANGED <<avoid, now, victim, disk, snaps>>
    BY <1>13 DEF MoveBack
  <2>2. m.from \in Ports
    BY DEF TypeOK, MoveRecord
  <2>3. CASE UNCHANGED <<slots, putBack>>
    BY <2>1, <2>3 DEF TypeOK
  <2>4. CASE \E s \in slots :
               /\ slots' = (slots \ {s}) \cup {[s EXCEPT !.bind = m.from]}
               /\ putBack' = putBack \cup {m.from}
    <3>1. PICK s \in slots :
            slots' = (slots \ {s}) \cup {[s EXCEPT !.bind = m.from]}
      BY <2>4
    <3>2. /\ [s EXCEPT !.bind = m.from] \in Slot
          /\ SameKey(s, [s EXCEPT !.bind = m.from])
      BY <1>0, <2>2 DEF Slot, SameKey
    <3>3. TableOK(slots')
      BY <1>0, <3>1, <3>2, RewriteKeepsTableOK
    <3> QED
      BY <2>1, <2>2, <2>4, <3>3 DEF TypeOK, TableOK
  <2> QED
    BY <2>1, <2>3, <2>4
<1>14. CASE TakeSnapshot
  <2>1. Grants(slots) \in SUBSET slots /\ Grants(Grants(slots)) = Grants(slots)
    BY DEF Grants
  <2>2. RowsOK(Grants(slots))
    BY <1>0, <2>1, FreeingKeepsTableOK DEF RowsOK
  <2>3. Grants(slots) \subseteq Slot
    BY <2>2 DEF RowsOK, TableOK
  <2> QED
    BY <1>14, <2>2, <2>3 DEF TakeSnapshot, TypeOK
<1>15. ASSUME NEW rows \in snaps, WriteSnapshot(rows)
       PROVE  TablesInv'
  BY <1>15 DEF WriteSnapshot, TypeOK
<1>16. ASSUME NEW S \in StaticConfigs, Respawn(S)
       PROVE  TablesInv'
  <2> DEFINE rows == {r \in disk : r.bind \notin S}
  <2> DEFINE R == {RestoredSlot(r, now) : r \in rows}
  <2>1. RowsOK(rows)
    <3>1. rows \in SUBSET disk /\ Grants(rows) = rows
      BY <1>0 DEF RowsOK, Grants
    <3> QED
      BY <1>0, <3>1, FreeingKeepsTableOK DEF RowsOK
  <2>2. RowsOK(R)
    BY <1>0, <2>1, RestoredRowsOK
  <2>3. S \in SUBSET Ports
    BY StaticAssumption
  <2>4. TableOK({StaticSlot(p) : p \in S} \cup R)
    BY <2>2, <2>3, StaticsBesideRowsOK
  <2>5. /\ slots' = {StaticSlot(p) : p \in S} \cup R
        /\ disk' = R
        /\ avoid' = {} /\ moving' = {} /\ victim' = {} /\ snaps' = {}
        /\ putBack' = {} /\ now' = now
    BY <1>16 DEF Respawn, RestoredTable
  <2>6. TypeOK'
    BY <1>0, <2>2, <2>4, <2>5 DEF TypeOK, RowsOK, TableOK
  <2> QED
    BY <2>2, <2>4, <2>5, <2>6
<1>17. CASE UNCHANGED vars
  BY <1>17 DEF vars, TypeOK
<1> QED
  BY <1>1, <1>2, <1>3, <1>4, <1>5, <1>6, <1>7, <1>8, <1>9, <1>10, <1>11,
     <1>12, <1>13, <1>14, <1>15, <1>16, <1>17 DEF Next

LEMMA TablesInvariant == Spec => []TablesInv
<1>1. Init => TablesInv
  BY InitTables
<1>2. TablesInv /\ [Next]_vars => TablesInv'
  BY NextTables
<1> QED
  BY <1>1, <1>2, PTL DEF Spec

LEMMA TablesInvImplies ==
  TablesInv => TypeOK /\ OneSlotPerKey /\ QuotaKept /\ CapacityKept
BY DEF TablesInv, RowsOK, TableOK, KeyUnique, WithinQuota, WithinCapacity,
       TypeOK, OneSlotPerKey, QuotaKept, CapacityKept, Tables

(* Type correctness, for every range and set of clients. *)
THEOREM LeaseTableTypes == Spec => []TypeOK
BY TablesInvariant, TablesInvImplies, PTL

(* upsert_pcp never duplicates a key, whatever interleaving of moves,      *)
(* roll-backs, evictions, stale snapshots and respawns.                    *)
THEOREM KeysNeverDuplicate == Spec => []OneSlotPerKey
BY TablesInvariant, TablesInvImplies, PTL

(* The per-client quota holds of the live table and of every row set a     *)
(* respawn could restore.                                                  *)
THEOREM QuotaAlwaysKept == Spec => []QuotaKept
BY TablesInvariant, TablesInvImplies, PTL

(* The grants never outnumber --max-slots, with any statics. *)
THEOREM CapacityAlwaysKept == Spec => []CapacityKept
BY TablesInvariant, TablesInvImplies, PTL

-----------------------------------------------------------------------------
(* Port sharing.  The invariant needs the types only; each step that binds *)
(* a port either takes a free one or records it in putBack.                *)
SharedOnlyIn(T, ports) ==
  \A s, t \in T : s.bind = t.bind => s = t \/ s.bind \in ports

LEMMA SharingKept ==
  TablesInv /\ SharedPortWasPutBack /\ [Next]_vars => SharedPortWasPutBack'
<1> SUFFICES ASSUME TablesInv, SharedPortWasPutBack, [Next]_vars
             PROVE  SharedPortWasPutBack'
  OBVIOUS
<1>0. /\ SharedOnlyIn(slots, putBack)
      /\ SharedOnlyIn(disk, putBack)
      /\ \A T \in snaps : SharedOnlyIn(T, putBack)
      /\ \A s \in slots : s \in Slot
  BY DEF SharedPortWasPutBack, SharedOnlyIn, Tables, TablesInv, TypeOK
<1>q. /\ SharedOnlyIn(slots', putBack')
      /\ SharedOnlyIn(disk', putBack')
      /\ \A T \in snaps' : SharedOnlyIn(T, putBack')
      => SharedPortWasPutBack'
  BY DEF SharedPortWasPutBack, SharedOnlyIn, Tables
<1>1. CASE UNCHANGED <<slots, disk, snaps, putBack>>
  BY <1>q, <1>0, <1>1, <1>q
<1>2. ASSUME slots' \subseteq slots, UNCHANGED <<disk, snaps, putBack>>
      PROVE  SharedOnlyIn(slots', putBack')
  BY <1>q, <1>0, <1>2 DEF SharedOnlyIn
<1>3. ASSUME NEW s \in slots, NEW t, t.bind = s.bind,
             slots' = (slots \ {s}) \cup {t},
             UNCHANGED <<disk, snaps, putBack>>
      PROVE  SharedOnlyIn(slots', putBack')
  BY <1>q, <1>0, <1>3 DEF SharedOnlyIn
<1>4. ASSUME NEW R \in SUBSET slots, NEW t, t.bind \notin PortsOf(slots),
             slots' = R \cup {t},
             UNCHANGED <<disk, snaps, putBack>>
      PROVE  SharedOnlyIn(slots', putBack')
  BY <1>q, <1>0, <1>4 DEF SharedOnlyIn, PortsOf
<1>5. CASE Tick
  BY <1>1, <1>5 DEF Tick
<1>6. ASSUME NEW live \in FlowReports, AvoidPorts(live)
      PROVE  SharedPortWasPutBack'
  BY <1>1, <1>6 DEF AvoidPorts
<1>7. ASSUME NEW pr \in Protos, NEW i \in IntPorts, NEW c \in Clients,
             NEW life \in Lifetimes, Refresh(pr, i, c, life)
      PROVE  SharedPortWasPutBack'
  <2>1. PICK s \in slots : slots' = (slots \ {s}) \cup {RefreshSlot(s, life)}
    BY <1>7 DEF Refresh
  <2>2. RefreshSlot(s, life).bind = s.bind
    BY <1>0 DEF RefreshSlot, Slot
  <2> QED
    BY <1>q, <1>0, <1>3, <1>7, <2>1, <2>2 DEF Refresh
<1>8. ASSUME NEW pr \in Protos, NEW i \in IntPorts, NEW c \in Clients,
             NEW life \in Lifetimes, Grant(pr, i, c, life)
      PROVE  SharedPortWasPutBack'
  <2>1. PICK p \in Ports : /\ IsLowestFree(p, slots, avoid)
                           /\ slots' = slots \cup {GrantSlot(p, pr, i, c, life, now)}
    BY <1>8 DEF Grant
  <2>2. GrantSlot(p, pr, i, c, life, now).bind \notin PortsOf(slots)
    BY <2>1 DEF IsLowestFree, FreePorts, GrantSlot
  <2> QED
    BY <1>q, <1>0, <1>4, <1>8, <2>1, <2>2 DEF Grant
<1>9. ASSUME NEW p \in Ports, Delete(p)
      PROVE  SharedPortWasPutBack'
  BY <1>q, <1>0, <1>2, <1>9 DEF Delete
<1>10. ASSUME NEW p \in Ports, Stamp(p)
       PROVE  SharedPortWasPutBack'
  <2>1. PICK s \in slots : slots' = (slots \ {s}) \cup {[s EXCEPT !.act = now]}
    BY <1>10 DEF Stamp
  <2>2. [s EXCEPT !.act = now].bind = s.bind
    BY <1>0 DEF Slot
  <2> QED
    BY <1>q, <1>0, <1>3, <1>10, <2>1, <2>2 DEF Stamp
<1>11. ASSUME NEW p \in Ports, Move(p)
       PROVE  SharedPortWasPutBack'
  <2>1. CASE UNCHANGED slots
    BY <1>1, <1>11, <2>1 DEF Move
  <2>2. ASSUME NEW s \in slots, NEW q \in Ports,
               IsLowestFree(q, slots, avoid'),
               slots' = (slots \ {s}) \cup {[s EXCEPT !.bind = q]}
        PROVE  SharedOnlyIn(slots', putBack')
    <3>1. [s EXCEPT !.bind = q].bind = q
      BY <1>0 DEF Slot
    <3>2. q \notin PortsOf(slots)
      BY <2>2 DEF IsLowestFree, FreePorts
    <3> QED
      BY <1>4, <1>11, <2>2, <3>1, <3>2 DEF Move
  <2> QED
    BY <1>q, <1>0, <1>11, <2>1, <2>2 DEF Move
<1>12. CASE Gc
  BY <1>q, <1>0, <1>2, <1>12 DEF Gc
<1>13. CASE GcIdle
  BY <1>q, <1>0, <1>2, <1>13 DEF GcIdle
<1>14. ASSUME NEW pr \in Protos, NEW i \in IntPorts, NEW c \in Clients,
              PickVictim(pr, i, c)
       PROVE  SharedPortWasPutBack'
  BY <1>1, <1>14 DEF PickVictim
<1>15. CASE Evict
  BY <1>q, <1>0, <1>2, <1>15 DEF Evict
<1>16. CASE MoveDone
  BY <1>1, <1>16 DEF MoveDone
<1>17. CASE MoveBack
  <2>1. PICK m \in moving :
          /\ \/ \E s \in slots :
                  /\ slots' = (slots \ {s}) \cup {[s EXCEPT !.bind = m.from]}
                  /\ putBack' = putBack \cup {m.from}
             \/ UNCHANGED <<slots, putBack>>
          /\ UNCHANGED <<disk, snaps>>
    BY <1>17 DEF MoveBack
  <2>2. CASE UNCHANGED <<slots, putBack>>
    BY <1>1, <2>1, <2>2
  <2>3. ASSUME NEW s \in slots,
               slots' = (slots \ {s}) \cup {[s EXCEPT !.bind = m.from]},
               putBack' = putBack \cup {m.from}
        PROVE  SharedPortWasPutBack'
    <3>1. [s EXCEPT !.bind = m.from].bind = m.from
      BY <1>0 DEF Slot
    <3> QED
      BY <1>q, <1>0, <2>1, <2>3, <3>1 DEF SharedOnlyIn
  <2> QED
    BY <2>1, <2>2, <2>3
<1>18. CASE TakeSnapshot
  BY <1>q, <1>0, <1>18 DEF TakeSnapshot, SharedOnlyIn, Grants
<1>19. ASSUME NEW rows \in snaps, WriteSnapshot(rows)
       PROVE  SharedPortWasPutBack'
  BY <1>q, <1>0, <1>19 DEF WriteSnapshot
<1>20. ASSUME NEW S \in StaticConfigs, Respawn(S)
       PROVE  SharedPortWasPutBack'
  <2> DEFINE rows == {r \in disk : r.bind \notin S}
  <2>1. /\ slots' = {StaticSlot(p) : p \in S} \cup disk'
        /\ disk' = {RestoredSlot(r, now) : r \in rows}
        /\ snaps' = {}
        /\ PortsDistinct(rows)
    BY <1>20 DEF Respawn, RestoredTable
  <2>2. \A r \in rows : RestoredSlot(r, now).bind = r.bind
    BY RestoredSlotFacts DEF TablesInv, TypeOK
  <2>3. \A s \in disk' : s.bind \notin S
    BY <2>1, <2>2
  <2>4. PortsDistinct(disk')
    BY <2>1, <2>2 DEF PortsDistinct
  <2>5. PortsDistinct(slots')
    BY <2>1, <2>3, <2>4 DEF PortsDistinct, StaticSlot
  <2> QED
    BY <1>q, <2>1, <2>4, <2>5 DEF PortsDistinct, SharedOnlyIn
<1>21. CASE UNCHANGED vars
  BY <1>1, <1>21 DEF vars
<1> QED
  BY <1>5, <1>6, <1>7, <1>8, <1>9, <1>10, <1>11, <1>12, <1>13, <1>14, <1>15,
     <1>16, <1>17, <1>18, <1>19, <1>20, <1>21 DEF Next

(* Two slots share a bind port only after a failed yield put one of them   *)
(* back: without roll-backs the allocator never double-allocates.          *)
THEOREM PortsSharedOnlyByRollback == Spec => []SharedPortWasPutBack
<1>1. Init => SharedPortWasPutBack
  BY DEF Init, SharedPortWasPutBack, Tables, StaticSlot
<1>2. TablesInv /\ SharedPortWasPutBack /\ [Next]_vars => SharedPortWasPutBack'
  BY SharingKept
<1> QED
  BY <1>1, <1>2, TablesInvariant, PTL DEF Spec

-----------------------------------------------------------------------------
(* LeaseBounded of one table at one time, and of one slot. *)
SlotBounded(s, t) == 1 <= s.life /\ s.act <= t /\ s.exp <= t + s.life

Bounded(T, t) == \A s \in Grants(T) : SlotBounded(s, t)

LEMMA BoundedFacts ==
  ASSUME NEW T \in SUBSET Slot, NEW t \in Nat, Bounded(T, t)
  PROVE  /\ \A U \in SUBSET T : Bounded(U, t)
         /\ Bounded(T, t + 1)
         /\ \A s \in Slot : SlotBounded(s, t) => Bounded(T \cup {s}, t)
         /\ Bounded(Grants(T), t)
<1>1. \A U \in SUBSET T : Bounded(U, t)
  BY DEF Bounded, Grants
<1>2. Bounded(T, t + 1)
  BY DEF Bounded, Grants, SlotBounded, Slot
<1>3. \A s \in Slot : SlotBounded(s, t) => Bounded(T \cup {s}, t)
  BY DEF Bounded, Grants
<1>4. Bounded(Grants(T), t)
  BY DEF Bounded, Grants
<1> QED
  BY <1>1, <1>2, <1>3, <1>4

(* The clamp of a restore: between one second and the lifetime from now,   *)
(* and the identity on the expiry of a lease that is still running.        *)
LEMMA RestoredBounded ==
  ASSUME NEW r \in Slot, NEW t \in Nat, SlotBounded(r, t)
  PROVE  /\ SlotBounded(RestoredSlot(r, t), t)
         /\ r.exp > t => RestoredSlot(r, t).exp = r.exp
<1> DEFINE c == Clamp(SatSub(r.exp, t), 1, r.life)
<1>1. r.exp \in Nat /\ r.life \in Nat /\ 1 <= r.life /\ r.exp <= t + r.life
  BY DEF Slot, SlotBounded
<1>2. SatSub(r.exp, t) \in Nat
  BY <1>1 DEF SatSub
<1>3. c \in Nat /\ c <= r.life
  BY <1>1, <1>2 DEF Clamp
<1>4. r.exp > t => c = r.exp - t
  BY <1>1 DEF Clamp, SatSub
<1> HIDE DEF c
<1> DEFINE e == t + c
<1>5. RestoredSlot(r, t) = [r EXCEPT !.exp = e, !.act = t]
  BY DEF RestoredSlot, c
<1>6. e \in Nat /\ e <= t + r.life
  BY <1>1, <1>3
<1>7. r.exp > t => e = r.exp
  BY <1>1, <1>4
<1> HIDE DEF e
<1>8. /\ RestoredSlot(r, t).exp = e
      /\ RestoredSlot(r, t).act = t
      /\ RestoredSlot(r, t).life = r.life
  BY <1>5 DEF Slot
<1> QED
  BY <1>1, <1>6, <1>7, <1>8 DEF SlotBounded

LEMMA BoundedKept ==
  TablesInv /\ LeaseBounded /\ [Next]_vars => LeaseBounded'
<1> SUFFICES ASSUME TablesInv, LeaseBounded, [Next]_vars
             PROVE  LeaseBounded'
  OBVIOUS
<1>0. /\ Bounded(slots, now)
      /\ Bounded(disk, now)
      /\ \A T \in snaps : Bounded(T, now)
  BY DEF LeaseBounded, Bounded, SlotBounded, Tables
<1>t. /\ slots \in SUBSET Slot
      /\ disk \in SUBSET Slot
      /\ snaps \in SUBSET (SUBSET Slot)
      /\ now \in Nat
      /\ Grants(disk) = disk
  BY DEF TablesInv, TypeOK, RowsOK
<1>q. /\ Bounded(slots', now')
      /\ Bounded(disk', now')
      /\ \A T \in snaps' : Bounded(T, now')
      => LeaseBounded'
  BY DEF LeaseBounded, Bounded, SlotBounded, Tables
<1>1. CASE UNCHANGED <<slots, disk, snaps, now>>
  BY <1>0, <1>1, <1>q
<1>2. ASSUME slots' \subseteq slots, UNCHANGED <<disk, snaps, now>>
      PROVE  LeaseBounded'
  BY <1>0, <1>t, <1>2, <1>q, BoundedFacts
<1>3. ASSUME NEW R \in SUBSET slots, NEW s \in Slot, SlotBounded(s, now) \/ IsStatic(s),
             slots' = R \cup {s}, UNCHANGED <<disk, snaps, now>>
      PROVE  LeaseBounded'
  <2>1. R \in SUBSET Slot /\ Bounded(R, now)
    BY <1>0, <1>t, BoundedFacts
  <2>2. Bounded(R \cup {s}, now)
    BY <2>1, <1>3 DEF Bounded, Grants
  <2> QED
    BY <1>0, <1>3, <1>q, <2>2
<1>4. ASSUME NEW s \in slots, NEW p \in Ports,
             slots' = (slots \ {s}) \cup {[s EXCEPT !.bind = p]},
             UNCHANGED <<disk, snaps, now>>
      PROVE  LeaseBounded'
  <2>1. [s EXCEPT !.bind = p] \in Slot
    BY <1>t DEF Slot
  <2>2. SlotBounded([s EXCEPT !.bind = p], now) \/ IsStatic([s EXCEPT !.bind = p])
    BY <1>0, <1>t DEF Bounded, Grants, SlotBounded, IsStatic, Slot
  <2> QED
    BY <1>3, <1>4, <2>1, <2>2
<1>5. CASE Tick
  BY <1>0, <1>t, <1>5, <1>q, BoundedFacts DEF Tick
<1>6. ASSUME NEW live \in FlowReports, AvoidPorts(live)
      PROVE  LeaseBounded'
  BY <1>1, <1>6 DEF AvoidPorts
<1>7. ASSUME NEW pr \in Protos, NEW i \in IntPorts, NEW c \in Clients,
             NEW life \in Lifetimes, Refresh(pr, i, c, life)
      PROVE  LeaseBounded'
  <2>1. PICK s \in slots : slots' = (slots \ {s}) \cup {RefreshSlot(s, life)}
    BY <1>7 DEF Refresh
  <2>2. life \in Nat /\ 1 <= life /\ now \in Nat
    BY <1>t, LifetimeAssumption
  <2>3. now + life \in Nat
    BY <2>2
  <2>4. s \in Slot
    BY <1>t
  <2>5. RefreshSlot(s, life) \in Slot
    BY <2>2, <2>3, <2>4 DEF RefreshSlot, Slot
  <2>6. SlotBounded(RefreshSlot(s, life), now)
    BY <2>2, <2>3, <2>4 DEF RefreshSlot, Slot, SlotBounded
  <2> QED
    BY <1>3, <1>7, <2>1, <2>5, <2>6 DEF Refresh
<1>8. ASSUME NEW pr \in Protos, NEW i \in IntPorts, NEW c \in Clients,
             NEW life \in Lifetimes, Grant(pr, i, c, life)
      PROVE  LeaseBounded'
  <2>1. PICK p \in Ports : slots' = slots \cup {GrantSlot(p, pr, i, c, life, now)}
    BY <1>8 DEF Grant
  <2>2. life \in Nat /\ 1 <= life /\ now + life \in Nat
    BY <1>t, LifetimeAssumption
  <2>3. GrantSlot(p, pr, i, c, life, now) \in Slot
    BY <1>t, <2>2 DEF GrantSlot, Slot
  <2>4. SlotBounded(GrantSlot(p, pr, i, c, life, now), now)
    BY <1>t, <2>2 DEF GrantSlot, SlotBounded
  <2> QED
    BY <1>3, <1>8, <2>1, <2>3, <2>4 DEF Grant
<1>9. ASSUME NEW p \in Ports, Delete(p)
      PROVE  LeaseBounded'
  BY <1>2, <1>9 DEF Delete
<1>10. ASSUME NEW p \in Ports, Stamp(p)
       PROVE  LeaseBounded'
  <2>1. PICK s \in slots : slots' = (slots \ {s}) \cup {[s EXCEPT !.act = now]}
    BY <1>10 DEF Stamp
  <2>2. [s EXCEPT !.act = now] \in Slot
    BY <1>t DEF Slot
  <2>3. SlotBounded([s EXCEPT !.act = now], now) \/ IsStatic([s EXCEPT !.act = now])
    BY <1>0, <1>t DEF Bounded, Grants, SlotBounded, IsStatic, Slot
  <2> QED
    BY <1>3, <1>10, <2>1, <2>2, <2>3 DEF Stamp
<1>11. ASSUME NEW p \in Ports, Move(p)
       PROVE  LeaseBounded'
  <2>1. CASE UNCHANGED slots
    BY <1>1, <1>11, <2>1 DEF Move
  <2>2. ASSUME NEW s \in slots, NEW q \in Ports,
               slots' = (slots \ {s}) \cup {[s EXCEPT !.bind = q]}
        PROVE  LeaseBounded'
    BY <1>4, <1>11, <2>2 DEF Move
  <2> QED
    BY <1>11, <2>1, <2>2 DEF Move
<1>12. CASE Gc
  BY <1>2, <1>12 DEF Gc
<1>13. CASE GcIdle
  BY <1>2, <1>13 DEF GcIdle
<1>14. ASSUME NEW pr \in Protos, NEW i \in IntPorts, NEW c \in Clients,
              PickVictim(pr, i, c)
       PROVE  LeaseBounded'
  BY <1>1, <1>14 DEF PickVictim
<1>15. CASE Evict
  <2>1. slots' \subseteq slots /\ UNCHANGED <<disk, snaps, now>>
    BY <1>15 DEF Evict
  <2> QED
    BY <1>2, <2>1
<1>16. CASE MoveDone
  BY <1>1, <1>16 DEF MoveDone
<1>17. CASE MoveBack
  <2>1. PICK m \in moving :
          /\ \/ \E s \in slots : slots' = (slots \ {s}) \cup {[s EXCEPT !.bind = m.from]}
             \/ UNCHANGED slots
          /\ UNCHANGED <<disk, snaps, now>>
    BY <1>17 DEF MoveBack
  <2>2. m.from \in Ports
    BY DEF TablesInv, TypeOK, MoveRecord
  <2> QED
    BY <1>1, <1>4, <2>1, <2>2
<1>18. CASE TakeSnapshot
  BY <1>0, <1>t, <1>18, <1>q, BoundedFacts DEF TakeSnapshot
<1>19. ASSUME NEW rows \in snaps, WriteSnapshot(rows)
       PROVE  LeaseBounded'
  BY <1>0, <1>19, <1>q DEF WriteSnapshot
<1>20. ASSUME NEW S \in StaticConfigs, Respawn(S)
       PROVE  LeaseBounded'
  <2>1. /\ slots' = {StaticSlot(p) : p \in S} \cup disk'
        /\ disk' = {RestoredSlot(r, now) : r \in {r \in disk : r.bind \notin S}}
        /\ snaps' = {}
        /\ now' = now
    BY <1>20 DEF Respawn, RestoredTable
  <2>2. \A r \in disk : r \in Slot /\ SlotBounded(r, now)
    BY <1>0, <1>t DEF Bounded
  <2>3. \A r \in disk : SlotBounded(RestoredSlot(r, now), now)
    BY <1>t, <2>2, RestoredBounded
  <2>4. \A s \in disk' : SlotBounded(s, now')
    BY <2>1, <2>3
  <2>5. \A s \in slots' : IsStatic(s) \/ SlotBounded(s, now')
    BY <2>1, <2>4 DEF StaticSlot, IsStatic
  <2>6. Bounded(slots', now') /\ Bounded(disk', now')
    BY <2>4, <2>5 DEF Bounded, Grants
  <2> QED
    BY <1>q, <2>1, <2>6
<1>21. CASE UNCHANGED vars
  BY <1>1, <1>21 DEF vars
<1> QED
  BY <1>5, <1>6, <1>7, <1>8, <1>9, <1>10, <1>11, <1>12, <1>13, <1>14, <1>15,
     <1>16, <1>17, <1>18, <1>19, <1>20, <1>21 DEF Next

(* No lease, live or persisted, has a zero lifetime, runs longer than its  *)
(* lifetime from now, or was last seen in the future.                      *)
THEOREM LeasesStayBounded == Spec => []LeaseBounded
<1>1. Init => LeaseBounded
  BY DEF Init, LeaseBounded, Tables, Grants, IsStatic, StaticSlot
<1>2. TablesInv /\ LeaseBounded /\ [Next]_vars => LeaseBounded'
  BY BoundedKept
<1> QED
  BY <1>1, <1>2, TablesInvariant, PTL DEF Spec

(* A respawn neither shortens nor renews a running lease: the clamp is     *)
(* exact because no persisted lease outruns its lifetime.                  *)
THEOREM RespawnsKeepLeases == Spec => RespawnKeepsLeases
<1>1. ASSUME TablesInv, LeaseBounded, NEW S \in StaticConfigs, Respawn(S),
             NEW r \in disk, r.bind \notin S, r.exp > now
      PROVE  \E s \in slots' : SameKey(r, s) /\ s.bind = r.bind /\ s.exp = r.exp
  <2>1. r \in Slot /\ now \in Nat /\ Grants(disk) = disk
    BY <1>1 DEF TablesInv, TypeOK, RowsOK
  <2>2. SlotBounded(r, now)
    BY <1>1, <2>1 DEF LeaseBounded, SlotBounded, Tables
  <2>3. RestoredSlot(r, now) \in slots'
    BY <1>1 DEF Respawn, RestoredTable
  <2>4. SameKey(r, RestoredSlot(r, now)) /\ RestoredSlot(r, now).bind = r.bind
    BY <2>1, RestoredSlotFacts
  <2>5. RestoredSlot(r, now).exp = r.exp
    BY <1>1, <2>1, <2>2, RestoredBounded
  <2> QED
    BY <2>3, <2>4, <2>5
<1>2. TablesInv /\ LeaseBounded /\ [Next]_vars =>
        [\A S \in StaticConfigs : Respawn(S) =>
           \A r \in disk : r.bind \notin S /\ r.exp > now =>
             \E s \in slots' : SameKey(r, s) /\ s.bind = r.bind /\ s.exp = r.exp]_vars
  BY <1>1
<1> QED
  BY <1>2, TablesInvariant, LeasesStayBounded, PTL DEF Spec, RespawnKeepsLeases

(* gc and gc_idle (slot.rs) take only what is silent, with every window    *)
(* and at every time: no static, no lease seen inside both windows, and a  *)
(* TCP grant only when it ran out longer ago than its grace.               *)
THEOREM SweepsSpareTheActive == Spec => SweepsTakeTheSilent
<1>1. ASSUME TablesInv, Gc \/ GcIdle, NEW s \in slots \ slots'
      PROVE  /\ ~IsStatic(s)
             /\ now > s.act + Grace \/ now > s.act + Backstop
             /\ s.proto = "tcp" => now > s.exp + Grace
  <2>1. now \in Nat /\ s.exp \in Nat /\ s.act \in Nat /\ Grace \in Nat /\ Backstop \in Nat
    BY <1>1, WindowAssumption DEF TablesInv, TypeOK, TableOK, Slot
  <2>2. CASE Gc
    <3>1. Collectable(s, now, Grace)
      BY <1>1, <2>2 DEF Gc
    <3> QED BY <2>1, <3>1 DEF Collectable, SatSub
  <2>3. CASE GcIdle
    <3>1. Idle(s, now, Backstop)
      BY <1>1, <2>3 DEF GcIdle
    <3> QED BY <2>1, <3>1 DEF Idle, SatSub
  <2> QED BY <1>1, <2>2, <2>3
<1>2. TablesInv /\ [Next]_vars =>
        [Gc \/ GcIdle => \A s \in slots \ slots' :
           /\ ~IsStatic(s)
           /\ now > s.act + Grace \/ now > s.act + Backstop
           /\ s.proto = "tcp" => now > s.exp + Grace]_vars
  BY <1>1
<1> QED
  BY <1>2, TablesInvariant, PTL DEF Spec, SweepsTakeTheSilent
=============================================================================
