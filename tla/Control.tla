------------------------------- MODULE Control -------------------------------
(***************************************************************************)
(* A SOAP request for the mappings, from the authorization boundary to its *)
(* effect, composed with DeviceProtection: handle_soap enforces the role,  *)
(* then asks a second time whether the caller holds the lift, and only     *)
(* then runs the action, which takes the entries' lock once or twice.      *)
(* Logins, revocations and other requests fall in between.  The slots and  *)
(* the datapath under the entries are Facade's.                            *)
(***************************************************************************)
EXTENDS DeviceProtection, FiniteSets

CONSTANTS
  Conns,     \* connections, each with one request at a time
  ExtPorts,  \* external ports a request can name, 0 for any
  IntPorts,  \* internal ports a request can name
  Floor,     \* ANY_PORT_BASE
  MaxPort,   \* the largest port
  Restored   \* the tables of entries a boot can bring back

ASSUME PortAssumption == /\ ExtPorts \subseteq Nat /\ IntPorts \subseteq Nat
                         /\ Floor \in Nat /\ MaxPort \in Nat

VARIABLES
  entries,  \* UpnpFacade.entries of one protocol
  req       \* what each connection is serving

ctlVars == <<entries, req>>
vars == <<dpVars, ctlVars>>

Entry == [owner: Callers, client: Callers, ext: Nat, int: Nat]
ASSUME RestoredAssumption == Restored \subseteq SUBSET Entry
Adders == {"AddPortMapping", "AddAnyPortMapping"}
Deleters == {"DeletePortMapping", "DeletePortMappingRange"}
Readers == {"GetSpecificPortMappingEntry", "GetGenericPortMappingEntry", "GetListOfPortMappings"}

NoKey == [owner |-> Nobody, ext |-> 0]
NoEntry == [owner |-> Nobody, client |-> Nobody, ext |-> 0, int |-> 0]

(* A request: by whom, for what and on which face, whether it has the lift, *)
(* the mapping it grants, the keys it still deletes, the slot it deletes    *)
(* and its key, and the entries it is shown.                                *)
Idle == [at |-> "idle", by |-> Nobody, op |-> "none", v2 |-> FALSE, lift |-> FALSE,
         mapping |-> NoEntry, todo |-> {}, slot |-> NoEntry, key |-> NoKey, shown |-> {}]
Serving(w, at) == req[w].at = at
Continue(w, r) == req' = [req EXCEPT ![w] = r]
Done(w) == Continue(w, Idle)

Init == /\ DpInit
        /\ entries \in Restored
        /\ req = [w \in Conns |-> Idle]

-----------------------------------------------------------------------------
(* Only the four mutators of the version 2 face need a role. *)
RequiredRole(op, v2) == IF v2 /\ op \in Adders \cup Deleters THEN {"Basic"} ELSE {}

(* The boundary: enforce and, on success, stamp the session. *)
Gate(w, c, op, v2) ==
  /\ Serving(w, "idle")
  /\ budget.requests > 0 /\ budget' = [budget EXCEPT !.requests = @ - 1]
  /\ \A r \in RequiredRole(op, v2) : Enforced(c, r)
  /\ IF RequiredRole(op, v2) = {} THEN UNCHANGED session ELSE Touch(c)
  /\ Continue(w, [Idle EXCEPT !.at = "gated", !.by = c, !.op = op, !.v2 = v2])
  /\ Heard(c)
  /\ UNCHANGED <<book, disk, stale, entries>>

(* dp_holds_lift: a live session whose roles satisfy Basic. *)
HoldsLift(c) == Enforced(c, "Basic")

(* The lift is read after the gate, under a lock of its own. *)
View(w) ==
  /\ Serving(w, "gated")
  /\ Continue(w, [req[w] EXCEPT !.at = "viewed", !.lift = HoldsLift(req[w].by)])
  /\ UNCHANGED <<dpVars, entries>>

(* Without the lift: the caller's own host and, on the version 2 face,     *)
(* ports from the floor upwards.                                           *)
RequestWithin(r, client, ext, int) ==
  r.lift \/ ( /\ client = r.by
              /\ r.v2 => int >= Floor /\ (ext = 0 \/ ext >= Floor) )

EntryWithin(r, e) == r.lift \/ (e.owner = r.by /\ (r.v2 => e.int >= Floor /\ e.ext >= Floor))

-----------------------------------------------------------------------------
(* The lowest free port from the floor upwards, and the last port if none  *)
(* is free.                                                                *)
IsFreeRequestedPort(p) ==
  /\ p \in Floor .. MaxPort
  /\ p = MaxPort \/ \A e \in entries : e.ext # p
  /\ \A q \in Floor .. p - 1 : \E e \in entries : e.ext = q

PreferredPort(ext, p) == IF ext = 0 THEN IsFreeRequestedPort(p) ELSE p = ext

(* Soap arguments: no internal port 0, and a wildcard for one action only. *)
Parsed(op, ext, int) == int # 0 /\ (ext = 0 => op = "AddAnyPortMapping")
ParsedRange(first, last) == first <= last

(* allocate_preferred, allocate_exact: the containment is judged on the    *)
(* request; a wildcard is resolved after it.  The grant is under way.      *)
Admit(w) ==
  /\ Serving(w, "viewed") /\ req[w].op \in Adders
  /\ \E client \in Callers, ext \in ExtPorts, int \in IntPorts, p \in 1 .. MaxPort :
       /\ Parsed(req[w].op, ext, int)
       /\ RequestWithin(req[w], client, ext, int)
       /\ PreferredPort(ext, p)
       /\ Continue(w, [req[w] EXCEPT !.at = "granted",
                                      !.mapping = [owner |-> req[w].by, client |-> client,
                                                   ext |-> p, int |-> int]])
  /\ UNCHANGED <<dpVars, entries>>

(* apply_entry: an entry of the same owner and internal port is relabelled, *)
(* or one of the same owner and label is replaced, or one is added.         *)
SameInternal(m) == {e \in entries : e.owner = m.owner /\ e.int = m.int}
SameLabel(m) == {e \in entries : e.owner = m.owner /\ e.ext = m.ext}

Applied(m) ==
  IF SameInternal(m) # {} THEN {(entries \ {e}) \cup {[e EXCEPT !.ext = m.ext]} : e \in SameInternal(m)}
  ELSE IF SameLabel(m) # {} THEN {(entries \ {e}) \cup {m} : e \in SameLabel(m)}
  ELSE {entries \cup {m}}

Grant(w) ==
  /\ Serving(w, "granted")
  /\ entries' \in Applied(req[w].mapping)
  /\ Done(w)
  /\ UNCHANGED dpVars

(* DeletePortMapping: one key, the caller's own. *)
AskDelete(w) ==
  /\ Serving(w, "viewed") /\ req[w].op = "DeletePortMapping"
  /\ \E ext \in ExtPorts \ {0} :
       Continue(w, [req[w] EXCEPT !.at = "deleting",
                                  !.todo = {[owner |-> req[w].by, ext |-> ext]}])
  /\ UNCHANGED <<dpVars, entries>>

(* DeletePortMappingRange: the keys of the entries of the range the caller *)
(* may touch, collected under the lock.                                    *)
AskRange(w) ==
  /\ Serving(w, "viewed") /\ req[w].op = "DeletePortMappingRange"
  /\ \E first, last \in ExtPorts \ {0} :
       LET hits == {e \in entries : e.ext \in first .. last /\ EntryWithin(req[w], e)}
       IN /\ ParsedRange(first, last) /\ hits # {}
          /\ Continue(w, [req[w] EXCEPT !.at = "deleting",
                                         !.todo = {[owner |-> e.owner, ext |-> e.ext] : e \in hits}])
  /\ UNCHANGED <<dpVars, entries>>

(* Fault: what the range collected is not judged again. *)
JudgedOnce(r, e) == TRUE

Judged(r, e) == EntryWithin(r, e)

Pass(w, rest) == IF rest = {} THEN Done(w)
                 ELSE Continue(w, [req[w] EXCEPT !.at = "deleting", !.todo = rest])

(* delete_mapping, first half: an entry of the key is judged (again, for a *)
(* range) and its slot goes; a key without one is passed over.             *)
Judge(w) ==
  /\ Serving(w, "deleting")
  /\ \E key \in req[w].todo :
       LET rest == req[w].todo \ {key}
       IN \/ SameLabel(key) = {} /\ Pass(w, rest)
          \/ \E e \in SameLabel(key) :
               IF Judged(req[w], e)
                 THEN Continue(w, [req[w] EXCEPT !.at = "deleted", !.todo = rest,
                                                 !.slot = e, !.key = key])
                 ELSE Pass(w, rest)
  /\ UNCHANGED <<dpVars, entries>>

(* delete_mapping, second half: what is under that key now goes. *)
Retain(w) ==
  /\ Serving(w, "deleted")
  /\ entries' = entries \ SameLabel(req[w].key)
  /\ Pass(w, req[w].todo)
  /\ UNCHANGED dpVars

(* The reads: of the entries the caller may see, its own one of a label,   *)
(* the one at an index, or those of a range.                               *)
Seen(r) == {e \in entries : EntryWithin(r, e)}
Show(w, E) == Continue(w, [req[w] EXCEPT !.at = "shown", !.shown = E])

GetSpecific(w) ==
  /\ req[w].op = "GetSpecificPortMappingEntry"
  /\ \E e \in Seen(req[w]) : e.owner = req[w].by /\ Show(w, {e})

GetGeneric(w) ==
  /\ req[w].op = "GetGenericPortMappingEntry"
  /\ \E e \in Seen(req[w]) : Show(w, {e})

GetList(w) ==
  /\ req[w].op = "GetListOfPortMappings"
  /\ \E first, last \in ExtPorts \ {0} :
       LET hits == {e \in Seen(req[w]) : e.ext \in first .. last}
       IN ParsedRange(first, last) /\ hits # {} /\ Show(w, hits)

Read(w) == /\ Serving(w, "viewed")
           /\ GetSpecific(w) \/ GetGeneric(w) \/ GetList(w)
           /\ UNCHANGED <<dpVars, entries>>

(* The answer leaves, the request is refused, or its 30 s are over. *)
End(w) ==
  /\ ~Serving(w, "idle")
  /\ Done(w)
  /\ UNCHANGED <<dpVars, entries>>

Serve(w) == \/ \E c \in budget.askers, op \in Adders \cup Deleters \cup Readers, v2 \in BOOLEAN :
                 Gate(w, c, op, v2)
            \/ View(w)
            \/ Admit(w) \/ Grant(w)
            \/ AskDelete(w) \/ AskRange(w) \/ Judge(w) \/ Retain(w)
            \/ Read(w)
            \/ End(w)

(* A restart ends the requests; the entries come back (Facade has that part). *)
Reboot == Restart /\ req' = [w \in Conns |-> Idle] /\ UNCHANGED entries

Next == \/ \E w \in Conns : Serve(w)
        \/ (\E c \in budget.speakers : Speak(c)) /\ UNCHANGED ctlVars
        \/ Tick /\ UNCHANGED ctlVars
        \/ Reboot

Spec == Init /\ [][Next]_vars

-----------------------------------------------------------------------------
(* A caller without the lift gets mappings to its own host only, deletes   *)
(* only its own and is shown only its own, whatever changed between the    *)
(* check and the effect; on the version 2 face none with a port below the  *)
(* floor.                                                                  *)
Touched(r) == CASE r.at = "granted" -> {r.mapping}
                [] r.at = "deleted" -> {r.slot}
                [] r.at = "shown" -> r.shown
                [] OTHER -> {}

StaysContained ==
  \A w \in Conns : \A e \in Touched(req[w]) :
    ~req[w].lift =>
      /\ e.owner = req[w].by
      /\ req[w].at = "granted" => e.client = req[w].by
      /\ req[w].v2 => e.ext >= Floor /\ e.int >= Floor
=============================================================================
