------------------------------ MODULE Discovery ------------------------------
(***************************************************************************)
(* The SSDP responder.  One loop receives the searches and sleeps a random *)
(* time within MX before each answer, so that the searches behind it wait. *)
(* A search for ssdp:all opens a burst of its control point and is         *)
(* answered by a task of its own: with the second document once a search   *)
(* for version 2 of the same control point was received, else, at the end  *)
(* of the window, with the first.  A control point then reads the document *)
(* it was told of and calls the actions declared there.                    *)
(***************************************************************************)
EXTENDS Naturals, Sequences, Description

CONSTANTS
  Points,     \* control points: an address and a port each
  Host,       \* the address of each control point
  Targets,    \* the targets they search for
  Window,     \* DISCOVERY_DEBOUNCE_MS in ticks
  Mxs,        \* the MX values of searches, in ticks
  MaxSearches \* bound on the searches

ASSUME WindowAssumption == Window \in Nat \ {0} /\ Mxs \subseteq Nat /\ MaxSearches \in Nat
ASSUME TargetAssumption == Targets \subseteq SearchTargets
ASSUME HostAssumption == DOMAIN Host = Points

VARIABLES
  inbox,     \* searches in the socket
  recv,      \* the receive loop: "free", or asleep before an answer
  burst,     \* bursts: for each control point its entry and its task
  searches,  \* searches so far
  told,      \* root documents that an answer named
  call,      \* the service a control point reads about or calls
  owed,      \* history: an ssdp:all received and not answered yet
  late,      \* history: an ssdp:all met a burst that was answered already
  asked      \* history: a search for version 2 received since the burst opened

history == <<owed, late, asked>>
vars == <<inbox, recv, burst, searches, told, call, history>>

Search == [from: Points, st: Targets, mx: Mxs]
Free == [at |-> "free"]
NoBurst == [phase |-> "none"]
NoCall == [step |-> "none"]
Bursting(p, phase) == burst[p].phase = phase

Init == /\ inbox = <<>>
        /\ recv = Free
        /\ burst = [p \in Points |-> NoBurst]
        /\ searches = 0
        /\ told = {"/rootDesc.xml"}
        /\ call = NoCall
        /\ owed = {} /\ late = {} /\ asked = {}

(* A control point multicasts a search; a malformed one is never answered. *)
Ask == /\ searches < MaxSearches /\ searches' = searches + 1
       /\ \E s \in Search : inbox' = Append(inbox, s)
       /\ UNCHANGED <<recv, burst, told, call, history>>

-----------------------------------------------------------------------------
(* send_discovery draws a delay within MX and sleeps in the loop. *)
Asleep(s, loc) ==
  \E left \in 0 .. s.mx : recv' = [at |-> "asleep", left |-> left, st |-> s.st, loc |-> loc]

Received(action) ==
  /\ recv = Free /\ inbox # <<>>
  /\ DiscoveryAction(Head(inbox).st) = action
  /\ inbox' = Tail(inbox)
  /\ UNCHANGED <<searches, told, call>>

IgnoreSearch == Received("Ignore") /\ UNCHANGED <<recv, burst, history>>

ReplyV1 == Received("ReplyV1") /\ Asleep(Head(inbox), DocV1) /\ UNCHANGED <<burst, history>>

(* Fault: a burst is found by the address alone. *)
FlippedByHost(p) ==
  [q \in Points |-> IF Host[q] = Host[p] /\ Bursting(q, "open") THEN [burst[q] EXCEPT !.v2 = TRUE]
                    ELSE burst[q]]

(* The watch of the control point's burst, if it has one, is set. *)
Flipped(p) ==
  IF Bursting(p, "open") THEN [burst EXCEPT ![p].v2 = TRUE] ELSE burst

ReplyV2 ==
  LET s == Head(inbox)
  IN /\ Received("ReplyV2")
     /\ Asleep(s, DocV2)
     /\ burst' = Flipped(s.from)
     /\ asked' = IF Bursting(s.from, "open") THEN asked \cup {s.from} ELSE asked
     /\ UNCHANGED <<owed, late>>

(* defer_all: a control point with a burst keeps it, whatever its phase. *)
DeferAll ==
  LET p == Head(inbox).from
  IN /\ Received("DeferAll")
     /\ owed' = owed \cup {p}
     /\ IF Bursting(p, "none")
          THEN /\ burst' = [burst EXCEPT ![p] = [phase |-> "open", v2 |-> FALSE, left |-> Window]]
               /\ UNCHANGED late
          ELSE /\ late' = IF Bursting(p, "answered") THEN late \cup {p} ELSE late
               /\ UNCHANGED burst
     /\ UNCHANGED <<recv, asked>>

(* The answer leaves and the loop receives again. *)
Answer == /\ recv.at = "asleep" /\ recv.left = 0
          /\ recv' = Free
          /\ told' = told \cup {recv.loc}
          /\ UNCHANGED <<inbox, burst, searches, call, history>>

-----------------------------------------------------------------------------
(* Fault: the end of the window leaves the burst unanswered. *)
ResolvesOnWatch(b, v2) == v2 /\ b.v2

(* burst_resolves_v2: the watch or the end of the window, and with both    *)
(* ready either.                                                           *)
Resolves(b, v2) == (v2 /\ b.v2) \/ (~v2 /\ b.left = 0)

AnswerAll(p, v2) ==
  /\ Bursting(p, "open") /\ Resolves(burst[p], v2)
  /\ burst' = [burst EXCEPT ![p] = [phase |-> "answered", v2 |-> v2]]
  /\ told' = told \cup {IF v2 THEN DocV2 ELSE DocV1}
  /\ owed' = owed \ {p}
  /\ UNCHANGED <<inbox, recv, searches, call, late, asked>>

(* The task removes the burst after the answer was sent. *)
CloseBurst(p) ==
  /\ Bursting(p, "answered")
  /\ burst' = [burst EXCEPT ![p] = NoBurst]
  /\ asked' = asked \ {p}
  /\ UNCHANGED <<inbox, recv, searches, told, call, owed, late>>

(* Fault: the clock of a timer runs on. *)
DownPast(t) == t - 1

Down(t) == IF t = 0 THEN 0 ELSE t - 1

(* Time passes; a timer that is due may be late. *)
Tick == /\ recv # Free \/ \E p \in Points : Bursting(p, "open")
        /\ recv' = IF recv = Free THEN Free ELSE [recv EXCEPT !.left = Down(@)]
        /\ burst' = [p \in Points |-> IF Bursting(p, "open") THEN [burst[p] EXCEPT !.left = Down(@)]
                                      ELSE burst[p]]
        /\ UNCHANGED <<inbox, searches, told, call, history>>

-----------------------------------------------------------------------------
(* A control point reads a root document and the description of one of its *)
(* services, and calls an action declared there.  Calls are made when the  *)
(* searches are over: neither touches what the other uses.                 *)
Over == searches = MaxSearches /\ inbox = <<>> /\ recv = Free
        /\ \A p \in Points : Bursting(p, "none")

ReadDescription ==
  /\ Over /\ call = NoCall
  /\ \E root \in told : \E s \in Root(root).services :
       call' = [step |-> "read", root |-> root, service |-> s, status |-> GetStatus(s.scpd)]
  /\ UNCHANGED <<inbox, recv, burst, searches, told, history>>

CallAction ==
  /\ call.step = "read" /\ call.status = 200
  /\ \E action \in Scpd(call.service.scpd) :
       call' = [step |-> "called", root |-> call.root, service |-> call.service,
                request |-> ClassifyPost(call.service.control, call.service.type, action)]
  /\ UNCHANGED <<inbox, recv, burst, searches, told, history>>

HangUp ==
  /\ call.step = "called" /\ call' = NoCall
  /\ UNCHANGED <<inbox, recv, burst, searches, told, history>>

Receive == IgnoreSearch \/ ReplyV1 \/ ReplyV2 \/ DeferAll

Next == \/ Ask \/ ReadDescription \/ CallAction \/ HangUp
        \/ Receive \/ Answer \/ Tick
        \/ \E p \in Points : CloseBurst(p) \/ \E v2 \in BOOLEAN : AnswerAll(p, v2)

(* The loop, the tasks and the clock go on; nobody has to search. *)
Fairness == /\ WF_vars(Receive) /\ WF_vars(Answer) /\ WF_vars(Tick)
            /\ \A p \in Points : WF_vars(CloseBurst(p)) /\ WF_vars(\E v2 \in BOOLEAN : AnswerAll(p, v2))

Spec == Init /\ [][Next]_vars /\ Fairness

-----------------------------------------------------------------------------
TypeOK == /\ inbox \in Seq(Search)
          /\ recv \in {Free} \cup [at: {"asleep"}, left: UNION {0 .. m : m \in Mxs}, st: Targets,
                              loc: {DocV1, DocV2}]
          /\ burst \in [Points -> {NoBurst}
                          \cup [phase: {"open"}, v2: BOOLEAN, left: 0 .. Window]
                          \cup [phase: {"answered"}, v2: BOOLEAN]]
          /\ searches \in 0 .. MaxSearches
          /\ owed \subseteq Points /\ late \subseteq Points /\ asked \subseteq Points

(* Version 2 is only offered to a control point that itself searched for   *)
(* it while its burst was open.                                            *)
V2OnlyWhenAsked == \A p \in Points : Bursting(p, "answered") /\ burst[p].v2 => p \in asked

(* Every ssdp:all received is answered, however the searches behind and    *)
(* before it keep the loop asleep; but one that came between the answer of *)
(* its burst and the removal of the burst may not be.                      *)
AllAnswered == \A p \in Points : p \in owed ~> p \notin owed \/ p \in late

(* An answer's LOCATION is a root document that is served and declares the *)
(* target, but for a search for WANPPPConnection:2, which is answered with *)
(* a document without such a service.                                      *)
LocationsHold ==
  recv.at = "asleep" /\ recv.st # "WANPPPConnection:2" =>
    GetStatus(recv.loc) = 200 /\ Declares(recv.loc, recv.st)

(* Every service a document declares has its description served, and every *)
(* action declared there reaches a handler, which answers in the name of   *)
(* the service that was called.                                            *)
CallsHold ==
  /\ call.step = "read" => call.status = 200
  /\ call.step = "called" =>
       /\ call.request.class = "Soap"
       /\ call.request.action \in Handled(call.request.service)
       /\ ResponseUrn(call.request) = call.service.type

(* A mutator reached through the second document passes the authorization  *)
(* boundary; one reached through the first does not meet it.               *)
FacesApart ==
  call.step = "called" =>
    (Gated(call.request) <=> call.root = DocV2 /\ call.request.action \in MappingMutators)

(* What a control point is told leads somewhere: the answer's LOCATION to  *)
(* its document, the document to its services and actions, and those       *)
(* through the boundary on the second document only.                       *)
DocumentsHold == LocationsHold /\ CallsHold /\ FacesApart
=============================================================================
