--------------------------- MODULE DiscoveryProofs ---------------------------
(***************************************************************************)
(* The SSDP responder and the documents it leads to, for any control       *)
(* points, hosts, windows and delays, and any of the search targets.       *)
(***************************************************************************)
EXTENDS Discovery, TLAPS

Waiting == [at: {"asleep"}, left: Nat, st: Targets, loc: {DocV1, DocV2}]
Open == [phase: {"open"}, v2: BOOLEAN, left: 0 .. Window]
Done == [phase: {"answered"}, v2: BOOLEAN]

(* A burst turns to version 2 only when its own control point asked. *)
AskedInv == \A p \in Points :
              (Bursting(p, "open") \/ Bursting(p, "answered")) /\ burst[p].v2 => p \in asked

(* An answer names the document of the face that was searched for, and a   *)
(* call follows a document that was named.                                 *)
Roots == {"/rootDesc.xml", DocV1, DocV2}
AnswerInv == /\ recv.at = "asleep" =>
                  \/ DiscoveryAction(recv.st) = "ReplyV1" /\ recv.loc = DocV1
                  \/ DiscoveryAction(recv.st) = "ReplyV2" /\ recv.loc = DocV2
             /\ told \subseteq Roots
CallInv ==
  /\ call.step \in {"none", "read", "called"}
  /\ call.step \in {"read", "called"} => call.root \in Roots /\ call.service \in Root(call.root).services
  /\ call.step = "read" => call.status = GetStatus(call.service.scpd)
  /\ call.step = "called" =>
       \E action \in Scpd(call.service.scpd) :
         call.request = ClassifyPost(call.service.control, call.service.type, action)

DiscoveryInv == TypeOK /\ AskedInv /\ AnswerInv /\ CallInv

-----------------------------------------------------------------------------
(* The documents. *)
LEMMA FirstDocumentDeclares ==
  ASSUME NEW st, DiscoveryAction(st) = "ReplyV1"
  PROVE  GetStatus(DocV1) = 200 /\ Declares(DocV1, st)
<1>1. st \in V1Targets
  BY DEF DiscoveryAction, V1Targets, V2Targets
<1>2. DocV1 \in DOMAIN Served /\ Served[DocV1] = "RootDesc"
  BY DEF DocV1, Served, RootPaths, WanipPaths, WancmnPaths
<1>3. Root(DocV1) = RootDesc
  BY <1>2 DEF Root
<1>4. {"WANIPConnection:1", "WANPPPConnection:1"} \subseteq {s.type : s \in RootDesc.services}
  BY DEF RootDesc, Service
<1>5. {"InternetGatewayDevice:1", "WANDevice:1", "WANConnectionDevice:1"} = RootDesc.types
  BY DEF RootDesc
<1> QED BY <1>1, <1>2, <1>3, <1>4, <1>5 DEF Declares, V1Targets, GetStatus

LEMMA SecondDocumentDeclares ==
  ASSUME NEW st, DiscoveryAction(st) = "ReplyV2", st # "WANPPPConnection:2"
  PROVE  GetStatus(DocV2) = 200 /\ Declares(DocV2, st)
<1>1. st \in V2Targets
  BY DEF DiscoveryAction, V1Targets, V2Targets
<1>2. DocV2 \in DOMAIN Served /\ Served[DocV2] = "RootDescV2"
  BY DEF DocV2, Served, RootPaths, WanipPaths, WancmnPaths
<1>3. Root(DocV2) = RootDescV2
  BY <1>2 DEF Root
<1>4. "WANIPConnection:2" \in {s.type : s \in RootDescV2.services}
  BY DEF RootDescV2, Service
<1>5. "InternetGatewayDevice:2" \in RootDescV2.types
  BY DEF RootDescV2
<1> QED BY <1>1, <1>2, <1>3, <1>4, <1>5 DEF Declares, V2Targets, GetStatus

(* What a control point finds when it follows a service of a document. *)
Follows(root, s) ==
  /\ GetStatus(s.scpd) = 200
  /\ \A action \in Scpd(s.scpd) :
       LET r == ClassifyPost(s.control, s.type, action)
       IN  /\ r.class = "Soap"
           /\ r.action \in Handled(r.service)
           /\ ResponseUrn(r) = s.type
           /\ Gated(r) <=> root = DocV2 /\ r.action \in MappingMutators

(* The services by their parts. *)
LEMMA FollowsParts ==
  ASSUME NEW root \in Roots, NEW scpd, NEW control, NEW type,
         scpd \in DOMAIN Served, control \in DOMAIN ServiceOfPath,
         NEW actions, Scpd(scpd) = actions,
         actions \subseteq KnownActions, actions \subseteq Handled(ServiceOfPath[control]),
         \A action : ResponseUrn([class |-> "Soap", service |-> ServiceOfPath[control],
                                  action |-> action, v2 |-> IsV2(type)]) = type,
         \A action \in actions : 
           Gated([class |-> "Soap", service |-> ServiceOfPath[control],
                  action |-> action, v2 |-> IsV2(type)])
             <=> root = DocV2 /\ action \in MappingMutators
  PROVE  Follows(root, Service(type, scpd, control))
BY DEF Follows, Service, GetStatus, ClassifyPost

(* The six services that the two documents declare. *)
LEMMA CommonV1Follows ==
  ASSUME NEW root \in Roots, root # DocV2
  PROVE  Follows(root, Service("WANCommonInterfaceConfig:1", "/WANCfg.xml", "/ctl/CmnIfCfg"))
<1>1. "/WANCfg.xml" \in DOMAIN Served /\ Served["/WANCfg.xml"] = "WANCMN"
  BY DEF Served, RootPaths, WanipPaths, WancmnPaths
<1>2. "/ctl/CmnIfCfg" \in DOMAIN ServiceOfPath /\ ServiceOfPath["/ctl/CmnIfCfg"] = "WanCommonIfaceCfg"
  BY DEF ServiceOfPath
<1>3. Scpd("/WANCfg.xml") = ScpdWancmn
  BY <1>1 DEF Scpd
<1>4. ScpdWancmn \subseteq KnownActions /\ ScpdWancmn \subseteq Handled("WanCommonIfaceCfg")
  BY DEF KnownActions, Handled, ConnectionActions, ScpdWancmn
<1>5. \A action : ResponseUrn([class |-> "Soap", service |-> "WanCommonIfaceCfg",
                              action |-> action, v2 |-> IsV2("WANCommonInterfaceConfig:1")]) = "WANCommonInterfaceConfig:1"
  BY DEF ResponseUrn, IsV2
<1>6. \A action \in ScpdWancmn :
        Gated([class |-> "Soap", service |-> "WanCommonIfaceCfg",
               action |-> action, v2 |-> IsV2("WANCommonInterfaceConfig:1")])
          <=> root = DocV2 /\ action \in MappingMutators
  BY DEF Gated, IsV2, MappingMutators, DocV1, DocV2, Roots, ScpdWancmn
<1> QED BY <1>1, <1>2, <1>3, <1>4, <1>5, <1>6, FollowsParts

(* The first document's own WANIPConnection:1. *)
LEMMA IpV1Follows ==
  ASSUME NEW root \in Roots, root # DocV2
  PROVE  Follows(root, Service("WANIPConnection:1", "/WANIPC.xml", "/ctl/IPConn"))
<1>1. "/WANIPC.xml" \in DOMAIN Served /\ Served["/WANIPC.xml"] = "WANIP"
  BY DEF Served, RootPaths, WanipPaths, WancmnPaths
<1>2. "/ctl/IPConn" \in DOMAIN ServiceOfPath /\ ServiceOfPath["/ctl/IPConn"] = "WanIpConnection"
  BY DEF ServiceOfPath
<1>3. Scpd("/WANIPC.xml") = ScpdWanip
  BY <1>1 DEF Scpd
<1>4. ScpdWanip \subseteq KnownActions /\ ScpdWanip \subseteq Handled("WanIpConnection")
  BY DEF KnownActions, Handled, ConnectionActions, ScpdWanip, ScpdWip2
<1>5. \A action : ResponseUrn([class |-> "Soap", service |-> "WanIpConnection",
                              action |-> action, v2 |-> IsV2("WANIPConnection:1")]) = "WANIPConnection:1"
  BY DEF ResponseUrn, IsV2
<1>6. \A action \in ScpdWanip :
        Gated([class |-> "Soap", service |-> "WanIpConnection",
               action |-> action, v2 |-> IsV2("WANIPConnection:1")])
          <=> root = DocV2 /\ action \in MappingMutators
  BY DEF Gated, IsV2, MappingMutators, DocV1, DocV2, Roots, ScpdWanip, ScpdWip2
<1> QED BY <1>1, <1>2, <1>3, <1>4, <1>5, <1>6, FollowsParts

(* Its WANPPPConnection:1. *)
LEMMA PppV1Follows ==
  ASSUME NEW root \in Roots, root # DocV2
  PROVE  Follows(root, Service("WANPPPConnection:1", "/WANPPP.xml", "/ctl/PPPConn"))
<1>1. "/WANPPP.xml" \in DOMAIN Served /\ Served["/WANPPP.xml"] = "WANIP"
  BY DEF Served, RootPaths, WanipPaths, WancmnPaths
<1>2. "/ctl/PPPConn" \in DOMAIN ServiceOfPath /\ ServiceOfPath["/ctl/PPPConn"] = "WanPppConnection"
  BY DEF ServiceOfPath
<1>3. Scpd("/WANPPP.xml") = ScpdWanip
  BY <1>1 DEF Scpd
<1>4. ScpdWanip \subseteq KnownActions /\ ScpdWanip \subseteq Handled("WanPppConnection")
  BY DEF KnownActions, Handled, ConnectionActions, ScpdWanip, ScpdWip2
<1>5. \A action : ResponseUrn([class |-> "Soap", service |-> "WanPppConnection",
                              action |-> action, v2 |-> IsV2("WANPPPConnection:1")]) = "WANPPPConnection:1"
  BY DEF ResponseUrn, IsV2
<1>6. \A action \in ScpdWanip :
        Gated([class |-> "Soap", service |-> "WanPppConnection",
               action |-> action, v2 |-> IsV2("WANPPPConnection:1")])
          <=> root = DocV2 /\ action \in MappingMutators
  BY DEF Gated, IsV2, MappingMutators, DocV1, DocV2, Roots, ScpdWanip, ScpdWip2
<1> QED BY <1>1, <1>2, <1>3, <1>4, <1>5, <1>6, FollowsParts

(* The second document's DeviceProtection:1. *)
LEMMA DpV2Follows ==
  ASSUME NEW root \in Roots, root = DocV2
  PROVE  Follows(root, Service("DeviceProtection:1", "/igd/v2/DP.xml", "/ctl/DP"))
<1>1. "/igd/v2/DP.xml" \in DOMAIN Served /\ Served["/igd/v2/DP.xml"] = "DP"
  BY DEF Served, RootPaths, WanipPaths, WancmnPaths
<1>2. "/ctl/DP" \in DOMAIN ServiceOfPath /\ ServiceOfPath["/ctl/DP"] = "DeviceProtection"
  BY DEF ServiceOfPath
<1>3. Scpd("/igd/v2/DP.xml") = ScpdDp
  BY <1>1 DEF Scpd
<1>4. ScpdDp \subseteq KnownActions /\ ScpdDp \subseteq Handled("DeviceProtection")
  BY DEF KnownActions, Handled, ConnectionActions, ScpdDp
<1>5. \A action : ResponseUrn([class |-> "Soap", service |-> "DeviceProtection",
                              action |-> action, v2 |-> IsV2("DeviceProtection:1")]) = "DeviceProtection:1"
  BY DEF ResponseUrn, IsV2
<1>6. \A action \in ScpdDp :
        Gated([class |-> "Soap", service |-> "DeviceProtection",
               action |-> action, v2 |-> IsV2("DeviceProtection:1")])
          <=> root = DocV2 /\ action \in MappingMutators
  BY DEF Gated, IsV2, MappingMutators, DocV1, DocV2, Roots, ScpdDp
<1> QED BY <1>1, <1>2, <1>3, <1>4, <1>5, <1>6, FollowsParts

(* Its WANCommonInterfaceConfig:1. *)
LEMMA CommonV2Follows ==
  ASSUME NEW root \in Roots, root = DocV2
  PROVE  Follows(root, Service("WANCommonInterfaceConfig:1", "/igd/v1/WANCfg.xml", "/ctl/CmnIfCfg"))
<1>1. "/igd/v1/WANCfg.xml" \in DOMAIN Served /\ Served["/igd/v1/WANCfg.xml"] = "WANCMN"
  BY DEF Served, RootPaths, WanipPaths, WancmnPaths
<1>2. "/ctl/CmnIfCfg" \in DOMAIN ServiceOfPath /\ ServiceOfPath["/ctl/CmnIfCfg"] = "WanCommonIfaceCfg"
  BY DEF ServiceOfPath
<1>3. Scpd("/igd/v1/WANCfg.xml") = ScpdWancmn
  BY <1>1 DEF Scpd
<1>4. ScpdWancmn \subseteq KnownActions /\ ScpdWancmn \subseteq Handled("WanCommonIfaceCfg")
  BY DEF KnownActions, Handled, ConnectionActions, ScpdWancmn
<1>5. \A action : ResponseUrn([class |-> "Soap", service |-> "WanCommonIfaceCfg",
                              action |-> action, v2 |-> IsV2("WANCommonInterfaceConfig:1")]) = "WANCommonInterfaceConfig:1"
  BY DEF ResponseUrn, IsV2
<1>6. \A action \in ScpdWancmn :
        Gated([class |-> "Soap", service |-> "WanCommonIfaceCfg",
               action |-> action, v2 |-> IsV2("WANCommonInterfaceConfig:1")])
          <=> root = DocV2 /\ action \in MappingMutators
  BY DEF Gated, IsV2, MappingMutators, DocV1, DocV2, Roots, ScpdWancmn
<1> QED BY <1>1, <1>2, <1>3, <1>4, <1>5, <1>6, FollowsParts

(* Its WANIPConnection:2, which the boundary guards. *)
LEMMA IpV2Follows ==
  ASSUME NEW root \in Roots, root = DocV2
  PROVE  Follows(root, Service("WANIPConnection:2", "/igd/v2/WANIPCn.xml", "/ctl/IPConn"))
<1>1. "/igd/v2/WANIPCn.xml" \in DOMAIN Served /\ Served["/igd/v2/WANIPCn.xml"] = "WIP2"
  BY DEF Served, RootPaths, WanipPaths, WancmnPaths
<1>2. "/ctl/IPConn" \in DOMAIN ServiceOfPath /\ ServiceOfPath["/ctl/IPConn"] = "WanIpConnection"
  BY DEF ServiceOfPath
<1>3. Scpd("/igd/v2/WANIPCn.xml") = ScpdWip2
  BY <1>1 DEF Scpd
<1>4. ScpdWip2 \subseteq KnownActions /\ ScpdWip2 \subseteq Handled("WanIpConnection")
  BY DEF KnownActions, Handled, ConnectionActions, ScpdWanip, ScpdWip2
<1>5. \A action : ResponseUrn([class |-> "Soap", service |-> "WanIpConnection",
                              action |-> action, v2 |-> IsV2("WANIPConnection:2")]) = "WANIPConnection:2"
  BY DEF ResponseUrn, IsV2
<1>6. \A action \in ScpdWip2 :
        Gated([class |-> "Soap", service |-> "WanIpConnection",
               action |-> action, v2 |-> IsV2("WANIPConnection:2")])
          <=> root = DocV2 /\ action \in MappingMutators
  BY DEF Gated, IsV2, MappingMutators, DocV1, DocV2, Roots, ScpdWanip, ScpdWip2
<1> QED BY <1>1, <1>2, <1>3, <1>4, <1>5, <1>6, FollowsParts

LEMMA DocumentsLead ==
  ASSUME NEW root \in Roots, NEW s \in Root(root).services
  PROVE  Follows(root, s)
<1>1. CASE root = DocV2
  <2>1. Root(root) = RootDescV2
    BY <1>1 DEF Root, DocV2, Served, RootPaths, WanipPaths, WancmnPaths
  <2>2. \/ s = Service("DeviceProtection:1", "/igd/v2/DP.xml", "/ctl/DP")
        \/ s = Service("WANCommonInterfaceConfig:1", "/igd/v1/WANCfg.xml", "/ctl/CmnIfCfg")
        \/ s = Service("WANIPConnection:2", "/igd/v2/WANIPCn.xml", "/ctl/IPConn")
    BY <2>1 DEF RootDescV2
  <2> QED BY <1>1, <2>2, DpV2Follows, CommonV2Follows, IpV2Follows
<1>2. CASE root # DocV2
  <2>1. Root(root) = RootDesc
    BY <1>2 DEF Root, Roots, DocV1, DocV2, Served, RootPaths, WanipPaths, WancmnPaths
  <2>2. \/ s = Service("WANCommonInterfaceConfig:1", "/WANCfg.xml", "/ctl/CmnIfCfg")
        \/ s = Service("WANIPConnection:1", "/WANIPC.xml", "/ctl/IPConn")
        \/ s = Service("WANPPPConnection:1", "/WANPPP.xml", "/ctl/PPPConn")
    BY <2>1 DEF RootDesc
  <2> QED BY <1>2, <2>2, CommonV1Follows, IpV1Follows, PppV1Follows
<1> QED BY <1>1, <1>2

-----------------------------------------------------------------------------
(* The inductive invariant. *)
LEMMA BurstCases ==
  ASSUME TypeOK, NEW p \in Points
  PROVE  /\ Bursting(p, "none") => burst[p] = NoBurst
         /\ Bursting(p, "open") => burst[p] \in Open
         /\ Bursting(p, "answered") => burst[p] \in Done
         /\ Bursting(p, "none") \/ Bursting(p, "open") \/ Bursting(p, "answered")
BY DEF TypeOK, Bursting, NoBurst, Open, Done

LEMMA DownStays ==
  ASSUME NEW m \in Nat, NEW t \in 0 .. m
  PROVE  Down(t) \in 0 .. m
BY DEF Down

LEMMA InitHolds == Init => DiscoveryInv
<1> SUFFICES ASSUME Init PROVE DiscoveryInv
  OBVIOUS
<1>1. TypeOK
  <2>1. inbox \in Seq(Search)
    BY DEF Init
  <2>2. burst \in [Points -> {NoBurst}]
    BY DEF Init
  <2>3. searches \in 0 .. MaxSearches
    BY WindowAssumption DEF Init
  <2> QED BY <2>1, <2>2, <2>3 DEF TypeOK, Init
<1>2. AskedInv
  BY DEF Init, AskedInv, Bursting, NoBurst
<1>3. AnswerInv
  BY DEF Init, AnswerInv, Free, Roots
<1>4. CallInv
  BY DEF Init, CallInv, NoCall
<1> QED BY <1>1, <1>2, <1>3, <1>4 DEF DiscoveryInv

(* A delay within MX, in the type of the loop's sleep. *)
LEMMA AsleepType ==
  ASSUME NEW s \in Search, NEW loc \in {DocV1, DocV2}, Asleep(s, loc), s.mx \in Mxs, s.st \in Targets
  PROVE  /\ recv' \in [at: {"asleep"}, left: UNION {0 .. m : m \in Mxs}, st: Targets,
                       loc: {DocV1, DocV2}]
         /\ recv'.at = "asleep" /\ recv'.st = s.st /\ recv'.loc = loc
<1>1. PICK left \in 0 .. s.mx : recv' = [at |-> "asleep", left |-> left, st |-> s.st, loc |-> loc]
  BY DEF Asleep
<1>2. left \in UNION {0 .. m : m \in Mxs}
  BY <1>1
<1> QED BY <1>1, <1>2

LEMMA AskStep == TypeOK /\ AskedInv /\ Ask => TypeOK' /\ AskedInv'
<1> SUFFICES ASSUME TypeOK, AskedInv, Ask PROVE TypeOK' /\ AskedInv'
  OBVIOUS
<1>1. inbox' \in Seq(Search)
  BY DEF Ask, TypeOK
<1>2. searches' \in 0 .. MaxSearches
  BY WindowAssumption DEF Ask, TypeOK
<1>3. UNCHANGED <<recv, burst, owed, late, asked>>
  BY DEF Ask, history
<1> QED BY <1>1, <1>2, <1>3 DEF TypeOK, AskedInv, Bursting

(* What every action of the receive loop has in common. *)
LEMMA ReceivedParts ==
  ASSUME TypeOK, NEW action, Received(action)
  PROVE  /\ Head(inbox) \in Search
         /\ Head(inbox).from \in Points /\ Head(inbox).st \in Targets /\ Head(inbox).mx \in Mxs
         /\ DiscoveryAction(Head(inbox).st) = action
         /\ inbox' \in Seq(Search)
         /\ searches' \in 0 .. MaxSearches
         /\ UNCHANGED <<searches, told, call>>
<1>1. inbox \in Seq(Search) /\ inbox # <<>>
  BY DEF TypeOK, Received
<1>2. Head(inbox) \in Search /\ Tail(inbox) \in Seq(Search)
  BY <1>1
<1> QED BY <1>1, <1>2 DEF Received, TypeOK, Search

LEMMA IgnoreStep == DiscoveryInv /\ IgnoreSearch => DiscoveryInv'
<1> SUFFICES ASSUME DiscoveryInv, IgnoreSearch PROVE DiscoveryInv'
  OBVIOUS
<1>1. TypeOK /\ AskedInv /\ AnswerInv /\ CallInv
  BY DEF DiscoveryInv
<1>2. Received("Ignore") /\ UNCHANGED <<recv, burst, owed, late, asked>>
  BY DEF IgnoreSearch, history
<1>3. inbox' \in Seq(Search) /\ searches' \in 0 .. MaxSearches /\ UNCHANGED <<told, call>>
  BY <1>1, <1>2, ReceivedParts
<1>4. TypeOK'
  BY <1>1, <1>2, <1>3 DEF TypeOK
<1> QED BY <1>1, <1>2, <1>3, <1>4 DEF DiscoveryInv, AskedInv, AnswerInv, CallInv, Bursting

LEMMA ReplyV1Step == DiscoveryInv /\ ReplyV1 => DiscoveryInv'
<1> SUFFICES ASSUME DiscoveryInv, ReplyV1 PROVE DiscoveryInv'
  OBVIOUS
<1>1. TypeOK /\ AskedInv /\ AnswerInv /\ CallInv
  BY DEF DiscoveryInv
<1>2. Received("ReplyV1") /\ Asleep(Head(inbox), DocV1) /\ UNCHANGED <<burst, owed, late, asked>>
  BY DEF ReplyV1, history
<1>3. /\ Head(inbox) \in Search /\ Head(inbox).st \in Targets /\ Head(inbox).mx \in Mxs
      /\ DiscoveryAction(Head(inbox).st) = "ReplyV1"
      /\ inbox' \in Seq(Search) /\ searches' \in 0 .. MaxSearches /\ UNCHANGED <<told, call>>
  BY <1>1, <1>2, ReceivedParts
<1>4. /\ recv' \in [at: {"asleep"}, left: UNION {0 .. m : m \in Mxs}, st: Targets,
                    loc: {DocV1, DocV2}]
      /\ recv'.st = Head(inbox).st /\ recv'.loc = DocV1
  BY <1>2, <1>3, AsleepType
<1>5. TypeOK'
  BY <1>1, <1>2, <1>3, <1>4 DEF TypeOK
<1>6. AnswerInv'
  BY <1>1, <1>3, <1>4 DEF AnswerInv
<1> QED BY <1>1, <1>2, <1>3, <1>5, <1>6 DEF DiscoveryInv, AskedInv, CallInv, Bursting

LEMMA FlippedKeeps ==
  ASSUME TypeOK, AskedInv, NEW p \in Points,
         burst' = Flipped(p),
         asked' = IF Bursting(p, "open") THEN asked \cup {p} ELSE asked
  PROVE  /\ burst' \in [Points -> {NoBurst} \cup Open \cup Done]
         /\ asked' \subseteq Points /\ AskedInv'
<1>1. CASE Bursting(p, "open")
  <2> DEFINE b == [burst[p] EXCEPT !.v2 = TRUE]
  <2>1. burst[p] \in Open
    BY <1>1, BurstCases
  <2>2. b \in Open
    BY <2>1 DEF Open
  <2>3. burst' = [burst EXCEPT ![p] = b]
    BY <1>1 DEF Flipped
  <2>4. burst \in [Points -> {NoBurst} \cup Open \cup Done]
    BY DEF TypeOK, Open, Done
  <2>5. asked' = asked \cup {p} /\ asked \subseteq Points
    BY <1>1 DEF TypeOK
  <2> HIDE DEF b
  <2>6. \A q \in Points : burst'[q] = IF q = p THEN b ELSE burst[q]
    BY <2>3, <2>4
  <2> QED BY <2>2, <2>3, <2>4, <2>5, <2>6 DEF AskedInv, Bursting
<1>2. CASE ~Bursting(p, "open")
  <2>1. burst' = burst /\ asked' = asked
    BY <1>2 DEF Flipped
  <2> QED BY <2>1 DEF TypeOK, AskedInv, Bursting, Open, Done
<1> QED BY <1>1, <1>2

LEMMA ReplyV2Step == DiscoveryInv /\ ReplyV2 => DiscoveryInv'
<1> SUFFICES ASSUME DiscoveryInv, ReplyV2 PROVE DiscoveryInv'
  OBVIOUS
<1> DEFINE s == Head(inbox)
<1>1. TypeOK /\ AskedInv /\ AnswerInv /\ CallInv
  BY DEF DiscoveryInv
<1>2. /\ Received("ReplyV2") /\ Asleep(s, DocV2)
      /\ burst' = Flipped(s.from)
      /\ asked' = IF Bursting(s.from, "open") THEN asked \cup {s.from} ELSE asked
      /\ UNCHANGED <<owed, late>>
  BY DEF ReplyV2
<1>3. /\ s \in Search /\ s.from \in Points /\ s.st \in Targets /\ s.mx \in Mxs
      /\ DiscoveryAction(s.st) = "ReplyV2"
      /\ inbox' \in Seq(Search) /\ searches' \in 0 .. MaxSearches /\ UNCHANGED <<told, call>>
  BY <1>1, <1>2, ReceivedParts
<1>4. /\ recv' \in [at: {"asleep"}, left: UNION {0 .. m : m \in Mxs}, st: Targets,
                    loc: {DocV1, DocV2}]
      /\ recv'.st = s.st /\ recv'.loc = DocV2
  BY <1>2, <1>3, AsleepType
<1>5. /\ burst' \in [Points -> {NoBurst} \cup Open \cup Done]
      /\ asked' \subseteq Points /\ AskedInv'
  BY <1>1, <1>2, <1>3, FlippedKeeps
<1>6. TypeOK'
  BY <1>1, <1>2, <1>3, <1>4, <1>5 DEF TypeOK, Open, Done
<1>7. AnswerInv'
  BY <1>1, <1>3, <1>4 DEF AnswerInv
<1> QED BY <1>1, <1>3, <1>5, <1>6, <1>7 DEF DiscoveryInv, CallInv

LEMMA DeferAllStep == DiscoveryInv /\ DeferAll => DiscoveryInv'
<1> SUFFICES ASSUME DiscoveryInv, DeferAll PROVE DiscoveryInv'
  OBVIOUS
<1> DEFINE p == Head(inbox).from
           b == [phase |-> "open", v2 |-> FALSE, left |-> Window]
<1>1. TypeOK /\ AskedInv /\ AnswerInv /\ CallInv
  BY DEF DiscoveryInv
<1>2. /\ Received("DeferAll") /\ owed' = owed \cup {p} /\ UNCHANGED <<recv, asked>>
      /\ late' \in {late, late \cup {p}}
  BY DEF DeferAll
<1>3. /\ p \in Points
      /\ inbox' \in Seq(Search) /\ searches' \in 0 .. MaxSearches /\ UNCHANGED <<told, call>>
  BY <1>1, <1>2, ReceivedParts
<1>4. b \in Open /\ b.phase = "open" /\ b.v2 = FALSE
  BY WindowAssumption DEF Open
<1>5. burst' = burst \/ burst' = [burst EXCEPT ![p] = b]
  BY DEF DeferAll
<1>6. burst \in [Points -> {NoBurst} \cup Open \cup Done]
  BY <1>1 DEF TypeOK, Open, Done
<1> HIDE DEF b
<1>7. burst' \in [Points -> {NoBurst} \cup Open \cup Done] /\ AskedInv'
  BY <1>1, <1>2, <1>3, <1>4, <1>5, <1>6 DEF AskedInv, Bursting
<1>8. TypeOK'
  BY <1>1, <1>2, <1>3, <1>7 DEF TypeOK, Open, Done
<1> QED BY <1>1, <1>2, <1>3, <1>7, <1>8 DEF DiscoveryInv, AnswerInv, CallInv

LEMMA AnswerStep == DiscoveryInv /\ Answer => DiscoveryInv'
<1> SUFFICES ASSUME DiscoveryInv, Answer PROVE DiscoveryInv'
  OBVIOUS
<1>1. TypeOK /\ AskedInv /\ AnswerInv /\ CallInv
  BY DEF DiscoveryInv
<1>2. /\ recv.at = "asleep" /\ recv' = Free /\ told' = told \cup {recv.loc}
      /\ UNCHANGED <<inbox, burst, searches, call, owed, late, asked>>
  BY DEF Answer, history
<1>3. TypeOK'
  BY <1>1, <1>2 DEF TypeOK
<1>4. recv'.at = "free"
  BY <1>2 DEF Free
<1>5. told' \subseteq Roots
  BY <1>1, <1>2 DEF AnswerInv, Roots
<1> QED BY <1>1, <1>2, <1>3, <1>4, <1>5 DEF DiscoveryInv, AskedInv, AnswerInv, CallInv, Bursting

LEMMA AnswerAllStep ==
  ASSUME DiscoveryInv, NEW p \in Points, NEW v2 \in BOOLEAN, AnswerAll(p, v2)
  PROVE  DiscoveryInv'
<1> DEFINE b == [phase |-> "answered", v2 |-> v2]
<1>1. TypeOK /\ AskedInv /\ AnswerInv /\ CallInv
  BY DEF DiscoveryInv
<1>2. /\ Bursting(p, "open") /\ (v2 => burst[p].v2)
      /\ burst' = [burst EXCEPT ![p] = b]
      /\ told' = told \cup {IF v2 THEN DocV2 ELSE DocV1}
      /\ owed' = owed \ {p}
      /\ UNCHANGED <<inbox, recv, searches, call, late, asked>>
  BY DEF AnswerAll, Resolves
<1>3. b \in Done /\ b.v2 = v2
  BY DEF Done
<1>4. burst \in [Points -> {NoBurst} \cup Open \cup Done]
  BY <1>1 DEF TypeOK, Open, Done
<1> HIDE DEF b
<1>5. burst' \in [Points -> {NoBurst} \cup Open \cup Done]
  BY <1>2, <1>3, <1>4
<1>6. AskedInv'
  <2> SUFFICES ASSUME NEW q \in Points, burst'[q].v2, Bursting(q, "open")' \/ Bursting(q, "answered")'
               PROVE  q \in asked'
    BY DEF AskedInv
  <2>1. CASE q = p
    <3>1. v2
      BY <1>2, <1>3, <1>4, <2>1
    <3> QED BY <1>1, <1>2, <2>1, <3>1 DEF AskedInv
  <2>2. CASE q # p
    <3>1. burst'[q] = burst[q]
      BY <1>2, <1>4, <2>2
    <3> QED BY <1>1, <1>2, <3>1 DEF AskedInv, Bursting
  <2> QED BY <2>1, <2>2
<1>7. TypeOK'
  BY <1>1, <1>2, <1>5 DEF TypeOK, Open, Done
<1>8. AnswerInv'
  BY <1>1, <1>2 DEF AnswerInv, Roots
<1> QED BY <1>1, <1>2, <1>6, <1>7, <1>8 DEF DiscoveryInv, CallInv

LEMMA CloseStep ==
  ASSUME DiscoveryInv, NEW p \in Points, CloseBurst(p)
  PROVE  DiscoveryInv'
<1>1. TypeOK /\ AskedInv /\ AnswerInv /\ CallInv
  BY DEF DiscoveryInv
<1>2. /\ burst' = [burst EXCEPT ![p] = NoBurst] /\ asked' = asked \ {p}
      /\ UNCHANGED <<inbox, recv, searches, told, call, owed, late>>
  BY DEF CloseBurst
<1>3. burst \in [Points -> {NoBurst} \cup Open \cup Done]
  BY <1>1 DEF TypeOK, Open, Done
<1>4. burst' \in [Points -> {NoBurst} \cup Open \cup Done]
  BY <1>2, <1>3
<1>5. AskedInv'
  BY <1>1, <1>2, <1>3 DEF AskedInv, Bursting, NoBurst
<1>6. TypeOK'
  BY <1>1, <1>2, <1>4 DEF TypeOK, Open, Done
<1> QED BY <1>1, <1>2, <1>5, <1>6 DEF DiscoveryInv, AnswerInv, CallInv

LEMMA TickStep == DiscoveryInv /\ Tick => DiscoveryInv'
<1> SUFFICES ASSUME DiscoveryInv, Tick PROVE DiscoveryInv'
  OBVIOUS
<1> DEFINE Sleep == [at: {"asleep"}, left: UNION {0 .. m : m \in Mxs}, st: Targets, loc: {DocV1, DocV2}]
<1>1. TypeOK /\ AskedInv /\ AnswerInv /\ CallInv
  BY DEF DiscoveryInv
<1>2. /\ recv' = IF recv = Free THEN Free ELSE [recv EXCEPT !.left = Down(@)]
      /\ burst' = [p \in Points |-> IF Bursting(p, "open") THEN [burst[p] EXCEPT !.left = Down(@)]
                                    ELSE burst[p]]
      /\ UNCHANGED <<inbox, searches, told, call, owed, late, asked>>
  BY DEF Tick, history
<1>3. \/ recv = Free /\ recv' = Free
      \/ recv \in Sleep /\ recv' \in Sleep /\ recv'.st = recv.st /\ recv'.loc = recv.loc
  <2>1. CASE recv = Free
    BY <1>2, <2>1
  <2>2. CASE recv # Free
    <3>1. recv \in Sleep /\ recv' = [recv EXCEPT !.left = Down(recv.left)]
      BY <1>1, <1>2, <2>2 DEF TypeOK
    <3>2. PICK m \in Mxs : recv.left \in 0 .. m
      BY <3>1
    <3>3. Down(recv.left) \in 0 .. m
      BY <3>2, DownStays, WindowAssumption
    <3>4. Down(recv.left) \in UNION {0 .. n : n \in Mxs}
      BY <3>3
    <3> QED BY <3>1, <3>4
  <2> QED BY <2>1, <2>2
<1>4. \A p \in Points : /\ burst'[p].phase = burst[p].phase
                        /\ Bursting(p, "open") => burst'[p] \in Open /\ burst'[p].v2 = burst[p].v2
                        /\ ~Bursting(p, "open") => burst'[p] = burst[p]
  <2> TAKE p \in Points
  <2>1. CASE Bursting(p, "open")
    <3>1. burst[p] \in Open /\ burst'[p] = [burst[p] EXCEPT !.left = Down(burst[p].left)]
      BY <1>1, <1>2, <2>1, BurstCases
    <3>2. Down(burst[p].left) \in 0 .. Window
      BY <3>1, DownStays, WindowAssumption DEF Open
    <3> QED BY <2>1, <3>1, <3>2 DEF Open
  <2>2. CASE ~Bursting(p, "open")
    BY <1>2, <2>2
  <2> QED BY <2>1, <2>2
<1>5. burst' \in [Points -> {NoBurst} \cup Open \cup Done]
  <2>1. \A p \in Points : burst[p] \in {NoBurst} \cup Open \cup Done
    BY <1>1 DEF TypeOK, Open, Done
  <2>2. \A p \in Points : burst'[p] \in {NoBurst} \cup Open \cup Done
    BY <1>4, <2>1
  <2> QED BY <1>2, <2>2
<1>6. AskedInv'
  BY <1>1, <1>2, <1>4 DEF AskedInv, Bursting
<1>7. TypeOK'
  BY <1>1, <1>2, <1>3, <1>5 DEF TypeOK, Open, Done
<1>8. AnswerInv'
  BY <1>1, <1>2, <1>3 DEF AnswerInv, Free
<1> QED BY <1>1, <1>2, <1>6, <1>7, <1>8 DEF DiscoveryInv, CallInv

LEMMA CallStep == DiscoveryInv /\ (ReadDescription \/ CallAction \/ HangUp) => DiscoveryInv'
<1> SUFFICES ASSUME DiscoveryInv, ReadDescription \/ CallAction \/ HangUp PROVE DiscoveryInv'
  OBVIOUS
<1>1. TypeOK /\ AskedInv /\ AnswerInv /\ CallInv
  BY DEF DiscoveryInv
<1>2. UNCHANGED <<inbox, recv, burst, searches, told, owed, late, asked>>
  BY DEF ReadDescription, CallAction, HangUp, history
<1>3. CallInv'
  <2>1. CASE ReadDescription
    <3>1. PICK root \in told : \E s \in Root(root).services :
            call' = [step |-> "read", root |-> root, service |-> s, status |-> GetStatus(s.scpd)]
      BY <2>1 DEF ReadDescription
    <3>2. PICK s \in Root(root).services :
            call' = [step |-> "read", root |-> root, service |-> s, status |-> GetStatus(s.scpd)]
      BY <3>1
    <3>3. root \in Roots
      BY <1>1 DEF AnswerInv
    <3> QED BY <3>2, <3>3 DEF CallInv
  <2>2. CASE CallAction
    <3>1. PICK action \in Scpd(call.service.scpd) :
            call' = [step |-> "called", root |-> call.root, service |-> call.service,
                     request |-> ClassifyPost(call.service.control, call.service.type, action)]
      BY <2>2 DEF CallAction
    <3>2. call.root \in Roots /\ call.service \in Root(call.root).services
      BY <1>1, <2>2 DEF CallInv, CallAction
    <3> QED BY <3>1, <3>2 DEF CallInv
  <2>3. CASE HangUp
    BY <2>3 DEF HangUp, NoCall, CallInv
  <2> QED BY <2>1, <2>2, <2>3
<1> QED BY <1>1, <1>2, <1>3 DEF DiscoveryInv, TypeOK, AskedInv, AnswerInv, Bursting

LEMMA StepHolds == DiscoveryInv /\ [Next]_vars => DiscoveryInv'
<1> SUFFICES ASSUME DiscoveryInv, [Next]_vars PROVE DiscoveryInv'
  OBVIOUS
<1>1. CASE Ask
  <2>1. UNCHANGED <<recv, told, call>>
    BY <1>1 DEF Ask
  <2> QED BY <1>1, <2>1, AskStep DEF DiscoveryInv, AnswerInv, CallInv
<1>2. CASE Receive
  BY <1>2, IgnoreStep, ReplyV1Step, ReplyV2Step, DeferAllStep DEF Receive
<1>3. CASE Answer
  BY <1>3, AnswerStep
<1>4. CASE Tick
  BY <1>4, TickStep
<1>5. CASE ReadDescription \/ CallAction \/ HangUp
  BY <1>5, CallStep
<1>6. ASSUME NEW p \in Points, CloseBurst(p) PROVE DiscoveryInv'
  BY <1>6, CloseStep
<1>7. ASSUME NEW p \in Points, NEW v2 \in BOOLEAN, AnswerAll(p, v2) PROVE DiscoveryInv'
  BY <1>7, AnswerAllStep
<1>8. CASE UNCHANGED vars
  BY <1>8 DEF vars, history, DiscoveryInv, TypeOK, AskedInv, AnswerInv, CallInv, Bursting
<1> QED BY <1>1, <1>2, <1>3, <1>4, <1>5, <1>6, <1>7, <1>8 DEF Next

LEMMA Invariant == Spec => []DiscoveryInv
BY InitHolds, StepHolds, PTL DEF Spec

-----------------------------------------------------------------------------
(* The loop, the bursts and the searches have their types: no timer runs   *)
(* below zero and no burst has a phase of its own (send_discovery,         *)
(* defer_all).                                                             *)
THEOREM DiscoveryTypes == Spec => []TypeOK
<1>1. DiscoveryInv => TypeOK
  BY DEF DiscoveryInv
<1> QED BY <1>1, Invariant, PTL

(* The second document answers an ssdp:all only when the control point     *)
(* itself searched for version 2 within its burst (burst_resolves_v2).     *)
THEOREM VersionTwoIsAsked == Spec => []V2OnlyWhenAsked
<1>1. DiscoveryInv => V2OnlyWhenAsked
  BY DEF DiscoveryInv, AskedInv, V2OnlyWhenAsked
<1> QED BY <1>1, Invariant, PTL

(* What an answer names is served and declares the target, and every       *)
(* action that a document leads to has a handler, behind the boundary      *)
(* exactly when it came from the second document (classify, handle_soap).  *)
THEOREM DocumentsLeadSomewhere == Spec => []DocumentsHold
<1>1. ASSUME DiscoveryInv PROVE DocumentsHold
  <2>1. AnswerInv /\ CallInv
    BY <1>1 DEF DiscoveryInv
  <2>2. LocationsHold
    BY <2>1, FirstDocumentDeclares, SecondDocumentDeclares DEF AnswerInv, LocationsHold
  <2>3. call.step = "read" => call.status = 200
    BY <2>1, DocumentsLead DEF CallInv, Follows
  <2>4. ASSUME call.step = "called"
        PROVE  /\ call.request.class = "Soap"
               /\ call.request.action \in Handled(call.request.service)
               /\ ResponseUrn(call.request) = call.service.type
               /\ Gated(call.request) <=> call.root = DocV2 /\ call.request.action \in MappingMutators
    <3>1. Follows(call.root, call.service)
      BY <2>1, <2>4, DocumentsLead DEF CallInv
    <3>2. PICK action \in Scpd(call.service.scpd) :
            call.request = ClassifyPost(call.service.control, call.service.type, action)
      BY <2>1, <2>4 DEF CallInv
    <3> QED BY <3>1, <3>2 DEF Follows
  <2> QED BY <2>2, <2>3, <2>4 DEF DocumentsHold, CallsHold, FacesApart
<1> QED BY <1>1, Invariant, PTL
=============================================================================
