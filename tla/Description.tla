----------------------------- MODULE Description -----------------------------
(***************************************************************************)
(* What the facade serves and what it says it serves: the documents of its *)
(* HTTP server, the services and actions they declare, how a request line  *)
(* and its headers are classified, and which actions the dispatch handles. *)
(* Names of paths, types and actions are the program's own.                *)
(***************************************************************************)

(* Search targets and how a search for one is answered. *)
V1Targets == {"upnp:rootdevice", "InternetGatewayDevice:1", "WANDevice:1",
              "WANConnectionDevice:1", "WANIPConnection:1", "WANPPPConnection:1"}
V2Targets == {"InternetGatewayDevice:2", "WANIPConnection:2", "WANPPPConnection:2"}
SearchTargets == V1Targets \cup V2Targets \cup {"ssdp:all", "other"}

DiscoveryAction(st) == CASE st = "ssdp:all" -> "DeferAll"
                         [] st \in V1Targets -> "ReplyV1"
                         [] st \in V2Targets -> "ReplyV2"
                         [] OTHER -> "Ignore"

(* The targets that alive and byebye advertise, all at the first document. *)
NotifyTargets == V1Targets

DocV1 == "/igd/v1/rootDesc.xml"
DocV2 == "/igd/v2/rootDesc.xml"

-----------------------------------------------------------------------------
(* The documents: a GET of a path, in its legacy or versioned form. *)
RootPaths == {"/rootDesc.xml", "/igd/v1/rootDesc.xml"}
WanipPaths == {"/WANIPC.xml", "/igd/v1/WANIPC.xml", "/WANPPP.xml", "/igd/v1/WANPPP.xml"}
WancmnPaths == {"/WANCfg.xml", "/igd/v1/WANCfg.xml"}

Served == [path \in RootPaths \cup WanipPaths \cup WancmnPaths
                      \cup {"/igd/v2/rootDesc.xml", "/igd/v2/WANIPCn.xml", "/igd/v2/DP.xml"} |->
             CASE path \in RootPaths -> "RootDesc"
               [] path \in WanipPaths -> "WANIP"
               [] path \in WancmnPaths -> "WANCMN"
               [] path = "/igd/v2/rootDesc.xml" -> "RootDescV2"
               [] path = "/igd/v2/WANIPCn.xml" -> "WIP2"
               [] path = "/igd/v2/DP.xml" -> "DP"]

Service(type, scpd, control) == [type |-> type, scpd |-> scpd, control |-> control]

RootDesc == [types |-> {"InternetGatewayDevice:1", "WANDevice:1", "WANConnectionDevice:1"},
             services |->
               {Service("WANCommonInterfaceConfig:1", "/WANCfg.xml", "/ctl/CmnIfCfg"),
                Service("WANIPConnection:1", "/WANIPC.xml", "/ctl/IPConn"),
                Service("WANPPPConnection:1", "/WANPPP.xml", "/ctl/PPPConn")}]

(* Fault: the second document names a service description of the old layout. *)
RootDescV2Unserved ==
  [types |-> {"InternetGatewayDevice:2", "WANDevice:2", "WANConnectionDevice:2"},
   services |-> {Service("DeviceProtection:1", "/DP.xml", "/ctl/DP"),
                 Service("WANIPConnection:2", "/igd/v2/WANIPCn.xml", "/ctl/IPConn")}]

RootDescV2 == [types |-> {"InternetGatewayDevice:2", "WANDevice:2", "WANConnectionDevice:2"},
               services |->
                 {Service("DeviceProtection:1", "/igd/v2/DP.xml", "/ctl/DP"),
                  Service("WANCommonInterfaceConfig:1", "/igd/v1/WANCfg.xml", "/ctl/CmnIfCfg"),
                  Service("WANIPConnection:2", "/igd/v2/WANIPCn.xml", "/ctl/IPConn")}]

Root(path) == IF Served[path] = "RootDescV2" THEN RootDescV2 ELSE RootDesc

ScpdWanip == {"GetConnectionTypeInfo", "GetStatusInfo", "GetExternalIPAddress", "AddPortMapping",
              "DeletePortMapping", "GetGenericPortMappingEntry", "GetSpecificPortMappingEntry"}
ScpdWancmn == {"GetCommonLinkProperties"}
ScpdWip2 == ScpdWanip \cup
            {"SetConnectionType", "RequestConnection", "ForceTermination", "GetNATRSIPStatus",
             "AddAnyPortMapping", "DeletePortMappingRange", "GetListOfPortMappings"}
ScpdDp == {"SendSetupMessage", "GetSupportedProtocols", "GetAssignedRoles", "GetRolesForAction",
           "GetUserLoginChallenge", "UserLogin", "UserLogout", "GetACLData", "AddIdentityList",
           "RemoveIdentity", "SetUserLoginPassword", "AddRolesForIdentity", "RemoveRolesForIdentity"}

Scpd(path) == CASE Served[path] = "WANIP" -> ScpdWanip
                [] Served[path] = "WANCMN" -> ScpdWancmn
                [] Served[path] = "WIP2" -> ScpdWip2
                [] Served[path] = "DP" -> ScpdDp

-----------------------------------------------------------------------------
(* classify: a POST needs a known action and a control path.  The methods  *)
(* of GENA go by their headers; Gena has what becomes of them.             *)
KnownActions == ScpdWip2 \cup ScpdWancmn \cup ScpdDp

ServiceOfPath == [path \in {"/ctl/IPConn", "/ctl/PPPConn", "/ctl/CmnIfCfg", "/ctl/DP"} |->
                    CASE path = "/ctl/IPConn" -> "WanIpConnection"
                      [] path = "/ctl/PPPConn" -> "WanPppConnection"
                      [] path = "/ctl/CmnIfCfg" -> "WanCommonIfaceCfg"
                      [] path = "/ctl/DP" -> "DeviceProtection"]

(* The version is the URN's: both faces share the control paths. *)
IsV2(urn) == urn = "WANIPConnection:2"

ClassifyPost(path, urn, action) ==
  IF action \in KnownActions /\ path \in DOMAIN ServiceOfPath
    THEN [class |-> "Soap", service |-> ServiceOfPath[path], action |-> action, v2 |-> IsV2(urn)]
    ELSE [class |-> "SoapInvalidAction"]

-----------------------------------------------------------------------------
(* handle_soap: which actions a service handles; any other is fault 401. *)
ConnectionActions == ScpdWanip \cup {"SetConnectionType", "RequestConnection",
                                     "ForceTermination", "GetNATRSIPStatus"}

Handled(service) ==
  CASE service = "WanIpConnection" ->
         ConnectionActions \cup {"AddAnyPortMapping", "DeletePortMappingRange", "GetListOfPortMappings"}
    [] service = "WanPppConnection" -> ConnectionActions
    [] service = "WanCommonIfaceCfg" -> {"GetCommonLinkProperties"}
    [] service = "DeviceProtection" -> ScpdDp

MappingMutators == {"AddPortMapping", "AddAnyPortMapping", "DeletePortMapping", "DeletePortMappingRange"}

(* The boundary in front of the dispatch: the WIP2 mutators of version 2. *)
Gated(r) == r.service = "WanIpConnection" /\ r.v2 /\ r.action \in MappingMutators

(* The response names the service in the version of the request. *)
ResponseUrn(r) ==
  CASE r.service = "WanIpConnection" -> IF r.v2 THEN "WANIPConnection:2" ELSE "WANIPConnection:1"
    [] r.service = "WanPppConnection" -> "WANPPPConnection:1"
    [] r.service = "WanCommonIfaceCfg" -> "WANCommonInterfaceConfig:1"
    [] r.service = "DeviceProtection" -> "DeviceProtection:1"

(* A GET of a path without a document is answered with 404. *)
GetStatus(path) == IF path \in DOMAIN Served THEN 200 ELSE 404

(* Whether the root document at a path declares a search target. *)
Declares(path, st) ==
  st \in {"upnp:rootdevice", "ssdp:all"} \cup Root(path).types
         \cup {s.type : s \in Root(path).services}
=============================================================================
