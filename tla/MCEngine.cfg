SPECIFICATION Spec
CONSTANTS
  pc = pc
  Ports = {1, 2}
  Hosts <- MCHosts
  KeepaliveAfter = 1
  LongQuiet = 2
  DevMisses = 1
  MaxHolds = 2
  PerHost = 1
  Faults = {"mirror", "pin", "accept", "datapath", "bind"}
INVARIANTS
  TypeOK
  AcceptedMatchesServed
  PinsMatchHolds
  
