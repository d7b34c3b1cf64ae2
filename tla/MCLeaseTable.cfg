SPECIFICATION Spec
CONSTANTS
  alice = alice
  bob = bob
  Clients <- MCClients
  Operator = operator
  IntPorts = {1}
  Lo = 1
  Hi = 2
  MaxSlots = 2
  MaxMapsPerClient = 1
  Asked <- MCAsked
  Lifetimes = {1}
  StaticConfigs <- MCStatics
  FlowReports <- MCFlows
  Grace = 0
  Backstop = 0
  EvictGrace = 0
  MaxTime = 2
  MaxSnaps = 1
INVARIANTS
  TypeOK
  
  SharedPortWasPutBack

  
  
