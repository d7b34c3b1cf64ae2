SPECIFICATION FairSpec
CONSTANTS
  alice = alice
  bob = bob
  Clients = {alice, bob}
  Operator = operator
  IntPorts = {1}
  Lo = 1
  Hi = 2
  MaxSlots = 2
  MaxMapsPerClient = 1
  Lifted = {}
  PeerEnabled = TRUE
INVARIANT TypeOK
PROPERTIES
  SilenceEnds
  
