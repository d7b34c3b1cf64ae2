SPECIFICATION Spec
CONSTANTS
  alice = alice
  bob = bob
  w1 = w1
  w2 = w2
  Clients = {alice, bob}
  Operator = operator
  IntPorts = {1, 2}
  Lo = 1
  Hi = 2
  MaxSlots = 3
  MaxMapsPerClient = 2
  Workers = {w1, w2}
  Collector = gc
  Serves <- TwoWorkers
  StaticConfigs <- NoStatics
  Scenarios <- Deleting
  Faults = {}
PROPERTY TakesOnlyOwn
