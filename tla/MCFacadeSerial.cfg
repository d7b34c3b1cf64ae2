SPECIFICATION Spec
CONSTANTS
  alice = alice
  bob = bob
  w1 = w1
  w2 = w2
  Clients = {alice, bob}
  Operator = operator
  IntPorts = {1, 2}
  Lo = 1
  Hi = 3
  MaxSlots = 3
  MaxMapsPerClient = 2
  Workers = {w1}
  Collector = gc
  Serves <- OneWorker
  StaticConfigs <- OneStatic
  Scenarios <- AllJobs
  Faults = {"nft", "rebind", "redirect"}
INVARIANTS TypeOK DatapathMatchesSlots EntryPerTuple BootNeverRefused LeasesOnDisk StaticsServed
