SPECIFICATION Spec
CONSTANTS
  h1 = h1
  s1 = s1
  s2 = s2
  Handlers = {h1}
  Sids <- MCSids
  Events = events
  MaxSubs = 2
  Addresses = {a1, a2}
  Unknown = unknown
  MaxChanges = 2
  MaxBusy = 2
INVARIANTS
  TypeOK
  
  FirstTellsAll
  AllKnow
SYMMETRY GenaSymmetry
CHECK_DEADLOCK FALSE
