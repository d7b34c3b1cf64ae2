SPECIFICATION FairSpec
CONSTANTS
  a = a
  b = b
  d = d
  l = l
  Servers <- MCServers
  Answering = {a, b, l}
  Liars = {l}
  Tuples = {t1, t2}
  Lie = lie
  None = none
  VoteSlots = 4
  RotateAfter = 3
  MaxRekeys = 2
  MaxFaults = 3
INVARIANT TypeOK
PROPERTIES
  MovesOnTwo
  Converges
