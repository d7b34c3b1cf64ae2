CONSTANTS
  c1 = c1
  c2 = c2
  u = u
  k = k
  s1 = s1
  s2 = s2
  Nobody = Nobody
  Callers = {c1, c2}
  Names = {u, k}
  Secrets = {s1, s2}
  Books <- MCBooks
  FailureLimit = 2
  Ttl = 1
  RoleLists <- MCRoleLists
  Budgets <- MCBudgets
  SaveCanFail = TRUE
  Conns = {w1, w2}
  ExtPorts = {0, 1, 2}
  IntPorts = {0, 1, 2}
  Floor = 2
  MaxPort = 3
  Restored <- MCRestored
SYMMETRY MCConns
SPECIFICATION Spec
INVARIANTS TypeOK IdleHoldsNothing 
PROPERTIES AccessRule
CHECK_DEADLOCK FALSE
