CONSTANTS
  a = a
  b = b
  d = d
  Servers <- MCServers
  Answering = {a, b}
  Tuples = {t1, t2}
  Ports = {1, 2}
  None = None
  Attempts = 2
  Window = 2
  Budgets <- MCBudgets
SPECIFICATION Spec
INVARIANTS TypeOK FoldsOwned
PROPERTIES LineFollows 
CHECK_DEADLOCK FALSE
