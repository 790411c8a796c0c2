SPECIFICATION Spec
CONSTANTS
  Models = {A, B, C}
  Requests = {r1, r2, r3}
  Admins = {}
  MaxLoaded = 2
  MaxLoads = 5
  MaxUnloads = 0
  None = None
INVARIANT HardBudget
CHECK_DEADLOCK FALSE
