SPECIFICATION FairSpec
CONSTANTS
  Models = {A, B}
  Requests = {r1, r2}
  Admins = {u1}
  MaxLoaded = 1
  MaxLoads = 3
  MaxUnloads = 1
  None = None
INVARIANTS TypeOK LeaseSafety LeaseAccounting RuntimesAccounted
PROPERTY CallsEnd
CHECK_DEADLOCK FALSE
