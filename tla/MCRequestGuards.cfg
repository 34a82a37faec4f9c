SPECIFICATION Spec
CONSTANTS
  Client = {c1, c2, c3}
  Key = {k1, k2}
  Attempt = {a1, a2}
  Limit <- MCLimit
  Window = 2
  SweepInterval = 1
  MaxKeysPerClient = 2
  MaxTrackedKeys = 2
  MaxTime = 2
  MaxRequests = 5
  None = None
SYMMETRY Interchangeable
INVARIANTS KeysAreBounded LimitHolds OnlySelfThrottled FailuresBounded
PROPERTIES LighterKept
CHECK_DEADLOCK FALSE
