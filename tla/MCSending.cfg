SPECIFICATION SendSpec
CONSTANTS
  Order = {p, q}
  Sender = {s1, s2}
  Other = {o1}
  PoolSize = 2
  Reads = 3
  MaxCalls = 4
  MaxFaults = 1
  None = None
PROPERTY CallsEnd SentWhileOpen
CHECK_DEADLOCK FALSE
