SPECIFICATION PoolsSpec
CONSTANTS
  Ids = {a}
  Clients = {c1, c2, c3}
  Two = {c1, c2}
  Retrier = c1
  Settings = {"alone", "pair", "crowd"}
  Checkers = {h}
  Caps = {1, 2}
  HalfOpenProbes = 1
  FailureThreshold = 2
  Window = 2
  MinRequests = 2
  RateNum = 1
  RateDen = 2
  HealthyAfter = 1
  UnhealthyAfter = 1
  QueueLimit = 1
  Attempts = 2
  Weights = {0, 1}
  Marks = {FALSE}
  MaxNodes = 2
  MaxAdds = 2
INVARIANTS
  PoolInv
PROPERTIES
  BookSpec
  RetriesElsewhere
  HalfOpenResolves
CHECK_DEADLOCK FALSE
