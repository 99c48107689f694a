SPECIFICATION Spec
CONSTANTS
  Ids = {a}
  Clients = {c1, c2}
  Checkers = {}
  Caps = {1}
  HalfOpenProbes = 1
  FailureThreshold = 1
  Window = 1
  MinRequests = 1
  RateNum = 1
  RateDen = 1
  HealthyAfter = 1
  UnhealthyAfter = 1
  QueueLimit = 1
  Attempts = 1
  Weights = {1}
  Marks = {}
  MaxNodes = 1
  MaxAdds = 2
INVARIANTS
  LimitAsDocumented
CHECK_DEADLOCK FALSE
