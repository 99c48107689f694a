SPECIFICATION FairSpec
CONSTANTS
  Callers = {c1, c2}
  Owner = c1
  Modes = {"fork", "spawn"}
  Sizes = {1, 2}
  Oversized = {{2}}
  MaxThreads = 2
  MaxProcs = 2
  MaxJobs = 2
  MaxCrashes = 1
INVARIANTS
  WorkersInv
PROPERTIES
  WaitSeesAllSettled
  JobsSettle
CHECK_DEADLOCK FALSE
