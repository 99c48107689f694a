SPECIFICATION FairSpec
CONSTANTS
  Pools = {{w1}}
  Callers = {c1}
  Chunks = 2
  NestIn = {"chunk"}
  MaxJobs = 2
  MaxTasks = 1
PROPERTIES
  CallsReturn
CHECK_DEADLOCK FALSE
