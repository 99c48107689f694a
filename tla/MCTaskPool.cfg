SPECIFICATION FairSpec
CONSTANTS
  Pools = {{}, {w1}}
  Callers = {c1, c2}
  Chunks = 2
  NestIn = {"task"}
  MaxJobs = 2
  MaxTasks = 2
INVARIANTS
  TaskInv
  LoopInv
PROPERTIES
  IdleMeansFinished
  EverythingEnds
CHECK_DEADLOCK FALSE
