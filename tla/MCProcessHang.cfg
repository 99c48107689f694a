SPECIFICATION FairSpec
CONSTANTS
  Callers = {c1}
  Owner = c1
  Modes = {"fork"}
  Sizes = {2}
  Oversized = {{}}
  MaxThreads = 2
  MaxProcs = 2
  MaxJobs = 2
  MaxCrashes = 1
PROPERTIES CrashIsReported
CHECK_DEADLOCK FALSE
