CONSTANTS
  Files = {f1}
  Sizes = {1}
  Marks = {}
  Faults = {}
  MaxTroubles = 1
SPECIFICATION FairSpec
CHECK_DEADLOCK FALSE
INVARIANT DoneIsVerified
