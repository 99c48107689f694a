CONSTANTS
  Files = {f1, f2}
  Sizes = {1}
  Marks = {}
  Faults = {"rename", "walk"}
  MaxTroubles = 2
SPECIFICATION FairSpec
CHECK_DEADLOCK FALSE
PROPERTY EveryFileIsTrained
