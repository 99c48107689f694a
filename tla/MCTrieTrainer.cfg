CONSTANTS
  Files = {f1, f2}
  Sizes = {1, 2}
  Marks = {2, 3}
  Faults = {"write", "rename", "list", "copy", "read", "walk"}
  MaxTroubles = 3
SPECIFICATION FairSpec
CHECK_DEADLOCK FALSE
INVARIANTS TrainerInv NothingForgotten VerifiedMeansTrained
PROPERTIES DoneMeansAll FilesGetTrained
