SPECIFICATION FairSpec
CONSTANTS
  Requests = {1, 2}
  Priority <- Ranks
  MaxActive = 2
  Prefill = 2
  MaxNew = 2
  Budgeted = TRUE
  Faults = {"admit"}
PROPERTIES
  FailedIsAnswered
CHECK_DEADLOCK FALSE
