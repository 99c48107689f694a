SPECIFICATION FairSpec
CONSTANTS
  Requests = {1, 2, 3}
  Priority <- Ranks
  MaxActive = 2
  Prefill = 2
  MaxNew = 2
  Budgeted = TRUE
  Faults = {"admit", "forward"}
INVARIANTS
  SchedulerInv
PROPERTIES
  LifeSpec
  AdmittedInOrder
  AllAnswered
CHECK_DEADLOCK FALSE
