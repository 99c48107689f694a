SPECIFICATION FairBudgetSpec
CONSTANTS
  Threads = {t1, t2}
  Limits = {1, 2}
  MaxLease = 1
  Reports = {0, 1}
  Leased = {k1}
  Lazy = {k2}
  k1 = k1
  k2 = k2
  Registered = {{k1}, {k2}}
  Fill = 1
INVARIANTS
  BudgetInv
PROPERTIES
  OnlyReportsOvershoot
  CallsReturn
CHECK_DEADLOCK FALSE
