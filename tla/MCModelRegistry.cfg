SPECIFICATION RegistrySpec
CONSTANTS
  Writers = {w1, w2}
  MaxCalls = 3
INVARIANTS
  RegistryInv
PROPERTY OkMeansInstalled
CHECK_DEADLOCK FALSE
