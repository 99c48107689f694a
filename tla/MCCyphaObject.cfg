SPECIFICATION Spec
CONSTANTS
  Paths = {a, b}
  Targets = {b}
  MaxSteps = 2
INVARIANTS
  ObjectInv
PROPERTIES
  LoadRestores
CHECK_DEADLOCK FALSE
