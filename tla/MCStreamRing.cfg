SPECIFICATION Spec
CONSTANTS
  Settings <- Failing
  Slots = 16
  Chunks = {1, 2}
  Samples = 12
CHECK_DEADLOCK FALSE
INVARIANTS FramesAreTheirs LatencyIsBounded
