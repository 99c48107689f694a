SPECIFICATION Spec
CONSTANTS
  Keys = {kA, kB}
  NoKey = NoKey
  Outside = Outside
  Threads = {t1}
  Shapes <- FaultyShapes
  MaxFiles = 2
  MaxLearned = 1
SYMMETRY Symmetry
INVARIANTS
  ServerInv
  CleanModelIsOneBundle
PROPERTIES
  ForgetsOnlyByLoad
  AckedIsServed
CHECK_DEADLOCK FALSE
