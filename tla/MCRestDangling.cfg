SPECIFICATION Spec
CONSTANTS
  Keys = {kA, kB}
  NoKey = NoKey
  Outside = Outside
  Threads = {t1}
  Shapes <- SoundShapes
  MaxFiles = 2
  MaxLearned = 1
PROPERTY LoadsWhatWasAsked
CHECK_DEADLOCK FALSE
