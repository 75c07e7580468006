SPECIFICATION Spec
CONSTANTS
  Capacity = 1
  MaxFrames = 3
INVARIANT EveryFramePreserved
CHECK_DEADLOCK FALSE
