SPECIFICATION Spec
CONSTANTS
  Frames = 1
  MaxRollouts = 1
INVARIANT StopBeforeCompletedStatus
CHECK_DEADLOCK FALSE
