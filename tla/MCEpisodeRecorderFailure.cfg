SPECIFICATION FairSpec
CONSTANTS
  Capacity = 1
  MaxFrames = 1
PROPERTY FailuresAreSurfaced
CHECK_DEADLOCK FALSE
