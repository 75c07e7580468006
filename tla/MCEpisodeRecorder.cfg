SPECIFICATION FairSpec
CONSTANTS
  Capacity = 2
  MaxFrames = 3
INVARIANTS
  SummaryAddsUp
  RowsFindTheirFrames
PROPERTY StopEndsRecorder
CHECK_DEADLOCK FALSE
