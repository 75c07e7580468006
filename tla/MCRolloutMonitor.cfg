SPECIFICATION FairMonitorSpec
CONSTANTS
  Frames = 1
  MaxRollouts = 2
  Depth = 1
  Conditions = {"emergency_stop"}
INVARIANT ReportedCompletionHappened
PROPERTY ClosedGateIsNoticed
CHECK_DEADLOCK FALSE
