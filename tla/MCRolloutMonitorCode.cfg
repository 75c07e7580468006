SPECIFICATION MonitorSpec
CONSTANTS
  Frames = 1
  MaxRollouts = 1
  Depth = 1
  Conditions = {"emergency_stop","enable_lost"}
INVARIANT GateClosedWithoutCompletion
CHECK_DEADLOCK FALSE
