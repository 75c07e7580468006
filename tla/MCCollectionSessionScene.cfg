SPECIFICATION Spec
CONSTANTS
  None = None
  Session = Session
  Manual = Manual
  Leftover = 0
  MaxAttempts = 2
  MaxFaults = 0
  EpisodeTarget = 2
  Finalizers <- MCFinalizers
  Captures <- MCCaptures
  InitialModes <- MCInitialModes
  PairedTarget <- MCPairedTarget
PROPERTIES
  RoundStartsWithOwnScene
CHECK_DEADLOCK FALSE
