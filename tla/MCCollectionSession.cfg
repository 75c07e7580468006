SPECIFICATION Spec
CONSTANTS
  None = None
  Session = Session
  Manual = Manual
  Leftover = 0
  MaxAttempts = 2
  MaxFaults = 1
  EpisodeTarget = 2
  Finalizers <- MCFinalizers
  Captures <- MCCaptures
  InitialModes <- MCInitialModes
  PairedTarget <- MCPairedTarget
INVARIANTS
  TypeOK
  CatalogueIsFaithful
  NotedModeWasServed
  LabelsAreKept
  NothingSurvives
PROPERTIES
  EpisodesOnlyAppended
  RoundStartsReady
  ScriptNeverHangs
CHECK_DEADLOCK FALSE
