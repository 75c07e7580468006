SPECIFICATION FairSpec
CONSTANTS
  Chunk = 2
  MaxStep = 3
  MaxScene = 1
  SlowInference = TRUE
INVARIANTS
  TypeOK
  NoActionOfOldScene
PROPERTIES
  NoStepSkipped
  PreloadIsReported
  QueueIsRefilled
