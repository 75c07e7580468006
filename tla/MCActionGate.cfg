SPECIFICATION FairSpec
CONSTANTS
  Frames = 2
  MaxRollouts = 2
INVARIANTS
  TypeOK
  GateNeedsArmMotion
  CompletionKeepsGateClosed
  AtMostOneLateCommand
  MissingStopIsUnderWay
  OwnTargetReplacesOld
  FilterKnowsLastCommand
PROPERTIES
  ClosingIsAnswered
  ImplementsGatedPublisher
CHECK_DEADLOCK FALSE
