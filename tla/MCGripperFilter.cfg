SPECIFICATION FairSpec
CONSTANTS
  Frames = 3
  Dwell = 2
  Hold = 3
  MaxResets = 1
PROPERTIES
  ConfirmedByConsecutiveFrames
  CommandsAreDwellApart
  OpenedOnlyAfterHold
  ClosingIsNeverStarved
  OpeningIsOnlyDelayed
