CONSTANTS
  w = w
  two = two
  Joints = {w, two}
  Joint2 = two
  Wrap = {w}
  Turn = 12
  GammaNum = 1
  GammaDen = 2
  MaxSamples = 4
  SuccessWeight = 7
  ProgressWeight = 3
  Horizon = 2
  MaxGap = 1
  NaN = NaN
  NoValue = NoValue
  Live = Live
  Losses = {0, 1, 2}
  MaxEpochs = 3
  EnsembleSize = 2
  MaxSteps = 3
  BranchSteps = {0, 1}
  PrefixSteps = 2
  TailMaxSteps = 2
  ChunkSteps = 3
  StepBonus <- MCStepBonus
  Poses <- MCPoses
  HomePose = 0
  Departure = 3
  Return = 1
  StableTimes = {0, 1}
  MinEpisode = 2
  MaxSpeed = 1
  MaxTime = 3
  MaxUpdates = 4
SPECIFICATION MCSpec
INVARIANTS
  CompletedExactlyAtCycleEnd
  GuardDecidesOnTheCircle
  TargetsAgree
  SamplesMatchRows
  SplitsKeepEpisodesApart
  SelectedWeightsMatch
  BranchesStartAlike
  RankingPairsAreSound
CHECK_DEADLOCK FALSE
