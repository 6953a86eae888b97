SPECIFICATION FairSpec
CONSTANTS
  NoCheckpoint = NoCheckpoint
  dp_size = 2
  samples = 11
  MaxEpochs = 2
  Shuffle <- MCShuffle
  MicroBatches = 2
  MicroSize = 1
  SaveSteps = 3
  SaveEveryEpoch = TRUE
  TimedSaves = FALSE
  AllowSkip = FALSE
  MaxRestarts = 2
INVARIANTS
  LockStep
  StepAccount
  NoSampleTwice
PROPERTIES
  FailClosed
  AllEnd
