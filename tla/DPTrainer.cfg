SPECIFICATION FairSpec
CONSTANTS
  dp_size = 2
  samples = 4
  MaxEpochs = 2
  QueueSize = 2
  SaveSteps = 2
  SaveEveryEpoch = FALSE
  TimedSaves = FALSE
INVARIANTS
  CollectivesMatch
  NothingDropped
