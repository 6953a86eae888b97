SPECIFICATION FairSpec
CONSTANTS
  DatasetSize = 4
  NoCheckpoint = NoCheckpoint
  Samples <- MCSamples
  Order <- MCOrder
  Groups <- MCGroups
  Threshold = 10
  Eps = 1
  FullContent = 10
  RejectUnparseable = TRUE
  MaxRetries = 0
  MaxEpochs = 2
  QueueSize = 2
  GroupSize = 2
  SaveSteps = 2
  SaveEveryEpoch = TRUE
  TimedSaves = TRUE
  MaxRestarts = 2
PROPERTY ImplementsLedger
