SPECIFICATION FairSpec
CONSTANTS
  DatasetSize = 3
  NoCheckpoint = NoCheckpoint
  Samples <- MCSamples
  Order <- MCOrder
  Groups <- MCGroups
  Threshold = 10
  Eps = 1
  FullContent = 10
  RejectUnparseable = TRUE
  MaxRetries = 1
  MaxEpochs = 2
  QueueSize = 2
  GroupSize = 2
  SaveSteps = 2
  SaveEveryEpoch = FALSE
  TimedSaves = TRUE
  MaxRestarts = 1
INVARIANTS
  NoTrainerError
  ExperienceConservation
  StepCadence
  EpochAccount
PROPERTIES
  Termination
