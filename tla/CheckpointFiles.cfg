SPECIFICATION FairSpec
CONSTANTS
  None = None
  Partial = Partial
  world_size = 2
  Trainers = {"rl", "sft"}
  OutputDirs = {"out_a", "out_b"}
  Overwrites = {TRUE, FALSE}
  FinalFormats = TRUE
  MaxSteps = 2
  MaxLaunches = 2
INVARIANTS
  OneSavePerDirectory
  ResumedAlike
PROPERTIES
  ExportWhole
  NothingLostUnasked
  EveryJobEnds
CHECK_DEADLOCK FALSE
