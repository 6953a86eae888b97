SPECIFICATION FairSpec
CONSTANTS
  pp_size = 4
  num_chunks = 3
  max_inflight = 1
  Steps = 2
INVARIANTS
  PairedByOrder
  ActivationBound
  AgreeOnSteps
PROPERTIES
  AllStepsEnd
