SPECIFICATION Spec
CONSTANTS
  None = None
  b = b
  a1 = a1
  a2 = a2
  click = click
  type = type
  left = left
  right = right
  Samples = {1, 2}
  Ground <- MCGround
  Answer <- MCAnswer
  Tiers <- MCTiers
  Configs <- MCConfigs
  MaxAttempts = 2
  MaxRetries = 2
  Workers = 2
  Threshold = 1
  MaxRuns = 2
  MaxExports = 2
  MaxFaults = 1
INVARIANTS
  NamedModel
  HonestAccuracy
  DeltaMeansProgress
PROPERTIES
  EvaluationEnds
CHECK_DEADLOCK FALSE
