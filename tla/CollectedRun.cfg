SPECIFICATION Spec
CONSTANTS
  None = None
  NonFinite = NonFinite
  Missing = Missing
  Plans <- MCPlans
  ranks = 2
  Steps = 2
  MaxOdd = 1
  MaxRestarts = 1
INVARIANTS
  PassMeansTrained
  OOMBoundary
CHECK_DEADLOCK FALSE
