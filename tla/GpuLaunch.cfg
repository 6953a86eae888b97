SPECIFICATION Spec
CONSTANTS
  None = None
  Machines <- MCMachines
  Launches = {l1, l2}
  Recipes <- MCRecipes
INVARIANTS
  OwnCardsOnly
  NeverOntoSeenWork
  ClearedBehindTheGuard
SYMMETRY Symmetry
CHECK_DEADLOCK FALSE
