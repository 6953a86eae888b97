SPECIFICATION Spec
CONSTANTS
  Areas <- MCAreas
  None = None
  NonFinite = NonFinite
  Infinity = Infinity
  Missing = Missing
  Nil = Nil
  Absent = Absent
  Refused = Refused
  Failed = Failed
  Nobody = Nobody
  Unplaced = Unplaced
  HistoryLimit = 1
  Threshold = 10
  Eps = 1
  FullContent = 1
  RejectUnparseable = TRUE
  MaxRetries = 1
  RankStride = 3
  Losses <- MCLosses
  PoolLosses <- MCPoolLosses
  Objects <- MCObjects
  Calls <- MCCalls
  Pieces <- MCPieces
  JsonPieces <- MCJsonPieces
  Typos <- MCTypos
INVARIANTS
  A4Sound
  RewardSound
  AnnotationSound
  RowsSound
  SwiftSound
  PlacementSound
CHECK_DEADLOCK FALSE
