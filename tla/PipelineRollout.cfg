SPECIFICATION Spec
CONSTANTS
  pp_size = 2
  tp_size = 2
  Rows = {row1, row2}
  Chunks = 2
  Tokens = {word, stop}
  stop_token_ids = {stop}
  pad_token_id = pad
  zero_token = word
  max_new_tokens = 3
  pp_rollout_p2p_timeout = TRUE
  MaxFaults = 1
  NoTokens = NoTokens
INVARIANTS
  SameSequences
  HiddenForTokens
PROPERTIES
  RolloutEnds
CHECK_DEADLOCK FALSE
