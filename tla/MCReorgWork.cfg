SPECIFICATION Spec
CONSTANTS
  g = g  c1 = c1  a2 = a2  a3 = a3  a4 = a4  a5 = a5  a6 = a6  b2 = b2  b3 = b3  b4 = b4  b5 = b5
  d4 = d4  d5 = d5  e3 = e3  e4 = e4  e5 = e5  f3 = f3  v1 = v1  v2 = v2
  CHECKPOINT_INTERVAL = 2
  CHECKPOINT_STORE_PERSISTENTLY_INTERVAL = 2
  CHECKPOINT_QUORUM_SIZE = 2
  CHECKPOINT_MIN_VOTES = 1
  Parent <- AllParents
  Height <- AllHeights
  Difficulty <- AllDifficulties
  FirstChain <- StartChain
  Block = {g, c1, a2, a3, a4, a5, b2, b3, b4, b5, d4, d5, e3, e4, e5}
  BadInputs = {b4, d5}
  HookFails = {}
  Voter = {}
  VotedHeights = {}
  Attached = {}
  Hardcoded <- NoCheckpoints
  MaxPops = 0
  BlinkHeights = {}
  MaxRestarts = 1
CHECK_DEADLOCK FALSE
INVARIANT MainIsHeaviest
PROPERTY NeverLosesWork
