CONSTANTS
  FramePix = {1, 2}
  StakingRequirement = 2
  LockBlocks = 4
  VOTE_LIFETIME = 3
  VOTE_OR_TX_VERIFY_HEIGHT_BUFFER = 1
  BLINK_QUORUM_INTERVAL = 2
  STATE_HISTORY = 8
  STORE_LONG_TERM_STATE_INTERVAL = 8
  FirstTxs <- MCFirstTxs
  Txs <- MCTxs
  MaxHeight = 16
  MaxTxs = 6
  MaxEpoch = 2
  PopTo = {1, 7}
  AnyPop = FALSE
SPECIFICATION Spec
INVARIANTS
  ListInStep
  StatesAreReplays
  RewardsRotate
PROPERTIES
  BlinkQuorumsReload
  ImplementsHistory
