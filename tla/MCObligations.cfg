SPECIFICATION Spec
CONSTANTS
  FramePix = {1, 2}
  StakingRequirement = 1
  LockBlocks = 40
  VOTE_LIFETIME = 4
  BLINK_QUORUM_INTERVAL = 5
  REORG_SAFETY_BUFFER_BLOCKS = 1
  STATE_CHANGE_MIN_VOTES_TO_CHANGE_STATE = 1
  UINT64_RANGE = 64
  Shuffle <- MCShuffle
  Me = me
  v1 = v1
  Voter = {v1}
  FirstChain <- MCFirstChain
  QuorumHeights = {4, 6}
  Votes <- MCVotes
  Targets = {0, 11}
  LowestHeight = 6
  MaxHeight = 8
  MaxCuts = 1
  MaxThreads = 1
INVARIANTS
  TypeOK
  VotesKeepTheirNode
  ObligationsBehindChain
  EnoughVotesQueued
  
