SPECIFICATION Spec
CONSTANTS
  A = A
  B = B
  me = me
  other = other
  third = third
  Hash <- MCHash
  Voter <- MCVoter
  Me <- me
  CHECKPOINT_INTERVAL = 2
  CHECKPOINT_STORE_PERSISTENTLY_INTERVAL = 8
  VOTE_LIFETIME = 6
  CHECKPOINT_QUORUM_SIZE = 2
  CHECKPOINT_MIN_VOTES = 1
  Target = {0, 13}
  Attached <- MCAttached
  FirstHeight = 6
  LowestHeight = 5
  MaxHeight = 10
  ReceivedHeights = {}
  MaxThreads = 0
INVARIANTS
  TypeOK
  NoDoubleSign
  VotingNeverStalls
PROPERTIES
  ImmutableNeverDrops
