SPECIFICATION Spec
CONSTANTS
  A = A
  B = B
  me = me
  other = other
  third = third
  Hash <- MCOneHash
  Voter <- MCThreeVoters
  Me <- me
  CHECKPOINT_INTERVAL = 2
  CHECKPOINT_STORE_PERSISTENTLY_INTERVAL = 6
  VOTE_LIFETIME = 6
  CHECKPOINT_QUORUM_SIZE = 3
  CHECKPOINT_MIN_VOTES = 1
  Target = {0}
  Attached = {}
  FirstHeight = 8
  LowestHeight = 10
  MaxHeight = 10
  ReceivedHeights = {6, 8}
  MaxThreads = 2
INVARIANTS
  HandledVotesStored
PROPERTIES
  VotesNeverShrink
