SPECIFICATION FairSpec
CONSTANTS
  g = g  a1 = a1  a2 = a2  x2 = x2  c1 = c1  c2 = c2
  Conns = {c1, c2}
  Chain <- MCFork
  Invalid = {x2}
  Slow = {c2}
  Income = {c1}
  BLOCKS_IDS_SYNCHRONIZING_DEFAULT_COUNT = 10
  block_sync_size = 1
  BLOCK_QUEUE_NSPANS_THRESHOLD = 1
  BLOCK_QUEUE_SIZE_THRESHOLD = 1
  BLOCK_QUEUE_FORCE_DOWNLOAD_NEAR_BLOCKS = 1
  MaxCallbacks = 1
  MaxUnanswered = 2
CHECK_DEADLOCK FALSE
INVARIANTS HashesHaveSpans 
 
