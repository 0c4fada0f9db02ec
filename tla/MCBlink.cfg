SPECIFICATION Spec
CONSTANTS
  n1 = n1
  n2 = n2
  n3 = n3
  n4 = n4
  x = x
  y = y
  Nodes = {n1, n2, n3}
  Blinks = {x, y}
  Validators <- MCValidators
  Conflicts <- MCConflicts
  Starts <- MCAll
  Agrees <- MCAgrees
  Doubts <- MCDoubts
  Remotes <- MCRemotes
  Submitter = Submitter
  Matrix <- MCMatrix
  BLINK_SUBQUORUM_SIZE = 3
  BLINK_MIN_VOTES = 2
  MAX_ACTIVE_PROMISES = 1
  MaxThreads <- MCThreads
  Faulty = {n2}
  MaxFaults = 1
INVARIANTS
  TypeOK
  NoConflictingBlinks
  OneVerdict
  AcceptedIsSigned
  SignaturesSpread
CHECK_DEADLOCK FALSE
