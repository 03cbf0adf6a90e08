CONSTANTS
  Threads <- BothThreads
  Kinds <- TwoCallers
  MaxCalls = 3
  PeerIds = {}
  MaxPosts = 0
SPECIFICATION Spec
INVARIANTS ResponseReturned
CHECK_DEADLOCK FALSE
