CONSTANTS
  Threads <- BothThreads
  Kinds <- BothRequest
  MaxCalls = 2
  PeerIds = {1, 2}
  MaxPosts = 2
SPECIFICATION Spec
INVARIANTS TypeOK OnePlace ReturnedUnlessRaced
PROPERTY KeepsFates
CHECK_DEADLOCK FALSE
