CONSTANTS
  put_image = put_image
  login = login
  reply = reply
  resume = resume
  Frames <- MCFrames
  Units <- LargeUnits
  Resume = resume
SPECIFICATION FairSpec
INVARIANTS TypeOK NothingBuffered HandlerOnce SuccessMeansWritten FramesStartInOrder
PROPERTY EveryHandlerCalled
CHECK_DEADLOCK FALSE
