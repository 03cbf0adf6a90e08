CONSTANTS
  put_image = put_image
  login = login
  reply = reply
  resume = resume
  Frames <- MCFrames
  Units <- LargeUnits
  Resume = resume
SPECIFICATION Spec
INVARIANT FramesContiguous
CHECK_DEADLOCK FALSE
