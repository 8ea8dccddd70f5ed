\* The threads of both ends wait for each other.
SPECIFICATION FairSpec
CONSTANTS
  Sizes = {1}
  FrameMax = 1
  Cap = 3
  MaxFrames = 4
  MaxSlow = 0
PROPERTY SendReturns
CHECK_DEADLOCK FALSE
