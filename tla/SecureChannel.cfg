\* Four messages in all, as large as allowed or larger, buffers that hold one and a half
\* of the allowed ones, and one frame that takes too long.
SPECIFICATION Spec
CONSTANTS
  Sizes = {1, 2}
  FrameMax = 1
  Cap = 3
  MaxFrames = 4
  MaxSlow = 1
INVARIANT InOrder
INVARIANT WholeFrames
PROPERTY DeafAfterError
PROPERTY FramesArrive
CHECK_DEADLOCK FALSE
