SPECIFICATION FairSpec
CONSTANTS
  Frames <- AllFrames
  Chunks <- HalfWords
  MaxFrames = 3
INVARIANTS ForwardedInOrder QuietExact ApartForwarded
PROPERTY FrameForwarded
CHECK_DEADLOCK FALSE
