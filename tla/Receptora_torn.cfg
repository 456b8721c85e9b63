SPECIFICATION Spec
CONSTANTS
  Frames <- ValidFrames
  Chunks <- Words
  MaxFrames = 2
INVARIANT ForwardedWasReceived
CHECK_DEADLOCK FALSE
