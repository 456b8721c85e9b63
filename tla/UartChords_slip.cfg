SPECIFICATION FairSpec
CONSTANTS
  Patch <- TwoWords
  SDIFIFO = 2
  FLOATS = 2
  FloatBit <- Floats
  RXFIFO = 3
  Botones <- Buttons
  MaxFrames = 2
  MaxReboots = 1
INVARIANTS TypeOK LoadedWhenStarted KeysAreLastChord
PROPERTIES MissedBytesDecide BackToUart
CHECK_DEADLOCK FALSE
