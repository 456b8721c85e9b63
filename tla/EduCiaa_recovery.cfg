SPECIFICATION FairSpec
CONSTANTS
  Masks <- MasksWithNada
  Noise <- HeaderNoise
  MaxSent = 3
  MaxFaults = 1
  MaxBurst = 9
  MaxReboots = 1
  NULL = NULL
INVARIANTS CleanAccepted KeysAreLastChord
PROPERTY CleanEventuallyAccepted
CHECK_DEADLOCK FALSE
