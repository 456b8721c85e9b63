SPECIFICATION FairSpec
CONSTANTS
  Masks <- ThreeMasks
  Noise = {}
  MaxSent = 2
  MaxFaults = 0
  MaxBurst = 0
  MaxReboots = 0
  NULL = NULL
PROPERTY NoteOffComes
CHECK_DEADLOCK FALSE
