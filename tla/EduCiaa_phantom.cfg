SPECIFICATION Spec
CONSTANTS
  Masks <- ThreeMasks
  Noise = {}
  MaxSent = 2
  MaxFaults = 1
  MaxBurst = 4
  MaxReboots = 0
  NULL = NULL
INVARIANT OnlySentAccepted
CHECK_DEADLOCK FALSE
