SPECIFICATION Spec
CONSTANTS
  Masks <- ThreeMasks
  Noise <- NoiseBytes
  MaxSent = 3
  MaxFaults = 1
  MaxBurst = 3
  MaxReboots = 0
  NULL = NULL
INVARIANTS TypeOK KeysAreLastChord EveryChordSounds
PROPERTY IsPacketChannel
CHECK_DEADLOCK FALSE
