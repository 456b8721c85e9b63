SPECIFICATION Spec
CONSTANTS
  DEBOUNCE_MS = 1
  MaxAir = 2
  MaxLine = 1
  MaxStrums = 2
  NOTHING = NOTHING
INVARIANTS TypeOK HeardOnce AboveMeansLost StrumsAccounted
