SPECIFICATION FairSpec
CONSTANTS
  TIMEOUT = 2
  PERIOD = 4
  WRAP = 5
  MaxLag = 1
  MaxAir = 1
INVARIANTS TypeOK TripsExact FlagExact WaitExact
PROPERTY AsksAgain
CHECK_DEADLOCK FALSE
