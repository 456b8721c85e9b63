SPECIFICATION FairSpec
CONSTANTS
  WRAP = 9
  TIEMPO_ESPERA = 5
  DEBOUNCE_MS = 2
  LED_VERDE_TIEMPO = 1
  MinStep = 1
  MaxStep = 2
  MaxLag = 1
  BootTime = 2
  Masks <- OneChord
  NoPacket = NoPacket
INVARIANTS TypeOK SendsSpaced LedOffOnTime
PROPERTIES StrumHeard DebounceExact PlayingKeepsSending
CHECK_DEADLOCK FALSE
