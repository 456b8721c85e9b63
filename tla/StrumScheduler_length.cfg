SPECIFICATION Spec
CONSTANTS
  QSIZE = 12
  STRUM_GAP_MS = 1
  NOTE_LEN_MS = 5
  COOLDOWN = 3
  TH = 350
  WRAP = 20
  MaxStep = 1
  Botones <- TwoChords
  GZ = {0, 500}
  FREE = FREE
PROPERTY StandardLength
