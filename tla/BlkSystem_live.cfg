SPECIFICATION Spec
CONSTANTS
  Slots = {1, 2}
  Sectors = {0}
  ImageSectors = 1
  Vals = {0}
  Eof = Eof
  Kinds = {"ok", "fail", "bad"}
  MAX_BATCH = 1
  MaxCommands = 2
PROPERTY RequestsComplete
