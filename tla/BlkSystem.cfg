SPECIFICATION Spec
CONSTANTS
  s1 = s1
  s2 = s2
  Slots = {s1, s2}
  Sectors = {0, 1}
  ImageSectors = 1
  Vals = {0, 1}
  Eof = Eof
  Kinds = {"ok", "bad"}
  MAX_BATCH = 2
  MaxCommands = 2
SYMMETRY SlotSymmetry
INVARIANT  WorkAnnounced
