SPECIFICATION GpuSpec
CONSTANTS
  p1 = p1
  p2 = p2
  s1 = s1
  s2 = s2
  Ids = {0, 1, 2}
  Scanouts = {s1, s2}
  Pages = {p1, p2}
  MAX_RESOURCES = 2
  None = None
  Width = 2
  Height = 2
  WinWidth = 2
  WinHeight = 2
  Backings <- MCBackings
  ScanoutRects <- MCScanoutRects
  Offsets = {0, 1, 12}
  USIZE_MAX = 12
  MaxTransfers = 2
SYMMETRY GpuSymmetry
VIEW GpuView
INVARIANT TablesSound
PROPERTY TransferExact 
