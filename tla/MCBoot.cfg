SPECIFICATION BootSpec
CONSTANTS
  TableUnits = 5
  PerSector = 2
  Wrap = 8
  Counts = {0, 1, 3, 5}
  EntrySizes = {1, 2}
  FatPerSector = 3
  Geometries <- MCGeometries
  Clusters = {2, 3, 4}
  RootCluster = 2
  EOC = 0
  ClusterSize = 2
  PerCluster = 1
  FileSizes = {3}
  Depth = 2
  LOAD_OFFSET = 4
  Top = 12
  Len0 = 4
  Images <- MCImages
  Guids = {"LoadedImage", "BlockIo", "Other"}
  Ifaces = {"mine", "yours"}
  MAX_PROTOCOLS = 6
  MaxStubs = 1
  Timers = {"t", "u"}
  MaxKeys = 3
INVARIANT  BootFileExact 
PROPERTY BootEnds  KeysReported
