SPECIFICATION NetFairSpec
CONSTANTS
  Slots = {0, 1}
  Lens = {1, 1512, 1513}
  MaxFrames = 3
  MaxSends = 1
  MaxDrivers = 2
  DEV_HDR = 12
  DRV_HDR = 10
  MAX_FRAME = 1514
 
PROPERTY FramesArrive SendsReturn
