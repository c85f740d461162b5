SPECIFICATION MemorySpec
CONSTANTS
  HEAP_START = 0
  HEAP_END = 124
  Sizes = {1, 9, 24}
  WORD = 16
  RamTop = 11
  IOAPIC_START = 4
  IOAPIC_END = 5
  LAPIC_START = 7
  LAPIC_END = 8
  MaxRegions = 2
  MaxLen = 3
  FLOOR = 1
  HEAP_START_PAGE = 2
  HEAP_END_PAGE = 3
  APIC_RESERVED_START = 5
  APIC_RESERVED_END = 6
  RamEnds = {8}
  Lengths = {1, 2}
  MaxAllocs = 3
  VcpuCounts <- MCVcpus
  MemSizes = {1100000, 33554432}
  Stage2Lens = {33264}
  FirmwareLens = {300000}
  DsdtLens = {2000, 129024}
INVARIANT TablesReadable BlocksApart SlotsExact AccessInside 
PROPERTY ExitKeepsMapCurrent
