SPECIFICATION ServicesSpec
CONSTANTS
  FLOOR = 1
  HEAP_START_PAGE = 2
  HEAP_END_PAGE = 3
  APIC_RESERVED_START = 5
  APIC_RESERVED_END = 6
  RamEnds = {8}
  Lengths = {1, 2}
  MaxAllocs = 3
INVARIANT PagesUsable
