SPECIFICATION PortSpec
CONSTANTS
  NPorts = 2
  Console = 1
  Users = {1}
  KeySizes = {1, 2}
  ReadSizes = {1, 2}
  MaxBytes = 3
  MaxCommands = 2
  BASE = 4
  DataBytes = {0, 1, 2, 3}
  Channels = {0, 1}
  Passing = {1, 3}
  MaxTime = 9
  MaxData = 3
  SecondsPerMinute = 12
  MinutesPerHour = 2
  HoursPerHalf = 2
  MaxTicks = 3
INVARIANT BytesKept LineSettles
INVARIANT PeriodComplete  BelievedTimeShown
PROPERTY KeysRead
