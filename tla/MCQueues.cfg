SPECIFICATION QueuesSpec
CONSTANTS
  Size = 4
  IdxMod = 8
  Lens = {0, 1}
  Queues = 2
  Drivers = 3
  RingMod = 4
  RingSize = 2
  Inputs = {3, 7}
  Junk = 0
  PollMod = 4
  MaxPulses = 2
  MaxQueued = 2
INVARIANT DeviceReadsDriver AnswersExact 
PROPERTY ImplementsBufferQueue CallsReturn
