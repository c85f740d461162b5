SPECIFICATION Spec
CONSTANTS
  N = 2
  irq_sel <- MCirq_sel
  queue_num <- MCqueue_num
  LegacyLines = {0}
  Lines = {0, 6}
  StatusVals = {0, 15}
  AckVals = {0, 1}
  MaxCommands = 2
INVARIANT LineFollowsStatus
PROPERTY LineAnswers
