\* Two processes, more than eight ids each.
SPECIFICATION GuidSpec
CONSTANTS
  Servers = {1}
  Indexes = {1, 2}
  ServerNumbers = 2
  IndexNumbers = 4
  Increments = 16
  Times = 4
  Ints = 32
  StartTime = 2
  MaxTime = 2
  MaxIds = 10
  MaxKept = 2
INVARIANT NoRepeatWithinSecond
CHECK_DEADLOCK FALSE
