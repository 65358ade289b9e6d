\* Three timers on three levels; none is deleted beside another of the same time.
SPECIFICATION FairSpec
CONSTANTS
  Nodes = {n1, n2, n3}
  Header = Header
  NULL = NULL
  MaxLevel = 3
  Words = 64
  Thousand = 2
  StartSec = 27
  Delays = {0, 3}
  HandlerDelays = {0, 1}
  CancelsTwins = FALSE
  DirtyHeap = TRUE
  MaxSec = 1
  MaxAdds = 3
INVARIANTS LevelsAreSublists ArmedIsListed
PROPERTIES PassLeavesNothingDue TimerServiceSpec DueTimersFire
CHECK_DEADLOCK FALSE
