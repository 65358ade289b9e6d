\* Two timers that expire at the same time, one deleted.
SPECIFICATION Spec
CONSTANTS
  Nodes = {n1, n2}
  Header = Header
  NULL = NULL
  MaxLevel = 2
  Words = 64
  Thousand = 2
  StartSec = 26
  Delays = {1, 3}
  HandlerDelays = {1}
  CancelsTwins = TRUE
  DirtyHeap = FALSE
  MaxSec = 2
  MaxAdds = 3
SYMMETRY Symmetry
INVARIANTS ArmedIsListed
CHECK_DEADLOCK FALSE
