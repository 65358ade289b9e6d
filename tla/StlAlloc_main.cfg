\* Sizes of three lists, chunks below, between and above each other; malloc may fail.
SPECIFICATION Spec
CONSTANTS
  ALIGN = 2
  NFREELISTS = 4
  NObjs = 3
  HeapShare = 4
  Requests = {1, 4, 7}
  Places = {10, 40, 100}
  MaxMallocs = 3
  MaxLive = 3
INVARIANTS NoOverlap NothingLost
CHECK_DEADLOCK FALSE
