\* Three clients, two descriptors that are used again; fcntl and epoll_ctl may fail.
SPECIFICATION FairSpec
CONSTANTS
  Clients = {c1, c2, c3}
  NULL = NULL
  Listen = 3
  Fds = {4, 5}
  MaxOpened = 5
INVARIANTS NoStaleEvent OnlyFailuresLeak
PROPERTIES ClosesOnlyFinished FinishedAreClosed QueuedAreAccepted
CHECK_DEADLOCK FALSE
