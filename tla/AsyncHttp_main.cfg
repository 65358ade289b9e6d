\* Three requests, two descriptors; connect, malloc and epoll_ctl may fail.
SPECIFICATION FairSpec
CONSTANTS
  Requests = {r1, r2, r3}
  NULL = NULL
  Fds = {4, 5}
  Args = {a1, a2}
INVARIANTS EventsAreValid NothingLeftBehind CalledOnce
PROPERTIES AnsweredAreCalled
CHECK_DEADLOCK FALSE
