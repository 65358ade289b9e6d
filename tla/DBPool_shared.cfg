\* Four threads, two connections at most; two threads release what they got, as
\* workUsePool does, and two test it first, as testOneConnect does.
SPECIFICATION FairSpec
CONSTANTS
  Threads = {t1, t2, t3, t4}
  Conns = {c1, c2, c3}
  NULL = NULL
  MaxConn = 2
  NullReleasers = {t1, t2}
  Rounds = 2
INVARIANTS AllAccountedFor NoMissedWakeup
PROPERTIES LeaseSpec GetReturns
CHECK_DEADLOCK FALSE
