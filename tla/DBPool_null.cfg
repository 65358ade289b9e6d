\* Two threads that release whatever GetDBConn gave them.
SPECIFICATION Spec
CONSTANTS
  Threads = {t1, t2}
  Conns = {c1, c2}
  NULL = NULL
  MaxConn = 2
  NullReleasers = {t1, t2}
  Rounds = 2
PROPERTY NullOnlyOnFailure
CHECK_DEADLOCK FALSE
