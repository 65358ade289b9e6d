\* Three workers, two connections, and a queue shorter than the list of tasks.
\* Deadlock is checked.
SPECIFICATION AppFairSpec
CONSTANTS
  Workers = {w1, w2, w3}
  MayNotStart = {}
  Clients = {main}
  Destroyers = {main}
  main = main
  Jobs = {1, 2, 3}
  QueueMaxNum = 2
  Orderly = TRUE
  SpuriousWakeups = TRUE
  NoJob = NoJob
  Conns = {c1, c2}
  NULL = NULL
  MaxConn = 2
INVARIANTS TasksServed MutexOutlivesUsers
PROPERTIES UsesConnPool ProgramEnds
