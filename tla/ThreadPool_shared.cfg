\* Three clients on a short queue, two of which destroy the pool under the others;
\* one of the workers may be missing.
SPECIFICATION FairSpec
CONSTANTS
  Workers = {w1, w2}
  MayNotStart = {w1}
  Clients = {c1, c2, c3}
  Destroyers = {c2, c3}
  Jobs = {j1, j2, j3}
  QueueMaxNum = 2
  Orderly = FALSE
  SpuriousWakeups = TRUE
  NoJob = NoJob
INVARIANTS QueueAccounting ExactlyOnce NoMissedWakeup DrainedBeforeRelease
PROPERTIES ServiceSpec AcceptedJobsRun AddReturns DestroyReturns
CHECK_DEADLOCK FALSE
