\* Two threads with any two plans, two links that break or a server that stops.
SPECIFICATION Spec
CONSTANTS
  Threads = {t1, t2}
  Conns = {c1, c2}
  NULL = NULL
  Plans <- AllPlans
  MaxId = 3
  MaxTroubles = 2
INVARIANTS StaleLinksHeal IdleIsClean
PROPERTY TransactionHolds
SYMMETRY Interchangeable
