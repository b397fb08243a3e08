CONSTANTS
  d1 = d1
  t1 = t1
  t2 = t2
  Drivers = {d1}
  Threads = {t1, t2}
  Menu <- AllOps
  Armed = 0
  MaxOps = 2
SPECIFICATION FairSpec
CHECK_DEADLOCK FALSE
PROPERTIES DeadlockIsReported
INVARIANTS
  VerdictIsSound
