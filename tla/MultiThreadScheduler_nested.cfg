SPECIFICATION Spec
CONSTANTS
  w1 = w1
  w2 = w2
  h = h
  s = s
  a = a
  b = b
  j = j
  k = k
  NoUnit = NoUnit
  Stopper = s
  Workers <- TwoWorkers
  Hosts <- OneHost
  Tasks <- OneTask
  Jobs <- TwoJobs
  MaxBlocking = 2
  Budget = 2
  Quantum = 1
  Linger = FALSE
  Menu <- NestedMenu
  Calls <- ThreeCallsOfJobs
  Stops = FALSE
CHECK_DEADLOCK FALSE
SYMMETRY WorkerSymmetry
INVARIANTS
  TypeOK
  SlotIsServed
  NoWaitOnSlottedChild
  NoLostWork
