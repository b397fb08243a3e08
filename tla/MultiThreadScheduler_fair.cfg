SPECIFICATION FairSpec
CONSTANTS
  w1 = w1
  w2 = w2
  h = h
  s = s
  a = a
  b = b
  j = j
  k = k
  NoUnit = NoUnit
  Stopper = s
  Workers <- OneWorker
  Hosts <- OneHost
  Tasks <- TwoTasks
  Jobs <- OneJob
  MaxBlocking = 1
  Budget = 2
  Quantum = 1
  Linger = TRUE
  Menu <- HostForeignMenu
  Calls <- OneCallTwoHost
  Stops = TRUE
CHECK_DEADLOCK FALSE
INVARIANTS
  StoppedIsIdle
PROPERTIES
  StopCompletes
  QueuedWorkRuns
  BlockOnReturns
