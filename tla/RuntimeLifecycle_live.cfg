SPECIFICATION FairSpec
CONSTANTS
  t1 = t1
  t2 = t2
  w1 = w1
  w2 = w2
  NoWork = NoWork
  Threads <- TwoThreads
  Works <- OneWork
  Stoppers <- T1T2W
  OutputDroppers <- Nobody
  Kinds <- EveryKind
  WorkerThreads = 2
  MaxGen = 2
INVARIANTS
  NoSelfWait
PROPERTIES
  RunningEndsByPhaseOne
  FinishReturns
