SPECIFICATION FairSpec
CONSTANTS
  c1 = c1
  c2 = c2
  t1 = t1
  t2 = t2
  t3 = t3
  Calls <- TwoCalls
  Tasks <- ThreeTasks
  Returns <- TasksOf
  Borrow <- Borrows
  Signals <- SignalsOf
  PoolSize = 2
  MaxDepth = 2
CHECK_DEADLOCK FALSE
INVARIANTS
  NoAliasing
  WrapperStaysRooted
  NoneOutstandingMeansSettled
  FreedHandlesAreMarked
PROPERTIES
  WorkEnds
  BorrowEnds
