SPECIFICATION Spec
CONSTANTS
  t1 = t1
  t2 = t2
  w1 = w1
  w2 = w2
  NoWork = NoWork
  Threads <- TwoThreads
  Works <- TwoWorks
  Stoppers <- JustT1
  OutputDroppers <- Everybody
  Kinds <- EveryKind
  WorkerThreads = 2
  MaxGen = 2
INVARIANTS
  StoppedIsQuiescent
  OneLiveGeneration
  PollSeesAdmittedWork
  NoAdmissionFromDestructor
PROPERTIES
  ImplementsBarrier
