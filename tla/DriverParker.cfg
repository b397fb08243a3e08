SPECIFICATION ParkerFairSpec
CONSTANTS
  u1 = u1
  u2 = u2
  u3 = u3
  Driver = Driver
  Free = Free
  Wakers <- ThreeWakers
INVARIANTS
  SleeperIsNotified
PROPERTIES
  ImplementsPermit
