SPECIFICATION FairSpec
CONSTANTS
  c1 = c1
  c2 = c2
  Cancels <- TwoCancels
  MaxChunks = 2
CHECK_DEADLOCK FALSE
INVARIANTS
  NoChunkLost
  ParkedIsOwed
PROPERTIES
  CancelResolves
