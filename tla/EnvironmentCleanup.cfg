SPECIFICATION Spec
CONSTANTS
  e1 = e1
  e2 = e2
  p1 = p1
  p2 = p2
  Nobody = Nobody
  Envs <- TwoEnvs
  Targets <- BothTargets
  Promises <- TwoPromises
  TurnTasks <- FirstNeedsTurn
  MaxExplicit = 1
INVARIANTS
  QuietWithoutEnvironments
  NothingIsStranded
  CallsLiveFunction
PROPERTIES
  StartsAreOwed
  EndsComplete
CHECK_DEADLOCK FALSE
