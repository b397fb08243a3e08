SPECIFICATION Spec
CONSTANTS
  t1 = t1
  t2 = t2
  h1 = h1
  h2 = h2
  p1 = p1
  p2 = p2
  Tasks = {t1}
  Threads = {p1}
  Drivers = {}
  Hosts = {h1, h2}
  Leavers = {h1, h2}
  Stopper = stopper
  Stops = FALSE
  AwaitedBy <- MCNobody
  Dispatches <- MCDispatches
  Epochs = 2
  TurnBudget = 1
  Attempts = 1
  EarlyHosts = {h1}
  EarlyTasks = {t1}
  MaxWakes = 1
INVARIANTS ClaimsAreHeld NoDropOnWakerStack DispatchesAreCounted
CHECK_DEADLOCK FALSE
