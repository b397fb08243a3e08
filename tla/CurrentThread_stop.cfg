SPECIFICATION FairSpec
CONSTANTS
  t1 = t1
  t2 = t2
  h1 = h1
  h2 = h2
  p1 = p1
  p2 = p2
  Tasks = {t1, t2}
  Threads = {p1}
  Drivers = {p1}
  Hosts = {h1}
  Leavers = {}
  Stopper = stopper
  Stops = TRUE
  AwaitedBy <- MCFirstAwaitsSecond
  Dispatches <- MCDispatches
  Epochs = 2
  TurnBudget = 1
  Attempts = 1
  EarlyHosts = {h1}
  EarlyTasks = {t1}
  MaxWakes = 1
INVARIANTS NoLostRunnable StoppedIsIdle
PROPERTIES StopCompletes
CHECK_DEADLOCK FALSE
