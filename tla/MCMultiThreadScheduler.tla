----------------------- MODULE MCMultiThreadScheduler -----------------------
(* MultiThreadScheduler with named threads and units, and what user code    *)
(* calls in each run.  Only safety runs may use the symmetry.               *)
EXTENDS MultiThreadScheduler, TLC

CONSTANTS w1, w2, h, s, a, b, j, k
OneWorker == {w1}
TwoWorkers == {w1, w2}
OneHost == {h}
OneTask == {a}
TwoTasks == {a, b}
OneJob == {j}
TwoJobs == {j, k}
WorkerSymmetry == Permutations(TwoWorkers)

Limits(task, job, host) == [task |-> task, job |-> job, host |-> host, stop |-> 1]
Async == {"spawn", "wake", "spawn_blocking", "block_on"}

\* Nested frames: a closure drives a task it spawned and returns from block_on
\* into a wait, be it for a task of its own, of another closure or of the host's,
\* or for a closure.
NestedMenu ==
  [task |-> {"wake", "block_on", "spawn_blocking"},
   job |-> {"spawn", "block_on", "wait"},
   host |-> {"spawn", "spawn_blocking"}]
ThreeCallsOfJobs == Limits(1, 3, 2)

\* No closure waits without driving, so that user code returns, but the host's
\* block_on may be out of a foreign future, which only a stop ends.  At most one
\* of the host's calls is made before the stop.
HostForeignMenu ==
  [kind \in {"task", "job", "host"} |->
     Async \cup IF kind = "host" THEN {"block_on_foreign"} ELSE {}]
OneCallTwoHost == Limits(1, 0, 2)
=============================================================================
