# napi-rs: specifications, model checking and proofs

This directory models the concurrent core of napi-rs in TLA+: the process-wide
asynchronous runtime of `crates/async-runtime`, and of `crates/napi` the asynchronous
tasks, the stream reader, and the life of an environment with the registry of its
backend and the promises it leaves. Every definition is translated from the Rust source; `map` in
`PROJECT.json` names the lines. TLC checks small instances of every module, TLAPS
proves every invariant the runs check for every instance.

`async_runtime.rs` below is `src/crates/async-runtime/src/async_runtime.rs`, whose
production code is lines 1-12570; line numbers without a file refer to it.

## 1. Inventory

### 1.1 The asynchronous runtime (`crates/async-runtime`)

| component | state | operations | properties that make it correct |
|---|---|---|---|
| Runtime lifecycle controller (10485-12570) | `RuntimeState` under one mutex: options, lifecycle, count of rejected submissions being destroyed, the drain handoff; the lock-free mirrors `current_backend` and `pool_workers`; per generation a `GenerationWork` and a `GenerationStop` | `configure`, `spawn*`, `block_on`, `start`, `begin_shutdown`, `finish_shutdown`, `shutdown`, `runtime_work_pending` | a published stop is quiescent; generations do not overlap; nobody waits for itself; each wait ends; the poll is truthful |
| Multi-thread scheduler (5560-7097, 7619-7850) | shared FIFO, LIFO slot per pool thread, queue of blocking closures and its lanes, count of drainers, registry of parked drivers, `GenerationStop` | `schedule`, `schedule_blocking_result`, `drain`, cooperative and parking `block_on`, exit compensation, stop | no wake lost; slots are served; no starvation; a stop reaches everybody |
| Driver parker (7159-7397) | an atomic permit word, a mutex and a condvar | `unpark`, `park`, `park_timeout`, `consume_permit` | the permit is never lost, invented, or reported as a timeout |
| Deadlock verdict (2263-2500, 6728-6861, 6964-7071) | progress counters with a reset seqlock, the admission gate, publication guards | bounded park, `begin_admission`, `try_begin_verdict` | no verdict while work is on its way in; a real deadlock gets one |
| Owner lanes (5158-5560) and blocking dependencies (1047-2095) | the active owners, reservations, the graph of closures that wait | reserve, lend, return; register and retire an edge | a closure that waits lends its lane; lanes are returned exactly once |
| CurrentThread executor (3019-5150) | queue with `closed` and rejected runnables, `dispatch_pending`, `draining` | `schedule_runnable`, `request_drain_with`, `publish_host_dispatch`, `try_admit_host_turn`, `drain_one`, `block_on` | a queued runnable always has a drainer or a dispatch; the stop retires rejected wakes |
| Host drivers (7886-9330) and their JavaScript hosts (`adapter.rs`, `async-runtime/*.cjs`) | registries of task and timer drivers, health and liveness of each host | register, dispatch, redispatch, evict, environment cleanup | an accepted dispatch of a dead host is offered again; a timer is fired or failed once |
| Timers (9333-10485) | timer heap, timekeeper election, `Sleep` registrations | register, cancel, fire, re-poll | the earliest deadline always has a keeper |
| Bounded waits (`sync.rs`) | the crash flag of a wasm thread | sliced `wait`, `wait_timeout` | a wait on a crashed thread does not hang |
| Metrics | counters and gauges | increment, snapshot, reset | the fingerprint is consistent across a reset |

Interaction: a submission goes through the controller (admission, registration with
the generation) to the executor of the current backend; its wakes go straight to the
executor; its end retires the registration, which phase 2 of a shutdown waits for.
The scheduler's threads sleep on driver parkers. `finish_shutdown` waits for
user code, so it must not be called by user code it waits for; on a JavaScript
thread it must not be called while `runtime_work_pending` is true.

### 1.2 The binding runtime (`crates/napi`)

| component | state | operations | properties |
|---|---|---|---|
| Async tasks (`async_work.rs`, `js_values/task.rs`) | `AsyncWork` box, shared status cell, `AbortSignalStack`, registry of outstanding works | `run`, `execute`, `complete`, `AsyncWorkPromise::cancel`, `on_abort`, the cancel sweep | every queued work settles and is freed; no freed handle reaches the host; zero outstanding means settled |
| Native borrows (`native_borrow.rs`) | alias state per native value, scope with guards, roots, leases | register, defer, claim, release, close | no aliasing; the borrowed wrapper stays rooted; the borrow ends |
| Async runtime registry (`tokio_runtime.rs`) | phase, selection, start claims, wasm cancel mailbox | register, dispatch, activate, deactivate in one or two phases | a revoked claim never starts a backend; the last environment quiesces it |
| Registration and cleanup (`module_register.rs`) | two-phase wasm cleanup: begun flag, barrier, mailbox | begin, pending, finish, unwind | no environment inherits an abandoned cleanup |
| Threadsafe functions, deferreds (`threadsafe_function.rs`, `js_values/deferred.rs`) | aborted flag, reference count, pending slot, count of pending settles | call, refer, release, abort, finalize; settle, teardown | each promise settles at most once; no call into a finalized function |
| Streams (`js_values/stream/`) | queued cancels, reader lock | read, cancel, close, finalize | each cancel future resolves |
| References, buffers, custom GC | reference counts released from foreign threads | unref through the custom-GC function | freed once, on the owner thread |
| Conversions, errors, class identity, `sys` | none between calls | | |

### 1.3 Everything else

Macros and code generation (`crates/macro`, `crates/backend`, `crates/build`) and the
command line (`cli`) translate text at build time. `wasm-runtime` is file-system and worker glue.
Examples, benches, `triples` and `memory-testing` use or describe the library. None
of it keeps state that several actors share at run time.

### 1.4 Where it is hard

* Submissions read the backend lock-free, then register: the generation can end in between.
* User code runs inside almost everything (polls, closures, destructors of
  rejected payloads and of unread outputs, resolve, finally, finalizers) and calls back.
* Shutdown has two phases, possibly on different threads, so that a JavaScript thread never blocks
  while work needs one of its turns; a restart can come in between.
* A wake is delivered by a push, a count and an unpark that race a register, a recheck and a park.
* A thread that drives a nested `block_on` takes work it is not waiting for.
* The LIFO slot of a thread is invisible to the others.
* A task outlives the callback whose arguments it borrowed, and its environment may close first.

`hazards` in `PROJECT.json` lists each with its line and the properties that cover it.

## 2. Plan

1. **RuntimeLifecycle**, with **GenerationBarrier** as its abstract specification - done.
2. **DriverParker**, with **WakePermit** - done.
3. **MultiThreadScheduler**, built on WakePermit's semantics - done but for lane lending.
4. **AsyncTask** - done but for the deferred-settlement scopes of async functions.
5. **DeadlockVerdict**: admission gate, publications, fingerprint with its seqlock - done, with its theorem.
6. **CurrentThread** over **HostDrivers**: queue, dispatch coalescing, redispatch after an
   eviction, rejected wakes at the stop - done but for blocking jobs and timers; every invariant of its runs is proved.
7. **StreamReader** over **ThreadsafeFunctions** - the reader's side is done.
8. **RuntimeRegistry**, **DeferredPromises** and their composition **EnvironmentCleanup** with
   the wasm cleanup handshake - done; the composition implements RuntimeRegistry.
9. Open: the timer heap with its timekeeper; owner-lane lending with the graph of blocking
   dependencies; references and the custom GC; streams made from Rust.
10. Proofs: every invariant of a passing run is a theorem, the type invariants included, and so is the safety part of
    each refinement. Open are properties the prover cannot reach: liveness and the fairness part of the refinements.

## 3. Modules

### RuntimeLifecycle (proofs: RuntimeLifecycleProofs)

One action is one critical section of the `state` mutex, one lock-free read of a mirror, or one step
between two critical sections. Actors are host threads and the submitted work
itself; an actor's `pc` is the entry point it is in, `arg` the submission and `held` the backend
handle on its stack. The condition variable `lifecycle_changed` is the set `parked`, emptied by `NotifyAll`.

| in the model | in the code |
|---|---|
| `lifecycle`, `draining`, `rejecting`, `phaseEverOpened` | the fields of `RuntimeState` |
| `currentBackend`, `poolWorkers` | the lock-free mirrors |
| `closed`, `stopping`, `workersUp` | per generation: `GenerationWork` closed, `GenerationStop` published, pool threads alive |
| `wstate`, `wkind`, `wgen` | where a submission is between its entry point and its retirement |
| `FastLoad`, `FastRegister`, `SlowRunning`, `SlowCreate`, `SlowReject`, ... | `fast_register`, `backend_locked`, `begin_rejected_drop` |
| `BeginRunning`, `CloseAndAbort`, `WakeParkers`, `BeginVerdict` | phase 1 in its order |
| `FinishTakes`, `WaitUntilIdle`, `ReleaseBackend`, `WaitForWorkers`, `PublishStopped` | phase 2 in its order |

Simplifications: the executor is the state of each submission (its module is
MultiThreadScheduler); user code makes at most one entry-point call per activation
(bound); the creation of a pool may fail, and does once `MaxGen` generations exist (bound);
a stopper that owes a phase 2 does not call `start`, as the
protocol says; the scheduler's own part of the poll is left out. The arms of
`begin_shutdown` that wait on Stopping are unreachable, because a stop announces its drain in the step that leaves Running and every later step keeps it announced until Stopped, and so absent.
Whether a caller is a pool worker is decided by the frames on its stack (`Stack`: the least set of actors closed under
`RunsOnTopOf`).

**GenerationBarrier** is what it implements: one open generation, admissions, an
announced stop, a stop published only when nothing admitted lives.

### DriverParker and WakePermit (proofs: DriverProofs)

Every atomic operation and every lock operation of the parker is an action; spurious wakeups
and expired deadlines may come at any time. WakePermit is one saturating permit.

### MultiThreadScheduler (proofs: MultiThreadSchedulerProofs, MultiThreadSchedulerWakeProofs)

A thread is a stack of frames (drainer, cooperative or parking `block_on`, task,
closure, wait, stop); each frame has a program counter. Parkers use WakePermit's semantics, which DriverParker implements.
Tasks and closures call what `Menu` allows, `Calls` times per activation. A closure may wait, without driving anything, for any unit that was submitted.

Merged steps, all of them steps no other thread can observe in between: slot operations with the step before
them; the load of the parked count with the pop; the drainer's compare-and-swap
with its spawn; the looks at the stop around a poll; `GenerationStop::register`'s push with its check; a future's wake with its completion.
The registry of parked drivers is a set from which `wake_one` takes any (the code
takes the last). `UnparkAll` is atomic. An unpark in flight to a frame
that has gone is dropped. The constants 64 and 16 of the code are `Budget = 2` and
`Quantum = 1`: what matters is that each is used up and reset. Left out: timers, the deadlock verdict, lane lending, nested
drains that rayon may start while a thread waits inside it.

### AsyncTask (proofs: AsyncTaskProofs)

The JavaScript thread is a stack of native frames: callbacks and completions. A frame
is at a point where user code runs (`body`, `resolve`, `finally`, `finalizers`), where JavaScript may call in again, or at one where
it does not. Pool threads take the two steps of `execute`.

| in the model | in the code |
|---|---|
| `EnterCall`, `BodyReturns`, `ConvertTask`, `ConversionFails`, `CallReturns` | a generated callback: conversion with `NativeBorrowGuard::acquire`, the deferred scope, `AsyncTask::to_napi_value` with the lease and `async_work::run`, the scope's guard |
| `Settle`, `SettleThrows`, `FinallyReturns`, `DestroyTask`, `ReleasesLease`, `DeleteWork` | `complete_impl` in its order |
| `Cancel`, `Abort`, `CancelPending` | `AsyncWorkPromise::cancel`, `on_abort_impl`, `cancel_pending_async_work` |
| `guard`, `rooted`, `closed`, `leases`, `borrows` | `NativeBorrowStorage` per scope and the entry of `NATIVE_BORROWS` |
| `outstanding` | `OUTSTANDING_ASYNC_WORK`, which exists on wasm only and is kept for every target here |

External: `napi_cancel_async_work` succeeds until a pool thread took the work; after
the environment starts to close no JavaScript runs and settlements are refused, but completions are still delivered.
Simplifications: one native value; one signal, which fires once; the callbacks of
`AbortSignal::on_abort` have no modelled effect; the conversion of a resolved value
belongs to `resolve`; a new `AsyncWork`'s promise, its work and its registration are one step (no user code runs
between them). `ceded` remembers tasks whose `AsyncWorkPromise` set the status to canceled although the host refused.

### DeadlockVerdict (proofs: DriverProofs)

The bounded park of `cooperative_block_on`. A driver reads its window (fingerprint, publication
epoch), parks, and when the window ends looks, in the code's order, at its permit, the queue, the
fingerprint, the timers and the stop, the last time with the admission gate closed. Threads
schedule, claim, arm, fire, cancel, stop, reset the metrics or wake; whatever makes work visible does so
between `begin_admission` and its end. `news` is a history variable: what became visible to a driver since its window was armed.

Left out: time (a window ends whenever its driver is parked), memory weaker than sequential consistency, the
lanes, the blocking cap, the LIFO slot, drainer spawns, the drain of the timers inside
`begin_shutdown`, the deadline of a foreign parking `block_on`. The fingerprint is read, and reset, in one step each
around the seqlock's generation. A direct wake of a future after the last look at the permit is the residue the code documents, and not
in `news`.

### HostDrivers and CurrentThread (proofs: CurrentThreadProofs)

HostDrivers is the registry of task drivers: each of its operations runs under one lock
and is an operator from a registry to a registry. CurrentThread is the executor and the native hosts of `adapter.rs`
over it. Every actor has a stack of frames, because the host driver is called from inside `schedule`, and a
failed publication publishes its replacement from inside itself.

| in the model | in the code |
|---|---|
| `queue`, `rejected`, `closed`, `pending`, `draining` | `CurrentThreadQueue` and the two atomics beside it |
| `entry`, `dispatch`, `order` of the registry | entries, dispatches and their reference counts, epochs and phases |
| frames of a thread | `schedule_runnable`, `request_drain_with`, `publish_host_dispatch`, `drain_one`, retirement, `block_on` |
| frames of a host | the callback of its threadsafe function, admission of the turn, the turn, its acknowledgement |

Simplifications: a delivery is named by its host and dispatch; names of dispatches and epochs are recycled once nothing refers to
them; the sweep's probe and its removal are one step, and so is the callback with its claim; consecutive reads under the
queue lock are one step; admission ends when the stop begins, although the code closes the generation just after; the threadsafe function
refuses a call only when its environment closes. The check for an underflow of a reference count (a panic) is left out: a subtraction
that takes too much goes below zero, and `DispatchesAreCounted` shows that none does while the runtime runs. Blocking jobs (3862-4160), the
timer drivers, and the park decision of `block_on` with its deadlock verdict are left out.

### ThreadsafeFunctions and StreamReader (proofs: StreamReaderProofs)

ThreadsafeFunctions is a `ThreadsafeFunction` handle and the host's queue behind it as operators over a
record: what a call does to it, what the drop of the last handle does, closing, finalization. StreamReader uses two of
them: one for `read`, one for `cancel`.

| in the model | in the code |
|---|---|
| `task`, `woken`, `inner` | `Reader::poll_next` and `ReaderInner` under its lock |
| `reads` | the promises of `read()` with their then, catch and finally handlers, each a microtask of its own |
| `cancelled`, `waker` | `CancelSignal` with its `AtomicWaker` |
| `senders`, `refusing`, `following`, `future` | `QueuedCancels`, and the promise a cancel follows |
| `function`, `holders`, `env` | the two threadsafe functions, who keeps `BoundCancel`, the environment |

Simplifications: a call is one step with its read guard; a waker taken under the lock is woken in the same step; queues have no
limit and nobody aborts, refers or unrefs; a reader has a cancel method; arguments convert. The environment may end between two
microtasks, and spurious polls are allowed. The side of a stream that Rust produces is left out.

### RuntimeRegistry, DeferredPromises, EnvironmentCleanup (proofs: EnvironmentCleanupProofs)

RuntimeRegistry is `AsyncRuntimeRegistry` of `tokio_runtime.rs`: phase, lifecycle lock, claim and
completion of a start, stop in one or two phases. It is also the abstract specification of what
a composition may do to the backend. DeferredPromises is `JsDeferred`: the shared slot, the settlement queued under its lock, the
teardown hook, the finalizer, the count `PENDING_DEFERRED_SETTLES`. EnvironmentCleanup composes them with the registration and cleanup
of environments (`module_register.rs`) and the loader's disposal of a wasm environment.

| in the model | in the code |
|---|---|
| `phase`, `lifecycle`, `backend`, `owed`, `at` | `RegistryState`, the lifecycle mutex, the hooks of the backend, the control of each thread inside the registry |
| `slot`, `locked`, `queued`, `outcome`, `pending` | the slot and its mutex, the threadsafe function's queue, the promise, the counter |
| `life`, `count` | what an environment is going through, `MODULE_COUNT` |
| `latch`, `begun`, `depth` | `WASM_ENV_DISPOSING`, `WASM_ENV_CLEANUP_BEGUN`, `WASM_ENV_CLEANUP_DEPTH` |
| `mailbox`, `parked`, `barred` | the cancel mailbox, the cancellations in it, tasks canceled with the barrier raised |
| `raw` | environments destroyed without their turns: a host that does not know the handshake |

`wasm` is a rigid variable chosen at the start, so one run covers both targets. On wasm every environment shares one JavaScript thread, a
new one registers only when the others are out, dead or have walked away, and an environment may be abandoned between two turns; a
registration then unwinds its handshake. A backend accepts a dispatch only while it runs, and may always decline.

Left out: the wait of the very first registration, the registration window and the freeze of the selection, the drain of Tokio's peers, the
drain of async work (AsyncTask has it) and the loader's 128-turn bound with its retry, panics of a poll,
microtasks between the last read of the drain and the destruction, dispatches from an environment that walked away. A rejection on the JavaScript thread is one step.

## 4. Runs

| run | instance | checks |
|---|---|---|
| `lifecycle_safety` | 2 threads, 2 submissions of every kind, 1 stopper, 2 generations | `StoppedIsQuiescent`, `OneLiveGeneration`, `PollSeesAdmittedWork`, `NoAdmissionFromDestructor`, implements GenerationBarrier |
| `lifecycle_live` | 2 threads and 1 submission, all of which may shut down; no unread outputs | `NoSelfWait`, `RunningEndsByPhaseOne`, `FinishReturns` |
| `parker` | 3 wakers | `SleeperIsNotified`, implements WakePermit with its fairness |
| `sched_nested` | 2 workers, host, task and 2 closures that nest and wait | `TypeOK`, `SlotIsServed`, `NoWaitOnSlottedChild`, `NoLostWork` |
| `sched_fair` | 1 lingering worker, 2 tasks, 1 closure, host, a stop at any time | `StoppedIsIdle`, `StopCompletes`, `QueuedWorkRuns`, `BlockOnReturns` |
| `async_task` | 2 calls on one value (exclusive with two tasks, shared), a spawned task, 2 pool threads, 2 frames deep | `NoAliasing`, `WrapperStaysRooted`, `NoneOutstandingMeansSettled`, `FreedHandlesAreMarked`, `WorkEnds`, `BorrowEnds` |
| `verdict` | 1 frame, 2 threads with 2 operations of any kind | `VerdictIsSound`, `DeadlockIsReported` |
| `ct_hosts` | 1 task, 1 thread, 2 hosts that come and go | `ClaimsAreHeld`, `NoDropOnWakerStack`, `DispatchesAreCounted` |
| `ct_stop` | 2 tasks, one awaiting the other, 1 host, 1 thread in `block_on`, a stop | `NoLostRunnable`, `StoppedIsIdle`, `StopCompletes` |
| `ct_stuck` | 1 task, 1 host, 1 thread, 2 wakes | violated: `WorkHasContinuation`, see section 7 |
| `stream_reader` | 2 cancels, 2 chunks | `NoChunkLost`, `ParkedIsOwed`, `CancelResolves` |
| `environments` | 2 environments, 2 promises, one of whose tasks needs a turn, both targets | `QuietWithoutEnvironments`, `NothingIsStranded`, `CallsLiveFunction`, `StartsAreOwed`, `EndsComplete` |

The type invariants of RuntimeLifecycle, DriverParker, AsyncTask, DeadlockVerdict, CurrentThread, StreamReader and EnvironmentCleanup are
proved (section 6), and the runs leave them out; that of MultiThreadScheduler relates counters to frames, is proved and stays in its run.

Why the bounds are enough. Two generations are the fewest in which a late actor
of the first can meet the second. Two submissions are enough for one to be admitted
while the other is rejected, destroyed or running the caller. Three wakers
make two coalesce while a third is between its exchange and its notification. On one worker, starvation needs only a pair of tasks
that wake each other and a third party in a queue, and a stop meets the worker lingering, in a unit or retiring
while the host parks. Two native frames show each
re-entrance: a call inside a call, a call inside each point of a completion. Two
tasks of one call share a scope, which is what makes the last lease different from the first.
`sched_fair` lets the host call twice and everybody else once; a stop with a second worker was explored
as well, and takes longer than the runs here may. A dispatch fails, is published again, replaced and cancelled with one task already, and
two hosts are the fewest in which one services what the other was offered; two of everything was explored for
the invariants (about a million states), and the proofs cover any number. A frame of the deadlock verdict sees a thread act twice, or two act once,
inside one window, so that a count can go up and down again; two drivers were explored for its invariants, and its theorem covers any number.
With two frames `DeadlockIsReported` fails in a model without time, since each
frame's progress may restart the window of the other for ever. Two chunks tell a lost one from a late one. Two environments are the fewest in which one
inherits what the other left; three promises were explored for the safety properties.

Each property of a passing run has a mutant: the definition named in `PROJECT.json` is replaced
by a plausibly wrong form of it, written just before it in the module, and TLC finds the property violated.

The symmetry of `sched_nested` (workers) is used in a run without liveness only, and
the workers are interchangeable in every definition.

`CHECK_DEADLOCK FALSE` stands where the system may stop for good: everything bounded was used, or the runtime
is stopped, or a frame waits for an event the host may withhold.

## 5. Fairness

* RuntimeLifecycle: weak fairness of each actor's code steps, of a pool claiming, of user code
  completing and of pool threads exiting. Threads are scheduled, and user code that
  never returns makes `finish_shutdown` wait by design. No fairness of calls
  or of wakes from outside.
* DriverParker: weak fairness of the driver's steps once it parks, of the steps of a waker after its
  exchange, and of time: a deadline passes and a timed wait ends. None of the exchange itself
  (nobody has to wake the driver), of spurious wakeups, or of the entry into a park.
* MultiThreadScheduler: weak fairness of each thread's code steps and of user code's return, and of the stopper once
  it has started. None of user calls.
* AsyncTask: weak fairness of a call's steps, of the pool per task, and of the completion of each
  task. None of calls, aborts, cancels or the environment's end.
* DeadlockVerdict: weak fairness of each actor's steps inside an operation and of the driver's, of the end of
  a window included. None of beginning an operation.
* CurrentThread: weak fairness of the frames of each thread and of the stopper, and of a live host's event loop, which calls what was
  queued, and of a thread's leaving `block_on`, whose future is not modelled. None of wakes or of hosts coming and going.
* StreamReader: weak fairness of the task once woken, of a cancel's caller, of the JavaScript thread, per action. None
  of the source: a promise of `read` or `cancel` may stay pending for ever, and `CancelResolves` says what follows when the one
  a cancel follows settles or its environment ends.
* EnvironmentCleanup: weak fairness of each JavaScript thread's steps, of the loader's, of a task's worker and of the host's
  delivery of a settlement. None of registrations, dispatches, explicit calls or ends.

`EndsComplete` excepts environments destroyed without the turns they need (`raw`), which the code documents as a degradation.
`FinishReturns` has a hypothesis: rejections cease and no announced stop is left without its
phase 2, which is the host's part of the protocol. `QueuedWorkRuns` asks for a free lane for the closure. `ParkedIsOwed` is about a live environment.

## 6. Proofs

RuntimeLifecycle, for any number of stoppers:

* `TypeCorrect`: the type invariant of RuntimeLifecycle, for any threads, submissions, pool size and number of
  generations. One lemma per group of actions.
* `CoreInvariant`, `DestructorsAdmitNothing`, `OnlyPhaseOneEndsRunning`. `CoreInv` has five parts: `Frames` (a submission in hand is in one
  actor's hand and in the state its frame left it), `Executing` (a submission is inside an entry point only while its user
  code runs), `Phases` (a handoff stands for a generation that is stopping, and one actor at most has taken it), `Generations` (the
  generation in use is the last one created, the mirror names it while it runs, nobody has closed it),
  `Barred` (a rejected submission is counted until its destructor is over, and every generation that runs meanwhile is another
  than its own). The last is what `DestructorsAdmitNothing` needs: the destructor finds the lock-free path and the running state closed to it.

With one shutdown, `OneShutdown(s)`: only the host thread `s` calls the shutdown entry points, or `s` and any
submissions whose outputs nobody drops unread:

* `StopInvariant`, `StopIsQuiescent`, `LiveGenerationIsOne`, `PollIsTruthful`: a published stop is quiescent, what is registered belongs to the generation in
  use, and the poll answers from it. `StoppedIsQuiescent` is not inductive:
  that the join saw nothing registered is worth nothing unless nothing can register afterwards, which
  holds because the generation is closed. So `StopInv` adds `OneOwner` (only `s` ever owns a
  generation to close or to join: a submission that tries is refused or returns at a generation check),
  `ClosedUnlessRunning` (every generation but the running one is closed, or its closing
  is the owner's next step), `Handoff` (phase 2 takes the generation phase 1 announced; past the
  join nothing is registered), `Alive` (what is registered belongs to the generation in use) and `Current` (so do the destructors, when
  no output outlives its generation). `Quiet` classifies the steps that leave the stop alone, so each part is argued once
  for all of them and once for each step of the shutdown.
* `BarrierImplemented`: every step of RuntimeLifecycle is a step of GenerationBarrier or leaves its state unchanged.
* `NobodyWaitsForItself`, without unread outputs: no actor waits, through joins, parks and the frames on its stack, for itself. The
  submissions never wait (`WorksNeverWait`: every caller under an active generation is answered at once), so a wait leads from a host
  thread to submissions, and `StackOfThread` shows that it ends there.

`OneShutdown` cannot be dropped: with two host stoppers the first observation of section 7 is a counterexample to all of these,
and with unread outputs dropped by submissions that shut down, the second and third are.

The other modules:

* `ParkerInvariant`: the parker's type invariant, and that no driver sleeps over a stored permit without a notification on its way. The strengthening is
  `WaiterIsFenced`: a driver between its decision to wait and its sleep holds the lock, so the waker that
  stored the permit is still in front of it.
* `ParkerImplementsPermit`: every step of DriverParker is a step of WakePermit or leaves its state unchanged.
* `VerdictSound`: a driver is declared dead only if nothing was queued, armed or fired since its window
  was armed. It rests on `GateIsExclusive`: nobody is inside an admission while a verdict judges behind its gate. The strengthening counts, per
  actor, how many admissions its control point holds, and ties each of the verdict's looks to what may still have changed since.
* `NoChunkIsLost`, `ParkedTaskIsOwed`, `NothingFollowsTheEnd`, `PendingCancelIsHeld`: the stream reader's invariants, on
  its type invariant `TypeCorrect`, which includes that at most one read is outstanding and `reading` records it. The
  last is the safety half of `CancelResolves`: the sender of an unresolved future is always somewhere that will resolve it.
* `ClaimedStarts`: the registry starts a backend only for a claim made since a teardown last returned.
* `ImplementsRegistry`: every behaviour of EnvironmentCleanup is one of RuntimeRegistry. One lemma per group of actions (`ThreadDrivesRegistry`,
  `HostDrivesRegistry`) shows that each is a step of the registry or leaves it alone. `EnvironmentStartsAreOwed` follows from it and `ClaimedStarts`.
* `FunctionsAreLive`: no thread calls a threadsafe function its environment has torn down. The strengthening `FunctionInv` says, per promise, that
  a filled slot belongs to an environment whose functions still live, and that whoever calls holds the slot's lock.
* `QuietImage`, `NobodyIsStranded`: with no environment left the backend is stopped, its phase reset and the loader's handshake undone; nothing the wasm
  teardown has to wait for is left behind when an environment is destroyed. `CleanupInv` ties the control of each thread inside the registry to what
  its environment is going through (`ControlInv`, per target), `MODULE_COUNT` to the environments whose hook has not run
  (`CountInv`), the last of them to a stop under way (`QuietInv`), a stopped backend to the absence of tasks (`WorkInv`), and
  `PENDING_DEFERRED_SETTLES` to the settlements queued and in hand (`SettleInv`), all of them counting arguments on finite sets.
* `NeverAliased`, `AlwaysRooted`, `DisposalFindsAllSettled`, `FreedIsMarked`, with AsyncTask's `TypeCorrect`: no exclusive borrow overlaps another user of the
  value, the wrapper is rooted while a task may touch it, and with nothing outstanding every promise is settled. The invariant follows a
  scope's lease count: `Scope(c)` equates `leases` with the number of its holders (tasks not yet released, and the callback
  itself), and says that while there is one the wrapper is rooted and the borrow held; `GuardsCounted` equates the entry of
  `NATIVE_BORROWS` with the scopes that hold one; `Exclusion` is what the acquisition decides by it; `TaskInv`, `CallInv` and `Shape` tie tasks
  and calls to the frames of the JavaScript stack.

MultiThreadScheduler, for every pool, bound on the lanes, budget, quantum, menu of calls and number of them, with and without
lingering and stop:

* `CoreInvariant`: the inductive invariant `Inv` of the stacks. `Stacks` is the nesting discipline (which frame may stand on which, at which
  program counter); a frame under another can move only when it is on top again, which is what everything else rests on. `LaneInv` and
  `DrainInv` count the frames that hold a lane or have not retired, `ParkerInv` says that every parker is one of a frame that is there,
  `SlotInv` that the slot is empty while a frame that may come to rest is exposed (a closure, wait or wake above it shades it),
  `PlaceInv` that a queued unit is in one queue, slot or hand and a running one on one stack, `WaitInv` that a closure is under way before it is
  a parent and that the slot never holds a child of the closure its thread is in, `StopInv` what each step of the stop has established. The five ways a step
  changes the stacks (`Turns`, `Adds`, `Drops`, a start, an erased parker) are argued once for each part, and each action by the way it takes.
* `TypeCorrect`: the counters and registries fit the frames. TypeOK counts closures on stacks, and `Lanes` the drivers below them:
  `LanesAreFrames` is the bijection.
* `SlotsAreServed` follows from `SlotInv`, `NobodyWaitsOnASlottedChild` from `WaitInv`,
  `StopLeavesNothing` from `StopInv`: with the work over and the drainers gone no frame is left that could hold a lane.
* `WakesAreMatched`, `NoWakeIsLost`. `NoLostWork` speaks of states where everything rests; `WakeInv` is what makes it inductive, and holds at
  every moment until the stop is published. While a driver sleeps registered, the runnables in the FIFO are at most the wakes under way plus the threads awake
  that will look at it before they sleep; while a pool thread is free, at most these plus the drain jobs to come and the retired drainers that
  still look, unless there is a drainer for every thread (`RunnablesMatched`). `ClosuresMatched` says the same of the closures for which a
  lane is free, where leaving a `block_on` and returning a lane owe a wake. `Popped`: a driver that somebody took from the
  registry has its permit, or the unpark is on its way. Each action changes one thread, so at most one element of each set,
  and its lemma says that the balance is kept. TLC had checked `WakeInv` on both instances of the module and on a larger one.

The only assumptions are the named ones on the constants (`ConstantsAssumption`, `ParkerAssumption`, ...), which TLC evaluates in the runs.

CurrentThread over HostDrivers, for any finite sets of hosts and tasks, any threads, names of dispatches, epochs, budgets and
number of wakes, with and without a stop (`IsFiniteSet(Hosts)` and `IsFiniteSet(Tasks)` are assumptions of the modules; the code keeps both in
maps and queues):

* What all of them rest on: `Spots(P)` is the set of frames, over all stacks, that `P` holds of. A step changes one stack, and only by
  replacing its top frame by a few frames (`Trace`), so it moves `Spots(P)` for a `P` only if it names a program counter of `P`.
  The lemma `Footprints` goes through every action once and says which frames it takes and leaves and which claims it may disturb; each
  invariant below then argues only about the actions that disturb it. The lemmas on sequences, minima, folds and cardinalities it needs are
  stated once, at the head of the module, and so is one lemma per operator of HostDrivers.
* `TypeCorrect`: the type invariant `TypeInv` (what a frame of each program counter carries, and that registry, queue and claims fit
  them), with `ShapeInv`: the frames that can only be the bottom of a stack are there (`AtBottom`), a host that is not registered
  runs and owes nothing, and the stop has not begun while the runtime runs (`Idle`).
* `ClaimsCorrect` (`ClaimsAreHeld`): `draining`, `cancelling_failed_dispatch` and the publication of each dispatch are held by exactly one frame
  while they are set and by none otherwise (`DrainHeld`, `CancelHeld`, `CallsHeld`). The hard part is that a failed publication
  publishes its replacement from inside itself, and that a dispatch's name may be used again while older calls are on their way
  out: a name is taken only when no call holds it.
* `DropsOffWakerStacks` (`NoDropOnWakerStack`): `OffWaker` strengthens it to every frame that is on its way to a destruction, not only the one
  that destroys: on each stack they are all below any waker, since what a waker's call gives up is moved to `rejected` and left there.
* `CountsCorrect` (`DispatchesAreCounted`): `RegInv` says while the runtime runs that the registry is `Sound`: the counter of each dispatch is the number of
  the hosts that have it delivered or owe it (`Exact`), and the entries are consistent enough (`Entries`) that every operation of the registry, the sweep
  that removes any set of hosts included, subtracts exactly what it takes away.
* `RunnablesCorrect` (`NoLostRunnable`): `TaskInv` is `QueuedOnce` (the queue names no task twice, and none that is rejected) with
  `HeldBy`: a scheduled task outside queue and rejected work is in the hand of exactly one frame, and a polled one under exactly one poll.
* `StopCorrect` (`StoppedIsIdle`): `StopInv` keeps a stopped executor without turns, publications, rejected work and live tasks.
  A frame that is still on a stack then is on its way out: it carries no work and finds the queue closed.

With these every invariant a passing run checks is a theorem. Only model-checked: every liveness property (`FinishReturns`, `QueuedWorkRuns`,
`BlockOnReturns`, `StopCompletes`, `WorkEnds`, `BorrowEnds`, `DeadlockIsReported`, `CancelResolves`, `EndsComplete`) and the fairness part of the refinements, because
the prover does not do fairness or ENABLED.

## 7. Findings

`ct_stuck` (`async_runtime.rs:8602`): a dispatch published between the end of a host turn and its acknowledgement is only recorded
as what the busy host owes next. The acknowledgement asks for a redispatch, but `request_drain_if_queued` (4567) returns
when the queue is empty at that moment, so nobody delivers the recorded dispatch, while `dispatch_pending` still names it. The next wake
coalesces with it (4291), and its task waits for ever beside a live, idle host, although 12514 says that the acknowledgement
"submits at most its latest still-needed pending delivery".

A republication that is late (4585 ff.) reaches a similar state on another way: it re-creates the dispatch it names
through `entry().or_default()` (8313), and displaces the one the host owes.

Observations without a run, met while modelling, some with configurations that are no longer kept:

* Lifecycle, 12024: phase 1 releases the state lock before it closes the generation. A second thread's phase 2 can publish
  Stopped in the gap, and a lock-free registration is then admitted into a stopped runtime (11252 says otherwise). It takes two threads that shut down.
* Lifecycle, 12024 and 11992: `finish_shutdown` compares only the innermost active generation with the one it stops. A task of the stopping
  generation that drops an unread output of an earlier one, whose destructor calls `finish_shutdown`, waits for itself.
* Lifecycle, 12086 and 12164: nor does the arm that waits out another thread's join look at whether the caller destroys a rejected
  payload: an unread output of a superseded generation, dropped while the next is being joined, submits in its destructor, is refused, and the
  rejected payload's destructor calls `finish_shutdown`, which waits for a publication that waits for that destructor (`NoSelfWait` on
  an instance with unread outputs; the test at 27905 says "the rejected destructor must not self-deadlock" of another state).
* Lifecycle, 11252: `NoAdmissionFromDestructor` speaks of the destructor of a rejected submission itself. An output of a later generation that it
  drops may run a destructor that is admitted, legitimately.
* Lifecycle, 12086 and 12482: a `finish_shutdown` that waits out another thread's join re-reads only the lifecycle; after a restart
  and another stop it goes on waiting for the later stop.
* Lifecycle, 11931: `runtime_work_pending` answers from registrations only, while `finish_shutdown` also waits for destructors of
  rejected submissions (12164), although 12466 says "`false` means phase 2 will not wait for user work"; `module_register.rs` relies on
  it when it unwinds. `PollSeesAdmittedWork` therefore speaks of admitted work.
* Scheduler, 6415: the fairness quantum runs a queued closure although the thread's LIFO slot is occupied; a closure that waits for the slotted
  task never returns. The bypass of the slot (5797-5808) rules that out only for what the closure submits itself, and so
  `NoWaitOnSlottedChild` says no more: with any other awaited task it fails on the instance of `sched_nested` (a task that
  woke itself goes back to the slot, the quantum is used up, the closure the host queued is claimed, and waits for that task).
* CurrentThread, 8898 and 8717: `retire_for_shutdown` clears the dispatches but leaves the deliveries of the entries. A
  republication that was under way re-creates the dispatch with no references, and the entry's completion or removal then fails the
  check for an underflow. `DispatchesAreCounted` is checked without a stop.
* CurrentThread, 4567 and 4597: a publication that finds no host is decided unavailable before it is settled. In between, a `block_on` may empty the
  queue and a host register, whose `request_drain_if_queued` returns at the empty queue; a wake then coalesces with the dispatch that is still
  pending (4291), and the settlement clears `dispatch_pending` and leaves the queue as it is. Its task rests beside a live host with no
  dispatch until the next wake, although the comment at 4257 says that only "a temporarily missing env leaves work queued". It takes
  two threads and a driver: that queued work has a dispatch, a host turn or a driver holds on the instance of `ct_hosts` and fails on
  larger ones, so it is no invariant. What holds, and is proved instead, is `ClaimsAreHeld`: no request coalesces with a call that has gone.
* `js_values/task.rs:233`: the handler of an AbortSignal returns at the first completed task; the tasks after it on the same signal stay queued.
* `AsyncWorkPromise::cancel` sets the status to canceled before the host has answered. When the host refuses, because
  the work runs, completion leaves the promise pending for ever; the AbortSignal path resets the status. `NoneOutstandingMeansSettled` excepts these tasks (`ceded`).
* `js_values/stream/read.rs:1508`: a read that is queued or pending when the environment ends is lost with its
  closure, `reading` stays set, and a parked task is woken by a cancel only. Futures of `call_async` stay pending in the same way.
* `adapter.rs:662`, `module_register.rs:1341`: a call answered with closing has given the acquisition back, yet the drop of the
  handle gives it back again when the finalizer has not set `aborted` by then.
* `tokio_runtime.rs:1037`: `ensure_started` reads the disposal latch outside the state lock. A foreign thread inside `within_runtime` can so claim a
  start after the end of a wasm environment, and on a native target after the last teardown.
* Native: an environment that registers while the last one's teardown is stopping the backend may have its first accepted task cancelled by it.
* `js_values/deferred.rs:25` says the counter goes up "once the settle is accepted"; 557 counts before it queues, which is what the drain needs.

## 8. Not modelled

`components` in `PROJECT.json` lists each part with the reason. In short: what section 2 leaves open (9); pure conversions and build-time
translation, which have no state between calls; file, process and network I/O of the tools; the allocator and engine behind the
WASI heap hand-over. Most lines of the repository are of these kinds, or are tests: two thirds of `async_runtime.rs` are its test module. Two
lingering workers, and a stop with two workers, are outside the bounds of the scheduler's runs.
