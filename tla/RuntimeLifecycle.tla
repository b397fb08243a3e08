-------------------------- MODULE RuntimeLifecycle --------------------------
(***************************************************************************)
(* The RuntimeController of crates/async-runtime: lazy creation, start and *)
(* the two-phase shutdown of the process-wide async runtime, together with *)
(* the GenerationWork count that shutdown waits on.                        *)
(*                                                                         *)
(* Every critical section of the controller's `state` mutex is one action, *)
(* every lock-free read (the `current_backend` mirror) and every step made *)
(* between two critical sections is an action of its own.  The condition   *)
(* variable `lifecycle_changed` is the set `parked` of actors inside       *)
(* wait(): an actor in it takes no step until a notify_all empties it.     *)
(*                                                                         *)
(* Actors are the host threads and the submitted work itself: a running    *)
(* closure, a polled future, the destructor of a rejected submission and   *)
(* the destructor of an unread task output are user code and may call the  *)
(* entry points again (at most once per activation: the bound on user      *)
(* code).  What the executor does with accepted work is abstracted to the  *)
(* states of `wstate`.                                                     *)
(***************************************************************************)
EXTENDS Naturals

CONSTANTS
  Threads,        \* host threads that call the runtime from outside
  Works,          \* submissions: futures, blocking closures, block_on scopes
  Stoppers,       \* the actors that may call the shutdown entry points
  OutputDroppers, \* the actors that may drop a JoinHandle with its output unread
  Kinds,          \* the submission entry points in use
  WorkerThreads,  \* RuntimeOptions::worker_threads under MultiThread
  MaxGen,         \* bound on the generations created
  NoWork          \* "no submission in hand"

ASSUME ConstantsAssumption ==
  /\ Threads \cap Works = {}
  /\ Stoppers \subseteq Threads \cup Works
  /\ OutputDroppers \subseteq Threads \cup Works
  /\ Kinds \subseteq {"task", "blocking", "block_on"}
  /\ WorkerThreads \in Nat \ {0}
  /\ MaxGen \in Nat \ {0}
  /\ NoWork \notin Works

VARIABLES
  flavor,           \* state.options.flavor
  poolWorkers,      \* the lock-free mirror pool_workers
  lifecycle,        \* state.lifecycle
  rejecting,        \* the submissions counted by state.rejected_drops
  draining,         \* state.draining
  phaseEverOpened,  \* state.phase_ever_opened
  currentBackend,   \* the lock-free mirror current_backend, 0 for None
  lastGen,          \* generations created so far: 1..lastGen
  closed,           \* generations whose GenerationWork is closed
  stopping,         \* generations whose GenerationStop is published
  workersUp,        \* MultiThread generations whose pool threads are alive
  wstate,           \* where each submission is
  wkind,            \* task, blocking closure or block_on scope
  wgen,             \* the generation a submission's user code runs under
  pc,               \* where each actor is in the entry point it called
  arg,              \* the submission an entry point has in hand
  held,             \* the backend handle on an actor's stack, 0 for none
  parked,           \* the actors inside lifecycle_changed.wait
  chain             \* the actors in the single-call `shutdown`

optVars    == <<flavor, poolWorkers>>
stateVars  == <<lifecycle, rejecting, draining, phaseEverOpened, currentBackend>>
genVars    == <<lastGen, closed, stopping, workersUp>>
workVars   == <<wstate, wkind, wgen>>
threadVars == <<pc, arg, held, parked, chain>>
vars == <<optVars, stateVars, genVars, workVars, threadVars>>

Actors  == Threads \cup Works
Flavors == {"CurrentThread", "MultiThread"}
Targets == {"StoppedBeforeFirstUse", "Stopped"}

(***************************************************************************)
(* RuntimeLifecycle and ShutdownDrain.  gen = 0 stands for "carries no     *)
(* backend"; `target` is read only where the enum variant carries one.     *)
(***************************************************************************)
Carrying(k, g) == [kind |-> k, gen |-> g, target |-> "Stopped"]
Towards(k, t)  == [kind |-> k, gen |-> 0, target |-> t]
Plain(k)       == Carrying(k, 0)

LifecycleStates ==
  [kind : {"Initial", "StoppedBeforeFirstUse", "Running", "Stopping",
           "StoppingWithoutBackend", "Stopped"},
   gen : 0..MaxGen, target : Targets]
DrainStates ==
  [kind : {"None", "Backend", "Joining", "Settled", "ZeroBackend"},
   gen : 0..MaxGen, target : Targets]
WorkStates ==
  {"new", "registered", "queued", "running", "pending", "cancelling",
   "destroying", "retired", "output", "gone"}
Pcs ==
  {"idle", "done", "fast", "register", "slow", "schedule", "driving",
   "destroy", "unreject", "dropping", "start", "begin", "closing", "waking",
   "verdict", "finish", "finish_zero", "finish_other", "joining", "marker",
   "workers", "publish"}

\* The generation that Running and Stopping carry, 0 for every other state.
LifecycleGen ==
  IF lifecycle.kind \in {"Running", "Stopping"} THEN lifecycle.gen ELSE 0
RunningGen == IF lifecycle.kind = "Running" THEN lifecycle.gen ELSE 0

\* Submissions whose GenerationWorkGuard is alive: GenerationWork::active.
Registered == {"registered", "queued", "running", "pending", "cancelling"}
Active(g) == {w \in Works : wstate[w] \in Registered /\ wgen[w] = g}

PoolWorkersFor(f) == IF f = "MultiThread" THEN WorkerThreads ELSE 0

(***************************************************************************)
(* Call stacks.  An actor in "driving", "destroy" or "dropping" has the    *)
(* user code of arg[a] on top of its own frames.                           *)
(***************************************************************************)
RunsOnTopOf(w, a) == pc[a] \in {"driving", "destroy", "dropping"} /\ arg[a] = w
\* The stack of an actor: the least set with it and the actors of the frames below.
HoldsFramesBelow(S) ==
  \A a \in Actors : (\E x \in S : RunsOnTopOf(x, a)) => a \in S
Stack(a) ==
  {x \in Actors : \A S \in SUBSET Actors : a \in S /\ HoldsFramesBelow(S) => x \in S}

\* ACTIVE_RUNTIME_GENERATION, IN_REJECTED_SUBMISSION_DROP and ON_POOL_WORKER.
ActiveGen(a)     == IF a \in Works THEN wgen[a] ELSE 0
InDropContext(a) ==
  /\ rejecting # {}
  /\ \E v \in Stack(a) \cap Works : wstate[v] = "destroying"
OnPoolWorker(a, g) ==
  /\ flavor = "MultiThread"
  /\ \E v \in Stack(a) \cap Works :
        wstate[v] = "running" /\ wkind[v] # "block_on" /\ wgen[v] = g

\* ensure_active_generation_current and RuntimeStopIdentity::is_current.
GenerationCurrent(a) == ActiveGen(a) # 0 => ActiveGen(a) = LifecycleGen
\* Mutant: only pool threads are recognised, not the active generation.
IsPoolWorkerOf(a, g) == OnPoolWorker(a, g)
IsCurrent(a, g)      == ActiveGen(a) = g \/ OnPoolWorker(a, g)

(***************************************************************************)
(* Steps of an actor: user code that is running, and not inside wait().    *)
(***************************************************************************)
UserCode == {"running", "cancelling", "destroying", "output"}
At(a, label) == pc[a] = label /\ a \notin parked
CanCall(a) == At(a, "idle") /\ (a \in Works => wstate[a] \in UserCode)

Goto(a, label) == pc' = [pc EXCEPT ![a] = label]
Resting(a) == IF a \in Works THEN "done" ELSE "idle"
\* An entry point returns: nothing in hand, no backend handle, no phase 2 owed.
Return(a) ==
  /\ Goto(a, Resting(a))
  /\ arg' = [arg EXCEPT ![a] = NoWork]
  /\ held' = [held EXCEPT ![a] = 0]
  /\ chain' = chain \ {a}
\* lifecycle_changed.wait: the arm is re-evaluated at `label` after a notify_all.
WaitAt(a, label) ==
  /\ Goto(a, label)
  /\ parked' = parked \cup {a}
  /\ UNCHANGED <<optVars, stateVars, genVars, workVars, arg, held, chain>>
\* Mutant: a critical section that forgets its notify_all.
NotifyNobody == UNCHANGED parked
NotifyAll == parked' = {}

(***************************************************************************)
(* Init and the configuration entry points.                                *)
(***************************************************************************)
Init ==
  /\ flavor \in Flavors
  /\ poolWorkers = PoolWorkersFor(flavor)
  /\ lifecycle = Plain("Initial")
  /\ rejecting = {}
  /\ draining = Plain("None")
  /\ phaseEverOpened = FALSE
  /\ currentBackend = 0
  /\ lastGen = 0
  /\ closed = {} /\ stopping = {} /\ workersUp = {}
  /\ wstate = [w \in Works |-> "new"]
  /\ wkind = [w \in Works |-> "task"]
  /\ wgen = [w \in Works |-> 0]
  /\ pc = [a \in Actors |-> "idle"]
  /\ arg = [a \in Actors |-> NoWork]
  /\ held = [a \in Actors |-> 0]
  /\ parked = {} /\ chain = {}

ConfigurationMutable == lifecycle.kind \in {"Initial", "StoppedBeforeFirstUse"}

Configure(a, f) ==
  /\ CanCall(a)
  /\ ConfigurationMutable
  /\ flavor' = f
  /\ poolWorkers' = PoolWorkersFor(f)
  /\ UNCHANGED <<stateVars, genVars, workVars, threadVars>>

(***************************************************************************)
(* Generations.  CreateBackend is RuntimeBackend::new followed by the      *)
(* publication of Running, the pool_workers reset and the mirror.  Pool    *)
(* creation can fail under MultiThread; once MaxGen generations exist it   *)
(* is made to fail (the bound).                                            *)
(***************************************************************************)
CreateBackend ==
  LET g == lastGen + 1 IN
  /\ lastGen < MaxGen
  /\ lastGen' = g
  /\ poolWorkers' = 0
  /\ lifecycle' = Carrying("Running", g)
  /\ currentBackend' = g
  /\ draining' = Plain("None")
  /\ workersUp' = IF flavor = "MultiThread" THEN workersUp \cup {g} ELSE workersUp
  /\ UNCHANGED <<flavor, rejecting, phaseEverOpened, closed, stopping>>
CreationMayFail == flavor = "MultiThread" \/ lastGen = MaxGen

\* A pool thread exits once nothing holds its executor alive.
BackendReferenced(g) ==
  \/ RunningGen = g \/ currentBackend = g \/ draining.gen = g
  \/ \E a \in Actors : held[a] = g
  \/ \E w \in Active(g) : wstate[w] \in {"running", "cancelling"}
WorkersExit(g) ==
  /\ g \in workersUp
  /\ ~BackendReferenced(g)
  /\ workersUp' = workersUp \ {g}
  /\ UNCHANGED <<optVars, stateVars, lastGen, closed, stopping, workVars, threadVars>>

(***************************************************************************)
(* Submission.  block_on has no lock-free path; spawn and spawn_blocking   *)
(* try the mirror first.                                                   *)
(***************************************************************************)
Enter(a, label) ==
  /\ Goto(a, label)
  /\ UNCHANGED <<optVars, stateVars, genVars, held, parked>>

Submit(a, w, k) ==
  /\ CanCall(a)
  /\ wstate[w] = "new" /\ \A b \in Actors : arg[b] # w
  /\ wkind' = [wkind EXCEPT ![w] = k]
  /\ arg' = [arg EXCEPT ![a] = w]
  /\ Enter(a, IF k = "block_on" THEN "slow" ELSE "fast")
  /\ UNCHANGED <<wstate, wgen, chain>>

\* The mirror misses, or names another generation than the caller's.
FastUsable(a) == currentBackend # 0 /\ ActiveGen(a) \in {0, currentBackend}
FastLoad(a) ==
  /\ At(a, "fast")
  /\ IF FastUsable(a)
     THEN Goto(a, "register") /\ held' = [held EXCEPT ![a] = currentBackend]
     ELSE Goto(a, "slow") /\ UNCHANGED held
  /\ UNCHANGED <<optVars, stateVars, genVars, workVars, arg, parked, chain>>

\* GenerationWork::try_register_async / try_register_work.
Register(w, g) ==
  /\ g \notin closed
  /\ wstate' = [wstate EXCEPT ![w] = "registered"]
  /\ wgen' = [wgen EXCEPT ![w] = g]
  /\ UNCHANGED wkind

FastRegister(a) ==
  /\ At(a, "register")
  /\ Register(arg[a], held[a])
  /\ Goto(a, "schedule")
  /\ UNCHANGED <<optVars, stateVars, genVars, arg, held, parked, chain>>
FastRegisterClosed(a) ==
  /\ At(a, "register")
  /\ held[a] \in closed
  /\ Goto(a, "slow")
  /\ held' = [held EXCEPT ![a] = 0]
  /\ UNCHANGED <<optVars, stateVars, genVars, workVars, arg, parked, chain>>

\* backend_locked followed by the registration, under one lock hold.
\* Mutant: the first backend does not wait for rejected destructors.
CreationInInitial == lifecycle.kind = "Initial"
CreationAllowed == lifecycle.kind = "Initial" /\ rejecting = {}
AdmittedAs(a, g) ==
  /\ wgen' = [wgen EXCEPT ![arg[a]] = g]
  /\ wstate' = [wstate EXCEPT ![arg[a]] = "registered"]
  /\ held' = [held EXCEPT ![a] = g]
  /\ Goto(a, "schedule")
  /\ UNCHANGED <<wkind, arg, parked, chain>>
SlowRunning(a) ==
  /\ At(a, "slow")
  /\ GenerationCurrent(a)
  /\ lifecycle.kind = "Running"
  /\ lifecycle.gen \notin closed
  /\ AdmittedAs(a, lifecycle.gen)
  /\ UNCHANGED <<optVars, stateVars, genVars>>
SlowCreate(a) ==
  /\ At(a, "slow")
  /\ GenerationCurrent(a)
  /\ CreationAllowed
  /\ CreateBackend
  /\ AdmittedAs(a, lastGen')

\* begin_rejected_drop: an infallible entry point destroys the payload on this
\* stack, a try_* entry point hands it back to its caller.
SlowRefused(a) ==
  \/ ~GenerationCurrent(a)
  \/ lifecycle.kind \notin {"Initial", "Running"}
  \/ lifecycle.kind = "Initial" /\ rejecting # {}
  \/ CreationAllowed /\ CreationMayFail
  \/ lifecycle.kind = "Running" /\ lifecycle.gen \in closed
SlowReject(a) ==
  /\ At(a, "slow")
  /\ SlowRefused(a)
  /\ rejecting' = rejecting \cup {arg[a]}
  /\ wgen' = [wgen EXCEPT ![arg[a]] =
                IF ActiveGen(a) # 0 THEN ActiveGen(a) ELSE LifecycleGen]
  /\ \/ Goto(a, "destroy") /\ wstate' = [wstate EXCEPT ![arg[a]] = "destroying"]
     \/ Goto(a, "unreject") /\ UNCHANGED wstate
  /\ UNCHANGED <<optVars, lifecycle, draining, phaseEverOpened, currentBackend,
                 genVars, wkind, arg, held, parked, chain>>

\* The destructor is over, or the payload goes back: RejectedSubmissionGuard.
Destroyed(a) ==
  /\ At(a, "destroy")
  /\ wstate[arg[a]] = "gone"
  /\ Goto(a, "unreject")
  /\ UNCHANGED <<optVars, stateVars, genVars, workVars, arg, held, parked, chain>>
Unreject(a) ==
  /\ At(a, "unreject")
  /\ rejecting' = rejecting \ {arg[a]}
  /\ NotifyAll
  /\ wgen' = [wgen EXCEPT ![arg[a]] = 0]
  /\ Return(a)
  /\ UNCHANGED <<optVars, lifecycle, draining, phaseEverOpened, currentBackend,
                 genVars, wstate, wkind>>

\* First schedule of an admitted submission; block_on keeps its caller.
Schedule(a) ==
  /\ At(a, "schedule")
  /\ wstate' = [wstate EXCEPT ![arg[a]] = "queued"]
  /\ IF wkind[arg[a]] = "block_on"
     THEN Goto(a, "driving") /\ UNCHANGED <<arg, held, chain>>
     ELSE Return(a)
  /\ UNCHANGED <<optVars, stateVars, genVars, wkind, wgen, parked>>
BlockOnReturns(a) ==
  /\ At(a, "driving")
  /\ wstate[arg[a]] \in {"retired", "gone"}
  /\ Return(a)
  /\ UNCHANGED <<optVars, stateVars, genVars, workVars, parked>>

(***************************************************************************)
(* The executor and the user code it runs.                                 *)
(***************************************************************************)
Advance(w, to) ==
  /\ wstate' = [wstate EXCEPT ![w] = to]
  /\ pc' = [pc EXCEPT ![w] = "idle"]
  /\ UNCHANGED <<optVars, stateVars, genVars, wkind, wgen, arg, held, parked, chain>>

\* A claim reads the published stop: run, or cancel.
Claim(w) ==
  /\ wstate[w] = "queued"
  /\ Advance(w, IF wgen[w] \in stopping THEN "cancelling" ELSE "running")
\* A poll returned Pending.  An aborted task and a stopped block_on come back.
Suspend(w) ==
  /\ wstate[w] = "running" /\ pc[w] \in {"idle", "done"} /\ wkind[w] # "blocking"
  /\ Advance(w, IF wgen[w] \in (IF wkind[w] = "task" THEN closed ELSE stopping)
                THEN "queued" ELSE "pending")
Wake(w) ==
  /\ wstate[w] = "pending"
  /\ Advance(w, "queued")
\* The user code is over and its GenerationWorkGuard, if any, retires.  A task
\* may leave an output for its JoinHandle.
Complete(w) ==
  /\ pc[w] \in {"idle", "done"}
  /\ \/ wstate[w] = "running" /\ wkind[w] # "block_on" /\ Advance(w, "retired")
     \/ wstate[w] \in UserCode /\ Advance(w, "gone")

\* ContainedTaskOutput: an unread output is destroyed under the generation of
\* its task, on the stack of whoever drops the JoinHandle.
DropOutput(a, w) ==
  /\ a \in OutputDroppers /\ CanCall(a)
  /\ wstate[w] = "retired"
  /\ wstate' = [wstate EXCEPT ![w] = "output"]
  /\ pc' = [pc EXCEPT ![a] = "dropping", ![w] = "idle"]
  /\ arg' = [arg EXCEPT ![a] = w]
  /\ UNCHANGED <<optVars, stateVars, genVars, wkind, wgen, held, parked, chain>>
OutputDropped(a) ==
  /\ At(a, "dropping")
  /\ wstate[arg[a]] = "gone"
  /\ Return(a)
  /\ UNCHANGED <<optVars, stateVars, genVars, workVars, parked>>

(***************************************************************************)
(* start.  A start of the host that owes a phase 2 is outside the          *)
(* protocol: it would wait for itself.                                     *)
(***************************************************************************)
StartCall(a) ==
  /\ CanCall(a)
  /\ a \in Stoppers => draining.kind \notin {"Backend", "ZeroBackend"}
  /\ Enter(a, "start")
  /\ UNCHANGED <<workVars, arg, chain>>

Stopped == lifecycle.kind \in {"StoppedBeforeFirstUse", "Stopped"}

\* The arms that answer at once, with an error or because nothing is to do.
StartRefused(a) ==
  /\ At(a, "start")
  /\ \/ ~GenerationCurrent(a)
     \/ lifecycle.kind = "Stopping" /\ IsCurrent(a, lifecycle.gen)
     \/ lifecycle.kind = "StoppingWithoutBackend" /\ InDropContext(a)
     \/ (lifecycle.kind = "Initial" \/ Stopped) /\ rejecting # {} /\ InDropContext(a)
     \/ lifecycle.kind = "Stopped" /\ rejecting = {} /\ CreationMayFail
  /\ Return(a)
  /\ UNCHANGED <<optVars, stateVars, genVars, workVars, parked>>
\* Initial stays lazy, Running is kept, StoppedBeforeFirstUse becomes Initial;
\* every one of them forgets the shutdown handoff.
StartKeeps(a) ==
  /\ At(a, "start") /\ GenerationCurrent(a)
  /\ \/ lifecycle.kind = "Running"
     \/ lifecycle.kind \in {"Initial", "StoppedBeforeFirstUse"} /\ rejecting = {}
  /\ lifecycle' = IF Stopped THEN Plain("Initial") ELSE lifecycle
  /\ draining' = Plain("None")
  /\ Return(a)
  /\ UNCHANGED <<optVars, rejecting, phaseEverOpened, currentBackend, genVars,
                 workVars, parked>>
StartCreates(a) ==
  /\ At(a, "start") /\ GenerationCurrent(a)
  /\ lifecycle.kind = "Stopped" /\ rejecting = {}
  /\ CreateBackend
  /\ Return(a)
  /\ UNCHANGED <<workVars, parked>>
StartWaits(a) ==
  /\ At(a, "start") /\ GenerationCurrent(a)
  /\ \/ lifecycle.kind = "Stopping" /\ ~IsCurrent(a, lifecycle.gen)
     \/ lifecycle.kind = "StoppingWithoutBackend" /\ ~InDropContext(a)
     \/ (lifecycle.kind = "Initial" \/ Stopped) /\ rejecting # {} /\ ~InDropContext(a)
  /\ WaitAt(a, "start")

(***************************************************************************)
(* begin_shutdown, phase 1, and the single-call shutdown that starts as it.*)
(***************************************************************************)
ShutdownCall(a, single) ==
  /\ CanCall(a) /\ a \in Stoppers
  /\ chain' = IF single THEN chain \cup {a} ELSE chain
  /\ Enter(a, "begin")
  /\ UNCHANGED <<workVars, arg>>

\* Ok(_): the single call goes on with phase 2.
BeginAnswers(a) ==
  IF a \in chain
  THEN Goto(a, "finish") /\ held' = [held EXCEPT ![a] = 0] /\ UNCHANGED <<arg, chain>>
  ELSE Return(a)

BeginRefused(a) ==
  /\ At(a, "begin")
  /\ \/ ~GenerationCurrent(a)
     \/ draining.kind = "ZeroBackend" /\ InDropContext(a)
     \/ /\ draining.kind = "None"
        /\ \/ lifecycle.kind = "Running" /\ IsCurrent(a, lifecycle.gen)
           \/ /\ lifecycle.kind = "Initial" \/ Stopped
              /\ rejecting # {} /\ InDropContext(a)
  /\ Return(a)
  /\ UNCHANGED <<optVars, stateVars, genVars, workVars, parked>>

\* A stop is outstanding: answer from its handoff, open nothing.
BeginOutstanding(a) ==
  /\ At(a, "begin") /\ GenerationCurrent(a)
  /\ draining.kind # "None"
  /\ draining.kind = "ZeroBackend" => ~InDropContext(a)
  /\ IF draining.gen # 0
     THEN Goto(a, "verdict") /\ held' = [held EXCEPT ![a] = draining.gen]
          /\ UNCHANGED <<arg, chain>>
     ELSE BeginAnswers(a)
  /\ UNCHANGED <<optVars, stateVars, genVars, workVars, parked>>

\* Initial and the stopped states have no backend to drain; what may be left
\* to wait for is a rejected submission being destroyed.
ZeroTarget ==
  IF lifecycle.kind = "Stopped" THEN "Stopped" ELSE "StoppedBeforeFirstUse"
BeginZero(a) ==
  /\ At(a, "begin") /\ GenerationCurrent(a)
  /\ draining.kind = "None"
  /\ lifecycle.kind = "Initial" \/ Stopped
  /\ IF rejecting = {}
     THEN /\ lifecycle' = IF Stopped THEN lifecycle ELSE Plain(ZeroTarget)
          /\ draining' = Plain("Settled")
     ELSE /\ ~InDropContext(a)
          /\ lifecycle' = Towards("StoppingWithoutBackend", ZeroTarget)
          /\ draining' = Towards("ZeroBackend", ZeroTarget)
  /\ phaseEverOpened' = TRUE
  /\ IF Stopped /\ rejecting = {} THEN UNCHANGED parked ELSE NotifyAll
  /\ BeginAnswers(a)
  /\ UNCHANGED <<optVars, rejecting, currentBackend, genVars, workVars>>

BeginRunning(a) ==
  /\ At(a, "begin") /\ GenerationCurrent(a)
  /\ draining.kind = "None"
  /\ lifecycle.kind = "Running" /\ ~IsCurrent(a, lifecycle.gen)
  /\ stopping' = stopping \cup {lifecycle.gen}
  /\ lifecycle' = Carrying("Stopping", lifecycle.gen)
  /\ currentBackend' = 0
  /\ draining' = Carrying("Backend", lifecycle.gen)
  /\ phaseEverOpened' = TRUE
  /\ held' = [held EXCEPT ![a] = lifecycle.gen]
  /\ Goto(a, "closing")
  /\ UNCHANGED <<optVars, rejecting, lastGen, closed, workersUp, workVars, arg,
                 parked, chain>>

\* GenerationWork::close_and_abort, then the executor wakes its block_on frames.
Requeue(W) == wstate' = [w \in Works |->
  IF w \in W /\ wstate[w] = "pending" THEN "queued" ELSE wstate[w]]
\* Mutant: the tasks are aborted, admission stays open.
AbortOnly(a) ==
  /\ At(a, "closing")
  /\ Requeue({w \in Active(held[a]) : wkind[w] = "task"})
  /\ Goto(a, "waking")
  /\ UNCHANGED <<optVars, stateVars, genVars, wkind, wgen, arg, held, parked, chain>>
CloseAndAbort(a) ==
  /\ At(a, "closing")
  /\ closed' = closed \cup {held[a]}
  /\ Requeue({w \in Active(held[a]) : wkind[w] = "task"})
  /\ Goto(a, "waking")
  /\ UNCHANGED <<optVars, stateVars, lastGen, stopping, workersUp, wkind, wgen,
                 arg, held, parked, chain>>
WakeParkers(a) ==
  /\ At(a, "waking")
  /\ Requeue(Active(held[a]))
  /\ Goto(a, "verdict")
  /\ UNCHANGED <<optVars, stateVars, genVars, wkind, wgen, arg, held, parked, chain>>
BeginVerdict(a) ==
  /\ At(a, "verdict")
  /\ BeginAnswers(a)
  /\ UNCHANGED <<optVars, stateVars, genVars, workVars, parked>>

(***************************************************************************)
(* finish_shutdown, phase 2.                                               *)
(***************************************************************************)
FinishCall(a) ==
  /\ CanCall(a) /\ a \in Stoppers
  /\ Enter(a, "finish")
  /\ UNCHANGED <<workVars, arg, chain>>

FinishSettled(a) ==
  /\ At(a, "finish")
  /\ draining.kind = "Settled"
  /\ draining' = Plain("None")
  /\ Return(a)
  /\ UNCHANGED <<optVars, lifecycle, rejecting, phaseEverOpened, currentBackend,
                 genVars, workVars, parked>>
TakesBackend(a, marker) ==
  /\ At(a, "finish")
  /\ draining.kind = "Backend" /\ ~IsCurrent(a, draining.gen)
  /\ draining' = marker
  /\ held' = [held EXCEPT ![a] = draining.gen]
  /\ Goto(a, "joining")
  /\ UNCHANGED <<optVars, lifecycle, rejecting, phaseEverOpened, currentBackend,
                 genVars, workVars, arg, parked, chain>>
\* Mutants: the marker carries no backend; the handoff is not swapped at all.
FinishTakesBare(a)   == TakesBackend(a, Plain("Joining"))
FinishTakesShared(a) == TakesBackend(a, draining)
FinishTakes(a) == TakesBackend(a, Carrying("Joining", draining.gen))

\* The loop of the ZeroBackend arm; another finisher may have published.
ZeroParked ==
  /\ draining.kind = "ZeroBackend"
  /\ lifecycle.kind = "StoppingWithoutBackend"
  /\ draining.target = lifecycle.target
AtZero(a) ==
  \/ At(a, "finish") /\ draining.kind = "ZeroBackend"
  \/ At(a, "finish_zero")
FinishZeroPublishes(a) ==
  /\ AtZero(a) /\ ZeroParked /\ rejecting = {}
  /\ draining' = Plain("None")
  /\ lifecycle' = Plain(draining.target)
  /\ NotifyAll
  /\ Return(a)
  /\ UNCHANGED <<optVars, rejecting, phaseEverOpened, currentBackend, genVars, workVars>>
FinishZeroWaits(a) ==
  /\ AtZero(a) /\ ZeroParked /\ rejecting # {} /\ ~InDropContext(a)
  /\ WaitAt(a, "finish_zero")

\* The loop of the Joining/None arm: wait out the publication, report it.
AtOther(a) ==
  \/ At(a, "finish") /\ draining.kind \in {"Joining", "None"} /\ phaseEverOpened
  \/ At(a, "finish_other")
FinishOtherWaits(a) ==
  /\ AtOther(a)
  /\ \/ lifecycle.kind = "Stopping" /\ ~IsCurrent(a, lifecycle.gen)
     \/ lifecycle.kind = "StoppingWithoutBackend" /\ ~InDropContext(a)
  /\ WaitAt(a, "finish_other")

\* Every answer of phase 2 that leaves the state alone.
FinishReports(a) ==
  /\ \/ At(a, "finish") /\ draining.kind = "Backend" /\ IsCurrent(a, draining.gen)
     \/ At(a, "finish") /\ draining.kind \in {"Joining", "None"} /\ ~phaseEverOpened
     \/ AtZero(a) /\ (ZeroParked => rejecting # {} /\ InDropContext(a))
     \/ AtOther(a) /\ CASE lifecycle.kind = "Stopping" -> IsCurrent(a, lifecycle.gen)
                        [] lifecycle.kind = "StoppingWithoutBackend" -> InDropContext(a)
                        [] OTHER -> TRUE
  /\ Return(a)
  /\ UNCHANGED <<optVars, stateVars, genVars, workVars, parked>>

\* The join: idle generation, marker, workers, rejected destructors, Stopped.
\* Mutant: the join starts without waiting for the generation to be idle.
JoinAtOnce(a) ==
  /\ At(a, "joining")
  /\ Goto(a, "marker")
  /\ UNCHANGED <<optVars, stateVars, genVars, workVars, arg, held, parked, chain>>
WaitUntilIdle(a) ==
  /\ At(a, "joining")
  /\ Active(held[a]) = {}
  /\ Goto(a, "marker")
  /\ UNCHANGED <<optVars, stateVars, genVars, workVars, arg, held, parked, chain>>
ReleaseBackend(a) ==
  /\ At(a, "marker")
  /\ draining' = Plain("Joining")
  /\ held' = [held EXCEPT ![a] = 0]
  /\ Goto(a, "workers")
  /\ UNCHANGED <<optVars, lifecycle, rejecting, phaseEverOpened, currentBackend,
                 genVars, workVars, arg, parked, chain>>
WaitForWorkers(a) ==
  /\ At(a, "workers")
  /\ lifecycle.gen \notin workersUp
  /\ Goto(a, "publish")
  /\ UNCHANGED <<optVars, stateVars, genVars, workVars, arg, held, parked, chain>>
PublishStopped(a) ==
  /\ At(a, "publish") /\ rejecting = {}
  /\ draining' = Plain("None")
  /\ lifecycle' = Plain("Stopped")
  /\ NotifyAll
  /\ Return(a)
  /\ UNCHANGED <<optVars, rejecting, phaseEverOpened, currentBackend, genVars, workVars>>
PublishWaits(a) ==
  /\ At(a, "publish") /\ rejecting # {}
  /\ WaitAt(a, "publish")

(***************************************************************************)
(* The specification.                                                      *)
(***************************************************************************)
Call(a) ==
  \/ \E f \in Flavors : Configure(a, f)
  \/ \E w \in Works, k \in Kinds : Submit(a, w, k)
  \/ \E w \in Works : DropOutput(a, w)
  \/ StartCall(a)
  \/ \E single \in BOOLEAN : ShutdownCall(a, single)
  \/ FinishCall(a)
SubmitStep(a) ==
  \/ FastLoad(a) \/ FastRegister(a) \/ FastRegisterClosed(a)
  \/ SlowRunning(a) \/ SlowCreate(a) \/ SlowReject(a)
  \/ Destroyed(a) \/ Unreject(a) \/ Schedule(a)
  \/ BlockOnReturns(a) \/ OutputDropped(a)
StartStep(a) ==
  \/ StartRefused(a) \/ StartKeeps(a) \/ StartCreates(a) \/ StartWaits(a)
BeginStep(a) ==
  \/ BeginRefused(a) \/ BeginOutstanding(a) \/ BeginZero(a) \/ BeginRunning(a)
  \/ CloseAndAbort(a) \/ WakeParkers(a) \/ BeginVerdict(a)
FinishStep(a) ==
  \/ FinishSettled(a) \/ FinishTakes(a) \/ FinishZeroPublishes(a)
  \/ FinishZeroWaits(a) \/ FinishOtherWaits(a) \/ FinishReports(a)
  \/ WaitUntilIdle(a) \/ ReleaseBackend(a) \/ WaitForWorkers(a)
  \/ PublishStopped(a) \/ PublishWaits(a)
CodeStep(a) == SubmitStep(a) \/ StartStep(a) \/ BeginStep(a) \/ FinishStep(a)

Next ==
  \/ \E a \in Actors : Call(a) \/ CodeStep(a)
  \/ \E w \in Works : Claim(w) \/ Suspend(w) \/ Wake(w) \/ Complete(w)
  \/ \E g \in 1..MaxGen : WorkersExit(g)

Spec == Init /\ [][Next]_vars

\* A thread inside an entry point runs, the executor claims what is queued,
\* user code ends, a released pool exits.  Nothing makes a host call, and
\* nothing wakes a pending future.
Fairness ==
  /\ \A a \in Threads \cup Works : WF_vars(CodeStep(a))
  /\ \A w \in Works : WF_vars(Claim(w)) /\ WF_vars(Complete(w))
  /\ \A g \in 1..MaxGen : WF_vars(WorkersExit(g))
FairSpec == Spec /\ Fairness

(***************************************************************************)
(* Properties.                                                             *)
(***************************************************************************)

\* The shape of every variable: state.lifecycle, state.draining, the mirrors,
\* the generations and the stack of every actor.
TypeOK ==
  /\ flavor \in Flavors
  /\ poolWorkers \in {0, WorkerThreads}
  /\ lifecycle \in LifecycleStates
  /\ rejecting \subseteq Works
  /\ draining \in DrainStates
  /\ phaseEverOpened \in BOOLEAN
  /\ currentBackend \in 0..MaxGen
  /\ lastGen \in 0..MaxGen
  /\ closed \subseteq 0..MaxGen
  /\ stopping \subseteq 0..MaxGen
  /\ workersUp \subseteq 0..MaxGen
  /\ wstate \in [Works -> WorkStates]
  /\ wkind \in [Works -> Kinds \cup {"task"}]
  /\ wgen \in [Works -> 0..MaxGen]
  /\ pc \in [Actors -> Pcs]
  /\ arg \in [Actors -> Works \cup {NoWork}]
  /\ held \in [Actors -> 0..MaxGen]
  /\ parked \subseteq Actors
  /\ chain \subseteq Actors

\* finish_shutdown publishes Stopped only over a quiescent runtime: no admitted
\* submission of any generation is alive, no payload is being destroyed, no pool
\* thread is left, although fast_register takes no lock the stop is made under.
StoppedIsQuiescent ==
  lifecycle.kind = "Stopped" =>
    /\ \A g \in 1..MaxGen : Active(g) = {}
    /\ workersUp = {}

\* While a generation runs or stops, nothing admitted by another one is alive:
\* a start never overlaps the work of the generation before it.
OneLiveGeneration ==
  \A w \in Works : wstate[w] \in Registered => wgen[w] = LifecycleGen

\* Nobody waits for itself: no wait of start or of finish_shutdown is for work,
\* or for a rejected destructor, that is further down the waiter's own stack.
WaitsFor(a) ==
  {w \in Works : \/ pc[a] = "joining" /\ w \in Active(held[a])
                 \/ a \in parked /\ w \in rejecting \cup Active(LifecycleGen)}
NoSelfWait == \A a \in Actors : WaitsFor(a) = {} \/ WaitsFor(a) \cap Stack(a) = {}

\* runtime_work_pending: what the host's poll answers between the phases.
WorkPendingAnswer ==
  CASE draining.gen # 0 -> Active(draining.gen) # {}
    [] draining.kind = "ZeroBackend" -> rejecting # {}
    [] draining.kind = "None" /\ lifecycle.kind = "Running" -> Active(lifecycle.gen) # {}
    [] OTHER -> FALSE

\* While a stop is outstanding the poll answers true as long as user code that
\* phase 2 waits for in the join is alive.
PollSeesAdmittedWork ==
  draining.kind \in {"Backend", "Joining"} =>
    (WorkPendingAnswer <=> \E g \in 1..MaxGen : Active(g) # {})

\* The destructor of a rejected submission never gets work admitted, be it in a
\* state that came after the one that refused it: what it submits is refused in
\* its turn.  An unread output that it drops is other user code, with a generation
\* of its own.
NoAdmissionFromDestructor ==
  \A w \in Works : wstate[w] = "destroying" => pc[w] \notin {"schedule", "driving"}

\* Only begin_shutdown ends a running generation: a finish_shutdown left over
\* from an earlier stop never adopts the generation a start has published.
RunningEndsByPhaseOne ==
  [][lifecycle.kind = "Running" /\ lifecycle' # lifecycle
       => lifecycle' = Carrying("Stopping", lifecycle.gen)]_vars

\* Every finish_shutdown returns, provided rejections cease and no announced
\* stop is left without its phase 2: none of its waits needs another call.
FinishPcs == {"finish", "finish_zero", "finish_other", "joining", "marker",
              "workers", "publish"}
FinishReturns ==
  <>[](rejecting = {}) /\ []<>(draining.kind \notin {"Backend", "ZeroBackend"}) =>
    \A a \in Actors : pc[a] \in FinishPcs ~> pc[a] \notin FinishPcs

(***************************************************************************)
(* The controller implements GenerationBarrier.                            *)
(***************************************************************************)
BarrierPhase ==
  CASE lifecycle.kind = "Running"  -> "open"
    [] lifecycle.kind = "Stopping" -> "closing"
    [] OTHER -> "none"
BarrierLive == [w \in Works |-> IF wstate[w] \in Registered THEN wgen[w] ELSE 0]
Barrier == INSTANCE GenerationBarrier
             WITH phase <- BarrierPhase, gen <- lastGen, live <- BarrierLive

\* Every behaviour of the controller is one of the barrier: admission, retirement,
\* announcement and publication happen in the order GenerationBarrier allows.
ImplementsBarrier == Barrier!Spec

=============================================================================
