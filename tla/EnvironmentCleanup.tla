------------------------- MODULE EnvironmentCleanup -------------------------
(***************************************************************************)
(* Environments load one image of an addon, dispatch futures to the custom *)
(* backend, and end.  A native environment ends by running its cleanup     *)
(* hooks in reverse order; the last one stops the backend.  A wasm         *)
(* environment is disposed of by its loader: the backend is told to stop,  *)
(* the event loop turns until its work is done, the cancellations parked   *)
(* meanwhile are replayed, queued settlements are waited for, and only     *)
(* then is the context destroyed.  A host may also leave out the turns, or *)
(* walk away in the middle and load the image again.                       *)
(*                                                                         *)
(* Every native environment has a JavaScript thread of its own; the ones   *)
(* of a wasm image share one.                                              *)
(***************************************************************************)
EXTENDS RuntimeRegistry, DeferredPromises

CONSTANTS
  Targets,       \* subset of {"native", "wasm"} that a behaviour may be about
  TurnTasks,     \* tasks whose poll, on wasm, waits for a JavaScript turn
  MaxExplicit    \* bound on explicit starts and stops

ASSUME PromisesAssumption == Nobody \notin Promises /\ TurnTasks \subseteq Promises
ASSUME BoundAssumption == MaxExplicit \in Nat

VARIABLES
  life,       \* control of each environment
  count,      \* MODULE_COUNT
  calls,      \* the dispatch each JavaScript thread is in the middle of
  owner,      \* the environment that made each promise
  early,      \* promises made before the cleanup hook was added
  explicit,   \* explicit starts and stops so far
  task,       \* control of the task behind each promise
  latch,      \* WASM_ENV_DISPOSING
  begun,      \* WASM_ENV_CLEANUP_BEGUN
  depth,      \* WASM_ENV_CLEANUP_DEPTH of the JavaScript thread
  mailbox,    \* whether WASM_CANCEL_MAILBOX is open,
  parked,     \* and the cancellations in it
  barred,     \* promises whose task was canceled with the barrier raised
  raw         \* environments destroyed without the turns they need

promiseVars == <<owner, early>>
envVars == <<life, count, calls, promiseVars, explicit>>
barrierVars == <<latch, begun, depth, mailbox, parked, raw>>
taskVars == <<task, barred>>
vars == <<registryVars, wasm, deferredVars, envVars, barrierVars, taskVars>>

Of(e) == {p \in Promises : owner[p] = e}
Alive == {p \in Promises : task[p] \in {"queued", "running", "value", "cancel", "calling"}}
WorkPending == Alive # {}
Lives(e, l) == life' = [life EXCEPT ![e] = l]
Becomes(p, t) == task' = [task EXCEPT ![p] = t]

\* A thread inside an export, the loader's synchronous code or a teardown.
Synchronous == {"unwind", "begin", "closing", "finish", "hooks", "early"}
Busy(e) == ~ Out(e) \/ calls[e] # Nobody \/ life[e] \in Synchronous
Idle(e) == \A f \in Envs : f = e \/ wasm => ~ Busy(f)

Stages == {"out", "init", "live", "turns", "drain", "dead", "left"} \cup Synchronous
Tasks == {"none", "new", "queued", "running", "value", "cancel", "calling", "parked", "over"}
EnvTypes ==
  /\ life \in [Envs -> Stages]
  /\ count \in Int /\ explicit \in 0 .. MaxExplicit
  /\ calls \in [Envs -> Promises \cup {Nobody}]
  /\ owner \in [Promises -> Envs \cup {Nobody}] /\ early \subseteq Promises
BarrierTypes ==
  /\ wasm \in BOOLEAN /\ latch \in BOOLEAN /\ begun \in BOOLEAN /\ mailbox \in BOOLEAN
  /\ depth \in Nat /\ parked \subseteq Promises /\ raw \subseteq Envs
TaskTypes == task \in [Promises -> Tasks] /\ barred \subseteq Promises

TypeOK == RegistryTypes /\ PromiseTypes /\ EnvTypes /\ BarrierTypes /\ TaskTypes

Init ==
  /\ RegistryInit /\ PromisesInit
  /\ wasm \in {t = "wasm" : t \in Targets}
  /\ life = [e \in Envs |-> "out"]
  /\ count = 0 /\ calls = [e \in Envs |-> Nobody]
  /\ owner = [p \in Promises |-> Nobody] /\ early = {} /\ explicit = 0
  /\ task = [p \in Promises |-> "none"] /\ barred = {}
  /\ latch = FALSE /\ begun = FALSE /\ depth = 0
  /\ mailbox = FALSE /\ parked = {} /\ raw = {}

-----------------------------------------------------------------------------
(* The runtime functions a JavaScript thread calls. *)

StartRuntime(e) ==
  IF ~ latch /\ phase = "Idle" THEN Claim(e) ELSE UNCHANGED registryVars

(* Mutant: shutdown_async_runtime joins past the barrier too. *)
StopNeverRefused == FALSE

StopRefused == latch

Explicit(e) ==
  /\ life[e] \in {"live", "turns", "drain"} /\ Idle(e)
  /\ explicit < MaxExplicit /\ explicit' = explicit + 1
  /\ UNCHANGED <<wasm, deferredVars, life, count, calls, promiseVars, barrierVars, taskVars>>

ExplicitStart(e) == Explicit(e) /\ StartRuntime(e)

ExplicitStop(e) == Explicit(e) /\ ~ StopRefused /\ Deactivate(e)

\* execute_future_impl, first past the barrier of a wasm environment.
Dispatches(e, p) ==
  /\ life[e] \in {"init", "live", "turns", "drain"} /\ Idle(e)
  /\ owner' = [owner EXCEPT ![p] = e]
  /\ UNCHANGED <<wasm, life, count, explicit, barrierVars, barred>>

DispatchRefused(e, p) ==
  /\ latch
  /\ Dispatches(e, p)
  /\ IF depth > 0 THEN CreateDelivered(p) ELSE CreateQueued(p)
  /\ Becomes(p, "over")
  /\ UNCHANGED <<registryVars, calls, early>>

Dispatch(e, p) ==
  /\ ~ latch
  /\ Dispatches(e, p)
  /\ Create(p)
  /\ StartRuntime(e)
  /\ calls' = [calls EXCEPT ![e] = p]
  /\ early' = IF life[e] = "init" THEN early \cup {p} ELSE early
  /\ Becomes(p, "new")

Spawns(e, p) ==
  /\ Out(e) /\ calls[e] = p
  /\ calls' = [calls EXCEPT ![e] = Nobody]
  /\ UNCHANGED <<registryVars, wasm, life, count, promiseVars, explicit, barrierVars, barred>>

Spawn(e, p) ==
  /\ Spawns(e, p)
  /\ backend = "running"
  /\ Becomes(p, "queued")
  /\ UNCHANGED deferredVars

\* The task comes back and its promise is rejected on this thread.
Decline(e, p) ==
  /\ Spawns(e, p)
  /\ Enqueue(p)
  /\ Becomes(p, "over")

\* The rest of a start or of a stop, whoever asked for it.
Continue(e) ==
  /\ \/ SkipStart(e) \/ Revalidate(e) \/ CompleteStart(e)
     \/ ~ WorkPending /\ ShutdownReturns(e)
     \/ ResetPhase(e)
  /\ UNCHANGED <<wasm, deferredVars, envVars, barrierVars, taskVars>>

-----------------------------------------------------------------------------
(* napi_register_module_v1. *)

Registers(e) ==
  /\ life[e] = "out" /\ Idle(e)
  /\ UNCHANGED <<wasm, deferredVars, calls, promiseVars, explicit, latch, raw, taskVars>>

Walked(e) == [f \in Envs |-> IF f = e THEN "unwind" ELSE IF life[f] = "turns" THEN "left" ELSE life[f]]

\* An abandoned handshake with work pending: the barrier comes down and the
\* mailbox goes, the registration is refused and the finish stays owed.
RefuseRegistration(e) ==
  /\ Registers(e)
  /\ begun /\ WorkPending
  /\ depth' = 0 /\ mailbox' = FALSE /\ parked' = {}
  /\ life' = [Walked(e) EXCEPT ![e] = "out"]
  /\ UNCHANGED <<registryVars, count, begun>>

\* Without work pending the abandoned handshake is finished here.
Unwind(e) ==
  /\ Registers(e)
  /\ begun /\ ~ WorkPending
  /\ depth' = 0 /\ mailbox' = FALSE /\ parked' = {}
  /\ begun' = FALSE
  /\ Deactivate(e)
  /\ life' = Walked(e)
  /\ UNCHANGED count

Enrol(e) ==
  /\ \/ /\ life[e] = "out" /\ Idle(e)
        /\ wasm => ~ begun /\ \A f \in Envs : life[f] \in {"out", "dead", "left"}
     \/ life[e] = "unwind" /\ Out(e)
  /\ latch' = FALSE
  /\ count' = count + 1
  /\ Lives(e, "init")
  /\ UNCHANGED <<registryVars, wasm, deferredVars, calls, promiseVars, explicit, begun, depth,
                 mailbox, parked, raw, taskVars>>

\* The end of registration: activation, and the cleanup hook.
Activate(e) ==
  /\ life[e] = "init" /\ Idle(e)
  /\ StartRuntime(e)
  /\ Lives(e, "live")
  /\ UNCHANGED <<wasm, deferredVars, count, calls, promiseVars, explicit, barrierVars, taskVars>>

-----------------------------------------------------------------------------
(* The end of an environment.  Hooks run in reverse order: those of the    *)
(* promises made since, thread_cleanup, those of the promises made before. *)

Leave(e) ==
  /\ ~ wasm
  /\ life[e] = "live" /\ Idle(e)
  /\ Lives(e, "hooks")
  /\ UNCHANGED <<registryVars, wasm, deferredVars, count, calls, promiseVars, explicit,
                 barrierVars, taskVars>>

Hooked(e) == IF life[e] = "early" THEN early ELSE Promises \ early
HooksRan(e) == wasm \/ Of(e) \cap Hooked(e) \cap (slot \cup locked) = {}

Hook(e, p) ==
  /\ ~ wasm
  /\ life[e] \in {"hooks", "early"} /\ Out(e)
  /\ p \in Of(e) \cap Hooked(e)
  /\ TearDown(p)
  /\ UNCHANGED <<registryVars, wasm, envVars, barrierVars, taskVars>>

(* Mutant: the value before the decrement is taken for the one after it. *)
CleanupHookAtZero(e) ==
  /\ life[e] = "hooks" /\ HooksRan(e)
  /\ count' = count - 1
  /\ IF count = 0 /\ ~ StopRefused THEN Deactivate(e) ELSE UNCHANGED registryVars
  /\ Lives(e, "early")
  /\ UNCHANGED <<wasm, deferredVars, calls, promiseVars, explicit, barrierVars, taskVars>>

CleanupHook(e) ==
  /\ life[e] = "hooks" /\ HooksRan(e)
  /\ count' = count - 1
  /\ IF count = 1 /\ ~ StopRefused THEN Deactivate(e) ELSE UNCHANGED registryVars
  /\ Lives(e, "early")
  /\ UNCHANGED <<wasm, deferredVars, calls, promiseVars, explicit, barrierVars, taskVars>>

Finalize(e) ==
  /\ life[e] = "early" /\ Out(e) /\ HooksRan(e)
  /\ Close(Of(e))
  /\ Lives(e, "dead")
  /\ UNCHANGED <<registryVars, wasm, count, calls, promiseVars, explicit, barrierVars, taskVars>>

-----------------------------------------------------------------------------
(* The disposal of a wasm environment: wasm_env_cleanup_begin and          *)
(* wasm_env_cleanup_finish, and the loader between and after them.         *)

Cleans(e, from, to) ==
  /\ life[e] = from
  /\ Lives(e, to)
  /\ UNCHANGED <<wasm, count, calls, promiseVars, explicit, taskVars>>

(* Mutant: cancellations are not parked. *)
CleanupBeginUnparked(e, rawly) ==
  /\ wasm /\ Idle(e)
  /\ Cleans(e, "live", "begin")
  /\ latch' = TRUE /\ depth' = depth + 1 /\ begun' = TRUE
  /\ raw' = IF rawly THEN raw \cup {e} ELSE raw
  /\ UNCHANGED <<registryVars, deferredVars, mailbox, parked>>

CleanupBegin(e, rawly) ==
  /\ wasm /\ Idle(e)
  /\ Cleans(e, "live", "begin")
  /\ mailbox' = TRUE /\ latch' = TRUE /\ depth' = depth + 1 /\ begun' = TRUE
  /\ raw' = IF rawly THEN raw \cup {e} ELSE raw
  /\ UNCHANGED <<registryVars, deferredVars, parked>>

\* The loader yields only when the announced stop owes a wait.
BeginBackend(e) ==
  /\ Cleans(e, "begin", IF e \notin raw /\ WorkPending THEN "turns" ELSE "closing")
  /\ BeginDeactivate(e)
  /\ UNCHANGED <<deferredVars, barrierVars>>

EndTurns(e) ==
  /\ Idle(e) /\ ~ WorkPending
  /\ Cleans(e, "turns", "closing")
  /\ UNCHANGED <<registryVars, deferredVars, barrierVars>>

\* A caller that cannot yield closes the parked handshake.
Exit(e) ==
  /\ Idle(e)
  /\ Cleans(e, "turns", "closing")
  /\ raw' = raw \cup {e}
  /\ UNCHANGED <<registryVars, deferredVars, latch, begun, depth, mailbox, parked>>

CleanupFinish(e) ==
  /\ Cleans(e, "closing", "finish")
  /\ begun' = FALSE
  /\ Deactivate(e)
  /\ UNCHANGED <<deferredVars, latch, depth, mailbox, parked, raw>>

\* The joining thread drops what no worker has taken.
DropHere(e, p) ==
  /\ life[e] = "finish" /\ at[e] = "stopping" /\ task[p] = "queued"
  /\ Deliver({p})
  /\ Becomes(p, "over")
  /\ barred' = barred \cup {p}
  /\ UNCHANGED <<registryVars, wasm, envVars, barrierVars>>

\* drain_wasm_cancel_mailbox, still inside the barrier that comes down next.
Replay(e) ==
  /\ Out(e) /\ life[e] = "finish"
  /\ Deliver(parked)
  /\ parked' = {} /\ mailbox' = FALSE
  /\ depth' = IF depth > 0 THEN depth - 1 ELSE 0
  /\ Lives(e, IF e \in raw THEN "hooks" ELSE "drain")
  /\ task' = [p \in Promises |-> IF p \in parked THEN "over" ELSE task[p]]
  /\ UNCHANGED <<registryVars, wasm, count, calls, promiseVars, explicit, latch, begun, raw, barred>>

\* The context is destroyed once no settlement is queued, or by a caller that
\* does not wait for that.
Drained(e) ==
  /\ Idle(e) /\ pending = 0
  /\ Cleans(e, "drain", "hooks")
  /\ UNCHANGED <<registryVars, deferredVars, barrierVars>>

DestroyRaw(e) ==
  /\ Idle(e)
  /\ Cleans(e, "drain", "hooks")
  /\ raw' = raw \cup {e}
  /\ UNCHANGED <<registryVars, deferredVars, latch, begun, depth, mailbox, parked>>

\* The owed finish of a host that came back; the mailbox and the barrier are
\* gone by then.
FinishLeft(e) ==
  /\ Idle(e) /\ begun /\ ~ WorkPending
  /\ Cleans(e, "left", "left")
  /\ begun' = FALSE
  /\ Deactivate(e)
  /\ UNCHANGED <<deferredVars, latch, depth, mailbox, parked, raw>>

-----------------------------------------------------------------------------
(* The threads of the backend, and the host. *)

Works(p, from, to) ==
  /\ task[p] = from
  /\ Becomes(p, to)
  /\ UNCHANGED <<registryVars, wasm, envVars, latch, begun, depth, mailbox, raw>>

Run(p) ==
  /\ backend = "running"
  /\ Works(p, "queued", "running")
  /\ UNCHANGED <<deferredVars, parked, barred>>

NeedsTurn(p) == wasm /\ p \in TurnTasks

Complete(p) ==
  /\ task[p] = "running"
  /\ NeedsTurn(p) => Idle(owner[p])
  /\ Works(p, "running", "value")
  /\ UNCHANGED <<deferredVars, parked, barred>>

\* A stopping backend drops what is not being polled: AsyncRuntimeTask::drop.
Drop(p) ==
  /\ backend = "stopping"
  /\ \E from \in {"queued", "running"} :
       /\ from = "running" => ~ NeedsTurn(p)
       /\ Works(p, from, IF mailbox THEN "parked" ELSE "cancel")
  /\ parked' = IF mailbox THEN parked \cup {p} ELSE parked
  /\ barred' = IF depth > 0 THEN barred \cup {p} ELSE barred
  /\ UNCHANGED deferredVars

Settle(p) ==
  /\ \E from \in {"value", "cancel"} : Works(p, from, "calling")
  /\ Take(p)
  /\ UNCHANGED <<parked, barred>>

\* The slot is empty: the resolver is dropped.
SettleNothing(p) ==
  /\ p \notin slot \cup locked
  /\ \E from \in {"value", "cancel"} : Works(p, from, "over")
  /\ UNCHANGED <<deferredVars, parked, barred>>

CallFunction(p) ==
  /\ Works(p, "calling", "over")
  /\ Call(p)
  /\ UNCHANGED <<parked, barred>>

HostDispatch(p) ==
  /\ p \in queued
  /\ Idle(owner[p]) /\ life[owner[p]] \in {"live", "turns", "drain", "left"}
  /\ Dispatched(p)
  /\ UNCHANGED <<registryVars, wasm, envVars, barrierVars, taskVars>>

-----------------------------------------------------------------------------
\* What a JavaScript thread does once it is inside an export or a teardown.
ThreadStep(e) ==
  \/ Continue(e) \/ (life[e] = "unwind" /\ Enrol(e))
  \/ CleanupHook(e) \/ Finalize(e) \/ BeginBackend(e) \/ CleanupFinish(e) \/ Replay(e)
  \/ \E p \in Promises : Spawn(e, p) \/ Decline(e, p) \/ Hook(e, p) \/ DropHere(e, p)

\* What the loader does once the turns it waited for have been taken.
LoaderStep(e) == EndTurns(e) \/ Drained(e)

\* What JavaScript and the host choose to do.
HostStep(e) ==
  \/ ExplicitStart(e) \/ ExplicitStop(e)
  \/ \E p \in Promises : DispatchRefused(e, p) \/ Dispatch(e, p)
  \/ RefuseRegistration(e) \/ Unwind(e) \/ Enrol(e) \/ Activate(e)
  \/ Leave(e) \/ (\E rawly \in BOOLEAN : CleanupBegin(e, rawly))
  \/ Exit(e) \/ DestroyRaw(e) \/ FinishLeft(e)

WorkStep(p) ==
  \/ Run(p) \/ Complete(p) \/ Drop(p) \/ Settle(p) \/ SettleNothing(p) \/ CallFunction(p)

Next ==
  \/ \E e \in Envs : ThreadStep(e) \/ LoaderStep(e) \/ HostStep(e)
  \/ \E p \in Promises : WorkStep(p) \/ HostDispatch(p)

\* Threads run, polls return, and the event loop of a live environment turns;
\* nothing is assumed of when environments come and go.
Fairness ==
  /\ \A e \in Envs : WF_vars(ThreadStep(e)) /\ WF_vars(LoaderStep(e))
  /\ \A p \in Promises : WF_vars(WorkStep(p)) /\ WF_vars(HostDispatch(p))

Spec == Init /\ [][Next]_vars /\ Fairness

-----------------------------------------------------------------------------
(* Once every environment is gone, the backend is stopped, no task of it   *)
(* is left and the phase lets the next environment start it: the addon     *)
(* image may be unloaded (thread_cleanup, napi_prepare_wasm_env_cleanup).  *)
QuietWithoutEnvironments ==
  (\A e \in Envs : life[e] \in {"out", "dead"} /\ Out(e))
    => backend = "stopped" /\ phase = "Idle" /\ ~ WorkPending

(* A wasm environment is not destroyed over a promise that has not         *)
(* settled.  A host that destroys it without the turns the loader takes    *)
(* still gets every rejection of a task that its own teardown canceled     *)
(* (WASM_CANCEL_MAILBOX).                                                  *)
NothingIsStranded ==
  wasm => \A p \in Promises :
            owner[p] # Nobody /\ life[owner[p]] = "dead" =>
              \/ outcome[p] = "settled"
              \/ owner[p] \in raw /\ p \notin barred

(* No thread is about to call a threadsafe function that the teardown hook *)
(* of its promise or the finalizer has got past (JsDeferred::call_tsfn).   *)
CallsLiveFunction ==
  \A p \in Promises :
    task[p] = "calling" =>
      /\ life[owner[p]] # "dead"
      /\ life[owner[p]] = "early" => wasm \/ p \in early

(* An environment that begins to end is gone eventually, unless its host   *)
(* walked away from it or would not turn the event loop.                   *)
EndsComplete ==
  \A e \in Envs :
    life[e] \in {"begin", "turns", "closing", "finish", "drain", "hooks", "early"}
      ~> life[e] \in {"dead", "left"} \/ e \in raw
=============================================================================
