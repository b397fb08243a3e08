------------------------------ MODULE AsyncTask ------------------------------
(***************************************************************************)
(* Asynchronous tasks of crates/napi on the libuv pool: async_work::run    *)
(* with its execute and complete callbacks, the AbortSignal handle, the    *)
(* wasm registry of outstanding works, and the native borrow scope whose   *)
(* leases keep what a task captured from its callback's arguments.         *)
(*                                                                         *)
(* The JavaScript thread is one call stack of native frames: a callback    *)
(* (`Calls`) or the completion callback of a work (`Tasks`).  Where a      *)
(* frame runs user code (a callback's body, Task::resolve, Task::finally,  *)
(* the finalizers of released roots) that code may call back into the      *)
(* addon: another callback, an abort, a spawn, a cancel, a disposal.       *)
(* The pool threads take the two steps of `execute`.  All calls borrow the *)
(* one native value that stands for a key of NATIVE_BORROWS.               *)
(***************************************************************************)
EXTENDS Naturals, Sequences, FiniteSets, SequencesExt

CONSTANTS
  Calls,     \* invocations of generated callbacks
  Tasks,     \* the tasks made
  Returns,   \* the tasks a call's return value holds, in conversion order
  Borrow,    \* how a call's argument borrows the value
  Signals,   \* of them, those made by AsyncTask::with_signal, in the order of the
             \* callback's arguments, all on one AbortSignal
  PoolSize,  \* threads of the libuv pool
  MaxDepth   \* bound on native frames on the JavaScript thread's stack

Returned == UNION {ToSet(Returns[c]) : c \in Calls}
\* The other tasks go through Env::spawn, whose caller keeps the AsyncWorkPromise.
Spawned  == Tasks \ Returned

ASSUME TaskAssumption ==
  /\ Calls \cap Tasks = {}
  /\ Returns \in [Calls -> Seq(Tasks)]
  /\ Borrow \in [Calls -> {"none", "shared", "exclusive"}]
  /\ \A c, d \in Calls : \A i \in DOMAIN Returns[c], k \in DOMAIN Returns[d] :
       Returns[c][i] = Returns[d][k] => c = d /\ i = k
  /\ Signals \in [Calls -> Seq(Tasks)]
  /\ \A c \in Calls : ToSet(Signals[c]) \subseteq ToSet(Returns[c])
  /\ PoolSize \in Nat \ {0} /\ MaxDepth \in Nat \ {0}

VARIABLES
  stack,       \* the frames of the JavaScript thread, innermost last
  pc,          \* where each frame is, "never" and "over" before and after it
  work,        \* each task and its napi_async_work
  status,      \* the shared status cell: 0 not started, 1 completed, 2 canceled
  promise,     \* what became of the task's promise
  outstanding, \* OUTSTANDING_ASYNC_WORK
  entries,     \* the AbortSignalStack of the signal
  aborted,     \* the signal fired
  ceded,       \* tasks whose AsyncWorkPromise::cancel the host refused
  guard,       \* scopes that hold their alias guard
  rooted,      \* scopes that hold references to the borrowed wrapper
  closed,      \* NativeBorrowStorage::closed
  leases,      \* NativeBorrowStorage::open_leases
  borrows,     \* the value's NativeBorrowState
  env          \* "live", or "closing" once JavaScript can no longer run

frameVars  == <<stack, pc>>
taskVars   == <<work, status, promise, outstanding, entries, aborted, ceded>>
borrowVars == <<guard, rooted, closed, leases, borrows>>
vars == <<frameVars, taskVars, borrowVars, env>>

Frames == Calls \cup Tasks
\* Where a frame's user code runs.
UserCodePcs == {"body", "resolve", "finally", "finalizers"}
Pcs == {"never", "over", "convert", "reject", "destroy", "release"} \cup UserCodePcs
\* The task, and with it what it borrowed, exists.
Alive == {"made", "queued", "running", "done", "cancelled"}
Works == {"none", "dropped", "freed", "deleted"} \cup Alive

Top == Last(stack)
At(f, where) == stack # <<>> /\ Top = f /\ pc[f] = where
\* JavaScript can call into the addon: from the event loop or from user code.
JsRuns == env = "live" /\ (stack # <<>> => pc[Top] \in UserCodePcs)

Enters(f, where) ==
  /\ Len(stack) < MaxDepth
  /\ pc[f] = "never"
  /\ stack' = Append(stack, f)
  /\ pc' = [pc EXCEPT ![f] = where]
Moves(f, where) ==
  /\ pc' = [pc EXCEPT ![f] = where]
  /\ UNCHANGED stack
Leaves(f) ==
  /\ stack' = Front(stack)
  /\ pc' = [pc EXCEPT ![f] = "over"]

Init ==
  /\ stack = <<>> /\ pc = [f \in Frames |-> "never"]
  /\ work = [t \in Tasks |-> "none"] /\ status = [t \in Tasks |-> 0]
  /\ promise = [t \in Tasks |-> "none"]
  /\ outstanding = {} /\ entries = <<>> /\ aborted = FALSE /\ ceded = {}
  /\ guard = {} /\ rooted = {} /\ closed = {}
  /\ leases = [c \in Calls |-> 0]
  /\ borrows = [shared |-> 0, exclusive |-> FALSE]
  /\ env = "live"

-----------------------------------------------------------------------------
(* Native borrow scopes. *)

Conflict(kind) ==
  \/ kind = "shared" /\ borrows.exclusive
  \/ kind = "exclusive" /\ (borrows.exclusive \/ borrows.shared # 0)

Acquire(c) ==
  /\ borrows' = CASE Borrow[c] = "shared"    -> [borrows EXCEPT !.shared = @ + 1]
                  [] Borrow[c] = "exclusive" -> [borrows EXCEPT !.exclusive = TRUE]
                  [] OTHER                   -> borrows
  /\ guard' = IF Borrow[c] = "none" THEN guard ELSE guard \cup {c}

\* NativeBorrowStorage::release, idempotent once the scope is drained.
ReleaseScope(c) ==
  /\ borrows' = CASE c \in guard /\ Borrow[c] = "shared"    -> [borrows EXCEPT !.shared = @ - 1]
                  [] c \in guard /\ Borrow[c] = "exclusive" -> [borrows EXCEPT !.exclusive = FALSE]
                  [] OTHER                                  -> borrows
  /\ guard' = guard \ {c}
  /\ rooted' = rooted \ {c}

KeepScope == UNCHANGED <<borrows, guard, rooted>>

\* Mutant: closing a scope does not look at its leases.
CloseAnyScope(c) ==
  /\ closed' = closed \cup {c}
  /\ ReleaseScope(c)
  /\ UNCHANGED leases
CloseScope(c) ==
  /\ closed' = closed \cup {c}
  /\ IF leases[c] = 0 THEN ReleaseScope(c) ELSE KeepScope
  /\ UNCHANGED leases

\* Mutant: the last lease of a scope that is already closed releases nothing.
ReleaseLeaseOnly(c) ==
  /\ leases' = [leases EXCEPT ![c] = @ - 1]
  /\ KeepScope
  /\ UNCHANGED closed
ReleaseLease(c) ==
  /\ leases' = [leases EXCEPT ![c] = @ - 1]
  /\ IF c \in closed /\ leases[c] = 1 THEN ReleaseScope(c) ELSE KeepScope
  /\ UNCHANGED closed

\* Mutant: the claim does not root what the task captured.
ClaimUnrooted(c) ==
  /\ leases' = [leases EXCEPT ![c] = @ + 1]
  /\ UNCHANGED <<rooted, borrows, guard, closed>>
ClaimLease(c) ==
  /\ leases' = [leases EXCEPT ![c] = @ + 1]
  /\ rooted' = rooted \cup {c}
  /\ UNCHANGED <<borrows, guard, closed>>

-----------------------------------------------------------------------------
(* A generated callback: convert the arguments, run the body, defer the      *)
(* scope, convert the return value task by task, close the scope.            *)

\* An AbortSignal argument adds the handle of the task to come to the signal's
\* stack, where no abort finds a work to cancel until that task is queued.
EnterCall(c) ==
  /\ JsRuns
  /\ ~Conflict(Borrow[c])
  /\ Enters(c, "body")
  /\ Acquire(c)
  /\ entries' = entries \o Signals[c]
  /\ UNCHANGED <<work, status, promise, outstanding, aborted, ceded, rooted, closed, leases, env>>

\* The borrow is refused: the conversion throws and the body never runs.
ConversionThrows(c) ==
  /\ JsRuns /\ Len(stack) < MaxDepth
  /\ pc[c] = "never"
  /\ Conflict(Borrow[c])
  /\ pc' = [pc EXCEPT ![c] = "over"]
  /\ UNCHANGED <<stack, taskVars, borrowVars, env>>

BodyReturns(c) ==
  /\ At(c, "body")
  /\ Moves(c, "convert")
  /\ work' = [t \in Tasks |-> IF t \in ToSet(Returns[c]) THEN "made" ELSE work[t]]
  /\ UNCHANGED <<status, promise, outstanding, entries, aborted, ceded, borrowVars, env>>

BodyThrows(c) ==
  /\ At(c, "body")
  /\ Moves(c, "convert")
  /\ UNCHANGED <<taskVars, borrowVars, env>>

Unconverted(c) == {t \in ToSet(Returns[c]) : work[t] = "made"}
\* The conversion goes through the return value in order.
NextTask(c, t) ==
  /\ t \in Unconverted(c)
  /\ \A i, k \in DOMAIN Returns[c] :
       Returns[c][i] = t /\ Returns[c][k] \in Unconverted(c) => i <= k

\* async_work::run up to a successful napi_queue_async_work.
Queues(t) ==
  /\ work' = [work EXCEPT ![t] = "queued"]
  /\ promise' = [promise EXCEPT ![t] = "pending"]
  /\ outstanding' = outstanding \cup {t}

ConvertTask(c, t) ==
  /\ env = "live"
  /\ At(c, "convert") /\ NextTask(c, t)
  /\ ClaimLease(c)
  /\ Queues(t)
  /\ UNCHANGED <<frameVars, status, entries, aborted, ceded, env>>

\* Rooting the value, or creating or queueing the work, fails: its task and lease
\* go at once, and with the error the rest of the return value.
ConversionFails(c) ==
  /\ At(c, "convert") /\ Unconverted(c) # {}
  /\ work' = [t \in Tasks |-> IF t \in Unconverted(c) THEN "dropped" ELSE work[t]]
  /\ rooted' \in {rooted, rooted \cup {c}}
  /\ UNCHANGED <<frameVars, status, promise, outstanding, entries, aborted, ceded,
                 guard, closed, leases, borrows, env>>

CallReturns(c) ==
  /\ At(c, "convert") /\ Unconverted(c) = {}
  /\ Leaves(c)
  /\ CloseScope(c)
  /\ UNCHANGED <<taskVars, env>>

-----------------------------------------------------------------------------
(* User code on the JavaScript thread. *)

\* Env::spawn: no signal and no lease.
Spawn(t) ==
  /\ JsRuns
  /\ t \in Spawned /\ work[t] = "none"
  /\ Queues(t)
  /\ UNCHANGED <<frameVars, status, entries, aborted, ceded, borrowVars, env>>

\* napi_cancel_async_work succeeds until a pool thread took the work.
Cancellable(t) == work[t] \in {"queued", "cancelled"}
CancelWork(T) ==
  work' = [t \in Tasks |-> IF t \in T /\ Cancellable(t) THEN "cancelled" ELSE work[t]]

\* AsyncWorkPromise::cancel.
Cancel(t) ==
  /\ JsRuns
  /\ t \in Spawned /\ work[t] # "none" /\ status[t] # 1
  /\ status' = [status EXCEPT ![t] = 2]
  /\ CancelWork({t})
  /\ ceded' = IF Cancellable(t) THEN ceded ELSE ceded \cup {t}
  /\ UNCHANGED <<frameVars, promise, outstanding, entries, aborted, borrowVars, env>>

\* on_abort goes through the handles up to the first whose task completed.
Reached ==
  LET end == SelectInSeq(entries, LAMBDA t : status[t] = 1)
  IN ToSet(IF end = 0 THEN entries ELSE SubSeq(entries, 1, end - 1))
Abort ==
  /\ JsRuns
  /\ entries # <<>> /\ ~aborted
  /\ aborted' = TRUE
  /\ CancelWork(Reached)
  /\ status' = [t \in Tasks |-> IF t \notin Reached THEN status[t]
                                ELSE IF Cancellable(t) THEN 2 ELSE 0]
  /\ UNCHANGED <<frameVars, promise, outstanding, entries, ceded, borrowVars, env>>

\* cancel_pending_async_work, the sweep of a disposal that found work.
CancelPending ==
  /\ JsRuns
  /\ \E t \in outstanding : work[t] = "queued"
  /\ CancelWork(outstanding)
  /\ UNCHANGED <<frameVars, status, promise, outstanding, entries, aborted, ceded, borrowVars, env>>

\* The environment starts to tear down; frames already entered still return.
EnvCloses ==
  /\ env = "live"
  /\ env' = "closing"
  /\ UNCHANGED <<frameVars, taskVars, borrowVars>>

-----------------------------------------------------------------------------
(* The pool: libuv hands a queued work to a thread, whose `execute` ends by  *)
(* writing the value.                                                        *)

Execute(t) ==
  /\ work[t] = "queued"
  /\ Cardinality({x \in Tasks : work[x] = "running"}) < PoolSize
  /\ work' = [work EXCEPT ![t] = "running"]
  /\ UNCHANGED <<frameVars, status, promise, outstanding, entries, aborted, ceded, borrowVars, env>>

Compute(t) ==
  /\ work[t] = "running"
  /\ work' = [work EXCEPT ![t] = "done"]
  /\ UNCHANGED <<frameVars, status, promise, outstanding, entries, aborted, ceded, borrowVars, env>>

-----------------------------------------------------------------------------
(* complete_impl, on the JavaScript thread. *)

\* Mutant: the work leaves the registry as its completion starts.
CompleteUnregistered(t) ==
  /\ stack = <<>>
  /\ work[t] \in {"done", "cancelled"}
  /\ Enters(t, IF work[t] = "cancelled" THEN "reject" ELSE "resolve")
  /\ outstanding' = outstanding \ {t}
  /\ UNCHANGED <<work, status, promise, entries, aborted, ceded, borrowVars, env>>
\* Mutant: a cancelled work is not completed.
CompleteComputed(t) ==
  /\ stack = <<>>
  /\ work[t] = "done"
  /\ Enters(t, "resolve")
  /\ UNCHANGED <<taskVars, borrowVars, env>>
Complete(t) ==
  /\ stack = <<>>
  /\ work[t] \in {"done", "cancelled"}
  /\ Enters(t, IF work[t] = "cancelled" THEN "reject" ELSE "resolve")
  /\ UNCHANGED <<taskVars, borrowVars, env>>

\* The deferred is left alone when the task's own promise was cancelled and
\* cannot be settled when the environment is closing.
Settles(t) == env = "live" /\ (work[t] = "done" => status[t] # 2)
\* settle() answers Ok(false): the environment refused.
Refused(t) == env = "closing" /\ (work[t] = "done" => status[t] # 2)

\* Mutant: the status becomes terminal only where the deferred was settled.
MarkCompletedIfSettled(t) ==
  status' = [status EXCEPT ![t] = IF Settles(t) THEN 1 ELSE @]
MarkCompleted(t) == status' = [status EXCEPT ![t] = 1]

\* settle() and status.set(1), with nothing of the user's in between.
Settle(t) ==
  /\ At(t, "reject") \/ At(t, "resolve")
  /\ promise' = [promise EXCEPT ![t] = IF Settles(t) THEN "settled" ELSE @]
  /\ MarkCompleted(t)
  /\ Moves(t, IF Refused(t) THEN "destroy" ELSE "finally")
  /\ UNCHANGED <<work, outstanding, entries, aborted, ceded, borrowVars, env>>

\* settle() fails: its error, thrown into the environment, stands for the promise.
SettleThrows(t) ==
  /\ At(t, "reject") \/ At(t, "resolve")
  /\ promise' = [promise EXCEPT ![t] = "thrown"]
  /\ MarkCompleted(t)
  /\ Moves(t, "destroy")
  /\ UNCHANGED <<work, outstanding, entries, aborted, ceded, borrowVars, env>>

FinallyReturns(t) ==
  /\ At(t, "finally")
  /\ Moves(t, "destroy")
  /\ UNCHANGED <<taskVars, borrowVars, env>>

\* The box goes, and with it every reference the task captured.
DestroyTask(t) ==
  /\ At(t, "destroy")
  /\ work' = [work EXCEPT ![t] = "freed"]
  /\ Moves(t, "release")
  /\ UNCHANGED <<status, promise, outstanding, entries, aborted, ceded, borrowVars, env>>

Leases(t) == {c \in Calls : t \in ToSet(Returns[c])}
ReleasesLease(t) ==
  /\ At(t, "release")
  /\ Moves(t, "finalizers")
  /\ IF Leases(t) = {} THEN UNCHANGED borrowVars
     ELSE \E c \in Leases(t) : ReleaseLease(c)
  /\ UNCHANGED <<taskVars, env>>

\* The work leaves the registry and napi_delete_async_work frees the handle.
DeleteWork(t) ==
  /\ At(t, "finalizers")
  /\ Leaves(t)
  /\ outstanding' = outstanding \ {t}
  /\ work' = [work EXCEPT ![t] = "deleted"]
  /\ UNCHANGED <<status, promise, entries, aborted, ceded, borrowVars, env>>

-----------------------------------------------------------------------------
CallStep(c) ==
  \/ BodyReturns(c) \/ BodyThrows(c) \/ ConversionFails(c) \/ CallReturns(c)
  \/ \E t \in Tasks : ConvertTask(c, t)
CompleteStep(t) ==
  \/ Settle(t) \/ SettleThrows(t) \/ FinallyReturns(t) \/ DestroyTask(t) \/ ReleasesLease(t) \/ DeleteWork(t)

Next ==
  \/ \E c \in Calls : EnterCall(c) \/ ConversionThrows(c) \/ CallStep(c)
  \/ \E t \in Tasks :
       \/ Spawn(t) \/ Cancel(t)
       \/ Execute(t) \/ Compute(t)
       \/ Complete(t) \/ CompleteStep(t)
  \/ Abort \/ CancelPending \/ EnvCloses

Spec == Init /\ [][Next]_vars

\* Frames return, the pool works and the event loop turns; nothing says that
\* anybody calls, aborts, cancels or closes.
FairSpec ==
  /\ Spec
  /\ \A c \in Calls : WF_vars(CallStep(c))
  /\ \A t \in Tasks :
       /\ WF_vars(Execute(t) \/ Compute(t))
       /\ WF_vars(Complete(t) \/ CompleteStep(t))

-----------------------------------------------------------------------------
(* Properties. *)

\* Every variable keeps its type, and the alias state counts exactly the scopes
\* that hold a guard.
TypeOK ==
  /\ stack \in Seq(Frames) /\ Len(stack) <= MaxDepth
  /\ pc \in [Frames -> Pcs]
  /\ work \in [Tasks -> Works]
  /\ status \in [Tasks -> 0..2]
  /\ promise \in [Tasks -> {"none", "pending", "settled", "thrown"}]
  /\ outstanding \subseteq Tasks /\ ceded \subseteq Tasks
  /\ entries \in Seq(Tasks) /\ aborted \in BOOLEAN
  /\ guard \subseteq Calls /\ rooted \subseteq Calls /\ closed \subseteq Calls
  /\ leases \in [Calls -> Nat]
  /\ borrows = [shared |-> Cardinality({c \in guard : Borrow[c] = "shared"}),
                exclusive |-> \E c \in guard : Borrow[c] = "exclusive"]
  /\ env \in {"live", "closing"}

\* The calls whose borrowed reference still exists: in the callback's own
\* frame, or captured by a task of its return value, on whatever thread.
Users == {c \in Calls : \/ pc[c] = "body"
                        \/ \E t \in ToSet(Returns[c]) : work[t] \in Alive}

\* Nobody holds the value mutably while anybody else holds it at all, however
\* callbacks nest, tasks outlive their callback, fail to queue, are cancelled
\* or complete after the environment closed.
NoAliasing ==
  \A c, d \in Users : c # d /\ Borrow[c] = "exclusive" => Borrow[d] = "none"

\* What a task borrowed is rooted from the return of its callback to the end
\* of the task, so that no garbage collection frees it under `compute`.
WrapperStaysRooted ==
  \A c \in Users : pc[c] = "over" => c \in rooted

\* When a disposal reads no outstanding work it may destroy the environment:
\* by then every promise of a queued work is settled or its failure was thrown,
\* but for those whose AsyncWorkPromise was told to cancel work already under
\* way, and no task still holds a lease.
NoneOutstandingMeansSettled ==
  outstanding = {} /\ env = "live" =>
    /\ \A t \in Tasks : promise[t] = "pending" => t \in ceded
    /\ \A c \in closed : leases[c] = 0 /\ c \notin guard

\* Nobody hands the host a freed napi_async_work: the status of a freed handle
\* reads completed for on_abort and AsyncWorkPromise::cancel, which go by it,
\* and the sweep no longer finds it.
FreedHandlesAreMarked ==
  \A t \in Tasks : work[t] = "deleted" => status[t] = 1 /\ t \notin outstanding

\* Every queued work is completed and its handle freed, even if the environment
\* closes meanwhile.
WorkEnds == \A t \in Tasks : work[t] = "queued" ~> work[t] = "deleted"

\* The value becomes free again: no path of a call or of its tasks keeps the
\* alias guard of a scope.
BorrowEnds == \A c \in Calls : c \in guard ~> c \notin guard
=============================================================================
