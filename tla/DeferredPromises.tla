-------------------------- MODULE DeferredPromises --------------------------
(***************************************************************************)
(* JsDeferred: how a promise is settled, and what an ending environment    *)
(* does to one that is not.                                                *)
(*                                                                         *)
(* The threadsafe function of a deferred waits in a slot that its clones   *)
(* share.  Whoever settles takes it out and queues the settlement without  *)
(* letting go of the slot's lock.  The teardown hook of a native           *)
(* environment and the finalizer of the function empty the slot under the  *)
(* same lock.  On wasm a settlement is counted before it is queued.        *)
(***************************************************************************)
EXTENDS Integers, FiniteSets

CONSTANTS Promises

ASSUME FiniteAssumption == IsFiniteSet(Promises)

VARIABLES
  wasm,      \* whether the addon is a wasm image, which never changes
  outcome,   \* what became of each promise: none, pending, settled, lost
  slot,      \* promises whose slot holds the threadsafe function
  locked,    \* promises whose slot is locked by a settling thread
  queued,    \* settlements in the threadsafe-function queue
  pending    \* PENDING_DEFERRED_SETTLES

deferredVars == <<outcome, slot, locked, queued, pending>>

PromiseTypes ==
  /\ outcome \in [Promises -> {"none", "pending", "settled", "lost"}]
  /\ slot \subseteq Promises /\ locked \subseteq Promises /\ queued \subseteq Promises
  /\ pending \in Nat

PromisesInit ==
  /\ outcome = [p \in Promises |-> "none"]
  /\ slot = {} /\ locked = {} /\ queued = {} /\ pending = 0

Counted(n) == IF wasm THEN pending + n ELSE pending
Released(n) == IF wasm /\ pending > n THEN pending - n ELSE 0

\* JsDeferred::new and, in the same breath, a rejection that is queued or,
\* inside the barrier, delivered.
Create(p) ==
  /\ outcome[p] = "none"
  /\ outcome' = [outcome EXCEPT ![p] = "pending"]
  /\ slot' = slot \cup {p}
  /\ UNCHANGED <<locked, queued, pending>>

CreateDelivered(p) ==
  /\ outcome[p] = "none"
  /\ outcome' = [outcome EXCEPT ![p] = "settled"]
  /\ UNCHANGED <<slot, locked, queued, pending>>

CreateQueued(p) ==
  /\ outcome[p] = "none"
  /\ outcome' = [outcome EXCEPT ![p] = "pending"]
  /\ queued' = queued \cup {p}
  /\ pending' = Counted(1)
  /\ UNCHANGED <<slot, locked>>

\* A settle on the JavaScript thread, which nothing can interrupt.
Deliver(ps) ==
  /\ outcome' = [p \in Promises |-> IF p \in ps \cap slot THEN "settled" ELSE outcome[p]]
  /\ slot' = slot \ ps
  /\ UNCHANGED <<locked, queued, pending>>

Enqueue(p) ==
  /\ p \in slot
  /\ slot' = slot \ {p}
  /\ queued' = queued \cup {p}
  /\ pending' = Counted(1)
  /\ UNCHANGED <<outcome, locked>>

(* Mutant: the lock only covers the look into the slot. *)
TakeUnlocked(p) ==
  /\ p \in slot \ locked
  /\ slot' = slot \ {p}
  /\ pending' = Counted(1)
  /\ UNCHANGED <<outcome, locked, queued>>

\* A settle on any thread: the slot is locked until the call has been made.
Take(p) ==
  /\ p \in slot \ locked
  /\ slot' = slot \ {p}
  /\ locked' = locked \cup {p}
  /\ pending' = Counted(1)
  /\ UNCHANGED <<outcome, queued>>

Call(p) ==
  /\ queued' = queued \cup {p}
  /\ locked' = locked \ {p}
  /\ UNCHANGED <<outcome, slot, pending>>

\* napi_resolve_deferred, dispatched by the host.
Dispatched(p) ==
  /\ p \in queued
  /\ queued' = queued \ {p}
  /\ pending' = Released(1)
  /\ outcome' = [outcome EXCEPT ![p] = "settled"]
  /\ UNCHANGED <<slot, locked>>

\* deferred_env_teardown_cb waits for the lock and aborts the function.
TearDown(p) ==
  /\ p \in slot \ locked
  /\ slot' = slot \ {p}
  /\ UNCHANGED <<outcome, locked, queued, pending>>

(* Mutant: an item drained with a null env is not taken off the count. *)
CloseUncounted(ps) ==
  /\ ps \cap locked = {}
  /\ queued' = queued \ ps
  /\ slot' = slot \ ps
  /\ outcome' = [p \in Promises |->
                   IF p \in ps /\ outcome[p] = "pending" THEN "lost" ELSE outcome[p]]
  /\ UNCHANGED <<locked, pending>>

\* The host closes the functions ps: their queues are drained with a null
\* env, and the finalizers empty the slots.
Close(ps) ==
  /\ ps \cap locked = {}
  /\ queued' = queued \ ps
  /\ pending' = Released(Cardinality(ps \cap queued))
  /\ slot' = slot \ ps
  /\ outcome' = [p \in Promises |->
                   IF p \in ps /\ outcome[p] = "pending" THEN "lost" ELSE outcome[p]]
  /\ UNCHANGED locked
=============================================================================
