---------------------- MODULE EnvironmentCleanupProofs ----------------------
(***************************************************************************)
(* For any environments and promises: the environments drive the registry  *)
(* as its own specification allows, so every start is owed; no thread      *)
(* calls a threadsafe function whose environment has got past it; an image *)
(* whose environments are gone has a stopped backend and no task; and no   *)
(* wasm environment is destroyed over a promise that has not settled.      *)
(*                                                                         *)
(* The last two rest on where the environments of an image can be at the   *)
(* same time: one at a time is in a disposal, and while it is nobody       *)
(* starts the backend that its finish stops.                               *)
(***************************************************************************)
EXTENDS EnvironmentCleanup, FiniteSetTheorems, TLAPS

-----------------------------------------------------------------------------
(* The registry on its own: a backend is started only for a claim made     *)
(* since the last teardown returned.  While the phase is not Idle the      *)
(* claim behind it is owed, except between the return of a shutdown and    *)
(* the reset of the phase; the lifecycle lock keeps every start out of     *)
(* that window.                                                            *)

Stopped == \E e \in Envs : at[e] = "stopped"

LockHeld == \A e \in Envs : at[e] \in {"starting", "stopping", "stopped"} => lifecycle = e
PhaseIsOwed == phase # "Idle" => owed \/ Stopped
StartIsOwed == \A e \in Envs : at[e] = "starting" => owed

RegistryInv == RegistryTypes /\ LockHeld /\ PhaseIsOwed /\ StartIsOwed

USE NobodyAssumption

LEMMA RegistryInit_Inv == RegistryInit => RegistryInv
BY DEF RegistryInit, RegistryInv, RegistryTypes, LockHeld, PhaseIsOwed, StartIsOwed

(* Every step keeps the types. *)
LEMMA TypesKept == RegistryTypes /\ [RegistryNext]_registryVars => RegistryTypes'
BY DEF RegistryTypes, RegistryNext, registryVars, Out, Enters, TakesLock, GivesLock, Announce,
   Claim, SkipStart, Revalidate, CompleteStart, BeginDeactivate, Deactivate, ShutdownReturns,
   ResetPhase

(* Whoever starts or stops holds the lock. *)
LEMMA LockKept == RegistryTypes /\ LockHeld /\ [RegistryNext]_registryVars => LockHeld'
BY DEF RegistryTypes, LockHeld, RegistryNext, registryVars, Out, Enters, TakesLock, GivesLock,
   Announce, Claim, SkipStart, Revalidate, CompleteStart, BeginDeactivate, Deactivate,
   ShutdownReturns, ResetPhase

(* The claim behind the phase is owed unless a shutdown has just returned. *)
LEMMA PhaseKept == RegistryInv /\ [RegistryNext]_registryVars => PhaseIsOwed'
<1> SUFFICES ASSUME RegistryInv, [RegistryNext]_registryVars PROVE PhaseIsOwed'
  OBVIOUS
<1> USE DEF RegistryInv, RegistryTypes, PhaseIsOwed, Stopped, Enters
<1>1. CASE UNCHANGED registryVars
  BY <1>1 DEF registryVars
<1>2. ASSUME NEW e \in Envs, Claim(e) PROVE PhaseIsOwed'
  BY <1>2 DEF Claim
<1>3. ASSUME NEW e \in Envs, SkipStart(e) PROVE PhaseIsOwed'
  BY <1>3 DEF SkipStart
<1>4. ASSUME NEW e \in Envs, Revalidate(e) PROVE PhaseIsOwed'
  BY <1>4 DEF Revalidate
<1>5. ASSUME NEW e \in Envs, CompleteStart(e) PROVE PhaseIsOwed'
  BY <1>5 DEF CompleteStart, StartIsOwed
<1>6. ASSUME NEW e \in Envs, BeginDeactivate(e) PROVE PhaseIsOwed'
  BY <1>6 DEF BeginDeactivate
<1>7. ASSUME NEW e \in Envs, Deactivate(e) PROVE PhaseIsOwed'
  BY <1>7 DEF Deactivate, Out
<1>8. ASSUME NEW e \in Envs, ShutdownReturns(e) PROVE PhaseIsOwed'
  BY <1>8 DEF ShutdownReturns
<1>9. ASSUME NEW e \in Envs, ResetPhase(e) PROVE PhaseIsOwed'
  BY <1>9 DEF ResetPhase
<1>10. QED
  BY <1>1, <1>2, <1>3, <1>4, <1>5, <1>6, <1>7, <1>8, <1>9 DEF RegistryNext

(* A start under way is owed: nobody can have stopped the backend since    *)
(* its claim was looked at again.                                          *)
LEMMA StartKept == RegistryInv /\ [RegistryNext]_registryVars => StartIsOwed'
<1> SUFFICES ASSUME RegistryInv, [RegistryNext]_registryVars PROVE StartIsOwed'
  OBVIOUS
<1> USE DEF RegistryInv, RegistryTypes, StartIsOwed, Enters
<1>1. CASE UNCHANGED registryVars
  BY <1>1 DEF registryVars
<1>2. ASSUME NEW e \in Envs, Claim(e) PROVE StartIsOwed'
  BY <1>2 DEF Claim
<1>3. ASSUME NEW e \in Envs, SkipStart(e) PROVE StartIsOwed'
  BY <1>3 DEF SkipStart
<1>4. ASSUME NEW e \in Envs, Revalidate(e) PROVE StartIsOwed'
  <2>1. ~ Stopped /\ phase = "Starting"
    BY <1>4 DEF Revalidate, Stopped, LockHeld, TakesLock
  <2>2. owed
    BY <2>1 DEF PhaseIsOwed
  <2>3. QED
    BY <1>4, <2>2 DEF Revalidate
<1>5. ASSUME NEW e \in Envs, CompleteStart(e) PROVE StartIsOwed'
  BY <1>5 DEF CompleteStart
<1>6. ASSUME NEW e \in Envs, BeginDeactivate(e) PROVE StartIsOwed'
  BY <1>6 DEF BeginDeactivate
<1>7. ASSUME NEW e \in Envs, Deactivate(e) PROVE StartIsOwed'
  BY <1>7 DEF Deactivate
<1>8. ASSUME NEW e \in Envs, ShutdownReturns(e) PROVE StartIsOwed'
  BY <1>8 DEF ShutdownReturns, LockHeld
<1>9. ASSUME NEW e \in Envs, ResetPhase(e) PROVE StartIsOwed'
  BY <1>9 DEF ResetPhase
<1>10. QED
  BY <1>1, <1>2, <1>3, <1>4, <1>5, <1>6, <1>7, <1>8, <1>9 DEF RegistryNext

LEMMA RegistryInvKept == RegistryInv /\ [RegistryNext]_registryVars => RegistryInv'
BY TypesKept, LockKept, PhaseKept, StartKept DEF RegistryInv

(* The backend is up only in the phase Started, which a shutdown outlasts. *)
BackendFollowsPhase ==
  /\ phase # "Started" => backend = "stopped"
  /\ \A e \in Envs : /\ at[e] = "starting" => phase = "Starting"
                     /\ at[e] = "stopped" => backend = "stopped"

LEMMA RegistryInit_Backend == RegistryInit => BackendFollowsPhase
BY DEF RegistryInit, BackendFollowsPhase

LEMMA BackendKept ==
  RegistryTypes /\ LockHeld /\ BackendFollowsPhase /\ [RegistryNext]_registryVars
    => BackendFollowsPhase'
<1> SUFFICES ASSUME RegistryTypes, LockHeld, BackendFollowsPhase, [RegistryNext]_registryVars
             PROVE BackendFollowsPhase'
  OBVIOUS
<1> USE DEF RegistryTypes, LockHeld, BackendFollowsPhase, Enters, TakesLock, Out
<1>1. CASE UNCHANGED registryVars
  BY <1>1 DEF registryVars
<1>2. ASSUME NEW e \in Envs, Claim(e) \/ SkipStart(e) \/ Revalidate(e) PROVE BackendFollowsPhase'
  BY <1>2 DEF Claim, SkipStart, Revalidate
<1>3. ASSUME NEW e \in Envs, CompleteStart(e) PROVE BackendFollowsPhase'
  BY <1>3 DEF CompleteStart
<1>4. ASSUME NEW e \in Envs, BeginDeactivate(e) \/ Deactivate(e) PROVE BackendFollowsPhase'
  BY <1>4 DEF BeginDeactivate, Deactivate, Announce
<1>5. ASSUME NEW e \in Envs, ShutdownReturns(e) PROVE BackendFollowsPhase'
  BY <1>5 DEF ShutdownReturns
<1>6. ASSUME NEW e \in Envs, ResetPhase(e) PROVE BackendFollowsPhase'
  BY <1>6 DEF ResetPhase
<1>7. QED
  BY <1>1, <1>2, <1>3, <1>4, <1>5, <1>6 DEF RegistryNext

(* A step that starts the backend completes a start. *)
LEMMA StartStep ==
  RegistryInv /\ [RegistryNext]_registryVars =>
    (backend # "running" /\ backend' = "running" => owed)
BY DEF RegistryInv, StartIsOwed, RegistryNext, registryVars, Announce, Claim, SkipStart,
   Revalidate, CompleteStart, BeginDeactivate, Deactivate, ShutdownReturns, ResetPhase

(* For any number of threads, no start outlives the claim it was made for: *)
(* run_claimed_start looks at the phase again under the lifecycle lock.    *)
THEOREM ClaimedStarts == RegistrySpec => StartsAreOwed
<1>1. RegistryInv /\ [RegistryNext]_registryVars
        => [backend # "running" /\ backend' = "running" => owed]_registryVars
  BY StartStep
<1>2. QED
  BY RegistryInit_Inv, RegistryInvKept, <1>1, PTL DEF RegistrySpec, StartsAreOwed

-----------------------------------------------------------------------------
(* Environments drive the registry. *)

LEMMA ThreadDrivesRegistry ==
  ASSUME NEW e \in Envs, ThreadStep(e) PROVE [RegistryNext]_registryVars
<1>1. CASE Continue(e)
  BY <1>1 DEF Continue, RegistryNext
<1>2. CASE CleanupHook(e) \/ CleanupFinish(e)
  BY <1>2 DEF CleanupHook, CleanupFinish, RegistryNext
<1>3. CASE BeginBackend(e)
  BY <1>3 DEF BeginBackend, RegistryNext
<1>4. CASE Enrol(e) \/ Finalize(e) \/ Replay(e)
  BY <1>4 DEF Enrol, Finalize, Replay
<1>5. CASE \E p \in Promises : Spawn(e, p) \/ Decline(e, p) \/ Hook(e, p) \/ DropHere(e, p)
  BY <1>5 DEF Spawn, Decline, Hook, DropHere, Spawns
<1>6. QED
  BY <1>1, <1>2, <1>3, <1>4, <1>5 DEF ThreadStep

LEMMA HostDrivesRegistry ==
  ASSUME NEW e \in Envs, HostStep(e) PROVE [RegistryNext]_registryVars
<1>1. CASE ExplicitStart(e) \/ Activate(e)
  BY <1>1 DEF ExplicitStart, Activate, StartRuntime, RegistryNext
<1>2. CASE ExplicitStop(e) \/ Unwind(e) \/ FinishLeft(e)
  BY <1>2 DEF ExplicitStop, Unwind, FinishLeft, RegistryNext
<1>3. CASE \E p \in Promises : DispatchRefused(e, p) \/ Dispatch(e, p)
  BY <1>3 DEF DispatchRefused, Dispatch, StartRuntime, RegistryNext
<1>4. CASE RefuseRegistration(e) \/ Enrol(e) \/ Leave(e)
  BY <1>4 DEF RefuseRegistration, Enrol, Leave
<1>5. CASE \E rawly \in BOOLEAN : CleanupBegin(e, rawly)
  BY <1>5 DEF CleanupBegin
<1>6. CASE Exit(e) \/ DestroyRaw(e)
  BY <1>6 DEF Exit, DestroyRaw
<1>7. QED
  BY <1>1, <1>2, <1>3, <1>4, <1>5, <1>6 DEF HostStep

LEMMA StepsDriveRegistry == [Next]_vars => [RegistryNext]_registryVars
<1>1. ASSUME NEW e \in Envs, ThreadStep(e) \/ HostStep(e) PROVE [RegistryNext]_registryVars
  BY <1>1, ThreadDrivesRegistry, HostDrivesRegistry
<1>2. ASSUME NEW e \in Envs, LoaderStep(e) PROVE UNCHANGED registryVars
  BY <1>2 DEF LoaderStep, EndTurns, Drained
<1>3. ASSUME NEW p \in Promises, WorkStep(p) \/ HostDispatch(p) PROVE UNCHANGED registryVars
  BY <1>3 DEF WorkStep, Run, Complete, Drop, Settle, SettleNothing, CallFunction, Works,
     HostDispatch
<1>4. QED
  BY <1>1, <1>2, <1>3 DEF Next, vars

(* Registrations, dispatches, explicit calls, hooks and disposals in any   *)
(* order, by any number of environments, are threads of the registry.      *)
THEOREM ImplementsRegistry == Spec => RegistrySpec
<1>1. Init => RegistryInit
  BY DEF Init
<1>2. QED
  BY <1>1, StepsDriveRegistry, PTL DEF Spec, RegistrySpec

(* For any number of environments no start outlives the claim it was made  *)
(* for, whatever teardown overtook the claim.                              *)
THEOREM EnvironmentStartsAreOwed == Spec => StartsAreOwed
BY ImplementsRegistry, ClaimedStarts

-----------------------------------------------------------------------------
(* Types. *)

USE FiniteAssumption, PromisesAssumption, BoundAssumption

LEMMA Init_TypeOK == Init => TypeOK
<1>1. Init => RegistryTypes
  BY RegistryInit_Inv DEF Init, RegistryInv
<1>2. Init => PromiseTypes
  BY DEF Init, PromisesInit, PromiseTypes
<1>3. Init => EnvTypes
  BY DEF Init, EnvTypes, Stages
<1>4. Init => wasm \in BOOLEAN
  <2> SUFFICES ASSUME Init PROVE wasm \in BOOLEAN
    OBVIOUS
  <2>1. PICK t \in Targets : wasm = (t = "wasm")
    BY Zenon DEF Init
  <2>2. (t = "wasm") \in BOOLEAN
    OBVIOUS
  <2>3. QED
    BY <2>1, <2>2
<1>5. Init => BarrierTypes
  <2>1. Init => depth \in Nat
    BY DEF Init
  <2>2. QED
    BY <1>4, <2>1, Zenon DEF Init, BarrierTypes
<1>6. Init => TaskTypes
  BY DEF Init, TaskTypes, Tasks
<1>7. QED
  BY <1>1, <1>2, <1>3, <1>5, <1>6 DEF TypeOK

(* What settling does to the promises is typed. *)
LEMMA PromiseOperations ==
  ASSUME PromiseTypes, BarrierTypes, NEW p \in Promises,
         \/ Create(p) \/ CreateDelivered(p) \/ CreateQueued(p)
         \/ Enqueue(p) \/ Take(p) \/ Call(p) \/ Dispatched(p) \/ TearDown(p)
  PROVE  PromiseTypes'
<1> USE DEF PromiseTypes, BarrierTypes, Counted, Released
<1>1. CASE Create(p) \/ CreateDelivered(p) \/ CreateQueued(p)
  BY <1>1 DEF Create, CreateDelivered, CreateQueued
<1>2. CASE Enqueue(p) \/ Take(p) \/ Call(p)
  BY <1>2 DEF Enqueue, Take, Call
<1>3. CASE Dispatched(p) \/ TearDown(p)
  BY <1>3 DEF Dispatched, TearDown
<1>4. QED
  BY <1>1, <1>2, <1>3

LEMMA PromiseSetOperations ==
  ASSUME PromiseTypes, NEW ps \in SUBSET Promises, Deliver(ps) \/ Close(ps)
  PROVE  PromiseTypes'
<1> USE DEF PromiseTypes, Released
<1>1. CASE Deliver(ps)
  BY <1>1 DEF Deliver
<1>2. CASE Close(ps)
  <2>1. Cardinality(ps \cap queued) \in Nat
    BY FS_CardinalityType, FS_Subset
  <2>2. QED
    BY <1>2, <2>1 DEF Close
<1>3. QED
  BY <1>1, <1>2

(* Every step settles by one of these operations, or not at all. *)
LEMMA StepsSettle == TypeOK /\ [Next]_vars => PromiseTypes'
<1> SUFFICES ASSUME TypeOK, [Next]_vars PROVE PromiseTypes'
  OBVIOUS
<1> DEFINE Settles ==
      \/ UNCHANGED deferredVars
      \/ \E p \in Promises :
           \/ Create(p) \/ CreateDelivered(p) \/ CreateQueued(p)
           \/ Enqueue(p) \/ Take(p) \/ Call(p) \/ Dispatched(p) \/ TearDown(p)
      \/ \E ps \in SUBSET Promises : Deliver(ps) \/ Close(ps)
<1>1. parked \in SUBSET Promises /\ \A e \in Envs : Of(e) \in SUBSET Promises
  BY DEF TypeOK, BarrierTypes, Of
<1>2. ASSUME NEW e \in Envs, ThreadStep(e) PROVE Settles
  <2>1. CASE Continue(e) \/ CleanupHook(e) \/ CleanupFinish(e) \/ BeginBackend(e) \/ Enrol(e)
    BY <2>1 DEF Continue, CleanupHook, CleanupFinish, BeginBackend, Enrol
  <2>2. CASE Finalize(e) \/ Replay(e)
    BY <1>1, <2>2 DEF Finalize, Replay
  <2>3. CASE \E p \in Promises : Spawn(e, p) \/ Decline(e, p) \/ Hook(e, p) \/ DropHere(e, p)
    BY <2>3 DEF Spawn, Decline, Hook, DropHere
  <2>4. QED
    BY <1>2, <2>1, <2>2, <2>3 DEF ThreadStep
<1>3. ASSUME NEW e \in Envs, HostStep(e) PROVE Settles
  BY <1>3 DEF HostStep, ExplicitStart, ExplicitStop, Explicit, DispatchRefused, Dispatch,
     RefuseRegistration, Unwind, Registers, Enrol, Activate, Leave, CleanupBegin, Exit,
     DestroyRaw, FinishLeft
<1>4. ASSUME NEW e \in Envs, LoaderStep(e) PROVE Settles
  BY <1>4 DEF LoaderStep, EndTurns, Drained
<1>5. ASSUME NEW p \in Promises, WorkStep(p) \/ HostDispatch(p) PROVE Settles
  BY <1>5 DEF WorkStep, Run, Complete, Drop, Settle, SettleNothing, CallFunction, HostDispatch
<1>6. Settles
  <2>1. CASE UNCHANGED vars
    BY <2>1 DEF vars
  <2>2. QED
    BY <1>2, <1>3, <1>4, <1>5, <2>1 DEF Next
<1>7. CASE UNCHANGED deferredVars
  BY <1>7 DEF deferredVars, TypeOK, PromiseTypes
<1>8. CASE \E p \in Promises :
             \/ Create(p) \/ CreateDelivered(p) \/ CreateQueued(p)
             \/ Enqueue(p) \/ Take(p) \/ Call(p) \/ Dispatched(p) \/ TearDown(p)
  BY <1>8, PromiseOperations DEF TypeOK
<1>9. CASE \E ps \in SUBSET Promises : Deliver(ps) \/ Close(ps)
  BY <1>9, PromiseSetOperations DEF TypeOK
<1>10. QED
  BY <1>6, <1>7, <1>8, <1>9

LEMMA StepsKeepEnvTypes == TypeOK /\ [Next]_vars => EnvTypes'
<1> SUFFICES ASSUME TypeOK, [Next]_vars PROVE EnvTypes'
  OBVIOUS
<1> USE DEF TypeOK, EnvTypes, Stages, Synchronous, promiseVars, envVars, Lives
<1>1. CASE UNCHANGED vars
  BY <1>1 DEF vars
<1>2. ASSUME NEW e \in Envs, ThreadStep(e) PROVE EnvTypes'
  <2>1. CASE Continue(e) \/ CleanupHook(e) \/ Enrol(e) \/ Finalize(e) \/ Replay(e)
    BY <2>1 DEF Continue, CleanupHook, Enrol, Finalize, Replay
  <2>2. CASE BeginBackend(e) \/ CleanupFinish(e)
    BY <2>2 DEF BeginBackend, CleanupFinish, Cleans
  <2>3. CASE \E p \in Promises : Spawn(e, p) \/ Decline(e, p) \/ Hook(e, p) \/ DropHere(e, p)
    BY <2>3 DEF Spawn, Decline, Hook, DropHere, Spawns
  <2>4. QED
    BY <1>2, <2>1, <2>2, <2>3 DEF ThreadStep
<1>3. ASSUME NEW e \in Envs, HostStep(e) PROVE EnvTypes'
  <2>1. CASE ExplicitStart(e) \/ ExplicitStop(e)
    BY <2>1 DEF ExplicitStart, ExplicitStop, Explicit
  <2>2. CASE \E p \in Promises : DispatchRefused(e, p) \/ Dispatch(e, p)
    BY <2>2 DEF DispatchRefused, Dispatch, Dispatches
  <2>3. CASE RefuseRegistration(e) \/ Unwind(e)
    BY <2>3 DEF RefuseRegistration, Unwind, Registers, Walked
  <2>4. CASE Enrol(e) \/ Activate(e) \/ Leave(e)
    BY <2>4 DEF Enrol, Activate, Leave
  <2>5. CASE (\E rawly \in BOOLEAN : CleanupBegin(e, rawly)) \/ Exit(e) \/ DestroyRaw(e) \/ FinishLeft(e)
    BY <2>5 DEF CleanupBegin, Exit, DestroyRaw, FinishLeft, Cleans
  <2>6. QED
    BY <1>3, <2>1, <2>2, <2>3, <2>4, <2>5 DEF HostStep
<1>4. ASSUME NEW e \in Envs, LoaderStep(e) PROVE EnvTypes'
  BY <1>4 DEF LoaderStep, EndTurns, Drained, Cleans
<1>5. ASSUME NEW p \in Promises, WorkStep(p) \/ HostDispatch(p) PROVE EnvTypes'
  BY <1>5 DEF WorkStep, Run, Complete, Drop, Settle, SettleNothing, CallFunction, Works,
     HostDispatch
<1>6. QED
  BY <1>1, <1>2, <1>3, <1>4, <1>5 DEF Next

LEMMA StepsKeepBarrierTypes == TypeOK /\ [Next]_vars => BarrierTypes'
<1> SUFFICES ASSUME TypeOK, [Next]_vars PROVE BarrierTypes'
  OBVIOUS
<1> USE DEF TypeOK, BarrierTypes, barrierVars
<1>1. CASE UNCHANGED vars
  BY <1>1 DEF vars
<1>2. ASSUME NEW e \in Envs, ThreadStep(e) PROVE BarrierTypes'
  <2>1. CASE Continue(e) \/ CleanupHook(e) \/ Finalize(e)
    BY <2>1 DEF Continue, CleanupHook, Finalize
  <2>2. CASE BeginBackend(e) \/ CleanupFinish(e)
    BY <2>2 DEF BeginBackend, CleanupFinish, Cleans
  <2>5. CASE Enrol(e)
    BY <2>5 DEF Enrol
  <2>6. CASE Replay(e)
    <3>1. depth' \in Nat
      BY <2>6 DEF Replay
    <3>2. QED
      BY <2>6, <3>1, Zenon DEF Replay
  <2>3. CASE \E p \in Promises : Spawn(e, p) \/ Decline(e, p) \/ Hook(e, p) \/ DropHere(e, p)
    BY <2>3 DEF Spawn, Decline, Hook, DropHere, Spawns
  <2>4. QED
    BY <1>2, <2>1, <2>2, <2>3, <2>5, <2>6 DEF ThreadStep
<1>3. ASSUME NEW e \in Envs, HostStep(e) PROVE BarrierTypes'
  <2>1. CASE ExplicitStart(e) \/ ExplicitStop(e)
    BY <2>1 DEF ExplicitStart, ExplicitStop, Explicit
  <2>2. CASE \E p \in Promises : DispatchRefused(e, p) \/ Dispatch(e, p)
    BY <2>2 DEF DispatchRefused, Dispatch, Dispatches
  <2>3. CASE RefuseRegistration(e) \/ Unwind(e)
    <3>1. CASE RefuseRegistration(e)
      BY <3>1 DEF RefuseRegistration, Registers
    <3>2. CASE Unwind(e)
      BY <3>2 DEF Unwind, Registers
    <3>3. QED
      BY <2>3, <3>1, <3>2
  <2>4. CASE Enrol(e) \/ Activate(e) \/ Leave(e)
    BY <2>4 DEF Enrol, Activate, Leave
  <2>5. CASE (\E rawly \in BOOLEAN : CleanupBegin(e, rawly)) \/ Exit(e) \/ DestroyRaw(e) \/ FinishLeft(e)
    <3>1. CASE \E rawly \in BOOLEAN : CleanupBegin(e, rawly)
      BY <3>1 DEF CleanupBegin, Cleans
    <3>2. CASE Exit(e) \/ DestroyRaw(e)
      BY <3>2 DEF Exit, DestroyRaw, Cleans
    <3>3. CASE FinishLeft(e)
      BY <3>3 DEF FinishLeft, Cleans
    <3>4. QED
      BY <2>5, <3>1, <3>2, <3>3
  <2>6. QED
    BY <1>3, <2>1, <2>2, <2>3, <2>4, <2>5 DEF HostStep
<1>4. ASSUME NEW e \in Envs, LoaderStep(e) PROVE BarrierTypes'
  BY <1>4 DEF LoaderStep, EndTurns, Drained, Cleans
<1>5. ASSUME NEW p \in Promises, WorkStep(p) \/ HostDispatch(p) PROVE BarrierTypes'
  BY <1>5 DEF WorkStep, Run, Complete, Drop, Settle, SettleNothing, CallFunction, Works,
     HostDispatch
<1>6. QED
  BY <1>1, <1>2, <1>3, <1>4, <1>5 DEF Next

LEMMA StepsKeepTaskTypes == TypeOK /\ [Next]_vars => TaskTypes'
<1> SUFFICES ASSUME TypeOK, [Next]_vars PROVE TaskTypes'
  OBVIOUS
<1> USE DEF TypeOK, TaskTypes, Tasks, taskVars, Becomes
<1>1. CASE UNCHANGED vars
  BY <1>1 DEF vars
<1>2. ASSUME NEW e \in Envs, ThreadStep(e) PROVE TaskTypes'
  <2>1. CASE Continue(e) \/ CleanupHook(e) \/ Enrol(e) \/ Finalize(e) \/ Replay(e)
    BY <2>1 DEF Continue, CleanupHook, Enrol, Finalize, Replay
  <2>2. CASE BeginBackend(e) \/ CleanupFinish(e)
    BY <2>2 DEF BeginBackend, CleanupFinish, Cleans
  <2>3. CASE \E p \in Promises : Spawn(e, p) \/ Decline(e, p) \/ Hook(e, p) \/ DropHere(e, p)
    BY <2>3 DEF Spawn, Decline, Hook, DropHere, Spawns
  <2>4. QED
    BY <1>2, <2>1, <2>2, <2>3 DEF ThreadStep
<1>3. ASSUME NEW e \in Envs, HostStep(e) PROVE TaskTypes'
  <2>1. CASE ExplicitStart(e) \/ ExplicitStop(e)
    BY <2>1 DEF ExplicitStart, ExplicitStop, Explicit
  <2>2. CASE \E p \in Promises : DispatchRefused(e, p) \/ Dispatch(e, p)
    BY <2>2 DEF DispatchRefused, Dispatch, Dispatches
  <2>3. CASE RefuseRegistration(e) \/ Unwind(e) \/ Enrol(e) \/ Activate(e) \/ Leave(e)
    BY <2>3 DEF RefuseRegistration, Unwind, Registers, Enrol, Activate, Leave
  <2>4. CASE (\E rawly \in BOOLEAN : CleanupBegin(e, rawly)) \/ Exit(e) \/ DestroyRaw(e) \/ FinishLeft(e)
    BY <2>4 DEF CleanupBegin, Exit, DestroyRaw, FinishLeft, Cleans
  <2>5. QED
    BY <1>3, <2>1, <2>2, <2>3, <2>4 DEF HostStep
<1>4. ASSUME NEW e \in Envs, LoaderStep(e) PROVE TaskTypes'
  BY <1>4 DEF LoaderStep, EndTurns, Drained, Cleans
<1>5. ASSUME NEW p \in Promises, WorkStep(p) \/ HostDispatch(p) PROVE TaskTypes'
  BY <1>5 DEF WorkStep, Run, Complete, Drop, Settle, SettleNothing, CallFunction, Works,
     HostDispatch
<1>6. QED
  BY <1>1, <1>2, <1>3, <1>4, <1>5 DEF Next

LEMMA TypeOKKept == TypeOK /\ [Next]_vars => TypeOK'
BY StepsDriveRegistry, TypesKept, StepsSettle, StepsKeepEnvTypes, StepsKeepBarrierTypes,
   StepsKeepTaskTypes DEF TypeOK

(* For any environments and promises the variables keep their types. *)
THEOREM TypeCorrect == Spec => []TypeOK
BY Init_TypeOK, TypeOKKept, PTL DEF Spec

-----------------------------------------------------------------------------
(* Calls of threadsafe functions. *)

(* The function of a promise is in its slot, or in the hands of the thread *)
(* that locked the slot, only as long as its environment has not got past  *)
(* it; and who is about to call it has the slot locked.                    *)
FunctionLives(p) ==
  p \in slot \cup locked =>
    /\ owner[p] \in Envs /\ life[owner[p]] # "dead"
    /\ life[owner[p]] = "early" => wasm \/ p \in early
CallerLocks(p) == task[p] = "calling" => p \in locked
FunctionInv == \A p \in Promises : FunctionLives(p) /\ CallerLocks(p)

LEMMA ThreadKeepsFunctions ==
  ASSUME TypeOK, FunctionInv, NEW e \in Envs, ThreadStep(e) PROVE FunctionInv'
<1> USE DEF FunctionInv, FunctionLives, CallerLocks, TypeOK, EnvTypes, PromiseTypes, TaskTypes,
            promiseVars, envVars, barrierVars, taskVars, deferredVars, Lives, Becomes
<1>1. CASE Continue(e)
  BY <1>1 DEF Continue
<1>2. CASE CleanupHook(e)
  BY <1>2 DEF CleanupHook, HooksRan, Hooked, Of
<1>3. CASE Enrol(e)
  BY <1>3 DEF Enrol
<1>4. CASE Finalize(e)
  BY <1>4 DEF Finalize, Close, Of
<1>5. CASE Replay(e)
  BY <1>5 DEF Replay, Deliver
<1>6. CASE BeginBackend(e) \/ CleanupFinish(e)
  BY <1>6 DEF BeginBackend, CleanupFinish, Cleans
<1>7. ASSUME NEW p \in Promises, Spawn(e, p) \/ Decline(e, p) PROVE FunctionInv'
  BY <1>7 DEF Spawn, Decline, Spawns, Enqueue
<1>8. ASSUME NEW p \in Promises, Hook(e, p) \/ DropHere(e, p) PROVE FunctionInv'
  BY <1>8 DEF Hook, DropHere, TearDown, Deliver
<1>9. QED
  BY <1>1, <1>2, <1>3, <1>4, <1>5, <1>6, <1>7, <1>8 DEF ThreadStep

LEMMA HostKeepsFunctions ==
  ASSUME TypeOK, FunctionInv, NEW e \in Envs, HostStep(e) PROVE FunctionInv'
<1> USE DEF FunctionInv, FunctionLives, CallerLocks, TypeOK, EnvTypes, PromiseTypes, TaskTypes,
            promiseVars, envVars, barrierVars, taskVars, deferredVars, Lives, Becomes
<1>1. CASE ExplicitStart(e) \/ ExplicitStop(e)
  BY <1>1 DEF ExplicitStart, ExplicitStop, Explicit
<1>2. ASSUME NEW p \in Promises, DispatchRefused(e, p) PROVE FunctionInv'
  BY <1>2 DEF DispatchRefused, Dispatches, CreateDelivered, CreateQueued
<1>3. ASSUME NEW p \in Promises, Dispatch(e, p) PROVE FunctionInv'
  BY <1>3 DEF Dispatch, Dispatches, Create
<1>4. CASE RefuseRegistration(e)
  BY <1>4 DEF RefuseRegistration, Registers, Walked
<1>5. CASE Unwind(e)
  BY <1>5 DEF Unwind, Registers, Walked
<1>6. CASE Enrol(e) \/ Activate(e) \/ Leave(e)
  BY <1>6 DEF Enrol, Activate, Leave
<1>7. CASE (\E rawly \in BOOLEAN : CleanupBegin(e, rawly)) \/ Exit(e) \/ DestroyRaw(e)
           \/ FinishLeft(e)
  BY <1>7 DEF CleanupBegin, Exit, DestroyRaw, FinishLeft, Cleans
<1>8. QED
  BY <1>1, <1>2, <1>3, <1>4, <1>5, <1>6, <1>7 DEF HostStep

LEMMA FunctionInvKept == TypeOK /\ FunctionInv /\ [Next]_vars => FunctionInv'
<1> SUFFICES ASSUME TypeOK, FunctionInv, [Next]_vars PROVE FunctionInv'
  OBVIOUS
<1> USE DEF FunctionInv, FunctionLives, CallerLocks, TypeOK, EnvTypes, PromiseTypes, TaskTypes,
            promiseVars, envVars, barrierVars, taskVars, deferredVars, Lives, Becomes
<1>1. CASE UNCHANGED vars
  BY <1>1 DEF vars
<1>2. ASSUME NEW e \in Envs, LoaderStep(e) PROVE FunctionInv'
  BY <1>2 DEF LoaderStep, EndTurns, Drained, Cleans
<1>3. ASSUME NEW p \in Promises, Run(p) \/ Complete(p) \/ Drop(p) \/ SettleNothing(p)
      PROVE FunctionInv'
  BY <1>3 DEF Run, Complete, Drop, SettleNothing, Works
<1>4. ASSUME NEW p \in Promises, Settle(p) PROVE FunctionInv'
  BY <1>4 DEF Settle, Works, Take
<1>5. ASSUME NEW p \in Promises, CallFunction(p) PROVE FunctionInv'
  BY <1>5 DEF CallFunction, Works, Call
<1>6. ASSUME NEW p \in Promises, HostDispatch(p) PROVE FunctionInv'
  BY <1>6 DEF HostDispatch, Dispatched
<1>7. QED
  BY ThreadKeepsFunctions, HostKeepsFunctions, <1>1, <1>2, <1>3, <1>4, <1>5, <1>6
     DEF Next, WorkStep

(* For any environments and promises no thread calls a threadsafe function *)
(* whose environment has torn it down: the lock it holds keeps the hook    *)
(* and the finalizer waiting.                                              *)
THEOREM FunctionsAreLive == Spec => []CallsLiveFunction
<1>1. Init => FunctionInv
  BY DEF Init, PromisesInit, FunctionInv, FunctionLives, CallerLocks
<1>2. FunctionInv => CallsLiveFunction
  BY DEF FunctionInv, FunctionLives, CallerLocks, CallsLiveFunction
<1>3. QED
  BY <1>1, <1>2, FunctionInvKept, TypeCorrect, PTL DEF Spec

-----------------------------------------------------------------------------
(* The end of the environments.                                            *)

Gone      == {"out", "dead", "left"}
Handshake == {"begin", "turns", "closing"}
Ends      == {"finish", "drain", "hooks", "early"}

(* A native image has no barrier.                                          *)
NativeControl ==
  /\ ~ latch /\ ~ begun
  /\ \A e \in Envs : life[e] \in {"out", "init", "live", "hooks", "early", "dead"}

(* One environment of a wasm image at a time is neither gone nor left, and *)
(* the barrier is up from the start of its disposal.                       *)
OneActive == \A e, f \in Envs : e # f => life[e] \in Gone \/ life[f] \in Gone
BarrierUp == \A e \in Envs : life[e] \in Handshake \cup Ends => latch
(* The finish that begun owes is that of an environment in its handshake,  *)
(* or of one whose host walked away.                                       *)
BegunIsOwed ==
  begun => /\ \A e \in Envs : life[e] \in Gone \cup Handshake
           /\ \E e \in Envs : life[e] \in Handshake \cup {"left"}
BarrierDepth ==
  depth > 0 => /\ depth = 1 /\ mailbox
               /\ \E e \in Envs : life[e] \in Handshake \cup {"finish"}
(* Nothing restarts the backend that the finish of a disposal stopped.     *)
EndsStopped ==
  \A e \in Envs :
    /\ life[e] = "finish" /\ at[e] # "stopping" => backend = "stopped"
    /\ life[e] \in {"drain", "hooks", "early"} => backend = "stopped"
WasmControl == OneActive /\ BarrierUp /\ BegunIsOwed /\ BarrierDepth /\ EndsStopped

(* Only an environment that has not begun to end starts the backend.       *)
StartersLive ==
  \A e \in Envs :
    at[e] \in {"claimed", "starting"} \/ calls[e] # Nobody => life[e] \in {"init", "live"}

ControlInv == StartersLive /\ (wasm => WasmControl) /\ (~ wasm => NativeControl)

(* Steps that leave the environments and the barrier where they are.       *)
LEMMA ControlKept ==
  ASSUME TypeOK, ControlInv, UNCHANGED <<wasm, life, latch, begun, depth, mailbox>>, StartersLive',
         wasm => EndsStopped'
  PROVE  ControlInv'
<1>1. wasm => OneActive' /\ BarrierUp' /\ BegunIsOwed' /\ BarrierDepth'
  BY DEF ControlInv, WasmControl, OneActive, BarrierUp, BegunIsOwed, BarrierDepth
<1>2. ~ wasm => NativeControl'
  BY DEF ControlInv, NativeControl
<1>. QED
  BY <1>1, <1>2 DEF ControlInv, WasmControl

(* On wasm nobody claims or completes a start while an environment ends.   *)
LEMMA NoStarter ==
  ASSUME TypeOK, ControlInv, wasm, NEW e \in Envs, life[e] \in Ends, NEW f \in Envs
  PROVE  at[f] \notin {"claimed", "starting"} /\ calls[f] = Nobody
  BY DEF ControlInv, WasmControl, OneActive, StartersLive, Ends, Gone

(* What the registry does to the claims, to the stop and to the backend.   *)
LEMMA RegistryMoves ==
  ASSUME TypeOK, NEW e \in Envs,
         \/ SkipStart(e) \/ Revalidate(e) \/ CompleteStart(e) \/ ShutdownReturns(e) \/ ResetPhase(e)
  PROVE  /\ \A f \in Envs \ {e} : at'[f] = at[f]
         /\ at'[e] \in {"claimed", "starting"} => at[e] \in {"claimed", "starting"}
         /\ at[e] = "stopping" => at'[e] = "stopped" /\ backend' = "stopped"
         /\ backend' = "stopped" \/ backend' = backend \/ at[e] = "starting"
         /\ at'[e] # "stopping"
  BY DEF TypeOK, RegistryTypes, Enters, SkipStart, Revalidate, CompleteStart, ShutdownReturns, ResetPhase

LEMMA ContinueKeepsControl ==
  ASSUME TypeOK, ControlInv, NEW e \in Envs, Continue(e)
  PROVE  ControlInv'
<1>1. /\ \/ SkipStart(e) \/ Revalidate(e) \/ CompleteStart(e) \/ ShutdownReturns(e) \/ ResetPhase(e)
      /\ UNCHANGED <<wasm, envVars, barrierVars>>
  BY DEF Continue
<1>2. UNCHANGED <<wasm, life, latch, begun, depth, mailbox, calls>>
  BY <1>1 DEF envVars, barrierVars
<1>3. StartersLive'
  BY <1>1, <1>2, RegistryMoves DEF ControlInv, StartersLive
<1>4. wasm => EndsStopped'
  <2>1. SUFFICES ASSUME wasm, NEW f \in Envs, life[f] \in Ends
                 PROVE  /\ life[f] = "finish" /\ at'[f] # "stopping" => backend' = "stopped"
                        /\ life[f] \in {"drain", "hooks", "early"} => backend' = "stopped"
    BY <1>2 DEF EndsStopped, Ends
  <2>2. at[e] # "starting"
    BY <2>1, NoStarter
  <2>3. backend = "stopped" => backend' = "stopped"
    BY <1>1, <2>2, RegistryMoves
  <2>. QED
    BY <1>1, <2>1, <2>3, RegistryMoves DEF ControlInv, WasmControl, EndsStopped
<1>. QED
  BY <1>2, <1>3, <1>4, ControlKept

(* What a thread inside an export does apart from the registry.            *)
LEMMA DispatchKeepsControl ==
  ASSUME TypeOK, ControlInv, NEW e \in Envs,
         \/ ExplicitStart(e) \/ ExplicitStop(e)
         \/ \E p \in Promises : \/ DispatchRefused(e, p) \/ Dispatch(e, p)
                                \/ Spawn(e, p) \/ Decline(e, p) \/ Hook(e, p) \/ DropHere(e, p)
  PROVE  ControlInv'
<1> USE DEF TypeOK, RegistryTypes, EnvTypes, ControlInv, envVars, promiseVars, barrierVars, Enters
<1>1. UNCHANGED <<wasm, life, latch, begun, depth, mailbox>>
  BY DEF ExplicitStart, ExplicitStop, Explicit, DispatchRefused, Dispatch, Dispatches, Spawn,
         Decline, Spawns, Hook, DropHere
<1>2. CASE ExplicitStart(e) \/ \E p \in Promises : Dispatch(e, p)
  <2>1. (~ latch /\ life[e] \in {"init", "live"}) \/ UNCHANGED <<registryVars, calls>>
    BY <1>2 DEF ExplicitStart, Explicit, Dispatch, Dispatches, StartRuntime, WasmControl,
                NativeControl, BarrierUp, Handshake, Ends
  <2>2. /\ at' = at \/ (life[e] \in {"init", "live"} /\ at' = [at EXCEPT ![e] = "claimed"])
        /\ calls' = calls \/ (life[e] \in {"init", "live"} /\ \A f \in Envs \ {e} : calls'[f] = calls[f])
        /\ backend' = backend
    BY <1>2, <2>1 DEF ExplicitStart, Explicit, Dispatch, StartRuntime, Claim, registryVars
  <2>3. StartersLive'
    BY <1>1, <2>2 DEF StartersLive
  <2>4. wasm => EndsStopped'
    BY <1>1, <2>2 DEF WasmControl, EndsStopped
  <2>. QED
    BY <1>1, <2>3, <2>4, ControlKept
<1>3. CASE ExplicitStop(e)
  <2>1. life[e] \in {"live", "turns", "drain"} /\ ~ latch /\ UNCHANGED calls /\ Deactivate(e)
    BY <1>3 DEF ExplicitStop, Explicit, StopRefused
  <2>2. /\ at' = [at EXCEPT ![e] = "stopping"]
        /\ backend = "stopped" => backend' = "stopped"
    BY <2>1 DEF Deactivate, Announce
  <2>3. StartersLive'
    BY <1>1, <2>1, <2>2 DEF StartersLive
  <2>4. wasm => EndsStopped'
    BY <1>1, <2>1, <2>2 DEF WasmControl, EndsStopped, BarrierUp, Ends
  <2>. QED
    BY <1>1, <2>3, <2>4, ControlKept
<1>4. CASE \E p \in Promises : \/ DispatchRefused(e, p) \/ Spawn(e, p) \/ Decline(e, p)
                              \/ Hook(e, p) \/ DropHere(e, p)
  <2>1. UNCHANGED registryVars /\ \A f \in Envs : calls'[f] # Nobody => calls'[f] = calls[f]
    BY <1>4 DEF DispatchRefused, Spawn, Decline, Spawns, Hook, DropHere
  <2>2. StartersLive'
    BY <1>1, <2>1 DEF StartersLive, registryVars
  <2>3. wasm => EndsStopped'
    BY <1>1, <2>1 DEF WasmControl, EndsStopped, registryVars
  <2>. QED
    BY <1>1, <2>2, <2>3, ControlKept
<1>. QED
  BY <1>2, <1>3, <1>4

LEMMA WorkKeepsControl ==
  ASSUME TypeOK, ControlInv,
         UNCHANGED vars \/ \E p \in Promises : WorkStep(p) \/ HostDispatch(p)
  PROVE  ControlInv'
<1>1. UNCHANGED <<wasm, life, latch, begun, depth, mailbox, calls, registryVars>>
  BY DEF vars, envVars, barrierVars, WorkStep, Run, Complete, Drop, Settle, SettleNothing,
         CallFunction, Works, HostDispatch
<1>2. StartersLive' /\ (wasm => EndsStopped')
  BY <1>1 DEF ControlInv, StartersLive, WasmControl, EndsStopped, registryVars
<1>. QED
  BY <1>1, <1>2, ControlKept

(* What enrols an environment, and what its host leaves behind.            *)
LEMMA RegistrationKeepsControl ==
  ASSUME TypeOK, ControlInv, NEW e \in Envs,
         RefuseRegistration(e) \/ Unwind(e) \/ Enrol(e) \/ Activate(e)
  PROVE  ControlInv'
<1> USE DEF TypeOK, RegistryTypes, EnvTypes, BarrierTypes, Enters, Lives
<1>1. CASE Enrol(e)
  <2>1. /\ life' = [life EXCEPT ![e] = "init"] /\ life[e] \in {"out", "unwind"} /\ latch' = FALSE
        /\ UNCHANGED <<registryVars, wasm, calls, begun, depth, mailbox>>
    BY <1>1 DEF Enrol
  <2>2. StartersLive'
    BY <2>1 DEF ControlInv, StartersLive, registryVars
  <2>3. ASSUME wasm PROVE ~ begun /\ \A f \in Envs \ {e} : life[f] \in Gone
    BY <1>1, <2>1, <2>3 DEF Enrol, ControlInv, WasmControl, OneActive, BegunIsOwed, Gone, Handshake
  <2>4. ASSUME wasm PROVE depth = 0
    BY <2>1, <2>3, <2>4 DEF ControlInv, WasmControl, BarrierDepth, Gone, Handshake
  <2>5. wasm => WasmControl'
    BY <2>1, <2>3, <2>4
    DEF WasmControl, OneActive, BarrierUp, BegunIsOwed, BarrierDepth, EndsStopped, Gone, Handshake, Ends
  <2>6. ~ wasm => NativeControl'
    BY <2>1 DEF ControlInv, NativeControl
  <2>. QED
    BY <2>1, <2>2, <2>5, <2>6 DEF ControlInv
<1>2. CASE Activate(e)
  <2>1. /\ life' = [life EXCEPT ![e] = "live"] /\ life[e] = "init"
        /\ at' = at \/ at' = [at EXCEPT ![e] = "claimed"]
        /\ UNCHANGED <<backend, wasm, calls, latch, begun, depth, mailbox>>
    BY <1>2 DEF Activate, StartRuntime, Claim, registryVars, barrierVars
  <2>2. StartersLive'
    BY <2>1 DEF ControlInv, StartersLive
  <2>3. wasm => WasmControl'
    BY <2>1 DEF ControlInv, WasmControl, OneActive, BarrierUp, BegunIsOwed, BarrierDepth, EndsStopped,
                Gone, Handshake, Ends
  <2>4. ~ wasm => NativeControl'
    BY <2>1 DEF ControlInv, NativeControl
  <2>. QED
    BY <2>1, <2>2, <2>3, <2>4 DEF ControlInv
<1>3. CASE RefuseRegistration(e) \/ Unwind(e)
  <2>1. /\ life[e] = "out" /\ begun /\ Idle(e) /\ depth' = 0 /\ mailbox' = FALSE
        /\ \A f \in Envs \ {e} : life'[f] = IF life[f] = "turns" THEN "left" ELSE life[f]
        /\ UNCHANGED <<wasm, calls, latch>>
    BY <1>3 DEF RefuseRegistration, Unwind, Registers, Walked
  <2>2. wasm /\ WasmControl /\ StartersLive
    BY <2>1 DEF ControlInv, NativeControl
  <2>3. \A f \in Envs \ {e} : life[f] \in Gone \cup {"turns"} /\ life'[f] \in Gone
    BY <2>1, <2>2 DEF Idle, Busy, Synchronous, WasmControl, BegunIsOwed, Handshake, Gone
  <2>4. \A f \in Envs : at[f] = "out" /\ calls[f] = Nobody
    BY <2>1, <2>2 DEF Idle, Busy, Out
  <2>5. CASE RefuseRegistration(e)
    <3>1. life'[e] = "out" /\ UNCHANGED registryVars /\ begun' = begun
      BY <2>5 DEF RefuseRegistration, Walked
    <3>2. PICK f \in Envs : life[f] \in {"turns", "left"}
      BY <2>1, <2>2, <2>3 DEF WasmControl, BegunIsOwed, Handshake, Gone
    <3>3. life'[f] = "left"
      BY <2>1, <3>2
    <3>4. \A g \in Envs : life'[g] \in Gone
      BY <2>3, <3>1 DEF Gone
    <3>5. WasmControl'
      BY <2>1, <3>1, <3>3, <3>4
      DEF WasmControl, OneActive, BarrierUp, BegunIsOwed, BarrierDepth, EndsStopped, Gone, Handshake, Ends
    <3>6. StartersLive'
      BY <2>1, <2>4, <3>1 DEF StartersLive, registryVars
    <3>. QED
      BY <2>1, <2>2, <3>5, <3>6 DEF ControlInv
  <2>6. CASE Unwind(e)
    <3>1. life'[e] = "unwind" /\ begun' = FALSE /\ at' = [at EXCEPT ![e] = "stopping"]
      BY <2>6 DEF Unwind, Deactivate, Walked
    <3>2. WasmControl'
      BY <2>1, <2>3, <3>1
      DEF WasmControl, OneActive, BarrierUp, BegunIsOwed, BarrierDepth, EndsStopped, Gone, Handshake, Ends
    <3>3. StartersLive'
      BY <2>1, <2>4, <3>1 DEF StartersLive
    <3>. QED
      BY <2>1, <2>2, <3>2, <3>3 DEF ControlInv
  <2>. QED
    BY <1>3, <2>5, <2>6
<1>. QED
  BY <1>1, <1>2, <1>3

(* The end of a native environment, and that of a wasm environment whose   *)
(* loader destroys its context.                                            *)
LEMMA TeardownKeepsControl ==
  ASSUME TypeOK, ControlInv, NEW e \in Envs, Leave(e) \/ CleanupHook(e) \/ Finalize(e)
  PROVE  ControlInv'
<1> USE DEF TypeOK, RegistryTypes, EnvTypes, BarrierTypes, Enters, Lives
<1>1. /\ UNCHANGED <<wasm, calls, latch, begun, depth, mailbox>>
      /\ \/ life[e] = "live" /\ ~ wasm /\ Idle(e) /\ life' = [life EXCEPT ![e] = "hooks"]
         \/ life[e] = "hooks" /\ life' = [life EXCEPT ![e] = "early"]
         \/ life[e] = "early" /\ life' = [life EXCEPT ![e] = "dead"]
  BY DEF Leave, CleanupHook, Finalize, barrierVars
<1>2. /\ at' = at \/ at' = [at EXCEPT ![e] = "stopping"]
      /\ wasm => UNCHANGED registryVars
  BY DEF Leave, CleanupHook, Finalize, Deactivate, StopRefused, ControlInv, WasmControl, BarrierUp,
         Ends, registryVars
<1>3. StartersLive'
  <2>1. life[e] = "live" => at[e] = "out" /\ calls[e] = Nobody
    BY <1>1 DEF Idle, Busy, Out
  <2>. QED
    BY <1>1, <1>2, <2>1 DEF ControlInv, StartersLive
<1>4. wasm => WasmControl'
  <2>1. SUFFICES ASSUME wasm, WasmControl PROVE WasmControl'
    BY DEF ControlInv
  <2>2. ~ begun
    BY <1>1, <2>1 DEF WasmControl, BegunIsOwed, Gone, Handshake
  <2>3. depth = 0
    <3>1. \A f \in Envs : life[f] \notin Handshake \cup {"finish"}
      BY <1>1, <2>1 DEF WasmControl, OneActive, Gone, Handshake
    <3>. QED
      BY <2>1, <3>1 DEF WasmControl, BarrierDepth
  <2>. QED
    BY <1>1, <1>2, <2>1, <2>2, <2>3
    DEF WasmControl, OneActive, BarrierUp, BegunIsOwed, BarrierDepth, EndsStopped, Gone, Handshake,
        Ends, registryVars
<1>5. ~ wasm => NativeControl'
  BY <1>1 DEF ControlInv, NativeControl
<1>. QED
  BY <1>1, <1>3, <1>4, <1>5 DEF ControlInv

(* The handshake of a disposal up to the announced stop and its finish.    *)
LEMMA HandshakeKeepsControl ==
  ASSUME TypeOK, ControlInv, NEW e \in Envs,
         \/ \E rawly \in BOOLEAN : CleanupBegin(e, rawly)
         \/ BeginBackend(e) \/ EndTurns(e) \/ Exit(e) \/ CleanupFinish(e) \/ FinishLeft(e)
  PROVE  ControlInv'
<1> USE DEF TypeOK, RegistryTypes, EnvTypes, BarrierTypes, Enters, Lives, barrierVars
<1>1. life' = [life EXCEPT ![e] = life'[e]] /\ UNCHANGED <<wasm, calls>>
  BY DEF CleanupBegin, BeginBackend, EndTurns, Exit, CleanupFinish, FinishLeft, Cleans
<1>2. wasm /\ WasmControl /\ StartersLive
  BY DEF ControlInv, NativeControl, CleanupBegin, BeginBackend, EndTurns, Exit, CleanupFinish,
         FinishLeft, Cleans
<1>. USE DEF OneActive, BarrierUp, BegunIsOwed, BarrierDepth, EndsStopped, Gone, Handshake, Ends
<1>3. ASSUME NEW rawly \in BOOLEAN, CleanupBegin(e, rawly) PROVE ControlInv'
  <2>1. /\ life[e] = "live" /\ life' = [life EXCEPT ![e] = "begin"] /\ Idle(e)
        /\ mailbox' = TRUE /\ latch' = TRUE /\ depth' = depth + 1 /\ begun' = TRUE
        /\ UNCHANGED registryVars
    BY <1>3 DEF CleanupBegin, Cleans
  <2>2. \A f \in Envs \ {e} : life[f] \in Gone
    BY <1>2, <2>1 DEF WasmControl
  <2>3. depth = 0
    BY <1>2, <2>1, <2>2 DEF WasmControl
  <2>4. WasmControl'
    BY <1>2, <2>1, <2>2, <2>3 DEF WasmControl, registryVars
  <2>5. StartersLive'
    BY <1>1, <1>2, <2>1 DEF StartersLive, registryVars, Idle, Busy, Out
  <2>. QED
    BY <1>1, <1>2, <2>4, <2>5 DEF ControlInv
<1>4. CASE BeginBackend(e) \/ EndTurns(e) \/ Exit(e)
  <2>1. /\ life[e] \in {"begin", "turns"} /\ life'[e] \in {"turns", "closing"}
        /\ UNCHANGED <<at, latch, depth, mailbox, begun>>
    BY <1>4 DEF BeginBackend, EndTurns, Exit, Cleans, BeginDeactivate, registryVars
  <2>2. WasmControl'
    BY <1>1, <1>2, <2>1 DEF WasmControl
  <2>3. StartersLive'
    BY <1>1, <1>2, <2>1 DEF StartersLive
  <2>. QED
    BY <1>1, <1>2, <2>2, <2>3 DEF ControlInv
<1>5. CASE CleanupFinish(e)
  <2>1. /\ life[e] = "closing" /\ life'[e] = "finish" /\ at' = [at EXCEPT ![e] = "stopping"]
        /\ begun' = FALSE /\ UNCHANGED <<latch, depth, mailbox>>
    BY <1>1, <1>5 DEF CleanupFinish, Cleans, Deactivate
  <2>2. WasmControl'
    BY <1>1, <1>2, <2>1 DEF WasmControl
  <2>3. StartersLive'
    BY <1>1, <1>2, <2>1 DEF StartersLive
  <2>. QED
    BY <1>1, <1>2, <2>2, <2>3 DEF ControlInv
<1>6. CASE FinishLeft(e)
  <2>1. /\ life[e] = "left" /\ life' = life /\ at' = [at EXCEPT ![e] = "stopping"]
        /\ begun /\ begun' = FALSE /\ UNCHANGED <<latch, depth, mailbox>>
    BY <1>1, <1>6 DEF FinishLeft, Cleans, Deactivate
  <2>2. WasmControl'
    BY <1>2, <2>1 DEF WasmControl
  <2>3. StartersLive'
    BY <1>1, <1>2, <2>1 DEF StartersLive
  <2>. QED
    BY <1>1, <1>2, <2>2, <2>3 DEF ControlInv
<1>. QED
  BY <1>3, <1>4, <1>5, <1>6

LEMMA DrainKeepsControl ==
  ASSUME TypeOK, ControlInv, NEW e \in Envs, Replay(e) \/ Drained(e) \/ DestroyRaw(e)
  PROVE  ControlInv'
<1> USE DEF TypeOK, RegistryTypes, EnvTypes, BarrierTypes, Lives, barrierVars
<1>1. /\ life' = [life EXCEPT ![e] = life'[e]] /\ life[e] \in {"finish", "drain"}
      /\ life'[e] \in {"drain", "hooks"} /\ UNCHANGED <<wasm, calls, latch, begun, registryVars>>
  BY DEF Replay, Drained, DestroyRaw, Cleans
<1>2. wasm /\ WasmControl /\ StartersLive
  BY <1>1 DEF ControlInv, NativeControl
<1>3. \A f \in Envs \ {e} : life[f] \in Gone
  BY <1>1, <1>2 DEF WasmControl, OneActive, Gone
<1>4. depth' = 0
  <2>1. CASE Replay(e)
    BY <1>2, <2>1 DEF Replay, WasmControl, BarrierDepth
  <2>2. CASE Drained(e) \/ DestroyRaw(e)
    <3>1. life[e] = "drain" /\ depth' = depth
      BY <2>2 DEF Drained, DestroyRaw, Cleans
    <3>. QED
      BY <1>2, <1>3, <3>1 DEF WasmControl, BarrierDepth, Gone, Handshake
  <2>. QED
    BY <2>1, <2>2
<1>5. backend = "stopped"
  <2>1. life[e] = "finish" => at[e] = "out"
    BY DEF Replay, Drained, DestroyRaw, Cleans, Out
  <2>. QED
    BY <1>1, <1>2, <2>1 DEF WasmControl, EndsStopped
<1>6. WasmControl'
  BY <1>1, <1>2, <1>3, <1>4, <1>5
  DEF WasmControl, OneActive, BarrierUp, BegunIsOwed, BarrierDepth, EndsStopped, Gone, Handshake,
      Ends, registryVars
<1>7. StartersLive'
  BY <1>1, <1>2 DEF StartersLive, registryVars
<1>. QED
  BY <1>1, <1>2, <1>6, <1>7 DEF ControlInv

LEMMA StepsKeepControl == ASSUME TypeOK, ControlInv, [Next]_vars PROVE ControlInv'
<1>1. ASSUME NEW e \in Envs, ThreadStep(e) PROVE ControlInv'
  BY <1>1, ContinueKeepsControl, DispatchKeepsControl, RegistrationKeepsControl,
     TeardownKeepsControl, HandshakeKeepsControl, DrainKeepsControl
  DEF ThreadStep
<1>2. ASSUME NEW e \in Envs, LoaderStep(e) PROVE ControlInv'
  BY <1>2, HandshakeKeepsControl, DrainKeepsControl DEF LoaderStep
<1>3. ASSUME NEW e \in Envs, HostStep(e) PROVE ControlInv'
  <2>1. CASE ExplicitStart(e) \/ ExplicitStop(e)
             \/ \E p \in Promises : DispatchRefused(e, p) \/ Dispatch(e, p)
    BY <2>1, DispatchKeepsControl
  <2>2. CASE RefuseRegistration(e) \/ Unwind(e) \/ Enrol(e) \/ Activate(e)
    BY <2>2, RegistrationKeepsControl
  <2>3. CASE Leave(e)
    BY <2>3, TeardownKeepsControl
  <2>4. CASE (\E rawly \in BOOLEAN : CleanupBegin(e, rawly)) \/ Exit(e) \/ FinishLeft(e)
    BY <2>4, HandshakeKeepsControl
  <2>5. CASE DestroyRaw(e)
    BY <2>5, DrainKeepsControl
  <2>. QED
    BY <1>3, <2>1, <2>2, <2>3, <2>4, <2>5 DEF HostStep
<1>. QED
  BY <1>1, <1>2, <1>3, WorkKeepsControl DEF Next

(* MODULE_COUNT of a native image counts the environments whose cleanup    *)
(* hook has not run.                                                       *)
Enrolled == {e \in Envs : life[e] \in {"init", "live", "hooks"}}
CountInv == ~ wasm => IsFiniteSet(Enrolled) /\ count = Cardinality(Enrolled)

(* The steps that only a wasm image takes.                                 *)
WasmStep(e) ==
  \/ RefuseRegistration(e) \/ Unwind(e)
  \/ \E rawly \in BOOLEAN : CleanupBegin(e, rawly)
  \/ BeginBackend(e) \/ EndTurns(e) \/ Exit(e) \/ CleanupFinish(e) \/ FinishLeft(e)
  \/ Replay(e) \/ Drained(e) \/ DestroyRaw(e)
(* The steps that leave the environments where they are.                   *)
StillStep(e) ==
  \/ Continue(e) \/ ExplicitStart(e) \/ ExplicitStop(e)
  \/ \E p \in Promises : \/ DispatchRefused(e, p) \/ Dispatch(e, p)
                         \/ Spawn(e, p) \/ Decline(e, p) \/ Hook(e, p) \/ DropHere(e, p)
IdleStep == UNCHANGED vars \/ \E p \in Promises : WorkStep(p) \/ HostDispatch(p)

LEMMA StepKinds ==
  ASSUME [Next]_vars
  PROVE  \/ IdleStep
         \/ \E e \in Envs : \/ WasmStep(e) \/ StillStep(e)
                            \/ Enrol(e) \/ Activate(e) \/ Leave(e) \/ CleanupHook(e) \/ Finalize(e)
<1>1. ASSUME NEW e \in Envs, ThreadStep(e)
      PROVE  WasmStep(e) \/ StillStep(e) \/ Enrol(e) \/ CleanupHook(e) \/ Finalize(e)
  BY <1>1 DEF ThreadStep, WasmStep, StillStep
<1>2. ASSUME NEW e \in Envs, LoaderStep(e) PROVE WasmStep(e)
  BY <1>2 DEF LoaderStep, WasmStep
<1>3. ASSUME NEW e \in Envs, HostStep(e)
      PROVE  WasmStep(e) \/ StillStep(e) \/ Enrol(e) \/ Activate(e) \/ Leave(e)
  BY <1>3 DEF HostStep, WasmStep, StillStep
<1>. QED
  BY <1>1, <1>2, <1>3 DEF Next, IdleStep

LEMMA WasmStepIsWasm ==
  ASSUME ControlInv, NEW e \in Envs, WasmStep(e) PROVE wasm /\ wasm' = wasm
<1>1. wasm' = wasm
  BY DEF WasmStep, RefuseRegistration, Unwind, Registers, CleanupBegin, BeginBackend, EndTurns, Exit,
         CleanupFinish, FinishLeft, Replay, Drained, DestroyRaw, Cleans
<1>2. wasm
  BY DEF WasmStep, ControlInv, NativeControl, RefuseRegistration, Unwind, Registers, CleanupBegin,
         BeginBackend, EndTurns, Exit, CleanupFinish, FinishLeft, Replay, Drained, DestroyRaw, Cleans
<1>. QED
  BY <1>1, <1>2

LEMMA StillStepIsStill ==
  ASSUME NEW e \in Envs, StillStep(e) PROVE UNCHANGED <<wasm, life, count, latch, raw>>
  BY DEF StillStep, Continue, ExplicitStart, ExplicitStop, Explicit, DispatchRefused, Dispatch,
         Dispatches, Spawn, Decline, Spawns, Hook, DropHere, envVars, barrierVars

LEMMA IdleStepIsStill == ASSUME IdleStep PROVE UNCHANGED <<registryVars, wasm, life, count, calls, raw>>
  BY DEF IdleStep, vars, envVars, barrierVars, WorkStep, Run, Complete, Drop, Settle, SettleNothing,
         CallFunction, Works, HostDispatch

LEMMA StepsKeepCount ==
  ASSUME TypeOK, ControlInv, CountInv, [Next]_vars PROVE CountInv'
<1> USE DEF TypeOK, EnvTypes, CountInv, Enrolled, Lives
<1>1. CASE IdleStep \/ \E e \in Envs : StillStep(e)
  BY <1>1, IdleStepIsStill, StillStepIsStill
<1>2. ASSUME NEW e \in Envs, WasmStep(e) PROVE CountInv'
  BY <1>2, WasmStepIsWasm
<1>3. ASSUME NEW e \in Envs, Enrol(e) PROVE CountInv'
  <2>1. SUFFICES ASSUME ~ wasm PROVE IsFiniteSet(Enrolled') /\ count' = Cardinality(Enrolled')
    BY <1>3 DEF Enrol
  <2>2. life[e] = "out"
    BY <1>3, <2>1 DEF Enrol, ControlInv, NativeControl
  <2>3. Enrolled' = Enrolled \cup {e} /\ e \notin Enrolled /\ count' = count + 1
    BY <1>3, <2>2 DEF Enrol
  <2>4. IsFiniteSet(Enrolled) /\ count = Cardinality(Enrolled)
    BY <2>1
  <2>. HIDE DEF Enrolled
  <2>. QED
    BY <2>3, <2>4, FS_AddElement
<1>4. ASSUME NEW e \in Envs, Activate(e) \/ Leave(e) \/ Finalize(e) PROVE CountInv'
  <2>1. Enrolled' = Enrolled /\ UNCHANGED <<wasm, count>>
    BY <1>4 DEF Activate, Leave, Finalize
  <2>. QED
    BY <2>1
<1>5. ASSUME NEW e \in Envs, CleanupHook(e) PROVE CountInv'
  <2>1. Enrolled' = Enrolled \ {e} /\ e \in Enrolled /\ count' = count - 1 /\ wasm' = wasm
    BY <1>5 DEF CleanupHook
  <2>2. ~ wasm => IsFiniteSet(Enrolled) /\ count = Cardinality(Enrolled)
    OBVIOUS
  <2>. HIDE DEF Enrolled
  <2>3. ~ wasm => IsFiniteSet(Enrolled') /\ count' = Cardinality(Enrolled')
    BY <2>1, <2>2, FS_RemoveElement
  <2>. QED
    BY <2>1, <2>3
<1>. QED
  BY <1>1, <1>2, <1>3, <1>4, <1>5, StepKinds

(* Once all environments are past their cleanup, the last stop is under    *)
(* way or the backend is stopped and the phase reset.                      *)
Past == {"out", "dead"} \cup (IF wasm THEN Ends ELSE {"early"})
AllPast == \A e \in Envs : life[e] \in Past
StopUnderWay == \E e \in Envs : at[e] \in {"stopping", "stopped"}
QuietInv == AllPast => StopUnderWay \/ (backend = "stopped" /\ phase = "Idle")

LEMMA StepsKeepQuiet ==
  ASSUME TypeOK, LockHeld, BackendFollowsPhase, ControlInv, CountInv, QuietInv, [Next]_vars
  PROVE  QuietInv'
<1> USE DEF TypeOK, RegistryTypes, EnvTypes, QuietInv, AllPast, StopUnderWay, Lives
<1>1. CASE IdleStep
  <2>1. UNCHANGED <<phase, backend, at, wasm, life>>
    BY <1>1, IdleStepIsStill DEF registryVars
  <2>. QED
    BY <2>1 DEF Past
<1>2. ASSUME NEW e \in Envs, StillStep(e) PROVE QuietInv'
  <2>1. SUFFICES ASSUME AllPast
                 PROVE  StopUnderWay' \/ (backend' = "stopped" /\ phase' = "Idle")
    BY <1>2, StillStepIsStill DEF Past
  <2>2. at[e] \notin {"claimed", "starting"}
    BY <2>1 DEF ControlInv, StartersLive, Past, Ends
  <2>3. life[e] \in {"init", "live", "turns", "drain"} => wasm /\ latch
    BY <2>1 DEF ControlInv, WasmControl, BarrierUp, Past, Ends
  <2>4. CASE Continue(e)
    <3>1. ShutdownReturns(e) \/ ResetPhase(e)
      BY <2>2, <2>4 DEF Continue, SkipStart, Revalidate, CompleteStart
    <3>2. CASE ShutdownReturns(e)
      BY <3>2 DEF ShutdownReturns, Enters
    <3>3. CASE ResetPhase(e)
      BY <3>3 DEF ResetPhase, BackendFollowsPhase
    <3>. QED
      BY <3>1, <3>2, <3>3
  <2>5. CASE ~ Continue(e)
    <3>1. UNCHANGED registryVars
      BY <1>2, <2>3, <2>5 DEF StillStep, ExplicitStart, ExplicitStop, Explicit, StartRuntime, StopRefused,
        DispatchRefused, Dispatch, Dispatches, Spawn, Decline, Spawns, Hook, DropHere
    <3>. QED
      BY <2>1, <3>1 DEF registryVars
  <2>. QED
    BY <2>4, <2>5
<1>3. ASSUME NEW e \in Envs, WasmStep(e) PROVE QuietInv'
  <2>1. wasm /\ wasm'
    BY <1>3, WasmStepIsWasm
  <2>2. CASE RefuseRegistration(e)
    <3>1. begun' /\ ControlInv'
      BY <2>2, StepsKeepControl DEF RefuseRegistration, Next, HostStep
    <3>. QED
      BY <2>1, <3>1 DEF ControlInv, WasmControl, BegunIsOwed, Past, Ends, Handshake
  <2>3. CASE Unwind(e) \/ CleanupFinish(e) \/ FinishLeft(e)
    <3>1. at'[e] = "stopping"
      BY <2>3 DEF Unwind, CleanupFinish, FinishLeft, Deactivate, Enters
    <3>. QED
      BY <3>1
  <2>4. CASE (\E rawly \in BOOLEAN : CleanupBegin(e, rawly)) \/ BeginBackend(e) \/ EndTurns(e) \/ Exit(e)
    <3>1. life'[e] \in Handshake
      BY <2>4 DEF CleanupBegin, BeginBackend, EndTurns, Exit, Cleans, Handshake
    <3>. QED
      BY <2>1, <3>1 DEF Past, Ends, Handshake
  <2>5. CASE Replay(e) \/ Drained(e) \/ DestroyRaw(e)
    <3>1. /\ life' = [life EXCEPT ![e] = life'[e]] /\ life[e] \in Ends
          /\ UNCHANGED <<phase, backend, at>>
      BY <2>5 DEF Replay, Drained, DestroyRaw, Cleans, Ends, registryVars
    <3>. QED
      BY <2>1, <3>1 DEF Past
  <2>. QED
    BY <1>3, <2>2, <2>3, <2>4, <2>5 DEF WasmStep
<1>4. ASSUME NEW e \in Envs, Enrol(e) \/ Activate(e) \/ Leave(e) PROVE QuietInv'
  <2>1. life'[e] \in {"init", "live", "hooks"} /\ (life'[e] = "hooks" => ~ wasm) /\ wasm' = wasm
    BY <1>4 DEF Enrol, Activate, Leave
  <2>. QED
    BY <2>1 DEF Past, Ends
<1>5. ASSUME NEW e \in Envs, CleanupHook(e) PROVE QuietInv'
  <2>1. /\ life[e] = "hooks" /\ life' = [life EXCEPT ![e] = "early"] /\ wasm' = wasm
        /\ IF count = 1 /\ ~ latch THEN Deactivate(e) ELSE UNCHANGED registryVars
    BY <1>5 DEF CleanupHook, StopRefused
  <2>2. CASE Deactivate(e)
    BY <2>2 DEF Deactivate, Enters
  <2>3. CASE wasm /\ ~ Deactivate(e)
    <3>1. AllPast' => AllPast
      BY <2>1, <2>3 DEF Past, Ends
    <3>. QED
      BY <2>1, <2>3, <3>1 DEF registryVars
  <2>4. CASE ~ wasm /\ ~ Deactivate(e)
    <3>1. count # 1
      BY <2>1, <2>4 DEF ControlInv, NativeControl
    <3>2. ASSUME AllPast' PROVE Enrolled = {e}
      BY <2>1, <2>4, <3>2 DEF Past, Enrolled
    <3>. QED
      BY <2>4, <3>1, <3>2, FS_Singleton DEF CountInv
  <2>. QED
    BY <2>2, <2>3, <2>4
<1>6. ASSUME NEW e \in Envs, Finalize(e) PROVE QuietInv'
  <2>1. /\ life[e] = "early" /\ life' = [life EXCEPT ![e] = "dead"]
        /\ UNCHANGED <<phase, backend, at, wasm>>
    BY <1>6 DEF Finalize, registryVars
  <2>. QED
    BY <2>1 DEF Past, Ends
<1>. QED
  BY <1>1, <1>2, <1>3, <1>4, <1>5, <1>6, StepKinds

(* A stopped backend has no task: a stop waits for the last of them.       *)
WorkInv == backend = "stopped" => ~ WorkPending

LEMMA StepsKeepWork ==
  ASSUME TypeOK, BackendFollowsPhase, WorkInv, [Next]_vars PROVE WorkInv'
<1> USE DEF TypeOK, RegistryTypes, TaskTypes, WorkInv, WorkPending, Becomes
<1>1. ASSUME NEW e \in Envs, Continue(e) PROVE WorkInv'
  <2>1. backend' = "stopped" => backend = "stopped" \/ ~ WorkPending
    BY <1>1 DEF Continue, SkipStart, Revalidate, CompleteStart, ShutdownReturns, ResetPhase,
                BackendFollowsPhase
  <2>2. Alive' = Alive
    BY <1>1 DEF Continue, Alive, taskVars
  <2>. QED
    BY <2>1, <2>2
<1>2. ASSUME NEW e \in Envs, NEW p \in Promises, Spawn(e, p) PROVE WorkInv'
  BY <1>2 DEF Spawn, Spawns, registryVars
<1>3. ASSUME Alive' \subseteq Alive, backend' = "stopped" => backend = "stopped" PROVE WorkInv'
  BY <1>3
<1>4. ASSUME NEW p \in Promises, WorkStep(p) \/ HostDispatch(p) PROVE WorkInv'
  <2>1. Alive' \subseteq Alive
    BY <1>4 DEF Alive, WorkStep, Run, Complete, Drop, Settle, SettleNothing, CallFunction, Works,
                HostDispatch, taskVars
  <2>2. backend' = backend
    BY <1>4 DEF WorkStep, Run, Complete, Drop, Settle, SettleNothing, CallFunction, Works,
                HostDispatch, registryVars
  <2>. QED
    BY <1>3, <2>1, <2>2
<1>5. ASSUME NEW e \in Envs, StillStep(e), ~ Continue(e), \A p \in Promises : ~ Spawn(e, p)
      PROVE  WorkInv'
  <2>1. Alive' \subseteq Alive
    BY <1>5 DEF Alive, StillStep, ExplicitStart, ExplicitStop, Explicit, DispatchRefused, Dispatch,
                Decline, Hook, DropHere, taskVars
  <2>2. backend' = "stopped" => backend = "stopped"
    BY <1>5 DEF StillStep, ExplicitStart, ExplicitStop, StartRuntime, Claim, Deactivate, Announce,
                DispatchRefused, Dispatch, Decline, Spawns, Hook, DropHere, registryVars
  <2>. QED
    BY <1>3, <2>1, <2>2
<1>6. ASSUME NEW e \in Envs, WasmStep(e) PROVE WorkInv'
  <2>1. Alive' \subseteq Alive
    BY <1>6 DEF Alive, WasmStep, RefuseRegistration, Unwind, Registers, CleanupBegin, BeginBackend,
                EndTurns, Exit, CleanupFinish, FinishLeft, Replay, Drained, DestroyRaw, Cleans, taskVars
  <2>2. backend' = "stopped" => backend = "stopped"
    BY <1>6 DEF WasmStep, RefuseRegistration, Unwind, Registers, CleanupBegin, BeginBackend, EndTurns,
                Exit, CleanupFinish, FinishLeft, Replay, Drained, DestroyRaw, Deactivate,
                BeginDeactivate, Announce, registryVars
  <2>. QED
    BY <1>3, <2>1, <2>2
<1>7. ASSUME NEW e \in Envs, Enrol(e) \/ Activate(e) \/ Leave(e) \/ CleanupHook(e) \/ Finalize(e)
      PROVE  WorkInv'
  <2>1. Alive' \subseteq Alive
    BY <1>7 DEF Alive, Enrol, Activate, Leave, CleanupHook, Finalize, taskVars
  <2>2. backend' = "stopped" => backend = "stopped"
    BY <1>7 DEF Enrol, Activate, StartRuntime, Claim, Leave, CleanupHook, Finalize, Deactivate,
                Announce, registryVars
  <2>. QED
    BY <1>3, <2>1, <2>2
<1>8. CASE UNCHANGED vars
  <2>1. Alive' \subseteq Alive /\ backend' = backend
    BY <1>8 DEF vars, registryVars, taskVars, Alive
  <2>. QED
    BY <1>3, <2>1
<1>. QED
  BY <1>1, <1>2, <1>4, <1>5, <1>6, <1>7, <1>8, StepKinds DEF IdleStep, StillStep

(* What became of each promise of a wasm image, and of the task behind it. *)
Unsettled == {"new", "queued", "running", "value", "cancel", "parked"}
PromiseInv(p) ==
  /\ task[p] = "none" <=> outcome[p] = "none"
  /\ task[p] = "none" <=> owner[p] = Nobody
  /\ task[p] \in Unsettled => p \in slot \ (locked \cup queued) /\ outcome[p] = "pending"
  /\ task[p] = "calling" <=> p \in locked
  /\ p \in locked => p \notin slot \cup queued /\ outcome[p] = "pending"
  /\ p \in queued => task[p] = "over" /\ outcome[p] = "pending"
  /\ task[p] = "over" => \/ outcome[p] = "settled" \/ p \in queued
                         \/ outcome[p] = "lost" /\ life[owner[p]] = "dead"
  /\ p \in barred => task[p] = "parked" \/ (task[p] = "over" /\ outcome[p] = "settled")
(* A cancellation that is parked outside the mailbox is that of an         *)
(* environment whose host walked away.                                     *)
TaskInv(p) ==
  /\ p \in parked => task[p] = "parked"
  /\ task[p] = "parked" => p \in parked \/ life[owner[p]] = "left"
  /\ task[p] = "new" => calls[owner[p]] = p
CallInv == \A e \in Envs : calls[e] # Nobody => task[calls[e]] = "new" /\ owner[calls[e]] = e
(* The end of an environment is the end of its tasks, and but for a raw    *)
(* destruction that of its promises.                                       *)
OwnerInv(p) ==
  owner[p] # Nobody =>
    /\ life[owner[p]] # "out"
    /\ life[owner[p]] \in {"drain", "hooks", "early", "dead"} => task[p] = "over"
    /\ life[owner[p]] \in {"hooks", "early", "dead"} /\ owner[p] \notin raw => outcome[p] = "settled"

SettlesCounted == pending = Cardinality(queued) + Cardinality(locked)
AllPromises == CallInv /\ \A p \in Promises : PromiseInv(p) /\ TaskInv(p) /\ OwnerInv(p)
SettleInv == wasm => SettlesCounted /\ AllPromises

(* What settles a promise counts it.                                       *)
LEMMA SetsFinite ==
  ASSUME PromiseTypes
  PROVE  /\ IsFiniteSet(queued) /\ Cardinality(queued) \in Nat
         /\ IsFiniteSet(locked) /\ Cardinality(locked) \in Nat
  BY FS_Subset, FS_CardinalityType DEF PromiseTypes

LEMMA CountKept ==
  ASSUME PromiseTypes, SettlesCounted, wasm, NEW p \in Promises,
         \/ Create(p) \/ CreateDelivered(p)
         \/ (CreateQueued(p) \/ Enqueue(p)) /\ p \notin queued
         \/ Take(p)
         \/ Call(p) /\ p \in locked \ queued
         \/ Dispatched(p)
  PROVE  SettlesCounted'
<1> USE SetsFinite DEF SettlesCounted
<1>1. CASE Create(p) \/ CreateDelivered(p)
  BY <1>1 DEF Create, CreateDelivered
<1>2. CASE (CreateQueued(p) \/ Enqueue(p)) /\ p \notin queued
  <2>1. Cardinality(queued') = Cardinality(queued) + 1
    BY <1>2, FS_AddElement DEF CreateQueued, Enqueue
  <2>. QED
    BY <1>2, <2>1 DEF CreateQueued, Enqueue, Counted
<1>3. CASE Take(p)
  <2>1. Cardinality(locked') = Cardinality(locked) + 1
    BY <1>3, FS_AddElement DEF Take
  <2>. QED
    BY <1>3, <2>1 DEF Take, Counted
<1>4. CASE Call(p) /\ p \in locked \ queued
  <2>1. Cardinality(queued') = Cardinality(queued) + 1
    BY <1>4, FS_AddElement DEF Call
  <2>2. Cardinality(locked') = Cardinality(locked) - 1
    BY <1>4, FS_RemoveElement DEF Call
  <2>. QED
    BY <1>4, <2>1, <2>2 DEF Call
<1>5. CASE Dispatched(p)
  <2>1. Cardinality(queued') = Cardinality(queued) - 1 /\ Cardinality(queued') \in Nat
    BY <1>5, FS_RemoveElement, FS_CardinalityType DEF Dispatched
  <2>. QED
    BY <1>5, <2>1 DEF Dispatched, Released
<1>. QED
  BY <1>1, <1>2, <1>3, <1>4, <1>5

LEMMA CountClosed ==
  ASSUME PromiseTypes, SettlesCounted, wasm, NEW ps \in SUBSET Promises, Deliver(ps) \/ Close(ps)
  PROVE  SettlesCounted'
<1> USE SetsFinite DEF SettlesCounted
<1>1. CASE Deliver(ps)
  BY <1>1 DEF Deliver
<1>2. CASE Close(ps)
  <2>1. /\ Cardinality(queued \ ps) = Cardinality(queued) - Cardinality(ps \cap queued)
        /\ Cardinality(queued \ ps) \in Nat /\ Cardinality(ps \cap queued) \in Nat
    <3>1. Cardinality(queued \ ps) = Cardinality(queued) - Cardinality(queued \cap ps)
      BY FS_Difference
    <3>2. IsFiniteSet(queued \ ps) /\ IsFiniteSet(ps \cap queued)
      BY FS_Subset
    <3>3. Cardinality(queued \ ps) \in Nat /\ Cardinality(ps \cap queued) \in Nat
      BY <3>2, FS_CardinalityType
    <3>4. ps \cap queued = queued \cap ps
      OBVIOUS
    <3>. QED
      BY <3>1, <3>3, <3>4
  <2>2. pending' = pending - Cardinality(ps \cap queued)
    BY <1>2, <2>1 DEF Close, Released
  <2>. QED
    BY <1>2, <2>1, <2>2 DEF Close
<1>. QED
  BY <1>1, <1>2

(* The steps that neither settle nor move a task.                          *)
LEMMA QuietStepKeepsPromises ==
  ASSUME TypeOK, ControlInv, AllPromises,
         UNCHANGED <<deferredVars, calls, owner, task, barred>>,
         \A f \in Envs : life[f] = "left" => life'[f] = "left",
         \A f \in Envs : life[f] = "dead" => life'[f] = "dead",
         \A f \in Envs : life[f] # "out" => life'[f] # "out",
         \A p \in parked : p \in parked' \/ life'[owner[p]] = "left", parked' \subseteq parked,
         \A f \in Envs : life'[f] \in {"drain", "hooks", "early", "dead"} =>
                           life[f] \in {"drain", "hooks", "early", "dead"},
         \A f \in Envs : life'[f] \in {"hooks", "early", "dead"} /\ f \notin raw' =>
                           \/ life[f] \in {"hooks", "early", "dead"} /\ f \notin raw
                           \/ \A p \in Promises : owner[p] = f => outcome[p] = "settled"
  PROVE  AllPromises'
<1> USE DEF TypeOK, EnvTypes, TaskTypes, BarrierTypes, AllPromises, deferredVars
<1>1. CallInv'
  BY DEF CallInv
<1>2. ASSUME NEW p \in Promises PROVE PromiseInv(p)' /\ TaskInv(p)' /\ OwnerInv(p)'
  <2>1. owner[p] \in Envs \/ (owner[p] = Nobody /\ task[p] = "none")
    BY DEF PromiseInv
  <2>2. PromiseInv(p)'
    BY <2>1 DEF PromiseInv
  <2>3. TaskInv(p)'
    BY <2>1 DEF TaskInv
  <2>4. OwnerInv(p)'
    BY <2>1 DEF OwnerInv
  <2>. QED
    BY <2>2, <2>3, <2>4
<1>. QED
  BY <1>1, <1>2

LEMMA LivesOn ==
  ASSUME TypeOK, ControlInv, SettleInv, wasm, NEW e \in Envs,
         \/ Continue(e) \/ ExplicitStart(e) \/ ExplicitStop(e) \/ Enrol(e) \/ Activate(e)
         \/ CleanupHook(e) \/ BeginBackend(e) \/ EndTurns(e) \/ CleanupFinish(e) \/ FinishLeft(e)
         \/ Exit(e) \/ (\E rawly \in BOOLEAN : CleanupBegin(e, rawly))
  PROVE  AllPromises' /\ SettlesCounted'
<1> USE DEF envVars, promiseVars, barrierVars, taskVars
<1>1. /\ UNCHANGED <<deferredVars, calls, owner, task, barred, parked>>
      /\ raw \subseteq raw'
  BY DEF Continue, ExplicitStart, ExplicitStop, Explicit, Enrol, Activate, CleanupHook, BeginBackend,
         EndTurns, CleanupFinish, FinishLeft, Exit, CleanupBegin, Cleans
<1>2. \/ life' = life
      \/ /\ life' = [life EXCEPT ![e] = life'[e]]
         /\ \/ life[e] \in {"out", "unwind", "init"} /\ life'[e] \in {"init", "live"}
            \/ life[e] \in {"live", "begin", "turns", "closing"}
               /\ life'[e] \in {"begin", "turns", "closing", "finish"}
            \/ life[e] = "hooks" /\ life'[e] = "early"
  BY DEF TypeOK, EnvTypes, Lives, Continue, ExplicitStart, ExplicitStop, Explicit, Enrol, Activate,
         CleanupHook, BeginBackend, EndTurns, CleanupFinish, FinishLeft, Exit, CleanupBegin, Cleans
<1>3. AllPromises'
  BY <1>1, <1>2, QuietStepKeepsPromises DEF SettleInv, TypeOK, EnvTypes
<1>4. SettlesCounted'
  BY <1>1 DEF SettleInv, SettlesCounted, deferredVars
<1>. QED
  BY <1>3, <1>4

(* A host that walks away leaves its parked cancellations behind.          *)
LEMMA WalksAway ==
  ASSUME TypeOK, ControlInv, SettleInv, wasm, NEW e \in Envs, RefuseRegistration(e) \/ Unwind(e)
  PROVE  AllPromises' /\ SettlesCounted'
<1>1. /\ UNCHANGED <<deferredVars, calls, owner, task, barred, raw>>
      /\ begun /\ Idle(e) /\ life[e] = "out" /\ parked' = {}
      /\ life'[e] \in {"out", "unwind"}
      /\ \A f \in Envs \ {e} : life'[f] = IF life[f] = "turns" THEN "left" ELSE life[f]
  BY DEF RefuseRegistration, Unwind, Registers, Walked, promiseVars, taskVars
<1>2. \A f \in Envs : life[f] \in {"out", "dead", "left", "turns"}
  BY <1>1 DEF ControlInv, WasmControl, BegunIsOwed, Gone, Handshake, Idle, Busy, Synchronous
<1>3. ASSUME NEW p \in parked PROVE life'[owner[p]] = "left"
  <2>1. p \in Promises /\ owner[p] \in Envs /\ task[p] = "parked"
    BY DEF TypeOK, BarrierTypes, EnvTypes, SettleInv, AllPromises, TaskInv, PromiseInv
  <2>2. life[owner[p]] \in {"left", "turns"}
    BY <1>2, <2>1, NobodyAssumption DEF TypeOK, EnvTypes, SettleInv, AllPromises, OwnerInv
  <2>. QED
    BY <1>1, <2>1, <2>2
<1>4. AllPromises'
  BY <1>1, <1>2, <1>3, QuietStepKeepsPromises DEF SettleInv
<1>5. SettlesCounted'
  BY <1>1 DEF SettleInv, SettlesCounted, deferredVars
<1>. QED
  BY <1>4, <1>5

(* The context goes once nothing is queued, or rawly.                      *)
LEMMA ContextGoes ==
  ASSUME TypeOK, ControlInv, SettleInv, wasm, NEW e \in Envs, Drained(e) \/ DestroyRaw(e)
  PROVE  AllPromises' /\ SettlesCounted'
<1>1. /\ UNCHANGED <<deferredVars, calls, owner, task, barred, parked>>
      /\ life[e] = "drain" /\ life' = [life EXCEPT ![e] = "hooks"]
      /\ raw \subseteq raw'
  BY DEF Drained, DestroyRaw, Cleans, Lives, promiseVars, barrierVars, taskVars
<1>2. e \in raw' \/ \A p \in Promises : owner[p] = e => outcome[p] = "settled"
  <2>1. CASE DestroyRaw(e)
    BY <2>1 DEF DestroyRaw
  <2>2. CASE Drained(e)
    <3>1. pending = 0 /\ pending = Cardinality(queued) + Cardinality(locked)
      BY <2>2 DEF Drained, SettleInv, SettlesCounted
    <3>2. queued = {}
      BY <3>1, SetsFinite, FS_EmptySet DEF TypeOK
    <3>3. ASSUME NEW p \in Promises, owner[p] = e PROVE outcome[p] = "settled"
      <4>1. task[p] = "over"
        BY <1>1, <3>3, NobodyAssumption DEF SettleInv, AllPromises, OwnerInv, PromiseInv
      <4>. QED
        BY <1>1, <3>2, <3>3, <4>1 DEF SettleInv, AllPromises, PromiseInv
    <3>. QED
      BY <3>3
  <2>. QED
    BY <2>1, <2>2
<1>3. AllPromises'
  BY <1>1, <1>2, QuietStepKeepsPromises DEF SettleInv, TypeOK, EnvTypes
<1>4. SettlesCounted'
  BY <1>1 DEF SettleInv, SettlesCounted, deferredVars
<1>. QED
  BY <1>3, <1>4

(* The replay ends what is left of the environment's tasks.                *)
LEMMA Replays ==
  ASSUME TypeOK, ControlInv, WorkInv, SettleInv, wasm, NEW e \in Envs, Replay(e)
  PROVE  AllPromises' /\ SettlesCounted'
<1>1. SettlesCounted'
  BY CountClosed DEF Replay, SettleInv, TypeOK, BarrierTypes
<1>2. /\ life[e] = "finish" /\ at[e] = "out"
      /\ life' = [life EXCEPT ![e] = IF e \in raw THEN "hooks" ELSE "drain"]
      /\ task' = [p \in Promises |-> IF p \in parked THEN "over" ELSE task[p]]
      /\ outcome' = [p \in Promises |-> IF p \in parked \cap slot THEN "settled" ELSE outcome[p]]
      /\ slot' = slot \ parked /\ parked' = {}
      /\ UNCHANGED <<locked, queued, calls, owner, barred, raw>>
  BY DEF Replay, Deliver, Lives, Out, promiseVars
<1>. USE DEF TypeOK, EnvTypes, TaskTypes, BarrierTypes
<1>3. ~ WorkPending
  BY <1>2 DEF ControlInv, WasmControl, EndsStopped, WorkInv
<1>4. \A f \in Envs : calls[f] = Nobody
  BY <1>2, NoStarter DEF Ends
<1>5. ASSUME NEW p \in Promises PROVE PromiseInv(p)' /\ TaskInv(p)' /\ OwnerInv(p)'
  <2>1. PromiseInv(p) /\ TaskInv(p) /\ OwnerInv(p)
    BY DEF SettleInv, AllPromises
  <2>2. owner[p] \in Envs \/ (owner[p] = Nobody /\ task[p] = "none")
    BY <2>1 DEF PromiseInv
  <2>3. task[p] \in {"none", "parked", "over"}
    <3>1. task[p] \notin {"queued", "running", "value", "cancel", "calling"}
      BY <1>3 DEF WorkPending, Alive
    <3>2. task[p] # "new"
      BY <1>4, <2>1, <2>2 DEF TaskInv
    <3>. QED
      BY <3>1, <3>2 DEF Tasks
  <2>4. CASE p \in parked
    <3>1. /\ task[p] = "parked" /\ task'[p] = "over" /\ outcome'[p] = "settled"
          /\ p \notin locked \cup queued
      BY <1>2, <2>1, <2>4 DEF TaskInv, PromiseInv, Unsettled
    <3>. QED
      BY <1>2, <2>1, <2>2, <3>1 DEF PromiseInv, TaskInv, OwnerInv, Unsettled
  <2>5. CASE p \notin parked
    <3>1. task'[p] = task[p] /\ outcome'[p] = outcome[p] /\ (p \in slot' <=> p \in slot)
      BY <1>2, <2>5
    <3>2. PromiseInv(p)' /\ TaskInv(p)'
      BY <1>2, <2>1, <2>2, <2>5, <3>1 DEF PromiseInv, TaskInv
    <3>3. owner[p] = e => task[p] = "over"
      <4>1. owner[p] = e => task[p] # "none"
        BY <2>1, NobodyAssumption DEF PromiseInv
      <4>2. owner[p] = e => task[p] # "parked"
        BY <1>2, <2>1, <2>5 DEF TaskInv
      <4>. QED
        BY <2>3, <4>1, <4>2
    <3>4. OwnerInv(p)'
      BY <1>2, <2>1, <2>2, <3>1, <3>3 DEF OwnerInv
    <3>. QED
      BY <3>2, <3>4
  <2>. QED
    BY <2>4, <2>5
<1>6. CallInv'
  BY <1>2, <1>4 DEF CallInv
<1>. QED
  BY <1>1, <1>5, <1>6 DEF AllPromises

(* The finalizers of an environment find its tasks over.                   *)
LEMMA Finalizes ==
  ASSUME TypeOK, ControlInv, SettleInv, wasm, NEW e \in Envs, Finalize(e)
  PROVE  AllPromises' /\ SettlesCounted'
<1>1. SettlesCounted'
  BY CountClosed DEF Finalize, SettleInv, TypeOK, Of
<1>2. /\ life[e] = "early" /\ life' = [life EXCEPT ![e] = "dead"]
      /\ queued' = queued \ Of(e) /\ slot' = slot \ Of(e)
      /\ outcome' = [p \in Promises |->
                       IF p \in Of(e) /\ outcome[p] = "pending" THEN "lost" ELSE outcome[p]]
      /\ UNCHANGED <<locked, calls, owner, task, barred, parked, raw>>
  BY DEF Finalize, Close, Lives, promiseVars, barrierVars, taskVars
<1>. USE DEF TypeOK, EnvTypes, TaskTypes, BarrierTypes
<1>3. ASSUME NEW p \in Promises PROVE PromiseInv(p)' /\ TaskInv(p)' /\ OwnerInv(p)'
  <2>1. PromiseInv(p) /\ TaskInv(p) /\ OwnerInv(p)
    BY DEF SettleInv, AllPromises
  <2>2. owner[p] \in Envs \/ (owner[p] = Nobody /\ task[p] = "none")
    BY <2>1 DEF PromiseInv
  <2>3. CASE owner[p] = e
    <3>1. task[p] = "over" /\ (e \notin raw => outcome[p] = "settled")
      BY <1>2, <2>1, <2>3, <2>2, NobodyAssumption DEF OwnerInv
    <3>2. outcome'[p] = (IF outcome[p] = "pending" THEN "lost" ELSE outcome[p]) /\ p \notin queued'
      BY <1>2, <2>3 DEF Of
    <3>. QED
      BY <1>2, <2>1, <2>2, <2>3, <3>1, <3>2 DEF PromiseInv, TaskInv, OwnerInv, Unsettled
  <2>4. CASE owner[p] # e
    <3>1. outcome'[p] = outcome[p] /\ (p \in queued' <=> p \in queued) /\ (p \in slot' <=> p \in slot)
      BY <1>2, <2>4 DEF Of
    <3>. QED
      BY <1>2, <2>1, <2>2, <2>4, <3>1 DEF PromiseInv, TaskInv, OwnerInv, Unsettled
  <2>. QED
    BY <2>3, <2>4
<1>4. CallInv'
  BY <1>2 DEF CallInv, SettleInv, AllPromises
<1>. QED
  BY <1>1, <1>3, <1>4 DEF AllPromises

(* One promise is made, or settles, and its task moves with it.            *)
LEMMA OthersKept ==
  ASSUME TypeOK, AllPromises, NEW p \in Promises,
         UNCHANGED <<life, raw>>,
         \A q \in Promises \ {p} :
           /\ task'[q] = task[q] /\ outcome'[q] = outcome[q] /\ owner'[q] = owner[q]
           /\ q \in slot' <=> q \in slot
           /\ q \in locked' <=> q \in locked
           /\ q \in queued' <=> q \in queued
           /\ q \in barred' <=> q \in barred
           /\ q \in parked' <=> q \in parked
           /\ task[q] = "new" => calls'[owner[q]] = q,
         PromiseInv(p)' /\ TaskInv(p)' /\ OwnerInv(p)', CallInv'
  PROVE  AllPromises'
<1>1. ASSUME NEW q \in Promises \ {p} PROVE PromiseInv(q)' /\ TaskInv(q)' /\ OwnerInv(q)'
  <2>1. PromiseInv(q) /\ TaskInv(q) /\ OwnerInv(q)
    BY DEF AllPromises
  <2>2. PromiseInv(q)'
    BY <2>1 DEF PromiseInv
  <2>3. TaskInv(q)' /\ OwnerInv(q)'
    BY <2>1 DEF TaskInv, OwnerInv
  <2>. QED
    BY <2>2, <2>3
<1>. QED
  BY <1>1 DEF AllPromises

LEMMA Dispatching ==
  ASSUME TypeOK, ControlInv, SettleInv, wasm, NEW e \in Envs, NEW p \in Promises,
         DispatchRefused(e, p) \/ Dispatch(e, p)
  PROVE  AllPromises' /\ SettlesCounted'
<1>. USE DEF TypeOK, EnvTypes, TaskTypes, BarrierTypes, PromiseTypes, envVars, barrierVars, taskVars
<1>0. PromiseInv(p) /\ TaskInv(p) /\ OwnerInv(p) /\ CallInv
  BY DEF SettleInv, AllPromises
<1>1. /\ outcome[p] = "none" /\ Idle(e) /\ owner' = [owner EXCEPT ![p] = e]
      /\ life[e] \in {"init", "live", "turns", "drain"}
      /\ UNCHANGED <<life, barred, parked, raw, locked>>
  BY DEF DispatchRefused, Dispatch, Dispatches, Create, CreateDelivered, CreateQueued
<1>2. task[p] = "none" /\ p \notin locked \cup queued \cup barred \cup parked
  BY <1>0, <1>1 DEF PromiseInv, TaskInv
<1>3. \A f \in Envs : calls[f] = Nobody
  BY <1>1 DEF Idle, Busy
<1>4. \A q \in Promises : task[q] # "new"
  <2>1. \A q \in Promises : PromiseInv(q) /\ TaskInv(q)
    BY DEF SettleInv, AllPromises
  <2>. QED
    BY <1>3, <2>1, PromisesAssumption DEF PromiseInv, TaskInv
<1>5. CASE DispatchRefused(e, p)
  <2>1. UNCHANGED <<calls, slot>> /\ task' = [task EXCEPT ![p] = "over"]
    BY <1>5 DEF DispatchRefused, CreateDelivered, CreateQueued, Becomes
  <2>2. CASE CreateDelivered(p)
    <3>1. outcome' = [outcome EXCEPT ![p] = "settled"] /\ queued' = queued
      BY <2>2 DEF CreateDelivered
    <3>2. PromiseInv(p)' /\ TaskInv(p)' /\ OwnerInv(p)' /\ CallInv'
      BY <1>1, <1>2, <1>3, <2>1, <3>1, NobodyAssumption
      DEF PromiseInv, TaskInv, OwnerInv, CallInv, Unsettled
    <3>3. AllPromises'
      BY <1>1, <1>4, <2>1, <3>1, <3>2, OthersKept DEF SettleInv
    <3>. QED
      BY <2>2, <3>3, CountKept DEF SettleInv
  <2>3. CASE CreateQueued(p)
    <3>1. outcome' = [outcome EXCEPT ![p] = "pending"] /\ queued' = queued \cup {p}
      BY <2>3 DEF CreateQueued
    <3>2. PromiseInv(p)' /\ TaskInv(p)' /\ OwnerInv(p)' /\ CallInv'
      BY <1>1, <1>2, <1>3, <2>1, <3>1, NobodyAssumption
      DEF PromiseInv, TaskInv, OwnerInv, CallInv, Unsettled
    <3>3. AllPromises'
      BY <1>1, <1>4, <2>1, <3>1, <3>2, OthersKept DEF SettleInv
    <3>. QED
      BY <1>2, <2>3, <3>3, CountKept DEF SettleInv
  <2>. QED
    BY <1>5, <2>2, <2>3 DEF DispatchRefused
<1>6. CASE Dispatch(e, p)
  <2>1. /\ ~ latch /\ Create(p) /\ calls' = [calls EXCEPT ![e] = p]
        /\ task' = [task EXCEPT ![p] = "new"]
    BY <1>6 DEF Dispatch, Becomes
  <2>2. life[e] \in {"init", "live"}
    BY <1>1, <2>1 DEF ControlInv, WasmControl, BarrierUp, Handshake, Ends
  <2>3. outcome' = [outcome EXCEPT ![p] = "pending"] /\ queued' = queued /\ slot' = slot \cup {p}
    BY <2>1 DEF Create
  <2>4. PromiseInv(p)' /\ TaskInv(p)' /\ OwnerInv(p)' /\ CallInv'
    BY <1>1, <1>2, <1>3, <2>1, <2>2, <2>3, NobodyAssumption
    DEF PromiseInv, TaskInv, OwnerInv, CallInv, Unsettled
  <2>5. AllPromises'
    BY <1>1, <1>4, <2>1, <2>3, <2>4, OthersKept DEF SettleInv
  <2>. QED
    BY <2>1, <2>5, CountKept DEF SettleInv
<1>. QED
  BY <1>5, <1>6

LEMMA Spawning ==
  ASSUME TypeOK, ControlInv, SettleInv, wasm, NEW e \in Envs, NEW p \in Promises,
         Spawn(e, p) \/ Decline(e, p) \/ DropHere(e, p)
  PROVE  AllPromises' /\ SettlesCounted'
<1>. USE DEF TypeOK, EnvTypes, TaskTypes, BarrierTypes, PromiseTypes, barrierVars, promiseVars, envVars
<1>0. PromiseInv(p) /\ TaskInv(p) /\ OwnerInv(p) /\ CallInv
  BY DEF SettleInv, AllPromises
<1>1. UNCHANGED <<life, raw, owner, parked, locked>>
  BY DEF Spawn, Decline, Spawns, DropHere, Deliver, Enqueue, deferredVars
<1>2. CASE Spawn(e, p) \/ Decline(e, p)
  <2>1. calls[e] = p /\ calls' = [calls EXCEPT ![e] = Nobody] /\ barred' = barred
    BY <1>2 DEF Spawn, Decline, Spawns
  <2>2. task[p] = "new" /\ owner[p] = e /\ life[e] \in {"init", "live"}
    BY <1>0, <2>1, PromisesAssumption DEF CallInv, ControlInv, StartersLive
  <2>3. CallInv'
    <3>1. \A f \in Envs : calls'[f] # Nobody => f # e /\ calls'[f] = calls[f]
      BY <2>1
    <3>2. \A q \in Promises \ {p} : task'[q] = task[q]
      BY <1>2 DEF Spawn, Decline, Becomes
    <3>3. \A f \in Envs : calls'[f] # Nobody => calls[f] \in Promises \ {p}
      BY <1>0, <2>2, <3>1 DEF CallInv
    <3>. QED
      BY <1>0, <1>1, <3>1, <3>2, <3>3 DEF CallInv
  <2>4. \A q \in Promises \ {p} : task[q] = "new" => calls'[owner[q]] = q
    <3>1. \A q \in Promises : PromiseInv(q) /\ TaskInv(q)
      BY DEF SettleInv, AllPromises
    <3>2. \A q \in Promises : task[q] = "new" => owner[q] \in Envs /\ calls[owner[q]] = q
      BY <3>1 DEF PromiseInv, TaskInv
    <3>. QED
      BY <2>1, <3>2
  <2>5. CASE Spawn(e, p)
    <3>1. task' = [task EXCEPT ![p] = "queued"] /\ UNCHANGED deferredVars
      BY <2>5 DEF Spawn, Becomes
    <3>2. PromiseInv(p)' /\ TaskInv(p)' /\ OwnerInv(p)'
      BY <1>0, <1>1, <2>1, <2>2, <3>1, NobodyAssumption
      DEF PromiseInv, TaskInv, OwnerInv, Unsettled, deferredVars
    <3>3. AllPromises'
      BY <1>1, <2>1, <2>3, <2>4, <3>1, <3>2, OthersKept DEF SettleInv, deferredVars
    <3>. QED
      BY <3>1, <3>3 DEF SettleInv, SettlesCounted, deferredVars
  <2>6. CASE Decline(e, p)
    <3>1. task' = [task EXCEPT ![p] = "over"] /\ Enqueue(p)
      BY <2>6 DEF Decline, Becomes
    <3>2. slot' = slot \ {p} /\ queued' = queued \cup {p} /\ outcome' = outcome
      BY <3>1 DEF Enqueue
    <3>3. PromiseInv(p)' /\ TaskInv(p)' /\ OwnerInv(p)'
      BY <1>0, <1>1, <2>1, <2>2, <3>1, <3>2, NobodyAssumption
      DEF PromiseInv, TaskInv, OwnerInv, Unsettled
    <3>4. AllPromises'
      BY <1>1, <2>1, <2>3, <2>4, <3>1, <3>2, <3>3, OthersKept DEF SettleInv
    <3>5. p \notin queued
      BY <1>0, <2>2 DEF PromiseInv, Unsettled
    <3>. QED
      BY <3>1, <3>4, <3>5, CountKept DEF SettleInv
  <2>. QED
    BY <1>2, <2>5, <2>6
<1>3. CASE DropHere(e, p)
  <2>1. /\ task[p] = "queued" /\ task' = [task EXCEPT ![p] = "over"] /\ Deliver({p})
        /\ barred' = barred \cup {p} /\ calls' = calls
    BY <1>3 DEF DropHere, Becomes
  <2>2. p \in slot /\ p \notin queued \cup locked
    BY <1>0, <2>1 DEF PromiseInv, Unsettled
  <2>3. /\ outcome'[p] = "settled" /\ \A q \in Promises \ {p} : outcome'[q] = outcome[q]
        /\ slot' = slot \ {p} /\ queued' = queued
    BY <2>1, <2>2 DEF Deliver
  <2>4. PromiseInv(p)' /\ TaskInv(p)' /\ OwnerInv(p)'
    BY <1>0, <1>1, <2>1, <2>2, <2>3 DEF PromiseInv, TaskInv, OwnerInv, Unsettled
  <2>5. CallInv'
    BY <1>0, <1>1, <2>1 DEF CallInv
  <2>6. \A q \in Promises : TaskInv(q)
    BY DEF SettleInv, AllPromises
  <2>7. AllPromises'
    BY <1>1, <2>1, <2>3, <2>4, <2>5, <2>6, OthersKept DEF SettleInv, TaskInv
  <2>. QED
    BY <2>1, <2>7, CountClosed DEF SettleInv
<1>. QED
  BY <1>2, <1>3

LEMMA Working ==
  ASSUME TypeOK, ControlInv, SettleInv, wasm, NEW p \in Promises, WorkStep(p)
  PROVE  AllPromises' /\ SettlesCounted'
<1>. USE DEF TypeOK, EnvTypes, TaskTypes, BarrierTypes, PromiseTypes, envVars, promiseVars
<1>0. PromiseInv(p) /\ TaskInv(p) /\ OwnerInv(p) /\ CallInv
  BY DEF SettleInv, AllPromises
<1>1. UNCHANGED <<life, raw, owner, calls>>
  BY DEF WorkStep, Run, Complete, Drop, Settle, SettleNothing, CallFunction, Works
<1>2. PICK to \in Tasks : task' = [task EXCEPT ![p] = to]
  BY DEF WorkStep, Run, Complete, Drop, Settle, SettleNothing, CallFunction, Works, Becomes, Tasks
<1>3. task[p] # "new" /\ to \notin {"none", "new"}
  BY <1>2 DEF WorkStep, Run, Complete, Drop, Settle, SettleNothing, CallFunction, Works, Becomes
<1>4. CallInv'
  BY <1>0, <1>1, <1>2, <1>3 DEF CallInv
<1>5. \A q \in Promises : task[q] = "new" => calls'[owner[q]] = q
  BY <1>1 DEF SettleInv, AllPromises, TaskInv
<1>6. CASE Run(p) \/ Complete(p)
  <2>1. /\ task[p] \in {"queued", "running"} /\ to \in {"running", "value"}
        /\ UNCHANGED <<deferredVars, parked, barred>>
    BY <1>2, <1>6 DEF Run, Complete, Works, Becomes
  <2>2. PromiseInv(p)' /\ TaskInv(p)' /\ OwnerInv(p)'
    BY <1>0, <1>1, <1>2, <2>1 DEF PromiseInv, TaskInv, OwnerInv, Unsettled, deferredVars
  <2>3. AllPromises'
    BY <1>1, <1>2, <1>4, <1>5, <2>1, <2>2, OthersKept DEF SettleInv, deferredVars
  <2>. QED
    BY <2>1, <2>3 DEF SettleInv, SettlesCounted, deferredVars
<1>7. CASE Drop(p)
  <2>1. /\ task[p] \in {"queued", "running"} /\ to = (IF mailbox THEN "parked" ELSE "cancel")
        /\ parked' = (IF mailbox THEN parked \cup {p} ELSE parked)
        /\ barred' = (IF depth > 0 THEN barred \cup {p} ELSE barred)
        /\ UNCHANGED deferredVars
    BY <1>2, <1>7 DEF Drop, Works, Becomes
  <2>2. depth > 0 => mailbox
    BY DEF ControlInv, WasmControl, BarrierDepth
  <2>3. PromiseInv(p)' /\ TaskInv(p)' /\ OwnerInv(p)'
    BY <1>0, <1>1, <1>2, <2>1, <2>2 DEF PromiseInv, TaskInv, OwnerInv, Unsettled, deferredVars
  <2>4. AllPromises'
    BY <1>1, <1>2, <1>4, <1>5, <2>1, <2>3, OthersKept DEF SettleInv, deferredVars
  <2>. QED
    BY <2>1, <2>4 DEF SettleInv, SettlesCounted, deferredVars
<1>8. CASE Settle(p)
  <2>1. /\ task[p] \in {"value", "cancel"} /\ to = "calling" /\ Take(p)
        /\ UNCHANGED <<parked, barred>>
    BY <1>2, <1>8 DEF Settle, Works, Becomes
  <2>2. slot' = slot \ {p} /\ locked' = locked \cup {p} /\ UNCHANGED <<outcome, queued>>
    BY <2>1 DEF Take
  <2>3. PromiseInv(p)' /\ TaskInv(p)' /\ OwnerInv(p)'
    BY <1>0, <1>1, <1>2, <2>1, <2>2 DEF PromiseInv, TaskInv, OwnerInv, Unsettled
  <2>4. AllPromises'
    BY <1>1, <1>2, <1>4, <1>5, <2>1, <2>2, <2>3, OthersKept DEF SettleInv
  <2>. QED
    BY <2>1, <2>4, CountKept DEF SettleInv
<1>9. CASE SettleNothing(p)
  <2>1. task[p] \in {"value", "cancel"} /\ p \notin slot
    BY <1>9 DEF SettleNothing, Works
  <2>. QED
    BY <1>0, <2>1 DEF PromiseInv, Unsettled
<1>10. CASE CallFunction(p)
  <2>1. task[p] = "calling" /\ to = "over" /\ Call(p) /\ UNCHANGED <<parked, barred>>
    BY <1>2, <1>10 DEF CallFunction, Works, Becomes
  <2>2. queued' = queued \cup {p} /\ locked' = locked \ {p} /\ UNCHANGED <<outcome, slot>>
    BY <2>1 DEF Call
  <2>3. p \in locked \ queued
    BY <1>0, <2>1 DEF PromiseInv
  <2>4. PromiseInv(p)' /\ TaskInv(p)' /\ OwnerInv(p)'
    BY <1>0, <1>1, <1>2, <2>1, <2>2, <2>3 DEF PromiseInv, TaskInv, OwnerInv, Unsettled
  <2>5. AllPromises'
    BY <1>1, <1>2, <1>4, <1>5, <2>1, <2>2, <2>4, OthersKept DEF SettleInv
  <2>. QED
    BY <2>1, <2>3, <2>5, CountKept DEF SettleInv
<1>. QED
  BY <1>6, <1>7, <1>8, <1>9, <1>10 DEF WorkStep

LEMMA HostDispatching ==
  ASSUME TypeOK, SettleInv, wasm, NEW p \in Promises, HostDispatch(p)
  PROVE  AllPromises' /\ SettlesCounted'
<1>. USE DEF TypeOK, PromiseTypes, envVars, promiseVars, barrierVars, taskVars
<1>0. PromiseInv(p) /\ TaskInv(p) /\ OwnerInv(p) /\ CallInv
  BY DEF SettleInv, AllPromises
<1>1. UNCHANGED <<life, raw, owner, calls, task, barred, parked>> /\ Dispatched(p)
  BY DEF HostDispatch
<1>2. /\ p \in queued /\ queued' = queued \ {p} /\ outcome' = [outcome EXCEPT ![p] = "settled"]
      /\ UNCHANGED <<slot, locked>>
  BY <1>1 DEF Dispatched
<1>3. PromiseInv(p)' /\ TaskInv(p)' /\ OwnerInv(p)' /\ CallInv'
  BY <1>0, <1>1, <1>2 DEF PromiseInv, TaskInv, OwnerInv, CallInv, Unsettled
<1>4. \A q \in Promises : task[q] = "new" => calls'[owner[q]] = q
  BY <1>1 DEF SettleInv, AllPromises, TaskInv
<1>5. AllPromises'
  BY <1>1, <1>2, <1>3, <1>4, OthersKept DEF SettleInv
<1>. QED
  BY <1>1, <1>5, CountKept DEF SettleInv

LEMMA StepsKeepSettling ==
  ASSUME TypeOK, ControlInv, WorkInv, SettleInv, [Next]_vars PROVE SettleInv'
<1>0. wasm' = wasm
  <2>1. ASSUME NEW e \in Envs, Enrol(e) \/ Activate(e) \/ Leave(e) \/ CleanupHook(e) \/ Finalize(e)
        PROVE  wasm' = wasm
    BY <2>1 DEF Enrol, Activate, Leave, CleanupHook, Finalize
  <2>. QED
    BY <2>1, StepKinds, IdleStepIsStill, StillStepIsStill, WasmStepIsWasm
<1>. SUFFICES ASSUME wasm PROVE AllPromises' /\ SettlesCounted'
  BY <1>0 DEF SettleInv
<1>1. CASE IdleStep
  <2>1. CASE UNCHANGED vars
    <3>1. UNCHANGED <<deferredVars, calls, owner, task, barred, life, parked, raw>>
      BY <2>1 DEF vars, envVars, promiseVars, barrierVars, taskVars
    <3>2. AllPromises'
      BY <3>1, QuietStepKeepsPromises DEF SettleInv
    <3>. QED
      BY <3>1, <3>2 DEF SettleInv, SettlesCounted, deferredVars
  <2>. QED
    BY <1>1, <2>1, Working, HostDispatching DEF IdleStep
<1>2. ASSUME NEW e \in Envs, StillStep(e) PROVE AllPromises' /\ SettlesCounted'
  <2>1. ASSUME NEW p \in Promises PROVE ~ Hook(e, p)
    BY DEF Hook
  <2>. QED
    BY <1>2, <2>1, LivesOn, Dispatching, Spawning DEF StillStep
<1>3. ASSUME NEW e \in Envs, WasmStep(e) PROVE AllPromises' /\ SettlesCounted'
  BY <1>3, LivesOn, WalksAway, ContextGoes, Replays DEF WasmStep
<1>4. ASSUME NEW e \in Envs, Enrol(e) \/ Activate(e) \/ Leave(e) \/ CleanupHook(e) \/ Finalize(e)
      PROVE  AllPromises' /\ SettlesCounted'
  <2>1. ~ Leave(e)
    BY DEF Leave
  <2>. QED
    BY <1>4, <2>1, LivesOn, Finalizes
<1>. QED
  BY <1>1, <1>2, <1>3, <1>4, StepKinds

-----------------------------------------------------------------------------
(* The invariant of the environments and their promises.                   *)
CleanupInv ==
  /\ TypeOK /\ LockHeld /\ BackendFollowsPhase
  /\ ControlInv /\ CountInv /\ QuietInv /\ WorkInv /\ SettleInv

LEMMA Init_CleanupInv == Init => CleanupInv
<1> SUFFICES ASSUME Init PROVE CleanupInv
  OBVIOUS
<1>1. TypeOK
  BY Init_TypeOK
<1>2. LockHeld /\ BackendFollowsPhase
  BY RegistryInit_Inv, RegistryInit_Backend DEF Init, RegistryInv
<1>3. ControlInv
  BY DEF Init, RegistryInit, ControlInv, StartersLive, NativeControl, WasmControl, OneActive, BarrierUp,
         BegunIsOwed, BarrierDepth, EndsStopped, Gone, Handshake, Ends
<1>4. CountInv
  <2>1. Enrolled = {}
    BY DEF Init, Enrolled
  <2>. QED
    BY <2>1, FS_EmptySet DEF Init, CountInv
<1>5. QuietInv /\ WorkInv
  BY DEF Init, RegistryInit, QuietInv, WorkInv, WorkPending, Alive
<1>6. SettleInv
  <2>1. SettlesCounted
    BY FS_EmptySet DEF Init, PromisesInit, SettlesCounted
  <2>2. AllPromises
    BY DEF Init, PromisesInit, AllPromises, CallInv, PromiseInv, TaskInv, OwnerInv, Unsettled
  <2>. QED
    BY <2>1, <2>2 DEF SettleInv
<1>. QED
  BY <1>1, <1>2, <1>3, <1>4, <1>5, <1>6 DEF CleanupInv

LEMMA CleanupInvKept == CleanupInv /\ [Next]_vars => CleanupInv'
<1> SUFFICES ASSUME CleanupInv, [Next]_vars PROVE CleanupInv'
  OBVIOUS
<1>1. TypeOK'
  BY TypeOKKept DEF CleanupInv
<1>2. LockHeld' /\ BackendFollowsPhase'
  BY StepsDriveRegistry, LockKept, BackendKept DEF CleanupInv, TypeOK
<1>3. ControlInv' /\ CountInv' /\ QuietInv'
  BY StepsKeepControl, StepsKeepCount, StepsKeepQuiet DEF CleanupInv
<1>4. WorkInv' /\ SettleInv'
  BY StepsKeepWork, StepsKeepSettling DEF CleanupInv
<1>. QED
  BY <1>1, <1>2, <1>3, <1>4 DEF CleanupInv

(* Once every environment of an image is gone, whatever they did and in    *)
(* whatever order, the backend is stopped, its work is over and the phase  *)
(* lets the next environment start it (thread_cleanup and                  *)
(* finish_deactivate): the last of them to end stops it, and none that     *)
(* ends or is gone starts it.                                              *)
THEOREM QuietImage == Spec => []QuietWithoutEnvironments
<1>1. CleanupInv => QuietWithoutEnvironments
  <2> SUFFICES ASSUME CleanupInv, \A e \in Envs : life[e] \in {"out", "dead"} /\ Out(e)
               PROVE  backend = "stopped" /\ phase = "Idle" /\ ~ WorkPending
    BY DEF QuietWithoutEnvironments
  <2>1. AllPast /\ ~ StopUnderWay
    BY DEF AllPast, Past, StopUnderWay, Out
  <2>. QED
    BY <2>1 DEF CleanupInv, QuietInv, WorkInv
<1>. QED
  BY <1>1, Init_CleanupInv, CleanupInvKept, PTL DEF Spec

(* No wasm environment is destroyed over a promise that has not settled,   *)
(* and a raw destruction keeps the rejections its own teardown parked.     *)
THEOREM NobodyIsStranded == Spec => []NothingIsStranded
<1>1. CleanupInv => NothingIsStranded
  <2> SUFFICES ASSUME CleanupInv, wasm, NEW p \in Promises, owner[p] # Nobody,
                      life[owner[p]] = "dead"
               PROVE  outcome[p] = "settled" \/ (owner[p] \in raw /\ p \notin barred)
    BY DEF NothingIsStranded
  <2>1. PromiseInv(p) /\ OwnerInv(p)
    BY DEF CleanupInv, SettleInv, AllPromises
  <2>. QED
    BY <2>1 DEF PromiseInv, OwnerInv
<1>. QED
  BY <1>1, Init_CleanupInv, CleanupInvKept, PTL DEF Spec
=============================================================================
