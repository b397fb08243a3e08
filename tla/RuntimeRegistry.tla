--------------------------- MODULE RuntimeRegistry ---------------------------
(***************************************************************************)
(* AsyncRuntimeRegistry: when the selected backend is started and stopped. *)
(*                                                                         *)
(* A dispatch or an activation that finds the phase Idle claims the start  *)
(* under the state lock, and completes the claim under the lifecycle lock. *)
(* A teardown stops the backend under the lifecycle lock and resets the    *)
(* phase last, which revokes every claim it overtook.  On wasm the stop is *)
(* announced by a first phase that does not keep the lock.                 *)
(*                                                                         *)
(* Grain: one step per critical section of the state lock, per acquisition *)
(* of the lifecycle lock and per hook of the backend.                      *)
(***************************************************************************)
CONSTANTS Envs,    \* the environments, each with a JavaScript thread
          Nobody

ASSUME NobodyAssumption == Nobody \notin Envs

VARIABLES
  phase,       \* RegistryState::phase
  lifecycle,   \* holder of the lifecycle lock
  backend,     \* the backend itself: stopped, running, stopping
  owed,        \* a start was claimed since a teardown last returned
  at           \* control of each JavaScript thread inside the registry

registryVars == <<phase, lifecycle, backend, owed, at>>

Out(e) == at[e] = "out"
Enters(e, pc) == at' = [at EXCEPT ![e] = pc]
TakesLock(e) == lifecycle = Nobody /\ lifecycle' = e
GivesLock(e) == lifecycle' = Nobody

RegistryTypes ==
  /\ phase \in {"Idle", "Starting", "Started"}
  /\ lifecycle \in Envs \cup {Nobody}
  /\ backend \in {"stopped", "running", "stopping"}
  /\ owed \in BOOLEAN
  /\ at \in [Envs -> {"out", "claimed", "starting", "stopping", "stopped"}]

RegistryInit ==
  /\ phase = "Idle" /\ lifecycle = Nobody /\ backend = "stopped" /\ owed = FALSE
  /\ at = [e \in Envs |-> "out"]

-----------------------------------------------------------------------------
(* ensure_started and activate; whoever finds the phase past Idle goes on. *)

Claim(e) ==
  /\ Out(e) /\ phase = "Idle"
  /\ phase' = "Starting" /\ owed' = TRUE
  /\ Enters(e, "claimed")
  /\ UNCHANGED <<lifecycle, backend>>

\* The claim may have been revoked, or fulfilled by another claimant.
SkipStart(e) ==
  /\ at[e] = "claimed" /\ lifecycle = Nobody
  /\ phase # "Starting"
  /\ Enters(e, "out")
  /\ UNCHANGED <<phase, lifecycle, backend, owed>>

(* Mutant: the claim is completed without looking at the phase again. *)
StartAnyway(e) ==
  /\ at[e] = "claimed"
  /\ TakesLock(e)
  /\ Enters(e, "starting")
  /\ UNCHANGED <<phase, backend, owed>>

Revalidate(e) ==
  /\ at[e] = "claimed"
  /\ TakesLock(e)
  /\ phase = "Starting"
  /\ Enters(e, "starting")
  /\ UNCHANGED <<phase, backend, owed>>

\* A start that fails is rolled back by a shutdown.
CompleteStart(e) ==
  /\ at[e] = "starting"
  /\ \/ backend' = "running" /\ phase' = "Started"
     \/ backend' = "stopped" /\ phase' = "Idle"
  /\ GivesLock(e)
  /\ Enters(e, "out")
  /\ UNCHANGED owed

-----------------------------------------------------------------------------
(* deactivate: shutdown, which waits, and then the reset.  The wasm phases *)
(* are begin_deactivate and finish_deactivate.                             *)

Announce == backend' = IF backend = "running" THEN "stopping" ELSE backend

BeginDeactivate(e) ==
  /\ Out(e) /\ lifecycle = Nobody
  /\ Announce
  /\ UNCHANGED <<phase, lifecycle, owed, at>>

Deactivate(e) ==
  /\ Out(e)
  /\ TakesLock(e)
  /\ Announce
  /\ Enters(e, "stopping")
  /\ UNCHANGED <<phase, owed>>

ShutdownReturns(e) ==
  /\ at[e] = "stopping"
  /\ backend' = "stopped" /\ owed' = FALSE
  /\ Enters(e, "stopped")
  /\ UNCHANGED <<phase, lifecycle>>

ResetPhase(e) ==
  /\ at[e] = "stopped"
  /\ phase' = "Idle"
  /\ GivesLock(e)
  /\ Enters(e, "out")
  /\ UNCHANGED <<backend, owed>>

RegistryNext ==
  \E e \in Envs :
    \/ Claim(e) \/ SkipStart(e) \/ Revalidate(e) \/ CompleteStart(e)
    \/ BeginDeactivate(e) \/ Deactivate(e) \/ ShutdownReturns(e) \/ ResetPhase(e)

RegistrySpec == RegistryInit /\ [][RegistryNext]_registryVars

-----------------------------------------------------------------------------
(* The backend is started only for a claim made since the last teardown    *)
(* returned.  A claim that a teardown overtook starts nothing: the cleanup *)
(* that returned could never stop what such a start creates                *)
(* (run_claimed_start).                                                    *)
StartsAreOwed == [][backend # "running" /\ backend' = "running" => owed]_registryVars
=============================================================================
