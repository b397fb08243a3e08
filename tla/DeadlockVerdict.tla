-------------------------- MODULE DeadlockVerdict --------------------------
(***************************************************************************)
(* The bounded park of a cooperative block_on and its deadlock verdict.    *)
(*                                                                         *)
(* A driver that finds nothing to run parks for at most the configured     *)
(* deadline.  When a whole window passes without progress of the executor  *)
(* it panics with BlockOnDeadlock, but only after it has looked at every   *)
(* way a wake could have come: its permit, the queue, the fingerprint of   *)
(* the metrics, the timers and the stop.  Whatever makes work visible to   *)
(* it does so inside an admission, and the verdict closes the gate of the  *)
(* admissions for its last look.                                           *)
(*                                                                         *)
(* Time is left out: a window may end whenever its driver is parked.       *)
(***************************************************************************)
EXTENDS Integers, FiniteSets

CONSTANTS Drivers,  \* frames of cooperative_block_on, one per pool worker
          Threads,  \* everybody else who schedules, runs, fires or stops
          Menu,     \* what the threads may do
          Armed,    \* bound: timers armed before the frames began
          MaxOps    \* bound: operations of the threads in one behaviour

ASSUME ActorsAssumption == Drivers \cap Threads = {} /\ Armed \in Nat /\ MaxOps \in Nat
ASSUME MenuAssumption ==
  Menu \subseteq {"schedule", "claim", "arm", "fire", "cancel", "stop", "reset", "wake"}

Actors == Drivers \cup Threads

VARIABLES
  closed,        \* verdict_closed
  admissions,    \* the counter, split by the thread that counted
  publications,  \* the publication epoch
  stopping,      \* GenerationStop.stopping
  stopLock,      \* the driver whose verdict holds its mutex, if one does
  queue,         \* queued work that a driver may take
  timers,        \* armed timers
  registered,    \* ParkedDrivers
  permit,        \* the drivers whose parker holds a permit
  metrics,       \* reset generation and progress counters
  op, pc,        \* the operation of each actor and where it is
  outer,         \* whether it runs inside a timer's firing
  target,        \* the drivers it took from the registry to unpark
  left,          \* operations left (bound)
  at,            \* where each driver is outside its operations
  window,        \* what the current park of each driver has read
  news           \* drivers for whom work appeared since their window was armed

gateVars == <<closed, admissions, publications>>
stopVars == <<stopping, stopLock>>
workVars == <<queue, timers>>
wakeVars == <<registered, permit>>
opVars == <<op, pc, outer, target, left>>
driverVars == <<at, window>>
vars == <<gateVars, stopVars, workVars, wakeVars, metrics, opVars, driverVars, news>>

Zero == [generation |-> 0, enqueued |-> 0, started |-> 0]

Unread == [published |-> 0, armed |-> Zero]

Init ==
  /\ closed = FALSE /\ admissions = [a \in Actors |-> 0] /\ publications = 0
  /\ stopping = FALSE /\ stopLock = {}
  /\ queue = 0 /\ timers \in 0 .. Armed
  /\ registered = {} /\ permit = {}
  /\ metrics = Zero
  /\ op = [a \in Actors |-> "none"] /\ pc = [a \in Actors |-> "idle"]
  /\ outer = [a \in Actors |-> FALSE] /\ target = [a \in Actors |-> {}]
  /\ left = MaxOps
  /\ at = [d \in Drivers |-> "poll"]
  /\ window = [d \in Drivers |-> Unread]
  /\ news = {}

Go(a, p) == pc' = [pc EXCEPT ![a] = p]
Perform(a, o, p) == op' = [op EXCEPT ![a] = o] /\ Go(a, p)
GoAt(d, p) == at' = [at EXCEPT ![d] = p]
(* Driver d is at p, outside every operation. *)
AtStep(d, p) == at[d] = p /\ pc[d] = "idle"

-----------------------------------------------------------------------------
(* Admissions: begin_admission and the drop of its guard. *)

FirstStep(o) == CASE o = "schedule" -> "bump" [] o = "claim" -> "pop"
                  [] o = "arm" -> "insert" [] OTHER -> "remove"

(* begin_admission spins while the gate is closed. *)
Enter(a) ==
  /\ pc[a] = "enter" /\ ~ closed /\ Go(a, "count")
  /\ UNCHANGED <<gateVars, stopVars, workVars, wakeVars, metrics,
                 op, outer, target, left, driverVars, news>>
Count(a) ==
  /\ pc[a] = "count"
  /\ admissions' = [admissions EXCEPT ![a] = @ + 1]
  /\ Go(a, "look")
  /\ UNCHANGED <<closed, publications, stopVars, workVars, wakeVars, metrics,
                 op, outer, target, left, driverVars, news>>

Look(a) ==
  /\ pc[a] = "look"
  /\ IF closed
     THEN Go(a, "enter") /\ admissions' = [admissions EXCEPT ![a] = @ - 1]
     ELSE Go(a, FirstStep(op[a])) /\ UNCHANGED admissions
  /\ UNCHANGED <<closed, publications, stopVars, workVars, wakeVars, metrics,
                 op, outer, target, left, driverVars, news>>

(* The drop of a guard marked as published advances the epoch first. *)
Publish(a) ==
  /\ pc[a] = "publish"
  /\ publications' = publications + 1
  /\ Go(a, "leave")
  /\ UNCHANGED <<closed, admissions, stopVars, workVars, wakeVars, metrics,
                 op, outer, target, left, driverVars, news>>

(* The guard of a nested schedule gives way to that of the timer's firing. *)
Leave(a) ==
  /\ pc[a] = "leave"
  /\ admissions' = [admissions EXCEPT ![a] = @ - 1]
  /\ IF outer[a]
     THEN outer' = [outer EXCEPT ![a] = FALSE] /\ Perform(a, "fire", "publish")
     ELSE Perform(a, "none", "idle") /\ UNCHANGED outer
  /\ UNCHANGED <<closed, publications, stopVars, workVars, wakeVars, metrics,
                 target, left, driverVars, news>>

-----------------------------------------------------------------------------
(* What happens inside an admission. *)

(* schedule and schedule_blocking count before they push. *)
Bump(a) ==
  /\ pc[a] = "bump"
  /\ metrics' = [metrics EXCEPT !.enqueued = @ + 1] /\ Go(a, "push")
  /\ UNCHANGED <<gateVars, stopVars, workVars, wakeVars, op, outer, target,
                 left, driverVars, news>>

Push(a) ==
  /\ pc[a] = "push"
  /\ queue' = queue + 1 /\ news' = Drivers /\ Go(a, "wake")
  /\ UNCHANGED <<gateVars, stopVars, timers, wakeVars, metrics,
                 op, outer, target, left, driverVars>>

(* A wake that ends an operation outside an admission, or inside one. *)
AfterWake(a) ==
  IF op[a] \in {"cancel", "compensate"} THEN Perform(a, "none", "idle")
  ELSE Go(a, "publish") /\ UNCHANGED op

(* wake_one takes a registered driver, wake_all all of them. *)
Wake(a) ==
  /\ pc[a] = "wake"
  /\ \/ \E woken \in IF op[a] = "cancel" THEN {registered} ELSE {{d} : d \in registered} :
          /\ woken # {}
          /\ registered' = registered \ woken
          /\ target' = [target EXCEPT ![a] = woken]
          /\ Go(a, "unpark") /\ UNCHANGED op
     \/ registered = {} /\ AfterWake(a) /\ UNCHANGED <<registered, target>>
  /\ UNCHANGED <<gateVars, stopVars, workVars, permit, metrics,
                 outer, left, driverVars, news>>

(* The permit is stored after the registry's mutex is released. *)
Unpark(a) ==
  /\ pc[a] = "unpark"
  /\ permit' = permit \cup target[a]
  /\ target' = [target EXCEPT ![a] = {}]
  /\ AfterWake(a)
  /\ UNCHANGED <<gateVars, stopVars, workVars, registered, metrics,
                 outer, left, driverVars, news>>

(* claim_runnable takes the stop's publication mutex; what it claims after *)
(* the stop is cancelled.  A driver that claimed something polls again.    *)
Pop(a) ==
  /\ pc[a] = "pop" /\ stopLock = {}
  /\ IF queue = 0 THEN Go(a, "leave") /\ UNCHANGED <<queue, at>>
     ELSE /\ queue' = queue - 1
          /\ Go(a, IF stopping THEN "leave" ELSE "start")
          /\ at' = [d \in Drivers |-> IF d = a THEN "poll" ELSE at[d]]
  /\ UNCHANGED <<gateVars, stopVars, timers, wakeVars, metrics,
                 op, outer, target, left, window, news>>

(* The start is counted before the admission of the dequeue retires. *)
Start(a) ==
  /\ pc[a] = "start"
  /\ metrics' = [metrics EXCEPT !.started = @ + 1] /\ Go(a, "leave")
  /\ UNCHANGED <<gateVars, stopVars, workVars, wakeVars, op, outer, target,
                 left, driverVars, news>>

(* register_timer wakes a driver if the earliest deadline moved. *)
InsertTimer(a) ==
  /\ pc[a] = "insert"
  /\ timers' = timers + 1 /\ news' = Drivers
  /\ Go(a, "wake") \/ (timers # 0 /\ Go(a, "publish"))
  /\ UNCHANGED <<gateVars, stopVars, queue, wakeVars, metrics,
                 op, outer, target, left, driverVars>>

(* fire_due_timers and the timekeeper: remove under the lock, wake outside *)
(* it.  The wake schedules the task of the sleep, or unparks the driver    *)
(* whose own future sleeps.                                                *)
RemoveTimer(a) ==
  /\ pc[a] = "remove"
  /\ \/ timers = 0 /\ Go(a, "leave") /\ UNCHANGED <<timers, op, outer, target, news>>
     \/ /\ timers # 0 /\ timers' = timers - 1 /\ news' = Drivers
        /\ \/ /\ outer' = [outer EXCEPT ![a] = TRUE]
              /\ Perform(a, "schedule", "enter") /\ UNCHANGED target
           \/ /\ \E d \in Drivers : target' = [target EXCEPT ![a] = {d}]
              /\ Go(a, "unpark") /\ UNCHANGED <<op, outer>>
  /\ UNCHANGED <<gateVars, stopVars, queue, wakeVars, metrics, left, driverVars>>

-----------------------------------------------------------------------------
(* What needs no admission. *)

(* cancel_timer tells every parked driver if the earliest deadline moved. *)
CancelTimer(a) ==
  /\ pc[a] = "cancelled"
  /\ \/ timers = 0 /\ Perform(a, "none", "idle") /\ UNCHANGED timers
     \/ timers # 0 /\ timers' = timers - 1 /\ Go(a, "wake") /\ UNCHANGED op
     \/ timers > 1 /\ timers' = timers - 1 /\ Perform(a, "none", "idle")
  /\ UNCHANGED <<gateVars, stopVars, queue, wakeVars, metrics, outer, target,
                 left, driverVars, news>>

(* The stop is published under its mutex; then every frame is unparked. *)
PublishStop(a) ==
  /\ pc[a] = "publishStop" /\ stopLock = {}
  /\ stopping' = TRUE /\ Go(a, "unparkAll")
  /\ UNCHANGED <<gateVars, stopLock, workVars, wakeVars, metrics,
                 op, outer, target, left, driverVars, news>>
UnparkAll(a) ==
  /\ pc[a] = "unparkAll"
  /\ permit' = Drivers
  /\ Perform(a, "none", "idle")
  /\ UNCHANGED <<gateVars, stopVars, workVars, registered, metrics,
                 outer, target, left, driverVars, news>>

(* RuntimeMetrics::reset clears the counters in an odd generation, which a *)
(* reader of the fingerprint waits out: one step to it.                    *)
ResetForgotten == metrics' = Zero
Reset == metrics' = [Zero EXCEPT !.generation = metrics.generation + 2]

(* A thread begins one of its operations, resets the metrics or wakes a    *)
(* future directly.  The controller admits one stop.                       *)
Call(a) ==
  /\ a \in Threads /\ pc[a] = "idle" /\ left > 0 /\ left' = left - 1
  /\ \E o \in Menu :
     \/ /\ o \in {"schedule", "claim", "arm", "fire"}
        /\ Perform(a, o, "enter") /\ UNCHANGED <<permit, metrics>>
     \/ o = "cancel" /\ Perform(a, o, "cancelled") /\ UNCHANGED <<permit, metrics>>
     \/ /\ o = "stop" /\ ~ stopping /\ \A b \in Threads : op[b] # o
        /\ Perform(a, o, "publishStop") /\ UNCHANGED <<permit, metrics>>
     \/ o = "reset" /\ Reset /\ UNCHANGED <<op, pc, permit>>
     \/ /\ o = "wake" /\ \E d \in Drivers : permit' = permit \cup {d}
        /\ UNCHANGED <<op, pc, metrics>>
  /\ UNCHANGED <<gateVars, stopVars, workVars, registered,
                 outer, target, driverVars, news>>

-----------------------------------------------------------------------------
(* The driver up to its park: poll, serve, register, look again. *)

(* The future may be ready at any poll; a stopped frame only returns.      *)
(* What an earlier park read is gone.                                      *)
Poll(d) ==
  /\ AtStep(d, "poll")
  /\ window' = [window EXCEPT ![d] = Unread] /\ news' = news \ {d}
  /\ \/ GoAt(d, "exit") /\ UNCHANGED <<op, pc>>
     \/ ~ stopping /\ GoAt(d, "register") /\ Perform(d, "claim", "enter")
  /\ UNCHANGED <<gateVars, stopVars, workVars, wakeVars, metrics,
                 outer, target, left>>

Register(d) ==
  /\ AtStep(d, "register")
  /\ registered' = registered \cup {d} /\ GoAt(d, "recheck")
  /\ UNCHANGED <<gateVars, stopVars, workVars, permit, metrics, opVars,
                 window, news>>

(* Every way back to the poll leaves the registry. *)
Again(d) == registered' = registered \ {d} /\ GoAt(d, "poll")

Recheck(d) ==
  /\ AtStep(d, "recheck")
  /\ IF queue # 0 THEN Again(d)
     ELSE GoAt(d, IF stopping THEN "exit" ELSE "timer") /\ UNCHANGED registered
  /\ UNCHANGED <<gateVars, stopVars, workVars, permit, metrics, opVars,
                 window, news>>

(* A pending timer bounds the park instead, and the driver fires it. *)
TimerPark(d) ==
  /\ AtStep(d, "timer")
  /\ IF timers # 0 THEN Again(d) /\ Perform(d, "fire", "enter")
     ELSE GoAt(d, "snapshot") /\ UNCHANGED <<registered, op, pc>>
  /\ UNCHANGED <<gateVars, stopVars, workVars, permit, metrics,
                 outer, target, left, window, news>>

-----------------------------------------------------------------------------
(* The park with its deadline.  A fingerprint is read in one step. *)

Snapshot(d) ==
  /\ AtStep(d, "snapshot")
  /\ window' = [window EXCEPT ![d].published = publications]
  /\ GoAt(d, "arm")
  /\ UNCHANGED <<gateVars, stopVars, workVars, wakeVars, metrics, opVars, news>>

Arm(d) ==
  /\ AtStep(d, "arm")
  /\ window' = [window EXCEPT ![d].armed = metrics]
  /\ news' = news \ {d} /\ GoAt(d, "park")
  /\ UNCHANGED <<gateVars, stopVars, workVars, wakeVars, metrics, opVars>>

Park(d) ==
  /\ AtStep(d, "park")
  /\ \/ d \in permit /\ permit' = permit \ {d} /\ Again(d)
     \/ d \notin permit /\ GoAt(d, "expiry") /\ UNCHANGED wakeVars
  /\ UNCHANGED <<gateVars, stopVars, workVars, metrics, opVars, window, news>>

Progress(d) == metrics # window[d].armed

(* A window that saw progress is followed by another. *)
Expire(d) ==
  /\ AtStep(d, "expiry")
  /\ IF Progress(d)
     THEN /\ window' = [window EXCEPT ![d].armed = metrics]
          /\ news' = news \ {d} /\ GoAt(d, "park")
     ELSE GoAt(d, "deregister") /\ UNCHANGED <<window, news>>
  /\ UNCHANGED <<gateVars, stopVars, workVars, wakeVars, metrics, opVars>>

-----------------------------------------------------------------------------
(* The verdict: what a driver looks at after an idle window. *)

Deregister(d) ==
  /\ AtStep(d, "deregister")
  /\ registered' = registered \ {d} /\ GoAt(d, "permit")
  /\ UNCHANGED <<gateVars, stopVars, workVars, permit, metrics, opVars, window, news>>
ConsumePermit(d) ==
  /\ AtStep(d, "permit")
  /\ permit' = permit \ {d} /\ GoAt(d, IF d \in permit THEN "poll" ELSE "queued")
  /\ UNCHANGED <<gateVars, stopVars, workVars, registered, metrics, opVars, window, news>>
LookAtQueue(d) ==
  /\ AtStep(d, "queued")
  /\ GoAt(d, IF queue # 0 THEN "poll" ELSE "doubt")
  /\ UNCHANGED <<gateVars, stopVars, workVars, wakeVars, metrics, opVars, window, news>>
Doubt(d) ==
  /\ AtStep(d, "doubt") /\ GoAt(d, IF Progress(d) THEN "poll" ELSE "timerless")
  /\ UNCHANGED <<gateVars, stopVars, workVars, wakeVars, metrics, opVars, window, news>>
LookAtTimers(d) ==
  /\ AtStep(d, "timerless") /\ GoAt(d, IF timers # 0 THEN "poll" ELSE "try")
  /\ UNCHANGED <<gateVars, stopVars, workVars, wakeVars, metrics, opVars, window, news>>

(* try_begin_verdict *)
Close(d) ==
  /\ AtStep(d, "try")
  /\ IF closed THEN GoAt(d, "poll") /\ UNCHANGED closed
     ELSE GoAt(d, "load") /\ closed' = TRUE
  /\ UNCHANGED <<admissions, publications, stopVars, workVars, wakeVars, metrics,
                 opVars, window, news>>
NoAdmissions == \A a \in Actors : admissions[a] = 0
(* Mutant: a verdict that finds an admission leaves its gate closed. *)
LoadAndForget(d) ==
  /\ AtStep(d, "load") /\ GoAt(d, IF NoAdmissions THEN "lock" ELSE "poll")
  /\ UNCHANGED <<gateVars, stopVars, workVars, wakeVars, metrics, opVars, window, news>>
Load(d) ==
  /\ AtStep(d, "load")
  /\ IF NoAdmissions THEN GoAt(d, "lock") /\ UNCHANGED closed
     ELSE GoAt(d, "poll") /\ closed' = FALSE
  /\ UNCHANGED <<admissions, publications, stopVars, workVars, wakeVars, metrics,
                 opVars, window, news>>

(* The gate first, then the stop's publication mutex. *)
LockStop(d) ==
  /\ AtStep(d, "lock") /\ stopLock = {}
  /\ IF stopping THEN GoAt(d, "exit") /\ closed' = FALSE /\ UNCHANGED stopLock
     ELSE GoAt(d, "check") /\ stopLock' = {d} /\ UNCHANGED closed
  /\ UNCHANGED <<admissions, publications, stopping, workVars, wakeVars, metrics,
                 opVars, window, news>>

Unlock == closed' = FALSE /\ stopLock' = {}

(* Mutant: the epoch of the publications is not compared. *)
CheckWithoutEpoch(d) ==
  /\ AtStep(d, "check")
  /\ permit' = permit \ {d}
  /\ IF d \in permit \/ queue # 0
     THEN Unlock /\ GoAt(d, "poll")
     ELSE GoAt(d, "final") /\ UNCHANGED <<closed, stopLock>>
  /\ UNCHANGED <<admissions, publications, stopping, workVars, registered, metrics,
                 opVars, window, news>>
Check(d) ==
  /\ AtStep(d, "check")
  /\ permit' = permit \ {d}
  /\ IF d \in permit \/ queue # 0 \/ publications # window[d].published
     THEN Unlock /\ GoAt(d, "poll")
     ELSE GoAt(d, "final") /\ UNCHANGED <<closed, stopLock>>
  /\ UNCHANGED <<admissions, publications, stopping, workVars, registered, metrics,
                 opVars, window, news>>
LastDoubt(d) ==
  /\ AtStep(d, "final")
  /\ IF Progress(d) THEN Unlock /\ GoAt(d, "poll")
     ELSE GoAt(d, "lastTimers") /\ UNCHANGED <<closed, stopLock>>
  /\ UNCHANGED <<admissions, publications, stopping, workVars, wakeVars, metrics,
                 opVars, window, news>>
LastTimers(d) ==
  /\ AtStep(d, "lastTimers")
  /\ IF timers # 0 THEN Unlock /\ GoAt(d, "poll")
     ELSE GoAt(d, "condemned") /\ UNCHANGED <<closed, stopLock>>
  /\ UNCHANGED <<admissions, publications, stopping, workVars, wakeVars, metrics,
                 opVars, window, news>>

(* The guards are dropped before the panic. *)
Condemn(d) ==
  /\ AtStep(d, "condemned") /\ Unlock /\ GoAt(d, "exit")
  /\ UNCHANGED <<admissions, publications, stopping, workVars, wakeVars, metrics,
                 opVars, window, news>>

(* CooperativeDriverExitGuard: leave the registry, hand on absorbed work. *)
Exit(d) ==
  /\ AtStep(d, "exit")
  /\ registered' = registered \ {d} /\ GoAt(d, "ended")
  /\ IF queue # 0 THEN Perform(d, "compensate", "wake") ELSE UNCHANGED <<op, pc>>
  /\ UNCHANGED <<gateVars, stopVars, workVars, permit, metrics, outer, target,
                 left, window, news>>

-----------------------------------------------------------------------------

OpStep(a) ==
  \/ Enter(a) \/ Count(a) \/ Look(a) \/ Publish(a) \/ Leave(a)
  \/ Bump(a) \/ Push(a) \/ Wake(a) \/ Unpark(a) \/ Pop(a) \/ Start(a)
  \/ InsertTimer(a) \/ RemoveTimer(a) \/ CancelTimer(a)
  \/ PublishStop(a) \/ UnparkAll(a)
DriverStep(d) ==
  \/ Poll(d) \/ Register(d) \/ Recheck(d) \/ TimerPark(d)
  \/ Snapshot(d) \/ Arm(d) \/ Park(d) \/ Expire(d)
  \/ Deregister(d) \/ ConsumePermit(d) \/ LookAtQueue(d) \/ Doubt(d) \/ LookAtTimers(d)
  \/ Close(d) \/ Load(d) \/ LockStop(d) \/ Check(d) \/ LastDoubt(d) \/ LastTimers(d)
  \/ Condemn(d) \/ Exit(d)

Next ==
  \/ \E a \in Actors : Call(a) \/ OpStep(a)
  \/ \E d \in Drivers : DriverStep(d)

Spec == Init /\ [][Next]_vars

(* Every thread runs, and a window that is not cut short ends: the pool's  *)
(* threads and the timed wait of a parker.  Nobody has to begin anything.  *)
Fairness ==
  /\ \A a \in Actors : WF_vars(OpStep(a))
  /\ \A d \in Drivers : WF_vars(DriverStep(d))
FairSpec == Spec /\ Fairness

-----------------------------------------------------------------------------
(* Type invariant. *)
Fingerprint == [generation : Nat, enqueued : Nat, started : Nat]
Ops == {"none", "schedule", "claim", "arm", "fire", "cancel", "stop", "compensate"}
Admitted == {"bump", "push", "publish", "leave", "pop", "start", "insert", "remove"}
Unadmitted == {"idle", "enter", "count", "cancelled", "publishStop", "unparkAll"}
Stages ==
  {"poll", "register", "recheck", "timer", "snapshot", "arm", "park", "expiry",
   "deregister", "permit", "queued", "doubt", "timerless", "try", "load", "lock",
   "check", "final", "lastTimers", "condemned", "exit", "ended"}
CoreOK ==
  /\ closed \in BOOLEAN /\ admissions \in [Actors -> 0 .. 2] /\ publications \in Nat
  /\ stopping \in BOOLEAN /\ stopLock \subseteq Drivers
  /\ queue \in Nat /\ timers \in Nat
  /\ registered \subseteq Drivers /\ permit \subseteq Drivers
  /\ op \in [Actors -> Ops]
  /\ pc \in [Actors -> Admitted \cup Unadmitted \cup {"look", "wake", "unpark"}]
  /\ outer \in [Actors -> BOOLEAN] /\ target \in [Actors -> SUBSET Drivers]
  /\ left \in 0 .. MaxOps
  /\ at \in [Drivers -> Stages]
  /\ news \subseteq Drivers
ReadsOK ==
  metrics \in Fingerprint /\ window \in [Drivers -> [published : Nat, armed : Fingerprint]]
TypeOK == CoreOK /\ ReadsOK

-----------------------------------------------------------------------------
(* Properties. *)

(* a is inside an admission: it was counted and has seen the gate open. *)
Inside(a) ==
  \/ outer[a] \/ pc[a] \in Admitted
  \/ pc[a] \in {"wake", "unpark"} /\ op[a] \notin {"cancel", "compensate"}
(* d has closed the gate and not reopened it; Judging: the count was zero. *)
Judging(d) == at[d] \in {"lock", "check", "final", "lastTimers", "condemned"}
Gate(d) == at[d] = "load" \/ Judging(d)

(* While a driver makes its last look behind the closed gate, nobody is    *)
(* between the count of an admission and the drop of its guard, nested     *)
(* ones included, and no second driver judges; and the gate is closed only *)
(* while a driver is there to open it again (try_begin_verdict against     *)
(* begin_admission).                                                       *)
GateExcludes ==
  /\ \A d \in Drivers : Judging(d) =>
       /\ \A a \in Actors : ~ Inside(a)
       /\ \A e \in Drivers \ {d} : ~ Gate(e)
  /\ closed <=> \E d \in Drivers : Gate(d)

(* A driver that is declared dead had nothing to wait for: since its       *)
(* window was armed nothing was queued and no timer was armed or fired,    *)
(* nothing is queued or armed now, and the runtime is not being stopped.   *)
VerdictIsSound ==
  \A d \in Drivers : at[d] = "condemned" =>
    d \notin news /\ queue = 0 /\ timers = 0 /\ ~ stopping

(* Once nobody else does anything any more, every frame returns or is      *)
(* declared dead: the detector does not lose a deadlock, and no gate stays *)
(* closed to the admissions of the others.                                 *)
Quiet == left = 0 /\ \A a \in Threads : pc[a] = "idle"
DeadlockIsReported == Quiet ~> (\A d \in Drivers : at[d] = "ended")

=============================================================================
