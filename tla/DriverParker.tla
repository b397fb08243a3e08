---------------------------- MODULE DriverParker ----------------------------
(***************************************************************************)
(* DriverParker of crates/async-runtime: the permit word, the lock and the *)
(* condition variable a driver of the multi-thread executor sleeps on.     *)
(*                                                                         *)
(* Every atomic operation on `state` is one action.  Condvar::wait gives   *)
(* up the lock and goes to sleep in one step; a notified, a spuriously     *)
(* woken or a timed-out sleeper takes the lock back before it looks at     *)
(* `state` again.  The clock of a timed park may run out at any time.      *)
(***************************************************************************)
EXTENDS Naturals, FiniteSets

CONSTANTS
  Wakers,  \* threads that unpark the driver
  Driver,  \* the one thread that parks
  Free     \* nobody holds the lock

ASSUME ParkerAssumption ==
  /\ Driver \notin Wakers
  /\ Free \notin Wakers \cup {Driver}

VARIABLES
  state,     \* PARKER_EMPTY, PARKER_NOTIFIED or PARKER_SLEEPING
  lock,      \* who holds the mutex
  asleep,    \* the driver is in the condvar's wait set
  timed,     \* it called park_timeout, not park
  expired,   \* the deadline of that park has passed
  answer,    \* the last park or consume_permit took a permit
  parkerPc         \* where each thread is in park or unpark

parkerVars == <<state, lock, asleep, timed, expired, answer, parkerPc>>

ParkerThreads == Wakers \cup {Driver}
DriverPcs == {"out", "enter", "lock", "claim", "check", "retract", "wait", "relock"}
WakerPcs  == {"out", "fence", "unlock", "notify"}

ParkerInit ==
  /\ state = "EMPTY" /\ lock = Free
  /\ asleep = FALSE /\ timed = FALSE /\ expired = FALSE
  /\ answer = FALSE
  /\ parkerPc = [t \in ParkerThreads |-> "out"]

Goto(t, label) == parkerPc' = [parkerPc EXCEPT ![t] = label]
At(t, label) == parkerPc[t] = label

(***************************************************************************)
(* unpark: swap in NOTIFIED; over a SLEEPING state pass through the lock   *)
(* before notifying.                                                       *)
(***************************************************************************)
\* Mutant: no empty critical section between the swap and the notification.
SwapThenNotify(w) ==
  /\ At(w, "out")
  /\ state' = "NOTIFIED"
  /\ Goto(w, IF state = "SLEEPING" THEN "notify" ELSE "out")
  /\ UNCHANGED <<lock, asleep, timed, expired, answer>>
Swap(w) ==
  /\ At(w, "out")
  /\ state' = "NOTIFIED"
  /\ Goto(w, IF state = "SLEEPING" THEN "fence" ELSE "out")
  /\ UNCHANGED <<lock, asleep, timed, expired, answer>>
FenceLock(w) ==
  /\ At(w, "fence") /\ lock = Free
  /\ lock' = w /\ Goto(w, "unlock")
  /\ UNCHANGED <<state, asleep, timed, expired, answer>>
FenceUnlock(w) ==
  /\ At(w, "unlock")
  /\ lock' = Free /\ Goto(w, "notify")
  /\ UNCHANGED <<state, asleep, timed, expired, answer>>
NotifyOne(w) ==
  /\ At(w, "notify")
  /\ asleep' = FALSE /\ Goto(w, "out")
  /\ UNCHANGED <<state, lock, timed, expired, answer>>

(***************************************************************************)
(* consume_permit, park and park_timeout.  A failing compare_exchange and  *)
(* the store of EMPTY that follows it are one step: only the driver leaves *)
(* NOTIFIED.                                                               *)
(***************************************************************************)
Consume ==
  /\ At(Driver, "out")
  /\ state' = "EMPTY" /\ answer' = (state = "NOTIFIED")
  /\ UNCHANGED <<lock, asleep, timed, expired, parkerPc>>

StartPark(bounded) ==
  /\ At(Driver, "out")
  /\ timed' = bounded /\ expired' = FALSE
  /\ Goto(Driver, "enter")
  /\ UNCHANGED <<state, lock, asleep, answer>>
Deadline ==
  /\ timed /\ ~expired /\ ~At(Driver, "out")
  /\ expired' = TRUE
  /\ UNCHANGED <<state, lock, asleep, timed, answer, parkerPc>>

\* The park is over: the permit word is EMPTY, the lock released if it was held.
EndPark(woken) ==
  /\ state' = "EMPTY" /\ answer' = woken
  /\ lock' = IF lock = Driver THEN Free ELSE lock
  /\ Goto(Driver, "out")
  /\ UNCHANGED <<asleep, timed, expired>>

\* The fast path takes a stored permit without the lock.
FastPath ==
  /\ At(Driver, "enter")
  /\ \/ state = "NOTIFIED" /\ EndPark(TRUE)
     \/ /\ state # "NOTIFIED" /\ Goto(Driver, "lock")
        /\ UNCHANGED <<state, lock, asleep, timed, expired, answer>>
TakeLock ==
  /\ At(Driver, "lock") /\ lock = Free
  /\ lock' = Driver /\ Goto(Driver, "claim")
  /\ UNCHANGED <<state, asleep, timed, expired, answer>>
\* EMPTY -> SLEEPING under the lock, or the permit that came in between.  park
\* waits at once, park_timeout looks at the permit and the clock first.
ClaimSleep ==
  /\ At(Driver, "claim")
  /\ \/ state = "NOTIFIED" /\ EndPark(TRUE)
     \/ /\ state = "EMPTY" /\ state' = "SLEEPING"
        /\ Goto(Driver, IF timed THEN "check" ELSE "wait")
        /\ UNCHANGED <<lock, asleep, timed, expired, answer>>
Wait ==
  /\ At(Driver, "wait")
  /\ lock' = Free /\ asleep' = TRUE /\ Goto(Driver, "relock")
  /\ UNCHANGED <<state, timed, expired, answer>>
SpuriousWake ==
  /\ asleep /\ asleep' = FALSE
  /\ UNCHANGED <<state, lock, timed, expired, answer, parkerPc>>
TimeoutWake ==
  /\ asleep /\ timed /\ expired /\ asleep' = FALSE
  /\ UNCHANGED <<state, lock, timed, expired, answer, parkerPc>>
Relock ==
  /\ At(Driver, "relock") /\ ~asleep /\ lock = Free
  /\ lock' = Driver /\ Goto(Driver, "check")
  /\ UNCHANGED <<state, asleep, timed, expired, answer>>
\* A permit ends the park; the clock is read after it.
\* Mutant: a timed park waits for a permit only.
CheckPermitOnly ==
  /\ At(Driver, "check")
  /\ \/ state = "NOTIFIED" /\ EndPark(TRUE)
     \/ /\ state # "NOTIFIED" /\ Goto(Driver, "wait")
        /\ UNCHANGED <<state, lock, asleep, timed, expired, answer>>
CheckPermit ==
  /\ At(Driver, "check")
  /\ \/ state = "NOTIFIED" /\ EndPark(TRUE)
     \/ /\ state # "NOTIFIED"
        /\ Goto(Driver, IF timed /\ expired THEN "retract" ELSE "wait")
        /\ UNCHANGED <<state, lock, asleep, timed, expired, answer>>
\* SLEEPING -> EMPTY is a timeout; a permit that landed since is taken.
\* Mutant: the claim is dropped with a plain store.
RetractBlindly == At(Driver, "retract") /\ EndPark(FALSE)
Retract == At(Driver, "retract") /\ EndPark(state = "NOTIFIED")

ParkerStep ==
  FastPath \/ TakeLock \/ ClaimSleep \/ Wait \/ Relock \/ CheckPermit \/ Retract
WakerStep(w) == FenceLock(w) \/ FenceUnlock(w) \/ NotifyOne(w)

ParkerNext ==
  \/ \E w \in Wakers : Swap(w) \/ WakerStep(w)
  \/ ParkerStep \/ SpuriousWake \/ TimeoutWake \/ Deadline
  \/ Consume \/ \E bounded \in BOOLEAN : StartPark(bounded)

ParkerSpec == ParkerInit /\ [][ParkerNext]_parkerVars

\* A thread inside unpark or park goes on, a clock runs out and wait_timeout
\* returns.  The mutex need not be fair, nothing makes a thread call unpark, and
\* no spurious wakeup is relied on.
ParkerFairness ==
  /\ WF_parkerVars(ParkerStep) /\ WF_parkerVars(Deadline) /\ WF_parkerVars(TimeoutWake)
  /\ \A w \in Wakers : WF_parkerVars(WakerStep(w))
ParkerFairSpec == ParkerSpec /\ ParkerFairness

(***************************************************************************)
(* Properties.                                                             *)
(***************************************************************************)

\* The values of the permit word, the lock and the two program counters, and how
\* they go together: only a committed sleeper publishes SLEEPING, a claim never
\* finds it, and each holder of the lock is where the code holds it.
Locked    == {"claim", "check", "retract", "wait"}
Committed == {"check", "retract", "wait", "relock"}
ParkerTypeOK ==
  /\ state \in {"EMPTY", "NOTIFIED", "SLEEPING"}
  /\ lock \in ParkerThreads \cup {Free}
  /\ asleep \in BOOLEAN /\ timed \in BOOLEAN
  /\ expired \in BOOLEAN /\ answer \in BOOLEAN
  /\ parkerPc \in [ParkerThreads -> WakerPcs \cup DriverPcs]
  /\ parkerPc[Driver] \in DriverPcs
  /\ \A w \in Wakers : parkerPc[w] \in WakerPcs
  /\ lock = Driver <=> parkerPc[Driver] \in Locked
  /\ \A w \in Wakers : lock = w <=> parkerPc[w] = "unlock"
  /\ state = "SLEEPING" => parkerPc[Driver] \in Committed
  /\ state = "EMPTY" => parkerPc[Driver] \notin Committed
  /\ asleep => parkerPc[Driver] = "relock"
  /\ parkerPc[Driver] = "retract" => timed

\* The window unpark's empty critical section closes: a driver that sleeps over
\* a stored permit has a notification on the way, made after it went to sleep.
SleeperIsNotified ==
  asleep /\ state = "NOTIFIED" => \E w \in Wakers : parkerPc[w] \in {"fence", "unlock", "notify"}

(***************************************************************************)
(* The parker implements the permit.                                       *)
(***************************************************************************)
StoredPermit == IF state = "NOTIFIED" THEN 1 ELSE 0
ParkKind ==
  IF parkerPc[Driver] = "out" THEN "out" ELSE IF timed THEN "timed" ELSE "park"
Permit == INSTANCE WakePermit
            WITH permit <- StoredPermit, driver <- ParkKind, answer <- answer

\* A permit is stored, taken and reported exactly as WakePermit allows, one that
\* is stored gets a parked driver out, and park_timeout comes back, wake or no
\* wake, however often its driver wakes for nothing.
ImplementsPermit == Permit!FairSpec

=============================================================================
