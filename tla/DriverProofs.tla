---------------------------- MODULE DriverProofs ----------------------------
(***************************************************************************)
(* Whatever the drivers and threads, a driver that judges behind the       *)
(* closed gate is alone, and a driver that is declared dead had nothing    *)
(* to wait for.  The ledger ties the counter of admissions to the program  *)
(* counters; with it a count of zero behind a closed gate stays zero.      *)
(* Whatever becomes news after a window was armed has then either advanced *)
(* the epoch of the publications or is still inside an admission.          *)
(***************************************************************************)
EXTENDS DeadlockVerdict, DriverParker, TLAPS

Counted(a) ==
  \/ pc[a] \in Admitted \cup {"look"}
  \/ pc[a] \in {"wake", "unpark"} /\ op[a] \notin {"cancel", "compensate"}
(* The counter, thread by thread. *)
Ledger ==
  \A a \in Actors :
    admissions[a] = (IF outer[a] THEN 1 ELSE 0) + (IF Counted(a) THEN 1 ELSE 0)
(* Which operation each step belongs to, and where a driver performs one. *)
Shape ==
  \A a \in Actors :
    /\ outer[a] => /\ op[a] = "schedule"
                   /\ pc[a] \in {"enter", "count", "look", "bump", "push", "wake",
                                 "unpark", "publish", "leave"}
    /\ pc[a] \in {"enter", "count", "look"} => op[a] \in {"schedule", "claim", "arm", "fire"}
    /\ pc[a] \in {"bump", "push"} => op[a] = "schedule"
    /\ pc[a] = "insert" => op[a] = "arm"
    /\ pc[a] = "remove" => op[a] = "fire"
    /\ pc[a] = "cancelled" => op[a] = "cancel"
    /\ a \in Drivers /\ pc[a] # "idle" => at[a] \in {"poll", "register", "ended"}
BaseInv == CoreOK /\ Shape /\ Ledger

LEMMA FirstSteps ==
  /\ FirstStep("schedule") = "bump" /\ FirstStep("claim") = "pop"
  /\ FirstStep("arm") = "insert" /\ FirstStep("fire") = "remove"
  BY DEF FirstStep

LEMMA BaseInit == Init => BaseInv
<1>. SUFFICES ASSUME Init PROVE BaseInv
  OBVIOUS
<1>. USE ActorsAssumption DEF Init
<1>1. CoreOK
  <2>1. timers \in Nat /\ left \in 0 .. MaxOps
    OBVIOUS
  <2>2. /\ op \in [Actors -> Ops] /\ outer \in [Actors -> BOOLEAN]
        /\ pc \in [Actors -> Admitted \cup Unadmitted \cup {"look", "wake", "unpark"}]
        /\ at \in [Drivers -> Stages]
    BY DEF Ops, Unadmitted, Stages
  <2>3. admissions \in [Actors -> 0 .. 2] /\ target \in [Actors -> SUBSET Drivers]
    OBVIOUS
  <2>. QED
    BY <2>1, <2>2, <2>3 DEF CoreOK
<1>2. Shape
  BY DEF Shape
<1>3. Ledger
  BY DEF Ledger, Counted, Admitted
<1>. QED
  BY <1>1, <1>2, <1>3 DEF BaseInv

LEMMA BaseOp ==
  ASSUME BaseInv, NEW a \in Actors, OpStep(a)
  PROVE  BaseInv'
<1>. USE ActorsAssumption
         DEF CoreOK, Actors, Ops, Admitted, Unadmitted, Stages, Go, GoAt, Perform, AtStep,
             gateVars, stopVars, workVars, wakeVars, opVars, driverVars,
             BaseInv, Shape, Ledger, Counted, AfterWake
<1>1. CASE Enter(a)
  BY <1>1 DEF Enter
<1>2. CASE Count(a)
  BY <1>2 DEF Count
<1>3. CASE Look(a)
  BY <1>3, FirstSteps DEF Look
<1>4. CASE Publish(a)
  BY <1>4 DEF Publish
<1>5. CASE Leave(a)
  <2>1. admissions' \in [Actors -> 0 .. 2]
    <3>1. admissions[a] \in 1 .. 2
      BY <1>5 DEF Leave
    <3>. QED
      BY <1>5, <3>1 DEF Leave
  <2>2. CoreOK'
    <3>1. op' \in [Actors -> Ops]
      BY <1>5 DEF Leave
    <3>2. outer' \in [Actors -> BOOLEAN]
      BY <1>5 DEF Leave
    <3>3. pc' \in [Actors -> Admitted \cup Unadmitted \cup {"look", "wake", "unpark"}]
      BY <1>5 DEF Leave
    <3>. HIDE DEF Ops, Admitted, Unadmitted, Stages, Actors, Go, Perform
    <3>. QED
      BY <1>5, <2>1, <3>1, <3>2, <3>3 DEF Leave
  <2>3. Shape'
    BY <1>5 DEF Leave
  <2>4. Ledger'
    BY <1>5 DEF Leave
  <2>. QED
    BY <2>2, <2>3, <2>4
<1>6. CASE Bump(a)
  BY <1>6 DEF Bump
<1>7. CASE Push(a)
  BY <1>7 DEF Push
<1>8. CASE Wake(a)
  BY <1>8 DEF Wake
<1>9. CASE Unpark(a)
  BY <1>9 DEF Unpark
<1>10. CASE Pop(a)
  BY <1>10 DEF Pop
<1>11. CASE Start(a)
  BY <1>11 DEF Start
<1>12. CASE InsertTimer(a)
  BY <1>12 DEF InsertTimer
<1>13. CASE RemoveTimer(a)
  <2>1. timers' \in Nat /\ target' \in [Actors -> SUBSET Drivers]
    BY <1>13 DEF RemoveTimer
  <2>2. CoreOK'
    <3>1. op' \in [Actors -> Ops]
      BY <1>13 DEF RemoveTimer
    <3>2. outer' \in [Actors -> BOOLEAN]
      BY <1>13 DEF RemoveTimer
    <3>3. pc' \in [Actors -> Admitted \cup Unadmitted \cup {"look", "wake", "unpark"}]
      BY <1>13 DEF RemoveTimer
    <3>. HIDE DEF Ops, Admitted, Unadmitted, Stages, Actors, Go, Perform
    <3>. QED
      BY <1>13, <2>1, <3>1, <3>2, <3>3 DEF RemoveTimer
  <2>3. Shape'
    BY <1>13 DEF RemoveTimer
  <2>4. Ledger'
    BY <1>13 DEF RemoveTimer
  <2>. QED
    BY <2>2, <2>3, <2>4
<1>14. CASE CancelTimer(a)
  <2>1. CoreOK'
    BY <1>14 DEF CancelTimer
  <2>2. Shape'
    BY <1>14 DEF CancelTimer
  <2>3. Ledger'
    BY <1>14 DEF CancelTimer
  <2>. QED
    BY <2>1, <2>2, <2>3
<1>15. CASE PublishStop(a)
  BY <1>15 DEF PublishStop
<1>16. CASE UnparkAll(a)
  BY <1>16 DEF UnparkAll
<1>. QED
  BY <1>1, <1>2, <1>3, <1>4, <1>5, <1>6, <1>7, <1>8, <1>9, <1>10, <1>11, <1>12, <1>13, <1>14,
     <1>15, <1>16
     DEF OpStep

LEMMA BaseDriver ==
  ASSUME BaseInv, NEW d \in Drivers, DriverStep(d)
  PROVE  BaseInv'
<1>. USE ActorsAssumption
         DEF CoreOK, Actors, Ops, Admitted, Unadmitted, Stages, Go, GoAt, Perform, AtStep,
             gateVars, stopVars, workVars, wakeVars, opVars, driverVars,
             BaseInv, Shape, Ledger, Counted, Again, Unlock
<1>1. CASE Poll(d)
  BY <1>1 DEF Poll
<1>2. CASE Register(d)
  BY <1>2 DEF Register
<1>3. CASE Recheck(d)
  BY <1>3 DEF Recheck
<1>4. CASE TimerPark(d)
  BY <1>4 DEF TimerPark
<1>5. CASE Snapshot(d)
  BY <1>5 DEF Snapshot
<1>6. CASE Arm(d)
  BY <1>6 DEF Arm
<1>7. CASE Park(d)
  BY <1>7 DEF Park
<1>8. CASE Expire(d)
  BY <1>8 DEF Expire
<1>9. CASE Deregister(d)
  BY <1>9 DEF Deregister
<1>10. CASE ConsumePermit(d)
  BY <1>10 DEF ConsumePermit
<1>11. CASE LookAtQueue(d)
  BY <1>11 DEF LookAtQueue
<1>12. CASE Doubt(d)
  BY <1>12 DEF Doubt
<1>13. CASE LookAtTimers(d)
  BY <1>13 DEF LookAtTimers
<1>14. CASE Close(d)
  BY <1>14 DEF Close
<1>15. CASE Load(d)
  BY <1>15 DEF Load
<1>16. CASE LockStop(d)
  <2>1. CASE stopping
    BY <1>16, <2>1 DEF LockStop
  <2>2. CASE ~ (stopping)
    BY <1>16, <2>2 DEF LockStop
  <2>. QED
    BY <2>1, <2>2
<1>17. CASE Check(d)
  BY <1>17 DEF Check
<1>18. CASE LastDoubt(d)
  BY <1>18 DEF LastDoubt
<1>19. CASE LastTimers(d)
  BY <1>19 DEF LastTimers
<1>20. CASE Condemn(d)
  BY <1>20 DEF Condemn
<1>21. CASE Exit(d)
  BY <1>21 DEF Exit
<1>. QED
  BY <1>1, <1>2, <1>3, <1>4, <1>5, <1>6, <1>7, <1>8, <1>9, <1>10, <1>11, <1>12, <1>13, <1>14,
     <1>15, <1>16, <1>17, <1>18, <1>19, <1>20, <1>21
     DEF DriverStep

(* What the windows hold. *)
ReadsInv == ReadsOK /\ \A d \in Drivers : window[d].published <= publications

LEMMA ReadsInit == Init => ReadsInv
  BY DEF Init, ReadsInv, ReadsOK, Fingerprint, Zero, Unread

LEMMA ReadsStep ==
  ASSUME BaseInv, ReadsInv, Next
  PROVE  ReadsInv'
<1>. USE DEF gateVars, stopVars, workVars, wakeVars, opVars, driverVars
<1>1. publications \in Nat /\ Zero \in Fingerprint /\ Unread \in [published : Nat, armed : Fingerprint]
  BY DEF BaseInv, CoreOK, Zero, Unread, Fingerprint
<1>2. ASSUME NEW d \in Drivers, Poll(d) \/ Snapshot(d) \/ Arm(d) \/ Expire(d)
      PROVE  ReadsInv'
  <2>1. CASE Poll(d)
    BY <1>1, <2>1 DEF Poll, ReadsInv, ReadsOK, Unread
  <2>2. CASE Snapshot(d)
    BY <1>1, <2>2 DEF Snapshot, ReadsInv, ReadsOK
  <2>3. CASE Arm(d)
    BY <1>1, <2>3 DEF Arm, ReadsInv, ReadsOK
  <2>4. CASE Expire(d)
    BY <1>1, <2>4 DEF Expire, ReadsInv, ReadsOK
  <2>. QED
    BY <1>2, <2>1, <2>2, <2>3, <2>4
<1>3. ASSUME NEW a \in Actors, Publish(a)
      PROVE  ReadsInv'
  BY <1>1, <1>3 DEF Publish, ReadsInv, ReadsOK
<1>4. CASE /\ metrics' \in Fingerprint /\ UNCHANGED <<window, publications>>
  BY <1>4 DEF ReadsInv, ReadsOK
<1>5. ASSUME NEW a \in Actors, Bump(a) \/ Start(a) \/ Call(a)
      PROVE  metrics' \in Fingerprint /\ UNCHANGED <<window, publications>>
  BY <1>5 DEF ReadsInv, ReadsOK, Fingerprint, Bump, Start, Call, Reset, Zero
<1>6. ASSUME NEW a \in Actors, OpStep(a), ~ Publish(a)
      PROVE  metrics' \in Fingerprint /\ UNCHANGED <<window, publications>>
  <2>1. CASE Bump(a) \/ Start(a)
    BY <1>5, <2>1
  <2>2. CASE ~ (Bump(a) \/ Start(a))
    BY <1>6, <2>2 DEF OpStep, ReadsInv, ReadsOK, Enter, Count, Look, Leave, Push, Wake, Unpark, Pop,
       InsertTimer, RemoveTimer, CancelTimer, PublishStop, UnparkAll
  <2>. QED
    BY <2>1, <2>2
<1>7. ASSUME NEW d \in Drivers, DriverStep(d), ~ (Poll(d) \/ Snapshot(d) \/ Arm(d) \/ Expire(d))
      PROVE  metrics' \in Fingerprint /\ UNCHANGED <<window, publications>>
  BY <1>7 DEF DriverStep, ReadsInv, ReadsOK, Register, Recheck, TimerPark, Park, Deregister,
     ConsumePermit, LookAtQueue, Doubt, LookAtTimers, Close, Load, LockStop, Check, LastDoubt,
     LastTimers, Condemn, Exit
<1>. QED
  BY <1>2, <1>3, <1>4, <1>5, <1>6, <1>7 DEF Next

-----------------------------------------------------------------------------
Alone == \A d, e \in Drivers : Gate(d) /\ Gate(e) => d = e
GateInv == GateExcludes /\ Alone

LEMMA GateInit == Init => GateInv
  BY DEF Init, GateInv, GateExcludes, Alone, Gate, Judging

LEMMA GateOp ==
  ASSUME BaseInv, GateInv, NEW a \in Actors, OpStep(a)
  PROVE  GateInv'
<1>. USE ActorsAssumption
         DEF BaseInv, CoreOK, Actors, Admitted, Go, GoAt, Perform, AtStep,
             gateVars, stopVars, workVars, wakeVars, opVars, driverVars,
             Shape, GateInv, GateExcludes, Alone, Gate, Judging, Inside, AfterWake
<1>1. CASE Enter(a)
  BY <1>1 DEF Enter
<1>2. CASE Count(a)
  BY <1>2 DEF Count
<1>3. CASE Look(a)
  BY <1>3, FirstSteps DEF Look
<1>4. CASE Publish(a)
  BY <1>4 DEF Publish
<1>5. CASE Leave(a)
  BY <1>5 DEF Leave
<1>6. CASE Bump(a)
  BY <1>6 DEF Bump
<1>7. CASE Push(a)
  BY <1>7 DEF Push
<1>8. CASE Wake(a)
  BY <1>8 DEF Wake
<1>9. CASE Unpark(a)
  BY <1>9 DEF Unpark
<1>10. CASE Pop(a)
  BY <1>10 DEF Pop
<1>11. CASE Start(a)
  BY <1>11 DEF Start
<1>12. CASE InsertTimer(a)
  BY <1>12 DEF InsertTimer
<1>13. CASE RemoveTimer(a)
  BY <1>13 DEF RemoveTimer
<1>14. CASE CancelTimer(a)
  BY <1>14 DEF CancelTimer
<1>15. CASE PublishStop(a)
  BY <1>15 DEF PublishStop
<1>16. CASE UnparkAll(a)
  BY <1>16 DEF UnparkAll
<1>. QED
  BY <1>1, <1>2, <1>3, <1>4, <1>5, <1>6, <1>7, <1>8, <1>9, <1>10, <1>11, <1>12, <1>13, <1>14,
     <1>15, <1>16
     DEF OpStep

LEMMA GateDriver ==
  ASSUME BaseInv, GateInv, NEW d \in Drivers, DriverStep(d)
  PROVE  GateInv'
<1>. USE ActorsAssumption
         DEF BaseInv, CoreOK, Actors, Admitted, Go, GoAt, Perform, AtStep,
             gateVars, stopVars, workVars, wakeVars, opVars, driverVars,
             Shape, GateInv, GateExcludes, Alone, Gate, Judging, Inside,
             Again, Unlock, NoAdmissions, Ledger, Counted
<1>1. CASE Poll(d)
  BY <1>1 DEF Poll
<1>2. CASE Register(d)
  BY <1>2 DEF Register
<1>3. CASE Recheck(d)
  BY <1>3 DEF Recheck
<1>4. CASE TimerPark(d)
  BY <1>4 DEF TimerPark
<1>5. CASE Snapshot(d)
  BY <1>5 DEF Snapshot
<1>6. CASE Arm(d)
  BY <1>6 DEF Arm
<1>7. CASE Park(d)
  BY <1>7 DEF Park
<1>8. CASE Expire(d)
  BY <1>8 DEF Expire
<1>9. CASE Deregister(d)
  BY <1>9 DEF Deregister
<1>10. CASE ConsumePermit(d)
  BY <1>10 DEF ConsumePermit
<1>11. CASE LookAtQueue(d)
  BY <1>11 DEF LookAtQueue
<1>12. CASE Doubt(d)
  BY <1>12 DEF Doubt
<1>13. CASE LookAtTimers(d)
  BY <1>13 DEF LookAtTimers
<1>14. CASE Close(d)
  BY <1>14 DEF Close
<1>15. CASE Load(d)
  BY <1>15 DEF Load
<1>16. CASE LockStop(d)
  BY <1>16 DEF LockStop
<1>17. CASE Check(d)
  BY <1>17 DEF Check
<1>18. CASE LastDoubt(d)
  BY <1>18 DEF LastDoubt
<1>19. CASE LastTimers(d)
  BY <1>19 DEF LastTimers
<1>20. CASE Condemn(d)
  BY <1>20 DEF Condemn
<1>21. CASE Exit(d)
  BY <1>21 DEF Exit
<1>. QED
  BY <1>1, <1>2, <1>3, <1>4, <1>5, <1>6, <1>7, <1>8, <1>9, <1>10, <1>11, <1>12, <1>13, <1>14,
     <1>15, <1>16, <1>17, <1>18, <1>19, <1>20, <1>21
     DEF DriverStep

-----------------------------------------------------------------------------
(* A thread that will still advance the epoch, nested ones included. *)
Owes(a) ==
  \/ outer[a] \/ pc[a] = "publish"
  \/ pc[a] \in {"wake", "unpark"} /\ op[a] \notin {"cancel", "compensate"}
Windowed == {"park", "expiry", "deregister", "permit", "queued", "doubt", "timerless",
             "try", "load", "lock", "check"}
Cleared == {"final", "lastTimers", "condemned"}
SoundInv ==
  /\ \A d \in Drivers : at[d] \in Cleared \cup {"check"} => stopLock = {d} /\ ~ stopping
  /\ \A d \in news : at[d] \in Windowed =>
       window[d].published # publications \/ \E a \in Actors : Owes(a)
  /\ \A d \in Drivers : at[d] \in Cleared => d \notin news /\ queue = 0
  /\ \A d \in Drivers : at[d] = "condemned" => timers = 0

LEMMA SoundInit == Init => SoundInv
  BY DEF Init, SoundInv, Cleared

LEMMA SoundOp ==
  ASSUME BaseInv, GateInv, ReadsInv, SoundInv, NEW a \in Actors, OpStep(a)
  PROVE  SoundInv'
<1>. USE ActorsAssumption
         DEF BaseInv, CoreOK, Actors, Admitted, Go, GoAt, Perform, AtStep,
             gateVars, stopVars, workVars, wakeVars, opVars, driverVars,
             Shape, GateInv, GateExcludes, Alone, Gate, Judging, Inside,
             ReadsInv, SoundInv, Cleared, Windowed, Owes, AfterWake
<1>1. CASE Enter(a)
  BY <1>1 DEF Enter
<1>2. CASE Count(a)
  BY <1>2 DEF Count
<1>3. CASE Look(a)
  BY <1>3, FirstSteps DEF Look
<1>4. CASE Publish(a)
  BY <1>4 DEF Publish
<1>5. CASE Leave(a)
  BY <1>5 DEF Leave
<1>6. CASE Bump(a)
  BY <1>6 DEF Bump
<1>7. CASE Push(a)
  BY <1>7 DEF Push
<1>8. CASE Wake(a)
  BY <1>8 DEF Wake
<1>9. CASE Unpark(a)
  BY <1>9 DEF Unpark
<1>10. CASE Pop(a)
  BY <1>10 DEF Pop
<1>11. CASE Start(a)
  BY <1>11 DEF Start
<1>12. CASE InsertTimer(a)
  BY <1>12 DEF InsertTimer
<1>13. CASE RemoveTimer(a)
  BY <1>13 DEF RemoveTimer
<1>14. CASE CancelTimer(a)
  BY <1>14 DEF CancelTimer
<1>15. CASE PublishStop(a)
  BY <1>15 DEF PublishStop
<1>16. CASE UnparkAll(a)
  BY <1>16 DEF UnparkAll
<1>. QED
  BY <1>1, <1>2, <1>3, <1>4, <1>5, <1>6, <1>7, <1>8, <1>9, <1>10, <1>11, <1>12, <1>13, <1>14,
     <1>15, <1>16
     DEF OpStep

LEMMA SoundDriver ==
  ASSUME BaseInv, GateInv, ReadsInv, SoundInv, NEW d \in Drivers, DriverStep(d)
  PROVE  SoundInv'
<1>. USE ActorsAssumption
         DEF BaseInv, CoreOK, Actors, Admitted, Go, GoAt, Perform, AtStep,
             gateVars, stopVars, workVars, wakeVars, opVars, driverVars,
             Shape, GateInv, GateExcludes, Alone, Gate, Judging, Inside,
             ReadsInv, SoundInv, Cleared, Windowed, Owes,
             Again, Unlock, Unread
<1>1. CASE Poll(d)
  BY <1>1 DEF Poll
<1>2. CASE Register(d)
  BY <1>2 DEF Register
<1>3. CASE Recheck(d)
  BY <1>3 DEF Recheck
<1>4. CASE TimerPark(d)
  BY <1>4 DEF TimerPark
<1>5. CASE Snapshot(d)
  BY <1>5 DEF Snapshot
<1>6. CASE Arm(d)
  BY <1>6 DEF Arm
<1>7. CASE Park(d)
  BY <1>7 DEF Park
<1>8. CASE Expire(d)
  BY <1>8 DEF Expire, ReadsOK
<1>9. CASE Deregister(d)
  BY <1>9 DEF Deregister
<1>10. CASE ConsumePermit(d)
  BY <1>10 DEF ConsumePermit
<1>11. CASE LookAtQueue(d)
  BY <1>11 DEF LookAtQueue
<1>12. CASE Doubt(d)
  BY <1>12 DEF Doubt
<1>13. CASE LookAtTimers(d)
  BY <1>13 DEF LookAtTimers
<1>14. CASE Close(d)
  BY <1>14 DEF Close
<1>15. CASE Load(d)
  BY <1>15 DEF Load
<1>16. CASE LockStop(d)
  BY <1>16 DEF LockStop
<1>17. CASE Check(d)
  BY <1>17 DEF Check
<1>18. CASE LastDoubt(d)
  BY <1>18 DEF LastDoubt
<1>19. CASE LastTimers(d)
  BY <1>19 DEF LastTimers
<1>20. CASE Condemn(d)
  BY <1>20 DEF Condemn
<1>21. CASE Exit(d)
  BY <1>21 DEF Exit
<1>. QED
  BY <1>1, <1>2, <1>3, <1>4, <1>5, <1>6, <1>7, <1>8, <1>9, <1>10, <1>11, <1>12, <1>13, <1>14,
     <1>15, <1>16, <1>17, <1>18, <1>19, <1>20, <1>21
     DEF DriverStep

-----------------------------------------------------------------------------
IInv == BaseInv /\ ReadsInv /\ GateInv /\ SoundInv

LEMMA CallKeeps ==
  ASSUME BaseInv, GateInv, SoundInv, NEW a \in Actors, Call(a)
  PROVE  BaseInv' /\ GateInv' /\ SoundInv'
<1>. USE ActorsAssumption
     DEF Call, BaseInv, CoreOK, Actors, Ops, Admitted, Unadmitted, Stages, Go, Perform,
         gateVars, stopVars, workVars, driverVars, Shape, Ledger, Counted
<1>1. CoreOK'
  OBVIOUS
<1>2. Shape'
  OBVIOUS
<1>3. Ledger'
  OBVIOUS
<1>4. GateInv'
  BY DEF GateInv, GateExcludes, Alone, Gate, Judging, Inside
<1>5. SoundInv'
  BY DEF GateInv, SoundInv, Cleared, Windowed, Owes
<1>. QED
  BY <1>1, <1>2, <1>3, <1>4, <1>5

LEMMA InvStep ==
  ASSUME IInv, [Next]_vars
  PROVE  IInv'
<1>1. ASSUME NEW a \in Actors, Call(a)
      PROVE  IInv'
  BY <1>1, CallKeeps, ReadsStep DEF IInv, Next
<1>2. ASSUME NEW a \in Actors, OpStep(a)
      PROVE  IInv'
  BY <1>2, BaseOp, GateOp, SoundOp, ReadsStep DEF IInv, Next
<1>3. ASSUME NEW d \in Drivers, DriverStep(d)
      PROVE  IInv'
  BY <1>3, BaseDriver, GateDriver, SoundDriver, ReadsStep DEF IInv, Next
<1>4. CASE UNCHANGED vars
  BY <1>4 DEF IInv, BaseInv, CoreOK, Shape, Ledger, Counted, ReadsInv, ReadsOK, GateInv,
     GateExcludes, Alone, Gate, Judging, Inside, SoundInv, Owes, vars, gateVars, stopVars,
     workVars, wakeVars, opVars, driverVars
<1>. QED
  BY <1>1, <1>2, <1>3, <1>4 DEF Next

LEMMA Inductive == Spec => []IInv
<1>1. Init => IInv
  BY BaseInit, ReadsInit, GateInit, SoundInit DEF IInv
<1>2. IInv /\ [Next]_vars => IInv'
  BY InvStep
<1>. QED
  BY <1>1, <1>2, PTL DEF Spec

(* Every state of the drivers, threads and counters has its type, for any  *)
(* number of drivers, threads and operations of MultiThreadDeadlockState.  *)
THEOREM TypeCorrect == Spec => []TypeOK
<1>1. IInv => TypeOK
  BY DEF IInv, BaseInv, ReadsInv, TypeOK
<1>. QED
  BY <1>1, Inductive, PTL

(* try_begin_verdict against begin_admission: behind a closed gate whose   *)
(* count was zero nobody is admitted and nobody else judges.               *)
THEOREM GateIsExclusive == Spec => []GateExcludes
<1>1. IInv => GateExcludes
  BY DEF IInv, GateInv
<1>. QED
  BY <1>1, Inductive, PTL

(* A panic with BlockOnDeadlock is never a false alarm of the scheduler:   *)
(* nothing was queued, armed or fired since the window was armed, and      *)
(* nothing is left to run.                                                 *)
THEOREM VerdictSound == Spec => []VerdictIsSound
<1>1. IInv => VerdictIsSound
  BY DEF IInv, SoundInv, Cleared, VerdictIsSound
<1>. QED
  BY <1>1, Inductive, PTL

-----------------------------------------------------------------------------
(***************************************************************************)
(* DriverParker implements WakePermit, whatever threads unpark the driver. *)
(* The invariant ties the permit word and the lock to the program counters;*)
(* with it, a driver that has decided to wait over a stored permit leaves  *)
(* the waker that stored it in front of the lock, so that the notification *)
(* comes after the sleep.                                                  *)
(***************************************************************************)
WaiterIsFenced ==
  parkerPc[Driver] = "wait" /\ state = "NOTIFIED" => \E w \in Wakers : parkerPc[w] = "fence"
ParkerInv == ParkerTypeOK /\ WaiterIsFenced /\ SleeperIsNotified

LEMMA ParkerInvInit == ParkerInit => ParkerInv
  BY ParkerAssumption
     DEF ParkerInit, ParkerInv, ParkerTypeOK, WaiterIsFenced, SleeperIsNotified, ParkerThreads, WakerPcs, DriverPcs,
         Locked, Committed

LEMMA ParkerWaker ==
  ASSUME ParkerInv, NEW w \in Wakers, Swap(w) \/ WakerStep(w)
  PROVE  ParkerInv'
<1>. USE ParkerAssumption
     DEF ParkerInv, ParkerTypeOK, ParkerThreads, WakerPcs, DriverPcs, Locked, Committed, At, Goto
<1>1. CASE Swap(w)
  BY <1>1 DEF Swap, WaiterIsFenced, SleeperIsNotified
<1>2. CASE FenceLock(w)
  BY <1>2 DEF FenceLock, WaiterIsFenced, SleeperIsNotified
<1>3. CASE FenceUnlock(w)
  BY <1>3 DEF FenceUnlock, WaiterIsFenced, SleeperIsNotified
<1>4. CASE NotifyOne(w)
  BY <1>4 DEF NotifyOne, WaiterIsFenced, SleeperIsNotified
<1>. QED
  BY <1>1, <1>2, <1>3, <1>4 DEF WakerStep

LEMMA ParkerLeaves ==
  ASSUME ParkerInv, NEW woken \in BOOLEAN, EndPark(woken), parkerPc[Driver] # "relock"
  PROVE  ParkerInv'
  BY ParkerAssumption
     DEF EndPark, ParkerInv, ParkerTypeOK, ParkerThreads, WakerPcs, DriverPcs, Locked, Committed, Goto,
         WaiterIsFenced, SleeperIsNotified

LEMMA ParkerDriver ==
  ASSUME ParkerInv, ParkerStep
  PROVE  ParkerInv'
<1>. USE ParkerAssumption
     DEF ParkerInv, ParkerTypeOK, ParkerThreads, WakerPcs, DriverPcs, Locked, Committed, At, Goto
<1>1. CASE FastPath
  <2>1. CASE state = "NOTIFIED"
    <3>1. EndPark(TRUE)
      BY <1>1, <2>1 DEF FastPath
    <3>. QED
      BY <1>1, <2>1, <3>1, ParkerLeaves DEF FastPath
  <2>2. CASE ~(state = "NOTIFIED")
    BY <1>1, <2>2 DEF FastPath, EndPark, WaiterIsFenced, SleeperIsNotified
  <2>. QED
    BY <2>1, <2>2
<1>2. CASE TakeLock
  BY <1>2 DEF TakeLock, WaiterIsFenced, SleeperIsNotified
<1>3. CASE ClaimSleep
  <2>1. CASE state = "NOTIFIED"
    <3>1. EndPark(TRUE)
      BY <1>3, <2>1 DEF ClaimSleep
    <3>. QED
      BY <1>3, <2>1, <3>1, ParkerLeaves DEF ClaimSleep
  <2>2. CASE ~(state = "NOTIFIED")
    BY <1>3, <2>2 DEF ClaimSleep, EndPark, WaiterIsFenced, SleeperIsNotified
  <2>. QED
    BY <2>1, <2>2
<1>4. CASE Wait
  BY <1>4 DEF Wait, WaiterIsFenced, SleeperIsNotified
<1>5. CASE Relock
  BY <1>5 DEF Relock, WaiterIsFenced, SleeperIsNotified
<1>6. CASE CheckPermit
  <2>1. CASE state = "NOTIFIED"
    <3>1. EndPark(TRUE)
      BY <1>6, <2>1 DEF CheckPermit
    <3>. QED
      BY <1>6, <2>1, <3>1, ParkerLeaves DEF CheckPermit
  <2>2. CASE ~(state = "NOTIFIED")
    BY <1>6, <2>2 DEF CheckPermit, EndPark, WaiterIsFenced, SleeperIsNotified
  <2>. QED
    BY <2>1, <2>2
<1>7. CASE Retract
  BY <1>7, ParkerLeaves DEF Retract
<1>. QED
  BY <1>1, <1>2, <1>3, <1>4, <1>5, <1>6, <1>7 DEF ParkerStep

LEMMA ParkerOther ==
  ASSUME ParkerInv,
         \/ SpuriousWake \/ TimeoutWake \/ Deadline \/ Consume
         \/ \E bounded \in BOOLEAN : StartPark(bounded)
         \/ UNCHANGED parkerVars
  PROVE  ParkerInv'
<1>. USE ParkerAssumption
     DEF ParkerInv, ParkerTypeOK, ParkerThreads, WakerPcs, DriverPcs, Locked, Committed, At, Goto,
         WaiterIsFenced, SleeperIsNotified
<1>1. CASE SpuriousWake \/ TimeoutWake
  BY <1>1 DEF SpuriousWake, TimeoutWake
<1>5. CASE Deadline
  BY <1>5 DEF Deadline
<1>2. CASE Consume
  BY <1>2 DEF Consume
<1>3. CASE \E bounded \in BOOLEAN : StartPark(bounded)
  <2>1. PICK bounded \in BOOLEAN : StartPark(bounded)
    BY <1>3
  <2>2. timed' \in BOOLEAN /\ expired' \in BOOLEAN
    BY <2>1, Zenon DEF StartPark
  <2>3. UNCHANGED <<state, lock, asleep, answer>> /\ parkerPc[Driver] = "out"
        /\ parkerPc' = [parkerPc EXCEPT ![Driver] = "enter"]
    BY <2>1 DEF StartPark
  <2>. QED
    BY <2>2, <2>3
<1>4. CASE UNCHANGED parkerVars
  BY <1>4 DEF parkerVars
<1>. QED
  BY <1>1, <1>2, <1>3, <1>4, <1>5

\* The parts of the parker agree in every reachable state, and no driver sleeps
\* over a stored permit unless its notification is on the way.
THEOREM ParkerInvariant == ParkerSpec => [](ParkerTypeOK /\ SleeperIsNotified)
<1>1. ParkerInv /\ [ParkerNext]_parkerVars => ParkerInv'
  BY ParkerWaker, ParkerDriver, ParkerOther DEF ParkerNext
<1>2. ParkerInv => ParkerTypeOK /\ SleeperIsNotified
  BY DEF ParkerInv
<1>. QED
  BY <1>1, <1>2, ParkerInvInit, PTL DEF ParkerSpec

(***************************************************************************)
(* Refinement.                                                             *)
(***************************************************************************)
LEMMA PermitInit == ParkerInit => Permit!Init
  BY ParkerAssumption DEF ParkerInit, Permit!Init, StoredPermit, ParkKind, ParkerThreads

\* Leaving a park with the permit takes it; leaving without one gives up.
LEMMA PermitLeaves ==
  ASSUME ParkerInv, parkerPc[Driver] # "out",
         \/ EndPark(state = "NOTIFIED") /\ timed
         \/ EndPark(TRUE) /\ state = "NOTIFIED"
  PROVE  Permit!Take \/ Permit!GiveUp
<1>1. parkerPc'[Driver] = "out" /\ state' = "EMPTY"
  BY DEF EndPark, Goto, ParkerInv, ParkerTypeOK, ParkerThreads
<1>4. ParkKind' = "out" /\ ParkKind # "out" /\ StoredPermit' = 0
  BY <1>1 DEF StoredPermit, ParkKind
<1>2. CASE state = "NOTIFIED"
  <2>1. answer' = TRUE
    BY <1>2, Zenon DEF EndPark
  <2>2. StoredPermit = 1
    BY <1>2 DEF StoredPermit
  <2>. QED
    BY <1>4, <2>1, <2>2, Zenon DEF Permit!Take
<1>3. CASE state # "NOTIFIED"
  <2>1. answer' = FALSE
    BY <1>3, Zenon DEF EndPark
  <2>2. ParkKind = "timed" /\ StoredPermit = 0
    BY <1>3 DEF StoredPermit, ParkKind
  <2>. QED
    BY <1>4, <2>1, <2>2, Zenon DEF Permit!GiveUp
<1>. QED
  BY <1>2, <1>3

LEMMA PermitSteps ==
  ASSUME ParkerInv, ParkerNext
  PROVE  Permit!Next \/ UNCHANGED Permit!vars
<1>. USE DEF ParkerInv, ParkerTypeOK, ParkerThreads, At, Goto
<1>1. ASSUME NEW w \in Wakers, Swap(w)
      PROVE  Permit!Grant
  BY <1>1, ParkerAssumption DEF Swap, Permit!Grant, StoredPermit, ParkKind
<1>2. ASSUME NEW w \in Wakers, WakerStep(w)
      PROVE  UNCHANGED Permit!vars
  BY <1>2, ParkerAssumption
     DEF WakerStep, FenceLock, FenceUnlock, NotifyOne, Permit!vars, StoredPermit, ParkKind
<1>3. CASE ParkerStep
  <2>1. CASE TakeLock \/ Wait \/ Relock
    BY <2>1 DEF TakeLock, Wait, Relock, Permit!vars, StoredPermit, ParkKind
  <2>2. CASE Retract
    <3>1. timed
      BY <2>2 DEF Retract, ParkerInv
    <3>. QED
      BY <2>2, <3>1, PermitLeaves DEF Retract, Permit!Next
  <2>3. CASE FastPath
    <3>1. CASE state = "NOTIFIED"
      BY <2>3, <3>1, PermitLeaves DEF FastPath, Permit!Next
    <3>2. CASE state # "NOTIFIED"
      <4>1. /\ UNCHANGED <<answer, timed>>
            /\ parkerPc[Driver] # "out" /\ parkerPc'[Driver] # "out" /\ state' # "NOTIFIED"
        BY <2>3, <3>2 DEF FastPath
      <4>2. UNCHANGED ParkKind /\ UNCHANGED StoredPermit
        BY <3>2, <4>1 DEF ParkKind, StoredPermit
      <4>. QED
        BY <4>1, <4>2, Zenon DEF Permit!vars
    <3>. QED
      BY <3>1, <3>2
  <2>4. CASE ClaimSleep
    <3>1. CASE state = "NOTIFIED"
      BY <2>4, <3>1, PermitLeaves DEF ClaimSleep, Permit!Next
    <3>2. CASE state # "NOTIFIED"
      <4>1. /\ UNCHANGED <<answer, timed>>
            /\ parkerPc[Driver] # "out" /\ parkerPc'[Driver] # "out" /\ state' # "NOTIFIED"
        BY <2>4, <3>2 DEF ClaimSleep
      <4>2. UNCHANGED ParkKind /\ UNCHANGED StoredPermit
        BY <3>2, <4>1 DEF ParkKind, StoredPermit
      <4>. QED
        BY <4>1, <4>2, Zenon DEF Permit!vars
    <3>. QED
      BY <3>1, <3>2
  <2>5. CASE CheckPermit
    <3>1. CASE state = "NOTIFIED"
      BY <2>5, <3>1, PermitLeaves DEF CheckPermit, Permit!Next
    <3>2. CASE state # "NOTIFIED"
      <4>1. /\ UNCHANGED <<answer, timed>>
            /\ parkerPc[Driver] # "out" /\ parkerPc'[Driver] # "out" /\ state' # "NOTIFIED"
        BY <2>5, <3>2 DEF CheckPermit
      <4>2. UNCHANGED ParkKind /\ UNCHANGED StoredPermit
        BY <3>2, <4>1 DEF ParkKind, StoredPermit
      <4>. QED
        BY <4>1, <4>2, Zenon DEF Permit!vars
    <3>. QED
      BY <3>1, <3>2
  <2>. QED
    BY <1>3, <2>1, <2>2, <2>3, <2>4, <2>5 DEF ParkerStep
<1>4. CASE SpuriousWake \/ TimeoutWake
  BY <1>4 DEF SpuriousWake, TimeoutWake, Permit!vars, StoredPermit, ParkKind
<1>5. CASE Deadline
  BY <1>5 DEF Deadline, Permit!vars, StoredPermit, ParkKind
<1>6. CASE Consume
  <2>1. /\ ParkKind = "out" /\ UNCHANGED ParkKind
        /\ StoredPermit' = 0 /\ (StoredPermit = 1 <=> state = "NOTIFIED")
    BY <1>6 DEF Consume, StoredPermit, ParkKind
  <2>2. answer' = (state = "NOTIFIED")
    BY <1>6 DEF Consume
  <2>. QED
    BY <2>1, <2>2, Zenon DEF Permit!Next, Permit!Consume
<1>7. ASSUME NEW bounded \in BOOLEAN, StartPark(bounded)
      PROVE  \E how \in {"park", "timed"} : Permit!Enter(how)
  <2>1. /\ parkerPc[Driver] = "out" /\ parkerPc'[Driver] = "enter"
        /\ UNCHANGED <<state, answer>>
    BY <1>7 DEF StartPark
  <2>2. ParkKind = "out" /\ UNCHANGED StoredPermit
    BY <2>1 DEF StoredPermit, ParkKind
  <2>3. ParkKind' \in {"park", "timed"}
    <3>1. CASE timed'
      BY <2>1, <3>1 DEF ParkKind
    <3>2. CASE ~timed'
      BY <2>1, <3>2 DEF ParkKind
    <3>. QED
      BY <3>1, <3>2
  <2>. QED
    BY <2>1, <2>2, <2>3 DEF Permit!Enter
<1>. QED
  BY <1>1, <1>2, <1>3, <1>4, <1>5, <1>6, <1>7 DEF ParkerNext, Permit!Next

\* Every park, timed park, consume_permit and unpark of the parker is a step of
\* the permit, or invisible to it.
THEOREM ParkerImplementsPermit == ParkerSpec => Permit!Spec
<1>1. ParkerInv /\ [ParkerNext]_parkerVars => [Permit!Next]_(Permit!vars)
  <2>1. CASE UNCHANGED parkerVars
    BY <2>1 DEF parkerVars, Permit!vars, StoredPermit, ParkKind
  <2>. QED
    BY <2>1, PermitSteps
<1>2. ParkerInv /\ [ParkerNext]_parkerVars => ParkerInv'
  BY ParkerWaker, ParkerDriver, ParkerOther DEF ParkerNext
<1>. QED
  BY <1>1, <1>2, ParkerInvInit, PermitInit, PTL DEF ParkerSpec, Permit!Spec
=============================================================================
