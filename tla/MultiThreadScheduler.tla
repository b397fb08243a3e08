------------------------ MODULE MultiThreadScheduler ------------------------
(***************************************************************************)
(* MultiThreadExecutor of crates/async-runtime: the pool threads that run  *)
(* drain jobs, the shared FIFO of runnables, the per-thread LIFO slot, the *)
(* queue of blocking closures and its lanes, the cooperative block_on of a *)
(* pool thread, the lingering drainer, the registry of parked drivers and  *)
(* the stop of a generation.                                               *)
(*                                                                         *)
(* A thread is a stack of frames.  Every atomic operation or critical      *)
(* section of a frame is one action; a parker is the one of WakePermit,    *)
(* which DriverParker implements.  A unit of user code is a task (polled   *)
(* any number of times) or a blocking closure; what it calls is chosen     *)
(* freely from the Menu, at most Calls calls in one activation.            *)
(***************************************************************************)
EXTENDS Naturals, FiniteSets, Sequences, SequencesExt

CONSTANTS
  Workers,      \* threads of the pool
  Hosts,        \* other threads that submit, wake and block_on
  Stopper,      \* the thread that shuts the generation down
  Tasks, Jobs,  \* the asynchronous tasks and the blocking closures
  NoUnit,       \* no task or closure
  MaxBlocking,  \* max_blocking_tasks
  Budget,       \* RUNNABLE_BUDGET
  Quantum,      \* RUNNABLE_FAIRNESS_QUANTUM
  Linger,       \* drain_linger is set
  Menu,         \* the calls a task, a closure and a host may make
  Calls,        \* how many of them: in one activation, of a host in all, and
                \* of a host in all of a generation that is stopped
  Stops         \* the generation may be stopped

ASSUME SchedulerAssumption ==
  /\ IsFiniteSet(Workers) /\ Workers # {}
  /\ Workers \cap Hosts = {} /\ Stopper \notin Workers \cup Hosts
  /\ Tasks \cap Jobs = {} /\ NoUnit \notin Tasks \cup Jobs /\ Hosts \cap (Tasks \cup Jobs) = {}
  /\ MaxBlocking \in Nat \ {0} /\ Budget \in Nat \ {0} /\ Quantum \in Nat \ {0}
  /\ {Linger, Stops} \subseteq BOOLEAN
  /\ Menu \in [{"task", "job", "host"} -> SUBSET {"spawn", "wake", "spawn_blocking", "block_on",
                                                "block_on_foreign", "wait"}]
  /\ Calls \in [{"task", "job", "host", "stop"} -> Nat]

VARIABLES
  stack,           \* the frames of each thread, innermost last
  status,          \* of a unit: new, queued, running, again (woken while running), idle, done
  parent,          \* the unit or thread that submitted a unit
  injector, blockingQueue, slot,
  drains,          \* drain jobs the pool has not started
  activeDrainers, activeBlocking,
  parked,          \* the registry of parked drivers
  permit,          \* the parkers that hold a permit
  stopping, closed, queueClosed,
  stopParkers,     \* GenerationStop::parkers
  aborting,        \* abort handles close_and_abort took and has not used yet
  idleAsleep       \* the stopper sleeps on scheduler_idle

units   == <<status, parent>>
queues  == <<injector, blockingQueue, slot>>
counts  == <<drains, activeDrainers, activeBlocking>>
parkers == <<parked, permit>>
stops   == <<stopping, closed, queueClosed, stopParkers, aborting, idleAsleep>>
vars    == <<stack, units, queues, counts, parkers, stops>>

Threads == Workers \cup Hosts \cup {Stopper}
Units   == Tasks \cup Jobs

(***************************************************************************)
(* Frames.  `u` is the unit a frame runs, awaits or pushes, `p` the parker *)
(* an unpark is on its way to.                                             *)
(***************************************************************************)
NoParker == <<NoUnit, 0>>
Frame(kind, pc, u) ==
  [kind |-> kind, pc |-> pc, u |-> u, p |-> NoParker, streak |-> 0, work |-> 0, force |-> FALSE]
UserKinds   == {"task", "job", "host"}
DriverKinds == {"drain", "coop"}

Top(t)    == Last(stack[t])
Busy(t)   == stack[t] # <<>>
At(t, pc) == Busy(t) /\ Top(t).pc = pc
Driving(t, pc) == At(t, pc) /\ Top(t).kind \in DriverKinds
IsDrain(t) == Top(t).kind = "drain"

Ended(u) == u \in Units /\ status[u] = "done"

\* The parker of the innermost frame of a thread.
Me(t) == <<t, Len(stack[t])>>

WithTop(t, frame) == Append(Front(stack[t]), frame)
Put(t, frames) == stack' = [stack EXCEPT ![t] = frames]
Go(t, pc) == Put(t, WithTop(t, [Top(t) EXCEPT !.pc = pc]))
Restarted(frame) ==
  [frame EXCEPT !.streak = 0, !.work = 0, !.pc = IF frame.kind = "drain" THEN "fair" ELSE "top"]

\* A frame that ends takes its parker along: an unpark still on its way to it
\* finds nobody.
WithoutTop(t) ==
  [x \in Threads |->
     IF x = t THEN Front(stack[t])
     ELSE [i \in 1..Len(stack[x]) |->
             IF stack[x][i].p = Me(t) THEN [stack[x][i] EXCEPT !.p = NoParker] ELSE stack[x][i]]]

Init ==
  /\ stack = [t \in Threads |->
        CASE t \in Workers -> <<>>
          [] t \in Hosts -> <<Frame("host", "user", NoUnit)>>
          [] OTHER -> <<Frame("stop", "publish", NoUnit)>>]
  /\ status = [u \in Units |-> "new"] /\ parent = [u \in Units |-> NoUnit]
  /\ injector = <<>> /\ blockingQueue = <<>> /\ slot = [w \in Workers |-> NoUnit]
  /\ drains = 0 /\ activeDrainers = 0 /\ activeBlocking = 0
  /\ parked = {} /\ permit = {}
  /\ stopping = FALSE /\ closed = FALSE /\ queueClosed = FALSE
  /\ stopParkers = {} /\ aborting = {} /\ idleAsleep = FALSE

(***************************************************************************)
(* Waking.  push_to_queue_and_wake pushes, then wakes one parked driver or *)
(* spawns a drainer.                                                       *)
(***************************************************************************)
PushFrame(u) == Frame("wake", "push", u)
WakeFrame    == Frame("wake", "wake", NoUnit)

PushInjector(t) ==
  /\ At(t, "push")
  /\ injector' = Append(injector, Top(t).u)
  /\ Go(t, "wake")
  /\ UNCHANGED <<units, blockingQueue, slot, counts, parkers, stops>>

EnsureDrainer ==
  IF activeDrainers >= Cardinality(Workers) THEN UNCHANGED <<drains, activeDrainers>>
  ELSE drains' = drains + 1 /\ activeDrainers' = activeDrainers + 1

\* wake_one pops a parked driver; with nobody parked, ensure_drainer.
WakeOne(t) ==
  /\ At(t, "wake")
  /\ \/ \E p \in parked :
          /\ parked' = parked \ {p}
          /\ Put(t, WithTop(t, [Top(t) EXCEPT !.p = p, !.pc = "unpark"]))
          /\ UNCHANGED <<drains, activeDrainers>>
     \/ /\ parked = {} /\ EnsureDrainer
        /\ Put(t, Front(stack[t])) /\ UNCHANGED parked
  /\ UNCHANGED <<units, queues, activeBlocking, permit, stops>>

Unpark(t) ==
  /\ At(t, "unpark") /\ Top(t).kind = "wake"
  /\ permit' = IF Top(t).p = NoParker THEN permit ELSE permit \cup {Top(t).p}
  /\ Put(t, Front(stack[t]))
  /\ UNCHANGED <<units, queues, counts, parked, stops>>

\* schedule: on a pool thread that does not run straight-line code of a blocking
\* closure the runnable takes the slot and displaces what was there.  `frames`
\* is the stack the call finds, `owner` whether BLOCKING_OWNER is set.
ScheduleTo(t, u, frames, slotted) ==
  IF slotted /\ slot[t] = NoUnit
  THEN slot' = [slot EXCEPT ![t] = u] /\ Put(t, frames)
  ELSE IF slotted
  THEN slot' = [slot EXCEPT ![t] = u] /\ Put(t, Append(frames, PushFrame(slot[t])))
  ELSE UNCHANGED slot /\ Put(t, Append(frames, PushFrame(u)))
\* Mutant: the slot is used wherever the thread drives the scheduler.
ScheduleAnywhere(t, u, frames, owner) == ScheduleTo(t, u, frames, t \in Workers)
Schedule(t, u, frames, owner) == ScheduleTo(t, u, frames, t \in Workers /\ ~owner)

(***************************************************************************)
(* Driving: drain and cooperative block_on share run_one_fair.             *)
(***************************************************************************)

\* A drain job starts on a free thread of the pool.
StartDrain(w) ==
  /\ stack[w] = <<>> /\ drains > 0
  /\ drains' = drains - 1
  /\ Put(w, <<Frame("drain", "fair", NoUnit)>>)
  /\ UNCHANGED <<units, queues, activeDrainers, activeBlocking, parkers, stops>>

\* One unit was served: the budget of the frame shrinks.
\* Mutant: the budget of a frame never runs out.
ServedForever(frame) == [frame EXCEPT !.pc = IF frame.kind = "drain" THEN "fair" ELSE "top"]
Served(frame) ==
  [frame EXCEPT !.work = @ + 1,
     !.pc = IF frame.work + 1 < Budget THEN (IF frame.kind = "drain" THEN "fair" ELSE "top")
            ELSE IF frame.kind = "drain" THEN "exit" ELSE "yield"]
ServedRunnable(frame) == Served([frame EXCEPT !.streak = @ + 1])

\* The awaiting block_on frames of a unit that ends; its waker is their parker.
Awaiting(u) ==
  UNION {{<<t, i>> : i \in {n \in DOMAIN stack[t] : /\ stack[t][n].kind \in {"coop", "block"}
                                                  /\ stack[t][n].u = u}} : t \in Threads}
\* Mutant: the end of a unit wakes no block_on frame.
EndsQuietly(u) == status' = [status EXCEPT ![u] = "done"] /\ UNCHANGED permit
Ends(u) ==
  /\ status' = [status EXCEPT ![u] = "done"]
  /\ permit' = permit \cup Awaiting(u)

\* take_blocking: a lane and the head of the queue, under the lock of the queue.
BlockingReady == activeBlocking < MaxBlocking /\ blockingQueue # <<>>
CanTakeBlocking == BlockingReady /\ ~queueClosed /\ ~stopping
TakeBlocking(t, frame) ==
  /\ CanTakeBlocking
  /\ activeBlocking' = activeBlocking + 1
  /\ blockingQueue' = Tail(blockingQueue)
  /\ status' = [status EXCEPT ![Head(blockingQueue)] = "running"]
  /\ Put(t, Append(WithTop(t, frame), Frame("job", "user", Head(blockingQueue))))
  /\ UNCHANGED <<parent, injector, slot, drains, activeDrainers, parkers, stops>>

\* After a full streak of runnables the blocking queue goes first.
\* Mutant: runnables always go first.
FairClaim(t) ==
  /\ Driving(t, "fair") /\ Top(t).streak >= Quantum
  /\ Put(t, WithTop(t, [Top(t) EXCEPT !.streak = 0, !.pc = "claim"]))
  /\ UNCHANGED <<units, queues, counts, parkers, stops>>
FairBlocking(t) ==
  /\ Driving(t, "fair") /\ Top(t).streak >= Quantum
  /\ LET frame == [Top(t) EXCEPT !.streak = 0] IN
     \/ TakeBlocking(t, [frame EXCEPT !.pc = "release"])
     \/ /\ ~CanTakeBlocking /\ Put(t, WithTop(t, [frame EXCEPT !.pc = "claim"]))
        /\ UNCHANGED <<units, queues, counts, parkers, stops>>

\* Runs a claimed runnable, or drops it once the generation stops.
RunClaimed(t, u, frame) ==
  \/ /\ stopping /\ Ends(u) /\ Put(t, WithTop(t, frame))
  \/ /\ ~stopping /\ status' = [status EXCEPT ![u] = "running"]
     /\ Put(t, Append(WithTop(t, frame), Frame("task", "user", u)))
     /\ UNCHANGED permit

Claim(t) ==
  /\ \/ Driving(t, "claim")
     \/ Driving(t, "fair") /\ Top(t).streak < Quantum
  /\ \/ /\ slot[t] # NoUnit /\ slot' = [slot EXCEPT ![t] = NoUnit]
        /\ RunClaimed(t, slot[t], ServedRunnable(Top(t))) /\ UNCHANGED injector
     \/ /\ slot[t] = NoUnit /\ injector # <<>> /\ injector' = Tail(injector)
        /\ RunClaimed(t, Head(injector), ServedRunnable(Top(t))) /\ UNCHANGED slot
     \/ /\ slot[t] = NoUnit /\ injector = <<>> /\ Go(t, "block")
        /\ UNCHANGED <<status, permit, injector, slot>>
  /\ UNCHANGED <<parent, blockingQueue, counts, parked, stops>>

\* After a yield the shared FIFO goes first, without the slot.
ForceFifo(t) ==
  /\ Driving(t, "force")
  /\ LET frame == [Top(t) EXCEPT !.force = FALSE] IN
     \/ /\ injector # <<>> /\ injector' = Tail(injector)
        /\ RunClaimed(t, Head(injector),
                      [frame EXCEPT !.streak = @ + 1, !.work = @ + 1, !.pc = "top"])
     \/ /\ injector = <<>> /\ Put(t, WithTop(t, [frame EXCEPT !.pc = "fair"]))
        /\ UNCHANGED <<status, permit, injector>>
  /\ UNCHANGED <<parent, blockingQueue, slot, counts, parked, stops>>

\* flush_lifo_slot hands the slot to the shared FIFO.
Flush(t, frame) ==
  IF slot[t] = NoUnit THEN Put(t, WithTop(t, frame)) /\ UNCHANGED slot
  ELSE /\ slot' = [slot EXCEPT ![t] = NoUnit]
       /\ Put(t, Append(WithTop(t, frame), PushFrame(slot[t])))

\* run_one_blocking of the iteration; with nothing to run the frame flushes its
\* slot and goes idle.
Block(t) ==
  /\ Driving(t, "block")
  /\ \/ TakeBlocking(t, [Top(t) EXCEPT !.streak = 0, !.pc = "release"])
     \/ /\ ~CanTakeBlocking
        /\ Flush(t, [Top(t) EXCEPT !.pc = IF IsDrain(t) THEN "idle" ELSE "register",
                                   !.streak = 0, !.work = 0])
        /\ UNCHANGED <<units, injector, blockingQueue, counts, parkers, stops>>

\* The lane of a closure that returned.
Release(t) ==
  /\ Driving(t, "release") \/ Driving(t, "xrelease")
  /\ activeBlocking' = activeBlocking - 1
  /\ Put(t, WithTop(t, IF At(t, "release") THEN Served(Top(t))
                       ELSE [Top(t) EXCEPT !.pc = "xresidue"]))
  /\ UNCHANGED <<units, queues, drains, activeDrainers, parkers, stops>>

\* A block_on frame whose budget is used up gives its slot away and takes the
\* next runnable from the shared FIFO.
Yield(t) ==
  /\ Driving(t, "yield")
  /\ Flush(t, [Top(t) EXCEPT !.pc = "top", !.work = 0, !.force = TRUE])
  /\ UNCHANGED <<units, injector, blockingQueue, counts, parkers, stops>>

(***************************************************************************)
(* Going idle: register, look again, park.  A drainer lingers only while   *)
(* its time lasts; a block_on frame parks without a bound.                 *)
(***************************************************************************)
LingerEnds(t) ==
  /\ Driving(t, "idle") /\ IsDrain(t)
  /\ Go(t, "exit")
  /\ UNCHANGED <<units, queues, counts, parkers, stops>>
GoIdle(t) ==
  /\ Driving(t, "idle") /\ (IsDrain(t) => Linger /\ ~stopping)
  /\ Go(t, "register")
  /\ UNCHANGED <<units, queues, counts, parkers, stops>>
\* The first linger of a frame also enters the parker with the generation's stop.
Register(t) ==
  /\ Driving(t, "register")
  /\ parked' = parked \cup {Me(t)}
  /\ IF IsDrain(t) /\ ~Top(t).force
     THEN /\ stopParkers' = stopParkers \cup {Me(t)}
          /\ permit' = IF stopping THEN permit \cup {Me(t)} ELSE permit
          /\ Put(t, WithTop(t, [Top(t) EXCEPT !.pc = "runnable?", !.force = TRUE]))
     ELSE Go(t, "runnable?") /\ UNCHANGED <<stopParkers, permit>>
  /\ UNCHANGED <<units, queues, counts, stopping, closed, queueClosed, aborting, idleAsleep>>

\* has_queued_work_for_role after the registration.
\* Mutant: the frame parks as soon as it is registered.
ParkAtOnce(t) ==
  /\ Driving(t, "runnable?") /\ Go(t, "park")
  /\ UNCHANGED <<units, queues, counts, parkers, stops>>
Recheck(t) ==
  /\ \/ Driving(t, "runnable?") /\ Go(t, IF injector # <<>> THEN "undo" ELSE "blocking?")
     \/ /\ Driving(t, "blocking?")
        /\ Go(t, IF BlockingReady THEN "undo" ELSE IF ~stopping THEN "park"
                 ELSE IF IsDrain(t) THEN "quit" ELSE "leave")
  /\ UNCHANGED <<units, queues, counts, parkers, stops>>

Park(t) ==
  /\ Driving(t, "park") /\ Me(t) \in permit
  /\ permit' = permit \ {Me(t)} /\ Go(t, "undo")
  /\ UNCHANGED <<units, queues, counts, parked, stops>>
LingerExpires(t) ==
  /\ Driving(t, "park") /\ IsDrain(t) /\ Me(t) \notin permit
  /\ Go(t, "expired")
  /\ UNCHANGED <<units, queues, counts, parkers, stops>>

\* Every way out of the registration deregisters.
\* Mutant: a driver that was woken counts on the waker to have removed it.
KeepRegistered(t) ==
  /\ \/ /\ Driving(t, "undo") /\ Put(t, WithTop(t, Restarted(Top(t)))) /\ UNCHANGED <<slot, parked>>
     \/ /\ Driving(t, "leave") /\ Flush(t, [Top(t) EXCEPT !.pc = "xrunnable"])
        /\ parked' = parked \ {Me(t)}
  /\ UNCHANGED <<units, injector, blockingQueue, counts, permit, stops>>
Deregister(t) ==
  /\ \/ Driving(t, "undo") /\ Put(t, WithTop(t, Restarted(Top(t)))) /\ UNCHANGED slot
     \/ Driving(t, "quit") /\ Go(t, "exit") /\ UNCHANGED slot
     \/ Driving(t, "expired") /\ Go(t, "permit?") /\ UNCHANGED slot
     \/ Driving(t, "leave") /\ Flush(t, [Top(t) EXCEPT !.pc = "xrunnable"])
  /\ parked' = parked \ {Me(t)}
  /\ UNCHANGED <<units, injector, blockingQueue, counts, permit, stops>>

\* A linger that timed out looks for a wake it was handed before it left.
AfterExpiry(t) ==
  /\ Driving(t, "permit?")
  /\ permit' = permit \ {Me(t)}
  /\ IF Me(t) \in permit \/ injector # <<>> \/ BlockingReady
     THEN Put(t, WithTop(t, Restarted(Top(t)))) ELSE Go(t, "exit")
  /\ UNCHANGED <<units, queues, counts, parked, stops>>

(***************************************************************************)
(* finish_draining: retire, look again, hand the idle waiter its wake.     *)
(***************************************************************************)
FlushBeforeExit(t) ==
  /\ Driving(t, "exit") /\ slot[t] # NoUnit /\ Flush(t, Top(t))
  /\ UNCHANGED <<units, injector, blockingQueue, counts, parkers, stops>>
\* Mutant: the drainer retires with its slot as it is.
RetireOccupied(t) ==
  /\ Driving(t, "exit")
  /\ activeDrainers' = activeDrainers - 1 /\ Go(t, "residue?")
  /\ UNCHANGED <<units, queues, drains, activeBlocking, parkers, stops>>
Retire(t) ==
  /\ Driving(t, "exit") /\ slot[t] = NoUnit
  /\ activeDrainers' = activeDrainers - 1 /\ Go(t, "residue?")
  /\ UNCHANGED <<units, queues, drains, activeBlocking, parkers, stops>>
\* Mutant: nothing is looked at after the decrement.
SkipResidue(t) ==
  /\ Driving(t, "residue?") /\ Go(t, "notify")
  /\ UNCHANGED <<units, queues, counts, parkers, stops>>
Residue(t) ==
  /\ \/ Driving(t, "residue?") /\ Go(t, IF injector # <<>> THEN "ensure" ELSE "jobs?")
     \/ Driving(t, "jobs?") /\ Go(t, IF BlockingReady THEN "ensure" ELSE "notify")
  /\ UNCHANGED <<units, queues, counts, parkers, stops>>
Rearm(t) ==
  /\ Driving(t, "ensure") /\ EnsureDrainer /\ Go(t, "notify")
  /\ UNCHANGED <<units, queues, activeBlocking, parkers, stops>>
NotifyIdle(t) ==
  /\ Driving(t, "notify") /\ stack' = WithoutTop(t)
  /\ idleAsleep' = FALSE
  /\ stopParkers' = stopParkers \ {Me(t)} /\ permit' = permit \ {Me(t)}
  /\ UNCHANGED <<units, queues, counts, parked, stopping, closed, queueClosed, aborting>>

(***************************************************************************)
(* block_on.  A pool thread drives while it waits (cooperative_block_on);  *)
(* any other thread parks (parking_block_on).                              *)
(***************************************************************************)
EnterBlockOn(t, u, frames) ==
  LET frame == Frame(IF t \in Workers THEN "coop" ELSE "block", "top", u)
      me == <<t, Len(frames) + 1>>
  IN /\ Put(t, Append(frames, frame))
     /\ stopParkers' = stopParkers \cup {me}
     /\ permit' = IF stopping THEN permit \cup {me} ELSE permit

\* One turn of the loop: the stop is looked for before and after the poll.
Poll(t) ==
  /\ Busy(t) /\ Top(t).kind \in {"coop", "block"} /\ Top(t).pc = "top"
  /\ IF stopping \/ Ended(Top(t).u)
     THEN Go(t, IF Top(t).kind = "coop" THEN "leave" ELSE "out")
     ELSE Go(t, IF Top(t).kind = "block" THEN "sleep" ELSE IF Top(t).force THEN "force" ELSE "fair")
  /\ UNCHANGED <<units, queues, counts, parkers, stops>>
HostPark(t) ==
  /\ At(t, "sleep") /\ Top(t).kind = "block" /\ Me(t) \in permit
  /\ permit' = permit \ {Me(t)} /\ Go(t, "top")
  /\ UNCHANGED <<units, queues, counts, parked, stops>>

\* The exit guard passes on what the frame may have absorbed: it wakes for a
\* runnable, and serves one closure itself before it wakes for the others.
\* Mutant: nothing is passed on.
CompensateNothing(t) ==
  /\ Driving(t, "xrunnable") /\ Go(t, "out")
  /\ UNCHANGED <<units, queues, counts, parkers, stops>>
Compensate(t) ==
  LET continue(pc) == WithTop(t, [Top(t) EXCEPT !.pc = pc])
      wakeThen(pc) == Append(continue(pc), WakeFrame)
      quiet == UNCHANGED <<units, queues, counts, parkers, stops>>
  IN \/ /\ Driving(t, "xrunnable") /\ quiet
        /\ Put(t, IF injector # <<>> THEN wakeThen("xblocking") ELSE continue("xblocking"))
     \/ /\ Driving(t, "xblocking") /\ quiet
        /\ Put(t, continue(IF BlockingReady /\ ~stopping THEN "xtake" ELSE "out"))
     \/ Driving(t, "xtake") /\ TakeBlocking(t, [Top(t) EXCEPT !.pc = "xrelease"])
     \/ /\ Driving(t, "xtake") /\ ~CanTakeBlocking /\ quiet
        /\ Put(t, IF stopping THEN continue("out") ELSE wakeThen("out"))
     \/ /\ Driving(t, "xresidue") /\ quiet
        /\ Put(t, IF BlockingReady /\ ~stopping THEN wakeThen("out") ELSE continue("out"))

LeaveBlockOn(t) ==
  /\ At(t, "out") /\ Top(t).kind \in {"coop", "block"}
  /\ stack' = WithoutTop(t)
  /\ stopParkers' = stopParkers \ {Me(t)} /\ permit' = permit \ {Me(t)}
  /\ UNCHANGED <<units, queues, counts, parked, stopping, closed, queueClosed, aborting, idleAsleep>>

(***************************************************************************)
(* User code: the innermost frame of a thread is a task, a closure or a    *)
(* host.  GenerationWork admits nothing once it is closed.                 *)
(***************************************************************************)
User(t) == At(t, "user") /\ Top(t).kind \in UserKinds
Name(t) == IF Top(t).kind = "host" THEN t ELSE Top(t).u
Owner(t) == Top(t).kind = "job"
Limit(kind) == Calls[IF kind = "host" /\ stopping THEN "stop" ELSE kind]
May(t, call) ==
  User(t) /\ Top(t).work < Limit(Top(t).kind) /\ call \in Menu[Top(t).kind]
\* One more call of this activation.
Called(t) == WithTop(t, [Top(t) EXCEPT !.work = @ + 1])

SpawnTask(t, u) ==
  /\ May(t, "spawn") /\ status[u] = "new" /\ ~closed
  /\ status' = [status EXCEPT ![u] = "queued"] /\ parent' = [parent EXCEPT ![u] = Name(t)]
  /\ Schedule(t, u, Called(t), Owner(t))
  /\ UNCHANGED <<injector, blockingQueue, counts, parkers, stops>>
WakeTask(t, u) ==
  /\ May(t, "wake") /\ status[u] \in {"idle", "running"}
  /\ status' = [status EXCEPT ![u] = IF @ = "idle" THEN "queued" ELSE "again"]
  /\ IF status[u] = "idle" THEN Schedule(t, u, Called(t), Owner(t))
     ELSE Put(t, Called(t)) /\ UNCHANGED slot
  /\ UNCHANGED <<parent, injector, blockingQueue, counts, parkers, stops>>
\* A closure is registered first and queued, or rejected, afterwards.
SpawnBlocking(t, u) ==
  /\ May(t, "spawn_blocking") /\ status[u] = "new" /\ ~closed
  /\ status' = [status EXCEPT ![u] = "queued"] /\ parent' = [parent EXCEPT ![u] = Name(t)]
  /\ Put(t, Append(Called(t), Frame("wake", "enqueue", u)))
  /\ UNCHANGED <<queues, counts, parkers, stops>>
Enqueue(t) ==
  /\ At(t, "enqueue")
  /\ \/ /\ ~queueClosed /\ blockingQueue' = Append(blockingQueue, Top(t).u)
        /\ Go(t, "wake") /\ UNCHANGED <<status, permit>>
     \/ /\ queueClosed /\ Ends(Top(t).u)
        /\ Put(t, Front(stack[t])) /\ UNCHANGED blockingQueue
  /\ UNCHANGED <<parent, injector, slot, counts, parked, stops>>
\* NoUnit stands for a future of the caller's own that does not become ready.
BlockOn(t, u) ==
  /\ ~closed
  /\ \/ May(t, "block_on") /\ u \in Units /\ parent[u] = Name(t)
     \/ May(t, "block_on_foreign") /\ u = NoUnit
  /\ EnterBlockOn(t, u, Called(t))
  /\ UNCHANGED <<units, queues, counts, parked, stopping, closed, queueClosed, aborting, idleAsleep>>

\* A closure may wait, without driving anything, for any unit there is.
SyncWait(t, u) ==
  /\ May(t, "wait") /\ Owner(t) /\ status[u] # "new"
  /\ Put(t, Append(Called(t), Frame("wait", "waiting", u)))
  /\ UNCHANGED <<units, queues, counts, parkers, stops>>
SyncDone(t) ==
  /\ At(t, "waiting") /\ Ended(Top(t).u)
  /\ Put(t, Front(stack[t]))
  /\ UNCHANGED <<units, queues, counts, parkers, stops>>

\* A poll answers Ready, or Pending and is queued again when it was woken.  An
\* aborted task ends.
TaskReady(t) ==
  /\ User(t) /\ Top(t).kind = "task"
  /\ Ends(Top(t).u) /\ Put(t, Front(stack[t]))
  /\ UNCHANGED <<parent, queues, counts, parked, stops>>
TaskPending(t) ==
  /\ User(t) /\ Top(t).kind = "task"
  /\ closed => Top(t).u \in aborting
  /\ LET u == Top(t).u IN
     \/ /\ status[u] = "again" /\ status' = [status EXCEPT ![u] = "queued"]
        /\ Schedule(t, u, Front(stack[t]), FALSE)
     \/ /\ status[u] = "running" /\ status' = [status EXCEPT ![u] = "idle"]
        /\ Put(t, Front(stack[t])) /\ UNCHANGED slot
  /\ UNCHANGED <<parent, injector, blockingQueue, counts, parkers, stops>>
JobReturns(t) ==
  /\ User(t) /\ Top(t).kind = "job"
  /\ Ends(Top(t).u) /\ Put(t, Front(stack[t]))
  /\ UNCHANGED <<parent, queues, counts, parked, stops>>

(***************************************************************************)
(* The stop of the generation.                                             *)
(***************************************************************************)
Stopping(pc) == At(Stopper, pc) /\ Top(Stopper).kind = "stop"

\* The controller publishes `stopping`; close_and_abort ends admission and takes
\* the abort handles.  Calls["stop"] bounds what hosts do before and after.
PublishStop ==
  /\ Stops /\ \A h \in Hosts : stack[h][1].work <= Calls["stop"]
  /\ Stopping("publish") /\ stopping' = TRUE /\ Go(Stopper, "close")
  /\ UNCHANGED <<units, queues, counts, parkers, closed, queueClosed, stopParkers, aborting, idleAsleep>>
CloseWork ==
  /\ Stopping("close") /\ closed' = TRUE
  /\ aborting' = {u \in Tasks : status[u] \notin {"new", "done"}}
  /\ Go(Stopper, "abort")
  /\ UNCHANGED <<units, queues, counts, parkers, stopping, queueClosed, stopParkers, idleAsleep>>
\* AbortHandle::abort wakes the task: it is queued unless it is already, or runs.
AbortTask(u) ==
  /\ Stopping("abort") /\ u \in aborting /\ aborting' = aborting \ {u}
  /\ \/ /\ status[u] = "idle" /\ status' = [status EXCEPT ![u] = "queued"]
        /\ Put(Stopper, Append(stack[Stopper], PushFrame(u)))
     \/ /\ status[u] = "running" /\ status' = [status EXCEPT ![u] = "again"] /\ UNCHANGED stack
     \/ status[u] \in {"queued", "again", "done"} /\ UNCHANGED <<status, stack>>
  /\ UNCHANGED <<parent, queues, counts, parkers, stopping, closed, queueClosed, stopParkers, idleAsleep>>
\* GenerationStop::begin_shutdown takes the registered parkers and unparks them.
\* Mutant: the parkers are dropped without a wake.
ForgetParkers ==
  /\ Stopping("abort") /\ aborting = {}
  /\ stopParkers' = {} /\ Go(Stopper, "unpark") /\ UNCHANGED permit
  /\ UNCHANGED <<units, queues, counts, parked, stopping, closed, queueClosed, aborting, idleAsleep>>
UnparkAll ==
  /\ Stopping("abort") /\ aborting = {}
  /\ permit' = permit \cup stopParkers
  /\ stopParkers' = {} /\ Go(Stopper, "unpark")
  /\ UNCHANGED <<units, queues, counts, parked, stopping, closed, queueClosed, aborting, idleAsleep>>
CloseQueue ==
  /\ Stopping("unpark") /\ queueClosed' = TRUE
  /\ LET dropped == Range(blockingQueue) IN
     /\ status' = [u \in Units |-> IF u \in dropped THEN "done" ELSE status[u]]
     /\ permit' = permit \cup UNION {Awaiting(u) : u \in dropped}
  /\ blockingQueue' = <<>> /\ Go(Stopper, "work")
  /\ UNCHANGED <<parent, injector, slot, counts, parked, stopping, closed, stopParkers, aborting, idleAsleep>>

\* Registered work: tasks, closures and block_on calls.
NoWork ==
  /\ \A u \in Units : status[u] \in {"new", "done"}
  /\ \A t \in Threads : \A i \in 1..Len(stack[t]) : stack[t][i].kind \notin {"coop", "block"}
WorkIdle ==
  /\ Stopping("work") /\ NoWork /\ Go(Stopper, "drainers")
  /\ UNCHANGED <<units, queues, counts, parkers, stops>>
\* wait_until_scheduler_idle.
\* Mutant: the drainers are not waited for.
IdleAtOnce ==
  /\ Stopping("drainers") /\ Go(Stopper, "stopped")
  /\ UNCHANGED <<units, queues, counts, parkers, stops>>
SchedulerIdle ==
  /\ Stopping("drainers") /\ ~idleAsleep
  /\ \/ activeDrainers = 0 /\ Go(Stopper, "stopped") /\ UNCHANGED idleAsleep
     \/ activeDrainers # 0 /\ idleAsleep' = TRUE /\ UNCHANGED stack
  /\ UNCHANGED <<units, queues, counts, parkers, stopping, closed, queueClosed, stopParkers, aborting>>

(***************************************************************************)
(* The system.                                                             *)
(***************************************************************************)
WakeStep(t) == PushInjector(t) \/ WakeOne(t) \/ Unpark(t) \/ Enqueue(t)
DriveStep(t) ==
  \/ FairBlocking(t) \/ Claim(t) \/ ForceFifo(t) \/ Block(t) \/ Release(t) \/ Yield(t)
  \/ GoIdle(t) \/ Register(t) \/ Recheck(t) \/ Park(t) \/ Deregister(t) \/ AfterExpiry(t)
  \/ FlushBeforeExit(t) \/ Retire(t) \/ Residue(t) \/ Rearm(t) \/ NotifyIdle(t) \/ Compensate(t)
  \/ LingerEnds(t) \/ LingerExpires(t)
BlockStep(t) == Poll(t) \/ HostPark(t) \/ LeaveBlockOn(t)
StopStep ==
  \/ PublishStop \/ CloseWork \/ UnparkAll \/ CloseQueue \/ WorkIdle \/ SchedulerIdle
  \/ \E u \in Tasks : AbortTask(u)
CodeStep(t) ==
  \/ WakeStep(t) \/ BlockStep(t) \/ SyncDone(t)
  \/ t \in Workers /\ (DriveStep(t) \/ StartDrain(t))

UserCall(t) ==
  \/ \E u \in Tasks : SpawnTask(t, u) \/ WakeTask(t, u)
  \/ \E u \in Jobs : SpawnBlocking(t, u)
  \/ \E u \in Units : SyncWait(t, u)
  \/ \E u \in Units \cup {NoUnit} : BlockOn(t, u)
UserReturn(t) == TaskReady(t) \/ TaskPending(t) \/ JobReturns(t)

Next ==
  \/ \E t \in Threads : CodeStep(t) \/ UserCall(t) \/ UserReturn(t)
  \/ StopStep

Spec == Init /\ [][Next]_vars

\* A thread in the runtime's code goes on, and user code returns.  Nothing makes
\* user code call, or a host stop the generation.
Fairness ==
  /\ \A t \in Threads : WF_vars(CodeStep(t)) /\ WF_vars(UserReturn(t))
  /\ WF_vars(StopStep /\ stopping)
FairSpec == Spec /\ Fairness

(***************************************************************************)
(* Properties.                                                             *)
(***************************************************************************)

\* Frames, counters and registries fit together: a lane for every closure on a
\* stack, a count for every drainer that has not retired, and a registered
\* parker only while its frame is on its way into or out of a park.
FramesOf(kinds) ==
  UNION {{<<t, i>> : i \in {n \in DOMAIN stack[t] : stack[t][n].kind \in kinds}} : t \in Threads}
FrameAt(p) == stack[p[1]][p[2]]
Retired == {"residue?", "jobs?", "ensure", "notify"}
Idling  == {"runnable?", "blocking?", "park", "undo", "quit", "expired", "leave"}
TypeOK ==
  /\ \A u \in Units : status[u] \in {"new", "queued", "running", "again", "idle", "done"}
  /\ Range(injector) \subseteq Tasks /\ Range(blockingQueue) \subseteq Jobs
  /\ slot \in [Workers -> Tasks \cup {NoUnit}]
  /\ activeBlocking <= MaxBlocking
  /\ activeBlocking = Cardinality(FramesOf({"job"})
       \cup {p \in FramesOf(DriverKinds) :
              FrameAt(p).pc \in {"release", "xrelease"} /\ p[2] = Len(stack[p[1]])})
  /\ activeDrainers = drains + Cardinality({p \in FramesOf({"drain"}) : FrameAt(p).pc \notin Retired})
  /\ activeDrainers <= Cardinality(Workers)
  /\ \A p \in parked : p \in FramesOf(DriverKinds) /\ FrameAt(p).pc \in Idling
  /\ permit \subseteq FramesOf({"drain", "coop", "block"})

\* A thread that will do nothing unless another thread acts.
AtRest(t) ==
  \/ ~Busy(t)
  \/ Top(t).kind = "host"
  \/ Top(t).kind = "wait" /\ ~Ended(Top(t).u)
  \/ Top(t).pc \in {"park", "sleep"} /\ Me(t) \notin permit
  \/ Top(t).kind = "stop" /\ Top(t).pc \in {"publish", "stopped"}
Available(w) == ~Busy(w) \/ Top(w).pc = "park"
AllAtRest == (\A t \in Threads : AtRest(t)) /\ (drains = 0 \/ \A w \in Workers : Busy(w))

\* No wake is lost: when every thread rests and one of the pool is free or
\* parked, nothing that could run is queued, whichever of push, pop, unpark,
\* register, recheck, park, retire and compensation raced, and even while the
\* other threads of the pool are stuck in closures that wait.
NoLostWork ==
  AllAtRest /\ (\E w \in Workers : Available(w)) => injector = <<>> /\ ~CanTakeBlocking

\* A slot is invisible to the other threads, so the thread that owns it neither
\* parks, nor retires, nor returns from a block_on with a task in it.
Committed == {"runnable?", "blocking?", "park", "expired", "permit?"}
Leaving   == {"xrunnable", "xblocking", "xtake", "xrelease", "xresidue", "out"}
SlotIsServed ==
  \A w \in Workers : slot[w] # NoUnit =>
    Busy(w) /\ ~(Top(w).kind \in DriverKinds /\ Top(w).pc \in Committed \cup Retired \cup Leaving)

\* A closure that waits for a task it submitted itself finds it in a queue, never
\* in the slot of its own thread, where only the thread that waits could serve it:
\* `schedule` bypasses the slot while a closure owns the thread, and no driver
\* nested in the closure leaves a task of the closure's behind in it.
Waiter(t) == stack[t][Len(stack[t]) - 1].u
NoWaitOnSlottedChild ==
  \A w \in Workers :
    At(w, "waiting") /\ parent[Top(w).u] = Waiter(w) => slot[w] # Top(w).u

\* Once the stop is over nothing of the executor is left to run.
StoppedIsIdle ==
  Stopping("stopped") =>
    /\ \A w \in Workers : ~\E i \in DOMAIN stack[w] : stack[w][i].kind \in UserKinds
    /\ injector = <<>> /\ blockingQueue = <<>> /\ activeBlocking = 0
    /\ \A w \in Workers : slot[w] = NoUnit

\* Nothing starves: a queued runnable is run or cancelled, whatever chain of
\* tasks is hot, and a closure does not stay queued while a lane is free.
QueuedWorkRuns ==
  /\ \A u \in Tasks : status[u] = "queued" ~> status[u] # "queued"
  /\ \A u \in Jobs : ~<>[](status[u] = "queued" /\ activeBlocking < MaxBlocking)

\* No block_on stays parked over a unit that ended.
BlockOnReturns ==
  \A t \in Threads :
    ~<>[](Busy(t) /\ Top(t).kind \in {"coop", "block"} /\ Ended(Top(t).u))

\* A stop gets through: it cancels what is queued, frees every block_on and
\* waits the drainers out.
StopCompletes == stopping ~> Stopping("stopped")

=============================================================================
