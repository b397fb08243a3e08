--------------------------- MODULE CurrentThread ---------------------------
(***************************************************************************)
(* The CurrentThread executor of async_runtime.rs with the registry of its *)
(* host drivers and the native hosts of adapter.rs.                        *)
(*                                                                         *)
(* A wake only queues its runnable and asks a host for a fresh JavaScript  *)
(* turn; the turn, or a thread inside block_on, polls the queue.  Requests *)
(* coalesce on dispatch_pending, one dispatch is offered to every host and *)
(* serviced by the first, a host may fail or leave at any time, and work   *)
(* whose dispatch failed twice is cancelled, but never on the stack of a   *)
(* waker.  A shutdown closes the queue while wakes are in flight.          *)
(*                                                                         *)
(* Every actor has a stack of frames: the code calls the host driver from  *)
(* inside schedule, and a failed dispatch publishes its replacement from   *)
(* inside the publication that failed.                                     *)
(***************************************************************************)
EXTENDS HostDrivers, Sequences, SequencesExt, FiniteSetsExt

CONSTANTS Tasks,
          Threads,         \* threads that submit, wake and call block_on
          Stopper,         \* the thread that shuts the runtime down
          AwaitedBy,       \* AwaitedBy[t]: the tasks woken when t ends
          TurnBudget,      \* HOST_TURN_RUNNABLE_BUDGET
          Attempts,        \* REJECTED_WORK_RETIREMENT_ATTEMPTS
          Drivers,         \* the threads that may call block_on
          Leavers,         \* the hosts whose environment may be torn down
          Stops,           \* whether the runtime is shut down
          EarlyHosts,      \* the hosts registered before the first step
          EarlyTasks,      \* the tasks polled before it, which wait to be woken
          MaxWakes         \* bound: wakes by threads in one behaviour

ASSUME TasksAssumption == IsFiniteSet(Tasks) /\ AwaitedBy \in [Tasks -> SUBSET Tasks]
ASSUME BudgetAssumption == TurnBudget \in Nat \ {0} /\ Attempts \in Nat \ {0}
ASSUME ActorsAssumption ==
  /\ Threads \cap Hosts = {} /\ Stopper \notin Threads \cup Hosts
  /\ Drivers \subseteq Threads /\ Leavers \subseteq Hosts /\ Stops \in BOOLEAN
  /\ EarlyHosts \subseteq Hosts /\ EarlyTasks \subseteq Tasks /\ MaxWakes \in Nat

VARIABLES
  queue,         \* CurrentThreadQueue.runnables
  rejected,      \* CurrentThreadQueue.rejected
  closed,        \* CurrentThreadQueue.closed
  task,          \* life of each task
  wakes,         \* the wakes left (bound)
  pending,       \* dispatch_pending
  recovery,      \* recovery_dispatch
  cancelling,    \* cancelling_failed_dispatch
  draining,      \* draining: a host turn owns the queue
  publication,   \* dispatch_publications: none, armed, again (republish_requested)
  reg,           \* the driver registry
  host,          \* each environment: absent, live, closing, gone
  mail,          \* the callback its threadsafe function has queued
  lifecycle,     \* running, stopping (phase one began), stopped
  stopping,      \* GenerationStop
  stack          \* what every actor is inside of

queueVars == <<queue, rejected, closed>>
dispatchVars == <<pending, recovery, cancelling, draining, publication>>
hostVars == <<host, mail>>
stopVars == <<lifecycle, stopping>>
taskVars == <<task, wakes>>
vars == <<queueVars, taskVars, dispatchVars, reg, hostVars, stopVars, stack>>

Actors == Threads \cup Hosts \cup {Stopper}

Init ==
  /\ queue = <<>> /\ rejected = {} /\ closed = FALSE
  /\ task = [t \in Tasks |-> IF t \in EarlyTasks THEN "waiting" ELSE "fresh"]
  /\ wakes = MaxWakes
  /\ pending = NoDispatch /\ recovery = NoDispatch
  /\ cancelling = FALSE /\ draining = FALSE
  /\ publication = [d \in Dispatches |-> "none"]
  /\ \E rank \in Bijection(EarlyHosts, 1 .. Cardinality(EarlyHosts)) :
       reg = [EmptyRegistry EXCEPT
                !.drivers = EarlyHosts,
                !.order = [h \in Hosts |-> IF h \in EarlyHosts THEN rank[h] ELSE 0]]
  /\ host = [h \in Hosts |-> IF h \in EarlyHosts THEN "live" ELSE "absent"]
  /\ mail = [h \in Hosts |-> NoDispatch]
  /\ lifecycle = "running" /\ stopping = FALSE
  /\ stack = [a \in Actors |-> <<>>]

-----------------------------------------------------------------------------
(* Stacks. *)

Frame(p) == [pc |-> p]
In(a, p) == stack[a] # <<>> /\ Last(stack[a]).pc = p
Top(a) == Last(stack[a])

(* The stack without its top frame and without the callers that only wait  *)
(* to return (or to drop the lease of a turn); res, the result of a        *)
(* request, is noted in the frame below.                                   *)
Unwound(s, res) ==
  LET n == Max({0} \cup {i \in DOMAIN s : i < Len(s) /\ s[i].pc \notin {"return", "lease"}})
  IN IF n > 0 /\ "res" \in DOMAIN s[n]
     THEN Append(SubSeq(s, 1, n - 1), [s[n] EXCEPT !.res = res])
     ELSE SubSeq(s, 1, n)

Become(a, f) == Front(stack[a]) \o <<f>>
Return(a) == stack' = [stack EXCEPT ![a] = Unwound(@, "done")]
ReturnWith(a, res) == stack' = [stack EXCEPT ![a] = Unwound(@, res)]
Goto(a, f) == stack' = [stack EXCEPT ![a] = Become(a, f)]
(* The top frame continues as f when the call g has returned. *)
Call(a, f, g) == stack' = [stack EXCEPT ![a] = Become(a, f) \o <<g>>]
At(a, p) == [Top(a) EXCEPT !.pc = p]

(* CurrentThreadScheduleScope: a frame of schedule entered from a waker. *)
OnWakerStack(a) == \E i \in DOMAIN stack[a] :
                     "waker" \in DOMAIN stack[a][i] /\ stack[a][i].waker

NoFailure == Failure(NoDispatch, 0)
SchedFrame(t, waker) == [pc |-> "push", task |-> t, waker |-> waker]
PublishFrame(d) == [pc |-> "enter", dispatch |-> d, live |-> {}, failures |-> {},
                    result |-> "none", failure |-> NoFailure]
DropFrame(ts) == [pc |-> "drop", tasks |-> ts]
CompleteFrame(fs, re) == [pc |-> "complete", failures |-> fs, redispatch |-> re]

(* The frames between the claim of a host turn and the drop of its lease,  *)
(* and the frames of a publication: active_host_turns and                  *)
(* active_dispatch_calls count them.                                       *)
TurnPcs == {"mark", "turn", "release", "again", "ack", "lease"}
PublishPcs == {"enter", "plan", "send", "accept", "reject", "finish",
               "settle", "settled", "uncancelPublish"}
ActiveTurns == {a \in Actors : \E i \in DOMAIN stack[a] : stack[a][i].pc \in TurnPcs}
ActiveCalls == {a \in Actors : \E i \in DOMAIN stack[a] : stack[a][i].pc \in PublishPcs}

HeldDispatches ==
  {pending, recovery}
  \cup {d \in Dispatches : publication[d] # "none" \/ Present(reg, d)}
  \cup UNION {{mail[h], reg.entry[h].delivery, reg.entry[h].pending} : h \in Hosts}
  \cup UNION {UNION {{stack[a][i].dispatch : i \in {j \in DOMAIN stack[a] :
                                           "dispatch" \in DOMAIN stack[a][j]}},
                     UNION {{f.dispatch : f \in stack[a][i].failures} :
                              i \in {j \in DOMAIN stack[a] :
                                           "failures" \in DOMAIN stack[a][j]}},
                     {stack[a][i].failure.dispatch : i \in {j \in DOMAIN stack[a] :
                                           "failure" \in DOMAIN stack[a][j]}}}
                : a \in Actors}

(* next_current_thread_dispatch_id: a name nothing still holds.  Bound: no *)
(* dispatch is named while all of Dispatches are in use; the code counts   *)
(* in a u64 and panics when it is exhausted.                               *)
UnusedDispatches == Dispatches \ HeldDispatches
NextDispatch == Min(UnusedDispatches)

Running == lifecycle = "running"
HasServiceableWork == ~ closed /\ queue # <<>>
NeedsRetirementDispatch == pending = NoDispatch /\ rejected # {}

-----------------------------------------------------------------------------
(* Tasks: spawn, wake, and the schedule both end in. *)

Submit(p, t) ==
  /\ Running /\ stack[p] = <<>> /\ task[t] = "fresh"
  /\ task' = [task EXCEPT ![t] = "scheduled"]
  /\ stack' = [stack EXCEPT ![p] = <<SchedFrame(t, FALSE)>>]
  /\ UNCHANGED <<queueVars, dispatchVars, reg, hostVars, stopVars, wakes>>

Wake(p, t) ==
  /\ stack[p] = <<>> /\ wakes > 0
  /\ wakes' = wakes - 1
  /\ \/ /\ task[t] = "waiting"
        /\ task' = [task EXCEPT ![t] = "scheduled"]
        /\ stack' = [stack EXCEPT ![p] = <<SchedFrame(t, TRUE)>>]
     \/ /\ task[t] = "running"
        /\ task' = [task EXCEPT ![t] = "woken"]
        /\ UNCHANGED stack
  /\ UNCHANGED <<queueVars, dispatchVars, reg, hostVars, stopVars>>

(* Mutant: a wake that finds the queue closed drops its runnable unseen.   *)
PushOrForget(a) ==
  /\ In(a, "push")
  /\ IF closed \/ cancelling THEN Return(a) /\ UNCHANGED queue
     ELSE queue' = Append(queue, Top(a).task) /\ Goto(a, At(a, "offer"))
  /\ UNCHANGED <<rejected, closed, taskVars, dispatchVars, reg, hostVars, stopVars>>

(* schedule_runnable under the queue lock. *)
Push(a) ==
  /\ In(a, "push")
  /\ IF closed \/ cancelling
     THEN /\ rejected' = rejected \cup {Top(a).task}
          /\ Return(a)
          /\ UNCHANGED queue
     ELSE /\ queue' = Append(queue, Top(a).task)
          /\ Goto(a, At(a, "offer"))
          /\ UNCHANGED rejected
  /\ UNCHANGED <<closed, taskVars, dispatchVars, reg, hostVars, stopVars>>

(* request_drain_with under the scheduler lock; the caller continues as f. *)
RequestDrain(a, f) ==
  IF stopping \/ cancelling \/ draining \/ pending # NoDispatch
  THEN /\ stack' = [stack EXCEPT ![a] = Unwound(Become(a, f) \o <<Frame("drain")>>,
                      IF stopping \/ cancelling THEN "unavailable" ELSE "coalesced")]
       /\ UNCHANGED <<pending, publication>>
  ELSE LET d == NextDispatch IN
       /\ UnusedDispatches # {}
       /\ pending' = d
       /\ publication' = [publication EXCEPT ![d] = "armed"]
       /\ Call(a, f, PublishFrame(d))

Offered(a) ==
  /\ In(a, "offer")
  /\ IF draining THEN Return(a) /\ UNCHANGED <<pending, publication>>
     ELSE RequestDrain(a, At(a, "return"))
  /\ UNCHANGED <<queueVars, taskVars, recovery, cancelling, draining,
                 reg, hostVars, stopVars>>

-----------------------------------------------------------------------------
(* publish_host_dispatch around dispatch_with_completion. *)

(* Frames of actor a for complete_current_thread_task_delivery; none if it *)
(* has nothing to do, which takes no step of its own.                      *)
Completing(a, fs, re) ==
  IF Running /\ (fs # {} \/ re \/ (rejected # {} /\ ~ OnWakerStack(a)))
  THEN <<CompleteFrame(fs, re)>> ELSE <<>>

(* The publication is over for the registry: the failures of other         *)
(* dispatches it met on the way are completed before it is settled.        *)
Answered(a, fs, result, failure) ==
  stack' = [stack EXCEPT ![a] =
    Become(a, [At(a, "settle") EXCEPT !.failures = {}, !.live = {},
                 !.result = result, !.failure = failure]) \o Completing(a, fs, FALSE)]

(* The barrier goes up, then live() probes the hosts and sweeps the dead.  *)
(* A swept host loses its registration, so its own cleanup has nothing     *)
(* left to unregister.                                                     *)
Enter(a) ==
  /\ In(a, "enter")
  /\ LET d == Top(a).dispatch
         dead == {h \in Hosts : host[h] # "live"}
         o == Sweep(BeginPublication(reg, d), dead)
     IN CASE Present(reg, d) /\ reg.dispatch[d].phase = "serviced" ->
               /\ Answered(a, {}, "accepted", NoFailure)
               /\ UNCHANGED reg
          [] Present(reg, d) /\ reg.dispatch[d].phase = "cancelling" ->
               /\ Answered(a, {}, "failed", Failure(d, reg.dispatch[d].epoch))
               /\ UNCHANGED reg
          [] OTHER ->
               /\ reg' = o.reg
               /\ Goto(a, [At(a, "plan") EXCEPT !.live = o.reg.drivers,
                                               !.failures = o.failures])
  /\ UNCHANGED <<queueVars, taskVars, dispatchVars, hostVars, stopVars>>

(* The publication goes on with the hosts that are still to be called.     *)
Calling(a, hs, fs) ==
  Goto(a, [At(a, IF hs = {} THEN "finish" ELSE "send") EXCEPT
             !.live = hs, !.failures = @ \cup fs])

PlanDeliveries(a) ==
  /\ In(a, "plan")
  /\ LET d == Top(a).dispatch IN
     IF ~ Present(reg, d)
     THEN Answered(a, Top(a).failures, "unavailable", NoFailure) /\ UNCHANGED reg
     ELSE IF reg.dispatch[d].phase # "pending"
     THEN Calling(a, {}, {}) /\ UNCHANGED reg
     ELSE LET p == Plan(reg, d, Top(a).live) IN
          reg' = p.reg /\ Calling(a, p.planned, {})
  /\ UNCHANGED <<queueVars, taskVars, dispatchVars, hostVars, stopVars>>

(* The planned hosts are called newest first.  Native-                     *)
(* CurrentThreadTaskHostInner::dispatch: one nonblocking call of the       *)
(* threadsafe function, refused once the environment closes.               *)
Send(a) ==
  /\ In(a, "send")
  /\ \E h \in Top(a).live :
     /\ Newest(reg, h, Top(a).live)
     /\ IF host[h] = "live"
        THEN mail' = [mail EXCEPT ![h] = Top(a).dispatch] /\ Goto(a, At(a, "accept"))
        ELSE Goto(a, At(a, "reject")) /\ UNCHANGED mail
  /\ UNCHANGED <<queueVars, taskVars, dispatchVars, reg, host, stopVars>>

Accept(a) ==
  /\ In(a, "accept")
  /\ \E h \in Top(a).live :
     /\ Newest(reg, h, Top(a).live)
     /\ reg' = AcceptDelivery(reg, h, Top(a).dispatch)
     /\ Calling(a, Top(a).live \ {h}, {})
  /\ UNCHANGED <<queueVars, taskVars, dispatchVars, hostVars, stopVars>>

Reject(a) ==
  /\ In(a, "reject")
  /\ \E h \in Top(a).live :
     LET o == RejectDelivery(reg, h, Top(a).dispatch) IN
     /\ Newest(reg, h, Top(a).live)
     /\ reg' = o.reg /\ Calling(a, Top(a).live \ {h}, o.failures)
  /\ UNCHANGED <<queueVars, taskVars, dispatchVars, hostVars, stopVars>>

Finish(a) ==
  /\ In(a, "finish")
  /\ LET o == FinishPublication(reg, Top(a).dispatch) IN
     reg' = o.reg /\ Answered(a, Top(a).failures, o.result, o.failure)
  /\ UNCHANGED <<queueVars, taskVars, dispatchVars, hostVars, stopVars>>

(* What a failed dispatch leads to, decided under the scheduler lock:      *)
(* nothing, its one replacement, or the cancellation of the queued work.   *)
(* d failed, p are the publications still registered, next goes on after.  *)
FailureAction(a, d, p, next) ==
  IF pending # d
  THEN /\ publication' = p /\ Goto(a, next)
       /\ UNCHANGED <<pending, recovery, cancelling>>
  ELSE IF recovery = d
  THEN /\ pending' = NoDispatch /\ recovery' = NoDispatch
       /\ publication' = p
       /\ cancelling' = TRUE
       /\ IF cancelling THEN Goto(a, next) ELSE Call(a, next, Frame("move"))
  ELSE IF stopping \/ cancelling \/ draining \/ ~ HasServiceableWork
  THEN /\ pending' = NoDispatch /\ publication' = p /\ Goto(a, next)
       /\ UNCHANGED <<recovery, cancelling>>
  ELSE LET r == NextDispatch IN
       /\ UnusedDispatches # {}
       /\ pending' = r /\ recovery' = r
       /\ publication' = [p EXCEPT ![r] = "armed"]
       /\ Call(a, next, PublishFrame(r))
       /\ UNCHANGED cancelling

Settle(a) ==
  /\ In(a, "settle")
  /\ LET d == Top(a).dispatch
         result == Top(a).result
         remains == pending = d
         done == [publication EXCEPT ![d] = "none"]
     IN IF remains /\ ~ stopping /\ ~ cancelling /\ publication[d] = "again"
        THEN /\ reg' = IF result = "failed"
                       THEN RearmFailedPublication(reg, Top(a).failure) ELSE reg
             /\ publication' = [publication EXCEPT ![d] = "armed"]
             /\ Goto(a, PublishFrame(d))
             /\ UNCHANGED <<pending, recovery, cancelling>>
        ELSE IF result = "failed" /\ IsCurrentFailure(reg, Top(a).failure)
        THEN /\ FailureAction(a, d, done, At(a, "uncancelPublish"))
             /\ UNCHANGED reg
        ELSE IF result = "unavailable" /\ remains
        THEN /\ pending' = NoDispatch
             /\ publication' = done
             /\ UNCHANGED reg
             /\ recovery' = IF recovery = d THEN NoDispatch ELSE recovery
             /\ cancelling' = (cancelling \/ recovery = d)
             /\ IF recovery = d /\ ~ cancelling
                THEN Call(a, At(a, "settled"), Frame("move"))
                ELSE ReturnWith(a, result)
        ELSE /\ publication' = done
             /\ ReturnWith(a, IF result = "unavailable" THEN "accepted" ELSE result)
             /\ UNCHANGED <<reg, pending, recovery, cancelling>>
  /\ UNCHANGED <<queueVars, taskVars, draining, hostVars, stopVars>>

(* The guard of the registry cancellation, dropped after the action ran. *)
UncancelPublish(a) ==
  /\ \/ /\ In(a, "uncancelPublish")
        /\ reg' = FinishCancellation(reg, Top(a).failure)
     \/ In(a, "settled") /\ UNCHANGED reg
  /\ ReturnWith(a, Top(a).result)
  /\ UNCHANGED <<queueVars, taskVars, dispatchVars, hostVars, stopVars>>

-----------------------------------------------------------------------------
(* Cancelling work: dropping a runnable ends its task and wakes whoever    *)
(* awaits it, on this stack.                                               *)

EndOf(t) == [u \in Tasks |-> IF u = t THEN "done"
                             ELSE IF u \notin AwaitedBy[t] THEN task[u]
                             ELSE IF task[u] = "waiting" THEN "scheduled"
                             ELSE IF task[u] = "running" THEN "woken"
                             ELSE task[u]]
WokenBy(t) == SetToSeq({u \in AwaitedBy[t] \ {t} : task[u] = "waiting"})
WakerFrames(ts) == [i \in DOMAIN ts |-> SchedFrame(ts[i], TRUE)]

Drop(a) ==
  /\ In(a, "drop")
  /\ IF Top(a).tasks = {} THEN Return(a) /\ UNCHANGED task
     ELSE \E t \in Top(a).tasks :
            /\ task' = EndOf(t)
            /\ stack' = [stack EXCEPT ![a] =
                 Become(a, DropFrame(Top(a).tasks \ {t})) \o WakerFrames(WokenBy(t))]
  /\ UNCHANGED <<queueVars, dispatchVars, reg, hostVars, stopVars, wakes>>

(* retire_rejected_work_off_waker_stack, the last thing its callers do: it *)
(* loops until nothing is left.                                            *)
RetireRejected(a) ==
  IF OnWakerStack(a) \/ rejected = {} THEN Return(a) /\ UNCHANGED rejected
  ELSE /\ rejected' = {}
       /\ Call(a, Frame("retire"), DropFrame(rejected))

Retire(a) ==
  /\ In(a, "retire") /\ RetireRejected(a)
  /\ UNCHANGED <<queue, closed, taskVars, dispatchVars, reg, hostVars,
                 stopVars>>

(* Mutant: the work is cancelled wherever its dispatch failed.             *)
MoveAndPurge(a) ==
  /\ In(a, "move")
  /\ rejected' = rejected \cup ToSet(queue)
  /\ queue' = <<>>
  /\ Goto(a, Frame("purge"))
  /\ UNCHANGED <<closed, taskVars, pending, recovery, cancelling, draining,
                 publication, reg, hostVars, stopVars>>

(* cancel_work_after_host_dispatch_failure: the queued work moves aside;   *)
(* a waker's stack reopens at once and owes it a host turn, any other      *)
(* stack cancels it before it reopens.                                     *)
Move(a) ==
  /\ In(a, "move")
  /\ rejected' = rejected \cup ToSet(queue)
  /\ queue' = <<>>
  /\ IF OnWakerStack(a)
     THEN /\ cancelling' = FALSE
          /\ Goto(a, [pc |-> "attempt", n |-> 0, res |-> "none"])
     ELSE Goto(a, Frame("purge")) /\ UNCHANGED cancelling
  /\ UNCHANGED <<closed, taskVars, pending, recovery, draining,
                 publication, reg, hostVars, stopVars>>

Purge(a) ==
  /\ In(a, "purge")
  /\ IF rejected = {}
     THEN cancelling' = FALSE /\ Return(a) /\ UNCHANGED rejected
     ELSE /\ rejected' = {}
          /\ Call(a, Top(a), DropFrame(rejected))
          /\ UNCHANGED cancelling
  /\ UNCHANGED <<queue, closed, taskVars, pending, recovery, draining,
                 publication, reg, hostVars, stopVars>>

(* request_rejected_work_retirement: a bounded number of ordinary turns,   *)
(* then one offer made while the cancellation is claimed, then one more.   *)
Nested(a) == \E i \in 1 .. Len(stack[a]) - 1 :
               stack[a][i].pc \in {"attempt", "reopen", "last"}

Attempt(a) ==
  /\ In(a, "attempt")
  /\ IF Nested(a) \/ ~ NeedsRetirementDispatch \/ Top(a).res = "unavailable"
     THEN Return(a) /\ UNCHANGED <<pending, recovery, cancelling, publication>>
     ELSE IF Top(a).n < Attempts
     THEN /\ RequestDrain(a, [Top(a) EXCEPT !.n = @ + 1, !.res = "none"])
          /\ UNCHANGED <<recovery, cancelling>>
     ELSE IF cancelling
     THEN Return(a) /\ UNCHANGED <<pending, recovery, cancelling, publication>>
     ELSE LET d == NextDispatch IN
          /\ UnusedDispatches # {}
          /\ cancelling' = TRUE /\ recovery' = NoDispatch
          /\ pending' = d /\ publication' = [publication EXCEPT ![d] = "armed"]
          /\ Call(a, [pc |-> "reopen", res |-> "none"], PublishFrame(d))
  /\ UNCHANGED <<queueVars, taskVars, draining, reg, hostVars, stopVars>>

Reopen(a) ==
  /\ In(a, "reopen")
  /\ cancelling' = FALSE
  /\ IF Top(a).res = "accepted" THEN Goto(a, At(a, "last")) ELSE Return(a)
  /\ UNCHANGED <<queueVars, taskVars, pending, recovery, draining,
                 publication, reg, hostVars, stopVars>>

LastOffer(a) ==
  /\ In(a, "last")
  /\ IF NeedsRetirementDispatch THEN RequestDrain(a, [At(a, "return") EXCEPT !.res = "none"])
     ELSE Return(a) /\ UNCHANGED <<pending, publication>>
  /\ UNCHANGED <<queueVars, taskVars, recovery, cancelling, draining,
                 reg, hostVars, stopVars>>

-----------------------------------------------------------------------------
(* complete_current_thread_task_delivery, cancel_host_dispatch and         *)
(* request_drain_if_queued.                                                *)

Complete(a) ==
  /\ In(a, "complete")
  /\ LET f == Top(a) IN
     \/ ~ Running /\ Return(a) /\ UNCHANGED rejected
     \/ /\ Running /\ f.failures # {}
        /\ \E x \in f.failures :
             Call(a, [f EXCEPT !.failures = @ \ {x}], [pc |-> "cancel", failure |-> x])
        /\ UNCHANGED rejected
     \/ /\ Running /\ f.failures = {} /\ f.redispatch
        /\ Call(a, [f EXCEPT !.redispatch = FALSE], Frame("rdq"))
        /\ UNCHANGED rejected
     \/ /\ Running /\ f.failures = {} /\ ~ f.redispatch
        /\ RetireRejected(a)
  /\ UNCHANGED <<queue, closed, taskVars, dispatchVars, reg, hostVars,
                 stopVars>>

CancelDispatch(a) ==
  /\ In(a, "cancel")
  /\ LET f == Top(a).failure IN
     IF Running /\ IsCurrentFailure(reg, f)
     THEN FailureAction(a, f.dispatch, publication, At(a, "uncancel"))
     ELSE /\ Goto(a, Frame("retire"))
          /\ UNCHANGED <<pending, recovery, cancelling, publication>>
  /\ UNCHANGED <<queueVars, taskVars, draining, reg, hostVars, stopVars>>

Uncancel(a) ==
  /\ In(a, "uncancel")
  /\ reg' = FinishCancellation(reg, Top(a).failure)
  /\ Goto(a, Frame("retire"))
  /\ UNCHANGED <<queueVars, taskVars, dispatchVars, hostVars, stopVars>>

RequestQueued(a) ==
  /\ In(a, "rdq")
  /\ IF ~ Running THEN Return(a) /\ UNCHANGED rejected
     ELSE IF rejected # {} /\ ~ OnWakerStack(a)
     THEN rejected' = {} /\ Call(a, Top(a), DropFrame(rejected))
     ELSE /\ IF HasServiceableWork THEN Goto(a, Frame("rdqJoin")) ELSE Return(a)
          /\ UNCHANGED rejected
  /\ UNCHANGED <<queue, closed, taskVars, dispatchVars, reg, hostVars,
                 stopVars>>

(* Mutant: a publication is taken to be under way as long as its dispatch   *)
(* is pending.                                                             *)
JoinBlindly(a) ==
  /\ In(a, "rdqJoin")
  /\ IF stopping \/ cancelling \/ draining \/ (pending = NoDispatch /\ ~ HasServiceableWork)
     THEN Return(a) /\ UNCHANGED <<pending, publication>>
     ELSE IF pending = NoDispatch THEN RequestDrain(a, Frame("return"))
     ELSE /\ publication' = [publication EXCEPT ![pending] = "again"]
          /\ Return(a) /\ UNCHANGED pending
  /\ UNCHANGED <<queueVars, taskVars, recovery, cancelling, draining,
                 reg, hostVars, stopVars>>

JoinDispatch(a) ==
  /\ In(a, "rdqJoin")
  /\ IF stopping \/ cancelling \/ draining \/ (pending = NoDispatch /\ ~ HasServiceableWork)
     THEN Return(a) /\ UNCHANGED <<pending, publication>>
     ELSE IF pending = NoDispatch THEN RequestDrain(a, Frame("return"))
     ELSE IF publication[pending] # "none"
     THEN /\ publication' = [publication EXCEPT ![pending] = "again"]
          /\ Return(a) /\ UNCHANGED pending
     ELSE /\ publication' = [publication EXCEPT ![pending] = "armed"]
          /\ Call(a, Frame("return"), PublishFrame(pending))
          /\ UNCHANGED pending
  /\ UNCHANGED <<queueVars, taskVars, recovery, cancelling, draining,
                 reg, hostVars, stopVars>>

-----------------------------------------------------------------------------
(* Hosts: registration, the callback of the threadsafe function, teardown. *)

RegisterHost(h) ==
  /\ Running /\ host[h] = "absent"
  /\ host' = [host EXCEPT ![h] = "live"]
  /\ reg' = Register(reg, h)
  /\ stack' = [stack EXCEPT ![h] = <<Frame("rdq")>>]
  /\ UNCHANGED <<queueVars, taskVars, dispatchVars, mail, stopVars>>

(* The callback claims its delivery before anything else.  A closing       *)
(* environment runs it without an env, or discards it.                     *)
Callback(h) ==
  /\ stack[h] = <<>> /\ mail[h] # NoDispatch
  /\ mail' = [mail EXCEPT ![h] = NoDispatch]
  /\ LET d == mail[h]
         claims == host[h] = "live" /\ CanClaim(reg, h, d)
     IN \/ /\ stack' = [stack EXCEPT ![h] =
                 <<[pc |-> IF claims THEN "admit" ELSE "fail", dispatch |-> d]>>]
           /\ reg' = IF claims THEN ClaimDelivery(reg, h, d) ELSE reg
        \/ host[h] = "gone" /\ UNCHANGED <<reg, stack>>
  /\ UNCHANGED <<queueVars, taskVars, dispatchVars, host, stopVars>>

(* try_admit_host_turn and claim_host_turn *)
Admit(h) ==
  /\ In(h, "admit")
  /\ LET d == Top(h).dispatch IN
     IF Running /\ ~ stopping /\ ~ draining /\ pending = d
     THEN /\ pending' = NoDispatch
          /\ recovery' = IF recovery = d THEN NoDispatch ELSE recovery
          /\ draining' = TRUE
          /\ Goto(h, At(h, "mark"))
     ELSE Goto(h, At(h, "fail")) /\ UNCHANGED <<pending, recovery, draining>>
  /\ UNCHANGED <<queueVars, taskVars, cancelling, publication, reg,
                 hostVars, stopVars>>

Mark(h) ==
  /\ In(h, "mark")
  /\ reg' = MarkServiced(reg, Top(h).dispatch)
  /\ Call(h, [pc |-> "turn", dispatch |-> Top(h).dispatch, n |-> 0], Frame("retire"))
  /\ UNCHANGED <<queueVars, taskVars, dispatchVars, hostVars, stopVars>>

CanTake == ~ stopping /\ ~ cancelling /\ ~ closed /\ queue # <<>>

(* drain_one: take_runnable, then poll it with no lock held. *)
TakeRunnable(a, f) ==
  /\ CanTake
  /\ queue' = Tail(queue)
  /\ task' = [task EXCEPT ![Head(queue)] = "running"]
  /\ Call(a, f, [pc |-> "poll", task |-> Head(queue)])

DriveTurn(h) ==
  /\ In(h, "turn")
  /\ \/ /\ Top(h).n < TurnBudget
        /\ TakeRunnable(h, [Top(h) EXCEPT !.n = @ + 1])
     \/ /\ ~ (Top(h).n < TurnBudget /\ CanTake)
        /\ Goto(h, At(h, "release"))
        /\ UNCHANGED <<queue, task>>
  /\ UNCHANGED <<rejected, closed, dispatchVars, reg, hostVars,
                 stopVars, wakes>>

(* The poll of a task: it ends, waits, or was woken while it ran and is    *)
(* scheduled again from this stack.                                        *)
Poll(a) ==
  /\ In(a, "poll")
  /\ LET t == Top(a).task IN
     \/ /\ task' = EndOf(t)
        /\ stack' = [stack EXCEPT ![a] =
             IF WokenBy(t) = <<>> THEN Unwound(@, "done")
             ELSE Become(a, Frame("return")) \o WakerFrames(WokenBy(t))]
     \/ /\ task[t] = "running"
        /\ task' = [task EXCEPT ![t] = "waiting"]
        /\ Return(a)
     \/ /\ task[t] = "woken"
        /\ task' = [task EXCEPT ![t] = "scheduled"]
        /\ Goto(a, SchedFrame(t, TRUE))
  /\ UNCHANGED <<queueVars, dispatchVars, reg, hostVars, stopVars, wakes>>

(* The turn gives up the queue first and asks for its continuation next.   *)
ReleaseDraining(h) ==
  /\ In(h, "release")
  /\ draining' = FALSE
  /\ Goto(h, At(h, "again"))
  /\ UNCHANGED <<queueVars, taskVars, pending, recovery, cancelling,
                 publication, reg, hostVars, stopVars>>

Continue(h) ==
  /\ In(h, "again")
  /\ IF HasServiceableWork /\ ~ draining THEN RequestDrain(h, At(h, "ack"))
     ELSE Goto(h, At(h, "ack")) /\ UNCHANGED <<pending, publication>>
  /\ UNCHANGED <<queueVars, taskVars, recovery, cancelling, draining,
                 reg, hostVars, stopVars>>

(* The callback acknowledges a turn it drove and fails any other delivery. *)
Acknowledge(h) ==
  /\ In(h, "ack") \/ In(h, "fail")
  /\ LET o == FinishDelivery(reg, h, Top(h).dispatch, In(h, "fail")) IN
     /\ reg' = o.reg
     /\ stack' = [stack EXCEPT ![h] =
          LET c == Completing(h, o.failures, o.redispatch) IN
          IF c = <<>> THEN <<>>
          ELSE <<Frame(IF In(h, "ack") THEN "lease" ELSE "return")>> \o c]
  /\ UNCHANGED <<queueVars, taskVars, dispatchVars, hostVars, stopVars>>

(* environment_cleanup *)
Leave(h) ==
  /\ h \in Leavers /\ stack[h] = <<>> /\ host[h] = "live"
  /\ host' = [host EXCEPT ![h] = "closing"]
  /\ stack' = [stack EXCEPT ![h] = <<Frame("evict")>>]
  /\ UNCHANGED <<queueVars, taskVars, dispatchVars, reg, mail, stopVars>>

Evict(h) ==
  /\ \/ /\ In(h, "evict") /\ h \in reg.drivers
        /\ LET o == Unregister(reg, h) IN
           /\ reg' = o.reg
           /\ stack' = [stack EXCEPT ![h] = <<Frame("gone"), Frame("rdq")>>
                                              \o Completing(h, o.failures, FALSE)]
        /\ UNCHANGED host
     \/ /\ In(h, "gone") \/ (In(h, "evict") /\ h \notin reg.drivers)
        /\ host' = [host EXCEPT ![h] = "gone"] /\ Return(h) /\ UNCHANGED reg
  /\ UNCHANGED <<queueVars, taskVars, dispatchVars, mail, stopVars>>

-----------------------------------------------------------------------------
(* block_on: another thread that drains the same queue between two polls   *)
(* of its own future, and leaves when that is ready or the runtime stops.  *)

BeginDrive(p) ==
  /\ Running /\ p \in Drivers /\ stack[p] = <<>>
  /\ stack' = [stack EXCEPT ![p] = <<Frame("drive")>>]
  /\ UNCHANGED <<queueVars, taskVars, dispatchVars, reg, hostVars,
                 stopVars>>

DriveOne(p) ==
  /\ In(p, "drive") /\ TakeRunnable(p, Top(p))
  /\ UNCHANGED <<rejected, closed, dispatchVars, reg, hostVars,
                 stopVars, wakes>>

EndDrive(p) ==
  /\ In(p, "drive") /\ Return(p)
  /\ UNCHANGED <<queueVars, taskVars, dispatchVars, reg, hostVars,
                 stopVars>>

-----------------------------------------------------------------------------
(* Shutdown: publish the stop, abort every task, close the queue, forget   *)
(* the dispatches, cancel what was taken, and wait.                        *)

(* A host turn is claimed and marked serviced under the lifecycle lock.    *)
BeginStop ==
  /\ Stops /\ Running
  /\ \A h \in Hosts : ~ In(h, "mark")
  /\ lifecycle' = "stopping" /\ stopping' = TRUE
  /\ stack' = [stack EXCEPT ![Stopper] = <<Frame("abort")>>]
  /\ UNCHANGED <<queueVars, taskVars, dispatchVars, reg, hostVars>>

(* close_and_abort wakes every task that has not ended.                    *)
AbortTasks ==
  /\ In(Stopper, "abort")
  /\ task' = [t \in Tasks |-> IF task[t] = "waiting" THEN "scheduled"
                              ELSE IF task[t] = "running" THEN "woken" ELSE task[t]]
  /\ stack' = [stack EXCEPT ![Stopper] =
       <<Frame("close")>> \o WakerFrames(SetToSeq({t \in Tasks : task[t] = "waiting"}))]
  /\ UNCHANGED <<queueVars, dispatchVars, reg, hostVars, stopVars, wakes>>

CloseQueue ==
  /\ In(Stopper, "close")
  /\ closed' = TRUE /\ queue' = <<>> /\ rejected' = {}
  /\ Goto(Stopper, [pc |-> "forget", tasks |-> ToSet(queue) \cup rejected])
  /\ UNCHANGED <<taskVars, dispatchVars, reg, hostVars, stopVars>>

ForgetDispatches ==
  /\ In(Stopper, "forget")
  /\ pending' = NoDispatch /\ recovery' = NoDispatch
  /\ Goto(Stopper, At(Stopper, "forgetHosts"))
  /\ UNCHANGED <<queueVars, taskVars, cancelling, draining,
                 publication, reg, hostVars, stopVars>>

ForgetHosts ==
  /\ In(Stopper, "forgetHosts")
  /\ reg' = RetireForShutdown(reg)
  /\ Call(Stopper, Frame("wait"), DropFrame(Top(Stopper).tasks))
  /\ UNCHANGED <<queueVars, taskVars, dispatchVars, hostVars, stopVars>>

(* Mutant: the stop does not wait for host turns and publications.         *)
WaitForTasks ==
  /\ In(Stopper, "wait")
  /\ \/ /\ rejected # {} /\ rejected' = {}
        /\ Call(Stopper, Top(Stopper), DropFrame(rejected))
        /\ UNCHANGED lifecycle
     \/ /\ rejected = {} /\ \A t \in Tasks : task[t] \in {"fresh", "done"}
        /\ lifecycle' = "stopped" /\ Return(Stopper)
        /\ UNCHANGED rejected
  /\ UNCHANGED <<queue, closed, taskVars, dispatchVars, reg, hostVars, stopping>>

(* Mutant: what is rejected while the stop waits is left to others.        *)
WaitOnly ==
  /\ In(Stopper, "wait")
  /\ rejected = {} /\ \A t \in Tasks : task[t] \in {"fresh", "done"}
  /\ ActiveTurns = {} /\ ActiveCalls = {}
  /\ lifecycle' = "stopped" /\ Return(Stopper)
  /\ UNCHANGED <<queueVars, taskVars, dispatchVars, reg, hostVars, stopping>>

(* wait_until_idle_retiring and wait_until_scheduler_idle *)
WaitIdle ==
  /\ In(Stopper, "wait")
  /\ \/ /\ rejected # {} /\ rejected' = {}
        /\ Call(Stopper, Top(Stopper), DropFrame(rejected))
        /\ UNCHANGED lifecycle
     \/ /\ rejected = {} /\ \A t \in Tasks : task[t] \in {"fresh", "done"}
        /\ ActiveTurns = {} /\ ActiveCalls = {}
        /\ lifecycle' = "stopped" /\ Return(Stopper)
        /\ UNCHANGED rejected
  /\ UNCHANGED <<queue, closed, taskVars, dispatchVars, reg, hostVars,
                 stopping>>

-----------------------------------------------------------------------------
Publication(a) ==
  \/ Enter(a) \/ PlanDeliveries(a) \/ Send(a) \/ Accept(a) \/ Reject(a)
  \/ Finish(a) \/ Settle(a) \/ UncancelPublish(a)

Cancellation(a) ==
  \/ Drop(a) \/ Retire(a) \/ Move(a) \/ Purge(a)
  \/ Attempt(a) \/ Reopen(a) \/ LastOffer(a)
  \/ Complete(a) \/ CancelDispatch(a) \/ Uncancel(a)
  \/ RequestQueued(a) \/ JoinDispatch(a)

(* What an actor does once it is inside a call. *)
Step(a) == Push(a) \/ Offered(a) \/ Publication(a) \/ Cancellation(a) \/ Poll(a)

HostStep(h) ==
  \/ Callback(h) \/ Admit(h) \/ Mark(h) \/ DriveTurn(h)
  \/ ReleaseDraining(h) \/ Continue(h) \/ Acknowledge(h) \/ Evict(h)

StopStep == AbortTasks \/ CloseQueue \/ ForgetDispatches \/ ForgetHosts \/ WaitIdle

Next ==
  \/ \E p \in Threads : \/ \E t \in Tasks : Submit(p, t) \/ Wake(p, t)
                        \/ BeginDrive(p) \/ DriveOne(p) \/ EndDrive(p)
  \/ \E a \in Actors : Step(a)
  \/ \E h \in Hosts : RegisterHost(h) \/ Leave(h) \/ HostStep(h)
  \/ BeginStop \/ StopStep

(* Threads are scheduled, hosts run the callbacks they accepted, and no    *)
(* thread stays in block_on for ever.                                      *)
Fairness ==
  /\ \A p \in Threads : WF_vars(Step(p) \/ DriveOne(p) \/ EndDrive(p))
  /\ \A h \in Hosts : WF_vars(Step(h) \/ HostStep(h))
  /\ WF_vars(Step(Stopper) \/ StopStep)

Spec == Init /\ [][Next]_vars
FairSpec == Spec /\ Fairness

-----------------------------------------------------------------------------
(* The types of the registries, the flags and the environments.            *)
TypeOK ==
  /\ queue \in Seq(Tasks) /\ rejected \subseteq Tasks /\ closed \in BOOLEAN
  /\ task \in [Tasks -> {"fresh", "scheduled", "running", "woken", "waiting", "done"}]
  /\ wakes \in 0 .. MaxWakes
  /\ pending \in Dispatches \cup {NoDispatch} /\ recovery \in Dispatches \cup {NoDispatch}
  /\ cancelling \in BOOLEAN /\ draining \in BOOLEAN
  /\ publication \in [Dispatches -> {"none", "armed", "again"}]
  /\ reg \in Registry
  /\ host \in [Hosts -> {"absent", "live", "closing", "gone"}]
  /\ mail \in [Hosts -> Dispatches \cup {NoDispatch}]
  /\ lifecycle \in {"running", "stopping", "stopped"} /\ stopping \in BOOLEAN
  /\ DOMAIN stack = Actors

(* At rest: nobody is inside a call, except threads parked in block_on. *)
AtRest == \A a \in Actors : stack[a] = <<>> \/ In(a, "drive")

(* Work that is queued, or owed a cancellation, has a callback on its way  *)
(* to a live host whenever there is one, which services the dispatch or    *)
(* owes it next: a request that coalesced with a dispatch, a drainer or a  *)
(* publication never rested on one that is over.                           *)
WorkWaits == /\ AtRest /\ Running /\ (queue # <<>> \/ rejected # {})
             /\ \E h \in Hosts : host[h] = "live"
Called == \E h \in Hosts :
            /\ host[h] = "live" /\ pending # NoDispatch
            /\ mail[h] # NoDispatch /\ mail[h] = reg.entry[h].delivery
            /\ pending \in {reg.entry[h].delivery, reg.entry[h].pending}
WorkHasContinuation == WorkWaits => Called

(* Every frame of every stack, by its place. *)
Positions == UNION {{<<a, i>> : i \in DOMAIN stack[a]} : a \in Actors}
FrameAt(x) == stack[x[1]][x[2]]
FramesAt(ps) == {x \in Positions : FrameAt(x).pc \in ps}

(* A scheduled runnable is in exactly one place: the queue, the rejected   *)
(* work, or the hands of one actor; nothing is lost or run twice.          *)
Places(t) ==
  Cardinality({i \in DOMAIN queue : queue[i] = t}) + (IF t \in rejected THEN 1 ELSE 0)
  + Cardinality({x \in FramesAt({"push"}) : FrameAt(x).task = t})
  + Cardinality({x \in FramesAt({"drop", "forget", "forgetHosts"}) : t \in FrameAt(x).tasks})
NoLostRunnable == \A t \in Tasks : Places(t) = IF task[t] = "scheduled" THEN 1 ELSE 0

(* User futures are never destroyed on a stack a waker may have entered:   *)
(* whichever publication failed under a wake, and however deep in another  *)
(* call, the work it gives up waits for a turn, a host or a later caller.  *)
NoDropOnWakerStack ==
  \A a \in Actors : In(a, "drop") /\ Top(a).tasks # {} => ~ OnWakerStack(a)

(* The registry lets a dispatch fail, and cancels the work, when the last  *)
(* host that could service it is gone.  The counter it decides by agrees   *)
(* with the deliveries and the owed dispatches of the hosts, whichever of  *)
(* publication, answer, sweep and cleanup came in between.                 *)
DispatchesAreCounted == Running => ReferencesAreExact(reg)

(* A claim on the executor is held by exactly one call that is under way:  *)
(* a turn that drains, a cancellation that is to reopen the executor, or   *)
(* the publication of a dispatch.  A claim nobody holds any more would     *)
(* keep every later request waiting for a call that never comes.           *)
ClaimsAreHeld ==
  /\ Cardinality(FramesAt({"mark", "turn", "release"})) = (IF draining THEN 1 ELSE 0)
  /\ Cardinality(FramesAt({"move", "purge", "reopen"})) = (IF cancelling THEN 1 ELSE 0)
  /\ \A d \in Dispatches :
       Cardinality({x \in FramesAt(PublishPcs \ {"settled", "uncancelPublish"}) :
                      FrameAt(x).dispatch = d})
         = (IF publication[d] = "none" THEN 0 ELSE 1)

(* Nothing outlives the stop: what wakes, host turns and publications had  *)
(* in their hands when the queue closed was cancelled before it completed. *)
StoppedIsIdle == lifecycle = "stopped" =>
  /\ queue = <<>> /\ rejected = {} /\ ActiveTurns = {} /\ ActiveCalls = {}
  /\ \A t \in Tasks : task[t] \in {"fresh", "done"}

(* A stop waits only for turns, publications and wakes that end.           *)
StopCompletes == lifecycle = "stopping" ~> lifecycle = "stopped"
=============================================================================
