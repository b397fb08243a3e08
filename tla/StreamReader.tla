---------------------------- MODULE StreamReader ----------------------------
(***************************************************************************)
(* A Rust task reads a JavaScript ReadableStream (Reader::poll_next), and  *)
(* other threads cancel it through a ReaderCancelHandle.                   *)
(*                                                                         *)
(* The task polls on its own thread.  A poll that finds nothing queues a   *)
(* call of `read` on one threadsafe function; the JavaScript thread runs   *)
(* it, attaches then, catch and finally to its promise, and these fill the *)
(* buffer and wake the task.  A cancel raises a flag, wakes the task and   *)
(* queues a call of `cancel` on a second function; its future resolves     *)
(* when the value that call returned settles.  Handles are dropped and the *)
(* environment ends at any time.                                           *)
(*                                                                         *)
(* Grain: one step per critical section of ReaderInner and QueuedCancels,  *)
(* per operation on the cancel flag and its AtomicWaker, per call of the   *)
(* host, and per microtask.  A waker taken under the lock is woken in the  *)
(* same step: waking it later only wakes a task that polls again.          *)
(***************************************************************************)
EXTENDS ThreadsafeFunctions, Naturals

CONSTANTS Cancels,     \* calls of a cancel method, each on a thread of its own
          MaxChunks    \* chunks the source has to give

ASSUME CancelsAssumption == "read" \notin Cancels
ASSUME ChunksAssumption == MaxChunks \in Nat

VARIABLES
  task,        \* control of the polling task
  woken,       \* its executor has been told to poll it again
  answered,    \* the first answer of a poll that ends the stream, if any
  inner,       \* ReaderInner: chunk, done, reading, waker
  reads,       \* read() calls past the queue: how many promises are where
  given,       \* chunks the source gave
  taken,       \* chunks a poll yielded
  cancelled,   \* CancelSignal: the flag,
  waker,       \* and whether its AtomicWaker holds the task's waker
  caller,      \* control of each call of a cancel method
  senders,     \* QueuedCancels: cancels whose sender waits here,
  refusing,    \* and whether it was closed
  following,   \* cancels whose returned value has not settled
  future,      \* what the future of each cancel has resolved to
  function,    \* the threadsafe functions of `read` and `cancel`
  holders,     \* who keeps BoundCancel: the reader, the user's handles
  env          \* live, closing, gone

readVars == <<task, woken, answered, inner, reads, given, taken>>
signalVars == <<cancelled, waker>>
cancelVars == <<caller, senders, refusing, following, future>>
hostVars == <<function, holders, env>>
vars == <<readVars, signalVars, cancelVars, hostVars>>

TaskPcs == {"ready", "registered", "calling", "parked", "dropped"}
CallerPcs == {"idle", "raised", "here", "insert", "call", "refused", "over"}

Init ==
  /\ task = "ready" /\ woken = FALSE /\ answered = "no"
  /\ inner = [chunk |-> "none", done |-> FALSE, reading |-> FALSE, waker |-> FALSE]
  /\ reads = [pending |-> 0, settled |-> 0, late |-> 0]
  /\ given = 0 /\ taken = 0
  /\ cancelled = FALSE /\ waker = FALSE
  /\ caller = [c \in Cancels |-> "idle"]
  /\ senders = {} /\ refusing = FALSE /\ following = {}
  /\ future = [c \in Cancels |-> "none"]
  /\ function = [f \in {"read", "cancel"} |-> NewFunction]
  /\ holders = {"reader", "handle"}
  /\ env = "live"

-----------------------------------------------------------------------------
(* Reader::poll_next. *)

\* A poll registers with the cancel signal before it looks at anything.  An
\* executor may also poll a task that nothing woke.
Poll ==
  /\ task \in {"ready", "parked"}
  /\ task' = "registered" /\ woken' = FALSE
  /\ waker' = TRUE
  /\ UNCHANGED <<answered, inner, reads, given, taken, cancelled, cancelVars, hostVars>>

\* The critical section of a poll.
Checks ==
  /\ task = "registered"
  /\ UNCHANGED <<woken, reads, given, cancelled, cancelVars, hostVars>>

Answers(kind) ==
  /\ task' = "ready"
  /\ answered' = IF answered = "no" THEN kind ELSE answered

CheckCancelled ==
  /\ Checks
  /\ cancelled
  /\ inner' = [inner EXCEPT !.chunk = "none", !.done = TRUE, !.waker = FALSE]
  /\ waker' = FALSE
  /\ Answers("end")
  /\ UNCHANGED taken

YieldChunk ==
  /\ Checks
  /\ ~ cancelled /\ inner.chunk = "chunk"
  /\ inner' = [inner EXCEPT !.chunk = "none"]
  /\ taken' = taken + 1
  /\ task' = "ready"
  /\ UNCHANGED <<answered, waker>>

YieldError ==
  /\ Checks
  /\ ~ cancelled /\ inner.chunk = "error"
  /\ inner' = [inner EXCEPT !.chunk = "none"]
  /\ waker' = FALSE
  /\ Answers("failed")
  /\ UNCHANGED taken

(* Mutant: the end is answered before what is buffered. *)
YieldEndFirst ==
  /\ Checks
  /\ ~ cancelled /\ inner.done
  /\ waker' = FALSE
  /\ Answers("end")
  /\ UNCHANGED <<inner, taken>>

YieldEnd ==
  /\ Checks
  /\ ~ cancelled /\ inner.chunk = "none" /\ inner.done
  /\ waker' = FALSE
  /\ Answers("end")
  /\ UNCHANGED <<inner, taken>>

\* At most one read is outstanding.
Wait ==
  /\ Checks
  /\ ~ cancelled /\ inner.chunk = "none" /\ ~ inner.done
  /\ inner' = [inner EXCEPT !.waker = TRUE, !.reading = TRUE]
  /\ task' = IF inner.reading THEN "parked" ELSE "calling"
  /\ UNCHANGED <<answered, taken, waker>>

\* The call itself, after the lock: a refused one ends the stream.
IssueRead ==
  /\ task = "calling"
  /\ function' = [function EXCEPT !["read"] = CallWithData(@, "read")]
  /\ IF Accepts(function["read"])
     THEN task' = "parked" /\ UNCHANGED <<answered, inner, waker>>
     ELSE /\ inner' = [inner EXCEPT !.reading = FALSE, !.done = TRUE, !.waker = FALSE]
          /\ waker' = FALSE
          /\ Answers("failed")
  /\ UNCHANGED <<woken, reads, given, taken, cancelled, cancelVars, holders, env>>

\* The last holder of BoundCancel drops its threadsafe function.
Forgets(who, fs) ==
  /\ holders' = holders \ {who}
  /\ function' = IF holders = {who} THEN [fs EXCEPT !["cancel"] = DropHandle(@)] ELSE fs

DropReader ==
  /\ task \in {"ready", "parked"}
  /\ task' = "dropped" /\ woken' = FALSE
  /\ waker' = FALSE
  /\ inner' = [inner EXCEPT !.waker = FALSE]
  /\ Forgets("reader", [function EXCEPT !["read"] = DropHandle(@)])
  /\ UNCHANGED <<answered, reads, given, taken, cancelled, cancelVars, env>>

-----------------------------------------------------------------------------
(* The read on the JavaScript thread. *)

TakesCall(f, data) ==
  /\ env = "live" /\ function[f].phase = "open"
  /\ function[f].queue # <<>> /\ Head(function[f].queue) = data
  /\ function' = [function EXCEPT ![f].queue = Tail(@)]

\* Takes the task's waker out of ReaderInner and wakes it.
WakesTask == woken' = (woken \/ inner.waker)

\* read() returned a promise and its three handlers are attached.
RunRead ==
  /\ TakesCall("read", "read")
  /\ reads' = [reads EXCEPT !.pending = @ + 1]
  /\ UNCHANGED <<task, woken, answered, inner, given, taken>>
  /\ UNCHANGED <<signalVars, cancelVars, holders, env>>

(* Mutant: a `?` on the way out forgets the cleanup that `finally` would do. *)
FailReadQuietly ==
  /\ TakesCall("read", "read")
  /\ \E attached \in {0, 1} : reads' = [reads EXCEPT !.late = @ + attached]
  /\ UNCHANGED <<task, woken, answered, inner, given, taken>>
  /\ UNCHANGED <<signalVars, cancelVars, holders, env>>

\* read() threw, or a handler could not be attached.  `then` may have been:
\* it will run when the promise settles, without a finally.
FailRead ==
  /\ TakesCall("read", "read")
  /\ \E attached \in {0, 1} : reads' = [reads EXCEPT !.late = @ + attached]
  /\ inner' = [inner EXCEPT !.reading = FALSE, !.done = TRUE,
                            !.chunk = "error", !.waker = FALSE]
  /\ WakesTask
  /\ UNCHANGED <<task, answered, given, taken, signalVars, cancelVars, holders, env>>

\* What `then` stores for a result, and `catch` for a rejection, unless the
\* stream has ended or was canceled meanwhile.
Store(result) ==
  IF inner.done \/ cancelled THEN inner
  ELSE [inner EXCEPT
          !.done  = @ \/ result.done \/ result.chunk = "error",
          !.chunk = IF result.chunk = "none" THEN @ ELSE result.chunk]
Results == [chunk : {"none", "chunk"}, done : BOOLEAN] \cup {[chunk |-> "error", done |-> FALSE]}

Gives(result) ==
  /\ result.chunk = "chunk" => given < MaxChunks
  /\ given' = IF result.chunk = "chunk" THEN given + 1 ELSE given

ReadSettles ==
  /\ env = "live" /\ reads.pending > 0
  /\ reads' = [reads EXCEPT !.pending = @ - 1, !.settled = @ + 1]
  /\ \E result \in Results : Gives(result) /\ inner' = Store(result)
  /\ UNCHANGED <<task, woken, answered, taken, signalVars, cancelVars, hostVars>>

Finally ==
  /\ env = "live" /\ reads.settled > 0
  /\ reads' = [reads EXCEPT !.settled = @ - 1]
  /\ inner' = [inner EXCEPT !.reading = FALSE, !.waker = FALSE]
  /\ WakesTask
  /\ UNCHANGED <<task, answered, given, taken, signalVars, cancelVars, hostVars>>

\* A `then` whose read was given up runs after all.
LateSettles ==
  /\ env = "live" /\ reads.late > 0
  /\ reads' = [reads EXCEPT !.late = @ - 1]
  /\ \E result \in Results :
       result.chunk # "error" /\ Gives(result) /\ inner' = Store(result)
  /\ UNCHANGED <<task, woken, answered, taken, signalVars, cancelVars, hostVars>>

-----------------------------------------------------------------------------
(* ReaderCancelHandle. *)

Moves(c, from, to) == caller[c] = from /\ caller' = [caller EXCEPT ![c] = to]
Resolve(cs, outcome) == future' = [c \in Cancels |-> IF c \in cs THEN outcome ELSE future[c]]

\* CancelSignal::cancel raises the flag, then wakes.
RaiseFlag(c) ==
  /\ "handle" \in holders
  /\ Moves(c, "idle", "raised")
  /\ cancelled' = TRUE
  /\ UNCHANGED <<readVars, waker, senders, refusing, following, future, hostVars>>

\* cancel goes on to queue a call; cancel_on_js_thread, which has checked that
\* it runs on the thread of a live environment, to call at once.
WakeReader(c) ==
  /\ \E next \in {"insert", "here"} :
       /\ next = "here" => env = "live"
       /\ Moves(c, "raised", next)
  /\ woken' = (woken \/ waker)
  /\ waker' = FALSE
  /\ UNCHANGED <<task, answered, inner, reads, given, taken, cancelled>>
  /\ UNCHANGED <<senders, refusing, following, future, hostVars>>

\* settle_cancel: `cancel` threw, or what it returned is followed.
Settled(c) ==
  \/ following' = following \cup {c} /\ Resolve({c}, "pending")
  \/ UNCHANGED following /\ Resolve({c}, "err")

CancelHere(c) ==
  /\ env = "live"
  /\ Moves(c, "here", "over")
  /\ Settled(c)
  /\ UNCHANGED <<readVars, signalVars, senders, refusing, hostVars>>

\* The sender is in the list before the call that takes it can run.
Insert(c) ==
  /\ IF refusing
     THEN Moves(c, "insert", "over") /\ Resolve({c}, "err") /\ UNCHANGED senders
     ELSE /\ Moves(c, "insert", "call") /\ Resolve({c}, "pending")
          /\ senders' = senders \cup {c}
  /\ UNCHANGED <<readVars, signalVars, refusing, following, hostVars>>

CallCancel(c) ==
  /\ Moves(c, "call", IF Accepts(function["cancel"]) THEN "over" ELSE "refused")
  /\ function' = [function EXCEPT !["cancel"] = CallWithData(@, c)]
  /\ UNCHANGED <<readVars, signalVars, senders, refusing, following, future, holders, env>>

TakeBack(c) ==
  /\ Moves(c, "refused", "over")
  /\ senders' = senders \ {c}
  /\ Resolve({c}, "err")
  /\ UNCHANGED <<readVars, signalVars, refusing, following, hostVars>>

\* The queued call runs: it finds its sender, or does nothing more.
RunCancel(c) ==
  /\ TakesCall("cancel", c)
  /\ senders' = senders \ {c}
  /\ IF c \in senders THEN Settled(c) ELSE UNCHANGED <<following, future>>
  /\ UNCHANGED <<readVars, signalVars, caller, refusing, holders, env>>

\* The value fulfills or rejects, or is collected unsettled.
CancelSettles(c) ==
  /\ env = "live" /\ c \in following
  /\ following' = following \ {c}
  /\ \E outcome \in {"ok", "err"} : Resolve({c}, outcome)
  /\ UNCHANGED <<readVars, signalVars, caller, senders, refusing, hostVars>>

\* Nobody drops the handle a cancel is using.
DropCancelHandle ==
  /\ "handle" \in holders
  /\ \A c \in Cancels : caller[c] \in {"idle", "over"}
  /\ Forgets("handle", function)
  /\ UNCHANGED <<readVars, signalVars, cancelVars, env>>

-----------------------------------------------------------------------------
(* The host closes functions and environments. *)

CloseDrained(f) ==
  /\ Drained(function[f])
  /\ function' = [function EXCEPT ![f] = StartClosing(@)]
  /\ UNCHANGED <<readVars, signalVars, cancelVars, holders, env>>

(* Mutant: the list only refuses new senders. *)
RefuseQueued ==
  refusing' = TRUE /\ UNCHANGED <<senders, future>>

\* The callback of `cancel` owns the CloseOnDrop of QueuedCancels.
CloseQueued ==
  /\ refusing' = TRUE
  /\ senders' = {}
  /\ Resolve(senders, "err")

Finalize(f) ==
  /\ function[f].phase = "closing"
  /\ function' = [function EXCEPT ![f] = FinalizeFunction(@)]
  /\ IF f = "cancel" THEN CloseQueued ELSE UNCHANGED <<senders, refusing, future>>
  /\ UNCHANGED <<readVars, signalVars, caller, following, holders, env>>

EnvCloses ==
  /\ env = "live"
  /\ \A c \in Cancels : caller[c] # "here"
  /\ env' = "closing"
  /\ function' = [f \in DOMAIN function |-> StartClosing(function[f])]
  /\ UNCHANGED <<readVars, signalVars, cancelVars, holders>>

\* The finalizers of the callbacks that follow a value drop their senders.
EnvEnds ==
  /\ env = "closing"
  /\ \A f \in DOMAIN function : function[f].phase = "closed"
  /\ env' = "gone"
  /\ following' = {}
  /\ Resolve(following, "err")
  /\ UNCHANGED <<readVars, signalVars, caller, senders, refusing, function, holders>>

-----------------------------------------------------------------------------
TaskStep ==
  \/ CheckCancelled \/ YieldChunk \/ YieldError \/ YieldEnd \/ Wait \/ IssueRead
CallerStep(c) ==
  WakeReader(c) \/ CancelHere(c) \/ Insert(c) \/ CallCancel(c) \/ TakeBack(c)
HostStep ==
  \/ RunRead \/ FailRead \/ Finally
  \/ \E c \in Cancels : RunCancel(c)
  \/ \E f \in DOMAIN function : CloseDrained(f) \/ Finalize(f)
  \/ EnvEnds

Next ==
  \/ Poll \/ TaskStep \/ DropReader
  \/ \E c \in Cancels : RaiseFlag(c) \/ CallerStep(c) \/ CancelSettles(c)
  \/ ReadSettles \/ LateSettles \/ DropCancelHandle
  \/ HostStep \/ EnvCloses

Spec == Init /\ [][Next]_vars

\* Threads run on, a woken task is polled and the event loop turns.  Nothing
\* says that a source answers, that anybody cancels or drops anything, or that
\* the environment ends.
FairSpec ==
  /\ Spec
  /\ WF_vars(TaskStep) /\ WF_vars(woken /\ Poll)
  /\ WF_vars(RunRead \/ FailRead) /\ WF_vars(Finally)
  /\ \A c \in Cancels : WF_vars(CallerStep(c)) /\ WF_vars(RunCancel(c))
  /\ \A f \in {"read", "cancel"} : WF_vars(CloseDrained(f)) /\ WF_vars(Finalize(f))
  /\ WF_vars(EnvEnds)

-----------------------------------------------------------------------------
(* Properties. *)

OutstandingReads ==
  Len(function["read"].queue) + reads.pending + reads.settled

\* The types of the variables.  At most one read is outstanding, and the flag
\* says so; only the end of the environment loses a read, with its flag up.
ReaderTypes ==
  /\ task \in TaskPcs /\ woken \in BOOLEAN
  /\ answered \in {"no", "end", "failed"}
  /\ inner \in [chunk : {"none", "chunk", "error"}, done : BOOLEAN,
                reading : BOOLEAN, waker : BOOLEAN]
  /\ reads \in [pending : 0..1, settled : 0..1, late : 0..1]
  /\ given \in 0..MaxChunks /\ taken \in 0..given
CancelTypes ==
  /\ cancelled \in BOOLEAN /\ waker \in BOOLEAN
  /\ caller \in [Cancels -> CallerPcs]
  /\ senders \subseteq Cancels /\ following \subseteq Cancels
  /\ refusing \in BOOLEAN
  /\ future \in [Cancels -> {"none", "pending", "ok", "err"}]
FunctionRecords(data) ==
  [phase : Phases, held : BOOLEAN, queue : Seq(data), handle : BOOLEAN, aborted : BOOLEAN]
HostTypes ==
  /\ DOMAIN function = {"read", "cancel"}
  /\ function["read"] \in FunctionRecords({"read"})
  /\ function["cancel"] \in FunctionRecords(Cancels)
  /\ holders \subseteq {"reader", "handle"}
  /\ env \in {"live", "closing", "gone"}
OneRead ==
  /\ OutstandingReads <= (IF inner.reading THEN 1 ELSE 0)
  /\ inner.reading /\ env = "live" => OutstandingReads = 1 \/ task = "calling"
TypeOK == ReaderTypes /\ CancelTypes /\ HostTypes /\ OneRead

\* Unless the reader is canceled or a read fails, each chunk the source gave was
\* yielded, or is the one in the buffer that a poll can still yield: no result of
\* a read overwrites another, goes missing between the JavaScript thread and the
\* poll, or is left behind an end that was answered before it.
NoChunkLost ==
  ~ cancelled /\ answered # "failed" /\ inner.chunk # "error" =>
    given = taken + (IF inner.chunk = "chunk" /\ answered = "no" THEN 1 ELSE 0)

\* A parked task is owed a wake: it was woken, or a cancel is about to wake it,
\* or the read in flight will and can (of an environment that lives).
ParkedIsOwed ==
  task = "parked" /\ ~ woken =>
    /\ cancelled => waker /\ \E c \in Cancels : caller[c] = "raised"
    /\ waker
    /\ env = "live" => inner.waker /\ OutstandingReads = 1

\* After the end nothing is yielded any more, whatever a promise given up, a
\* cancel or a closing environment still brings.
EndIsFinal == [][answered # "no" => taken' = taken]_vars

\* The future of every cancel resolves, though its call never runs because the
\* environment ends, its handle is dropped or the source throws; unless the
\* call ran and what it returned never settles.
CancelResolves ==
  \A c \in Cancels :
    future[c] = "pending" ~> \/ future[c] # "pending"
                             \/ c \in following /\ env = "live"
=============================================================================
