------------------------- MODULE StreamReaderProofs -------------------------
(***************************************************************************)
(* Whatever the number of cancels and chunks: no chunk is lost, no parked  *)
(* task is forgotten, nothing follows the end, and the sender of a cancel  *)
(* that is still pending has somebody left to use it or to drop it.        *)
(*                                                                         *)
(* The argument follows the one read in flight.  From the poll that issues *)
(* it to its finally the flag is up, and the buffer is empty until it      *)
(* settles; once the stream is done nothing is in flight that could store  *)
(* or fail, but for the `then` of a read that failed, and then the error   *)
(* is in the buffer or has been told.                                      *)
(***************************************************************************)
EXTENDS StreamReader, TLAPS

Queued == Len(function["read"].queue)
Buffered == IF inner.chunk = "chunk" THEN 1 ELSE 0

(* The host closes the function of a living environment only when drained. *)
ClosedIsEmpty == env = "live" /\ function["read"].phase # "open" => Queued = 0
(* Between the lock and the call of a poll that found nothing.             *)
CallingOK ==
  task = "calling" =>
    /\ inner.reading /\ inner.waker /\ ~ inner.done /\ inner.chunk = "none"
    /\ OutstandingReads = 0
(* A result has an empty buffer to go to, and nothing follows the last.    *)
BufferOK ==
  /\ ~ inner.done /\ Queued + reads.pending > 0 => inner.chunk = "none"
  /\ inner.done /\ ~ cancelled => Queued + reads.pending = 0
  /\ inner.chunk = "error" => inner.done
  /\ taken + Buffered <= given
(* A `then` whose read failed: the stream has ended in an error.           *)
LateOK ==
  /\ reads.late = 1 => inner.done /\ OutstandingReads = 0
  /\ reads.late = 1 /\ ~ cancelled => inner.chunk = "error" \/ answered = "failed"
(* What a poll has answered is the last thing it answers.                  *)
AnsweredOK ==
  answered # "no" => inner.done /\ (~ cancelled => inner.chunk = "none")
(* A task on its way to sleep is registered, or was woken since.           *)
WakersOK ==
  /\ task \in {"registered", "calling", "parked"} => waker \/ woken
  /\ task \in {"calling", "parked"} /\ ~ woken /\ cancelled =>
       \E c \in Cancels : caller[c] = "raised"

ReadInv ==
  /\ ClosedIsEmpty /\ CallingOK /\ BufferOK /\ LateOK /\ AnsweredOK
  /\ WakersOK /\ NoChunkLost /\ ParkedIsOwed

LEMMA QueueLength == TypeOK => Queued \in Nat
  BY DEF TypeOK, HostTypes, FunctionRecords, Queued

(* A finalized function is a function.                                     *)
LEMMA FinalizedFunction ==
  ASSUME NEW S, NEW f \in FunctionRecords(S)
  PROVE  FinalizeFunction(f) \in FunctionRecords(S)
<1>1. <<>> \in Seq(S)
  OBVIOUS
<1>. QED
  BY <1>1 DEF FinalizeFunction, FunctionRecords, Phases

(* What ThreadsafeFunctions does keeps a function a function.              *)
LEMMA FunctionsStayFunctions ==
  ASSUME NEW S, NEW f \in FunctionRecords(S), NEW d \in S
  PROVE  /\ CallWithData(f, d) \in FunctionRecords(S)
         /\ DropHandle(f) \in FunctionRecords(S)
         /\ StartClosing(f) \in FunctionRecords(S)
         /\ FinalizeFunction(f) \in FunctionRecords(S)
         /\ f.queue # <<>> => [f EXCEPT !.queue = Tail(@)] \in FunctionRecords(S)
<1>1. CallWithData(f, d) \in FunctionRecords(S)
  <2>1. Append(f.queue, d) \in Seq(S)
    BY DEF FunctionRecords
  <2>. QED
    BY <2>1 DEF CallWithData, FunctionRecords
<1>2. DropHandle(f) \in FunctionRecords(S)
  BY DEF DropHandle, FunctionRecords
<1>3. StartClosing(f) \in FunctionRecords(S)
  BY DEF StartClosing, FunctionRecords, Phases
<1>4. FinalizeFunction(f) \in FunctionRecords(S)
  BY FinalizedFunction
<1>5. f.queue # <<>> => [f EXCEPT !.queue = Tail(@)] \in FunctionRecords(S)
  <2>1. f.queue # <<>> => Tail(f.queue) \in Seq(S)
    BY DEF FunctionRecords
  <2>. QED
    BY <2>1 DEF FunctionRecords
<1>. QED
  BY <1>1, <1>2, <1>3, <1>4, <1>5

(* Storing a result keeps ReaderInner what it is.                          *)
LEMMA StoreKeepsInner ==
  ASSUME ReaderTypes, NEW result \in Results
  PROVE  Store(result) \in [chunk : {"none", "chunk", "error"}, done : BOOLEAN,
                            reading : BOOLEAN, waker : BOOLEAN]
<1>1. result.chunk \in {"none", "chunk", "error"} /\ result.done \in BOOLEAN
  <2>1. CASE result \in [chunk : {"none", "chunk"}, done : BOOLEAN]
    BY <2>1
  <2>2. CASE result = [chunk |-> "error", done |-> FALSE]
    BY <2>2
  <2>. QED
    BY <2>1, <2>2 DEF Results
<1>2. CASE inner.done \/ cancelled
  BY <1>2 DEF Store, ReaderTypes
<1>3. CASE ~ (inner.done \/ cancelled)
  <2>. DEFINE ended == inner.done \/ result.done \/ result.chunk = "error"
              kept == IF result.chunk = "none" THEN inner.chunk ELSE result.chunk
  <2>1. ended \in BOOLEAN
    BY Zenon
  <2>2. kept \in {"none", "chunk", "error"}
    BY <1>1 DEF ReaderTypes
  <2>3. Store(result) = [inner EXCEPT !.done = ended, !.chunk = kept]
    BY <1>3 DEF Store
  <2>. QED
    BY <2>1, <2>2, <2>3 DEF ReaderTypes
<1>. QED
  BY <1>2, <1>3

(* The polling task.                                                       *)
LEMMA PollKeeps ==
  ASSUME TypeOK, ReadInv, Poll
  PROVE  TypeOK' /\ ReadInv'
<1>1. ReaderTypes'
  BY DEF Poll, TypeOK, ReaderTypes, TaskPcs
<1>2. CancelTypes'
  BY DEF Poll, cancelVars, TypeOK, CancelTypes
<1>3. HostTypes'
  BY DEF Poll, hostVars, TypeOK, HostTypes
<1>4. OneRead'
  BY DEF Poll, hostVars, TypeOK, OneRead, OutstandingReads
<1>5. ReadInv'
  BY DEF Poll, hostVars, ReadInv, ClosedIsEmpty, CallingOK, BufferOK, LateOK,
        AnsweredOK, WakersOK, NoChunkLost, ParkedIsOwed, OutstandingReads, Queued,
        Buffered
<1>. QED
  BY <1>1, <1>2, <1>3, <1>4, <1>5 DEF TypeOK

LEMMA CheckCancelledKeeps ==
  ASSUME TypeOK, ReadInv, CheckCancelled
  PROVE  TypeOK' /\ ReadInv'
<1>1. ReaderTypes'
  BY DEF CheckCancelled, Checks, Answers, TypeOK, ReaderTypes, TaskPcs
<1>2. CancelTypes'
  BY DEF CheckCancelled, Checks, cancelVars, TypeOK, CancelTypes
<1>3. HostTypes'
  BY DEF CheckCancelled, Checks, hostVars, TypeOK, HostTypes
<1>4. OneRead'
  BY DEF CheckCancelled, Checks, hostVars, TypeOK, OneRead, OutstandingReads
<1>5. ReadInv'
  BY DEF CheckCancelled, Checks, hostVars, Answers, ReadInv, ClosedIsEmpty,
        CallingOK, BufferOK, LateOK, AnsweredOK, WakersOK, NoChunkLost,
        ParkedIsOwed, TypeOK, ReaderTypes, OutstandingReads, Queued, Buffered
<1>. QED
  BY <1>1, <1>2, <1>3, <1>4, <1>5 DEF TypeOK

LEMMA YieldChunkKeeps ==
  ASSUME TypeOK, ReadInv, YieldChunk
  PROVE  TypeOK' /\ ReadInv'
<1>1. ReaderTypes'
  BY DEF YieldChunk, Checks, TypeOK, ReaderTypes, Buffered, ReadInv, BufferOK,
        TaskPcs
<1>2. CancelTypes'
  BY DEF YieldChunk, Checks, cancelVars, TypeOK, CancelTypes
<1>3. HostTypes'
  BY DEF YieldChunk, Checks, hostVars, TypeOK, HostTypes
<1>4. OneRead'
  BY DEF YieldChunk, Checks, hostVars, TypeOK, OneRead, OutstandingReads
<1>5. ReadInv'
  BY DEF YieldChunk, Checks, hostVars, ReadInv, ClosedIsEmpty, CallingOK, BufferOK,
        LateOK, AnsweredOK, WakersOK, NoChunkLost, ParkedIsOwed, TypeOK,
        ReaderTypes, Queued, Buffered
<1>. QED
  BY <1>1, <1>2, <1>3, <1>4, <1>5 DEF TypeOK

LEMMA YieldErrorKeeps ==
  ASSUME TypeOK, ReadInv, YieldError
  PROVE  TypeOK' /\ ReadInv'
<1>1. ReaderTypes'
  BY DEF YieldError, Checks, Answers, TypeOK, ReaderTypes, TaskPcs
<1>2. CancelTypes'
  BY DEF YieldError, Checks, cancelVars, TypeOK, CancelTypes
<1>3. HostTypes'
  BY DEF YieldError, Checks, hostVars, TypeOK, HostTypes
<1>4. OneRead'
  BY DEF YieldError, Checks, hostVars, TypeOK, OneRead, OutstandingReads
<1>5. ReadInv'
  BY DEF YieldError, Checks, hostVars, Answers, ReadInv, ClosedIsEmpty, CallingOK,
        BufferOK, LateOK, AnsweredOK, WakersOK, NoChunkLost, ParkedIsOwed,
        OutstandingReads, Queued, Buffered
<1>. QED
  BY <1>1, <1>2, <1>3, <1>4, <1>5 DEF TypeOK

LEMMA YieldEndKeeps ==
  ASSUME TypeOK, ReadInv, YieldEnd
  PROVE  TypeOK' /\ ReadInv'
<1>1. ReaderTypes'
  BY DEF YieldEnd, Checks, Answers, TypeOK, ReaderTypes, TaskPcs
<1>2. CancelTypes'
  BY DEF YieldEnd, Checks, cancelVars, TypeOK, CancelTypes
<1>3. HostTypes'
  BY DEF YieldEnd, Checks, hostVars, TypeOK, HostTypes
<1>4. OneRead'
  BY DEF YieldEnd, Checks, hostVars, TypeOK, OneRead, OutstandingReads
<1>5. ReadInv'
  BY DEF YieldEnd, Checks, hostVars, Answers, ReadInv, ClosedIsEmpty, CallingOK,
        BufferOK, LateOK, AnsweredOK, WakersOK, NoChunkLost, ParkedIsOwed,
        OutstandingReads, Queued, Buffered
<1>. QED
  BY <1>1, <1>2, <1>3, <1>4, <1>5 DEF TypeOK

LEMMA WaitKeeps ==
  ASSUME TypeOK, ReadInv, Wait
  PROVE  TypeOK' /\ ReadInv'
<1>1. ReaderTypes'
  BY DEF Wait, Checks, TypeOK, ReaderTypes, TaskPcs
<1>2. CancelTypes'
  BY DEF Wait, Checks, cancelVars, TypeOK, CancelTypes
<1>3. HostTypes'
  BY DEF Wait, Checks, hostVars, TypeOK, HostTypes
<1>4. OneRead'
  BY DEF Wait, Checks, hostVars, TypeOK, ReaderTypes, OneRead, OutstandingReads
<1>5. ReadInv'
  BY DEF Wait, Checks, hostVars, ReadInv, ClosedIsEmpty, CallingOK, BufferOK,
        LateOK, AnsweredOK, WakersOK, NoChunkLost, ParkedIsOwed, TypeOK,
        ReaderTypes, OneRead, OutstandingReads, Queued, Buffered
<1>. QED
  BY <1>1, <1>2, <1>3, <1>4, <1>5 DEF TypeOK

LEMMA IssueReadKeeps ==
  ASSUME TypeOK, ReadInv, IssueRead
  PROVE  TypeOK' /\ ReadInv'
<1>1. ReaderTypes'
  BY DEF IssueRead, Answers, TypeOK, ReaderTypes, TaskPcs
<1>2. CancelTypes'
  BY DEF IssueRead, cancelVars, TypeOK, CancelTypes
<1>3. HostTypes'
  <2>1. CallWithData(function["read"], "read") \in FunctionRecords({"read"})
    BY FunctionsStayFunctions DEF TypeOK, HostTypes
  <2>. QED
    BY <2>1 DEF IssueRead, TypeOK, HostTypes
<1>4. OneRead' /\ ReadInv'
  <2>1. /\ inner.reading /\ inner.waker /\ ~ inner.done /\ inner.chunk = "none"
        /\ Queued = 0 /\ reads.pending = 0 /\ reads.settled = 0
    BY QueueLength
    DEF IssueRead, ReadInv, CallingOK, OutstandingReads, Queued, TypeOK, ReaderTypes
  <2>2. UNCHANGED <<woken, reads, given, taken, cancelled, caller, env>>
    BY DEF IssueRead, cancelVars
  <2>3. CASE Accepts(function["read"])
    <3>1. Queued' = 1 /\ function["read"].phase = "open" /\ function'["read"].phase = "open"
      BY <2>1, <2>3
      DEF IssueRead, Accepts, CallWithData, TypeOK, HostTypes, FunctionRecords, Queued
    <3>2. task' = "parked" /\ UNCHANGED <<answered, inner, waker>>
      BY <2>3 DEF IssueRead
    <3>3. OneRead'
      BY <2>1, <2>2, <3>1, <3>2 DEF OneRead, OutstandingReads, Queued
    <3>4. ClosedIsEmpty' /\ CallingOK' /\ BufferOK' /\ LateOK' /\ AnsweredOK'
      BY <2>1, <2>2, <3>1, <3>2
      DEF ReadInv, ClosedIsEmpty, CallingOK, BufferOK, Buffered, LateOK, AnsweredOK,
          TypeOK, ReaderTypes
    <3>5. WakersOK' /\ NoChunkLost' /\ ParkedIsOwed'
      BY <2>1, <2>2, <3>1, <3>2
      DEF IssueRead, ReadInv, WakersOK, NoChunkLost, ParkedIsOwed, OutstandingReads, Queued
    <3>. QED
      BY <3>3, <3>4, <3>5 DEF ReadInv
  <2>4. CASE ~ Accepts(function["read"])
    <3>1. Queued' = 0 /\ function'["read"].phase = function["read"].phase
      BY <2>1, <2>4
      DEF IssueRead, CallWithData, TypeOK, HostTypes, FunctionRecords, Queued
    <3>2. /\ inner' = [inner EXCEPT !.reading = FALSE, !.done = TRUE, !.waker = FALSE]
          /\ task' = "ready" /\ answered' = IF answered = "no" THEN "failed" ELSE answered
      BY <2>4 DEF IssueRead, Answers
    <3>3. ~ inner'.reading /\ inner'.done /\ inner'.chunk = "none"
      BY <2>1, <3>2 DEF TypeOK, ReaderTypes
    <3>4. OneRead'
      BY <2>1, <2>2, <3>1, <3>3 DEF OneRead, OutstandingReads, Queued
    <3>5. ClosedIsEmpty' /\ CallingOK' /\ BufferOK' /\ LateOK' /\ AnsweredOK'
      BY <2>1, <2>2, <3>1, <3>2, <3>3
      DEF ReadInv, ClosedIsEmpty, CallingOK, BufferOK, Buffered, LateOK, AnsweredOK,
          OutstandingReads, Queued, TypeOK, ReaderTypes
    <3>6. WakersOK' /\ NoChunkLost' /\ ParkedIsOwed'
      BY <2>1, <2>2, <3>2, <3>3
      DEF ReadInv, WakersOK, NoChunkLost, ParkedIsOwed, TypeOK, ReaderTypes
    <3>. QED
      BY <3>4, <3>5, <3>6 DEF ReadInv
  <2>. QED
    BY <2>3, <2>4
<1>. QED
  BY <1>1, <1>2, <1>3, <1>4 DEF TypeOK

LEMMA DropReaderKeeps ==
  ASSUME TypeOK, ReadInv, DropReader
  PROVE  TypeOK' /\ ReadInv'
<1>1. ReaderTypes'
  BY DEF DropReader, TypeOK, ReaderTypes, TaskPcs
<1>2. CancelTypes'
  BY DEF DropReader, cancelVars, TypeOK, CancelTypes
<1>3. HostTypes'
  BY DEF DropReader, Forgets, DropHandle, TypeOK, HostTypes, FunctionRecords
<1>4. OneRead'
  BY DEF DropReader, Forgets, DropHandle, TypeOK, ReaderTypes, HostTypes, OneRead,
        OutstandingReads, FunctionRecords
<1>5. ReadInv'
  BY DEF DropReader, Forgets, DropHandle, ReadInv, ClosedIsEmpty, CallingOK,
        BufferOK, LateOK, AnsweredOK, WakersOK, NoChunkLost, ParkedIsOwed, TypeOK,
        ReaderTypes, CancelTypes, HostTypes, OneRead, FunctionRecords,
        OutstandingReads, Queued, Buffered
<1>. QED
  BY <1>1, <1>2, <1>3, <1>4, <1>5 DEF TypeOK

(* The read on the JavaScript thread.                                      *)
LEMMA RunReadKeeps ==
  ASSUME TypeOK, ReadInv, RunRead
  PROVE  TypeOK' /\ ReadInv'
<1>1. ReaderTypes'
  BY DEF RunRead, TakesCall, TypeOK, ReaderTypes, OneRead, OutstandingReads
<1>2. CancelTypes'
  BY DEF RunRead, signalVars, cancelVars, TypeOK, CancelTypes
<1>3. HostTypes'
  <2>1. [function["read"] EXCEPT !.queue = Tail(@)] \in FunctionRecords({"read"})
    BY FunctionsStayFunctions DEF RunRead, TakesCall, TypeOK, HostTypes
  <2>. QED
    BY <2>1 DEF RunRead, TakesCall, TypeOK, HostTypes
<1>4. OneRead'
  BY DEF RunRead, TakesCall, TypeOK, ReaderTypes, HostTypes, OneRead,
        OutstandingReads
<1>5. ReadInv'
  BY DEF RunRead, TakesCall, signalVars, cancelVars, ReadInv, ClosedIsEmpty,
        CallingOK, BufferOK, LateOK, AnsweredOK, WakersOK, NoChunkLost,
        ParkedIsOwed, TypeOK, ReaderTypes, HostTypes, OutstandingReads, Queued,
        Buffered
<1>. QED
  BY <1>1, <1>2, <1>3, <1>4, <1>5 DEF TypeOK

LEMMA FailReadKeeps ==
  ASSUME TypeOK, ReadInv, FailRead
  PROVE  TypeOK' /\ ReadInv'
<1>1. ReaderTypes'
  <2>1. Queued # 0
    BY DEF FailRead, TakesCall, TypeOK, HostTypes, FunctionRecords, Queued
  <2>2. reads.late = 0
    BY <2>1, QueueLength
    DEF ReadInv, LateOK, OutstandingReads, TypeOK, ReaderTypes, Queued
  <2>3. reads' \in [pending : 0..1, settled : 0..1, late : 0..1]
    BY <2>2 DEF FailRead, TypeOK, ReaderTypes
  <2>. QED
    BY <2>3 DEF FailRead, WakesTask, TypeOK, ReaderTypes
<1>2. CancelTypes'
  BY DEF FailRead, signalVars, cancelVars, TypeOK, CancelTypes
<1>3. HostTypes'
  <2>1. [function["read"] EXCEPT !.queue = Tail(@)] \in FunctionRecords({"read"})
    BY FunctionsStayFunctions DEF FailRead, TakesCall, TypeOK, HostTypes
  <2>. QED
    BY <2>1 DEF FailRead, TakesCall, TypeOK, HostTypes
<1>4. OneRead'
  BY DEF FailRead, TakesCall, TypeOK, ReaderTypes, HostTypes, OneRead,
        OutstandingReads
<1>5. ReadInv'
  BY DEF FailRead, TakesCall, WakesTask, signalVars, ReadInv, ClosedIsEmpty,
        CallingOK, BufferOK, LateOK, AnsweredOK, WakersOK, NoChunkLost,
        ParkedIsOwed, TypeOK, ReaderTypes, HostTypes, OneRead, OutstandingReads,
        Queued, Buffered
<1>. QED
  BY <1>1, <1>2, <1>3, <1>4, <1>5 DEF TypeOK

LEMMA ReadSettlesKeeps ==
  ASSUME TypeOK, ReadInv, ReadSettles
  PROVE  TypeOK' /\ ReadInv'
<1>1. ReaderTypes'
  <2>1. reads' \in [pending : 0..1, settled : 0..1, late : 0..1]
    <3>1. reads.pending = 1 /\ reads.settled = 0 /\ reads.late \in 0..1
      BY QueueLength
      DEF ReadSettles, TypeOK, ReaderTypes, HostTypes, OneRead, OutstandingReads, Queued
    <3>2. reads' = [reads EXCEPT !.pending = 0, !.settled = 1]
      BY <3>1 DEF ReadSettles
    <3>. QED
      BY <3>1, <3>2 DEF TypeOK, ReaderTypes
  <2>2. PICK result \in Results : Gives(result) /\ inner' = Store(result)
    BY Zenon DEF ReadSettles
  <2>3. inner' \in [chunk : {"none", "chunk", "error"}, done : BOOLEAN,
                    reading : BOOLEAN, waker : BOOLEAN]
    BY <2>2, StoreKeepsInner DEF TypeOK
  <2>4. given' \in 0..MaxChunks /\ taken' \in 0..given'
    BY <2>2, ChunksAssumption DEF Gives, ReadSettles, TypeOK, ReaderTypes
  <2>. QED
    BY <2>1, <2>3, <2>4 DEF ReadSettles, TypeOK, ReaderTypes
<1>2. CancelTypes'
  BY DEF ReadSettles, signalVars, cancelVars, TypeOK, CancelTypes
<1>3. HostTypes'
  BY DEF ReadSettles, hostVars, TypeOK, HostTypes
<1>4. OneRead'
  BY DEF ReadSettles, Store, hostVars, TypeOK, ReaderTypes, OneRead,
        OutstandingReads
<1>5. ReadInv'
  BY ChunksAssumption
  DEF ReadSettles, Gives, Store, signalVars, cancelVars, hostVars, ReadInv,
        ClosedIsEmpty, CallingOK, BufferOK, LateOK, AnsweredOK, WakersOK,
        NoChunkLost, ParkedIsOwed, TypeOK, ReaderTypes, HostTypes, OneRead,
        OutstandingReads, Queued, Buffered
<1>. QED
  BY <1>1, <1>2, <1>3, <1>4, <1>5 DEF TypeOK

LEMMA FinallyKeeps ==
  ASSUME TypeOK, ReadInv, Finally
  PROVE  TypeOK' /\ ReadInv'
<1>1. ReaderTypes'
  <2>1. reads' \in [pending : 0..1, settled : 0..1, late : 0..1]
    BY DEF Finally, TypeOK, ReaderTypes
  <2>. QED
    BY <2>1 DEF Finally, WakesTask, TypeOK, ReaderTypes
<1>2. CancelTypes'
  BY DEF Finally, signalVars, cancelVars, TypeOK, CancelTypes
<1>3. HostTypes'
  BY DEF Finally, hostVars, TypeOK, HostTypes
<1>4. OneRead'
  BY DEF Finally, hostVars, TypeOK, ReaderTypes, OneRead, OutstandingReads
<1>5. ReadInv'
  BY DEF Finally, WakesTask, signalVars, hostVars, ReadInv, ClosedIsEmpty,
        CallingOK, BufferOK, LateOK, AnsweredOK, WakersOK, NoChunkLost,
        ParkedIsOwed, TypeOK, ReaderTypes, HostTypes, OutstandingReads, Queued,
        Buffered
<1>. QED
  BY <1>1, <1>2, <1>3, <1>4, <1>5 DEF TypeOK

LEMMA LateSettlesKeeps ==
  ASSUME TypeOK, ReadInv, LateSettles
  PROVE  TypeOK' /\ ReadInv'
<1>1. ReaderTypes'
  BY ChunksAssumption
  DEF LateSettles, Gives, Store, cancelVars, TypeOK, ReaderTypes, ReadInv, LateOK
<1>2. CancelTypes'
  BY DEF LateSettles, signalVars, cancelVars, TypeOK, CancelTypes
<1>3. HostTypes'
  BY DEF LateSettles, hostVars, TypeOK, HostTypes
<1>4. OneRead'
  BY DEF LateSettles, Store, hostVars, TypeOK, OneRead, OutstandingReads
<1>5. ReadInv'
  BY DEF LateSettles, Gives, Store, signalVars, hostVars, ReadInv, ClosedIsEmpty,
        CallingOK, BufferOK, LateOK, AnsweredOK, WakersOK, NoChunkLost,
        ParkedIsOwed, TypeOK, ReaderTypes, Queued, Buffered
<1>. QED
  BY <1>1, <1>2, <1>3, <1>4, <1>5 DEF TypeOK

(* The callers of a cancel, and the calls they queue.                      *)
LEMMA RaiseFlagKeeps ==
  ASSUME TypeOK, ReadInv, NEW c \in Cancels, RaiseFlag(c)
  PROVE  TypeOK' /\ ReadInv'
<1>1. ReaderTypes'
  BY DEF RaiseFlag, readVars, TypeOK, ReaderTypes
<1>2. CancelTypes'
  BY DEF RaiseFlag, Moves, TypeOK, CancelTypes, CallerPcs
<1>3. HostTypes'
  BY DEF RaiseFlag, hostVars, TypeOK, HostTypes
<1>4. OneRead'
  BY DEF RaiseFlag, readVars, hostVars, TypeOK, OneRead, OutstandingReads
<1>5. ReadInv'
  BY DEF RaiseFlag, Moves, readVars, hostVars, ReadInv, ClosedIsEmpty, CallingOK,
        BufferOK, LateOK, AnsweredOK, WakersOK, NoChunkLost, ParkedIsOwed, TypeOK,
        CancelTypes, OutstandingReads, Queued, Buffered
<1>. QED
  BY <1>1, <1>2, <1>3, <1>4, <1>5 DEF TypeOK

LEMMA WakeReaderKeeps ==
  ASSUME TypeOK, ReadInv, NEW c \in Cancels, WakeReader(c)
  PROVE  TypeOK' /\ ReadInv'
<1>1. ReaderTypes'
  BY DEF WakeReader, TypeOK, ReaderTypes
<1>2. CancelTypes'
  BY DEF WakeReader, Moves, TypeOK, CancelTypes, CallerPcs
<1>3. HostTypes'
  BY DEF WakeReader, hostVars, TypeOK, HostTypes
<1>4. OneRead'
  BY DEF WakeReader, hostVars, TypeOK, OneRead, OutstandingReads
<1>5. ReadInv'
  BY DEF WakeReader, hostVars, ReadInv, ClosedIsEmpty, CallingOK, BufferOK, LateOK,
        AnsweredOK, WakersOK, NoChunkLost, ParkedIsOwed, TypeOK, ReaderTypes,
        CancelTypes, OutstandingReads, Queued, Buffered
<1>. QED
  BY <1>1, <1>2, <1>3, <1>4, <1>5 DEF TypeOK

LEMMA CancelHereKeeps ==
  ASSUME TypeOK, ReadInv, NEW c \in Cancels, CancelHere(c)
  PROVE  TypeOK' /\ ReadInv'
<1>1. ReaderTypes'
  BY DEF CancelHere, readVars, TypeOK, ReaderTypes
<1>2. CancelTypes'
  BY DEF CancelHere, Moves, Settled, Resolve, signalVars, TypeOK, CancelTypes,
        CallerPcs
<1>3. HostTypes'
  BY DEF CancelHere, hostVars, TypeOK, HostTypes
<1>4. OneRead'
  BY DEF CancelHere, readVars, hostVars, TypeOK, OneRead, OutstandingReads
<1>5. ReadInv'
  BY DEF CancelHere, Moves, readVars, signalVars, hostVars, ReadInv, ClosedIsEmpty,
        CallingOK, BufferOK, LateOK, AnsweredOK, WakersOK, NoChunkLost,
        ParkedIsOwed, OutstandingReads, Queued, Buffered
<1>. QED
  BY <1>1, <1>2, <1>3, <1>4, <1>5 DEF TypeOK

LEMMA InsertKeeps ==
  ASSUME TypeOK, ReadInv, NEW c \in Cancels, Insert(c)
  PROVE  TypeOK' /\ ReadInv'
<1>1. ReaderTypes'
  BY DEF Insert, readVars, TypeOK, ReaderTypes
<1>2. CancelTypes'
  BY DEF Insert, Moves, Resolve, signalVars, TypeOK, CancelTypes, CallerPcs
<1>3. HostTypes'
  BY DEF Insert, hostVars, TypeOK, HostTypes
<1>4. OneRead'
  BY DEF Insert, readVars, hostVars, TypeOK, OneRead, OutstandingReads
<1>5. ReadInv'
  BY DEF Insert, Moves, readVars, signalVars, hostVars, ReadInv, ClosedIsEmpty,
        CallingOK, BufferOK, LateOK, AnsweredOK, WakersOK, NoChunkLost,
        ParkedIsOwed, TypeOK, CancelTypes, OutstandingReads, Queued, Buffered
<1>. QED
  BY <1>1, <1>2, <1>3, <1>4, <1>5 DEF TypeOK

LEMMA CallCancelKeeps ==
  ASSUME TypeOK, ReadInv, NEW c \in Cancels, CallCancel(c)
  PROVE  TypeOK' /\ ReadInv'
<1>1. ReaderTypes'
  BY DEF CallCancel, readVars, TypeOK, ReaderTypes
<1>2. CancelTypes'
  BY DEF CallCancel, Moves, signalVars, TypeOK, CancelTypes, CallerPcs
<1>3. HostTypes'
  <2>1. CallWithData(function["cancel"], c) \in FunctionRecords(Cancels)
    BY FunctionsStayFunctions DEF TypeOK, HostTypes
  <2>. QED
    BY <2>1 DEF CallCancel, TypeOK, HostTypes
<1>4. OneRead'
  BY DEF CallCancel, readVars, TypeOK, OneRead, OutstandingReads
<1>5. ReadInv'
  BY DEF CallCancel, Moves, readVars, signalVars, ReadInv, ClosedIsEmpty, CallingOK,
        BufferOK, LateOK, AnsweredOK, WakersOK, NoChunkLost, ParkedIsOwed,
        OutstandingReads, Queued, Buffered
<1>. QED
  BY <1>1, <1>2, <1>3, <1>4, <1>5 DEF TypeOK

LEMMA TakeBackKeeps ==
  ASSUME TypeOK, ReadInv, NEW c \in Cancels, TakeBack(c)
  PROVE  TypeOK' /\ ReadInv'
<1>1. ReaderTypes'
  BY DEF TakeBack, readVars, TypeOK, ReaderTypes
<1>2. CancelTypes'
  BY DEF TakeBack, Moves, Resolve, signalVars, TypeOK, CancelTypes, CallerPcs
<1>3. HostTypes'
  BY DEF TakeBack, hostVars, TypeOK, HostTypes
<1>4. OneRead'
  BY DEF TakeBack, readVars, hostVars, TypeOK, OneRead, OutstandingReads
<1>5. ReadInv'
  BY DEF TakeBack, Moves, readVars, signalVars, hostVars, ReadInv, ClosedIsEmpty,
        CallingOK, BufferOK, LateOK, AnsweredOK, WakersOK, NoChunkLost,
        ParkedIsOwed, OutstandingReads, Queued, Buffered
<1>. QED
  BY <1>1, <1>2, <1>3, <1>4, <1>5 DEF TypeOK

LEMMA RunCancelKeeps ==
  ASSUME TypeOK, ReadInv, NEW c \in Cancels, RunCancel(c)
  PROVE  TypeOK' /\ ReadInv'
<1>1. ReaderTypes'
  BY DEF RunCancel, readVars, TypeOK, ReaderTypes
<1>2. CancelTypes'
  BY DEF RunCancel, Settled, Resolve, signalVars, TypeOK, CancelTypes
<1>3. HostTypes'
  <2>1. [function["cancel"] EXCEPT !.queue = Tail(@)] \in FunctionRecords(Cancels)
    BY FunctionsStayFunctions DEF RunCancel, TakesCall, TypeOK, HostTypes
  <2>. QED
    BY <2>1 DEF RunCancel, TakesCall, TypeOK, HostTypes
<1>4. OneRead'
  BY DEF RunCancel, TakesCall, readVars, TypeOK, OneRead, OutstandingReads
<1>5. ReadInv'
  BY DEF RunCancel, TakesCall, readVars, signalVars, ReadInv, ClosedIsEmpty,
        CallingOK, BufferOK, LateOK, AnsweredOK, WakersOK, NoChunkLost,
        ParkedIsOwed, OutstandingReads, Queued, Buffered
<1>. QED
  BY <1>1, <1>2, <1>3, <1>4, <1>5 DEF TypeOK

LEMMA CancelSettlesKeeps ==
  ASSUME TypeOK, ReadInv, NEW c \in Cancels, CancelSettles(c)
  PROVE  TypeOK' /\ ReadInv'
<1>1. ReaderTypes'
  BY DEF CancelSettles, readVars, TypeOK, ReaderTypes
<1>2. CancelTypes'
  BY DEF CancelSettles, Resolve, signalVars, TypeOK, CancelTypes
<1>3. HostTypes'
  BY DEF CancelSettles, hostVars, TypeOK, HostTypes
<1>4. OneRead'
  BY DEF CancelSettles, readVars, hostVars, TypeOK, OneRead, OutstandingReads
<1>5. ReadInv'
  BY DEF CancelSettles, readVars, signalVars, hostVars, ReadInv, ClosedIsEmpty,
        CallingOK, BufferOK, LateOK, AnsweredOK, WakersOK, NoChunkLost,
        ParkedIsOwed, OutstandingReads, Queued, Buffered
<1>. QED
  BY <1>1, <1>2, <1>3, <1>4, <1>5 DEF TypeOK

(* Handles, functions and the environment go away.                         *)
LEMMA DropCancelHandleKeeps ==
  ASSUME TypeOK, ReadInv, DropCancelHandle
  PROVE  TypeOK' /\ ReadInv'
<1>1. ReaderTypes'
  BY DEF DropCancelHandle, readVars, TypeOK, ReaderTypes
<1>2. CancelTypes'
  BY DEF DropCancelHandle, signalVars, cancelVars, TypeOK, CancelTypes
<1>3. HostTypes'
  BY DEF DropCancelHandle, Forgets, DropHandle, TypeOK, HostTypes, FunctionRecords
<1>4. OneRead'
  BY DEF DropCancelHandle, Forgets, readVars, TypeOK, OneRead, OutstandingReads
<1>5. ReadInv'
  BY DEF DropCancelHandle, Forgets, readVars, signalVars, ReadInv, ClosedIsEmpty,
        CallingOK, BufferOK, LateOK, AnsweredOK, WakersOK, NoChunkLost,
        ParkedIsOwed, OutstandingReads, Queued, Buffered
<1>. QED
  BY <1>1, <1>2, <1>3, <1>4, <1>5 DEF TypeOK

LEMMA CloseDrainedKeeps ==
  ASSUME TypeOK, ReadInv, NEW f \in {"read", "cancel"}, CloseDrained(f)
  PROVE  TypeOK' /\ ReadInv'
<1>1. ReaderTypes'
  BY DEF CloseDrained, readVars, TypeOK, ReaderTypes
<1>2. CancelTypes'
  BY DEF CloseDrained, signalVars, cancelVars, TypeOK, CancelTypes
<1>3. HostTypes'
  BY DEF CloseDrained, Drained, StartClosing, TypeOK, HostTypes, FunctionRecords,
        Phases
<1>4. OneRead'
  BY DEF CloseDrained, StartClosing, readVars, TypeOK, OneRead, OutstandingReads
<1>5. ReadInv'
  BY DEF CloseDrained, Drained, StartClosing, readVars, signalVars, cancelVars,
        ReadInv, ClosedIsEmpty, CallingOK, BufferOK, LateOK, AnsweredOK, WakersOK,
        NoChunkLost, ParkedIsOwed, OutstandingReads, Queued, Buffered
<1>. QED
  BY <1>1, <1>2, <1>3, <1>4, <1>5 DEF TypeOK

LEMMA FinalizeKeeps ==
  ASSUME TypeOK, ReadInv, NEW f \in {"read", "cancel"}, Finalize(f)
  PROVE  TypeOK' /\ ReadInv'
<1>1. ReaderTypes'
  BY DEF Finalize, readVars, TypeOK, ReaderTypes
<1>2. CancelTypes'
  BY DEF Finalize, CloseQueued, Resolve, signalVars, TypeOK, CancelTypes
<1>3. HostTypes'
  <2>1. /\ FinalizeFunction(function["read"]) \in FunctionRecords({"read"})
        /\ FinalizeFunction(function["cancel"]) \in FunctionRecords(Cancels)
    BY FinalizedFunction DEF TypeOK, HostTypes
  <2>. QED
    BY <2>1 DEF Finalize, TypeOK, HostTypes
<1>4. OneRead'
  BY DEF Finalize, FinalizeFunction, readVars, TypeOK, ReaderTypes, OneRead,
        OutstandingReads, Queued, ReadInv, ClosedIsEmpty
<1>5. ReadInv'
  BY DEF Finalize, FinalizeFunction, readVars, signalVars, ReadInv, ClosedIsEmpty,
        CallingOK, BufferOK, LateOK, AnsweredOK, WakersOK, NoChunkLost,
        ParkedIsOwed, TypeOK, ReaderTypes, OutstandingReads, Queued, Buffered
<1>. QED
  BY <1>1, <1>2, <1>3, <1>4, <1>5 DEF TypeOK

LEMMA EnvClosesKeeps ==
  ASSUME TypeOK, ReadInv, EnvCloses
  PROVE  TypeOK' /\ ReadInv'
<1>1. ReaderTypes'
  BY DEF EnvCloses, readVars, TypeOK, ReaderTypes
<1>2. CancelTypes'
  BY DEF EnvCloses, signalVars, cancelVars, TypeOK, CancelTypes
<1>3. HostTypes'
  BY DEF EnvCloses, StartClosing, TypeOK, HostTypes, FunctionRecords, Phases
<1>4. OneRead'
  BY DEF EnvCloses, StartClosing, readVars, TypeOK, HostTypes, OneRead,
        OutstandingReads
<1>5. ReadInv'
  BY DEF EnvCloses, StartClosing, readVars, signalVars, cancelVars, ReadInv,
        ClosedIsEmpty, CallingOK, BufferOK, LateOK, AnsweredOK, WakersOK,
        NoChunkLost, ParkedIsOwed, TypeOK, HostTypes, OutstandingReads, Queued,
        Buffered
<1>. QED
  BY <1>1, <1>2, <1>3, <1>4, <1>5 DEF TypeOK

LEMMA EnvEndsKeeps ==
  ASSUME TypeOK, ReadInv, EnvEnds
  PROVE  TypeOK' /\ ReadInv'
<1>1. ReaderTypes'
  BY DEF EnvEnds, readVars, TypeOK, ReaderTypes
<1>2. CancelTypes'
  BY DEF EnvEnds, Resolve, signalVars, TypeOK, CancelTypes
<1>3. HostTypes'
  BY DEF EnvEnds, TypeOK, HostTypes
<1>4. OneRead'
  BY DEF EnvEnds, readVars, TypeOK, OneRead, OutstandingReads
<1>5. ReadInv'
  BY DEF EnvEnds, readVars, signalVars, ReadInv, ClosedIsEmpty, CallingOK, BufferOK,
        LateOK, AnsweredOK, WakersOK, NoChunkLost, ParkedIsOwed, OutstandingReads,
        Queued, Buffered
<1>. QED
  BY <1>1, <1>2, <1>3, <1>4, <1>5 DEF TypeOK

-----------------------------------------------------------------------------
(* The induction. *)

LEMMA InitOK == Init => TypeOK /\ ReadInv
<1>. SUFFICES ASSUME Init PROVE TypeOK /\ ReadInv
  OBVIOUS
<1>1. NewFunction \in FunctionRecords({"read"}) /\ NewFunction \in FunctionRecords(Cancels)
  <2>1. <<>> \in Seq({"read"}) /\ <<>> \in Seq(Cancels)
    OBVIOUS
  <2>. QED
    BY <2>1 DEF NewFunction, FunctionRecords, Phases
<1>2. ReaderTypes
  <2>1. 0 \in 0..MaxChunks /\ 0 \in 0..0 /\ 0 \in 0..1
    BY ChunksAssumption
  <2>. QED
    BY <2>1 DEF Init, ReaderTypes, TaskPcs
<1>3. CancelTypes
  BY DEF Init, CancelTypes, CallerPcs
<1>4. HostTypes
  BY <1>1 DEF Init, HostTypes
<1>5. OutstandingReads = 0 /\ Queued = 0
  BY DEF Init, OutstandingReads, Queued, NewFunction
<1>6. OneRead
  BY <1>5 DEF Init, OneRead
<1>7. ReadInv
  BY <1>5
  DEF Init, ReadInv, ClosedIsEmpty, CallingOK, BufferOK, Buffered, LateOK, AnsweredOK,
      WakersOK, NoChunkLost, ParkedIsOwed
<1>. QED
  BY <1>2, <1>3, <1>4, <1>6, <1>7 DEF TypeOK

LEMMA NextKeeps ==
  ASSUME TypeOK, ReadInv, [Next]_vars
  PROVE  TypeOK' /\ ReadInv'
<1>1. CASE Poll \/ DropReader
  BY <1>1, PollKeeps, DropReaderKeeps
<1>2. CASE TaskStep
  BY <1>2, CheckCancelledKeeps, YieldChunkKeeps, YieldErrorKeeps, YieldEndKeeps,
     WaitKeeps, IssueReadKeeps DEF TaskStep
<1>3. ASSUME NEW c \in Cancels, RaiseFlag(c) \/ CallerStep(c) \/ CancelSettles(c)
      PROVE  TypeOK' /\ ReadInv'
  BY <1>3, RaiseFlagKeeps, WakeReaderKeeps, CancelHereKeeps, InsertKeeps,
     CallCancelKeeps, TakeBackKeeps, CancelSettlesKeeps DEF CallerStep
<1>4. CASE ReadSettles \/ LateSettles \/ DropCancelHandle \/ EnvCloses
  BY <1>4, ReadSettlesKeeps, LateSettlesKeeps, DropCancelHandleKeeps, EnvClosesKeeps
<1>5. CASE HostStep
  <2>1. DOMAIN function = {"read", "cancel"}
    BY DEF TypeOK, HostTypes
  <2>2. ASSUME NEW f \in DOMAIN function, CloseDrained(f) \/ Finalize(f)
        PROVE  TypeOK' /\ ReadInv'
    BY <2>1, <2>2, CloseDrainedKeeps, FinalizeKeeps
  <2>. QED
    BY <1>5, <2>2, RunReadKeeps, FailReadKeeps, FinallyKeeps, RunCancelKeeps, EnvEndsKeeps
    DEF HostStep
<1>6. CASE UNCHANGED vars
  BY <1>6
  DEF vars, readVars, signalVars, cancelVars, hostVars, TypeOK, ReaderTypes, CancelTypes,
      HostTypes, OneRead, OutstandingReads, ReadInv, ClosedIsEmpty, CallingOK, BufferOK,
      Buffered, LateOK, AnsweredOK, WakersOK, NoChunkLost, ParkedIsOwed, Queued
<1>. QED
  BY <1>1, <1>2, <1>3, <1>4, <1>5, <1>6 DEF Next

(* The invariant the other theorems are read off.                         *)
THEOREM AlwaysOK == Spec => [](TypeOK /\ ReadInv)
  BY InitOK, NextKeeps, PTL DEF Spec

(* The types hold for any number of cancels and chunks: at most one read   *)
(* is ever outstanding, and the reader's flag says so (read.rs, poll_next).*)
THEOREM TypeCorrect == Spec => []TypeOK
  BY AlwaysOK, PTL

(* Whatever the source gave is yielded, or in the buffer before any answer *)
(* of the end, unless the reader was canceled or the stream failed: no     *)
(* result of a read overwrites one, and the end overtakes none.            *)
THEOREM NoChunkIsLost == Spec => []NoChunkLost
<1>1. ReadInv => NoChunkLost
  BY DEF ReadInv
<1>. QED
  BY <1>1, AlwaysOK, PTL

(* A task that sleeps has a waker that somebody is left to use.            *)
THEOREM ParkedTaskIsOwed == Spec => []ParkedIsOwed
<1>1. ReadInv => ParkedIsOwed
  BY DEF ReadInv
<1>. QED
  BY <1>1, AlwaysOK, PTL

(* No poll yields a chunk once one has answered the end or an error.       *)
THEOREM NothingFollowsTheEnd == Spec => EndIsFinal
<1>1. ASSUME TypeOK, ReadInv, [Next]_vars
      PROVE  [answered # "no" => taken' = taken]_vars
  <2>1. CASE UNCHANGED vars
    BY <2>1
  <2>2. CASE YieldChunk
    <3>1. answered = "no"
      BY <1>1, <2>2 DEF YieldChunk, Checks, ReadInv, AnsweredOK
    <3>. QED
      BY <3>1
  <2>3. ASSUME Next, ~ YieldChunk
        PROVE  taken' = taken
    BY <2>3
    DEF Next, TaskStep, CallerStep, HostStep, Poll, Checks, CheckCancelled, YieldError,
        YieldEnd, Wait, IssueRead, DropReader, RunRead, FailRead, ReadSettles, Finally,
        LateSettles, RaiseFlag, WakeReader, CancelHere, Insert, CallCancel, TakeBack,
        RunCancel, CancelSettles, DropCancelHandle, CloseDrained, Finalize, EnvCloses,
        EnvEnds, readVars
  <2>. QED
    BY <1>1, <2>1, <2>2, <2>3
<1>. QED
  BY <1>1, AlwaysOK, PTL DEF Spec, EndIsFinal

-----------------------------------------------------------------------------
(* The senders of cancels. *)

InQueue(c, queue) == \E i \in 1..Len(queue) : queue[i] = c

(* A future that is not resolved has a sender that is still somewhere.     *)
SenderIsHeld ==
  \A c \in Cancels : future[c] = "pending" =>
    \/ c \in following
    \/ /\ c \in senders /\ ~ refusing
       /\ caller[c] \in {"call", "refused"} \/ InQueue(c, function["cancel"].queue)

(* What is queued stays queued until it is taken.                          *)
LEMMA QueueKeeps ==
  ASSUME NEW S, NEW queue \in Seq(S), NEW c \in S
  PROVE  /\ \A d \in S : InQueue(c, queue) => InQueue(c, Append(queue, d))
         /\ InQueue(c, Append(queue, c))
         /\ queue # <<>> /\ Head(queue) # c /\ InQueue(c, queue) => InQueue(c, Tail(queue))
<1>1. ASSUME NEW d \in S, InQueue(c, queue)
      PROVE  InQueue(c, Append(queue, d))
  BY <1>1 DEF InQueue
<1>2. InQueue(c, Append(queue, c))
  <2>1. Append(queue, c)[Len(queue) + 1] = c /\ Len(Append(queue, c)) = Len(queue) + 1
    OBVIOUS
  <2>. QED
    BY <2>1 DEF InQueue
<1>3. ASSUME queue # <<>>, Head(queue) # c, InQueue(c, queue)
      PROVE  InQueue(c, Tail(queue))
  <2>1. PICK i \in 1..Len(queue) : queue[i] = c
    BY <1>3 DEF InQueue
  <2>2. i # 1
    BY <1>3, <2>1
  <2>3. i - 1 \in 1..Len(Tail(queue)) /\ Tail(queue)[i - 1] = queue[i]
    BY <1>3, <2>2
  <2>. QED
    BY <2>1, <2>3 DEF InQueue
<1>. QED
  BY <1>1, <1>2, <1>3

(* Steps that touch no cancel and leave its queue alone.                   *)
LEMMA OthersKeepSenders ==
  ASSUME TypeOK, SenderIsHeld, UNCHANGED cancelVars,
         function'["cancel"].queue = function["cancel"].queue
  PROVE  SenderIsHeld'
  BY DEF SenderIsHeld, InQueue, cancelVars

(* Each step of a caller, of the host and of what closes keeps it.         *)
LEMMA CallersKeepSenders ==
  ASSUME TypeOK, SenderIsHeld, NEW d \in Cancels,
         RaiseFlag(d) \/ CallerStep(d) \/ CancelSettles(d)
  PROVE  SenderIsHeld'
<1>. SUFFICES ASSUME NEW c \in Cancels, future'[c] = "pending"
              PROVE  \/ c \in following'
                     \/ /\ c \in senders' /\ ~ refusing'
                        /\ \/ caller'[c] \in {"call", "refused"}
                           \/ InQueue(c, function'["cancel"].queue)
  BY DEF SenderIsHeld
<1>1. CASE RaiseFlag(d) \/ WakeReader(d)
  BY <1>1 DEF RaiseFlag, WakeReader, Moves, hostVars, SenderIsHeld, TypeOK, CancelTypes
<1>2. CASE CancelHere(d) \/ CancelSettles(d)
  BY <1>2 DEF CancelHere, CancelSettles, Settled, Resolve, Moves, hostVars, SenderIsHeld,
     TypeOK, CancelTypes
<1>3. CASE Insert(d) \/ TakeBack(d)
  BY <1>3 DEF Insert, TakeBack, Resolve, Moves, hostVars, SenderIsHeld, TypeOK, CancelTypes
<1>4. CASE CallCancel(d)
  <2>1. /\ function["cancel"].queue \in Seq(Cancels)
        /\ IF Accepts(function["cancel"])
           THEN function'["cancel"].queue = Append(function["cancel"].queue, d)
           ELSE function'["cancel"].queue = function["cancel"].queue
    BY <1>4 DEF CallCancel, CallWithData, TypeOK, HostTypes, FunctionRecords
  <2>2. /\ UNCHANGED <<senders, refusing, following, future>>
        /\ caller' = [caller EXCEPT ![d] =
             IF Accepts(function["cancel"]) THEN "over" ELSE "refused"]
    BY <1>4 DEF CallCancel, Moves
  <2>3. \/ c \in following
        \/ /\ c \in senders /\ ~ refusing
           /\ \/ caller[c] \in {"call", "refused"}
              \/ InQueue(c, function["cancel"].queue)
    BY <2>2 DEF SenderIsHeld
  <2>4. CASE c = d
    BY <1>4, <2>1, <2>2, <2>3, <2>4, QueueKeeps DEF TypeOK, CancelTypes
  <2>5. CASE c # d
    <3>1. InQueue(c, function["cancel"].queue) => InQueue(c, function'["cancel"].queue)
      BY <2>1, QueueKeeps
    <3>2. caller'[c] = caller[c]
      BY <2>2, <2>5 DEF TypeOK, CancelTypes
    <3>. QED
      BY <2>2, <2>3, <3>1, <3>2
  <2>. QED
    BY <2>4, <2>5
<1>. QED
  BY <1>1, <1>2, <1>3, <1>4 DEF CallerStep

LEMMA HostKeepsSenders ==
  ASSUME TypeOK, SenderIsHeld, NEW d \in Cancels, RunCancel(d)
  PROVE  SenderIsHeld'
<1>. SUFFICES ASSUME NEW c \in Cancels, future'[c] = "pending"
              PROVE  \/ c \in following'
                     \/ /\ c \in senders' /\ ~ refusing'
                        /\ \/ caller'[c] \in {"call", "refused"}
                           \/ InQueue(c, function'["cancel"].queue)
  BY DEF SenderIsHeld
<1>1. /\ function["cancel"].queue \in Seq(Cancels) /\ function["cancel"].queue # <<>>
      /\ Head(function["cancel"].queue) = d
      /\ function'["cancel"].queue = Tail(function["cancel"].queue)
  BY DEF RunCancel, TakesCall, TypeOK, HostTypes, FunctionRecords
<1>2. CASE c = d
  BY <1>2 DEF RunCancel, Settled, Resolve, SenderIsHeld, TypeOK, CancelTypes
<1>3. CASE c # d
  <2>1. InQueue(c, function["cancel"].queue) => InQueue(c, function'["cancel"].queue)
    BY <1>1, <1>3, QueueKeeps
  <2>. QED
    BY <1>3, <2>1 DEF RunCancel, Settled, Resolve, SenderIsHeld, TypeOK, CancelTypes
<1>. QED
  BY <1>2, <1>3

LEMMA ClosingKeepsSenders ==
  ASSUME TypeOK, SenderIsHeld,
         EnvEnds \/ \E f \in {"read", "cancel"} : CloseDrained(f) \/ Finalize(f)
  PROVE  SenderIsHeld'
<1>1. CASE EnvEnds
  BY <1>1 DEF EnvEnds, Resolve, SenderIsHeld, TypeOK, CancelTypes
<1>2. ASSUME NEW f \in {"read", "cancel"}, CloseDrained(f)
      PROVE  SenderIsHeld'
  <2>1. UNCHANGED cancelVars
    BY <1>2 DEF CloseDrained, cancelVars
  <2>2. function'["cancel"].queue = function["cancel"].queue
    BY <1>2 DEF CloseDrained, StartClosing, TypeOK, HostTypes, FunctionRecords
  <2>. QED
    BY <2>1, <2>2, OthersKeepSenders
<1>3. CASE Finalize("read")
  <2>1. UNCHANGED cancelVars /\ function'["cancel"].queue = function["cancel"].queue
    BY <1>3 DEF Finalize, cancelVars, TypeOK, HostTypes, FunctionRecords
  <2>. QED
    BY <2>1, OthersKeepSenders
<1>4. CASE Finalize("cancel")
  BY <1>4 DEF Finalize, CloseQueued, Resolve, SenderIsHeld, TypeOK, CancelTypes
<1>. QED
  BY <1>1, <1>2, <1>3, <1>4

LEMMA NextKeepsSenders ==
  ASSUME TypeOK, SenderIsHeld, [Next]_vars
  PROVE  SenderIsHeld'
<1>1. CASE TaskStep \/ Poll \/ DropReader
  <2>1. UNCHANGED cancelVars /\ function'["cancel"].queue = function["cancel"].queue
    <3>1. CASE IssueRead
      BY <3>1 DEF IssueRead, cancelVars, TypeOK, HostTypes
    <3>2. CASE DropReader
      BY <3>2 DEF DropReader, Forgets, DropHandle, cancelVars, TypeOK, HostTypes,
         FunctionRecords
    <3>3. CASE Poll
      BY <3>3 DEF Poll, hostVars
    <3>4. CASE Checks
      BY <3>4 DEF Checks, hostVars
    <3>. QED
      BY <1>1, <3>1, <3>2, <3>3, <3>4
      DEF TaskStep, CheckCancelled, YieldChunk, YieldError, YieldEnd, Wait
  <2>. QED
    BY <2>1, OthersKeepSenders
<1>2. ASSUME NEW c \in Cancels, RaiseFlag(c) \/ CallerStep(c) \/ CancelSettles(c)
      PROVE  SenderIsHeld'
  BY <1>2, CallersKeepSenders
<1>3. CASE ReadSettles \/ LateSettles \/ DropCancelHandle \/ EnvCloses \/ RunRead \/ FailRead
           \/ Finally
  <2>1. UNCHANGED cancelVars /\ function'["cancel"].queue = function["cancel"].queue
    <3>1. CASE ReadSettles \/ LateSettles \/ Finally
      BY <3>1 DEF ReadSettles, LateSettles, Finally, hostVars
    <3>2. CASE DropCancelHandle
      BY <3>2 DEF DropCancelHandle, Forgets, DropHandle, cancelVars, TypeOK, HostTypes,
         FunctionRecords
    <3>3. CASE EnvCloses
      BY <3>3 DEF EnvCloses, StartClosing, cancelVars, TypeOK, HostTypes, FunctionRecords
    <3>4. CASE RunRead \/ FailRead
      BY <3>4 DEF RunRead, FailRead, TakesCall, cancelVars, TypeOK, HostTypes
    <3>. QED
      BY <1>3, <3>1, <3>2, <3>3, <3>4
  <2>. QED
    BY <2>1, OthersKeepSenders
<1>4. CASE HostStep
  <2>1. DOMAIN function = {"read", "cancel"}
    BY DEF TypeOK, HostTypes
  <2>. QED
    BY <1>3, <1>4, <2>1, HostKeepsSenders, ClosingKeepsSenders DEF HostStep
<1>5. CASE UNCHANGED vars
  BY <1>5, OthersKeepSenders DEF vars, hostVars
<1>. QED
  BY <1>1, <1>2, <1>3, <1>4, <1>5 DEF Next

(* Whoever waits for a cancel waits for a sender somebody holds: a call on *)
(* its way to the queue or in it, or a value that is followed; so nothing  *)
(* the host runs or drops leaves a future without an answer.               *)
THEOREM PendingCancelIsHeld == Spec => []SenderIsHeld
<1>1. Init => SenderIsHeld
  BY DEF Init, SenderIsHeld
<1>2. TypeOK /\ SenderIsHeld /\ [Next]_vars => SenderIsHeld'
  BY NextKeepsSenders
<1>. QED
  BY <1>1, <1>2, TypeCorrect, PTL DEF Spec
=============================================================================
