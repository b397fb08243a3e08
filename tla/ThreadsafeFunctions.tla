------------------------ MODULE ThreadsafeFunctions ------------------------
(***************************************************************************)
(* A ThreadsafeFunction, its handle and the host's queue behind it, as     *)
(* operators over a record.  The host takes over the data of a call it     *)
(* accepts, runs the calls in order on the JavaScript thread, and closes   *)
(* the function when its only acquisition is given back and the queue is   *)
(* empty, or when the environment ends.  A closed function is finalized on *)
(* a later turn; what is still queued then is handed over with a null env, *)
(* on which napi frees nothing.                                            *)
(*                                                                         *)
(* A call is one step: its read guard on `aborted` and the lock of the     *)
(* host's queue are both held across it, and the queues here have no limit *)
(* (MaxQueueSize = 0), so that nobody waits inside.                        *)
(***************************************************************************)
EXTENDS Sequences

(* phase of the host's function; held: its acquisition is not given back;  *)
(* handle: the Arc still exists; aborted: the flag that finalization sets. *)
Phases == {"open", "closing", "closed"}
NewFunction ==
  [phase |-> "open", held |-> TRUE, queue |-> <<>>, handle |-> TRUE, aborted |-> FALSE]

(* Whether a call is queued.  A refused one has given the acquisition back *)
(* to a closing host; its data stays with the caller.                      *)
Accepts(f) == ~ f.aborted /\ f.phase = "open"
CallWithData(f, data) ==
  IF Accepts(f) THEN [f EXCEPT !.queue = Append(@, data)]
  ELSE IF f.aborted THEN f
  ELSE [f EXCEPT !.held = FALSE]

(* Drop of the last handle: released unless the finalizer came first.      *)
DropHandle(f) == [f EXCEPT !.handle = FALSE, !.held = @ /\ f.aborted]

(* The host starts to close a function it released, once its queue is      *)
(* empty, or any function of an environment that ends.                     *)
Drained(f) == f.phase = "open" /\ ~ f.held /\ f.queue = <<>>
StartClosing(f) == IF f.phase = "open" THEN [f EXCEPT !.phase = "closing"] ELSE f

(* thread_finalize_cb marks a handle that still exists, drops the callback *)
(* and with it what the callback owns; then the host empties the queue.    *)
FinalizeFunction(f) ==
  [f EXCEPT !.phase = "closed", !.queue = <<>>, !.aborted = f.handle]
=============================================================================
