--------------------------- MODULE AsyncTaskProofs ---------------------------
(***************************************************************************)
(* For any calls, tasks, signals, pool and nesting: no aliasing, no        *)
(* unrooted borrow, no freed handle offered to the host, and no promise    *)
(* left behind by a disposal that read no outstanding work.                *)
(*                                                                         *)
(* The frames of the JavaScript thread matter only one by one: where a     *)
(* completion is says what became of its work, its status cell and its     *)
(* lease, and where a callback is says which of its tasks exist.  A scope  *)
(* counts exactly the tasks that hold one of its leases, so that the last  *)
(* of them is the one that finds the count at one.                         *)
(***************************************************************************)
EXTENDS AsyncTask, FiniteSetTheorems, SequenceTheorems, WellFoundedInduction, TLAPS

(* The types of the variables, without the count of the guards.            *)
Shape ==
  /\ stack \in Seq(Frames) /\ Len(stack) <= MaxDepth
  /\ pc \in [Frames -> Pcs]
  /\ work \in [Tasks -> Works]
  /\ status \in [Tasks -> 0..2]
  /\ promise \in [Tasks -> {"none", "pending", "settled", "thrown"}]
  /\ outstanding \subseteq Tasks /\ ceded \subseteq Tasks
  /\ entries \in Seq(Tasks) /\ aborted \in BOOLEAN
  /\ guard \subseteq Calls /\ rooted \subseteq Calls /\ closed \subseteq Calls
  /\ leases \in [Calls -> Nat]
  /\ env \in {"live", "closing"}

Shared    == {c \in guard : Borrow[c] = "shared"}
Exclusive == {c \in guard : Borrow[c] = "exclusive"}
GuardsCounted ==
  /\ IsFiniteSet(guard)
  /\ borrows = [shared |-> Cardinality(Shared), exclusive |-> Exclusive # {}]

(* A task whose work was queued and whose lease was not released.          *)
Pending == {"queued", "running", "done", "cancelled"}
Holding(t) == work[t] \in Pending \/ pc[t] = "release"
Holders(c) == {t \in ToSet(Returns[c]) : Holding(t)}

Settling == {"reject", "resolve"}
Settled  == {"finally", "destroy", "release", "finalizers", "over"}

(* Where a completion is, and what it has made of its task.                *)
Completion(t) ==
  /\ pc[t] \in {"never"} \cup Settling \cup Settled
  /\ pc[t] \in Settling \cup {"finally", "destroy"} => work[t] \in {"done", "cancelled"}
  /\ pc[t] \in {"release", "finalizers"} <=> work[t] = "freed"
  /\ pc[t] = "over" <=> work[t] = "deleted"
  /\ pc[t] \in Settled => status[t] = 1
  /\ t \in outstanding <=> work[t] \in Pending \cup {"freed"}

(* A status of 2 whose work goes on was refused by the host, and only such *)
(* a task keeps its promise in a live environment.                         *)
Settlement(t) ==
  /\ work[t] \in {"made", "dropped"} => t \in Returned
  /\ work[t] \in {"none", "made", "dropped", "queued"} => status[t] = 0
  /\ work[t] \in {"running", "done"} /\ status[t] = 2 => t \in ceded
  /\ promise[t] = "pending" => work[t] \in Pending \cup {"freed", "deleted"}
  /\ promise[t] = "pending" /\ pc[t] \in Settled /\ env = "live" => t \in ceded

TaskInv == \A t \in Tasks : Completion(t) /\ Settlement(t)

(* Which tasks of a call exist while it runs.                              *)
Callback(c) ==
  /\ pc[c] \in {"never", "body", "convert", "over"}
  /\ pc[c] \in {"never", "body"} =>
       \A t \in ToSet(Returns[c]) : work[t] = "none"
  /\ pc[c] # "convert" => \A t \in ToSet(Returns[c]) : work[t] # "made"

CallInv == \A c \in Calls : Callback(c)

(* A borrow scope keeps its guard for its callback and for its leases.     *)
Scope(c) ==
  /\ leases[c] = Cardinality(Holders(c))
  /\ c \in closed => pc[c] = "over"
  /\ c \in guard => Borrow[c] # "none" /\ pc[c] # "never"
  /\ pc[c] \in {"body", "convert"} /\ Borrow[c] # "none" => c \in guard
  /\ Holders(c) # {} => c \in rooted /\ (Borrow[c] # "none" => c \in guard)
  /\ c \in closed /\ Holders(c) = {} => c \notin guard

ScopeInv == \A c \in Calls : Scope(c)

Exclusion == \A c, d \in guard : c # d => Borrow[c] # "exclusive"

IInv ==
  /\ Shape /\ GuardsCounted
  /\ TaskInv /\ CallInv /\ ScopeInv /\ Exclusion

-----------------------------------------------------------------------------
(* Facts about the constants and the operators.                            *)

LEMMA TasksOfACall ==
  ASSUME NEW c \in Calls
  PROVE  /\ ToSet(Returns[c]) \subseteq Tasks
         /\ \A d \in Calls : \A t \in ToSet(Returns[c]) : t \in ToSet(Returns[d]) => c = d
  BY TaskAssumption DEF ToSet

LEMMA ReturnsFinite ==
  ASSUME NEW c \in Calls PROVE IsFiniteSet(ToSet(Returns[c]))
<1>. DEFINE s == Returns[c]
<1>1. s \in Seq(Tasks) /\ Len(s) \in Nat /\ DOMAIN s = 1 .. Len(s)
  BY TaskAssumption
<1>2. s \in Surjection(1 .. Len(s), ToSet(s))
  BY <1>1 DEF Surjection, ToSet
<1>. HIDE DEF s
<1>. DEFINE n == Len(s)
<1>3. IsFiniteSet(1 .. Len(s))
  <2>1. n \in Int
    BY <1>1
  <2>. HIDE DEF n
  <2>2. IsFiniteSet(1 .. n)
    BY <2>1, FS_Interval
  <2>. QED
    BY <2>2 DEF n
<1>4. IsFiniteSet(ToSet(s))
  BY <1>2, <1>3, FS_Surjection
<1>. QED
  BY <1>4 DEF s

LEMMA HoldersFinite ==
  ASSUME NEW c \in Calls
  PROVE  IsFiniteSet(Holders(c)) /\ IsFiniteSet(Holders(c)')
  BY ReturnsFinite, FS_Subset DEF Holders

\* The handler of an abort touches no task whose status is completed.
LEMMA ReachedNotCompleted ==
  ASSUME entries \in Seq(Tasks), NEW t \in Reached
  PROVE  t \in Tasks /\ status[t] # 1
<1>. DEFINE I == {i \in 1 .. Len(entries) : status[entries[i]] = 1}
            end == IF I # {} THEN Min(I) ELSE 0
<1>1. end = SelectInSeq(entries, LAMBDA x : status[x] = 1)
  BY DEF SelectInSeq
<1>2. CASE I = {}
  <2>1. t \in ToSet(entries)
    BY <1>1, <1>2 DEF Reached
  <2>. QED
    BY <1>2, <2>1 DEF ToSet
<1>3. CASE I # {}
  <2>1. I \in SUBSET Nat
    OBVIOUS
  <2>2. \E n \in I : \A m \in I : n <= m
    <3>1. IsWellFoundedOn(OpToRel(<, Nat), Nat)
      BY NatLessThanWellFounded
    <3>2. PICK n \in I : \A m \in I : ~ (<<m, n>> \in OpToRel(<, Nat))
      BY <2>1, <1>3, <3>1, WFMin
    <3>3. ASSUME NEW m \in I PROVE n <= m
      <4>1. m \in Nat /\ n \in Nat
        BY <2>1
      <4>. HIDE DEF I
      <4>2. m < n => <<m, n>> \in OpToRel(<, Nat)
        BY <4>1 DEF OpToRel
      <4>3. ~ (m < n)
        BY <3>2, <4>2, Zenon
      <4>. QED
        BY <4>1, <4>3
    <3>. QED
      BY <3>3
  <2>3. end \in I /\ \A m \in I : end <= m
    BY <2>2, <1>3 DEF Min
  <2>4. t \in ToSet(SubSeq(entries, 1, end - 1))
    BY <2>3, <1>1, <1>3 DEF Reached
  <2>5. PICK i \in 1 .. end - 1 : t = entries[i]
    <3>1. end - 1 \in 0 .. Len(entries)
      BY <2>3
    <3>2. /\ Len(SubSeq(entries, 1, end - 1)) = end - 1
          /\ \A i \in 1 .. end - 1 : SubSeq(entries, 1, end - 1)[i] = entries[i]
      <4>. HIDE DEF end
      <4>. QED
        BY <3>1
    <3>3. DOMAIN SubSeq(entries, 1, end - 1) = 1 .. end - 1
      BY <2>3, <3>1
    <3>. QED
      BY <2>4, <3>2, <3>3 DEF ToSet
  <2>6. i \in 1 .. Len(entries) /\ ~ (end <= i)
    BY <2>3
  <2>. QED
    BY <2>3, <2>5, <2>6
<1>. QED
  BY <1>2, <1>3

-----------------------------------------------------------------------------
(* Every action keeps the types.                                           *)

LEMMA FrontShape ==
  ASSUME NEW S, NEW s \in Seq(S), s # <<>>
  PROVE  Front(s) \in Seq(S) /\ Len(Front(s)) = Len(s) - 1
<1>1. Len(s) \in Nat \ {0} /\ \A i \in 1 .. Len(s) : s[i] \in S
  BY EmptySeq, ElementOfSeq
<1>2. DEFINE n == Len(s) - 1
<1>3. n \in Nat /\ \A i \in 1 .. n : s[i] \in S
  BY <1>1
<1>. HIDE DEF n
<1>4. SubSeq(s, 1, n) \in Seq(S)
  BY <1>3, SubSeqProperties
<1>5. Len(SubSeq(s, 1, n)) = n
  BY <1>3, SubSeqProperties
<1>6. Front(s) = SubSeq(s, 1, n)
  BY DEF Front, n
<1>. QED
  BY <1>4, <1>5, <1>6, Zenon DEF n

LEMMA FrameStep ==
  ASSUME Shape, NEW f \in Frames, NEW where \in Pcs,
         Enters(f, where) \/ Moves(f, where) \/ (stack # <<>> /\ Leaves(f))
  PROVE  stack' \in Seq(Frames) /\ Len(stack') <= MaxDepth /\ pc' \in [Frames -> Pcs]
<1>. USE DEF Shape, Enters, Moves, Leaves
<1>1. CASE Enters(f, where)
  BY <1>1, TaskAssumption
<1>2. CASE Moves(f, where)
  BY <1>2
<1>3. CASE stack # <<>> /\ Leaves(f)
  <2>1. Front(stack) \in Seq(Frames) /\ Len(Front(stack)) = Len(stack) - 1
    BY <1>3, FrontShape
  <2>2. "over" \in Pcs
    BY DEF Pcs
  <2>. QED
    BY <1>3, <2>1, <2>2, TaskAssumption
<1>. QED
  BY <1>1, <1>2, <1>3

LEMMA ScopeShape ==
  ASSUME Shape, NEW c \in Calls,
         ReleaseScope(c) \/ KeepScope
  PROVE  guard' \subseteq Calls /\ rooted' \subseteq Calls
  BY DEF Shape, ReleaseScope, KeepScope

LEMMA LeaseShape ==
  ASSUME Shape, NEW c \in Calls, leases[c] # 0, ReleaseLease(c)
  PROVE  /\ guard' \subseteq Calls /\ rooted' \subseteq Calls /\ closed' \subseteq Calls
         /\ leases' \in [Calls -> Nat]
  BY DEF Shape, ReleaseLease, ReleaseScope, KeepScope

-----------------------------------------------------------------------------
(* Steps: the types. *)

LEMMA CountedHolder ==
  ASSUME Shape, ScopeInv, NEW c \in Calls, NEW t \in ToSet(Returns[c]), Holding(t)
  PROVE  leases[c] # 0
<1>1. Holders(c) # {}
  BY DEF Holders
<1>. QED
  BY <1>1, HoldersFinite, FS_EmptySet DEF ScopeInv, Scope

LEMMA CallShape ==
  ASSUME Shape, NEW c \in Calls, EnterCall(c) \/ ConversionThrows(c) \/ CallStep(c)
  PROVE  Shape'
<1>. USE DEF taskVars, borrowVars, frameVars
<1>. c \in Frames /\ c \in Calls
  BY DEF Frames
<1>1. CASE EnterCall(c)
  <2>1. stack' \in Seq(Frames) /\ Len(stack') <= MaxDepth /\ pc' \in [Frames -> Pcs]
    BY <1>1, FrameStep DEF EnterCall, Pcs, UserCodePcs
  <2>2. entries' \in Seq(Tasks)
    <3>1. Signals[c] \in Seq(Tasks) /\ entries \in Seq(Tasks)
      BY TaskAssumption DEF Shape
    <3>. QED
      BY <1>1, <3>1, ConcatProperties DEF EnterCall
  <2>. QED
    BY <1>1, <2>1, <2>2 DEF EnterCall, Acquire, Shape
<1>2. CASE ConversionThrows(c)
  BY <1>2 DEF ConversionThrows, Shape, Pcs
<1>3. CASE BodyReturns(c) \/ BodyThrows(c)
  <2>1. stack' \in Seq(Frames) /\ Len(stack') <= MaxDepth /\ pc' \in [Frames -> Pcs]
    BY <1>3, FrameStep DEF BodyReturns, BodyThrows, Pcs
  <2>2. work' \in [Tasks -> Works]
    BY <1>3 DEF BodyReturns, BodyThrows, Shape, Works, Alive
  <2>. QED
    BY <1>3, <2>1, <2>2 DEF BodyReturns, BodyThrows, Shape
<1>4. CASE ConversionFails(c)
  <2>1. work' \in [Tasks -> Works]
    BY <1>4 DEF ConversionFails, Shape, Works, Alive
  <2>2. rooted' \subseteq Calls
    BY <1>4 DEF ConversionFails, Shape
  <2>. QED
    BY <1>4, <2>1, <2>2 DEF ConversionFails, Shape
<1>5. CASE CallReturns(c)
  <2>1. stack' \in Seq(Frames) /\ Len(stack') <= MaxDepth /\ pc' \in [Frames -> Pcs]
    BY <1>5, FrameStep DEF CallReturns, At, Pcs
  <2>2. guard' \subseteq Calls /\ rooted' \subseteq Calls
    BY <1>5, ScopeShape DEF CallReturns, CloseScope
  <2>. QED
    BY <1>5, <2>1, <2>2 DEF CallReturns, CloseScope, Shape
<1>6. ASSUME NEW t \in Tasks, ConvertTask(c, t) PROVE Shape'
  <2>1. "queued" \in Works
    BY DEF Works, Alive
  <2>. QED
    BY <1>6, <2>1 DEF ConvertTask, ClaimLease, Queues, Shape
<1>. QED
  BY <1>1, <1>2, <1>3, <1>4, <1>5, <1>6 DEF CallStep

LEMMA TaskShape ==
  ASSUME Shape, NEW t \in Tasks,
         Spawn(t) \/ Cancel(t) \/ Execute(t) \/ Compute(t)
  PROVE  Shape'
<1>. USE DEF taskVars, borrowVars, frameVars, Shape, Works, Alive
<1>1. CASE Spawn(t)
  BY <1>1 DEF Spawn, Queues
<1>2. CASE Cancel(t)
  BY <1>2 DEF Cancel, CancelWork
<1>3. CASE Execute(t)
  BY <1>3 DEF Execute
<1>4. CASE Compute(t)
  BY <1>4 DEF Compute
<1>. QED
  BY <1>1, <1>2, <1>3, <1>4

LEMMA CompletionShape ==
  ASSUME Shape, ScopeInv, NEW t \in Tasks, Complete(t) \/ CompleteStep(t)
  PROVE  Shape'
<1>. USE DEF taskVars, borrowVars
<1>1. stack' \in Seq(Frames) /\ Len(stack') <= MaxDepth /\ pc' \in [Frames -> Pcs]
  <2>1. t \in Frames
    BY DEF Frames
  <2>2. CASE DeleteWork(t)
    BY <2>1, <2>2, FrameStep DEF DeleteWork, At, Pcs
  <2>3. CASE Complete(t)
    BY <2>1, <2>3, FrameStep DEF Complete, Pcs, UserCodePcs
  <2>4. CASE \E where \in Pcs : Moves(t, where)
    BY <2>1, <2>4, FrameStep
  <2>. QED
    BY <2>2, <2>3, <2>4
    DEF CompleteStep, Settle, SettleThrows, FinallyReturns, DestroyTask, ReleasesLease, Pcs, UserCodePcs
<1>2. CASE ReleasesLease(t)
  <2>1. /\ guard' \subseteq Calls /\ rooted' \subseteq Calls /\ closed' \subseteq Calls
        /\ leases' \in [Calls -> Nat]
    <3>1. CASE UNCHANGED borrowVars
      BY <3>1 DEF Shape
    <3>2. ASSUME NEW c \in Leases(t), ReleaseLease(c)
          PROVE  /\ guard' \subseteq Calls /\ rooted' \subseteq Calls /\ closed' \subseteq Calls
                 /\ leases' \in [Calls -> Nat]
      <4>1. c \in Calls /\ t \in ToSet(Returns[c])
        BY DEF Leases
      <4>2. leases[c] # 0
        BY <1>2, <4>1, CountedHolder DEF ReleasesLease, At, Holding
      <4>. QED
        BY <3>2, <4>1, <4>2, LeaseShape
    <3>. QED
      BY <1>2, <3>1, <3>2 DEF ReleasesLease
  <2>. QED
    BY <1>1, <1>2, <2>1 DEF ReleasesLease, Shape
<1>. USE DEF Shape, Works
<1>3. CASE Complete(t) \/ FinallyReturns(t)
  BY <1>1, <1>3 DEF Complete, FinallyReturns
<1>4. CASE Settle(t)
  BY <1>1, <1>4 DEF Settle, MarkCompleted
<1>5. CASE SettleThrows(t)
  BY <1>1, <1>5 DEF SettleThrows, MarkCompleted
<1>6. CASE DestroyTask(t)
  BY <1>1, <1>6 DEF DestroyTask
<1>7. CASE DeleteWork(t)
  BY <1>1, <1>7 DEF DeleteWork
<1>. QED
  BY <1>2, <1>3, <1>4, <1>5, <1>6, <1>7 DEF CompleteStep

LEMMA SweepShape ==
  ASSUME Shape, Abort \/ CancelPending \/ EnvCloses
  PROVE  Shape'
<1>. USE DEF taskVars, borrowVars, frameVars, Shape, Works, Alive
<1>1. CASE Abort
  BY <1>1 DEF Abort, CancelWork
<1>2. CASE CancelPending
  BY <1>2 DEF CancelPending, CancelWork
<1>3. CASE EnvCloses
  BY <1>3 DEF EnvCloses
<1>. QED
  BY <1>1, <1>2, <1>3

-----------------------------------------------------------------------------
(* Steps: the completions and what they make of the tasks. *)

LEMMA CallKeepsTasks ==
  ASSUME Shape, TaskInv, CallInv,
         NEW c \in Calls, EnterCall(c) \/ ConversionThrows(c) \/ CallStep(c)
  PROVE  TaskInv'
<1>. SUFFICES ASSUME NEW x \in Tasks PROVE Completion(x)' /\ Settlement(x)'
  BY DEF TaskInv
<1>0. x # c /\ x \in Frames /\ c \in Frames
  BY TaskAssumption DEF Frames
<1>. USE DEF taskVars, borrowVars, frameVars, Shape, TaskInv, Completion, Settlement,
             Pending, Settling, Settled, Moves, Leaves, Enters
<1>1. CASE EnterCall(c) \/ ConversionThrows(c) \/ BodyThrows(c) \/ CallReturns(c)
  <2>1. pc'[x] = pc[x] /\ UNCHANGED <<work, status, promise, outstanding, ceded, env>>
    BY <1>0, <1>1 DEF EnterCall, ConversionThrows, BodyThrows, CallReturns
  <2>. QED
    BY <2>1
<1>2. CASE BodyReturns(c)
  <2>1. pc'[x] = pc[x] /\ UNCHANGED <<status, promise, outstanding, ceded, env>>
    BY <1>0, <1>2 DEF BodyReturns
  <2>2. CASE x \in ToSet(Returns[c])
    <3>1. work[x] = "none" /\ work'[x] = "made"
      BY <1>2, <2>2 DEF BodyReturns, At, CallInv, Callback
    <3>2. x \in Returned
      BY <2>2 DEF Returned
    <3>. QED
      BY <2>1, <3>1, <3>2
  <2>3. CASE x \notin ToSet(Returns[c])
    <3>1. work'[x] = work[x]
      BY <1>2, <2>3 DEF BodyReturns
    <3>. QED
      BY <2>1, <3>1
  <2>. QED
    BY <2>2, <2>3
<1>3. CASE ConversionFails(c)
  <2>1. pc'[x] = pc[x] /\ UNCHANGED <<status, promise, outstanding, ceded, env>>
    BY <1>0, <1>3 DEF ConversionFails
  <2>2. CASE x \in Unconverted(c)
    <3>1. work[x] = "made" /\ work'[x] = "dropped"
      BY <1>3, <2>2 DEF ConversionFails, Unconverted
    <3>. QED
      BY <2>1, <3>1
  <2>3. CASE x \notin Unconverted(c)
    <3>1. work'[x] = work[x]
      BY <1>3, <2>3 DEF ConversionFails
    <3>. QED
      BY <2>1, <3>1
  <2>. QED
    BY <2>2, <2>3
<1>4. ASSUME NEW t \in Tasks, ConvertTask(c, t) PROVE Completion(x)' /\ Settlement(x)'
  <2>1. work[t] = "made" /\ UNCHANGED <<pc, status, ceded, env>>
    BY <1>4 DEF ConvertTask, NextTask, Unconverted
  <2>. QED
    BY <1>4, <2>1 DEF ConvertTask, Queues
<1>. QED
  BY <1>1, <1>2, <1>3, <1>4 DEF CallStep

LEMMA TaskKeepsTasks ==
  ASSUME Shape, TaskInv, CallInv, NEW t \in Tasks,
         Spawn(t) \/ Cancel(t) \/ Execute(t) \/ Compute(t)
  PROVE  TaskInv'
<1>. SUFFICES ASSUME NEW x \in Tasks PROVE Completion(x)' /\ Settlement(x)'
  BY DEF TaskInv
<1>. USE DEF taskVars, borrowVars, frameVars, Shape, TaskInv, Completion, Settlement,
             Pending, Settling, Settled
<1>1. CASE Spawn(t)
  BY <1>1 DEF Spawn, Queues
<1>2. CASE Cancel(t)
  <2>1. UNCHANGED <<pc, promise, outstanding, env>>
    BY <1>2 DEF Cancel
  <2>2. CASE x # t
    BY <1>2, <2>1, <2>2 DEF Cancel, CancelWork
  <2>3. CASE x = t
    <3>1. work[t] # "none" /\ status[t] # 1 /\ status'[t] = 2
      BY <1>2 DEF Cancel
    <3>2. work[t] \notin {"made", "dropped"}
      BY <1>2 DEF Cancel, Spawned
    <3>. QED
      BY <1>2, <2>1, <2>3, <3>1, <3>2 DEF Cancel, CancelWork, Cancellable
  <2>. QED
    BY <2>2, <2>3
<1>3. CASE Execute(t)
  BY <1>3 DEF Execute
<1>4. CASE Compute(t)
  BY <1>4 DEF Compute
<1>. QED
  BY <1>1, <1>2, <1>3, <1>4

LEMMA CompletionKeepsTasks ==
  ASSUME Shape, TaskInv, NEW t \in Tasks, Complete(t) \/ CompleteStep(t)
  PROVE  TaskInv'
<1>. SUFFICES ASSUME NEW x \in Tasks PROVE Completion(x)' /\ Settlement(x)'
  BY DEF TaskInv
<1>. t \in Frames /\ x \in Frames
  BY DEF Frames
<1>. USE DEF taskVars, borrowVars, Shape, TaskInv, Completion, Settlement,
             Pending, Settling, Settled, Moves, Leaves, Enters, At, MarkCompleted
<1>1. CASE Complete(t)
  BY <1>1 DEF Complete
<1>2. CASE Settle(t)
  <2>1. work[t] = "done" /\ status[t] = 2 => t \in ceded
    OBVIOUS
  <2>2. env = "live" /\ promise'[t] = "pending" => t \in ceded
    BY <1>2, <2>1 DEF Settle, Settles
  <2>. QED
    BY <1>2, <2>2 DEF Settle
<1>3. CASE SettleThrows(t)
  BY <1>3 DEF SettleThrows
<1>4. CASE FinallyReturns(t)
  BY <1>4 DEF FinallyReturns
<1>5. CASE DestroyTask(t)
  BY <1>5 DEF DestroyTask
<1>6. CASE ReleasesLease(t)
  BY <1>6 DEF ReleasesLease
<1>7. CASE DeleteWork(t)
  BY <1>7 DEF DeleteWork
<1>. QED
  BY <1>1, <1>2, <1>3, <1>4, <1>5, <1>6, <1>7 DEF CompleteStep

LEMMA SweepKeepsTasks ==
  ASSUME Shape, TaskInv, Abort \/ CancelPending \/ EnvCloses
  PROVE  TaskInv'
<1>. SUFFICES ASSUME NEW x \in Tasks PROVE Completion(x)' /\ Settlement(x)'
  BY DEF TaskInv
<1>. USE DEF taskVars, borrowVars, frameVars, Shape, TaskInv, Completion, Settlement,
             Pending, Settling, Settled
<1>1. CASE Abort
  <2>1. x \in Reached => status[x] # 1
    BY ReachedNotCompleted
  <2>. QED
    BY <1>1, <2>1 DEF Abort, CancelWork, Cancellable
<1>2. CASE CancelPending
  BY <1>2 DEF CancelPending, CancelWork, Cancellable
<1>3. CASE EnvCloses
  BY <1>3 DEF EnvCloses
<1>. QED
  BY <1>1, <1>2, <1>3

-----------------------------------------------------------------------------
(* Steps: the callbacks and their tasks. *)

LEMMA CallbackKept ==
  ASSUME NEW c \in Calls, Callback(c), pc'[c] = pc[c],
         \A t \in ToSet(Returns[c]) :
           work'[t] = work[t] \/ (work[t] # "none" /\ work'[t] # "made")
  PROVE  Callback(c)'
  BY DEF Callback

LEMMA CallKeepsCalls ==
  ASSUME Shape, CallInv, NEW d \in Calls,
         EnterCall(d) \/ ConversionThrows(d) \/ CallStep(d)
  PROVE  CallInv'
<1>. SUFFICES ASSUME NEW c \in Calls PROVE Callback(c)'
  BY DEF CallInv
<1>0. Callback(c) /\ c \in Frames /\ d \in Frames
  BY DEF CallInv, Frames
<1>1. CASE c # d
  <2>1. pc'[c] = pc[c]
    BY <1>0, <1>1
    DEF Shape, CallStep, EnterCall, ConversionThrows, BodyReturns, BodyThrows, ConversionFails,
        CallReturns, ConvertTask, Enters, Moves, Leaves, frameVars
  <2>2. ASSUME NEW t \in ToSet(Returns[c]) PROVE work'[t] = work[t]
    <3>1. t \in Tasks /\ t \notin ToSet(Returns[d])
      BY <1>1, TasksOfACall
    <3>2. CASE EnterCall(d) \/ ConversionThrows(d) \/ BodyThrows(d) \/ CallReturns(d)
      BY <3>2 DEF EnterCall, ConversionThrows, BodyThrows, CallReturns, taskVars
    <3>3. CASE BodyReturns(d)
      BY <3>1, <3>3 DEF BodyReturns
    <3>4. CASE ConversionFails(d)
      BY <3>1, <3>4 DEF ConversionFails, Unconverted
    <3>5. ASSUME NEW x \in Tasks, ConvertTask(d, x) PROVE work'[t] = work[t]
      BY <3>1, <3>5 DEF ConvertTask, NextTask, Unconverted, Queues, Shape
    <3>. QED
      BY <3>2, <3>3, <3>4, <3>5 DEF CallStep
  <2>. QED
    BY <1>0, <2>1, <2>2, CallbackKept
<1>2. CASE c = d
  <2>0. \A t \in ToSet(Returns[c]) : t \in Tasks
    BY TasksOfACall
  <2>1. CASE EnterCall(d)
    BY <1>0, <1>2, <2>1 DEF EnterCall, Enters, Callback, Shape
  <2>2. CASE ConversionThrows(d)
    BY <1>0, <1>2, <2>2 DEF ConversionThrows, Callback, Shape, taskVars
  <2>3. CASE BodyReturns(d) \/ BodyThrows(d)
    BY <1>0, <1>2, <2>3 DEF BodyReturns, BodyThrows, Moves, Callback, Shape
  <2>4. CASE ConversionFails(d)
    BY <1>0, <1>2, <2>4 DEF ConversionFails, At, Callback, frameVars
  <2>5. CASE CallReturns(d)
    <3>1. pc'[c] = "over" /\ work' = work
      BY <1>0, <1>2, <2>5 DEF CallReturns, Leaves, Shape, taskVars
    <3>2. \A t \in ToSet(Returns[c]) : work[t] # "made"
      BY <1>2, <2>5 DEF CallReturns, Unconverted
    <3>. QED
      BY <3>1, <3>2 DEF Callback
  <2>6. ASSUME NEW x \in Tasks, ConvertTask(d, x) PROVE Callback(c)'
    BY <1>0, <1>2, <2>6 DEF ConvertTask, At, Callback, frameVars
  <2>. QED
    BY <2>1, <2>2, <2>3, <2>4, <2>5, <2>6 DEF CallStep
<1>. QED
  BY <1>1, <1>2

LEMMA TaskKeepsCalls ==
  ASSUME Shape, CallInv, NEW t \in Tasks,
         Spawn(t) \/ Cancel(t) \/ Execute(t) \/ Compute(t)
  PROVE  CallInv'
<1>. SUFFICES ASSUME NEW c \in Calls PROVE Callback(c)'
  BY DEF CallInv
<1>1. Callback(c) /\ pc' = pc
  BY DEF CallInv, Spawn, Cancel, Execute, Compute, frameVars
<1>2. ASSUME NEW x \in ToSet(Returns[c])
      PROVE  work'[x] = work[x] \/ (work[x] # "none" /\ work'[x] # "made")
  <2>1. x \in Tasks /\ x \in Returned
    BY TasksOfACall DEF Returned
  <2>2. CASE Spawn(t)
    BY <2>1, <2>2 DEF Spawn, Spawned, Queues, Shape
  <2>3. CASE Cancel(t)
    BY <2>1, <2>3 DEF Cancel, CancelWork, Cancellable
  <2>4. CASE Execute(t)
    BY <2>1, <2>4 DEF Execute, Shape
  <2>5. CASE Compute(t)
    BY <2>1, <2>5 DEF Compute, Shape
  <2>. QED
    BY <2>2, <2>3, <2>4, <2>5
<1>. QED
  BY <1>1, <1>2, CallbackKept

LEMMA CompletionKeepsCalls ==
  ASSUME Shape, TaskInv, CallInv, NEW t \in Tasks, Complete(t) \/ CompleteStep(t)
  PROVE  CallInv'
<1>. SUFFICES ASSUME NEW c \in Calls PROVE Callback(c)'
  BY DEF CallInv
<1>1. Callback(c) /\ pc'[c] = pc[c]
  <2>1. c # t /\ t \in Frames /\ c \in Frames
    BY TaskAssumption DEF Frames
  <2>. QED
    BY <2>1 DEF CallInv, Shape, Complete, CompleteStep, Settle, SettleThrows, FinallyReturns,
                DestroyTask, ReleasesLease, DeleteWork, Enters, Moves, Leaves
<1>2. ASSUME NEW x \in ToSet(Returns[c])
      PROVE  work'[x] = work[x] \/ (work[x] # "none" /\ work'[x] # "made")
  <2>1. x \in Tasks /\ Completion(t)
    BY TasksOfACall DEF TaskInv
  <2>2. CASE DestroyTask(t)
    BY <2>1, <2>2 DEF DestroyTask, At, Completion, Shape
  <2>3. CASE DeleteWork(t)
    BY <2>1, <2>3 DEF DeleteWork, At, Completion, Shape
  <2>4. CASE work' = work
    BY <2>4
  <2>. QED
    BY <2>2, <2>3, <2>4 DEF Complete, CompleteStep, Settle, SettleThrows, FinallyReturns,
                            ReleasesLease, taskVars
<1>. QED
  BY <1>1, <1>2, CallbackKept

LEMMA SweepKeepsCalls ==
  ASSUME Shape, CallInv, Abort \/ CancelPending \/ EnvCloses
  PROVE  CallInv'
<1>. SUFFICES ASSUME NEW c \in Calls PROVE Callback(c)'
  BY DEF CallInv
<1>1. Callback(c) /\ pc' = pc
  BY DEF CallInv, Abort, CancelPending, EnvCloses, frameVars
<1>2. ASSUME NEW x \in ToSet(Returns[c])
      PROVE  work'[x] = work[x] \/ (work[x] # "none" /\ work'[x] # "made")
  <2>1. x \in Tasks
    BY TasksOfACall
  <2>2. CASE EnvCloses
    BY <2>2 DEF EnvCloses, taskVars
  <2>3. CASE Abort
    BY <2>1, <2>3 DEF Abort, CancelWork, Cancellable
  <2>4. CASE CancelPending
    BY <2>1, <2>4 DEF CancelPending, CancelWork, Cancellable
  <2>. QED
    BY <2>2, <2>3, <2>4
<1>. QED
  BY <1>1, <1>2, CallbackKept

-----------------------------------------------------------------------------
(* Steps: the scopes and their leases. *)

LEMMA ScopeKept ==
  ASSUME NEW c \in Calls, Scope(c),
         pc'[c] = pc[c], leases'[c] = leases[c],
         c \in closed' <=> c \in closed, c \in guard' <=> c \in guard,
         c \in rooted' <=> c \in rooted,
         \A t \in ToSet(Returns[c]) : Holding(t)' <=> Holding(t)
  PROVE  Scope(c)'
<1>1. Holders(c)' = Holders(c)
  BY DEF Holders
<1>. QED
  BY <1>1 DEF Scope

LEMMA CallKeepsScopes ==
  ASSUME Shape, TaskInv, CallInv, ScopeInv, NEW d \in Calls,
         EnterCall(d) \/ ConversionThrows(d) \/ CallStep(d)
  PROVE  ScopeInv'
<1>. SUFFICES ASSUME NEW c \in Calls PROVE Scope(c)'
  BY DEF ScopeInv
<1>0. Scope(c) /\ Callback(c) /\ c \in Frames /\ d \in Frames
  BY DEF ScopeInv, CallInv, Frames
<1>1. ASSUME NEW t \in ToSet(Returns[c])
      PROVE  /\ t \in Tasks /\ t \in Frames /\ t # d
             /\ c # d => t \notin ToSet(Returns[d])
             /\ pc'[t] = pc[t]
             /\ work[t] \in {"none", "made"} => ~ Holding(t)
  <2>1. t \in Tasks /\ t # d /\ (c # d => t \notin ToSet(Returns[d])) /\ t \in Frames
    BY TasksOfACall, TaskAssumption DEF Frames
  <2>2. pc'[t] = pc[t]
    BY <1>0, <2>1
    DEF Shape, CallStep, EnterCall, ConversionThrows, BodyReturns, BodyThrows, ConversionFails,
        CallReturns, ConvertTask, Enters, Moves, Leaves, frameVars
  <2>3. Completion(t)
    BY <2>1 DEF TaskInv
  <2>4. work[t] \in {"none", "made"} => ~ Holding(t)
    BY <2>3 DEF Completion, Holding, Pending
  <2>. QED
    BY <2>1, <2>2, <2>4
<1>2. CASE EnterCall(d) \/ ConversionThrows(d) \/ BodyThrows(d)
  <2>1. /\ UNCHANGED <<work, leases, closed, rooted>>
        /\ c # d => pc'[c] = pc[c] /\ (c \in guard' <=> c \in guard)
    BY <1>0, <1>2 DEF EnterCall, ConversionThrows, BodyThrows, Acquire, Enters, Moves, Shape,
                      taskVars, borrowVars
  <2>2. Holders(c)' = Holders(c)
    BY <1>1, <2>1 DEF Holders, Holding
  <2>3. CASE c # d
    BY <1>0, <2>1, <2>2, <2>3 DEF Scope
  <2>4. CASE c = d /\ EnterCall(d)
    <3>1. pc[c] = "never" /\ pc'[c] = "body"
      BY <1>0, <2>4 DEF EnterCall, Enters, Shape
    <3>2. guard' = IF Borrow[c] = "none" THEN guard ELSE guard \cup {c}
      BY <2>4 DEF EnterCall, Acquire
    <3>. QED
      BY <1>0, <2>1, <2>2, <3>1, <3>2 DEF Scope
  <2>5. CASE c = d /\ ConversionThrows(d)
    <3>1. pc[c] = "never" /\ pc'[c] = "over" /\ guard' = guard
      BY <1>0, <2>5 DEF ConversionThrows, Shape, borrowVars
    <3>. QED
      BY <1>0, <2>1, <2>2, <3>1 DEF Scope
  <2>6. CASE c = d /\ BodyThrows(d)
    <3>1. pc[c] = "body" /\ pc'[c] = "convert" /\ guard' = guard
      BY <1>0, <2>6 DEF BodyThrows, At, Moves, Shape, borrowVars
    <3>. QED
      BY <1>0, <2>1, <2>2, <3>1 DEF Scope
  <2>. QED
    BY <1>2, <2>3, <2>4, <2>5, <2>6
<1>3. CASE BodyReturns(d)
  <2>1. ASSUME NEW t \in ToSet(Returns[c]) PROVE Holding(t)' <=> Holding(t)
    <3>1. CASE c = d
      <4>1. work[t] = "none" /\ work'[t] = "made"
        BY <1>0, <1>1, <1>3, <3>1 DEF BodyReturns, At, Callback
      <4>. QED
        BY <1>1, <4>1 DEF Holding, Pending
    <3>2. CASE c # d
      BY <1>1, <1>3, <3>2 DEF BodyReturns, Holding
    <3>. QED
      BY <3>1, <3>2
  <2>2. Holders(c)' = Holders(c)
    BY <2>1 DEF Holders
  <2>3. /\ UNCHANGED <<leases, closed, rooted, guard>>
        /\ IF c = d THEN pc[c] = "body" /\ pc'[c] = "convert" ELSE pc'[c] = pc[c]
    BY <1>0, <1>3 DEF BodyReturns, At, Moves, Shape, borrowVars
  <2>. QED
    BY <1>0, <2>2, <2>3 DEF Scope
<1>4. CASE ConversionFails(d)
  <2>1. ASSUME NEW t \in ToSet(Returns[c]) PROVE Holding(t)' <=> Holding(t)
    <3>1. CASE t \in Unconverted(d)
      <4>1. work[t] = "made" /\ work'[t] = "dropped"
        BY <1>1, <1>4, <3>1 DEF ConversionFails, Unconverted
      <4>. QED
        BY <1>1, <4>1 DEF Holding, Pending
    <3>2. CASE t \notin Unconverted(d)
      BY <1>1, <1>4, <3>2 DEF ConversionFails, Holding
    <3>. QED
      BY <3>1, <3>2
  <2>2. Holders(c)' = Holders(c)
    BY <2>1 DEF Holders
  <2>3. UNCHANGED <<leases, closed, guard, pc>> /\ (c \in rooted => c \in rooted')
    BY <1>4 DEF ConversionFails, frameVars
  <2>. QED
    BY <1>0, <2>2, <2>3 DEF Scope
<1>5. CASE CallReturns(d)
  <2>1. UNCHANGED <<work, leases>> /\ closed' = closed \cup {d}
    BY <1>5 DEF CallReturns, CloseScope, taskVars
  <2>2. Holders(c)' = Holders(c)
    BY <1>1, <2>1 DEF Holders, Holding
  <2>3. CASE c # d
    <3>1. pc'[c] = pc[c] /\ (c \in guard' <=> c \in guard) /\ (c \in rooted' <=> c \in rooted)
      BY <1>0, <1>5, <2>3
      DEF CallReturns, Leaves, CloseScope, ReleaseScope, KeepScope, Shape
    <3>. QED
      BY <1>0, <2>1, <2>2, <2>3, <3>1 DEF Scope
  <2>4. CASE c = d
    <3>1. pc[c] = "convert" /\ pc'[c] = "over"
      BY <1>0, <1>5, <2>4 DEF CallReturns, At, Leaves, Shape
    <3>2. CASE leases[c] = 0
      <4>1. Holders(c) = {}
        BY <1>0, <3>2, HoldersFinite, FS_EmptySet DEF Scope
      <4>2. c \notin guard' /\ c \notin rooted'
        BY <1>5, <2>4, <3>2 DEF CallReturns, CloseScope, ReleaseScope
      <4>. QED
        BY <1>0, <2>1, <2>2, <3>1, <4>1, <4>2 DEF Scope
    <3>3. CASE leases[c] # 0
      <4>1. Holders(c) # {}
        BY <1>0, <3>3, FS_EmptySet DEF Scope
      <4>2. UNCHANGED <<guard, rooted>>
        BY <1>5, <2>4, <3>3 DEF CallReturns, CloseScope, KeepScope
      <4>. QED
        BY <1>0, <2>1, <2>2, <3>1, <4>1, <4>2 DEF Scope
    <3>. QED
      BY <3>2, <3>3
  <2>. QED
    BY <2>3, <2>4
<1>6. ASSUME NEW x \in Tasks, ConvertTask(d, x) PROVE Scope(c)'
  <2>1. /\ x \in ToSet(Returns[d]) /\ work[x] = "made" /\ pc[d] = "convert"
        /\ work' = [work EXCEPT ![x] = "queued"]
        /\ leases' = [leases EXCEPT ![d] = @ + 1] /\ rooted' = rooted \cup {d}
        /\ UNCHANGED <<pc, guard, closed>>
    BY <1>6 DEF ConvertTask, At, NextTask, Unconverted, Queues, ClaimLease, frameVars
  <2>2. CASE c # d
    <3>1. \A t \in ToSet(Returns[c]) : Holding(t)' <=> Holding(t)
      BY <1>1, <2>1, <2>2 DEF Holding, Shape
    <3>2. leases'[c] = leases[c] /\ (c \in rooted' <=> c \in rooted)
      BY <2>1, <2>2 DEF Shape
    <3>. QED
      BY <1>0, <2>1, <3>1, <3>2, ScopeKept
  <2>3. CASE c = d
    <3>1. Holders(c)' = Holders(c) \cup {x} /\ x \notin Holders(c)
      <4>1. ~ Holding(x) /\ Holding(x)'
        BY <1>1, <2>1, <2>3 DEF Holding, Pending, Shape
      <4>2. ASSUME NEW t \in ToSet(Returns[c]), t # x PROVE Holding(t)' <=> Holding(t)
        BY <1>1, <2>1, <4>2 DEF Holding, Shape
      <4>. QED
        BY <2>1, <2>3, <4>1, <4>2 DEF Holders
    <3>2. Cardinality(Holders(c)') = Cardinality(Holders(c)) + 1
      BY <3>1, HoldersFinite, FS_AddElement
    <3>3. leases'[c] = leases[c] + 1
      BY <2>1, <2>3 DEF Shape
    <3>. QED
      BY <1>0, <2>1, <2>3, <3>2, <3>3 DEF Scope
  <2>. QED
    BY <2>2, <2>3
<1>. QED
  BY <1>2, <1>3, <1>4, <1>5, <1>6 DEF CallStep

LEMMA TaskKeepsScopes ==
  ASSUME Shape, ScopeInv, NEW t \in Tasks,
         Spawn(t) \/ Cancel(t) \/ Execute(t) \/ Compute(t)
  PROVE  ScopeInv'
<1>. SUFFICES ASSUME NEW c \in Calls PROVE Scope(c)'
  BY DEF ScopeInv
<1>1. Scope(c) /\ UNCHANGED <<pc, leases, closed, guard, rooted>>
  BY DEF ScopeInv, Spawn, Cancel, Execute, Compute, frameVars, borrowVars
<1>2. ASSUME NEW x \in ToSet(Returns[c]) PROVE Holding(x)' <=> Holding(x)
  <2>1. x \in Tasks /\ x \in Returned
    BY TasksOfACall DEF Returned
  <2>. USE <1>1 DEF Holding, Pending
  <2>2. CASE Spawn(t)
    BY <2>1, <2>2 DEF Spawn, Spawned, Queues, Shape
  <2>3. CASE Cancel(t)
    BY <2>1, <2>3 DEF Cancel, CancelWork, Cancellable
  <2>4. CASE Execute(t)
    BY <2>1, <2>4 DEF Execute, Shape
  <2>5. CASE Compute(t)
    BY <2>1, <2>5 DEF Compute, Shape
  <2>. QED
    BY <2>2, <2>3, <2>4, <2>5
<1>. QED
  BY <1>1, <1>2, ScopeKept

LEMMA SweepKeepsScopes ==
  ASSUME Shape, ScopeInv, Abort \/ CancelPending \/ EnvCloses
  PROVE  ScopeInv'
<1>. SUFFICES ASSUME NEW c \in Calls PROVE Scope(c)'
  BY DEF ScopeInv
<1>1. Scope(c) /\ UNCHANGED <<pc, leases, closed, guard, rooted>>
  BY DEF ScopeInv, Abort, CancelPending, EnvCloses, frameVars, borrowVars
<1>2. ASSUME NEW x \in ToSet(Returns[c]) PROVE Holding(x)' <=> Holding(x)
  <2>1. x \in Tasks
    BY TasksOfACall
  <2>. USE <1>1 DEF Holding, Pending
  <2>2. CASE EnvCloses
    BY <2>2 DEF EnvCloses, taskVars
  <2>3. CASE Abort
    BY <2>1, <2>3 DEF Abort, CancelWork, Cancellable
  <2>4. CASE CancelPending
    BY <2>1, <2>4 DEF CancelPending, CancelWork, Cancellable
  <2>. QED
    BY <2>2, <2>3, <2>4
<1>. QED
  BY <1>1, <1>2, ScopeKept

LEMMA CompletionKeepsScopes ==
  ASSUME Shape, TaskInv, ScopeInv, NEW t \in Tasks, Complete(t) \/ CompleteStep(t)
  PROVE  ScopeInv'
<1>. SUFFICES ASSUME NEW c \in Calls PROVE Scope(c)'
  BY DEF ScopeInv
<1>0. Scope(c) /\ Completion(t) /\ c # t /\ c \in Frames /\ t \in Frames
  BY TaskAssumption DEF ScopeInv, TaskInv, Frames
<1>1. pc'[c] = pc[c]
  BY <1>0 DEF Shape, Complete, CompleteStep, Settle, SettleThrows, FinallyReturns,
              DestroyTask, ReleasesLease, DeleteWork, Enters, Moves, Leaves
<1>2. ASSUME NEW x \in ToSet(Returns[c]), x # t PROVE Holding(x)' <=> Holding(x)
  <2>1. x \in Tasks /\ x \in Frames
    BY TasksOfACall DEF Frames
  <2>2. pc'[x] = pc[x] /\ work'[x] = work[x]
    BY <1>0, <1>2, <2>1
    DEF Shape, Complete, CompleteStep, Settle, SettleThrows, FinallyReturns,
        DestroyTask, ReleasesLease, DeleteWork, Enters, Moves, Leaves, taskVars
  <2>. QED
    BY <2>2 DEF Holding
<1>3. ASSUME UNCHANGED borrowVars, Holding(t)' <=> Holding(t) PROVE Scope(c)'
  <2>1. UNCHANGED <<leases, closed, guard, rooted>>
    BY <1>3 DEF borrowVars
  <2>2. \A x \in ToSet(Returns[c]) : Holding(x)' <=> Holding(x)
    BY <1>2, <1>3
  <2>. QED
    BY <1>0, <1>1, <2>1, <2>2, ScopeKept
<1>4. CASE ReleasesLease(t)
  <2>1. Holding(t) /\ ~ Holding(t)'
    <3>1. pc[t] = "release" /\ pc'[t] = "finalizers" /\ work' = work
      BY <1>0, <1>4 DEF ReleasesLease, At, Moves, Shape, taskVars
    <3>2. work[t] = "freed"
      BY <1>0, <3>1 DEF Completion
    <3>. QED
      BY <3>1, <3>2 DEF Holding, Pending
  <2>2. CASE t \notin ToSet(Returns[c])
    <3>1. leases'[c] = leases[c] /\ (c \in closed' <=> c \in closed)
          /\ (c \in guard' <=> c \in guard) /\ (c \in rooted' <=> c \in rooted)
      <4>1. CASE UNCHANGED borrowVars
        BY <4>1 DEF borrowVars
      <4>2. ASSUME NEW d \in Leases(t), ReleaseLease(d)
            PROVE  leases'[c] = leases[c] /\ (c \in closed' <=> c \in closed)
                   /\ (c \in guard' <=> c \in guard) /\ (c \in rooted' <=> c \in rooted)
        <5>1. c # d /\ d \in Calls
          BY <2>2 DEF Leases
        <5>. QED
          BY <4>2, <5>1 DEF ReleaseLease, ReleaseScope, KeepScope, Shape
      <4>. QED
        BY <1>4, <4>1, <4>2 DEF ReleasesLease
    <3>2. \A x \in ToSet(Returns[c]) : Holding(x)' <=> Holding(x)
      BY <1>2, <2>2
    <3>. QED
      BY <1>0, <1>1, <3>1, <3>2, ScopeKept
  <2>3. CASE t \in ToSet(Returns[c])
    <3>1. ReleaseLease(c)
      <4>1. c \in Leases(t)
        BY <2>3 DEF Leases
      <4>2. \A d \in Leases(t) : d = c
        BY <2>3, TasksOfACall DEF Leases
      <4>. QED
        BY <1>4, <4>1, <4>2 DEF ReleasesLease
    <3>2. Holders(c)' = Holders(c) \ {t} /\ t \in Holders(c)
      BY <1>2, <2>1, <2>3 DEF Holders
    <3>3. /\ Cardinality(Holders(c)') = Cardinality(Holders(c)) - 1
          /\ Cardinality(Holders(c)) \in Nat
          /\ Cardinality(Holders(c)') = 0 <=> Holders(c)' = {}
      BY <3>2, HoldersFinite, FS_RemoveElement, FS_CardinalityType, FS_EmptySet
    <3>4. leases'[c] = leases[c] - 1 /\ closed' = closed
      BY <3>1 DEF ReleaseLease, Shape
    <3>5. CASE c \in closed /\ leases[c] = 1
      <4>1. c \notin guard' /\ Holders(c)' = {} /\ (c \in guard' => c \in guard)
        BY <1>0, <3>1, <3>3, <3>5 DEF ReleaseLease, ReleaseScope, Scope
      <4>. QED
        BY <1>0, <1>1, <3>3, <3>4, <3>5, <4>1 DEF Scope
    <3>6. CASE ~ (c \in closed /\ leases[c] = 1)
      <4>1. UNCHANGED <<guard, rooted>>
        BY <3>1, <3>6 DEF ReleaseLease, KeepScope
      <4>2. Holders(c)' # {} => Holders(c) # {}
        BY <3>2
      <4>3. Holders(c)' = {} => c \notin closed'
        BY <1>0, <3>3, <3>4, <3>6 DEF Scope
      <4>. QED
        BY <1>0, <1>1, <3>3, <3>4, <4>1, <4>2, <4>3 DEF Scope
    <3>. QED
      BY <3>5, <3>6
  <2>. QED
    BY <2>2, <2>3
<1>. USE <1>0 DEF Holding, Pending, Completion, Moves, Enters, Leaves, At, Shape
<1>5. CASE Complete(t)
  <2>1. work' = work /\ UNCHANGED borrowVars /\ pc'[t] \in {"reject", "resolve"} /\ pc[t] = "never"
    BY <1>5 DEF Complete, taskVars
  <2>. QED
    BY <1>3, <2>1
<1>6. CASE Settle(t) \/ SettleThrows(t) \/ FinallyReturns(t)
  <2>1. /\ work' = work /\ UNCHANGED borrowVars /\ pc'[t] \in {"finally", "destroy"}
        /\ pc[t] # "release"
    BY <1>6 DEF Settle, SettleThrows, FinallyReturns, taskVars
  <2>. QED
    BY <1>3, <2>1
<1>7. CASE DestroyTask(t)
  <2>1. work[t] \in {"done", "cancelled"} /\ pc'[t] = "release" /\ UNCHANGED borrowVars
    BY <1>7 DEF DestroyTask
  <2>. QED
    BY <1>3, <2>1
<1>8. CASE DeleteWork(t)
  <2>1. /\ work[t] = "freed" /\ pc[t] = "finalizers" /\ UNCHANGED borrowVars
        /\ pc'[t] = "over" /\ work'[t] = "deleted"
    BY <1>8 DEF DeleteWork
  <2>. QED
    BY <1>3, <2>1
<1>. QED
  BY <1>4, <1>5, <1>6, <1>7, <1>8 DEF CompleteStep

-----------------------------------------------------------------------------
(* Steps: the guards, their count, and their exclusion. *)

LEMMA BorrowKinds ==
  ASSUME NEW c \in Calls PROVE Borrow[c] \in {"none", "shared", "exclusive"}
  BY TaskAssumption

\* The parts of a finite set of guards can be counted.
LEMMA PartsFinite ==
  ASSUME GuardsCounted
  PROVE  /\ IsFiniteSet(Shared) /\ Cardinality(Shared) \in Nat
         /\ Cardinality(Shared) = 0 <=> Shared = {}
  BY FS_Subset, FS_CardinalityType, FS_EmptySet DEF GuardsCounted, Shared

LEMMA AcquireCounts ==
  ASSUME Shape, GuardsCounted, NEW c \in Calls, c \notin guard, Acquire(c)
  PROVE  GuardsCounted'
<1>1. IsFiniteSet(guard')
  BY FS_AddElement DEF Acquire, GuardsCounted
<1>2. CASE Borrow[c] = "none"
  <2>1. UNCHANGED <<guard, borrows>>
    BY <1>2 DEF Acquire
  <2>. QED
    BY <2>1 DEF GuardsCounted, Shared, Exclusive
<1>3. CASE Borrow[c] = "shared"
  <2>1. Shared' = Shared \cup {c} /\ Exclusive' = Exclusive /\ c \notin Shared
    BY <1>3 DEF Acquire, Shared, Exclusive
  <2>2. Cardinality(Shared') = Cardinality(Shared) + 1
    BY <2>1, PartsFinite, FS_AddElement
  <2>. QED
    BY <1>1, <1>3, <2>1, <2>2 DEF Acquire, GuardsCounted
<1>4. CASE Borrow[c] = "exclusive"
  <2>1. Shared' = Shared /\ Exclusive' = Exclusive \cup {c}
    BY <1>4 DEF Acquire, Shared, Exclusive
  <2>. QED
    BY <1>1, <1>4, <2>1 DEF Acquire, GuardsCounted
<1>. QED
  BY <1>2, <1>3, <1>4, BorrowKinds

\* The flag goes with the one exclusive scope: there is no other.
LEMMA ReleaseCounts ==
  ASSUME Shape, GuardsCounted, Exclusion, NEW c \in Calls,
         c \in guard => Borrow[c] # "none", ReleaseScope(c)
  PROVE  GuardsCounted'
<1>1. IsFiniteSet(guard')
  BY FS_RemoveElement, FS_Subset DEF ReleaseScope, GuardsCounted
<1>2. CASE c \notin guard
  <2>1. guard' = guard /\ borrows' = borrows
    BY <1>2 DEF ReleaseScope
  <2>. QED
    BY <2>1 DEF GuardsCounted, Shared, Exclusive
<1>3. CASE c \in guard /\ Borrow[c] = "shared"
  <2>1. Shared' = Shared \ {c} /\ Exclusive' = Exclusive /\ c \in Shared
    BY <1>3 DEF ReleaseScope, Shared, Exclusive
  <2>2. Cardinality(Shared') = Cardinality(Shared) - 1
    BY <2>1, PartsFinite, FS_RemoveElement
  <2>3. borrows' = [borrows EXCEPT !.shared = @ - 1]
    BY <1>3 DEF ReleaseScope
  <2>. QED
    BY <1>1, <2>1, <2>2, <2>3 DEF GuardsCounted
<1>4. CASE c \in guard /\ Borrow[c] = "exclusive"
  <2>1. Shared' = Shared /\ Exclusive' = {}
    BY <1>4 DEF ReleaseScope, Shared, Exclusive, Exclusion
  <2>2. borrows' = [borrows EXCEPT !.exclusive = FALSE]
    BY <1>4 DEF ReleaseScope
  <2>. QED
    BY <1>1, <2>1, <2>2 DEF GuardsCounted
<1>. QED
  BY <1>2, <1>3, <1>4, BorrowKinds

\* A borrow that conflicts with none excludes or is excluded by none.
LEMMA AcquireExcludes ==
  ASSUME Shape, GuardsCounted, Exclusion, ScopeInv,
         NEW c \in Calls, ~ Conflict(Borrow[c]), Acquire(c)
  PROVE  Exclusion'
<1>1. CASE Borrow[c] = "none"
  BY <1>1 DEF Acquire, Exclusion
<1>2. CASE Borrow[c] = "shared"
  <2>1. \A d \in guard : Borrow[d] # "exclusive"
    BY <1>2 DEF Conflict, GuardsCounted, Exclusive
  <2>. QED
    BY <1>2, <2>1 DEF Acquire, Exclusion
<1>3. CASE Borrow[c] = "exclusive"
  <2>1. Exclusive = {} /\ Shared = {}
    BY <1>3, PartsFinite DEF Conflict, GuardsCounted
  <2>2. guard = {}
    BY <2>1, BorrowKinds DEF Exclusive, Shared, Shape, ScopeInv, Scope
  <2>. QED
    BY <1>3, <2>2 DEF Acquire, Exclusion
<1>. QED
  BY <1>1, <1>2, <1>3, BorrowKinds

LEMMA ScopeStepGuards ==
  ASSUME Shape, GuardsCounted, Exclusion, ScopeInv, NEW c \in Calls,
         ReleaseScope(c) \/ UNCHANGED <<borrows, guard>>
  PROVE  GuardsCounted' /\ Exclusion'
<1>1. c \in guard => Borrow[c] # "none"
  BY DEF ScopeInv, Scope
<1>2. CASE ReleaseScope(c)
  BY <1>1, <1>2, ReleaseCounts DEF ReleaseScope, Exclusion
<1>3. CASE UNCHANGED <<borrows, guard>>
  BY <1>3 DEF GuardsCounted, Shared, Exclusive, Exclusion
<1>. QED
  BY <1>2, <1>3

LEMMA NextGuards ==
  ASSUME Shape, GuardsCounted, Exclusion, ScopeInv, Next
  PROVE  GuardsCounted' /\ Exclusion'
<1>1. ASSUME NEW c \in Calls, EnterCall(c) PROVE GuardsCounted' /\ Exclusion'
  <2>1. c \notin guard
    BY <1>1 DEF EnterCall, Enters, ScopeInv, Scope
  <2>. QED
    BY <1>1, <2>1, AcquireCounts, AcquireExcludes DEF EnterCall
<1>2. ASSUME NEW c \in Calls, ReleaseScope(c) PROVE GuardsCounted' /\ Exclusion'
  BY <1>2, ScopeStepGuards
<1>3. CASE UNCHANGED <<borrows, guard>>
  BY <1>3 DEF GuardsCounted, Shared, Exclusive, Exclusion
<1>4. ASSUME NEW c \in Calls, ConversionThrows(c) \/ CallStep(c)
      PROVE  ReleaseScope(c) \/ UNCHANGED <<borrows, guard>>
  BY <1>4 DEF ConversionThrows, CallStep, BodyReturns, BodyThrows, ConversionFails, CallReturns,
              ConvertTask, ClaimLease, CloseScope, KeepScope, borrowVars
<1>5. ASSUME NEW t \in Tasks, CompleteStep(t)
      PROVE  (\E c \in Calls : ReleaseScope(c)) \/ UNCHANGED <<borrows, guard>>
  BY <1>5 DEF CompleteStep, Settle, SettleThrows, FinallyReturns, DestroyTask, ReleasesLease,
              DeleteWork, ReleaseLease, KeepScope, Leases, borrowVars
<1>6. ASSUME NEW t \in Tasks, Spawn(t) \/ Cancel(t) \/ Execute(t) \/ Compute(t) \/ Complete(t)
      PROVE  UNCHANGED <<borrows, guard>>
  BY <1>6 DEF Spawn, Cancel, Execute, Compute, Complete, borrowVars
<1>7. ASSUME Abort \/ CancelPending \/ EnvCloses PROVE UNCHANGED <<borrows, guard>>
  BY <1>7 DEF Abort, CancelPending, EnvCloses, borrowVars
<1>. QED
  BY <1>1, <1>2, <1>3, <1>4, <1>5, <1>6, <1>7 DEF Next

-----------------------------------------------------------------------------
(* The invariant is inductive. *)

LEMMA InitIInv == ASSUME Init PROVE IInv
<1>1. Shape
  <2>1. <<>> \in Seq(Frames) /\ <<>> \in Seq(Tasks) /\ Len(<<>>) = 0 /\ MaxDepth \in Nat
    BY TaskAssumption
  <2>2. stack \in Seq(Frames) /\ Len(stack) <= MaxDepth /\ entries \in Seq(Tasks)
    BY <2>1 DEF Init
  <2>3. pc \in [Frames -> Pcs] /\ work \in [Tasks -> Works] /\ status \in [Tasks -> 0..2]
    BY DEF Init, Pcs, Works
  <2>4. /\ promise \in [Tasks -> {"none", "pending", "settled", "thrown"}]
        /\ leases \in [Calls -> Nat]
    BY DEF Init
  <2>. QED
    BY <2>2, <2>3, <2>4 DEF Init, Shape
<1>2. GuardsCounted
  <2>1. Shared = {} /\ Exclusive = {}
    BY DEF Init, Shared, Exclusive
  <2>. QED
    BY <2>1, FS_EmptySet DEF Init, GuardsCounted
<1>3. TaskInv
  BY DEF Init, TaskInv, Completion, Settlement, Frames, Pending, Settling, Settled
<1>4. CallInv
  BY TasksOfACall DEF Init, CallInv, Callback, Frames
<1>5. ScopeInv
  <2>1. ASSUME NEW c \in Calls PROVE Scope(c)
    <3>1. Holders(c) = {}
      BY TasksOfACall DEF Init, Holders, Holding, Frames, Pending
    <3>2. Cardinality(Holders(c)) = 0
      BY <3>1, FS_EmptySet
    <3>. QED
      BY <3>1, <3>2 DEF Init, Scope, Frames
  <2>. QED
    BY <2>1 DEF ScopeInv
<1>. QED
  BY <1>1, <1>2, <1>3, <1>4, <1>5 DEF Init, IInv, Exclusion

LEMMA StepIInv == ASSUME IInv, [Next]_vars PROVE IInv'
<1>1. CASE UNCHANGED vars
  <2>1. UNCHANGED <<stack, pc, work, status, promise, outstanding, entries, aborted, ceded,
                    guard, rooted, closed, leases, borrows, env>>
    BY <1>1 DEF vars, frameVars, taskVars, borrowVars
  <2>2. Shape' /\ GuardsCounted' /\ Exclusion' /\ CallInv' /\ TaskInv'
    BY <2>1 DEF IInv, Shape, GuardsCounted, Shared, Exclusive, Exclusion, CallInv, Callback,
                TaskInv, Completion, Settlement
  <2>3. ScopeInv'
    BY <2>1 DEF IInv, ScopeInv, Scope, Holders, Holding
  <2>. QED
    BY <2>2, <2>3 DEF IInv
<1>2. CASE Next
  <2>1. GuardsCounted' /\ Exclusion'
    BY <1>2, NextGuards DEF IInv
  <2>2. ASSUME NEW c \in Calls, EnterCall(c) \/ ConversionThrows(c) \/ CallStep(c)
        PROVE  Shape' /\ TaskInv' /\ CallInv' /\ ScopeInv'
    BY <2>2, CallShape, CallKeepsTasks, CallKeepsCalls, CallKeepsScopes DEF IInv
  <2>3. ASSUME NEW t \in Tasks, Spawn(t) \/ Cancel(t) \/ Execute(t) \/ Compute(t)
        PROVE  Shape' /\ TaskInv' /\ CallInv' /\ ScopeInv'
    BY <2>3, TaskShape, TaskKeepsTasks, TaskKeepsCalls, TaskKeepsScopes DEF IInv
  <2>4. ASSUME NEW t \in Tasks, Complete(t) \/ CompleteStep(t)
        PROVE  Shape' /\ TaskInv' /\ CallInv' /\ ScopeInv'
    BY <2>4, CompletionShape, CompletionKeepsTasks, CompletionKeepsCalls, CompletionKeepsScopes
    DEF IInv
  <2>5. ASSUME Abort \/ CancelPending \/ EnvCloses
        PROVE  Shape' /\ TaskInv' /\ CallInv' /\ ScopeInv'
    BY <2>5, SweepShape, SweepKeepsTasks, SweepKeepsCalls, SweepKeepsScopes DEF IInv
  <2>6. Shape' /\ TaskInv' /\ CallInv' /\ ScopeInv'
    BY <1>2, <2>2, <2>3, <2>4, <2>5 DEF Next
  <2>. QED
    BY <2>1, <2>6 DEF IInv
<1>. QED
  BY <1>1, <1>2

LEMMA Invariance == Spec => []IInv
  BY InitIInv, StepIInv, PTL DEF Spec

-----------------------------------------------------------------------------
(* The theorems. *)

\* Every variable keeps its type, and NativeBorrowState counts exactly the
\* scopes that hold a guard, however calls nest and tasks complete.
THEOREM TypeCorrect == Spec => []TypeOK
<1>1. ASSUME IInv PROVE TypeOK
  <2>1. Exclusive # {} <=> \E c \in guard : Borrow[c] = "exclusive"
    BY DEF Exclusive
  <2>2. borrows = [shared |-> Cardinality({c \in guard : Borrow[c] = "shared"}),
                   exclusive |-> \E c \in guard : Borrow[c] = "exclusive"]
    BY <1>1, <2>1 DEF IInv, GuardsCounted, Shared
  <2>. QED
    BY <1>1, <2>2 DEF IInv, Shape, TypeOK
<1>. QED
  BY <1>1, Invariance, PTL

\* A user of the value is in its callback's body or a task that was made or
\* holds a lease: each has its scope's guard.
LEMMA UsersAreGuarded ==
  ASSUME IInv, NEW c \in Users
  PROVE  /\ Borrow[c] # "none" => c \in guard
         /\ pc[c] = "over" => c \in rooted
<1>. c \in Calls
  BY DEF Users
<1>. USE DEF IInv, CallInv, ScopeInv, Scope
<1>1. CASE pc[c] = "body"
  BY <1>1
<1>2. CASE pc[c] # "body"
  <2>1. PICK t \in ToSet(Returns[c]) : work[t] \in Alive
    BY <1>2 DEF Users
  <2>2. CASE work[t] = "made"
    <3>1. pc[c] = "convert"
      BY <2>2 DEF Callback
    <3>. QED
      BY <3>1
  <2>3. CASE work[t] # "made"
    <3>1. Holders(c) # {}
      BY <2>1, <2>3 DEF Holders, Holding, Alive, Pending
    <3>. QED
      BY <3>1
  <2>. QED
    BY <2>2, <2>3
<1>. QED
  BY <1>1, <1>2

\* Nobody holds the native value mutably while another callback's frame or task
\* holds it at all: BORROWS refuses the conversion of the second.
THEOREM NeverAliased == Spec => []NoAliasing
<1>1. ASSUME IInv PROVE NoAliasing
  <2>1. Users \subseteq Calls
    BY DEF Users
  <2>. QED
    BY <1>1, <2>1, UsersAreGuarded DEF NoAliasing, IInv, Exclusion
<1>. QED
  BY <1>1, Invariance, PTL

\* From the return of its callback to its end, a task's borrow is rooted.
THEOREM AlwaysRooted == Spec => []WrapperStaysRooted
<1>1. ASSUME IInv PROVE WrapperStaysRooted
  BY <1>1, UsersAreGuarded DEF WrapperStaysRooted
<1>. QED
  BY <1>1, Invariance, PTL

\* A disposal that reads no outstanding work finds every promise of a queued
\* work settled, thrown or given up by its own canceller, and no lease held.
THEOREM DisposalFindsAllSettled == Spec => []NoneOutstandingMeansSettled
<1>1. ASSUME IInv, outstanding = {}, env = "live"
      PROVE  /\ \A t \in Tasks : promise[t] = "pending" => t \in ceded
             /\ \A c \in closed : leases[c] = 0 /\ c \notin guard
  <2>. USE <1>1 DEF IInv
  <2>1. \A t \in Tasks : work[t] \notin Pending \cup {"freed"}
    BY DEF TaskInv, Completion
  <2>2. \A t \in Tasks : promise[t] = "pending" => t \in ceded
    BY <2>1 DEF TaskInv, Completion, Settlement, Settled
  <2>3. ASSUME NEW c \in closed PROVE leases[c] = 0 /\ c \notin guard
    <3>1. c \in Calls
      BY DEF Shape
    <3>2. Holders(c) = {}
      BY <2>1, <3>1, TasksOfACall DEF Holders, Holding, TaskInv, Completion
    <3>. QED
      BY <3>1, <3>2, FS_EmptySet DEF ScopeInv, Scope
  <2>. QED
    BY <2>2, <2>3
<1>2. ASSUME IInv PROVE NoneOutstandingMeansSettled
  BY <1>1, <1>2 DEF NoneOutstandingMeansSettled
<1>. QED
  BY <1>2, Invariance, PTL

\* The status of a freed napi_async_work reads completed, and the registry
\* that the sweep goes through no longer has it.
THEOREM FreedIsMarked == Spec => []FreedHandlesAreMarked
<1>1. ASSUME IInv PROVE FreedHandlesAreMarked
  BY <1>1 DEF IInv, TaskInv, Completion, Settled, Pending, FreedHandlesAreMarked
<1>. QED
  BY <1>1, Invariance, PTL
=============================================================================
