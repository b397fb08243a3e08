----------------------- MODULE RuntimeLifecycleProofs -----------------------
(***************************************************************************)
(* Theorems about RuntimeLifecycle, for every set of threads, submissions  *)
(* and entry points, every pool size and every bound on the generations.   *)
(***************************************************************************)
EXTENDS RuntimeLifecycle, TLAPS

(***************************************************************************)
(* Type correctness.  TypeOK is not inductive by itself: the critical      *)
(* section that counts a rejected submission adds arg[a] to rejected_drops,*)
(* so the frames of a submission must be known to have one in hand.        *)
(***************************************************************************)
InHandPcs == {"fast", "register", "slow", "schedule", "driving", "destroy",
              "unreject", "dropping"}
InHand == \A a \in Actors : pc[a] \in InHandPcs => arg[a] \in Works
TypeInv == TypeOK /\ InHand

LEMMA CreateBackendType ==
  ASSUME TypeOK, CreateBackend
  PROVE  /\ poolWorkers' \in {0, WorkerThreads} /\ lifecycle' \in LifecycleStates
         /\ draining' \in DrainStates /\ currentBackend' \in 0..MaxGen
         /\ lastGen' \in 0..MaxGen /\ workersUp' \subseteq 0..MaxGen
         /\ flavor' \in Flavors /\ rejecting' \subseteq Works
         /\ phaseEverOpened' \in BOOLEAN
         /\ closed' \subseteq 0..MaxGen /\ stopping' \subseteq 0..MaxGen
  BY ConstantsAssumption
     DEF TypeOK, CreateBackend, Carrying, Plain, LifecycleStates, DrainStates, Targets

LEMMA ReturnType ==
  ASSUME TypeInv, NEW a \in Actors, Return(a)
  PROVE  /\ pc' \in [Actors -> Pcs] /\ arg' \in [Actors -> Works \cup {NoWork}]
         /\ held' \in [Actors -> 0..MaxGen] /\ chain' \subseteq Actors
         /\ InHand'
  BY ConstantsAssumption DEF TypeInv, InHand, InHandPcs, TypeOK, Return, Goto, Resting, Pcs

LEMMA SubmitStepType ==
  ASSUME TypeInv, NEW a \in Actors, SubmitStep(a)
  PROVE  TypeInv'
<1>. USE DEF TypeInv, InHand, InHandPcs
<1>1. CASE FastLoad(a)
  BY <1>1 DEF FastLoad, FastUsable, TypeOK, Goto, At, Pcs, optVars, stateVars, genVars, workVars
<1>2. CASE FastRegister(a)
  BY <1>2 DEF FastRegister, Register, TypeOK, Goto, At, Pcs, WorkStates, optVars, stateVars, genVars
<1>3. CASE FastRegisterClosed(a)
  BY <1>3, ConstantsAssumption
     DEF FastRegisterClosed, TypeOK, Goto, At, Pcs, optVars, stateVars, genVars, workVars
<1>4. CASE SlowRunning(a)
  BY <1>4 DEF SlowRunning, AdmittedAs, TypeOK, Goto, At, Pcs, WorkStates, LifecycleStates,
              optVars, stateVars, genVars
<1>5. CASE SlowCreate(a)
  BY <1>5, CreateBackendType
     DEF SlowCreate, AdmittedAs, TypeOK, Goto, At, Pcs, WorkStates
<1>6. CASE SlowReject(a)
  <2>1. LifecycleGen \in 0..MaxGen /\ ActiveGen(a) \in 0..MaxGen
    BY ConstantsAssumption DEF TypeOK, LifecycleGen, ActiveGen, LifecycleStates
  <2>2. pc[a] = "slow" /\ arg[a] \in Works
    BY <1>6 DEF SlowReject, At
  <2>. QED
    BY <1>6, <2>1, <2>2 DEF SlowReject, TypeOK, Goto, Pcs, WorkStates, optVars, genVars
<1>7. CASE Destroyed(a)
  BY <1>7 DEF Destroyed, TypeOK, Goto, At, Pcs, optVars, stateVars, genVars, workVars
<1>8. CASE Unreject(a)
  <2>0. 0 \in 0..MaxGen
    BY ConstantsAssumption
  <2>1. /\ rejecting' \subseteq Works /\ parked' \subseteq Actors
    BY <1>8 DEF Unreject, NotifyAll, TypeOK
  <2>3. wgen' \in [Works -> 0..MaxGen]
    BY <1>8, <2>0 DEF Unreject, TypeOK
  <2>2. Return(a)
    BY <1>8 DEF Unreject
  <2>. QED
    BY <1>8, <2>1, <2>2, <2>3, ReturnType DEF Unreject, TypeOK, optVars, genVars
<1>9. CASE Schedule(a)
  <2>1. CASE wkind[arg[a]] = "block_on"
    BY <1>9, <2>1 DEF Schedule, TypeOK, Goto, At, Pcs, WorkStates, optVars, stateVars, genVars
  <2>2. CASE wkind[arg[a]] # "block_on"
    BY <1>9, <2>2, ReturnType DEF Schedule, TypeOK, WorkStates, optVars, stateVars, genVars
  <2>. QED BY <2>1, <2>2
<1>10. CASE BlockOnReturns(a)
  BY <1>10, ReturnType DEF BlockOnReturns, TypeOK, optVars, stateVars, genVars, workVars
<1>11. CASE OutputDropped(a)
  BY <1>11, ReturnType DEF OutputDropped, TypeOK, optVars, stateVars, genVars, workVars
<1>. QED
  BY <1>1, <1>2, <1>3, <1>4, <1>5, <1>6, <1>7, <1>8, <1>9, <1>10, <1>11 DEF SubmitStep

LEMMA WaitAtType ==
  ASSUME TypeInv, NEW a \in Actors, NEW label \in Pcs \ InHandPcs, WaitAt(a, label)
  PROVE  TypeInv'
  BY DEF WaitAt, TypeInv, InHand, TypeOK, Goto, optVars, stateVars, genVars, workVars

LEMMA StartStepType ==
  ASSUME TypeInv, NEW a \in Actors, StartStep(a)
  PROVE  TypeInv'
<1>1. CASE StartRefused(a)
  BY <1>1, ReturnType DEF StartRefused, TypeInv, TypeOK, optVars, stateVars, genVars, workVars
<1>2. CASE StartKeeps(a)
  BY <1>2, ReturnType, ConstantsAssumption
     DEF StartKeeps, TypeInv, TypeOK, Plain, Carrying, LifecycleStates, DrainStates, Targets,
         optVars, genVars, workVars
<1>3. CASE StartCreates(a)
  BY <1>3, ReturnType, CreateBackendType DEF StartCreates, TypeInv, TypeOK, workVars
<1>4. CASE StartWaits(a)
  BY <1>4, WaitAtType DEF StartWaits, Pcs, InHandPcs
<1>. QED
  BY <1>1, <1>2, <1>3, <1>4 DEF StartStep

LEMMA BeginAnswersType ==
  ASSUME TypeInv, NEW a \in Actors, BeginAnswers(a)
  PROVE  /\ pc' \in [Actors -> Pcs] /\ arg' \in [Actors -> Works \cup {NoWork}]
         /\ held' \in [Actors -> 0..MaxGen] /\ chain' \subseteq Actors
         /\ InHand'
  BY ReturnType, ConstantsAssumption
     DEF BeginAnswers, TypeInv, InHand, InHandPcs, TypeOK, Goto, Pcs

LEMMA RequeueType ==
  ASSUME TypeOK, NEW W, Requeue(W)
  PROVE  wstate' \in [Works -> WorkStates]
  BY DEF Requeue, TypeOK, WorkStates

LEMMA BeginStepType ==
  ASSUME TypeInv, NEW a \in Actors, BeginStep(a)
  PROVE  TypeInv'
<1>1. CASE BeginRefused(a)
  BY <1>1, ReturnType DEF BeginRefused, TypeInv, TypeOK, optVars, stateVars, genVars, workVars
<1>2. CASE BeginOutstanding(a)
  <2>1. CASE draining.gen # 0
    BY <1>2, <2>1 DEF BeginOutstanding, TypeInv, InHand, InHandPcs, TypeOK, Goto, Pcs,
                      DrainStates, optVars, stateVars, genVars, workVars
  <2>2. CASE draining.gen = 0
    BY <1>2, <2>2, BeginAnswersType
       DEF BeginOutstanding, TypeInv, TypeOK, optVars, stateVars, genVars, workVars
  <2>. QED BY <2>1, <2>2
<1>3. CASE BeginZero(a)
  <2>1. lifecycle' \in LifecycleStates /\ draining' \in DrainStates
    BY <1>3, ConstantsAssumption
       DEF BeginZero, TypeInv, TypeOK, Plain, Carrying, Towards, ZeroTarget,
           LifecycleStates, DrainStates, Targets
  <2>2. parked' \subseteq Actors
    BY <1>3 DEF BeginZero, TypeInv, TypeOK, NotifyAll
  <2>. QED
    BY <1>3, <2>1, <2>2, BeginAnswersType DEF BeginZero, TypeInv, TypeOK, optVars, genVars, workVars
<1>4. CASE BeginRunning(a)
  <2>1. lifecycle.gen \in 0..MaxGen
    BY DEF TypeInv, TypeOK, LifecycleStates
  <2>2. lifecycle' \in LifecycleStates /\ draining' \in DrainStates
    BY <1>4, <2>1 DEF BeginRunning, Carrying, LifecycleStates, DrainStates, Targets
  <2>3. /\ pc' \in [Actors -> Pcs] /\ held' \in [Actors -> 0..MaxGen]
        /\ stopping' \subseteq 0..MaxGen /\ InHand'
    BY <1>4, <2>1 DEF BeginRunning, TypeInv, InHand, InHandPcs, TypeOK, Goto, Pcs
  <2>. QED
    BY <1>4, <2>2, <2>3, ConstantsAssumption DEF BeginRunning, TypeInv, TypeOK, optVars, workVars
<1>5. CASE CloseAndAbort(a)
  BY <1>5, RequeueType
     DEF CloseAndAbort, TypeInv, InHand, InHandPcs, TypeOK, Goto, Pcs, optVars, stateVars
<1>6. CASE WakeParkers(a)
  BY <1>6, RequeueType
     DEF WakeParkers, TypeInv, InHand, InHandPcs, TypeOK, Goto, Pcs, optVars, stateVars, genVars
<1>7. CASE BeginVerdict(a)
  BY <1>7, BeginAnswersType
     DEF BeginVerdict, TypeInv, TypeOK, optVars, stateVars, genVars, workVars
<1>. QED
  BY <1>1, <1>2, <1>3, <1>4, <1>5, <1>6, <1>7 DEF BeginStep

LEMMA FinishStepType ==
  ASSUME TypeInv, NEW a \in Actors, FinishStep(a)
  PROVE  TypeInv'
<1>1. CASE FinishSettled(a)
  BY <1>1, ReturnType, ConstantsAssumption
     DEF FinishSettled, TypeInv, TypeOK, Plain, Carrying, DrainStates, Targets,
         optVars, genVars, workVars
<1>2. CASE FinishTakes(a)
  BY <1>2, ConstantsAssumption
     DEF FinishTakes, TakesBackend, TypeInv, InHand, InHandPcs, TypeOK, Goto, Pcs, Carrying,
         DrainStates, Targets, optVars, genVars, workVars
<1>3. CASE FinishZeroPublishes(a)
  BY <1>3, ReturnType, ConstantsAssumption
     DEF FinishZeroPublishes, NotifyAll, TypeInv, TypeOK, Plain, Carrying, LifecycleStates,
         DrainStates, Targets, optVars, genVars, workVars
<1>4. CASE FinishZeroWaits(a)
  BY <1>4, WaitAtType DEF FinishZeroWaits, Pcs, InHandPcs
<1>5. CASE FinishOtherWaits(a)
  BY <1>5, WaitAtType DEF FinishOtherWaits, Pcs, InHandPcs
<1>6. CASE FinishReports(a)
  BY <1>6, ReturnType DEF FinishReports, TypeInv, TypeOK, optVars, stateVars, genVars, workVars
<1>7. CASE WaitUntilIdle(a)
  BY <1>7 DEF WaitUntilIdle, TypeInv, InHand, InHandPcs, TypeOK, Goto, Pcs,
              optVars, stateVars, genVars, workVars
<1>8. CASE ReleaseBackend(a)
  BY <1>8, ConstantsAssumption
     DEF ReleaseBackend, TypeInv, InHand, InHandPcs, TypeOK, Goto, Pcs, Plain, Carrying,
         DrainStates, Targets, optVars, genVars, workVars
<1>9. CASE WaitForWorkers(a)
  BY <1>9 DEF WaitForWorkers, TypeInv, InHand, InHandPcs, TypeOK, Goto, Pcs,
              optVars, stateVars, genVars, workVars
<1>10. CASE PublishStopped(a)
  BY <1>10, ReturnType, ConstantsAssumption
     DEF PublishStopped, NotifyAll, TypeInv, TypeOK, Plain, Carrying, LifecycleStates,
         DrainStates, Targets, optVars, genVars, workVars
<1>11. CASE PublishWaits(a)
  BY <1>11, WaitAtType DEF PublishWaits, Pcs, InHandPcs
<1>. QED
  BY <1>1, <1>2, <1>3, <1>4, <1>5, <1>6, <1>7, <1>8, <1>9, <1>10, <1>11 DEF FinishStep

LEMMA CallType ==
  ASSUME TypeInv, NEW a \in Actors, Call(a)
  PROVE  TypeInv'
<1>. USE DEF TypeInv, InHand, InHandPcs, TypeOK
<1>1. ASSUME NEW f \in Flavors, Configure(a, f)
      PROVE  TypeInv'
  BY <1>1 DEF Configure, PoolWorkersFor, stateVars, genVars, workVars, threadVars
<1>2. ASSUME NEW w \in Works, NEW k \in Kinds, Submit(a, w, k)
      PROVE  TypeInv'
  BY <1>2 DEF Submit, Enter, Goto, Pcs, optVars, stateVars, genVars
<1>3. ASSUME NEW w \in Works, DropOutput(a, w)
      PROVE  TypeInv'
  BY <1>3 DEF DropOutput, Pcs, WorkStates, Actors, optVars, stateVars, genVars
<1>4. CASE StartCall(a)
  BY <1>4 DEF StartCall, Enter, Goto, Pcs, optVars, stateVars, genVars, workVars
<1>5. ASSUME NEW single \in BOOLEAN, ShutdownCall(a, single)
      PROVE  TypeInv'
  BY <1>5 DEF ShutdownCall, Enter, Goto, Pcs, optVars, stateVars, genVars, workVars
<1>6. CASE FinishCall(a)
  BY <1>6 DEF FinishCall, Enter, Goto, Pcs, optVars, stateVars, genVars, workVars
<1>. QED
  BY <1>1, <1>2, <1>3, <1>4, <1>5, <1>6 DEF Call

LEMMA WorkStepType ==
  ASSUME TypeInv, NEW w \in Works, Claim(w) \/ Suspend(w) \/ Wake(w) \/ Complete(w)
  PROVE  TypeInv'
<1>1. PICK to \in WorkStates : Advance(w, to)
  BY DEF Claim, Suspend, Wake, Complete, WorkStates
<1>. QED
  BY <1>1 DEF Advance, TypeInv, InHand, InHandPcs, TypeOK, Pcs, Actors,
              optVars, stateVars, genVars

LEMMA InitType == Init => TypeInv
<1>. SUFFICES ASSUME Init PROVE TypeInv
  OBVIOUS
<1>1. /\ lifecycle \in LifecycleStates /\ draining \in DrainStates
      /\ poolWorkers \in {0, WorkerThreads}
  BY ConstantsAssumption
     DEF Init, PoolWorkersFor, Plain, Carrying, LifecycleStates, DrainStates, Targets
<1>2. /\ wstate \in [Works -> WorkStates] /\ wkind \in [Works -> Kinds \cup {"task"}]
      /\ wgen \in [Works -> 0..MaxGen]
  BY ConstantsAssumption DEF Init, WorkStates
<1>3. /\ pc \in [Actors -> Pcs] /\ arg \in [Actors -> Works \cup {NoWork}]
      /\ held \in [Actors -> 0..MaxGen] /\ InHand
  BY ConstantsAssumption DEF Init, Pcs, InHand, InHandPcs
<1>4. /\ rejecting \subseteq Works /\ parked \subseteq Actors /\ chain \subseteq Actors
      /\ closed \subseteq 0..MaxGen /\ stopping \subseteq 0..MaxGen
      /\ workersUp \subseteq 0..MaxGen
  BY DEF Init
<1>5. flavor \in Flavors /\ currentBackend \in 0..MaxGen /\ lastGen \in 0..MaxGen
  BY ConstantsAssumption DEF Init
<1>6. phaseEverOpened \in BOOLEAN
  BY Zenon DEF Init
<1>. QED
  BY <1>1, <1>2, <1>3, <1>4, <1>5, <1>6 DEF TypeInv, TypeOK

LEMMA NextType == TypeInv /\ [Next]_vars => TypeInv'
<1>. SUFFICES ASSUME TypeInv, [Next]_vars
              PROVE  TypeInv'
  OBVIOUS
<1>1. ASSUME NEW a \in Actors, Call(a) \/ CodeStep(a)
      PROVE  TypeInv'
  BY <1>1, CallType, SubmitStepType, StartStepType, BeginStepType, FinishStepType DEF CodeStep
<1>2. ASSUME NEW w \in Works, Claim(w) \/ Suspend(w) \/ Wake(w) \/ Complete(w)
      PROVE  TypeInv'
  BY <1>2, WorkStepType
<1>3. ASSUME NEW g \in 1..MaxGen, WorkersExit(g)
      PROVE  TypeInv'
  BY <1>3 DEF WorkersExit, TypeInv, InHand, TypeOK, optVars, stateVars, workVars, threadVars
<1>4. CASE UNCHANGED vars
  BY <1>4 DEF vars, TypeInv, InHand, TypeOK, optVars, stateVars, genVars, workVars, threadVars
<1>. QED
  BY <1>1, <1>2, <1>3, <1>4 DEF Next

\* Every variable keeps its shape: the states, mirrors, generations and stacks of
\* TypeOK are all the controller can reach, whatever is called in whatever order.
THEOREM TypeCorrect == Spec => []TypeOK
<1>1. TypeInv => TypeOK
  BY DEF TypeInv
<1>. QED
  BY <1>1, InitType, NextType, PTL DEF Spec

(***************************************************************************)
(* The core: what holds however many actors shut down.  A submission in    *)
(* hand is in one hand, one actor joins, and only while the state is       *)
(* Stopping; the mirror names the running generation, which is open; and a *)
(* rejected destructor is barred from whatever generation runs.            *)
(***************************************************************************)
SubmitPcs == {"fast", "register", "slow", "schedule", "destroy", "unreject"}
JoinPcs == {"joining", "marker", "workers", "publish"}
AdmittedPcs == {"register", "schedule", "driving"}

\* What a submission can be while its entry point is at `label`.
StatesAt(label) ==
  CASE label = "schedule" -> {"registered"}
    [] label = "destroy"  -> {"destroying", "gone"}
    [] label = "unreject" -> {"new", "gone"}
    [] OTHER -> {"new"}

\* A submission in hand is in nobody else's, and in the state its frame left it.
Frames ==
  \A a \in Actors : pc[a] \in SubmitPcs =>
    /\ wstate[arg[a]] \in StatesAt(pc[a])
    /\ \A b \in Actors \ {a} : arg[b] # arg[a]

\* Only user code that runs is inside an entry point.
Executing == \A w \in Works : pc[w] \notin {"idle", "done"} => wstate[w] \in UserCode

\* A handoff with a backend stands for a generation that is stopping, and one
\* actor at most has taken it.
Phases ==
  /\ draining.kind \in {"Backend", "Joining"} => lifecycle.kind = "Stopping"
  /\ \A a \in Actors : pc[a] \in JoinPcs =>
       /\ draining.kind = "Joining"
       /\ \A b \in Actors \ {a} : pc[b] \notin JoinPcs

\* The generation in use is the last one created, the mirror names it while it
\* runs, and nobody has closed it or is about to.
Generations ==
  /\ lifecycle.kind \in {"Running", "Stopping"} =>
       lifecycle.gen = lastGen /\ lastGen # 0
  /\ currentBackend = RunningGen
  /\ closed \subseteq 1..lastGen /\ RunningGen \notin closed
  /\ \A w \in Works : wgen[w] <= lastGen
  /\ \A a \in Actors : pc[a] \in {"register", "closing"} => held[a] \in 1..lastGen
  /\ \A a \in Actors : pc[a] = "closing" => held[a] # RunningGen

\* A rejected submission is counted until its destructor is over, and every
\* generation that runs meanwhile is another than its own.
Barred ==
  \A w \in Works : wstate[w] = "destroying" =>
    /\ w \in rejecting
    /\ lifecycle.kind = "Running" => wgen[w] \notin {0, lifecycle.gen}
    /\ pc[w] \notin AdmittedPcs

CoreInv == Frames /\ Executing /\ Phases /\ Generations /\ Barred

\* The steps that change nothing but the stack of the actor that makes them.
LEMMA CoreMoves ==
  ASSUME TypeInv, CoreInv, NEW a \in Actors,
         \A b \in Actors : b # a => pc'[b] = pc[b] /\ held'[b] = held[b] /\ arg'[b] = arg[b],
         arg'[a] # arg[a] => arg'[a] = NoWork /\ pc'[a] \notin SubmitPcs,
         UNCHANGED <<lifecycle, draining, rejecting, currentBackend, lastGen, closed, wstate, wgen>>,
         pc'[a] \in JoinPcs => pc[a] \in JoinPcs,
         pc'[a] # "closing",
         pc'[a] = "register" => held'[a] \in 1..lastGen,
         pc'[a] \in SubmitPcs => pc[a] \in SubmitPcs /\ wstate[arg[a]] \in StatesAt(pc'[a]),
         pc'[a] \notin {"idle", "done"} => a \notin Works \/ wstate[a] \in UserCode,
         pc'[a] \in AdmittedPcs => a \notin Works \/ wstate[a] # "destroying"
  PROVE  CoreInv'
<1>. USE DEF CoreInv
<1>1. Frames'
  BY ConstantsAssumption DEF Frames, StatesAt, SubmitPcs, TypeInv, TypeOK, InHand, InHandPcs
<1>2. Executing'
  BY DEF Executing, Actors
<1>3. Phases'
  BY DEF Phases
<1>4. Generations'
  BY DEF Generations, RunningGen
<1>5. Barred'
  BY DEF Barred, Actors
<1>. QED
  BY <1>1, <1>2, <1>3, <1>4, <1>5

LEMMA LeavesFrames ==
  ASSUME TypeInv, Frames, NEW a \in Actors, NEW l,
         pc' = [pc EXCEPT ![a] = l], l \notin SubmitPcs,
         arg' = arg \/ arg' = [arg EXCEPT ![a] = NoWork],
         \A w \in Works : wstate'[w] # wstate[w] => pc[a] \in SubmitPcs /\ w = arg[a]
  PROVE  Frames'
  BY ConstantsAssumption DEF Frames, StatesAt, SubmitPcs, TypeInv, TypeOK, InHand, InHandPcs

LEMMA FastRegisterCore ==
  ASSUME TypeInv, CoreInv, NEW a \in Actors, FastRegister(a)
  PROVE  CoreInv'
<1>. USE DEF CoreInv, SubmitPcs, JoinPcs, AdmittedPcs, FastRegister, Register, Goto, At, optVars, stateVars, genVars
<1>1. Frames'
  BY DEF Frames, StatesAt, TypeInv, TypeOK, InHand, InHandPcs
<1>2. Executing'
  BY DEF Executing, UserCode, Frames, StatesAt, InHand, InHandPcs, TypeInv, TypeOK, Actors
<1>3. Phases'
  BY DEF Phases, TypeInv, TypeOK
<1>4. Generations'
  BY ConstantsAssumption DEF Generations, RunningGen, TypeInv, TypeOK, LifecycleStates, Targets, InHand, InHandPcs
<1>5. Barred'
  BY DEF Barred, Frames, Generations, Executing, UserCode, StatesAt, TypeInv, TypeOK, InHand, InHandPcs, Actors
<1>. QED
  BY <1>1, <1>2, <1>3, <1>4, <1>5

LEMMA SlowRunningCore ==
  ASSUME TypeInv, CoreInv, NEW a \in Actors, SlowRunning(a)
  PROVE  CoreInv'
<1>. USE DEF CoreInv, SubmitPcs, JoinPcs, AdmittedPcs, SlowRunning, AdmittedAs, GenerationCurrent, ActiveGen, LifecycleGen, Goto, At, optVars, stateVars, genVars
<1>1. Frames'
  BY DEF Frames, StatesAt, TypeInv, TypeOK, InHand, InHandPcs
<1>2. Executing'
  BY DEF Executing, UserCode, Frames, StatesAt, InHand, InHandPcs, TypeInv, TypeOK, Actors
<1>3. Phases'
  BY DEF Phases, TypeInv, TypeOK
<1>4. Generations'
  BY ConstantsAssumption DEF Generations, RunningGen, TypeInv, TypeOK, LifecycleStates, Targets, InHand, InHandPcs
<1>5. Barred'
  BY DEF Barred, Frames, Generations, Executing, UserCode, StatesAt, TypeInv, TypeOK, InHand, InHandPcs, Actors
<1>. QED
  BY <1>1, <1>2, <1>3, <1>4, <1>5

LEMMA SlowCreateCore ==
  ASSUME TypeInv, CoreInv, NEW a \in Actors, SlowCreate(a)
  PROVE  CoreInv'
<1>. USE DEF CoreInv, SubmitPcs, JoinPcs, AdmittedPcs, SlowCreate, CreationAllowed, CreateBackend, AdmittedAs, Carrying, Plain, Goto, At
<1>1. Frames'
  BY DEF Frames, StatesAt, TypeInv, TypeOK, InHand, InHandPcs
<1>2. Executing'
  BY DEF Executing, UserCode, Frames, StatesAt, InHand, InHandPcs, TypeInv, TypeOK, Actors
<1>3. Phases'
  BY DEF Phases, TypeInv, TypeOK
<1>4. Generations'
  BY ConstantsAssumption DEF Generations, RunningGen, TypeInv, TypeOK, LifecycleStates, Targets, InHand, InHandPcs
<1>5. Barred'
  BY DEF Barred, Frames, Generations, Executing, UserCode, StatesAt, TypeInv, TypeOK, InHand, InHandPcs, Actors
<1>. QED
  BY <1>1, <1>2, <1>3, <1>4, <1>5

LEMMA UnrejectCore ==
  ASSUME TypeInv, CoreInv, NEW a \in Actors, Unreject(a)
  PROVE  CoreInv'
<1>. USE DEF CoreInv, SubmitPcs, JoinPcs, AdmittedPcs, Unreject, Return, Resting, Goto, At, optVars, genVars
<1>1. Frames'
  BY LeavesFrames DEF Frames, StatesAt, TypeInv, TypeOK, InHand, InHandPcs
<1>2. Executing'
  BY DEF Executing, UserCode, Frames, StatesAt, InHand, InHandPcs, TypeInv, TypeOK, Actors
<1>3. Phases'
  BY DEF Phases, TypeInv, TypeOK
<1>4. Generations'
  BY ConstantsAssumption DEF Generations, RunningGen, TypeInv, TypeOK, LifecycleStates, Targets, InHand, InHandPcs
<1>5. Barred'
  BY DEF Barred, Frames, Generations, Executing, UserCode, StatesAt, TypeInv, TypeOK, InHand, InHandPcs, Actors
<1>. QED
  BY <1>1, <1>2, <1>3, <1>4, <1>5

LEMMA StartKeepsCore ==
  ASSUME TypeInv, CoreInv, NEW a \in Actors, StartKeeps(a)
  PROVE  CoreInv'
<1>. USE DEF CoreInv, SubmitPcs, JoinPcs, AdmittedPcs, StartKeeps, Stopped, Plain, Carrying, Return, Resting, Goto, At, optVars, genVars, workVars
<1>1. Frames'
  BY LeavesFrames DEF Frames, StatesAt, TypeInv, TypeOK, InHand, InHandPcs
<1>2. Executing'
  BY DEF Executing, UserCode, Frames, StatesAt, InHand, InHandPcs, TypeInv, TypeOK, Actors
<1>3. Phases'
  BY DEF Phases, TypeInv, TypeOK
<1>4. Generations'
  BY ConstantsAssumption DEF Generations, RunningGen, TypeInv, TypeOK, LifecycleStates, Targets, InHand, InHandPcs
<1>5. Barred'
  BY DEF Barred, Frames, Generations, Executing, UserCode, StatesAt, TypeInv, TypeOK, InHand, InHandPcs, Actors
<1>. QED
  BY <1>1, <1>2, <1>3, <1>4, <1>5

LEMMA StartCreatesCore ==
  ASSUME TypeInv, CoreInv, NEW a \in Actors, StartCreates(a)
  PROVE  CoreInv'
<1>. USE DEF CoreInv, SubmitPcs, JoinPcs, AdmittedPcs, StartCreates, CreateBackend, Plain, Carrying, Return, Resting, Goto, At, workVars
<1>1. Frames'
  BY LeavesFrames DEF Frames, StatesAt, TypeInv, TypeOK, InHand, InHandPcs
<1>2. Executing'
  BY DEF Executing, UserCode, Frames, StatesAt, InHand, InHandPcs, TypeInv, TypeOK, Actors
<1>3. Phases'
  BY DEF Phases, TypeInv, TypeOK
<1>4. Generations'
  BY ConstantsAssumption DEF Generations, RunningGen, TypeInv, TypeOK, LifecycleStates, Targets, InHand, InHandPcs
<1>5. Barred'
  BY DEF Barred, Frames, Generations, Executing, UserCode, StatesAt, TypeInv, TypeOK, InHand, InHandPcs, Actors
<1>. QED
  BY <1>1, <1>2, <1>3, <1>4, <1>5

LEMMA BeginRunningCore ==
  ASSUME TypeInv, CoreInv, NEW a \in Actors, BeginRunning(a)
  PROVE  CoreInv'
<1>. USE DEF CoreInv, SubmitPcs, JoinPcs, AdmittedPcs, BeginRunning, Carrying, Goto, At, optVars, workVars
<1>1. Frames'
  BY DEF Frames, StatesAt, TypeInv, TypeOK, InHand, InHandPcs
<1>2. Executing'
  BY DEF Executing, UserCode, Frames, StatesAt, InHand, InHandPcs, TypeInv, TypeOK, Actors
<1>3. Phases'
  BY DEF Phases, TypeInv, TypeOK
<1>4. Generations'
  BY ConstantsAssumption DEF Generations, RunningGen, TypeInv, TypeOK, LifecycleStates, Targets, InHand, InHandPcs
<1>5. Barred'
  BY DEF Barred, Frames, Generations, Executing, UserCode, StatesAt, TypeInv, TypeOK, InHand, InHandPcs, Actors
<1>. QED
  BY <1>1, <1>2, <1>3, <1>4, <1>5

LEMMA CloseAndAbortCore ==
  ASSUME TypeInv, CoreInv, NEW a \in Actors, CloseAndAbort(a)
  PROVE  CoreInv'
<1>. USE DEF CoreInv, SubmitPcs, JoinPcs, AdmittedPcs, CloseAndAbort, Requeue, Goto, At, optVars, stateVars
<1>1. Frames'
  BY DEF Frames, StatesAt, TypeInv, TypeOK, InHand, InHandPcs
<1>2. Executing'
  BY DEF Executing, UserCode, Frames, StatesAt, InHand, InHandPcs, TypeInv, TypeOK, Actors
<1>3. Phases'
  BY DEF Phases, TypeInv, TypeOK
<1>4. Generations'
  BY ConstantsAssumption DEF Generations, RunningGen, TypeInv, TypeOK, LifecycleStates, Targets, InHand, InHandPcs
<1>5. Barred'
  BY DEF Barred, Frames, Generations, Executing, UserCode, StatesAt, TypeInv, TypeOK, InHand, InHandPcs, Actors
<1>. QED
  BY <1>1, <1>2, <1>3, <1>4, <1>5

LEMMA WakeParkersCore ==
  ASSUME TypeInv, CoreInv, NEW a \in Actors, WakeParkers(a)
  PROVE  CoreInv'
<1>. USE DEF CoreInv, SubmitPcs, JoinPcs, AdmittedPcs, WakeParkers, Requeue, Goto, At, optVars, stateVars, genVars
<1>1. Frames'
  BY DEF Frames, StatesAt, TypeInv, TypeOK, InHand, InHandPcs
<1>2. Executing'
  BY DEF Executing, UserCode, Frames, StatesAt, InHand, InHandPcs, TypeInv, TypeOK, Actors
<1>3. Phases'
  BY DEF Phases, TypeInv, TypeOK
<1>4. Generations'
  BY ConstantsAssumption DEF Generations, RunningGen, TypeInv, TypeOK, LifecycleStates, Targets, InHand, InHandPcs
<1>5. Barred'
  BY DEF Barred, Frames, Generations, Executing, UserCode, StatesAt, TypeInv, TypeOK, InHand, InHandPcs, Actors
<1>. QED
  BY <1>1, <1>2, <1>3, <1>4, <1>5

LEMMA FinishSettledCore ==
  ASSUME TypeInv, CoreInv, NEW a \in Actors, FinishSettled(a)
  PROVE  CoreInv'
<1>. USE DEF CoreInv, SubmitPcs, JoinPcs, AdmittedPcs, FinishSettled, Plain, Carrying, Return, Resting, Goto, At, optVars, genVars, workVars
<1>1. Frames'
  BY LeavesFrames DEF Frames, StatesAt, TypeInv, TypeOK, InHand, InHandPcs
<1>2. Executing'
  BY DEF Executing, UserCode, Frames, StatesAt, InHand, InHandPcs, TypeInv, TypeOK, Actors
<1>3. Phases'
  BY DEF Phases, TypeInv, TypeOK
<1>4. Generations'
  BY ConstantsAssumption DEF Generations, RunningGen, TypeInv, TypeOK, LifecycleStates, Targets, InHand, InHandPcs
<1>5. Barred'
  BY DEF Barred, Frames, Generations, Executing, UserCode, StatesAt, TypeInv, TypeOK, InHand, InHandPcs, Actors
<1>. QED
  BY <1>1, <1>2, <1>3, <1>4, <1>5

LEMMA FinishTakesCore ==
  ASSUME TypeInv, CoreInv, NEW a \in Actors, FinishTakes(a)
  PROVE  CoreInv'
<1>. USE DEF CoreInv, SubmitPcs, JoinPcs, AdmittedPcs, FinishTakes, TakesBackend, Carrying, Goto, At, optVars, genVars, workVars
<1>1. Frames'
  BY DEF Frames, StatesAt, TypeInv, TypeOK, InHand, InHandPcs
<1>2. Executing'
  BY DEF Executing, UserCode, Frames, StatesAt, InHand, InHandPcs, TypeInv, TypeOK, Actors
<1>3. Phases'
  BY DEF Phases, TypeInv, TypeOK
<1>4. Generations'
  BY ConstantsAssumption DEF Generations, RunningGen, TypeInv, TypeOK, LifecycleStates, Targets, InHand, InHandPcs
<1>5. Barred'
  BY DEF Barred, Frames, Generations, Executing, UserCode, StatesAt, TypeInv, TypeOK, InHand, InHandPcs, Actors
<1>. QED
  BY <1>1, <1>2, <1>3, <1>4, <1>5

LEMMA FinishZeroPublishesCore ==
  ASSUME TypeInv, CoreInv, NEW a \in Actors, FinishZeroPublishes(a)
  PROVE  CoreInv'
<1>. USE DEF CoreInv, SubmitPcs, JoinPcs, AdmittedPcs, FinishZeroPublishes, AtZero, ZeroParked, Plain, Carrying, Return, Resting, Goto, At, optVars, genVars, workVars
<1>1. Frames'
  BY LeavesFrames DEF Frames, StatesAt, TypeInv, TypeOK, InHand, InHandPcs
<1>2. Executing'
  BY DEF Executing, UserCode, Frames, StatesAt, InHand, InHandPcs, TypeInv, TypeOK, Actors
<1>3. Phases'
  BY DEF Phases, TypeInv, TypeOK
<1>4. Generations'
  BY ConstantsAssumption DEF Generations, RunningGen, TypeInv, TypeOK, LifecycleStates, Targets, InHand, InHandPcs
<1>5. Barred'
  BY DEF Barred, Frames, Generations, Executing, UserCode, StatesAt, TypeInv, TypeOK, InHand, InHandPcs, Actors
<1>. QED
  BY <1>1, <1>2, <1>3, <1>4, <1>5

LEMMA ReleaseBackendCore ==
  ASSUME TypeInv, CoreInv, NEW a \in Actors, ReleaseBackend(a)
  PROVE  CoreInv'
<1>. USE DEF CoreInv, SubmitPcs, JoinPcs, AdmittedPcs, ReleaseBackend, Plain, Carrying, Goto, At, optVars, genVars, workVars
<1>1. Frames'
  BY DEF Frames, StatesAt, TypeInv, TypeOK, InHand, InHandPcs
<1>2. Executing'
  BY DEF Executing, UserCode, Frames, StatesAt, InHand, InHandPcs, TypeInv, TypeOK, Actors
<1>3. Phases'
  BY DEF Phases, TypeInv, TypeOK
<1>4. Generations'
  BY ConstantsAssumption DEF Generations, RunningGen, TypeInv, TypeOK, LifecycleStates, Targets, InHand, InHandPcs
<1>5. Barred'
  BY DEF Barred, Frames, Generations, Executing, UserCode, StatesAt, TypeInv, TypeOK, InHand, InHandPcs, Actors
<1>. QED
  BY <1>1, <1>2, <1>3, <1>4, <1>5

LEMMA PublishStoppedCore ==
  ASSUME TypeInv, CoreInv, NEW a \in Actors, PublishStopped(a)
  PROVE  CoreInv'
<1>. USE DEF CoreInv, SubmitPcs, JoinPcs, AdmittedPcs, PublishStopped, Plain, Carrying, Return, Resting, Goto, At, optVars, genVars, workVars
<1>1. Frames'
  BY LeavesFrames DEF Frames, StatesAt, TypeInv, TypeOK, InHand, InHandPcs
<1>2. Executing'
  BY DEF Executing, UserCode, Frames, StatesAt, InHand, InHandPcs, TypeInv, TypeOK, Actors
<1>3. Phases'
  BY DEF Phases, TypeInv, TypeOK
<1>4. Generations'
  BY ConstantsAssumption DEF Phases, Generations, RunningGen, TypeInv, TypeOK, LifecycleStates, Targets, InHand, InHandPcs
<1>5. Barred'
  BY DEF Barred, Frames, Generations, Executing, UserCode, StatesAt, TypeInv, TypeOK, InHand, InHandPcs, Actors
<1>. QED
  BY <1>1, <1>2, <1>3, <1>4, <1>5

LEMMA SlowRejectCore ==
  ASSUME TypeInv, CoreInv, NEW a \in Actors, SlowReject(a)
  PROVE  CoreInv'
<1>. USE DEF CoreInv, SubmitPcs, JoinPcs, AdmittedPcs, Goto, At, optVars, genVars
<1>1. PICK l \in {"destroy", "unreject"} :
        /\ pc' = [pc EXCEPT ![a] = l]
        /\ wstate' = IF l = "destroy" THEN [wstate EXCEPT ![arg[a]] = "destroying"] ELSE wstate
  BY DEF SlowReject
<1>2. /\ pc[a] = "slow" /\ wstate[arg[a]] = "new" /\ arg[a] \in Works
      /\ rejecting' = rejecting \cup {arg[a]}
      /\ UNCHANGED <<lifecycle, draining, currentBackend, lastGen, closed, held, arg>>
  BY DEF SlowReject, Frames, StatesAt, InHand, InHandPcs, TypeInv
<1>3. PICK g \in 0..lastGen :
        /\ wgen' = [wgen EXCEPT ![arg[a]] = g]
        /\ lifecycle.kind = "Running" => g \notin {0, lifecycle.gen}
  <2>1. LifecycleGen \in 0..lastGen /\ ActiveGen(a) \in 0..lastGen
    BY ConstantsAssumption
       DEF LifecycleGen, ActiveGen, Generations, TypeInv, TypeOK, LifecycleStates
  <2>2. lifecycle.kind = "Running" => lifecycle.gen \notin closed /\ ~GenerationCurrent(a)
    BY <2>1 DEF SlowReject, SlowRefused, CreationAllowed, Generations, RunningGen
  <2>3. LifecycleGen = lifecycle.gen \/ lifecycle.kind # "Running"
    BY DEF LifecycleGen
  <2>. QED
    BY <2>1, <2>2, <2>3 DEF SlowReject, GenerationCurrent
<1>4. Frames'
  BY <1>1, <1>2 DEF Frames, StatesAt, TypeInv, TypeOK
<1>5. Executing'
  BY <1>1, <1>2 DEF Executing, UserCode, TypeInv, TypeOK
<1>6. Phases'
  BY <1>1, <1>2 DEF Phases, TypeInv, TypeOK
<1>7. Generations'
  BY <1>1, <1>2, <1>3 DEF Generations, RunningGen, TypeInv, TypeOK
<1>8. Barred'
  <2>1. pc[arg[a]] \in {"idle", "done"} /\ arg[a] # a
    BY <1>2 DEF Executing, UserCode
  <2>. QED
    BY <1>1, <1>2, <1>3, <2>1 DEF Barred, TypeInv, TypeOK, Actors
<1>. QED
  BY <1>4, <1>5, <1>6, <1>7, <1>8

LEMMA ScheduleCore ==
  ASSUME TypeInv, CoreInv, NEW a \in Actors, Schedule(a)
  PROVE  CoreInv'
<1>. USE DEF CoreInv, SubmitPcs, JoinPcs, AdmittedPcs, Goto, At, optVars, stateVars, genVars
<1>1. PICK l \in {"driving", "done", "idle"} :
        /\ pc' = [pc EXCEPT ![a] = l]
        /\ arg' = arg \/ arg' = [arg EXCEPT ![a] = NoWork]
        /\ held' = held \/ held' = [held EXCEPT ![a] = 0]
  BY DEF Schedule, Return, Resting
<1>2. /\ pc[a] = "schedule" /\ wstate[arg[a]] = "registered" /\ arg[a] \in Works
      /\ wstate' = [wstate EXCEPT ![arg[a]] = "queued"]
      /\ UNCHANGED <<lifecycle, draining, rejecting, currentBackend, lastGen, closed, wgen>>
  BY DEF Schedule, Frames, StatesAt, TypeInv, InHand, InHandPcs
<1>3. Frames'
  BY <1>1, <1>2, LeavesFrames DEF TypeInv, TypeOK
<1>4. Executing' /\ Phases'
  BY <1>1, <1>2 DEF Executing, UserCode, Phases, TypeInv, TypeOK, Actors
<1>5. Generations'
  BY <1>1, <1>2 DEF Generations, RunningGen, TypeInv, TypeOK
<1>6. Barred'
  BY <1>1, <1>2 DEF Barred, TypeInv, TypeOK, Actors
<1>. QED
  BY <1>3, <1>4, <1>5, <1>6

LEMMA BeginZeroCore ==
  ASSUME TypeInv, CoreInv, NEW a \in Actors, BeginZero(a)
  PROVE  CoreInv'
<1>. USE DEF CoreInv, SubmitPcs, JoinPcs, AdmittedPcs
<1>1. PICK l \in {"finish", "done", "idle"} :
        /\ pc' = [pc EXCEPT ![a] = l]
        /\ arg' = arg \/ arg' = [arg EXCEPT ![a] = NoWork]
        /\ held' = [held EXCEPT ![a] = 0]
  BY DEF BeginZero, BeginAnswers, Return, Resting, Goto
<1>2. /\ pc[a] = "begin" /\ draining.kind = "None"
      /\ lifecycle.kind \notin {"Running", "Stopping"}
      /\ lifecycle'.kind \notin {"Running", "Stopping"}
      /\ draining'.kind \notin {"Backend", "Joining"}
      /\ UNCHANGED <<rejecting, currentBackend, lastGen, closed, wstate, wgen>>
  BY DEF BeginZero, At, Stopped, ZeroTarget, Towards, Plain, Carrying, genVars, workVars
<1>3. Frames'
  BY <1>1, <1>2, LeavesFrames
<1>4. Executing' /\ Phases'
  BY <1>1, <1>2 DEF Executing, UserCode, Phases, TypeInv, TypeOK, Actors
<1>5. Generations'
  BY <1>1, <1>2 DEF Generations, RunningGen, TypeInv, TypeOK
<1>6. Barred'
  BY <1>1, <1>2 DEF Barred, TypeInv, TypeOK, Actors
<1>. QED
  BY <1>3, <1>4, <1>5, <1>6

LEMMA SubmitMovesCore ==
  ASSUME TypeInv, CoreInv, NEW a \in Actors,
         FastLoad(a) \/ FastRegisterClosed(a) \/ Destroyed(a) \/ BlockOnReturns(a) \/ OutputDropped(a)
  PROVE  CoreInv'
<1>. USE DEF At, Goto, optVars, stateVars, genVars, workVars, SubmitPcs, JoinPcs, StatesAt,
             AdmittedPcs
<1>0. /\ pc[a] \in SubmitPcs => wstate[arg[a]] \in StatesAt(pc[a])
      /\ pc[a] \notin {"idle", "done"} => a \notin Works \/ wstate[a] \in UserCode
  BY DEF CoreInv, Frames, Executing
<1>1. pc \in [Actors -> Pcs] /\ held \in [Actors -> 0..MaxGen]
  BY DEF TypeInv, TypeOK
<1>2. CASE FastLoad(a)
  <2>1. /\ pc' = [pc EXCEPT ![a] = IF FastUsable(a) THEN "register" ELSE "slow"]
        /\ held' = IF FastUsable(a) THEN [held EXCEPT ![a] = currentBackend] ELSE held
        /\ pc[a] = "fast"
        /\ UNCHANGED <<lifecycle, draining, rejecting, currentBackend, lastGen, closed,
                       wstate, wgen, arg>>
    BY <1>2 DEF FastLoad
  <2>2. FastUsable(a) => currentBackend \in 1..lastGen
    BY DEF FastUsable, CoreInv, Generations, RunningGen, TypeInv, TypeOK
  <2>3. /\ pc'[a] \in {"register", "slow"}
        /\ pc'[a] = "register" => held'[a] \in 1..lastGen
        /\ \A b \in Actors : b # a => pc'[b] = pc[b] /\ held'[b] = held[b]
    BY <1>1, <2>1, <2>2
  <2>4. FastUsable(a) => a \notin Works \/ wstate[a] # "destroying"
    BY DEF FastUsable, ActiveGen, CoreInv, Generations, RunningGen, Barred
  <2>5. /\ pc'[a] = "register" => FastUsable(a)
        /\ pc'[a] \in SubmitPcs => pc[a] \in SubmitPcs /\ wstate[arg[a]] \in StatesAt(pc'[a])
    BY <1>0, <1>1, <2>1
  <2>. QED
    BY <1>0, <2>1, <2>3, <2>4, <2>5, CoreMoves
<1>4. CASE FastRegisterClosed(a)
  BY <1>0, <1>1, <1>4, CoreMoves DEF FastRegisterClosed
<1>5. CASE Destroyed(a)
  BY <1>0, <1>1, <1>5, CoreMoves DEF Destroyed
<1>6. CASE BlockOnReturns(a)
  BY <1>0, <1>6, CoreMoves DEF TypeInv, TypeOK, BlockOnReturns, Return, Resting
<1>7. CASE OutputDropped(a)
  BY <1>0, <1>7, CoreMoves DEF TypeInv, TypeOK, OutputDropped, Return, Resting
<1>. QED
  BY <1>2, <1>4, <1>5, <1>6, <1>7

LEMMA LifecycleMovesCore ==
  ASSUME TypeInv, CoreInv, NEW a \in Actors,
         \/ StartRefused(a) \/ StartWaits(a) \/ BeginRefused(a) \/ BeginOutstanding(a)
         \/ BeginVerdict(a) \/ FinishZeroWaits(a) \/ FinishOtherWaits(a) \/ FinishReports(a)
         \/ WaitUntilIdle(a) \/ WaitForWorkers(a) \/ PublishWaits(a)
  PROVE  CoreInv'
<1>. USE DEF At, Goto, WaitAt, Return, Resting, optVars, stateVars, genVars, workVars,
             SubmitPcs, JoinPcs, AdmittedPcs
<1>0. pc[a] \notin {"idle", "done"} => a \notin Works \/ wstate[a] \in UserCode
  BY DEF CoreInv, Executing
<1>1. held = [held EXCEPT ![a] = held[a]]
  BY DEF TypeInv, TypeOK
<1>2. CASE StartRefused(a)
  BY <1>0, <1>2, CoreMoves DEF TypeInv, TypeOK, StartRefused
<1>3. CASE StartWaits(a)
  BY <1>0, <1>1, <1>3, CoreMoves DEF TypeInv, TypeOK, StartWaits
<1>4. CASE BeginRefused(a)
  BY <1>0, <1>4, CoreMoves DEF TypeInv, TypeOK, BeginRefused
<1>5. CASE BeginOutstanding(a)
  BY <1>0, <1>5, CoreMoves DEF TypeInv, TypeOK, BeginOutstanding, BeginAnswers
<1>6. CASE BeginVerdict(a)
  BY <1>0, <1>6, CoreMoves DEF TypeInv, TypeOK, BeginVerdict, BeginAnswers
<1>7. CASE FinishZeroWaits(a)
  BY <1>0, <1>1, <1>7, CoreMoves DEF TypeInv, TypeOK, FinishZeroWaits, AtZero
<1>8. CASE FinishOtherWaits(a)
  BY <1>0, <1>1, <1>8, CoreMoves DEF TypeInv, TypeOK, FinishOtherWaits, AtOther
<1>9. CASE FinishReports(a)
  BY <1>0, <1>9, CoreMoves DEF TypeInv, TypeOK, FinishReports, AtZero, AtOther
<1>10. CASE WaitUntilIdle(a) \/ WaitForWorkers(a) \/ PublishWaits(a)
  BY <1>0, <1>1, <1>10, CoreMoves DEF TypeInv, TypeOK, WaitUntilIdle, WaitForWorkers, PublishWaits
<1>. QED
  BY <1>2, <1>3, <1>4, <1>5, <1>6, <1>7, <1>8, <1>9, <1>10

LEMMA CallCore ==
  ASSUME TypeInv, CoreInv, NEW a \in Actors, Call(a)
  PROVE  CoreInv'
<1>. USE DEF Enter, Goto, optVars, stateVars, genVars, workVars, SubmitPcs, JoinPcs, AdmittedPcs
<1>1. held = [held EXCEPT ![a] = held[a]] /\ pc = [pc EXCEPT ![a] = pc[a]]
  BY DEF TypeInv, TypeOK
<1>2. CanCall(a) => pc[a] = "idle" /\ (a \notin Works \/ wstate[a] \in UserCode)
  BY DEF CanCall, At
<1>3. ASSUME NEW f \in Flavors, Configure(a, f)
      PROVE  CoreInv'
  BY <1>3 DEF Configure, threadVars, CoreInv, Frames, Executing, Phases, Generations, Barred, RunningGen
<1>4. ASSUME NEW w \in Works, NEW k \in Kinds, Submit(a, w, k)
      PROVE  CoreInv'
  <2>. USE DEF CoreInv
  <2>1. PICK l \in {"slow", "fast"} : pc' = [pc EXCEPT ![a] = l]
    BY <1>4 DEF Submit
  <2>2. /\ pc[a] = "idle" /\ wstate[w] = "new" /\ \A b \in Actors : arg[b] # w
        /\ a \notin Works \/ wstate[a] \in UserCode
        /\ arg' = [arg EXCEPT ![a] = w]
        /\ UNCHANGED <<lifecycle, draining, rejecting, currentBackend, lastGen, closed,
                       wstate, wgen, held>>
    BY <1>2, <1>4 DEF Submit
  <2>3. Frames'
    BY <2>1, <2>2 DEF Frames, StatesAt, TypeInv, TypeOK
  <2>4. Executing' /\ Phases'
    BY <2>1, <2>2 DEF Executing, UserCode, Phases, TypeInv, TypeOK, Actors
  <2>5. Generations' /\ Barred'
    BY <2>1, <2>2 DEF Generations, RunningGen, Barred, TypeInv, TypeOK, Actors
  <2>. QED
    BY <2>3, <2>4, <2>5
<1>5. ASSUME NEW w \in Works, DropOutput(a, w)
      PROVE  CoreInv'
  <2>. USE DEF CoreInv
  <2>1. /\ pc[a] = "idle" /\ wstate[w] = "retired" /\ wstate' = [wstate EXCEPT ![w] = "output"]
        /\ pc' = [pc EXCEPT ![a] = "dropping", ![w] = "idle"]
        /\ a \notin Works \/ wstate[a] \in UserCode
        /\ arg' = [arg EXCEPT ![a] = w] /\ w \in Actors
        /\ UNCHANGED <<lifecycle, draining, rejecting, currentBackend, lastGen, closed,
                       wgen, held>>
    BY <1>2, <1>5 DEF DropOutput, Actors
  <2>2. Frames'
    <3>1. \A b \in Actors : pc'[b] \in SubmitPcs =>
            b # a /\ pc'[b] = pc[b] /\ arg'[b] = arg[b] /\ wstate'[arg[b]] = wstate[arg[b]]
      BY <2>1 DEF Frames, StatesAt, TypeInv, TypeOK, InHand, InHandPcs
    <3>2. \A b \in Actors : pc[b] \in SubmitPcs => arg[b] # w
      BY <2>1 DEF Frames, StatesAt
    <3>. QED
      BY <2>1, <3>1, <3>2 DEF Frames, TypeInv, TypeOK
  <2>3. \A b \in Actors : pc'[b] # pc[b] => pc'[b] \in {"dropping", "idle"} /\ b \in {a, w}
    BY <2>1 DEF TypeInv, TypeOK
  <2>4. Executing' /\ Phases'
    BY <2>1, <2>3 DEF Executing, UserCode, Phases, TypeInv, TypeOK, Actors
  <2>5. Generations'
    BY <2>1, <2>3 DEF Generations, RunningGen
  <2>6. Barred'
    BY <2>1, <2>3 DEF Barred, TypeInv, TypeOK, Actors
  <2>. QED
    BY <2>2, <2>4, <2>5, <2>6
<1>6. CASE StartCall(a)
  BY <1>1, <1>2, <1>6, CoreMoves DEF TypeInv, TypeOK, StartCall
<1>7. ASSUME NEW single \in BOOLEAN, ShutdownCall(a, single)
      PROVE  CoreInv'
  BY <1>1, <1>2, <1>7, CoreMoves DEF TypeInv, TypeOK, ShutdownCall
<1>8. CASE FinishCall(a)
  BY <1>1, <1>2, <1>8, CoreMoves DEF TypeInv, TypeOK, FinishCall
<1>. QED
  BY <1>3, <1>4, <1>5, <1>6, <1>7, <1>8 DEF Call

LEMMA AdvanceCore ==
  ASSUME TypeInv, CoreInv, NEW w \in Works, Claim(w) \/ Suspend(w) \/ Wake(w) \/ Complete(w)
  PROVE  CoreInv'
<1>. USE DEF CoreInv, optVars, stateVars, genVars
<1>1. PICK to \in WorkStates : Advance(w, to)
  BY DEF Claim, Suspend, Wake, Complete, WorkStates
<1>2. /\ wstate[w] \notin {"new", "registered", "retired", "gone"}
      /\ to \notin {"new", "registered", "destroying"}
      /\ wstate[w] = "destroying" => to = "gone"
  BY <1>1 DEF Claim, Suspend, Wake, Complete, Advance, UserCode, TypeInv, TypeOK
<1>3. /\ wstate' = [wstate EXCEPT ![w] = to] /\ pc' = [pc EXCEPT ![w] = "idle"]
      /\ UNCHANGED <<lifecycle, draining, rejecting, currentBackend, lastGen, closed, wgen, arg, held>>
  BY <1>1 DEF Advance
<1>4. Frames'
  BY <1>2, <1>3 DEF Frames, StatesAt, SubmitPcs, TypeInv, TypeOK, InHand, InHandPcs
<1>5. Executing' /\ Phases'
  BY <1>2, <1>3 DEF Executing, UserCode, Phases, JoinPcs, TypeInv, TypeOK, Actors
<1>6. Generations'
  BY <1>3 DEF Generations, RunningGen, TypeInv, TypeOK
<1>7. Barred'
  BY <1>2, <1>3 DEF Barred, TypeInv, TypeOK, Actors
<1>. QED
  BY <1>4, <1>5, <1>6, <1>7

LEMMA InitCore == Init => CoreInv
<1>. SUFFICES ASSUME Init PROVE CoreInv
  OBVIOUS
<1>. USE DEF Init, Plain, Carrying
<1>1. RunningGen = 0 /\ \A a \in Actors : pc[a] = "idle"
  BY DEF RunningGen
<1>2. Frames /\ Executing /\ Phases
  BY <1>1 DEF Frames, SubmitPcs, Executing, Phases, JoinPcs, Actors
<1>3. Generations /\ Barred
  BY <1>1 DEF Generations, Barred
<1>. QED
  BY <1>2, <1>3 DEF CoreInv

LEMMA NextCore == TypeInv /\ CoreInv /\ [Next]_vars => CoreInv'
<1>. SUFFICES ASSUME TypeInv, CoreInv, [Next]_vars
              PROVE  CoreInv'
  OBVIOUS
<1>1. ASSUME NEW a \in Actors, SubmitStep(a)
      PROVE  CoreInv'
  BY <1>1, SubmitMovesCore, FastRegisterCore, SlowRunningCore, SlowCreateCore, SlowRejectCore,
     UnrejectCore, ScheduleCore
     DEF SubmitStep
<1>2. ASSUME NEW a \in Actors, StartStep(a)
      PROVE  CoreInv'
  BY <1>2, LifecycleMovesCore, StartKeepsCore, StartCreatesCore DEF StartStep
<1>3. ASSUME NEW a \in Actors, BeginStep(a)
      PROVE  CoreInv'
  BY <1>3, LifecycleMovesCore, BeginZeroCore, BeginRunningCore, CloseAndAbortCore, WakeParkersCore
     DEF BeginStep
<1>4. ASSUME NEW a \in Actors, FinishStep(a)
      PROVE  CoreInv'
  BY <1>4, LifecycleMovesCore, FinishSettledCore, FinishTakesCore, FinishZeroPublishesCore,
     ReleaseBackendCore, PublishStoppedCore
     DEF FinishStep
<1>5. ASSUME NEW g \in 1..MaxGen, WorkersExit(g)
      PROVE  CoreInv'
  BY <1>5 DEF WorkersExit, CoreInv, Frames, Executing, Phases, Generations, Barred, RunningGen,
              optVars, stateVars, workVars, threadVars
<1>6. CASE UNCHANGED vars
  BY <1>6 DEF vars, CoreInv, Frames, Executing, Phases, Generations, Barred, RunningGen,
              optVars, stateVars, genVars, workVars, threadVars
<1>. QED
  BY <1>1, <1>2, <1>3, <1>4, <1>5, <1>6, CallCore, AdvanceCore DEF Next, CodeStep

\* The core holds of every behaviour, with any number of stoppers.
THEOREM CoreInvariant == Spec => [](TypeInv /\ CoreInv)
<1>1. Init => TypeInv /\ CoreInv
  BY InitType, InitCore
<1>2. TypeInv /\ CoreInv /\ [Next]_vars => (TypeInv /\ CoreInv)'
  BY NextType, NextCore
<1>. QED
  BY <1>1, <1>2, PTL DEF Spec

\* The destructor of a rejected submission never gets work admitted, for any
\* actors, submissions and generations.
THEOREM DestructorsAdmitNothing == Spec => []NoAdmissionFromDestructor
<1>1. CoreInv => NoAdmissionFromDestructor
  BY DEF CoreInv, Barred, AdmittedPcs, NoAdmissionFromDestructor
<1>. QED
  BY <1>1, CoreInvariant, PTL

\* Only begin_shutdown ends a running generation, however many actors finish
\* stops of earlier ones.
THEOREM OnlyPhaseOneEndsRunning == Spec => RunningEndsByPhaseOne
<1>1. ASSUME TypeInv, CoreInv, [Next]_vars, lifecycle.kind = "Running", lifecycle' # lifecycle
      PROVE  lifecycle' = Carrying("Stopping", lifecycle.gen)
  <2>. USE <1>1 DEF optVars, stateVars, genVars, workVars, threadVars, WaitAt, At, Enter
  <2>1. ASSUME NEW a \in Actors, Call(a)
        PROVE  FALSE
    BY <2>1 DEF Call, Configure, Submit, DropOutput, StartCall, ShutdownCall, FinishCall
  <2>2. ASSUME NEW a \in Actors, SubmitStep(a)
        PROVE  FALSE
    BY <2>2 DEF SubmitStep, FastLoad, FastRegister, FastRegisterClosed, SlowRunning, SlowCreate,
                CreationAllowed, SlowReject, Destroyed, Unreject, Schedule, BlockOnReturns,
                OutputDropped
  <2>3. ASSUME NEW a \in Actors, StartStep(a)
        PROVE  FALSE
    BY <2>3 DEF StartStep, StartRefused, StartKeeps, StartCreates, StartWaits, Stopped
  <2>4. ASSUME NEW a \in Actors, BeginStep(a)
        PROVE  lifecycle' = Carrying("Stopping", lifecycle.gen)
    BY <2>4 DEF BeginStep, BeginRefused, BeginOutstanding, BeginZero, BeginRunning, Stopped,
                CloseAndAbort, WakeParkers, BeginVerdict
  <2>5. ASSUME NEW a \in Actors, FinishStep(a)
        PROVE  FALSE
    <3>1. pc[a] # "publish"
      BY DEF CoreInv, Phases, JoinPcs
    <3>. QED
      BY <2>5, <3>1 DEF FinishStep, FinishSettled, FinishTakes, TakesBackend, FinishZeroPublishes,
                ZeroParked, FinishZeroWaits, FinishOtherWaits, FinishReports, WaitUntilIdle,
                ReleaseBackend, WaitForWorkers, PublishStopped, PublishWaits
  <2>6. ASSUME NEW w \in Works, Claim(w) \/ Suspend(w) \/ Wake(w) \/ Complete(w)
        PROVE  FALSE
    BY <2>6 DEF Claim, Suspend, Wake, Complete, Advance
  <2>7. ASSUME NEW g \in 1..MaxGen, WorkersExit(g)
        PROVE  FALSE
    BY <2>7 DEF WorkersExit
  <2>8. CASE UNCHANGED vars
    BY <2>8 DEF vars
  <2>. QED
    BY <2>1, <2>2, <2>3, <2>4, <2>5, <2>6, <2>7, <2>8 DEF Next, CodeStep
<1>2. TypeInv /\ CoreInv /\ [Next]_vars =>
        [lifecycle.kind = "Running" /\ lifecycle' # lifecycle
           => lifecycle' = Carrying("Stopping", lifecycle.gen)]_vars
  BY <1>1
<1>. QED
  BY <1>2, CoreInvariant, PTL DEF Spec, RunningEndsByPhaseOne

(***************************************************************************)
(* The stop: what holds when one host thread owns the shutdown.  The works *)
(* may shut down too if none of them can be the output of a superseded     *)
(* generation, because then phase 1 and phase 2 refuse them.  With two     *)
(* hosts, or with such an output, a phase 2 can run between the            *)
(* announcement of a stop and the closing of its generation.               *)
(***************************************************************************)
StopPcs == {"begin", "closing", "waking", "verdict", "finish", "finish_zero",
            "finish_other", "joining", "marker", "workers", "publish"}
OwnedPcs == {"closing"} \cup JoinPcs

OneShutdown(s) ==
  Stoppers = {s} \/ (Stoppers \subseteq {s} \cup Works /\ OutputDroppers = {})

\* Only stoppers are inside the shutdown entry points, and only s ever has a
\* generation to close or to join.
OneOwner(s) ==
  /\ \A a \in Actors : pc[a] \in StopPcs => a \in Stoppers
  /\ \A a \in Actors \ {s} : pc[a] \notin OwnedPcs

\* Every other generation is closed, and a stopping one is, unless the owner
\* is just about to close it.
ClosedUnlessRunning(s) ==
  \A g \in 1..lastGen :
    \/ g \in closed
    \/ g = LifecycleGen /\ lifecycle.kind = "Running"
    \/ g = LifecycleGen /\ pc[s] = "closing" /\ held[s] = g

\* Phase 2 takes the generation phase 1 announced, and from the moment it has
\* seen it idle nothing registers with it any more.
Handoff(s) ==
  /\ draining.kind = "Backend" => draining.gen = lifecycle.gen
  /\ draining.kind = "Joining" =>
       \/ draining.gen = lifecycle.gen
       \/ draining.gen = 0 /\ pc[s] \in {"workers", "publish"}
  /\ pc[s] \in JoinPcs => lifecycle.gen \in closed
  /\ pc[s] = "joining" => held[s] = lifecycle.gen
  /\ pc[s] \in JoinPcs \ {"joining"} => \A w \in Works : wstate[w] \notin Registered
  /\ pc[s] = "publish" => workersUp = {}

\* Whatever is alive belongs to the generation in use.
Alive ==
  /\ \A w \in Works : wstate[w] \in Registered =>
       LifecycleGen # 0 /\ wgen[w] = LifecycleGen
  /\ \A g \in workersUp : g # 0 /\ g = LifecycleGen

\* Without unread outputs, a destructor runs under the generation in use too.
Current ==
  OutputDroppers = {} =>
    \A w \in Works : /\ wstate[w] = "destroying" => wgen[w] = LifecycleGen
                     /\ wstate[w] # "output"

StopInv(s) == OneOwner(s) /\ ClosedUnlessRunning(s) /\ Handoff(s) /\ Alive /\ Current

\* A work inside an entry point runs under the generation in use.
LEMMA WorkIsCurrent ==
  ASSUME TypeInv, CoreInv, NEW s \in Threads, StopInv(s), OutputDroppers = {},
         NEW w \in Works, pc[w] \notin {"idle", "done"}
  PROVE  wgen[w] = LifecycleGen /\ (wstate[w] = "destroying" \/ LifecycleGen # 0)
  BY DEF CoreInv, Executing, UserCode, Registered, StopInv, Alive, Current

\* Whoever gets past the generation checks of a shutdown is its owner.
LEMMA OwnerActs ==
  ASSUME TypeInv, CoreInv, NEW s \in Threads, OneShutdown(s), StopInv(s),
         NEW a \in Actors, pc[a] \in StopPcs,
         lifecycle.kind \in {"Running", "Stopping"}, ~IsCurrent(a, lifecycle.gen)
  PROVE  a = s
<1>1. a \in Stoppers
  BY DEF StopInv, OneOwner
<1>2. CASE Stoppers = {s}
  BY <1>1, <1>2
<1>3. CASE Stoppers \subseteq {s} \cup Works /\ OutputDroppers = {}
  <2>1. a \in Works => ActiveGen(a) = lifecycle.gen
    BY <1>3, WorkIsCurrent DEF ActiveGen, LifecycleGen, StopPcs
  <2>. QED
    BY <1>1, <1>3, <2>1 DEF IsCurrent
<1>. QED
  BY <1>2, <1>3 DEF OneShutdown

\* A quiet step leaves the phases, the generations and the owner's part of a
\* stop alone, admits nothing, and retires one submission at most.
Quiet ==
  /\ UNCHANGED <<lifecycle, draining, lastGen, closed>>
  /\ workersUp' \subseteq workersUp
  /\ \A b \in Actors :
       /\ pc'[b] \in StopPcs => b \in Stoppers
       /\ pc'[b] \in OwnedPcs \/ pc[b] \in OwnedPcs => pc'[b] = pc[b] /\ held'[b] = held[b]
  /\ \A w \in Works :
       /\ wstate'[w] \in Registered => wstate[w] \in Registered /\ wgen'[w] = wgen[w]
       /\ wstate'[w] = "destroying" =>
            \/ wstate[w] = "destroying" /\ wgen'[w] = wgen[w]
            \/ OutputDroppers = {} => wgen'[w] = LifecycleGen
       /\ wstate'[w] = "output" => wstate[w] = "output" \/ OutputDroppers # {}
  /\ \E v \in Works \cup {NoWork} :
       \A w \in Works \ {v} : wstate[w] \in Registered => wstate'[w] \in Registered

LEMMA QuietKeeps ==
  ASSUME NEW s \in Threads, StopInv(s), Quiet
  PROVE  StopInv(s)'
<1>. USE DEF StopInv, Quiet, LifecycleGen
<1>0. s \in Actors
  BY DEF Actors
<1>1. OneOwner(s)'
  BY DEF OneOwner
<1>2. ClosedUnlessRunning(s)'
  BY <1>0 DEF ClosedUnlessRunning, OwnedPcs
<1>3. Handoff(s)'
  BY <1>0 DEF Handoff, OwnedPcs, JoinPcs
<1>4. Alive'
  BY DEF Alive
<1>5. Current'
  BY DEF Current
<1>. QED
  BY <1>1, <1>2, <1>3, <1>4, <1>5

LEMMA SameQuiet ==
  ASSUME NEW s \in Threads, StopInv(s),
         UNCHANGED <<lifecycle, draining, lastGen, closed, workersUp, wstate, wgen, pc, held>>
  PROVE  Quiet
  BY DEF Quiet, StopInv, OneOwner

\* The steps that only move the stack of the actor that makes them.
LEMMA StackMoves ==
  ASSUME TypeInv, NEW s \in Threads, StopInv(s), NEW a \in Actors,
         NEW l, pc' = [pc EXCEPT ![a] = l],
         held' = held \/ (\E h : held' = [held EXCEPT ![a] = h]),
         pc[a] \notin OwnedPcs \/ UNCHANGED <<pc, held>>,
         l \notin OwnedPcs \/ l = pc[a], l \in StopPcs => a \in Stoppers,
         UNCHANGED <<lifecycle, draining, lastGen, closed, workersUp, wstate, wgen>>
  PROVE  Quiet
<1>1. \A b \in Actors : pc'[b] = IF b = a THEN l ELSE pc[b]
  BY DEF TypeInv, TypeOK
<1>2. \A b \in Actors : b # a => held'[b] = held[b]
  BY DEF TypeInv, TypeOK
<1>. QED
  BY <1>1, <1>2 DEF Quiet, StopInv, OneOwner

LEMMA LifecycleMovesStop ==
  ASSUME TypeInv, NEW s \in Threads, StopInv(s), NEW a \in Actors,
         \/ StartRefused(a) \/ StartWaits(a) \/ BeginRefused(a) \/ BeginOutstanding(a)
         \/ BeginVerdict(a) \/ FinishZeroWaits(a) \/ FinishOtherWaits(a) \/ FinishReports(a)
         \/ PublishWaits(a)
  PROVE  Quiet
<1>. USE DEF At, Goto, WaitAt, Return, Resting, optVars, stateVars, genVars, workVars,
             StopPcs, OwnedPcs, JoinPcs
<1>0. pc[a] \in StopPcs => a \in Stoppers
  BY DEF StopInv, OneOwner
<1>2. CASE StartRefused(a)
  BY <1>2, StackMoves DEF StartRefused
<1>3. CASE StartWaits(a) \/ PublishWaits(a)
  <2>1. pc' = pc /\ UNCHANGED <<lifecycle, draining, lastGen, closed, workersUp, wstate, wgen, held>>
    BY <1>3 DEF StartWaits, PublishWaits, TypeInv, TypeOK
  <2>. QED
    BY <2>1, SameQuiet
<1>4. CASE BeginRefused(a)
  <2>1. PICK l \in {"done", "idle"} :
        /\ pc[a] = "begin" /\ pc' = [pc EXCEPT ![a] = l]
        /\ held' = [held EXCEPT ![a] = 0]
        /\ UNCHANGED <<lifecycle, draining, lastGen, closed, workersUp, wstate, wgen>>
    BY <1>4 DEF BeginRefused
  <2>. QED
    BY <2>1, StackMoves
<1>5. CASE BeginOutstanding(a)
  BY <1>0, <1>5, StackMoves DEF BeginOutstanding, BeginAnswers
<1>6. CASE BeginVerdict(a)
  BY <1>0, <1>6, StackMoves DEF BeginVerdict, BeginAnswers
<1>7. CASE FinishZeroWaits(a)
  BY <1>0, <1>7, StackMoves DEF FinishZeroWaits, AtZero
<1>8. CASE FinishOtherWaits(a)
  <2>1. /\ pc[a] \in {"finish", "finish_other"} /\ pc' = [pc EXCEPT ![a] = "finish_other"]
        /\ held' = held /\ lifecycle' = lifecycle /\ draining' = draining /\ lastGen' = lastGen
        /\ closed' = closed /\ workersUp' = workersUp /\ wstate' = wstate /\ wgen' = wgen
    BY <1>8 DEF FinishOtherWaits, AtOther
  <2>2. pc[a] \notin OwnedPcs /\ a \in Stoppers
    BY <1>0, <2>1
  <2>. QED
    BY <2>1, <2>2, StackMoves
<1>9. CASE FinishReports(a)
  <2>1. PICK l \in {"done", "idle"} :
        /\ pc[a] \in {"finish", "finish_zero", "finish_other"}
        /\ pc' = [pc EXCEPT ![a] = l] /\ held' = [held EXCEPT ![a] = 0]
        /\ UNCHANGED <<lifecycle, draining, lastGen, closed, workersUp, wstate, wgen>>
    BY <1>9 DEF FinishReports, AtZero, AtOther
  <2>. QED
    BY <2>1, StackMoves
<1>. QED
  BY <1>2, <1>3, <1>4, <1>5, <1>6, <1>7, <1>8, <1>9

LEMMA SubmitMovesStop ==
  ASSUME TypeInv, CoreInv, NEW s \in Threads, StopInv(s), NEW a \in Actors,
         \/ FastLoad(a) \/ FastRegisterClosed(a) \/ SlowReject(a) \/ Destroyed(a) \/ Unreject(a)
         \/ Schedule(a) \/ BlockOnReturns(a) \/ OutputDropped(a)
  PROVE  Quiet
<1>. USE DEF At, Goto, Return, Resting, optVars, stateVars, genVars, workVars,
             StopPcs, OwnedPcs, JoinPcs
<1>1. CASE FastLoad(a)
  BY <1>1, StackMoves DEF FastLoad
<1>2. CASE FastRegisterClosed(a)
  BY <1>2, StackMoves DEF FastRegisterClosed
<1>3. CASE Destroyed(a)
  BY <1>3, StackMoves DEF Destroyed
<1>4. CASE BlockOnReturns(a)
  BY <1>4, StackMoves DEF BlockOnReturns
<1>5. CASE OutputDropped(a)
  BY <1>5, StackMoves DEF OutputDropped
<1>6. ASSUME NEW l, pc' = [pc EXCEPT ![a] = l], pc[a] \notin OwnedPcs, l \notin StopPcs,
             \A b \in Actors : b # a => held'[b] = held[b]
      PROVE  \A b \in Actors :
               /\ pc'[b] \in StopPcs => b \in Stoppers
               /\ pc'[b] \in OwnedPcs \/ pc[b] \in OwnedPcs => pc'[b] = pc[b] /\ held'[b] = held[b]
  BY <1>6 DEF StopInv, OneOwner, TypeInv, TypeOK
<1>7. CASE SlowReject(a)
  <2>1. PICK l \in {"destroy", "unreject"} :
          /\ pc' = [pc EXCEPT ![a] = l]
          /\ wstate' = IF l = "destroy" THEN [wstate EXCEPT ![arg[a]] = "destroying"] ELSE wstate
    BY <1>7 DEF SlowReject
  <2>2. /\ pc[a] = "slow" /\ wstate[arg[a]] = "new" /\ arg[a] \in Works
        /\ wgen' = [wgen EXCEPT ![arg[a]] = IF ActiveGen(a) # 0 THEN ActiveGen(a) ELSE LifecycleGen]
        /\ UNCHANGED <<lifecycle, draining, lastGen, closed, workersUp, held>>
    BY <1>7 DEF SlowReject, CoreInv, Frames, StatesAt, SubmitPcs, InHand, InHandPcs, TypeInv
  <2>3. OutputDroppers = {} => wgen'[arg[a]] = LifecycleGen
    BY <2>2, WorkIsCurrent DEF ActiveGen, TypeInv, TypeOK
  <2>4. \A w \in Works :
          /\ wstate'[w] \in Registered <=> wstate[w] \in Registered
          /\ wstate'[w] # wstate[w] => w = arg[a] /\ wstate'[w] = "destroying"
          /\ wgen'[w] # wgen[w] => w = arg[a]
    BY <2>1, <2>2 DEF Registered, TypeInv, TypeOK
  <2>. QED
    BY <1>6, <2>1, <2>2, <2>3, <2>4 DEF Quiet, Registered
<1>8. CASE Unreject(a)
  <2>1. /\ wstate[arg[a]] \notin Registered \cup {"destroying"} /\ arg[a] \in Works
        /\ wgen' = [wgen EXCEPT ![arg[a]] = 0]
        /\ pc[a] = "unreject" /\ pc' = [pc EXCEPT ![a] = Resting(a)]
        /\ held' = [held EXCEPT ![a] = 0]
        /\ UNCHANGED <<lifecycle, draining, lastGen, closed, workersUp, wstate>>
    BY <1>8 DEF Unreject, CoreInv, Frames, StatesAt, SubmitPcs, InHand, InHandPcs, TypeInv, Registered
  <2>2. \A w \in Works : wgen'[w] # wgen[w] => w = arg[a]
    BY <2>1 DEF TypeInv, TypeOK
  <2>. QED
    BY <1>6, <2>1, <2>2 DEF Quiet, TypeInv, TypeOK
<1>9. CASE Schedule(a)
  <2>1. PICK l \in {"driving", "done", "idle"} :
          /\ pc' = [pc EXCEPT ![a] = l]
          /\ held' = held \/ held' = [held EXCEPT ![a] = 0]
    BY <1>9 DEF Schedule
  <2>2. /\ pc[a] = "schedule" /\ wstate[arg[a]] = "registered" /\ arg[a] \in Works
        /\ wstate' = [wstate EXCEPT ![arg[a]] = "queued"]
        /\ UNCHANGED <<lifecycle, draining, lastGen, closed, workersUp, wgen>>
    BY <1>9 DEF Schedule, CoreInv, Frames, StatesAt, SubmitPcs, InHand, InHandPcs, TypeInv
  <2>3. \A w \in Works :
          /\ wstate'[w] \in Registered <=> wstate[w] \in Registered
          /\ wstate'[w] # wstate[w] => wstate'[w] = "queued"
    BY <2>2 DEF Registered, TypeInv, TypeOK
  <2>. QED
    BY <1>6, <2>1, <2>2, <2>3 DEF Quiet, TypeInv, TypeOK
<1>. QED
  BY <1>1, <1>2, <1>3, <1>4, <1>5, <1>7, <1>8, <1>9

LEMMA CallStop ==
  ASSUME TypeInv, CoreInv, NEW s \in Threads, StopInv(s), NEW a \in Actors, Call(a)
  PROVE  Quiet
<1>. USE DEF Enter, Goto, CanCall, At, optVars, stateVars, genVars, workVars,
             StopPcs, OwnedPcs, JoinPcs
<1>1. ASSUME NEW f \in Flavors, Configure(a, f)
      PROVE  Quiet
  BY <1>1, SameQuiet DEF Configure, threadVars
<1>2. ASSUME NEW w \in Works, NEW k \in Kinds, Submit(a, w, k)
      PROVE  Quiet
  BY <1>2, StackMoves DEF Submit
<1>3. ASSUME NEW w \in Works, DropOutput(a, w)
      PROVE  Quiet
  <2>1. /\ pc[a] = "idle" /\ wstate[w] = "retired" /\ wstate' = [wstate EXCEPT ![w] = "output"]
        /\ pc' = [pc EXCEPT ![a] = "dropping", ![w] = "idle"] /\ OutputDroppers # {}
        /\ UNCHANGED <<lifecycle, draining, lastGen, closed, workersUp, wgen, held>>
    BY <1>3 DEF DropOutput
  <2>2. pc[w] \in {"idle", "done"}
    BY <2>1 DEF CoreInv, Executing, UserCode
  <2>3. \A b \in Actors : pc'[b] # pc[b] =>
          pc'[b] \in {"dropping", "idle"} /\ pc[b] \in {"idle", "done"}
    BY <2>1, <2>2 DEF TypeInv, TypeOK
  <2>. QED
    BY <2>1, <2>3 DEF Quiet, StopInv, OneOwner, Registered, TypeInv, TypeOK
<1>4. CASE StartCall(a)
  BY <1>4, StackMoves DEF StartCall
<1>5. ASSUME NEW single \in BOOLEAN, ShutdownCall(a, single)
      PROVE  Quiet
  BY <1>5, StackMoves DEF ShutdownCall
<1>6. CASE FinishCall(a)
  BY <1>6, StackMoves DEF FinishCall
<1>. QED
  BY <1>1, <1>2, <1>3, <1>4, <1>5, <1>6 DEF Call

\* The executor moves a submission only between states of user code, and never
\* back to one in which it would be registered.
LEMMA AdvanceStop ==
  ASSUME TypeInv, CoreInv, NEW s \in Threads, StopInv(s),
         NEW w \in Works, Claim(w) \/ Suspend(w) \/ Wake(w) \/ Complete(w)
  PROVE  Quiet
<1>. USE DEF optVars, stateVars, genVars
<1>1. PICK to \in WorkStates : Advance(w, to)
  BY DEF Claim, Suspend, Wake, Complete, WorkStates
<1>2. /\ to \in Registered => wstate[w] \in Registered
      /\ to \notin {"destroying", "output"}
      /\ pc[w] \notin OwnedPcs
  <2>1. pc[w] \in {"idle", "done"} \/ wstate[w] # "running"
    BY <1>1 DEF Claim, Suspend, Wake, Complete, Advance, Registered, UserCode, TypeInv, TypeOK
  <2>. QED
    BY <1>1, <2>1 DEF Claim, Suspend, Wake, Complete, Advance, Registered, UserCode, TypeInv, TypeOK,
         CoreInv, Executing, OwnedPcs, JoinPcs
<1>3. \A b \in Actors : pc'[b] # pc[b] => b = w /\ pc'[b] = "idle"
  BY <1>1 DEF Advance, TypeInv, TypeOK
<1>4. \A v \in Works : wstate'[v] # wstate[v] => v = w /\ wstate'[v] = to
  BY <1>1 DEF Advance, TypeInv, TypeOK
<1>. QED
  BY <1>1, <1>2, <1>3, <1>4 DEF Quiet, Advance, StopInv, OneOwner, StopPcs, OwnedPcs, JoinPcs

LEMMA WakeParkersStop ==
  ASSUME TypeInv, NEW s \in Threads, StopInv(s), NEW a \in Actors, WakeParkers(a)
  PROVE  Quiet
<1>1. /\ pc[a] = "waking" /\ pc' = [pc EXCEPT ![a] = "verdict"]
      /\ \A w \in Works : wstate'[w] # wstate[w] => wstate[w] = "pending" /\ wstate'[w] = "queued"
      /\ UNCHANGED <<lifecycle, draining, lastGen, closed, workersUp, wgen, held>>
  BY DEF WakeParkers, Requeue, At, Goto, optVars, stateVars, genVars
<1>2. \A b \in Actors : pc'[b] # pc[b] => b = a /\ pc[b] = "waking" /\ pc'[b] = "verdict"
  BY <1>1 DEF TypeInv, TypeOK
<1>. QED
  BY <1>1, <1>2 DEF Quiet, StopInv, OneOwner, StopPcs, OwnedPcs, JoinPcs, Registered

LEMMA WorkersExitStop ==
  ASSUME NEW s \in Threads, StopInv(s), NEW g \in 1..MaxGen, WorkersExit(g)
  PROVE  Quiet
  BY DEF WorkersExit, Quiet, StopInv, OneOwner, optVars, stateVars, workVars, threadVars

\* Admission to the generation in use, through the mirror or under the lock.
LEMMA AdmitStop ==
  ASSUME TypeInv, CoreInv, NEW s \in Threads, StopInv(s),
         NEW a \in Actors, FastRegister(a) \/ SlowRunning(a)
  PROVE  /\ StopInv(s)'
         /\ LifecycleGen # 0 /\ LifecycleGen = lastGen /\ lifecycle' = lifecycle /\ lastGen' = lastGen
         /\ arg[a] \in Works /\ wstate[arg[a]] = "new"
         /\ wstate' = [wstate EXCEPT ![arg[a]] = "registered"]
         /\ wgen' = [wgen EXCEPT ![arg[a]] = lastGen]
<1>. USE DEF StopInv, At, Goto, optVars, stateVars, genVars
<1>1. pc[a] \in {"register", "slow"} /\ arg[a] \in Works /\ wstate[arg[a]] = "new"
  BY DEF FastRegister, SlowRunning, CoreInv, Frames, StatesAt, SubmitPcs, TypeInv, InHand, InHandPcs
<1>2. PICK g \in (1..lastGen) \ closed :
        /\ wgen' = [wgen EXCEPT ![arg[a]] = g]
        /\ wstate' = [wstate EXCEPT ![arg[a]] = "registered"]
        /\ pc' = [pc EXCEPT ![a] = "schedule"]
        /\ held' = held \/ held' = [held EXCEPT ![a] = g]
        /\ UNCHANGED <<lifecycle, draining, lastGen, closed, workersUp>>
  BY DEF FastRegister, Register, SlowRunning, AdmittedAs, CoreInv, Generations, TypeInv, TypeOK
<1>3. g = LifecycleGen /\ g = lastGen /\ g # 0 /\ pc[s] \notin JoinPcs
  BY <1>2 DEF ClosedUnlessRunning, LifecycleGen, Handoff, CoreInv, Generations, Phases
<1>4. /\ \A b \in Actors : b # a => pc'[b] = pc[b] /\ held'[b] = held[b]
      /\ pc'[a] = "schedule"
      /\ \A w \in Works : w # arg[a] => wstate'[w] = wstate[w] /\ wgen'[w] = wgen[w]
      /\ wstate'[arg[a]] = "registered" /\ wgen'[arg[a]] = g
  BY <1>1, <1>2 DEF TypeInv, TypeOK
<1>5. OneOwner(s)'
  BY <1>4 DEF OneOwner, StopPcs, OwnedPcs, JoinPcs
<1>6. ClosedUnlessRunning(s)'
  BY <1>1, <1>2, <1>4 DEF ClosedUnlessRunning, LifecycleGen, Actors
<1>7. Handoff(s)'
  BY <1>1, <1>2, <1>3, <1>4 DEF Handoff, JoinPcs, Actors
<1>8. Alive'
  BY <1>2, <1>3, <1>4 DEF Alive, LifecycleGen
<1>9. Current'
  BY <1>2, <1>4 DEF Current, LifecycleGen
<1>. QED
  BY <1>1, <1>2, <1>3, <1>5, <1>6, <1>7, <1>8, <1>9

\* A generation is created where none is in use: by the first submission, or by
\* a start of a stopped runtime.
LEMMA CreateStop ==
  ASSUME TypeInv, CoreInv, NEW s \in Threads, StopInv(s),
         NEW a \in Actors, SlowCreate(a) \/ StartCreates(a)
  PROVE  /\ StopInv(s)'
         /\ lifecycle.kind \notin {"Running", "Stopping"}
         /\ lifecycle'.kind = "Running" /\ lastGen' = lastGen + 1
         /\ \A w \in Works : wstate[w] \notin Registered
         /\ \/ UNCHANGED <<wstate, wgen>>
            \/ /\ arg[a] \in Works
               /\ wstate' = [wstate EXCEPT ![arg[a]] = "registered"]
               /\ wgen' = [wgen EXCEPT ![arg[a]] = lastGen']
<1>. USE DEF StopInv, At, Goto
<1>1. /\ lifecycle.kind \in {"Initial", "Stopped"} /\ rejecting = {}
      /\ CreateBackend /\ pc[a] \in {"slow", "start"}
  BY DEF SlowCreate, StartCreates, CreationAllowed
<1>2. /\ lifecycle' = Carrying("Running", lastGen + 1) /\ lastGen' = lastGen + 1
      /\ draining' = Plain("None") /\ closed' = closed
      /\ workersUp' = workersUp \cup {lastGen + 1} \/ workersUp' = workersUp
      /\ lifecycle'.kind = "Running" /\ lifecycle'.gen = lastGen + 1 /\ draining'.kind = "None"
  BY <1>1 DEF CreateBackend, Plain, Carrying
<1>3. /\ LifecycleGen = 0 /\ pc[s] \notin JoinPcs
      /\ \A w \in Works : wstate[w] \notin Registered \cup {"destroying"}
      /\ workersUp = {} /\ LifecycleGen' = lastGen + 1
  BY <1>1, <1>2 DEF LifecycleGen, Alive, CoreInv, Phases, Barred, Actors
<1>4. PICK l \in {"schedule", "idle", "done"} : pc' = [pc EXCEPT ![a] = l]
  BY DEF SlowCreate, AdmittedAs, StartCreates, Return, Resting
<1>5. \/ UNCHANGED <<wstate, wgen>>
      \/ /\ arg[a] \in Works
         /\ wstate' = [wstate EXCEPT ![arg[a]] = "registered"]
         /\ wgen' = [wgen EXCEPT ![arg[a]] = lastGen']
  BY DEF SlowCreate, AdmittedAs, StartCreates, workVars, TypeInv, InHand, InHandPcs
<1>6. OneOwner(s)'
  BY <1>1, <1>4 DEF OneOwner, StopPcs, OwnedPcs, JoinPcs, TypeInv, TypeOK
<1>7. ClosedUnlessRunning(s)'
  BY <1>1, <1>2, <1>3 DEF ClosedUnlessRunning, TypeInv, TypeOK
<1>8. Handoff(s)'
  <2>1. pc'[s] \notin JoinPcs
    BY <1>3, <1>4 DEF JoinPcs, TypeInv, TypeOK, Actors
  <2>. QED
    BY <1>2, <2>1 DEF Handoff, JoinPcs
<1>9. Alive'
  BY <1>2, <1>3, <1>5 DEF Alive, TypeInv, TypeOK
<1>10. Current'
  BY <1>3, <1>5 DEF Current, TypeInv, TypeOK
<1>. QED
  BY <1>1, <1>2, <1>3, <1>5, <1>6, <1>7, <1>8, <1>9, <1>10

\* The steps of start and of the shutdowns without a backend: no generation is
\* in use before or after, or the one that runs is left alone.
LEMMA WithoutBackendStop ==
  ASSUME TypeInv, CoreInv, NEW s \in Threads, StopInv(s), NEW a \in Actors,
         StartKeeps(a) \/ BeginZero(a) \/ FinishSettled(a) \/ FinishZeroPublishes(a)
  PROVE  /\ StopInv(s)' /\ UNCHANGED <<lastGen, wstate, wgen>>
         /\ \/ lifecycle' = lifecycle
            \/ {lifecycle.kind, lifecycle'.kind} \cap {"Running", "Stopping"} = {}
<1>. USE DEF StopInv, At, Goto, optVars, genVars, workVars
<1>1. /\ UNCHANGED <<lastGen, closed, workersUp, wstate, wgen>>
      /\ draining'.kind \notin {"Backend", "Joining"}
      /\ draining.kind # "Joining"
      /\ \/ lifecycle' = lifecycle
         \/ {lifecycle.kind, lifecycle'.kind} \cap {"Running", "Stopping"} = {}
  <2>1. CASE StartKeeps(a)
    BY <2>1 DEF StartKeeps, Stopped, Plain, Carrying, CoreInv, Phases
  <2>2. CASE BeginZero(a)
    BY <2>2 DEF BeginZero, Stopped, ZeroTarget, Towards, Plain, Carrying
  <2>3. CASE FinishSettled(a)
    BY <2>3 DEF FinishSettled, Plain, Carrying
  <2>4. CASE FinishZeroPublishes(a)
    BY <2>4 DEF FinishZeroPublishes, ZeroParked, Plain, Carrying, TypeInv, TypeOK, DrainStates,
                Targets
  <2>. QED
    BY <2>1, <2>2, <2>3, <2>4
<1>2. PICK l \in {"finish", "idle", "done"} :
        /\ pc' = [pc EXCEPT ![a] = l]
        /\ l = "finish" => pc[a] = "begin"
        /\ held' = [held EXCEPT ![a] = 0]
  BY DEF StartKeeps, BeginZero, BeginAnswers, FinishSettled, FinishZeroPublishes, Return, Resting
<1>3. pc[a] \notin {"closing"}
  BY DEF StartKeeps, BeginZero, FinishSettled, FinishZeroPublishes, AtZero
<1>4. /\ pc[s] \notin JoinPcs /\ pc'[s] \notin JoinPcs
      /\ pc[s] = "closing" => pc'[s] = pc[s] /\ held'[s] = held[s]
  <2>1. pc[s] \notin JoinPcs
    BY <1>1 DEF CoreInv, Phases, Actors
  <2>2. a # s => pc'[s] = pc[s] /\ held'[s] = held[s]
    BY <1>2 DEF TypeInv, TypeOK, Actors
  <2>3. a = s => pc'[s] = l
    BY <1>2 DEF TypeInv, TypeOK
  <2>. QED
    BY <1>2, <1>3, <2>1, <2>2, <2>3 DEF JoinPcs
<1>5. LifecycleGen' = LifecycleGen
  BY <1>1 DEF LifecycleGen
<1>6. OneOwner(s)'
  BY <1>2 DEF OneOwner, StopPcs, OwnedPcs, JoinPcs, TypeInv, TypeOK
<1>7. ClosedUnlessRunning(s)'
  BY <1>1, <1>4, <1>5 DEF ClosedUnlessRunning
<1>8. Handoff(s)'
  BY <1>1, <1>4 DEF Handoff, JoinPcs
<1>9. Alive' /\ Current'
  BY <1>1, <1>5 DEF Alive, Current
<1>. QED
  BY <1>1, <1>6, <1>7, <1>8, <1>9

\* Phase 1: the owner announces the stop, and closes the generation.
LEMMA BeginRunningStop ==
  ASSUME TypeInv, CoreInv, NEW s \in Threads, OneShutdown(s), StopInv(s),
         NEW a \in Actors, BeginRunning(a)
  PROVE  StopInv(s)'
<1>. USE DEF StopInv, LifecycleGen
<1>1. a = s /\ pc[s] = "begin" /\ lifecycle.kind = "Running" /\ s \in Stoppers
  BY OwnerActs DEF BeginRunning, At, StopPcs, OneOwner
<1>2. /\ lifecycle' = Carrying("Stopping", lifecycle.gen)
      /\ draining' = Carrying("Backend", lifecycle.gen)
      /\ held' = [held EXCEPT ![s] = lifecycle.gen] /\ pc' = [pc EXCEPT ![s] = "closing"]
      /\ UNCHANGED <<lastGen, closed, workersUp, wstate, wgen>>
  BY <1>1 DEF BeginRunning, Goto, workVars
<1>3. /\ lifecycle'.kind = "Stopping" /\ lifecycle'.gen = lifecycle.gen
      /\ draining'.kind = "Backend" /\ draining'.gen = lifecycle.gen
      /\ pc'[s] = "closing" /\ held'[s] = lifecycle.gen /\ s \in Actors
      /\ \A b \in Actors : b # s => pc'[b] = pc[b]
  BY <1>2 DEF Carrying, TypeInv, TypeOK, Actors
<1>4. OneOwner(s)'
  BY <1>1, <1>3 DEF OneOwner
<1>5. ClosedUnlessRunning(s)'
  BY <1>1, <1>2, <1>3 DEF ClosedUnlessRunning
<1>6. Handoff(s)'
  BY <1>3 DEF Handoff, JoinPcs
<1>7. Alive' /\ Current'
  BY <1>1, <1>2, <1>3 DEF Alive, Current
<1>. QED
  BY <1>4, <1>5, <1>6, <1>7

LEMMA CloseAndAbortStop ==
  ASSUME TypeInv, CoreInv, NEW s \in Threads, StopInv(s), NEW a \in Actors, CloseAndAbort(a)
  PROVE  /\ StopInv(s)' /\ UNCHANGED <<lifecycle, lastGen, wgen>>
         /\ \A w \in Works : wstate'[w] \in Registered <=> wstate[w] \in Registered
<1>. USE DEF StopInv, LifecycleGen
<1>1. a = s /\ pc[s] = "closing" /\ s \in Stoppers /\ s \in Actors
  BY DEF CloseAndAbort, At, OneOwner, OwnedPcs, StopPcs
<1>2. /\ closed' = closed \cup {held[s]} /\ pc' = [pc EXCEPT ![s] = "waking"]
      /\ \A w \in Works : wstate'[w] # wstate[w] => wstate[w] = "pending" /\ wstate'[w] = "queued"
      /\ UNCHANGED <<lifecycle, draining, lastGen, workersUp, wgen, held>>
  BY <1>1 DEF CloseAndAbort, Requeue, Goto, optVars, stateVars
<1>3. \A b \in Actors : pc'[b] = IF b = s THEN "waking" ELSE pc[b]
  BY <1>2 DEF TypeInv, TypeOK
<1>4. OneOwner(s)'
  BY <1>1, <1>3 DEF OneOwner, OwnedPcs, JoinPcs
<1>5. ClosedUnlessRunning(s)'
  BY <1>2 DEF ClosedUnlessRunning
<1>6. Handoff(s)'
  BY <1>1, <1>2, <1>3 DEF Handoff, JoinPcs
<1>7. Alive' /\ Current'
  BY <1>2 DEF Alive, Current, Registered
<1>. QED
  BY <1>2, <1>4, <1>5, <1>6, <1>7 DEF Registered

\* Phase 2: the owner takes the handoff and joins.
LEMMA FinishTakesStop ==
  ASSUME TypeInv, CoreInv, NEW s \in Threads, OneShutdown(s), StopInv(s),
         NEW a \in Actors, FinishTakes(a)
  PROVE  StopInv(s)' /\ UNCHANGED <<lifecycle, lastGen, wstate, wgen>>
<1>. USE DEF StopInv, LifecycleGen
<1>1. /\ pc[a] = "finish" /\ draining.kind = "Backend" /\ ~IsCurrent(a, draining.gen)
      /\ lifecycle.kind = "Stopping" /\ draining.gen = lifecycle.gen
  BY DEF FinishTakes, TakesBackend, At, CoreInv, Phases, Handoff
<1>2. a = s /\ s \in Stoppers /\ s \in Actors
  BY <1>1, OwnerActs DEF StopPcs, OneOwner, Actors
<1>3. /\ draining' = Carrying("Joining", lifecycle.gen)
      /\ held' = [held EXCEPT ![s] = lifecycle.gen] /\ pc' = [pc EXCEPT ![s] = "joining"]
      /\ UNCHANGED <<lifecycle, lastGen, closed, workersUp, wstate, wgen>>
  BY <1>1, <1>2 DEF FinishTakes, TakesBackend, Goto, optVars, genVars, workVars
<1>4. /\ draining'.kind = "Joining" /\ draining'.gen = lifecycle.gen
      /\ held'[s] = lifecycle.gen
      /\ \A b \in Actors : pc'[b] = IF b = s THEN "joining" ELSE pc[b]
  BY <1>2, <1>3 DEF Carrying, TypeInv, TypeOK
<1>5. lifecycle.gen \in closed
  BY <1>1, <1>2 DEF ClosedUnlessRunning, CoreInv, Generations, TypeInv, TypeOK
<1>6. OneOwner(s)'
  BY <1>2, <1>4 DEF OneOwner
<1>7. ClosedUnlessRunning(s)'
  BY <1>1, <1>2, <1>3 DEF ClosedUnlessRunning
<1>8. Handoff(s)'
  BY <1>2, <1>3, <1>4, <1>5 DEF Handoff, JoinPcs
<1>9. Alive' /\ Current'
  BY <1>3 DEF Alive, Current
<1>. QED
  BY <1>3, <1>6, <1>7, <1>8, <1>9

LEMMA JoinStop ==
  ASSUME TypeInv, CoreInv, NEW s \in Threads, StopInv(s), NEW a \in Actors,
         WaitUntilIdle(a) \/ ReleaseBackend(a) \/ WaitForWorkers(a)
  PROVE  StopInv(s)' /\ UNCHANGED <<lifecycle, lastGen, wstate, wgen>>
<1>. USE DEF StopInv, LifecycleGen, At, Goto, optVars, stateVars, genVars, workVars
<1>1. a = s /\ s \in Stoppers /\ s \in Actors /\ pc[s] \in JoinPcs
  BY DEF WaitUntilIdle, ReleaseBackend, WaitForWorkers, OneOwner, OwnedPcs, JoinPcs, StopPcs, Actors
<1>2. /\ lifecycle.kind = "Stopping" /\ draining.kind = "Joining" /\ lifecycle.gen \in closed
      /\ lifecycle.gen = lastGen
  BY <1>1 DEF CoreInv, Phases, Generations, Handoff
<1>3. /\ UNCHANGED <<lifecycle, lastGen, closed, workersUp, wstate, wgen>>
      /\ \/ pc[s] = "joining" /\ pc' = [pc EXCEPT ![s] = "marker"] /\ Active(held[s]) = {}
            /\ draining' = draining
         \/ pc[s] = "marker" /\ pc' = [pc EXCEPT ![s] = "workers"] /\ draining' = Plain("Joining")
         \/ pc[s] = "workers" /\ pc' = [pc EXCEPT ![s] = "publish"]
            /\ lifecycle.gen \notin workersUp /\ draining' = draining
  BY <1>1 DEF WaitUntilIdle, ReleaseBackend, WaitForWorkers
<1>4. PICK l \in {"marker", "workers", "publish"} :
        \A b \in Actors : pc'[b] = IF b = s THEN l ELSE pc[b]
  BY <1>3 DEF TypeInv, TypeOK
<1>5. \A w \in Works : wstate[w] \notin Registered
  BY <1>2, <1>3 DEF Handoff, JoinPcs, Alive, Active
<1>6. OneOwner(s)'
  BY <1>1, <1>4 DEF OneOwner
<1>7. ClosedUnlessRunning(s)'
  BY <1>2, <1>3 DEF ClosedUnlessRunning
<1>8. Handoff(s)'
  <2>1. CASE pc[s] = "joining"
    BY <1>1, <1>2, <1>3, <1>5, <2>1 DEF Handoff, JoinPcs, TypeInv, TypeOK
  <2>2. CASE pc[s] = "marker"
    BY <1>1, <1>2, <1>3, <1>5, <2>2 DEF Handoff, JoinPcs, TypeInv, TypeOK, Plain, Carrying
  <2>3. CASE pc[s] = "workers"
    BY <1>1, <1>2, <1>3, <1>5, <2>3 DEF Handoff, JoinPcs, TypeInv, TypeOK, Alive
  <2>. QED
    BY <1>3, <2>1, <2>2, <2>3
<1>9. Alive' /\ Current'
  BY <1>3 DEF Alive, Current
<1>. QED
  BY <1>3, <1>6, <1>7, <1>8, <1>9

\* The publication of Stopped: nothing admitted is alive, and no destructor.
LEMMA PublishStop ==
  ASSUME TypeInv, CoreInv, NEW s \in Threads, StopInv(s), NEW a \in Actors, PublishStopped(a)
  PROVE  /\ StopInv(s)' /\ UNCHANGED <<lastGen, wstate, wgen>>
         /\ lifecycle.kind = "Stopping" /\ lifecycle'.kind = "Stopped"
         /\ \A w \in Works : wstate[w] \notin Registered
<1>. USE DEF StopInv, LifecycleGen, At, Goto, Return, Resting, optVars, genVars, workVars
<1>1. a = s /\ s \in Actors /\ pc[s] = "publish" /\ rejecting = {}
  BY DEF PublishStopped, OneOwner, OwnedPcs, JoinPcs, StopPcs, Actors
<1>2. /\ lifecycle.kind = "Stopping" /\ lifecycle.gen \in closed /\ workersUp = {}
      /\ \A w \in Works : wstate[w] \notin Registered \cup {"destroying"}
  BY <1>1 DEF CoreInv, Phases, Barred, Handoff, JoinPcs
<1>3. /\ lifecycle' = Plain("Stopped") /\ draining' = Plain("None")
      /\ pc' = [pc EXCEPT ![s] = "idle"]
      /\ UNCHANGED <<lastGen, closed, workersUp, wstate, wgen>>
  BY <1>1, ConstantsAssumption DEF PublishStopped
<1>4. /\ lifecycle'.kind = "Stopped" /\ draining'.kind = "None"
      /\ \A b \in Actors : pc'[b] = IF b = s THEN "idle" ELSE pc[b]
  BY <1>3 DEF Plain, Carrying, TypeInv, TypeOK
<1>5. OneOwner(s)'
  BY <1>1, <1>4 DEF OneOwner, StopPcs, OwnedPcs, JoinPcs
<1>6. ClosedUnlessRunning(s)'
  BY <1>1, <1>2, <1>3 DEF ClosedUnlessRunning
<1>7. Handoff(s)'
  BY <1>1, <1>4 DEF Handoff, JoinPcs
<1>8. Alive' /\ Current'
  BY <1>2, <1>3 DEF Alive, Current
<1>. QED
  BY <1>2, <1>3, <1>4, <1>5, <1>6, <1>7, <1>8

LEMMA InitStop ==
  ASSUME NEW s \in Threads, Init
  PROVE  StopInv(s)
<1>. USE DEF Init, Plain, Carrying
<1>1. LifecycleGen = 0 /\ \A a \in Actors : pc[a] = "idle"
  BY DEF LifecycleGen
<1>2. OneOwner(s) /\ ClosedUnlessRunning(s)
  BY <1>1 DEF OneOwner, StopPcs, OwnedPcs, JoinPcs, ClosedUnlessRunning
<1>3. Handoff(s) /\ Alive /\ Current
  BY <1>1 DEF Handoff, Alive, Current, JoinPcs, Registered, Actors
<1>. QED
  BY <1>2, <1>3 DEF StopInv

\* A step that is not quiet is one of these.
LEMMA QuietSteps ==
  ASSUME TypeInv, CoreInv, NEW s \in Threads, StopInv(s), [Next]_vars,
         ~ \E a \in Actors :
             \/ FastRegister(a) \/ SlowRunning(a) \/ SlowCreate(a) \/ StartCreates(a)
             \/ StartKeeps(a) \/ BeginZero(a) \/ FinishSettled(a) \/ FinishZeroPublishes(a)
             \/ BeginRunning(a) \/ CloseAndAbort(a) \/ FinishTakes(a)
             \/ WaitUntilIdle(a) \/ ReleaseBackend(a) \/ WaitForWorkers(a) \/ PublishStopped(a)
  PROVE  Quiet
<1>1. ASSUME NEW a \in Actors, SubmitStep(a)
      PROVE  Quiet
  BY <1>1, SubmitMovesStop DEF SubmitStep
<1>2. ASSUME NEW a \in Actors, StartStep(a)
      PROVE  Quiet
  BY <1>2, LifecycleMovesStop DEF StartStep
<1>3. ASSUME NEW a \in Actors, BeginStep(a)
      PROVE  Quiet
  BY <1>3, LifecycleMovesStop, WakeParkersStop DEF BeginStep
<1>4. ASSUME NEW a \in Actors, FinishStep(a)
      PROVE  Quiet
  BY <1>4, LifecycleMovesStop DEF FinishStep
<1>5. CASE UNCHANGED vars
  BY <1>5, SameQuiet DEF vars, stateVars, genVars, workVars, threadVars
<1>. QED
  BY <1>1, <1>2, <1>3, <1>4, <1>5, CallStop, AdvanceStop, WorkersExitStop DEF Next, CodeStep

LEMMA NextStop ==
  ASSUME TypeInv, CoreInv, NEW s \in Threads, OneShutdown(s), StopInv(s), [Next]_vars
  PROVE  StopInv(s)'
  BY QuietSteps, QuietKeeps, AdmitStop, CreateStop, WithoutBackendStop, BeginRunningStop,
     CloseAndAbortStop, FinishTakesStop, JoinStop, PublishStop

(***************************************************************************)
(* The theorems about the stop.                                            *)
(***************************************************************************)

\* One owner of the shutdown: the strengthened invariant holds of every
\* behaviour.
THEOREM StopInvariant ==
  ASSUME NEW s \in Threads, OneShutdown(s)
  PROVE  Spec => [](TypeInv /\ CoreInv /\ StopInv(s))
<1>1. Init => StopInv(s)
  BY InitStop
<1>2. TypeInv /\ CoreInv /\ StopInv(s) /\ [Next]_vars => StopInv(s)'
  BY NextStop
<1>. QED
  BY <1>1, <1>2, CoreInvariant, PTL DEF Spec

\* finish_shutdown publishes Stopped only when nothing admitted is alive and no
\* pool thread is left, whatever the sets of threads and submissions.
THEOREM StopIsQuiescent ==
  ASSUME NEW s \in Threads, OneShutdown(s)
  PROVE  Spec => []StoppedIsQuiescent
<1>1. TypeInv /\ StopInv(s) => StoppedIsQuiescent
  BY DEF StopInv, Alive, StoppedIsQuiescent, LifecycleGen, Active, TypeInv, TypeOK
<1>. QED
  BY <1>1, StopInvariant, PTL

\* A start never overlaps the work of an earlier generation: what is registered
\* belongs to the generation that runs or stops.
THEOREM LiveGenerationIsOne ==
  ASSUME NEW s \in Threads, OneShutdown(s)
  PROVE  Spec => []OneLiveGeneration
<1>1. TypeInv /\ StopInv(s) => OneLiveGeneration
  BY DEF StopInv, Alive, OneLiveGeneration
<1>. QED
  BY <1>1, StopInvariant, PTL

\* While a stop is outstanding, the host's poll tells whether user code that
\* phase 2 waits for is alive, also after the join has let the backend go.
THEOREM PollIsTruthful ==
  ASSUME NEW s \in Threads, OneShutdown(s)
  PROVE  Spec => []PollSeesAdmittedWork
<1>1. ASSUME TypeInv, CoreInv, StopInv(s), draining.kind \in {"Backend", "Joining"}
      PROVE  WorkPendingAnswer <=> \E g \in 1..MaxGen : Active(g) # {}
  <2>. USE <1>1
  <2>1. lifecycle.kind = "Stopping" /\ lifecycle.gen \in 1..MaxGen /\ LifecycleGen = lifecycle.gen
    BY DEF CoreInv, Phases, Generations, LifecycleGen, TypeInv, TypeOK, LifecycleStates
  <2>2. \A g \in 1..MaxGen : g # lifecycle.gen => Active(g) = {}
    BY <2>1 DEF StopInv, Alive, Active
  <2>3. CASE draining.gen = lifecycle.gen
    <3>1. WorkPendingAnswer <=> Active(lifecycle.gen) # {}
      BY <2>1, <2>3 DEF WorkPendingAnswer
    <3>. QED
      BY <2>1, <2>2, <3>1
  <2>4. CASE draining.gen = 0 /\ draining.kind = "Joining" /\ pc[s] \in {"workers", "publish"}
    <3>1. ~WorkPendingAnswer
      BY <2>4 DEF WorkPendingAnswer
    <3>2. \A g \in 1..MaxGen : Active(g) = {}
      BY <2>4 DEF StopInv, Handoff, JoinPcs, Active
    <3>. QED
      BY <3>1, <3>2
  <2>. QED
    BY <2>3, <2>4 DEF StopInv, Handoff
<1>2. TypeInv /\ CoreInv /\ StopInv(s) => PollSeesAdmittedWork
  BY <1>1 DEF PollSeesAdmittedWork
<1>. QED
  BY <1>2, StopInvariant, PTL

(***************************************************************************)
(* Nobody waits for itself.  A work that shuts down or starts is refused   *)
(* where it would wait, so only host threads wait, and no work is below    *)
(* one of them on a stack.                                                 *)
(***************************************************************************)
WorksNeverWait == \A w \in Works : w \notin parked

\* What is above a host thread on its stack is not counted by its waits.
LEMMA StackOfThread ==
  ASSUME TypeInv, NEW t \in Threads
  PROVE  Stack(t) \cap Works = {}
<1>1. t \in Actors /\ {t} \in SUBSET Actors
  BY DEF Actors
<1>2. HoldsFramesBelow({t})
  BY ConstantsAssumption DEF HoldsFramesBelow, RunsOnTopOf, TypeInv, InHand, InHandPcs
<1>3. \A x \in Stack(t) : x = t
  BY <1>1, <1>2 DEF Stack
<1>. QED
  BY <1>3, ConstantsAssumption

LEMMA OnOwnStack ==
  ASSUME NEW a \in Actors
  PROVE  a \in Stack(a)
  BY DEF Stack

\* A work that calls while no generation is in use is a rejected destructor.
LEMMA WorkWouldWait ==
  ASSUME TypeInv, CoreInv, NEW s \in Threads, StopInv(s), OutputDroppers = {},
         NEW w \in Works, pc[w] \notin {"idle", "done"}
  PROVE  /\ lifecycle.kind = "Stopping" => IsCurrent(w, lifecycle.gen)
         /\ lifecycle.kind \notin {"Running", "Stopping"} => InDropContext(w)
<1>1. wgen[w] = LifecycleGen /\ (wstate[w] = "destroying" \/ LifecycleGen # 0)
  BY WorkIsCurrent
<1>2. w \in Stack(w) \cap Works
  BY OnOwnStack DEF Actors
<1>. QED
  BY <1>1, <1>2 DEF IsCurrent, ActiveGen, InDropContext, LifecycleGen, CoreInv, Barred

LEMMA NextWaits ==
  ASSUME TypeInv, CoreInv, NEW s \in Threads, StopInv(s), OutputDroppers = {},
         WorksNeverWait, [Next]_vars
  PROVE  WorksNeverWait'
<1>. USE DEF WorksNeverWait
<1>. USE DEF At, Enter, NotifyAll, WaitAt, optVars, stateVars, genVars, workVars, threadVars
<1>1. ASSUME NEW a \in Actors, Call(a)
      PROVE  WorksNeverWait'
  BY <1>1 DEF Call, Configure, Submit, DropOutput, StartCall, ShutdownCall, FinishCall
<1>2. ASSUME NEW a \in Actors, SubmitStep(a)
      PROVE  WorksNeverWait'
  BY <1>2 DEF SubmitStep, FastLoad, FastRegister, FastRegisterClosed, SlowRunning, SlowCreate,
              AdmittedAs, SlowReject, Destroyed, Unreject, Schedule, BlockOnReturns, OutputDropped
<1>3. ASSUME NEW a \in Actors, WaitAt(a, pc'[a]), a \notin Works
      PROVE  WorksNeverWait'
  BY <1>3
<1>4. ASSUME NEW a \in Actors, StartStep(a)
      PROVE  WorksNeverWait'
  <2>1. CASE StartWaits(a)
    BY <2>1, WorkWouldWait DEF StartWaits, Stopped
  <2>. QED
    BY <1>4, <2>1 DEF StartStep, StartRefused, StartKeeps, StartCreates
<1>5. ASSUME NEW a \in Actors, BeginStep(a)
      PROVE  WorksNeverWait'
  BY <1>5 DEF BeginStep, BeginRefused, BeginOutstanding, BeginZero, BeginRunning, CloseAndAbort,
              WakeParkers, BeginVerdict
<1>6. ASSUME NEW a \in Actors, FinishStep(a)
      PROVE  WorksNeverWait'
  <2>1. CASE FinishZeroWaits(a)
    BY <2>1, WorkWouldWait DEF FinishZeroWaits, AtZero, ZeroParked
  <2>2. CASE FinishOtherWaits(a)
    BY <2>2, WorkWouldWait DEF FinishOtherWaits, AtOther
  <2>3. CASE PublishWaits(a)
    <3>1. a = s
      BY <2>3 DEF PublishWaits, StopInv, OneOwner, OwnedPcs, JoinPcs
    <3>. QED
      BY <2>3, <3>1, ConstantsAssumption DEF PublishWaits
  <2>. QED
    BY <1>6, <2>1, <2>2, <2>3
       DEF FinishStep, FinishSettled, FinishTakes, TakesBackend, FinishZeroPublishes,
           FinishReports, WaitUntilIdle, ReleaseBackend, WaitForWorkers, PublishStopped
<1>7. ASSUME NEW w \in Works, Claim(w) \/ Suspend(w) \/ Wake(w) \/ Complete(w)
      PROVE  WorksNeverWait'
  BY <1>7 DEF Claim, Suspend, Wake, Complete, Advance
<1>8. ASSUME NEW g \in 1..MaxGen, WorkersExit(g)
      PROVE  WorksNeverWait'
  BY <1>8 DEF WorkersExit
<1>9. CASE UNCHANGED vars
  BY <1>9 DEF vars
<1>. QED
  BY <1>1, <1>2, <1>4, <1>5, <1>6, <1>7, <1>8, <1>9 DEF Next, CodeStep

\* No wait of start or of finish_shutdown is for what is further down the
\* waiter's own stack, although the works call both.
THEOREM NobodyWaitsForItself ==
  ASSUME NEW s \in Threads, Stoppers \subseteq {s} \cup Works, OutputDroppers = {}
  PROVE  Spec => []NoSelfWait
<1>. OneShutdown(s)
  BY DEF OneShutdown
<1>1. Init => WorksNeverWait
  BY DEF Init, WorksNeverWait
<1>2. TypeInv /\ CoreInv /\ StopInv(s) /\ WorksNeverWait /\ [Next]_vars => WorksNeverWait'
  BY NextWaits
<1>3. ASSUME TypeInv, CoreInv, StopInv(s), WorksNeverWait, NEW a \in Actors
      PROVE  WaitsFor(a) = {} \/ WaitsFor(a) \cap Stack(a) = {}
  <2>1. CASE a \in Works
    <3>1. pc[a] # "joining" /\ a \notin parked
      BY <1>3, <2>1, ConstantsAssumption DEF WorksNeverWait, StopInv, OneOwner, OwnedPcs, JoinPcs
    <3>. QED
      BY <3>1 DEF WaitsFor
  <2>2. CASE a \in Threads
    <3>1. WaitsFor(a) \subseteq Works
      BY DEF WaitsFor
    <3>. QED
      BY <1>3, <2>2, <3>1, StackOfThread
  <2>. QED
    BY <2>1, <2>2 DEF Actors
<1>4. TypeInv /\ CoreInv /\ StopInv(s) /\ WorksNeverWait => NoSelfWait
  BY <1>3 DEF NoSelfWait
<1>. QED
  BY <1>1, <1>2, <1>4, StopInvariant, PTL DEF Spec

(***************************************************************************)
(* The controller implements GenerationBarrier: every step is a stutter,   *)
(* or the one action of the barrier that its name says.                    *)
(***************************************************************************)
LEMMA QuietMaps ==
  ASSUME TypeInv, Quiet
  PROVE  [Barrier!Next]_Barrier!vars
<1>1. BarrierPhase' = BarrierPhase /\ lastGen' = lastGen
  BY DEF Quiet, BarrierPhase
<1>2. PICK v \in Works \cup {NoWork} :
        \A w \in Works \ {v} : wstate[w] \in Registered => wstate'[w] \in Registered
  BY DEF Quiet
<1>3. \A w \in Works : BarrierLive'[w] = BarrierLive[w] \/ (w = v /\ BarrierLive'[w] = 0)
  BY <1>2 DEF Quiet, BarrierLive
<1>4. CASE \A w \in Works : BarrierLive'[w] = BarrierLive[w]
  <2>1. BarrierLive' = BarrierLive
    BY <1>4 DEF BarrierLive
  <2>. QED
    BY <1>1, <2>1 DEF Barrier!vars
<1>5. CASE v \in Works /\ BarrierLive'[v] # BarrierLive[v]
  <2>1. BarrierLive' = [BarrierLive EXCEPT ![v] = 0] /\ BarrierLive[v] # 0
    BY <1>3, <1>5 DEF BarrierLive
  <2>. QED
    BY <1>1, <1>5, <2>1 DEF Barrier!Next, Barrier!Retire
<1>. QED
  BY <1>3, <1>4, <1>5

\* A step that leaves what is registered alone.
LEMMA SameLive ==
  ASSUME UNCHANGED wgen,
         \A w \in Works : wstate'[w] \in Registered <=> wstate[w] \in Registered
  PROVE  BarrierLive' = BarrierLive
  BY DEF BarrierLive

\* A step that registers one submission with generation g.
LEMMA OneMoreLive ==
  ASSUME TypeInv, NEW w \in Works, NEW g \in Nat \ {0}, wstate[w] \notin Registered,
         wstate' = [wstate EXCEPT ![w] = "registered"], wgen' = [wgen EXCEPT ![w] = g]
  PROVE  BarrierLive[w] = 0 /\ BarrierLive' = [BarrierLive EXCEPT ![w] = g]
  BY DEF BarrierLive, Registered, TypeInv, TypeOK

LEMMA NextMaps ==
  ASSUME TypeInv, CoreInv, NEW s \in Threads, OneShutdown(s), StopInv(s), [Next]_vars
  PROVE  [Barrier!Next]_Barrier!vars
<1>0. ASSUME BarrierPhase' = BarrierPhase, lastGen' = lastGen, BarrierLive' = BarrierLive
      PROVE  [Barrier!Next]_Barrier!vars
  BY <1>0 DEF Barrier!vars
<1>1. ASSUME NEW a \in Actors, FastRegister(a) \/ SlowRunning(a)
      PROVE  Barrier!Admit
  <2>1. /\ LifecycleGen # 0 /\ LifecycleGen = lastGen /\ lifecycle' = lifecycle /\ lastGen' = lastGen
        /\ arg[a] \in Works /\ wstate[arg[a]] = "new"
        /\ wstate' = [wstate EXCEPT ![arg[a]] = "registered"]
        /\ wgen' = [wgen EXCEPT ![arg[a]] = lastGen]
    BY <1>1, AdmitStop
  <2>2. BarrierPhase # "none" /\ BarrierPhase' = BarrierPhase
    BY <2>1 DEF BarrierPhase, LifecycleGen
  <2>3. lastGen \in Nat \ {0} /\ wstate[arg[a]] \notin Registered
    BY <2>1 DEF TypeInv, TypeOK, Registered
  <2>4. BarrierLive[arg[a]] = 0 /\ BarrierLive' = [BarrierLive EXCEPT ![arg[a]] = lastGen]
    BY <2>1, <2>3, OneMoreLive
  <2>. QED
    BY <2>1, <2>2, <2>4 DEF Barrier!Admit
<1>2. ASSUME NEW a \in Actors, SlowCreate(a) \/ StartCreates(a)
      PROVE  Barrier!Open
  <2>1. /\ lifecycle.kind \notin {"Running", "Stopping"}
        /\ lifecycle'.kind = "Running" /\ lastGen' = lastGen + 1
        /\ \A w \in Works : wstate[w] \notin Registered
        /\ \/ UNCHANGED <<wstate, wgen>>
           \/ /\ arg[a] \in Works
              /\ wstate' = [wstate EXCEPT ![arg[a]] = "registered"]
              /\ wgen' = [wgen EXCEPT ![arg[a]] = lastGen']
    BY <1>2, CreateStop
  <2>2. BarrierPhase = "none" /\ BarrierPhase' = "open" /\ Barrier!Quiescent
    BY <2>1 DEF BarrierPhase, Barrier!Quiescent, BarrierLive
  <2>3. lastGen' \in Nat \ {0}
    BY <2>1 DEF TypeInv, TypeOK
  <2>4. \/ BarrierLive' = BarrierLive
        \/ \E w \in Works : BarrierLive' = [BarrierLive EXCEPT ![w] = lastGen']
    BY <2>1, <2>3, SameLive, OneMoreLive
  <2>. QED
    BY <2>1, <2>2, <2>4 DEF Barrier!Open
<1>3. ASSUME NEW a \in Actors,
             StartKeeps(a) \/ BeginZero(a) \/ FinishSettled(a) \/ FinishZeroPublishes(a)
      PROVE  [Barrier!Next]_Barrier!vars
  BY <1>0, <1>3, WithoutBackendStop, SameLive DEF BarrierPhase
<1>4. ASSUME NEW a \in Actors, BeginRunning(a)
      PROVE  Barrier!Announce
  <2>1. /\ lifecycle.kind = "Running" /\ lifecycle'.kind = "Stopping"
        /\ UNCHANGED <<lastGen, wstate, wgen>>
    BY <1>4 DEF BeginRunning, Carrying, workVars
  <2>. QED
    BY <2>1, SameLive DEF Barrier!Announce, BarrierPhase
<1>5. ASSUME NEW a \in Actors,
             \/ CloseAndAbort(a) \/ FinishTakes(a)
             \/ WaitUntilIdle(a) \/ ReleaseBackend(a) \/ WaitForWorkers(a)
      PROVE  [Barrier!Next]_Barrier!vars
  <2>1. /\ UNCHANGED <<lifecycle, lastGen, wgen>>
        /\ \A w \in Works : wstate'[w] \in Registered <=> wstate[w] \in Registered
    BY <1>5, CloseAndAbortStop, FinishTakesStop, JoinStop
  <2>. QED
    BY <1>0, <2>1, SameLive DEF BarrierPhase
<1>6. ASSUME NEW a \in Actors, PublishStopped(a)
      PROVE  Barrier!Publish
  <2>1. /\ UNCHANGED <<lastGen, wstate, wgen>>
        /\ lifecycle.kind = "Stopping" /\ lifecycle'.kind = "Stopped"
        /\ \A w \in Works : wstate[w] \notin Registered
    BY <1>6, PublishStop
  <2>2. Barrier!Quiescent
    BY <2>1 DEF Barrier!Quiescent, BarrierLive
  <2>. QED
    BY <2>1, <2>2, SameLive DEF Barrier!Publish, BarrierPhase
<1>. QED
  BY <1>1, <1>2, <1>3, <1>4, <1>5, <1>6, QuietSteps, QuietMaps DEF Barrier!Next

\* Every behaviour of the controller, whatever its threads, submissions and
\* generations, is one of the barrier: admission, retirement, announcement and
\* publication happen in the order GenerationBarrier allows.
THEOREM BarrierImplemented ==
  ASSUME NEW s \in Threads, OneShutdown(s)
  PROVE  Spec => ImplementsBarrier
<1>1. Init => Barrier!Init
  BY DEF Init, Barrier!Init, BarrierPhase, BarrierLive, Plain, Carrying, Registered
<1>2. TypeInv /\ CoreInv /\ StopInv(s) /\ [Next]_vars => [Barrier!Next]_Barrier!vars
  BY NextMaps
<1>. QED
  BY <1>1, <1>2, StopInvariant, PTL DEF Spec, ImplementsBarrier, Barrier!Spec

=============================================================================
