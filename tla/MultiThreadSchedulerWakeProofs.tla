------------------ MODULE MultiThreadSchedulerWakeProofs ------------------
(***************************************************************************)
(* MultiThreadScheduler loses no wake, for every pool, set of hosts, tasks *)
(* and closures, bound on the lanes, budget and menu of calls.             *)
(*                                                                         *)
(* While a driver sleeps registered, whatever was queued since it looked   *)
(* is matched by as many wakes and drivers on their way to take it; while  *)
(* a thread of the pool is free, by these and the drainers to come, unless *)
(* every thread has its drainer.                                           *)
(***************************************************************************)
EXTENDS MultiThreadSchedulerProofs

OnTop(w, pcs) == Busy(w) /\ Top(w).kind \in DriverKinds /\ Top(w).pc \in pcs
Registered(w) == Me(w) \in parked
Waking == {t \in Threads : Busy(t) /\ Top(t).kind = "wake" /\ Top(t).pc = "wake"}

\* Drivers that will take a runnable, unless there is none, before anything else.
LoopPcs == {"top", "force", "fair"}
Awake   == {"claim", "permit?", "xrunnable"} \cup (Idling \ {"quit"})
ForRunnable(f) ==
  /\ f.kind \in DriverKinds
  /\ (f.pc \in LoopPcs /\ f.streak < Quantum) \/ f.pc \in Awake
RunnableTakers ==
  {w \in Workers : Busy(w) /\ ForRunnable(Top(w)) /\ slot[w] = NoUnit /\ ~Registered(w)}
RunnableSleepers == {w \in Workers : OnTop(w, {"blocking?", "park"}) /\ Registered(w)}
RunnableExits    == {w \in Workers : OnTop(w, {"residue?", "ensure"})}

\* Threads that will take a closure, unless there is none, before they take
\* part in another or come to rest.
Under(w) == IF Top(w).kind = "wake" THEN stack[w][Len(stack[w]) - 1] ELSE Top(w)
ClosurePcs == LoopPcs \cup Awake \cup {"block", "yield", "exit", "xblocking", "xtake", "xresidue"}
ForClosure(f) == f.kind = "task" \/ (f.kind \in DriverKinds /\ f.pc \in ClosurePcs)
ClosureTakers   == {w \in Workers : Busy(w) /\ ForClosure(Under(w)) /\ ~Registered(w)}
ClosureSleepers == {w \in Workers : OnTop(w, {"park"}) /\ Registered(w)}
ClosureExits    == {w \in Workers : OnTop(w, {"residue?", "jobs?", "ensure"})}
Vacant          == {w \in Workers : ~Busy(w) \/ OnTop(w, Retired)}

\* The closures that could be taken now.
Lesser(m, n) == IF m < n THEN m ELSE n
Claimable == Lesser(Len(blockingQueue), MaxBlocking - activeBlocking)

Matched(n, sleepers, takers, movers, exits) ==
  /\ sleepers # {} => n <= Cardinality(Waking) + Cardinality(takers)
  /\ \/ n <= Cardinality(Waking) + Cardinality(movers) + drains + Cardinality(exits)
     \/ activeDrainers + Cardinality(exits) >= Cardinality(Workers)
RunnablesMatched ==
  Matched(Len(injector), RunnableSleepers, RunnableTakers, RunnableTakers, RunnableExits)
ClosuresMatched ==
  Matched(Claimable, ClosureSleepers, ClosureTakers \cup Vacant, ClosureTakers, ClosureExits)

\* A driver that nobody has registered any more finds its permit, or an unpark
\* is on its way.
Notified(w) ==
  Me(w) \in permit \/ \E t \in Threads : At(t, "unpark") /\ Top(t).kind = "wake" /\ Top(t).p = Me(w)
Popped(w) ==
  OnTop(w, {"runnable?", "blocking?", "park"}) /\ ~Registered(w) => Notified(w)
\* How a driver leaves its registration.
Undoing(w) == /\ OnTop(w, {"undo"}) => slot[w] = NoUnit
              /\ ~OnTop(w, {"quit"})
              /\ OnTop(w, {"leave"}) => ~Registered(w)
WakeInv ==
  /\ queueClosed => stopping
  /\ StopPc = "publish" <=> ~stopping
  /\ ~stopping => /\ IsFiniteSet(Waking)
                  /\ \A w \in Workers : Popped(w) /\ Undoing(w)
                  /\ RunnablesMatched /\ ClosuresMatched

\* One element of a set comes or goes.
One(b) == IF b THEN 1 ELSE 0
LEMMA Changes ==
  ASSUME NEW A, NEW B, NEW t, IsFiniteSet(A), B \ {t} = A \ {t}
  PROVE  /\ IsFiniteSet(B) /\ Cardinality(A) \in Nat /\ Cardinality(B) \in Nat
         /\ Cardinality(B) + One(t \in A) = Cardinality(A) + One(t \in B)
<1>. DEFINE C == A \ {t}
<1>1. IsFiniteSet(C) /\ C \subseteq A /\ t \notin C
  BY FS_Subset
<1>2. Cardinality(C) \in Nat
  BY <1>1, FS_CardinalityType
<1>3. IsFiniteSet(C \cup {t}) /\ Cardinality(C \cup {t}) = Cardinality(C) + 1
  BY <1>1, FS_AddElement
<1>4. A = IF t \in A THEN C \cup {t} ELSE C
  OBVIOUS
<1>5. B = IF t \in B THEN C \cup {t} ELSE C
  OBVIOUS
<1>. HIDE DEF C
<1>6. Cardinality(A) = Cardinality(C) + One(t \in A)
  BY <1>2, <1>3, <1>4 DEF One
<1>7. Cardinality(B) = Cardinality(C) + One(t \in B) /\ IsFiniteSet(B)
  BY <1>1, <1>2, <1>3, <1>5 DEF One
<1>. QED
  BY <1>2, <1>6, <1>7 DEF One

\* What another thread looks like is left alone by a step of t.
Keeps(t) ==
  \A x \in Threads \ {t} : \A i \in 1..Len(stack[x]) :
    /\ stack'[x][i].streak = stack[x][i].streak
    /\ stack'[x][i].p = stack[x][i].p \/ stack[x][i].p = Me(t)
LEMMA KeepsPut ==
  ASSUME Stacks, NEW t \in Threads, NEW s, Put(t, s)
  PROVE  Keeps(t)
  BY PutFacts DEF Keeps

LEMMA KeepsErase ==
  ASSUME Stacks, NEW t \in Threads, stack' = WithoutTop(t)
  PROVE  Keeps(t)
<1>. SUFFICES ASSUME NEW x \in Threads \ {t}, NEW i \in 1..Len(stack[x])
              PROVE  /\ stack'[x][i].streak = stack[x][i].streak
                     /\ stack'[x][i].p = stack[x][i].p \/ stack[x][i].p = Me(t)
  BY DEF Keeps
<1>1. stack'[x][i] = Forgets(stack[x][i], Me(t))
  BY DEF WithoutTop, Forgets
<1>2. stack[x][i] \in FrameTypes
  BY DEF Stacks, StackOK, FrameOK
<1>. QED
  BY <1>1, <1>2 DEF Forgets, FrameTypes

LEMMA UnderFacts ==
  ASSUME Stacks, NEW x \in Threads, Busy(x)
  PROVE  /\ Top(x).kind = "wake" => /\ Len(stack[x]) - 1 \in 1..Len(stack[x])
                                    /\ Under(x) = stack[x][Len(stack[x]) - 1]
                                    /\ Nests(Under(x), Top(x))
         /\ Top(x).kind # "wake" => Under(x) = Top(x)
         /\ FrameOK(x, Under(x))
<1>1. Len(stack[x]) \in Nat \ {0} /\ Top(x) = stack[x][Len(stack[x])] /\ FrameOK(x, Top(x))
  BY TopFacts
<1>2. CASE Top(x).kind = "wake"
  <2>1. Len(stack[x]) # 1 /\ Nests(stack[x][Len(stack[x]) - 1], Top(x))
    BY <1>2, TopNests DEF Bases
  <2>2. Len(stack[x]) - 1 \in 1..Len(stack[x])
    BY <1>1, <2>1, Before
  <2>3. FrameOK(x, stack[x][Len(stack[x]) - 1])
    BY <2>2 DEF Stacks, StackOK
  <2>. QED
    BY <1>2, <2>1, <2>2, <2>3 DEF Under
<1>. QED
  BY <1>1, <1>2 DEF Under

Alike(t, x) ==
  /\ Busy(x)' <=> Busy(x)
  /\ Me(x)' = Me(x)
  /\ Busy(x) => /\ Top(x)'.kind = Top(x).kind /\ Top(x)'.pc = Top(x).pc /\ Top(x)'.streak = Top(x).streak
                /\ Under(x)'.kind = Under(x).kind /\ Under(x)'.pc = Under(x).pc
                /\ Top(x)'.p = Top(x).p \/ Top(x).p = Me(t)

LEMMA OtherViews ==
  ASSUME Stacks, NEW t \in Threads, Below(t), Keeps(t), NEW x \in Threads \ {t}
  PROVE  Alike(t, x)
<1>1. /\ Busy(x)' <=> Busy(x)
      /\ Busy(x) => Same(Top(x)', Top(x))
  BY OtherTop
<1>2. Stacks' /\ Len(stack'[x]) = Len(stack[x])
  BY DEF Below
<1>3. CASE ~Busy(x)
  BY <1>1, <1>2, <1>3 DEF Alike, Me
<1>4. CASE Busy(x)
  <2>1. /\ Len(stack[x]) \in Nat \ {0} /\ Top(x) = stack[x][Len(stack[x])]
    BY <1>4, TopFacts
  <2>2. Busy(x)' /\ Top(x)' = stack'[x][Len(stack[x])]
    <3>1. stack'[x] \in Seq(FrameTypes) /\ stack'[x] # <<>>
      BY <1>1, <1>2, <1>4 DEF Stacks, StackOK, Busy
    <3>. QED
      BY <1>2, <3>1, FrontFacts DEF Top, Busy
  <2>3. Len(stack[x]) \in 1..Len(stack[x])
    BY <2>1
  <2>4. Top(x)'.streak = Top(x).streak /\ (Top(x)'.p = Top(x).p \/ Top(x).p = Me(t))
    BY <2>1, <2>2, <2>3 DEF Keeps
  <2>5. Top(x)'.kind = Top(x).kind /\ Top(x)'.pc = Top(x).pc
    BY <1>1, <1>4 DEF Same
  <2>6. Under(x)'.kind = Under(x).kind /\ Under(x)'.pc = Under(x).pc
    <3>1. CASE Top(x).kind = "wake"
      <4>1. /\ Len(stack[x]) - 1 \in 1..Len(stack[x]) /\ Under(x) = stack[x][Len(stack[x]) - 1]
        BY <1>4, <3>1, UnderFacts
      <4>2. Under(x)' = stack'[x][Len(stack[x]) - 1]
        BY <1>2, <2>5, <3>1 DEF Under
      <4>. QED
        BY <4>1, <4>2 DEF Below, Same
    <3>2. CASE Top(x).kind # "wake"
      BY <2>5, <3>2 DEF Under
    <3>. QED
      BY <3>1, <3>2
  <2>. QED
    BY <1>1, <1>2, <2>4, <2>5, <2>6 DEF Alike, Me
<1>. QED
  BY <1>3, <1>4

\* The sets a match counts, off t.
Steady(t) ==
  /\ Waking' \ {t} = Waking \ {t}
  /\ RunnableTakers' \ {t} = RunnableTakers \ {t} /\ RunnableSleepers' \ {t} = RunnableSleepers \ {t}
  /\ RunnableExits' \ {t} = RunnableExits \ {t}
  /\ ClosureTakers' \ {t} = ClosureTakers \ {t} /\ ClosureSleepers' \ {t} = ClosureSleepers \ {t}
  /\ ClosureExits' \ {t} = ClosureExits \ {t}
  /\ (ClosureTakers \cup Vacant)' \ {t} = (ClosureTakers \cup Vacant) \ {t}

LEMMA AlikeSteady ==
  ASSUME NEW t, \A x \in Threads \ {t} : Alike(t, x),
         \A x \in Workers \ {t} : slot'[x] = slot[x] /\ (Registered(x)' <=> Registered(x))
  PROVE  Steady(t)
<1>. DEFINE V(x) == /\ x \in Threads /\ Alike(t, x)
                    /\ x \in Workers => slot'[x] = slot[x] /\ (Registered(x)' <=> Registered(x))
<1>1. \A x \in Threads \ {t} : V(x)
  OBVIOUS
<1>2. Workers \subseteq Threads
  BY DEF Threads
<1>3. Waking' \ {t} = Waking \ {t}
  BY DEF Waking, Alike
<1>4. RunnableSleepers' \ {t} = RunnableSleepers \ {t} /\ ClosureSleepers' \ {t} = ClosureSleepers \ {t}
  BY <1>2 DEF RunnableSleepers, ClosureSleepers, Alike, OnTop
<1>5. RunnableExits' \ {t} = RunnableExits \ {t} /\ ClosureExits' \ {t} = ClosureExits \ {t}
  BY <1>2 DEF RunnableExits, ClosureExits, Alike, OnTop
<1>6. RunnableTakers' \ {t} = RunnableTakers \ {t}
  BY <1>2 DEF RunnableTakers, ForRunnable, Alike
<1>7. ClosureTakers' \ {t} = ClosureTakers \ {t}
  BY <1>2 DEF ClosureTakers, ForClosure, Alike
<1>8. Vacant' \ {t} = Vacant \ {t}
  BY <1>2 DEF Vacant, OnTop, Alike
<1>. QED
  BY <1>3, <1>4, <1>5, <1>6, <1>7, <1>8 DEF Steady

\* What a step of t must do to keep each match.
RunnableStep(t) ==
  \/ Len(injector') = 0
  \/ /\ \/ RunnableSleepers' = {}
        \/ /\ t \in RunnableSleepers' => t \in RunnableSleepers
           /\ Len(injector') + One(t \in Waking) + One(t \in RunnableTakers)
                <= Len(injector) + One(t \in Waking') + One(t \in RunnableTakers')
     /\ \/ activeDrainers' >= Cardinality(Workers)
        \/ /\ Len(injector') + One(t \in Waking) + One(t \in RunnableTakers) + drains
                + One(t \in RunnableExits)
                <= Len(injector) + One(t \in Waking') + One(t \in RunnableTakers') + drains'
                     + One(t \in RunnableExits')
           /\ activeDrainers + One(t \in RunnableExits) <= activeDrainers' + One(t \in RunnableExits')
ClosureStep(t) ==
  \/ Claimable' <= 0
  \/ /\ \/ ClosureSleepers' = {}
        \/ /\ t \in ClosureSleepers' => t \in ClosureSleepers
           /\ Claimable' + One(t \in Waking) + One(t \in ClosureTakers \cup Vacant)
                <= Claimable + One(t \in Waking') + One(t \in (ClosureTakers \cup Vacant)')
     /\ \/ activeDrainers' >= Cardinality(Workers)
        \/ /\ Claimable' + One(t \in Waking) + One(t \in ClosureTakers) + drains + One(t \in ClosureExits)
                <= Claimable + One(t \in Waking') + One(t \in ClosureTakers') + drains'
                     + One(t \in ClosureExits')
           /\ activeDrainers + One(t \in ClosureExits) <= activeDrainers' + One(t \in ClosureExits')

LEMMA CountTypes ==
  ASSUME DataTypes
  PROVE  /\ Len(injector) \in Nat /\ Claimable \in Int /\ drains \in Nat /\ activeDrainers \in Nat
         /\ Cardinality(Workers) \in Nat
         /\ ~BlockingReady => Claimable <= 0
<1>1. Len(injector) \in Nat /\ Len(blockingQueue) \in Nat
  BY LenProperties DEF DataTypes
<1>2. activeBlocking \in Nat /\ MaxBlocking \in Nat
  BY SchedulerAssumption DEF DataTypes
<1>3. Claimable \in Int
  BY <1>1, <1>2 DEF Claimable, Lesser
<1>4. Cardinality(Workers) \in Nat
  BY FS_CardinalityType, SchedulerAssumption
<1>5. blockingQueue = <<>> => Len(blockingQueue) = 0
  BY EmptySeq DEF DataTypes
<1>6. ~BlockingReady => Claimable <= 0
  BY <1>1, <1>2, <1>5 DEF BlockingReady, Claimable, Lesser
<1>. QED
  BY <1>1, <1>3, <1>4, <1>6 DEF DataTypes
LEMMA CountTypesNext ==
  ASSUME DataTypes'
  PROVE  /\ Len(injector') \in Nat /\ Claimable' \in Int /\ drains' \in Nat /\ activeDrainers' \in Nat
         /\ ~BlockingReady' => Claimable' <= 0
<1>1. Len(injector') \in Nat /\ Len(blockingQueue') \in Nat
  BY LenProperties DEF DataTypes
<1>2. activeBlocking' \in Nat /\ MaxBlocking \in Nat
  BY SchedulerAssumption DEF DataTypes
<1>3. Claimable' \in Int
  BY <1>1, <1>2 DEF Claimable, Lesser
<1>5. blockingQueue' = <<>> => Len(blockingQueue') = 0
  BY EmptySeq DEF DataTypes
<1>4. PICK q \in Nat, l \in Nat, n \in Nat :
        q = Len(blockingQueue') /\ l = activeBlocking' /\ n = MaxBlocking
  BY <1>1, <1>2
<1>6. ~BlockingReady' => Claimable' <= 0
  <2>1. Claimable' = IF q < n - l THEN q ELSE n - l
    BY <1>4 DEF Claimable, Lesser
  <2>2. ~BlockingReady' => ~(l < n) \/ q = 0
    BY <1>4, <1>5 DEF BlockingReady
  <2>4. ~(l < n) \/ q = 0 => (IF q < n - l THEN q ELSE n - l) <= 0
    OBVIOUS
  <2>. QED
    BY <2>1, <2>2, <2>4
<1>. QED
  BY <1>1, <1>3, <1>6 DEF DataTypes

LEMMA SomeWorkers ==
  ASSUME NEW S, S \subseteq Workers
  PROVE  IsFiniteSet(S)
  BY FS_Subset, SchedulerAssumption

LEMMA RunnablesKept ==
  ASSUME DataTypes, DataTypes', IsFiniteSet(Waking), RunnablesMatched,
         NEW t, Steady(t), RunnableStep(t)
  PROVE  RunnablesMatched'
<1>0. /\ Len(injector) \in Int /\ (Len(injector))' \in Int /\ drains \in Nat /\ drains' \in Nat
      /\ activeDrainers \in Nat /\ activeDrainers' \in Nat /\ Cardinality(Workers) \in Nat
  BY CountTypes, CountTypesNext
<1>1. PICK n \in Int, m \in Int, d \in Nat, e \in Nat, x \in Nat, y \in Nat, c \in Nat :
        /\ n = Len(injector) /\ m = (Len(injector))' /\ d = drains /\ e = drains' /\ x = activeDrainers
        /\ y = activeDrainers' /\ c = Cardinality(Workers)
  BY <1>0
<1>2. /\ IsFiniteSet(RunnableTakers) /\ IsFiniteSet(RunnableTakers) /\ IsFiniteSet(RunnableExits)
  BY SomeWorkers DEF RunnableTakers, RunnableExits
<1>3. PICK i1 \in Nat, i2 \in Nat, w1 \in Nat, w2 \in Nat :
        /\ i1 = One(t \in Waking) /\ i2 = One(t \in Waking')
        /\ w1 = Cardinality(Waking) /\ w2 = Cardinality(Waking') /\ w2 + i1 = w1 + i2
  <2>1. /\ Cardinality(Waking) \in Nat /\ Cardinality(Waking') \in Nat
        /\ Cardinality(Waking') + One(t \in Waking) = Cardinality(Waking) + One(t \in Waking')
    <3>1. Waking' \ {t} = Waking \ {t}
      BY DEF Steady
    <3>. QED
      BY <3>1, Changes
  <2>2. One(t \in Waking) \in Nat /\ One(t \in Waking') \in Nat
    BY DEF One
  <2>. QED
    BY <2>1, <2>2
<1>4. PICK j1 \in Nat, j2 \in Nat, a1 \in Nat, a2 \in Nat :
        /\ j1 = One(t \in RunnableTakers) /\ j2 = One(t \in RunnableTakers')
        /\ a1 = Cardinality(RunnableTakers) /\ a2 = Cardinality(RunnableTakers') /\ a2 + j1 = a1 + j2
  <2>1. /\ Cardinality(RunnableTakers) \in Nat /\ Cardinality(RunnableTakers') \in Nat
        /\ Cardinality(RunnableTakers') + One(t \in RunnableTakers) = Cardinality(RunnableTakers) + One(t \in RunnableTakers')
    <3>1. RunnableTakers' \ {t} = RunnableTakers \ {t}
      BY DEF Steady
    <3>. QED
      BY <1>2, <3>1, Changes
  <2>2. One(t \in RunnableTakers) \in Nat /\ One(t \in RunnableTakers') \in Nat
    BY DEF One
  <2>. QED
    BY <2>1, <2>2
<1>5. PICK k1 \in Nat, k2 \in Nat, b1 \in Nat, b2 \in Nat :
        /\ k1 = One(t \in RunnableTakers) /\ k2 = One(t \in RunnableTakers')
        /\ b1 = Cardinality(RunnableTakers) /\ b2 = Cardinality(RunnableTakers') /\ b2 + k1 = b1 + k2
  <2>1. /\ Cardinality(RunnableTakers) \in Nat /\ Cardinality(RunnableTakers') \in Nat
        /\ Cardinality(RunnableTakers') + One(t \in RunnableTakers) = Cardinality(RunnableTakers) + One(t \in RunnableTakers')
    <3>1. RunnableTakers' \ {t} = RunnableTakers \ {t}
      BY DEF Steady
    <3>. QED
      BY <1>2, <3>1, Changes
  <2>2. One(t \in RunnableTakers) \in Nat /\ One(t \in RunnableTakers') \in Nat
    BY DEF One
  <2>. QED
    BY <2>1, <2>2
<1>6. PICK l1 \in Nat, l2 \in Nat, e1 \in Nat, e2 \in Nat :
        /\ l1 = One(t \in RunnableExits) /\ l2 = One(t \in RunnableExits')
        /\ e1 = Cardinality(RunnableExits) /\ e2 = Cardinality(RunnableExits') /\ e2 + l1 = e1 + l2
  <2>1. /\ Cardinality(RunnableExits) \in Nat /\ Cardinality(RunnableExits') \in Nat
        /\ Cardinality(RunnableExits') + One(t \in RunnableExits) = Cardinality(RunnableExits) + One(t \in RunnableExits')
    <3>1. RunnableExits' \ {t} = RunnableExits \ {t}
      BY DEF Steady
    <3>. QED
      BY <1>2, <3>1, Changes
  <2>2. One(t \in RunnableExits) \in Nat /\ One(t \in RunnableExits') \in Nat
    BY DEF One
  <2>. QED
    BY <2>1, <2>2
<1>7. /\ n <= w1 + b1 + d + e1 \/ x + e1 >= c
      /\ RunnableSleepers # {} => n <= w1 + a1
  BY <1>1, <1>3, <1>4, <1>5, <1>6 DEF RunnablesMatched, Matched
<1>8. \/ m <= 0
      \/ /\ \/ RunnableSleepers' = {}
            \/ (t \in RunnableSleepers' => t \in RunnableSleepers) /\ m + i1 + j1 <= n + i2 + j2
         /\ y >= c \/ (m + i1 + k1 + d + l1 <= n + i2 + k2 + e + l2 /\ x + l1 <= y + l2)
  <2>1. CASE Len(injector') = 0
    BY <1>1, <2>1
  <2>2. CASE ~(Len(injector') = 0)
    <3>1. \/ RunnableSleepers' = {}
          \/ (t \in RunnableSleepers' => t \in RunnableSleepers) /\ m + i1 + j1 <= n + i2 + j2
      BY <1>1, <1>3, <1>4, <2>2 DEF RunnableStep
    <3>2. y >= c \/ (m + i1 + k1 + d + l1 <= n + i2 + k2 + e + l2 /\ x + l1 <= y + l2)
      BY <1>1, <1>3, <1>5, <1>6, <2>2 DEF RunnableStep
    <3>. QED
      BY <3>1, <3>2
  <2>. QED
    BY <2>1, <2>2
<1>9. m <= w2 + b2 + e + e2 \/ y + e2 >= c
  <2>1. /\ {n, m} \subseteq Int /\ {d, e, x, y, c, w1, w2, b1, b2, e1, e2} \subseteq Nat
        /\ {i1, i2, k1, k2, l1, l2} \subseteq Nat
        /\ w2 + i1 = w1 + i2 /\ b2 + k1 = b1 + k2 /\ e2 + l1 = e1 + l2
    BY <1>1, <1>3, <1>5, <1>6
  <2>2. CASE m <= 0
    BY <2>1, <2>2
  <2>3. CASE y >= c
    BY <2>1, <2>3
  <2>4. CASE m + i1 + k1 + d + l1 <= n + i2 + k2 + e + l2 /\ x + l1 <= y + l2
    BY <1>7, <2>1, <2>4
  <2>. QED
    BY <1>8, <2>2, <2>3, <2>4
<1>10. RunnableSleepers' # {} => m <= w2 + a2
  <2>0. /\ {n, m} \subseteq Int /\ {w1, w2, a1, a2, i1, i2, j1, j2} \subseteq Nat
        /\ w2 + i1 = w1 + i2 /\ a2 + j1 = a1 + j2
    BY <1>1, <1>3, <1>4
  <2>1. CASE m <= 0
    BY <2>0, <2>1
  <2>2. CASE (t \in RunnableSleepers' => t \in RunnableSleepers) /\ m + i1 + j1 <= n + i2 + j2
    <3>1. RunnableSleepers' # {} => RunnableSleepers # {}
      BY <2>2 DEF Steady
    <3>2. n <= w1 + a1 => m <= w2 + a2
      BY <2>0, <2>2
    <3>. QED
      BY <1>7, <3>1, <3>2
  <2>. QED
    BY <1>8, <2>1, <2>2
<1>. QED
  BY <1>1, <1>3, <1>4, <1>5, <1>6, <1>9, <1>10 DEF RunnablesMatched, Matched

LEMMA ClosuresKept ==
  ASSUME DataTypes, DataTypes', IsFiniteSet(Waking), ClosuresMatched,
         NEW t, Steady(t), ClosureStep(t)
  PROVE  ClosuresMatched'
<1>0. /\ Claimable \in Int /\ (Claimable)' \in Int /\ drains \in Nat /\ drains' \in Nat
      /\ activeDrainers \in Nat /\ activeDrainers' \in Nat /\ Cardinality(Workers) \in Nat
  BY CountTypes, CountTypesNext
<1>1. PICK n \in Int, m \in Int, d \in Nat, e \in Nat, x \in Nat, y \in Nat, c \in Nat :
        /\ n = Claimable /\ m = (Claimable)' /\ d = drains /\ e = drains' /\ x = activeDrainers
        /\ y = activeDrainers' /\ c = Cardinality(Workers)
  BY <1>0
<1>2. /\ IsFiniteSet(ClosureTakers \cup Vacant) /\ IsFiniteSet(ClosureTakers) /\ IsFiniteSet(ClosureExits)
  BY SomeWorkers DEF ClosureTakers, Vacant, ClosureExits
<1>3. PICK i1 \in Nat, i2 \in Nat, w1 \in Nat, w2 \in Nat :
        /\ i1 = One(t \in Waking) /\ i2 = One(t \in Waking')
        /\ w1 = Cardinality(Waking) /\ w2 = Cardinality(Waking') /\ w2 + i1 = w1 + i2
  <2>1. /\ Cardinality(Waking) \in Nat /\ Cardinality(Waking') \in Nat
        /\ Cardinality(Waking') + One(t \in Waking) = Cardinality(Waking) + One(t \in Waking')
    <3>1. Waking' \ {t} = Waking \ {t}
      BY DEF Steady
    <3>. QED
      BY <3>1, Changes
  <2>2. One(t \in Waking) \in Nat /\ One(t \in Waking') \in Nat
    BY DEF One
  <2>. QED
    BY <2>1, <2>2
<1>4. PICK j1 \in Nat, j2 \in Nat, a1 \in Nat, a2 \in Nat :
        /\ j1 = One(t \in (ClosureTakers \cup Vacant)) /\ j2 = One(t \in (ClosureTakers \cup Vacant)')
        /\ a1 = Cardinality(ClosureTakers \cup Vacant) /\ a2 = Cardinality((ClosureTakers \cup Vacant)') /\ a2 + j1 = a1 + j2
  <2>1. /\ Cardinality(ClosureTakers \cup Vacant) \in Nat /\ Cardinality((ClosureTakers \cup Vacant)') \in Nat
        /\ Cardinality((ClosureTakers \cup Vacant)') + One(t \in (ClosureTakers \cup Vacant)) = Cardinality(ClosureTakers \cup Vacant) + One(t \in (ClosureTakers \cup Vacant)')
    <3>1. (ClosureTakers \cup Vacant)' \ {t} = (ClosureTakers \cup Vacant) \ {t}
      BY DEF Steady
    <3>. QED
      BY <1>2, <3>1, Changes
  <2>2. One(t \in (ClosureTakers \cup Vacant)) \in Nat /\ One(t \in (ClosureTakers \cup Vacant)') \in Nat
    BY DEF One
  <2>. QED
    BY <2>1, <2>2
<1>5. PICK k1 \in Nat, k2 \in Nat, b1 \in Nat, b2 \in Nat :
        /\ k1 = One(t \in ClosureTakers) /\ k2 = One(t \in ClosureTakers')
        /\ b1 = Cardinality(ClosureTakers) /\ b2 = Cardinality(ClosureTakers') /\ b2 + k1 = b1 + k2
  <2>1. /\ Cardinality(ClosureTakers) \in Nat /\ Cardinality(ClosureTakers') \in Nat
        /\ Cardinality(ClosureTakers') + One(t \in ClosureTakers) = Cardinality(ClosureTakers) + One(t \in ClosureTakers')
    <3>1. ClosureTakers' \ {t} = ClosureTakers \ {t}
      BY DEF Steady
    <3>. QED
      BY <1>2, <3>1, Changes
  <2>2. One(t \in ClosureTakers) \in Nat /\ One(t \in ClosureTakers') \in Nat
    BY DEF One
  <2>. QED
    BY <2>1, <2>2
<1>6. PICK l1 \in Nat, l2 \in Nat, e1 \in Nat, e2 \in Nat :
        /\ l1 = One(t \in ClosureExits) /\ l2 = One(t \in ClosureExits')
        /\ e1 = Cardinality(ClosureExits) /\ e2 = Cardinality(ClosureExits') /\ e2 + l1 = e1 + l2
  <2>1. /\ Cardinality(ClosureExits) \in Nat /\ Cardinality(ClosureExits') \in Nat
        /\ Cardinality(ClosureExits') + One(t \in ClosureExits) = Cardinality(ClosureExits) + One(t \in ClosureExits')
    <3>1. ClosureExits' \ {t} = ClosureExits \ {t}
      BY DEF Steady
    <3>. QED
      BY <1>2, <3>1, Changes
  <2>2. One(t \in ClosureExits) \in Nat /\ One(t \in ClosureExits') \in Nat
    BY DEF One
  <2>. QED
    BY <2>1, <2>2
<1>7. /\ n <= w1 + b1 + d + e1 \/ x + e1 >= c
      /\ ClosureSleepers # {} => n <= w1 + a1
  BY <1>1, <1>3, <1>4, <1>5, <1>6 DEF ClosuresMatched, Matched
<1>8. \/ m <= 0
      \/ /\ \/ ClosureSleepers' = {}
            \/ (t \in ClosureSleepers' => t \in ClosureSleepers) /\ m + i1 + j1 <= n + i2 + j2
         /\ y >= c \/ (m + i1 + k1 + d + l1 <= n + i2 + k2 + e + l2 /\ x + l1 <= y + l2)
  <2>1. CASE Claimable' <= 0
    BY <1>1, <2>1
  <2>2. CASE ~(Claimable' <= 0)
    <3>1. \/ ClosureSleepers' = {}
          \/ (t \in ClosureSleepers' => t \in ClosureSleepers) /\ m + i1 + j1 <= n + i2 + j2
      BY <1>1, <1>3, <1>4, <2>2 DEF ClosureStep
    <3>2. y >= c \/ (m + i1 + k1 + d + l1 <= n + i2 + k2 + e + l2 /\ x + l1 <= y + l2)
      BY <1>1, <1>3, <1>5, <1>6, <2>2 DEF ClosureStep
    <3>. QED
      BY <3>1, <3>2
  <2>. QED
    BY <2>1, <2>2
<1>9. m <= w2 + b2 + e + e2 \/ y + e2 >= c
  <2>1. /\ {n, m} \subseteq Int /\ {d, e, x, y, c, w1, w2, b1, b2, e1, e2} \subseteq Nat
        /\ {i1, i2, k1, k2, l1, l2} \subseteq Nat
        /\ w2 + i1 = w1 + i2 /\ b2 + k1 = b1 + k2 /\ e2 + l1 = e1 + l2
    BY <1>1, <1>3, <1>5, <1>6
  <2>2. CASE m <= 0
    BY <2>1, <2>2
  <2>3. CASE y >= c
    BY <2>1, <2>3
  <2>4. CASE m + i1 + k1 + d + l1 <= n + i2 + k2 + e + l2 /\ x + l1 <= y + l2
    BY <1>7, <2>1, <2>4
  <2>. QED
    BY <1>8, <2>2, <2>3, <2>4
<1>10. ClosureSleepers' # {} => m <= w2 + a2
  <2>0. /\ {n, m} \subseteq Int /\ {w1, w2, a1, a2, i1, i2, j1, j2} \subseteq Nat
        /\ w2 + i1 = w1 + i2 /\ a2 + j1 = a1 + j2
    BY <1>1, <1>3, <1>4
  <2>1. CASE m <= 0
    BY <2>0, <2>1
  <2>2. CASE (t \in ClosureSleepers' => t \in ClosureSleepers) /\ m + i1 + j1 <= n + i2 + j2
    <3>1. ClosureSleepers' # {} => ClosureSleepers # {}
      BY <2>2 DEF Steady
    <3>2. n <= w1 + a1 => m <= w2 + a2
      BY <2>0, <2>2
    <3>. QED
      BY <1>7, <3>1, <3>2
  <2>. QED
    BY <1>8, <2>1, <2>2
<1>. QED
  BY <1>1, <1>3, <1>4, <1>5, <1>6, <1>9, <1>10 DEF ClosuresMatched, Matched

\* A step of t keeps the matches it balances, and what the others know of their wakes.
LEMMA Moved ==
  ASSUME Inv, Inv', WakeInv, ~stopping, UNCHANGED <<stopping, queueClosed>>,
         NEW t \in Threads, Below(t), Keeps(t), StopPc' = StopPc,
         \A x \in Workers \ {t} : slot'[x] = slot[x],
         \A x \in Threads \ {t} : /\ Me(x) \in parked' <=> Me(x) \in parked
                                  /\ Me(x) \in permit => Me(x) \in permit',
         At(t, "unpark") /\ Top(t).kind = "wake" /\ Top(t).p # NoParker => Top(t).p \in permit',
         RunnableStep(t), ClosureStep(t), t \in Workers => Popped(t)' /\ Undoing(t)'
  PROVE  WakeInv'
<1>1. \A x \in Threads \ {t} : Alike(t, x)
  BY OtherViews DEF Inv
<1>2. Workers \subseteq Threads
  BY DEF Threads
<1>3. \A x \in Workers \ {t} : Registered(x)' <=> Registered(x)
  BY <1>1, <1>2 DEF Alike, Registered
<1>4. Steady(t)
  BY <1>1, <1>3, AlikeSteady
<1>5. IsFiniteSet(Waking)'
  <2>1. IsFiniteSet(Waking) /\ Waking' \ {t} = Waking \ {t}
    BY <1>4 DEF WakeInv, Steady
  <2>. QED
    BY <2>1, Changes
<1>6. RunnablesMatched' /\ ClosuresMatched'
  BY <1>4, RunnablesKept, ClosuresKept DEF Inv, WakeInv
<1>7. ASSUME NEW w \in Workers \ {t}
      PROVE  Popped(w)' /\ Undoing(w)'
  <2>1. Popped(w) /\ Undoing(w) /\ Alike(t, w) /\ slot'[w] = slot[w] /\ (Registered(w)' <=> Registered(w))
    BY <1>1, <1>2, <1>3 DEF WakeInv
  <2>2. Undoing(w)'
    BY <2>1 DEF Undoing, OnTop, Alike
  <2>3. ASSUME OnTop(w, {"runnable?", "blocking?", "park"})', ~Registered(w)'
        PROVE  Notified(w)'
    <3>1. Notified(w) /\ Busy(w) /\ Me(w)' = Me(w)
      BY <2>1, <2>3 DEF Popped, OnTop, Alike
    <3>2. CASE Me(w) \in permit
      BY <1>2, <3>1, <3>2 DEF Notified
    <3>3. ASSUME NEW y \in Threads, At(y, "unpark"), Top(y).kind = "wake", Top(y).p = Me(w)
          PROVE  Notified(w)'
      <4>1. CASE y = t
        <5>1. Me(w) # NoParker
          BY <1>2, <3>1, TopFacts DEF Me, NoParker, Inv
        <5>. QED
          BY <3>1, <3>3, <4>1, <5>1 DEF Notified
      <4>2. CASE y # t
        <5>1. Me(w) # Me(t)
          BY DEF Me
        <5>2. Top(y)'.p = Me(w)' /\ At(y, "unpark")' /\ Top(y)'.kind = "wake"
          BY <1>1, <3>1, <3>3, <4>2, <5>1 DEF Alike, At
        <5>. QED
          BY <5>2 DEF Notified
      <4>. QED
        BY <4>1, <4>2
    <3>. QED
      BY <3>1, <3>2, <3>3 DEF Notified
  <2>. QED
    BY <2>2, <2>3 DEF Popped
<1>. QED
  BY <1>5, <1>6, <1>7 DEF WakeInv

-----------------------------------------------------------------------------
(* The ways a stack changes, for a step that keeps the frames in order.    *)

LEMMA TurnsBy ==
  ASSUME Inv, Inv', NEW t \in Threads, Busy(t), NEW f, Rewrites(t, f)
  PROVE  Turns(t, f) /\ Keeps(t)
<1>. DEFINE S == FrameTypes \cup {f}
            r == WithTop(t, f)
<1>1. /\ stack[t] \in Seq(FrameTypes) /\ stack[t] # <<>> /\ Len(stack[t]) \in Nat \ {0}
  BY TopFacts DEF Inv
<1>2. stack[t] \in Seq(S) /\ f \in S
  BY <1>1
<1>. HIDE DEF S
<1>3. /\ Len(r) = Len(stack[t]) /\ r[Len(stack[t])] = f
      /\ \A i \in 1..Len(stack[t])-1 : r[i] = stack[t][i]
  BY <1>1, <1>2, ReplaceFacts DEF WithTop
<1>. HIDE DEF r
<1>4. stack'[t] = r /\ Put(t, r)
  BY PutFacts DEF Rewrites, Inv, r
<1>5. StackOK(t, r)
  BY <1>4 DEF Inv, Stacks
<1>6. Below(t)
  BY <1>3, <1>4, <1>5, BelowFacts DEF Inv
<1>. QED
  BY <1>1, <1>3, <1>4, <1>6, KeepsPut DEF Turns, Inv

LEMMA AddsBy ==
  ASSUME Inv, Inv', NEW t \in Threads, Busy(t), NEW f, NEW g, Calls2(t, f, g)
  PROVE  Adds(t, f, g) /\ Keeps(t)
<1>. DEFINE S == FrameTypes \cup {f, g}
            q == WithTop(t, f)
            r == Append(q, g)
<1>1. /\ stack[t] \in Seq(FrameTypes) /\ stack[t] # <<>> /\ Len(stack[t]) \in Nat \ {0}
  BY TopFacts DEF Inv
<1>2. stack[t] \in Seq(S) /\ f \in S /\ g \in S
  BY <1>1
<1>. HIDE DEF S
<1>3. /\ q \in Seq(S) /\ Len(q) = Len(stack[t]) /\ q[Len(stack[t])] = f
      /\ \A i \in 1..Len(stack[t])-1 : q[i] = stack[t][i]
  BY <1>1, <1>2, ReplaceFacts DEF WithTop
<1>. HIDE DEF q
<1>4. /\ Len(r) = Len(stack[t]) + 1 /\ r[Len(stack[t]) + 1] = g
      /\ \A i \in 1..Len(stack[t]) : r[i] = q[i]
  BY <1>2, <1>3, AppendProperties
<1>. HIDE DEF r
<1>5. stack'[t] = r /\ Put(t, r)
  BY PutFacts DEF Calls2, Inv, r, q
<1>6. StackOK(t, r)
  BY <1>5 DEF Inv, Stacks
<1>7. /\ r[Len(stack[t])] = f /\ \A i \in 1..Len(stack[t])-1 : r[i] = stack[t][i]
  BY <1>1, <1>3, <1>4
<1>8. Below(t)
  BY <1>5, <1>6, <1>7, BelowFacts DEF Inv
<1>. QED
  BY <1>1, <1>4, <1>5, <1>7, <1>8, KeepsPut DEF Adds, Inv

LEMMA DropsBy ==
  ASSUME Inv, Inv', NEW t \in Threads, Busy(t), Pops(t)
  PROVE  Drops(t) /\ Keeps(t)
<1>1. /\ stack[t] \in Seq(FrameTypes) /\ stack[t] # <<>> /\ Len(stack[t]) \in Nat \ {0}
  BY TopFacts DEF Inv
<1>2. stack'[t] = Front(stack[t]) /\ Put(t, Front(stack[t]))
  BY PutFacts DEF Pops, Inv
<1>3. /\ Len(Front(stack[t])) = Len(stack[t]) - 1
      /\ \A i \in 1..Len(stack[t])-1 : Front(stack[t])[i] = stack[t][i]
  BY <1>1, FrontFacts
<1>4. StackOK(t, Front(stack[t]))
  BY <1>2 DEF Inv, Stacks
<1>5. Below(t)
  BY <1>2, <1>3, <1>4, BelowFacts DEF Inv
<1>. QED
  BY <1>1, <1>2, <1>3, <1>5, KeepsPut DEF Drops, Inv

LEMMA ErasesBy ==
  ASSUME Inv, NEW t \in Threads, Busy(t), Top(t).kind \in ParkingKinds, stack' = WithoutTop(t)
  PROVE  Drops(t) /\ Keeps(t)
  BY EraseForm, KeepsErase DEF Inv

LEMMA MyIdleNext ==
  ASSUME Inv', NEW t \in Threads, Busy(t)', Top(t)'.pc \notin Idling
  PROVE  ~Registered(t)'
<1>1. stack'[t] \in Seq(FrameTypes) /\ stack'[t] # <<>>
  BY DEF Inv, Stacks, StackOK, Busy
<1>2. /\ Len(stack'[t]) \in Nat \ {0} /\ Top(t)' = stack'[t][Len(stack'[t])]
      /\ Me(t)' = <<t, Len(stack'[t])>>
  BY <1>1, FrontFacts DEF Top, Me
<1>3. Me(t)' \in Spots(IdleMarks)' => Mark(Top(t)') \in IdleMarks
  BY <1>2, SpotsAreNext
<1>. QED
  BY <1>3 DEF Inv, ParkerInv, Mark, IdleMarks, Registered

\* In which of the sets a thread is, by its frames.
LEMMA Seen ==
  ASSUME NEW t \in Workers, Busy(t)
  PROVE  /\ t \in RunnableTakers <=> ForRunnable(Top(t)) /\ slot[t] = NoUnit /\ ~Registered(t)
         /\ t \in RunnableSleepers <=> OnTop(t, {"blocking?", "park"}) /\ Registered(t)
         /\ t \in RunnableExits <=> OnTop(t, {"residue?", "ensure"})
         /\ t \in ClosureTakers <=> ForClosure(Under(t)) /\ ~Registered(t)
         /\ t \in ClosureSleepers <=> OnTop(t, {"park"}) /\ Registered(t)
         /\ t \in ClosureExits <=> OnTop(t, {"residue?", "jobs?", "ensure"})
         /\ t \in ClosureTakers \cup Vacant <=> t \in ClosureTakers \/ OnTop(t, Retired)
  BY DEF RunnableTakers, RunnableSleepers, RunnableExits, ClosureTakers, ClosureSleepers, ClosureExits, Vacant
LEMMA SeenNext ==
  ASSUME NEW t \in Workers, Busy(t)'
  PROVE  /\ t \in RunnableTakers' <=> ForRunnable(Top(t)') /\ slot'[t] = NoUnit /\ ~Registered(t)'
         /\ t \in RunnableSleepers' <=> OnTop(t, {"blocking?", "park"})' /\ Registered(t)'
         /\ t \in RunnableExits' <=> OnTop(t, {"residue?", "ensure"})'
         /\ t \in ClosureTakers' <=> ForClosure(Under(t)') /\ ~Registered(t)'
         /\ t \in ClosureSleepers' <=> OnTop(t, {"park"})' /\ Registered(t)'
         /\ t \in ClosureExits' <=> OnTop(t, {"residue?", "jobs?", "ensure"})'
         /\ t \in (ClosureTakers \cup Vacant)' <=> t \in ClosureTakers' \/ OnTop(t, Retired)'
<1>. QED
  BY DEF RunnableTakers, RunnableSleepers, RunnableExits, ClosureTakers, ClosureSleepers, ClosureExits,
         Vacant, ForRunnable, ForClosure
LEMMA Unseen ==
  ASSUME NEW t, t \notin Workers
  PROVE  /\ t \notin RunnableTakers /\ t \notin RunnableSleepers /\ t \notin RunnableExits
         /\ t \notin ClosureTakers /\ t \notin ClosureSleepers /\ t \notin ClosureExits
         /\ t \notin ClosureTakers \cup Vacant
         /\ t \notin RunnableTakers' /\ t \notin RunnableSleepers' /\ t \notin RunnableExits'
         /\ t \notin ClosureTakers' /\ t \notin ClosureSleepers' /\ t \notin ClosureExits'
         /\ t \notin (ClosureTakers \cup Vacant)'
  BY DEF RunnableTakers, RunnableSleepers, RunnableExits, ClosureTakers, ClosureSleepers, ClosureExits, Vacant
LEMMA Wakes ==
  ASSUME NEW t \in Threads
  PROVE  /\ t \in Waking <=> Busy(t) /\ Top(t).kind = "wake" /\ Top(t).pc = "wake"
         /\ t \in Waking' <=> Busy(t)' /\ Top(t)'.kind = "wake" /\ Top(t)'.pc = "wake"
  BY DEF Waking

\* A step after which t is in no fewer of the sets, and which moves no queue and
\* no counter, keeps a match; one that finds its queue empty keeps it anyway.
LEMMA CalmSteps ==
  ASSUME Inv, Inv', NEW t, UNCHANGED <<drains, activeDrainers>>, t \in Waking => t \in Waking',
         \/ injector' = <<>>
         \/ /\ injector' = injector /\ (t \in RunnableSleepers' => t \in RunnableSleepers)
            /\ t \in RunnableTakers => t \in RunnableTakers'
            /\ t \in RunnableExits => t \in RunnableExits',
         \/ Claimable' <= 0
         \/ /\ Claimable' = Claimable /\ (t \in ClosureSleepers' => t \in ClosureSleepers)
            /\ t \in ClosureTakers => t \in ClosureTakers'
            /\ t \in ClosureTakers \cup Vacant => t \in (ClosureTakers \cup Vacant)'
            /\ t \in ClosureExits => t \in ClosureExits'
  PROVE  RunnableStep(t) /\ ClosureStep(t)
<1>1. /\ Len(injector) \in Nat /\ Claimable \in Int /\ drains \in Nat /\ activeDrainers \in Nat
      /\ Len(injector') \in Nat /\ Claimable' \in Int
  BY CountTypes, CountTypesNext DEF Inv
<1>2. \A a, b : (a => b) => One(a) \in Nat /\ One(b) \in Nat /\ One(a) <= One(b)
  BY DEF One
<1>3. One(t \in Waking) \in Nat /\ One(t \in Waking') \in Nat /\ One(t \in Waking) <= One(t \in Waking')
  BY DEF One
<1>4. RunnableStep(t)
  <2>1. CASE injector' = <<>>
    BY <2>1, EmptySeq DEF RunnableStep
  <2>2. CASE injector' # <<>>
    <3>1. /\ One(t \in RunnableTakers) \in Nat /\ One(t \in RunnableTakers') \in Nat
          /\ One(t \in RunnableTakers) <= One(t \in RunnableTakers')
          /\ One(t \in RunnableExits) \in Nat /\ One(t \in RunnableExits') \in Nat
          /\ One(t \in RunnableExits) <= One(t \in RunnableExits')
      BY <2>2 DEF One
    <3>2. injector' = injector /\ drains' = drains /\ activeDrainers' = activeDrainers
      BY <2>2
    <3>3. Len(injector') + One(t \in Waking) + One(t \in RunnableTakers)
            <= Len(injector) + One(t \in Waking') + One(t \in RunnableTakers')
      BY <1>1, <1>3, <3>1, <3>2, SMTT(30)
    <3>4. Len(injector') + One(t \in Waking) + One(t \in RunnableTakers) + drains
            + One(t \in RunnableExits)
            <= Len(injector) + One(t \in Waking') + One(t \in RunnableTakers') + drains'
                 + One(t \in RunnableExits')
      BY <1>1, <1>3, <3>1, <3>2, SMTT(30)
    <3>5. activeDrainers + One(t \in RunnableExits) <= activeDrainers' + One(t \in RunnableExits')
      BY <1>1, <3>1, <3>2
    <3>. QED
      BY <2>2, <3>3, <3>4, <3>5 DEF RunnableStep
  <2>. QED
    BY <2>1, <2>2
<1>5. ClosureStep(t)
  <2>1. CASE Claimable' <= 0
    BY <2>1 DEF ClosureStep
  <2>2. CASE ~(Claimable' <= 0)
    <3>1. /\ One(t \in ClosureTakers) \in Nat /\ One(t \in ClosureTakers') \in Nat
          /\ One(t \in ClosureTakers) <= One(t \in ClosureTakers')
          /\ One(t \in ClosureExits) \in Nat /\ One(t \in ClosureExits') \in Nat
          /\ One(t \in ClosureExits) <= One(t \in ClosureExits')
      BY <2>2 DEF One
    <3>2. /\ One(t \in ClosureTakers \cup Vacant) \in Nat /\ One(t \in (ClosureTakers \cup Vacant)') \in Nat
          /\ One(t \in ClosureTakers \cup Vacant) <= One(t \in (ClosureTakers \cup Vacant)')
      BY <2>2 DEF One
    <3>3. Claimable' + One(t \in Waking) + One(t \in ClosureTakers \cup Vacant)
            <= Claimable + One(t \in Waking') + One(t \in (ClosureTakers \cup Vacant)')
      BY <1>1, <1>3, <2>2, <3>2
    <3>4. Claimable' = Claimable /\ drains' = drains /\ activeDrainers' = activeDrainers
      BY <2>2
    <3>5. Claimable' + One(t \in Waking) + One(t \in ClosureTakers) + drains + One(t \in ClosureExits)
            <= Claimable + One(t \in Waking') + One(t \in ClosureTakers') + drains'
                 + One(t \in ClosureExits')
      BY <1>1, <1>3, <3>1, <3>4, SMTT(30)
    <3>6. activeDrainers + One(t \in ClosureExits) <= activeDrainers' + One(t \in ClosureExits')
      BY <1>1, <3>1, <3>4
    <3>. QED
      BY <2>2, <3>3, <3>5, <3>6 DEF ClosureStep
  <2>. QED
    BY <2>1, <2>2
<1>. QED
  BY <1>4, <1>5

-----------------------------------------------------------------------------
(* Drivers that move on.                                                   *)

LEMMA DriverPlace ==
  ASSUME Inv, NEW t \in Threads, Busy(t), Top(t).kind \in DriverKinds
  PROVE  /\ t \in Workers /\ t # Stopper /\ Top(t) \in FrameTypes /\ Under(t) = Top(t)
         /\ Top(t).pc # "unpark" /\ ~At(t, "unpark")
         /\ Top(t).pc \notin Idling => ~Registered(t)
         /\ Top(t).pc \in QuietPcs => slot[t] = NoUnit
<1>1. FrameOK(t, Top(t))
  BY TopFacts DEF Inv
<1>2. /\ t \in Workers /\ Top(t) \in FrameTypes /\ Top(t).pc \in DrainPcs \cup CoopPcs
  BY <1>1 DEF FrameOK, DriverKinds
<1>3. t # Stopper
  BY <1>2, SchedulerAssumption
<1>4. Top(t).pc # "unpark"
  BY <1>2 DEF DrainPcs, CoopPcs, Retired, Leaving
<1>5. Top(t).pc \notin Idling => ~Registered(t)
  BY MyIdle DEF Registered
<1>6. Top(t).pc \in QuietPcs => slot[t] = NoUnit
  BY <1>2, QuietTop DEF Quiet
<1>. QED
  BY <1>2, <1>3, <1>4, <1>5, <1>6 DEF Under, At, DriverKinds

LEMMA SameClaimable ==
  ASSUME UNCHANGED <<blockingQueue, activeBlocking>>
  PROVE  Claimable' = Claimable
  BY DEF Claimable

LEMMA DriverCalm ==
  ASSUME Inv, Inv', WakeInv, ~stopping, NEW t \in Threads, Busy(t), Top(t).kind \in DriverKinds,
         NEW f, Rewrites(t, f), f.kind = Top(t).kind,
         UNCHANGED <<queues, counts, stopping, queueClosed>>,
         \A x : x # Me(t) => /\ x \in parked' <=> x \in parked
                             /\ x \in permit => x \in permit',
         \/ injector = <<>>
         \/ /\ ForRunnable(Top(t)) /\ ~Registered(t) /\ slot[t] = NoUnit
               => ForRunnable(f) /\ ~Registered(t)'
            /\ Top(t).pc \in {"residue?", "ensure"} => f.pc \in {"residue?", "ensure"}
            /\ f.pc \in {"blocking?", "park"} /\ Registered(t)'
               => Top(t).pc \in {"blocking?", "park"} /\ Registered(t),
         \/ ~BlockingReady
         \/ /\ ForClosure(Top(t)) /\ ~Registered(t) => ForClosure(f) /\ ~Registered(t)'
            /\ Top(t).pc \in {"residue?", "jobs?", "ensure"} => f.pc \in {"residue?", "jobs?", "ensure"}
            /\ Top(t).pc = "notify" => f.pc = "notify"
            /\ f.pc = "park" /\ Registered(t)' => Top(t).pc = "park" /\ Registered(t),
         f.pc \in {"runnable?", "blocking?", "park"} /\ ~Registered(t)'
           => /\ Top(t).pc \in {"runnable?", "blocking?", "park"} /\ ~Registered(t)
              /\ permit' = permit,
         f.pc = "undo" => slot[t] = NoUnit,
         f.pc # "quit", f.pc = "leave" => ~Registered(t)'
  PROVE  WakeInv'
<1>1. /\ t \in Workers /\ t # Stopper /\ Top(t) \in FrameTypes /\ Under(t) = Top(t)
      /\ ~At(t, "unpark")
  BY DriverPlace
<1>2. /\ Turns(t, f) /\ Keeps(t) /\ Below(t)
  BY TurnsBy DEF Turns
<1>3. Busy(t)' /\ Top(t)' = f
  BY <1>2, TurnTop
<1>4. Under(t)' = f
  BY <1>3 DEF Under, DriverKinds
<1>5. Me(t)' = Me(t)
  BY <1>2 DEF Turns, Me
<1>6. StopPc' = StopPc
  BY <1>1, <1>2, StopPcKept DEF Inv
<1>7. t \notin Waking /\ slot' = slot
  BY Wakes DEF DriverKinds, queues
<1>8. ~BlockingReady => Claimable' <= 0
  <2>1. Claimable' = Claimable
    BY SameClaimable DEF queues, counts
  <2>. QED
    BY <2>1, CountTypes DEF Inv
<1>9. Claimable' = Claimable
  BY SameClaimable DEF queues, counts
<1>10. \/ injector' = <<>>
       \/ /\ injector' = injector /\ (t \in RunnableSleepers' => t \in RunnableSleepers)
          /\ t \in RunnableTakers => t \in RunnableTakers'
          /\ t \in RunnableExits => t \in RunnableExits'
  <2>1. injector' = injector
    BY DEF queues
  <2>2. CASE injector # <<>>
    <3>1. t \in RunnableSleepers' => t \in RunnableSleepers
      BY <1>1, <1>3, <2>2, Seen, SeenNext DEF OnTop
    <3>2. t \in RunnableTakers => t \in RunnableTakers'
      BY <1>1, <1>3, <1>7, <2>2, Seen, SeenNext
    <3>3. t \in RunnableExits => t \in RunnableExits'
      BY <1>1, <1>3, <2>2, Seen, SeenNext DEF OnTop
    <3>. QED
      BY <2>1, <3>1, <3>2, <3>3
  <2>. QED
    BY <2>1, <2>2
<1>11. \/ Claimable' <= 0
       \/ /\ Claimable' = Claimable /\ (t \in ClosureSleepers' => t \in ClosureSleepers)
          /\ t \in ClosureTakers => t \in ClosureTakers'
          /\ t \in ClosureTakers \cup Vacant => t \in (ClosureTakers \cup Vacant)'
          /\ t \in ClosureExits => t \in ClosureExits'
  <2>2. CASE BlockingReady
    <3>1. t \in ClosureSleepers' => t \in ClosureSleepers
      BY <1>1, <1>3, <2>2, Seen, SeenNext DEF OnTop
    <3>2. t \in ClosureTakers => t \in ClosureTakers'
      BY <1>1, <1>3, <1>4, <2>2, Seen, SeenNext
    <3>3. t \in ClosureExits => t \in ClosureExits'
      BY <1>1, <1>3, <2>2, Seen, SeenNext DEF OnTop
    <3>4. OnTop(t, Retired) => OnTop(t, Retired)'
      BY <1>1, <1>3, <2>2 DEF OnTop, Retired
    <3>5. t \in ClosureTakers \cup Vacant => t \in (ClosureTakers \cup Vacant)'
      BY <1>1, <1>3, <3>2, <3>4, Seen, SeenNext
    <3>. QED
      BY <1>9, <3>1, <3>2, <3>3, <3>5
  <2>. QED
    BY <1>8, <2>2
<1>12. RunnableStep(t) /\ ClosureStep(t)
  BY <1>7, <1>10, <1>11, CalmSteps DEF counts
<1>13. Popped(t)'
  <2>1. ASSUME f.pc \in {"runnable?", "blocking?", "park"}, ~Registered(t)'
        PROVE  Notified(t)'
    <3>1. Notified(t) /\ permit' = permit
      BY <1>1, <2>1 DEF WakeInv, Popped, OnTop
    <3>2. \A y \in Threads \ {t} : stack'[y] = stack[y]
      BY PutFacts DEF Rewrites, Inv
    <3>. QED
      BY <1>1, <1>5, <3>1, <3>2 DEF Notified, At, Top, Busy
  <2>. QED
    BY <1>3, <2>1 DEF Popped, OnTop
<1>14. Undoing(t)'
  BY <1>3, <1>7 DEF Undoing, OnTop
<1>15. \A x \in Threads \ {t} : Me(x) # Me(t)
  BY DEF Me
<1>. QED
  BY <1>1, <1>2, <1>6, <1>7, <1>12, <1>13, <1>14, <1>15, Moved

LEMMA GoCalm ==
  ASSUME Inv, Inv', WakeInv, ~stopping, NEW t \in Threads, NEW from, Driving(t, from),
         NEW to, Go(t, to), UNCHANGED <<queues, counts, parkers, stops>>,
         \/ injector = <<>>
         \/ /\ from \in Awake => to \in Awake
            /\ from \in LoopPcs => to \in LoopPcs \cup Awake
            /\ from \in {"residue?", "ensure"} => to \in {"residue?", "ensure"}
            /\ to \in {"blocking?", "park"} => from \in {"blocking?", "park"},
         \/ ~BlockingReady
         \/ /\ from \in ClosurePcs => to \in ClosurePcs
            /\ from \in {"residue?", "jobs?", "ensure"} => to \in {"residue?", "jobs?", "ensure"}
            /\ from # "notify" /\ to # "park",
         to \in {"runnable?", "blocking?", "park"} => from \in {"runnable?", "blocking?", "park"},
         to = "undo" => from \in QuietPcs,
         to # "quit", to = "leave" => from \notin Idling
  PROVE  WakeInv'
<1>1. /\ Busy(t) /\ Top(t).kind \in DriverKinds /\ Top(t).pc = from
  BY DEF Driving, At
<1>2. /\ Top(t) \in FrameTypes
      /\ from \notin Idling => ~Registered(t)
      /\ from \in QuietPcs => slot[t] = NoUnit
  BY <1>1, DriverPlace
<1>3. PICK f : f = [Top(t) EXCEPT !.pc = to]
  OBVIOUS
<1>4. f.kind = Top(t).kind /\ f.pc = to /\ f.streak = Top(t).streak
  BY <1>2, <1>3 DEF FrameTypes
<1>5. Rewrites(t, f)
  BY <1>3 DEF Go, Rewrites
<1>6. Me(t)' = Me(t)
  BY <1>1, <1>5, TurnsBy DEF Turns, Me
<1>7. UNCHANGED <<parked, permit, stopping, queueClosed>> /\ (Registered(t)' <=> Registered(t))
  BY <1>6 DEF parkers, stops, Registered
<1>8. \/ injector = <<>>
      \/ /\ ForRunnable(Top(t)) /\ ~Registered(t) /\ slot[t] = NoUnit
            => ForRunnable(f) /\ ~Registered(t)'
         /\ Top(t).pc \in {"residue?", "ensure"} => f.pc \in {"residue?", "ensure"}
         /\ f.pc \in {"blocking?", "park"} /\ Registered(t)'
            => Top(t).pc \in {"blocking?", "park"} /\ Registered(t)
  BY <1>1, <1>4, <1>7 DEF ForRunnable
<1>9. \/ ~BlockingReady
      \/ /\ ForClosure(Top(t)) /\ ~Registered(t) => ForClosure(f) /\ ~Registered(t)'
         /\ Top(t).pc \in {"residue?", "jobs?", "ensure"} => f.pc \in {"residue?", "jobs?", "ensure"}
         /\ Top(t).pc = "notify" => f.pc = "notify"
         /\ f.pc = "park" /\ Registered(t)' => Top(t).pc = "park" /\ Registered(t)
  BY <1>1, <1>4, <1>7 DEF ForClosure
<1>10. /\ f.pc \in {"runnable?", "blocking?", "park"} /\ ~Registered(t)'
          => /\ Top(t).pc \in {"runnable?", "blocking?", "park"} /\ ~Registered(t)
             /\ permit' = permit
       /\ f.pc = "undo" => slot[t] = NoUnit
       /\ f.pc # "quit" /\ (f.pc = "leave" => ~Registered(t)')
  BY <1>1, <1>2, <1>4, <1>7
<1>11. UNCHANGED <<queues, counts, stopping, queueClosed>>
  BY <1>7
<1>12. \A x : x # Me(t) => (x \in parked' <=> x \in parked) /\ (x \in permit => x \in permit')
  BY <1>7
<1>. QED
  BY <1>1, <1>4, <1>5, <1>8, <1>9, <1>10, <1>11, <1>12, DriverCalm

LEMMA SimpleMatched ==
  ASSUME Inv, Inv', WakeInv, ~stopping, NEW t \in Threads,
         LingerEnds(t) \/ GoIdle(t) \/ Recheck(t) \/ LingerExpires(t) \/ Residue(t)
  PROVE  WakeInv'
<1>1. CASE LingerEnds(t)
  BY <1>1, GoCalm DEF LingerEnds, Awake, LoopPcs, ClosurePcs, Idling
<1>2. CASE GoIdle(t)
  BY <1>2, GoCalm DEF GoIdle, Awake, LoopPcs, ClosurePcs, Idling
<1>3. CASE Recheck(t)
  <2>1. UNCHANGED <<queues, counts, parkers, stops>>
    BY <1>3 DEF Recheck
  <2>2. CASE Driving(t, "runnable?") /\ injector # <<>>
    <3>1. Go(t, "undo")
      BY <1>3, <2>2 DEF Recheck, Driving, At
    <3>. QED
      BY <2>1, <2>2, <3>1, GoCalm DEF Awake, LoopPcs, ClosurePcs, Idling, QuietPcs
  <2>3. CASE Driving(t, "runnable?") /\ injector = <<>>
    <3>1. Go(t, "blocking?")
      BY <1>3, <2>3 DEF Recheck, Driving, At
    <3>. QED
      BY <2>1, <2>3, <3>1, GoCalm DEF Awake, LoopPcs, ClosurePcs, Idling
  <2>4. CASE Driving(t, "blocking?") /\ BlockingReady
    <3>1. Go(t, "undo")
      BY <1>3, <2>4 DEF Recheck, Driving, At
    <3>. QED
      BY <2>1, <2>4, <3>1, GoCalm DEF Awake, LoopPcs, ClosurePcs, Idling, QuietPcs
  <2>5. CASE Driving(t, "blocking?") /\ ~BlockingReady
    <3>1. Go(t, "park")
      BY <1>3, <2>5 DEF Recheck, Driving, At
    <3>. QED
      BY <2>1, <2>5, <3>1, GoCalm DEF Awake, LoopPcs, ClosurePcs, Idling
  <2>. QED
    BY <1>3, <2>2, <2>3, <2>4, <2>5 DEF Recheck
<1>4. CASE LingerExpires(t)
  BY <1>4, GoCalm DEF LingerExpires, Awake, LoopPcs, ClosurePcs, Idling
<1>5. CASE Residue(t)
  <2>1. UNCHANGED <<queues, counts, parkers, stops>>
    BY <1>5 DEF Residue
  <2>2. CASE Driving(t, "residue?") /\ injector # <<>>
    <3>1. Go(t, "ensure")
      BY <1>5, <2>2 DEF Residue, Driving, At
    <3>. QED
      BY <2>1, <2>2, <3>1, GoCalm DEF Awake, LoopPcs, ClosurePcs, Idling
  <2>3. CASE Driving(t, "residue?") /\ injector = <<>>
    <3>1. Go(t, "jobs?")
      BY <1>5, <2>3 DEF Residue, Driving, At
    <3>. QED
      BY <2>1, <2>3, <3>1, GoCalm DEF Awake, LoopPcs, ClosurePcs, Idling
  <2>4. CASE Driving(t, "jobs?") /\ BlockingReady
    <3>1. Go(t, "ensure")
      BY <1>5, <2>4 DEF Residue, Driving, At
    <3>. QED
      BY <2>1, <2>4, <3>1, GoCalm DEF Awake, LoopPcs, ClosurePcs, Idling
  <2>5. CASE Driving(t, "jobs?") /\ ~BlockingReady
    <3>1. Go(t, "notify")
      BY <1>5, <2>5 DEF Residue, Driving, At
    <3>. QED
      BY <2>1, <2>5, <3>1, GoCalm DEF Awake, LoopPcs, ClosurePcs, Idling
  <2>. QED
    BY <1>5, <2>2, <2>3, <2>4, <2>5 DEF Residue
<1>. QED
  BY <1>1, <1>2, <1>3, <1>4, <1>5

LEMMA Parking ==
  ASSUME Inv, Inv', WakeInv, ~stopping, NEW t \in Threads, Park(t) \/ Register(t) \/ AfterExpiry(t)
  PROVE  WakeInv'
<1>1. CASE Park(t)
  <2>1. PICK f : f = [Top(t) EXCEPT !.pc = "undo"]
    OBVIOUS
  <2>2. /\ Busy(t) /\ Top(t).kind \in DriverKinds /\ Top(t).pc = "park" /\ Rewrites(t, f)
    BY <1>1, <2>1 DEF Park, Driving, At, Go, Rewrites
  <2>3. Top(t) \in FrameTypes /\ slot[t] = NoUnit
    BY <2>2, DriverPlace DEF QuietPcs
  <2>4. f.kind = Top(t).kind /\ f.pc = "undo"
    BY <2>1, <2>3 DEF FrameTypes
  <2>5. Me(t)' = Me(t)
    BY <2>2, TurnsBy DEF Turns, Me
  <2>6. /\ UNCHANGED <<queues, counts, stopping, queueClosed, parked>> /\ permit' = permit \ {Me(t)}
        /\ (Registered(t)' <=> Registered(t))
    BY <1>1, <2>5 DEF Park, stops, Registered
  <2>7. ForRunnable(f) /\ ForClosure(f)
    BY <2>2, <2>4 DEF ForRunnable, ForClosure, ClosurePcs, Awake, Idling
  <2>. QED
    BY <2>2, <2>3, <2>4, <2>6, <2>7, DriverCalm
<1>2. CASE Register(t)
  <2>1. PICK b \in BOOLEAN : Rewrites(t, [Top(t) EXCEPT !.pc = "runnable?", !.force = b])
    <3>1. Busy(t) /\ Top(t).kind \in DriverKinds
      BY <1>2 DEF Register, Driving, At
    <3>2. Top(t) \in FrameTypes
      BY <3>1, DriverPlace
    <3>3. [Top(t) EXCEPT !.pc = "runnable?"] = [Top(t) EXCEPT !.pc = "runnable?", !.force = Top(t).force]
      BY <3>2 DEF FrameTypes
    <3>4. Top(t).force \in BOOLEAN
      BY <3>2 DEF FrameTypes
    <3>. QED
      BY <1>2, <3>3, <3>4 DEF Register, Rewrites, Go
  <2>2. PICK f : f = [Top(t) EXCEPT !.pc = "runnable?", !.force = b]
    OBVIOUS
  <2>3. /\ Busy(t) /\ Top(t).kind \in DriverKinds /\ Top(t).pc = "register" /\ Rewrites(t, f)
    BY <1>2, <2>1, <2>2 DEF Register, Driving, At
  <2>4. Top(t) \in FrameTypes
    BY <2>3, DriverPlace
  <2>5. f.kind = Top(t).kind /\ f.pc = "runnable?"
    BY <2>2, <2>4 DEF FrameTypes
  <2>6. Me(t)' = Me(t)
    BY <2>3, TurnsBy DEF Turns, Me
  <2>7. /\ UNCHANGED <<queues, counts, stopping, queueClosed>> /\ parked' = parked \cup {Me(t)}
        /\ permit \subseteq permit' /\ Registered(t)'
    BY <1>2, <2>6 DEF Register, Registered
  <2>8. ~ForRunnable(Top(t)) /\ ~ForClosure(Top(t))
    BY <2>3 DEF ForRunnable, ForClosure, ClosurePcs, LoopPcs, Awake, Idling, DriverKinds
  <2>. QED
    BY <2>3, <2>5, <2>7, <2>8, DriverCalm
<1>3. CASE AfterExpiry(t)
  <2>1. /\ Busy(t) /\ Top(t).kind \in DriverKinds /\ Top(t).pc = "permit?"
    BY <1>3 DEF AfterExpiry, Driving, At
  <2>2. Top(t) \in FrameTypes /\ ~Registered(t) /\ slot[t] = NoUnit
    BY <2>1, DriverPlace DEF Idling, QuietPcs
  <2>3. /\ UNCHANGED <<queues, counts, stopping, queueClosed, parked>> /\ permit' = permit \ {Me(t)}
    BY <1>3 DEF AfterExpiry, stops
  <2>4. CASE Put(t, WithTop(t, Restarted(Top(t))))
    <3>1. PICK f : f = Restarted(Top(t))
      OBVIOUS
    <3>2. f.kind = Top(t).kind /\ f.pc \in {"fair", "top"} /\ f.streak = 0
      BY <2>2, <3>1 DEF FrameTypes, Restarted
    <3>3. Rewrites(t, f)
      BY <2>4, <3>1 DEF Rewrites
    <3>4. Me(t)' = Me(t)
      BY <2>1, <3>3, TurnsBy DEF Turns, Me
    <3>5. ~Registered(t)'
      BY <2>2, <2>3, <3>4 DEF Registered
    <3>6. ForRunnable(f) /\ ForClosure(f)
      BY <2>1, <3>2, SchedulerAssumption DEF ForRunnable, ForClosure, ClosurePcs, LoopPcs
    <3>. QED
      BY <2>1, <2>2, <2>3, <3>2, <3>3, <3>5, <3>6, DriverCalm
  <2>5. CASE Go(t, "exit") /\ injector = <<>> /\ ~BlockingReady
    <3>1. PICK f : f = [Top(t) EXCEPT !.pc = "exit"]
      OBVIOUS
    <3>2. f.kind = Top(t).kind /\ f.pc = "exit"
      BY <2>2, <3>1 DEF FrameTypes
    <3>3. Rewrites(t, f)
      BY <2>5, <3>1 DEF Rewrites, Go
    <3>. QED
      BY <2>1, <2>2, <2>3, <2>5, <3>2, <3>3, DriverCalm
  <2>. QED
    BY <1>3, <2>4, <2>5 DEF AfterExpiry
<1>. QED
  BY <1>1, <1>2, <1>3

\* A driver that calls something: a wake, for what it can no longer take itself,
\* or a push.
LEMMA OneIs == ASSUME NEW b PROVE One(b) \in Nat /\ (b => One(b) = 1) /\ (~b => One(b) = 0) /\ One(b) <= 1
  BY DEF One

LEMMA DriverWakes ==
  ASSUME Inv, Inv', WakeInv, ~stopping, NEW t \in Threads, Busy(t), Top(t).kind \in DriverKinds,
         NEW f, NEW g, Calls2(t, f, g), f.kind = Top(t).kind, g.kind = "wake", g.pc \in {"push", "wake"},
         UNCHANGED <<injector, blockingQueue, counts, stopping, queueClosed, permit>>,
         \A x \in Workers \ {t} : slot'[x] = slot[x],
         \A x : x # Me(t) => (x \in parked' <=> x \in parked),
         Top(t).pc \notin Retired,
         \/ injector = <<>>
         \/ ForRunnable(Top(t)) /\ ~Registered(t) /\ slot[t] = NoUnit => g.pc = "wake",
         \/ ~BlockingReady
         \/ ForClosure(Top(t)) /\ ~Registered(t) => ForClosure(f) \/ g.pc = "wake"
  PROVE  WakeInv'
<1>1. /\ t \in Workers /\ t # Stopper /\ Under(t) = Top(t) /\ ~At(t, "unpark")
  BY DriverPlace
<1>2. /\ Adds(t, f, g) /\ Keeps(t) /\ Below(t)
  BY AddsBy DEF Adds
<1>3. Busy(t)' /\ Top(t)' = g
  BY <1>2, AddTop
<1>4. Under(t)' = f
  <2>1. Len(stack[t]) \in Nat /\ Len(stack'[t]) = Len(stack[t]) + 1 /\ stack'[t][Len(stack[t])] = f
    BY <1>2 DEF Adds
  <2>2. Len(stack'[t]) - 1 = Len(stack[t])
    BY <2>1
  <2>. QED
    BY <1>3, <2>1, <2>2 DEF Under
<1>5. ~Registered(t)'
  BY <1>3, MyIdleNext DEF Idling
<1>6. StopPc' = StopPc
  BY <1>1, <1>2, StopPcKept DEF Inv
<1>7. t \notin Waking /\ (t \in Waking' <=> g.pc = "wake")
  BY <1>3, Wakes DEF DriverKinds
<1>8. /\ ~OnTop(t, {"residue?", "ensure"}) /\ ~OnTop(t, {"residue?", "jobs?", "ensure"})
      /\ ~OnTop(t, Retired)
  BY DEF OnTop, Retired
<1>9. /\ ~OnTop(t, {"blocking?", "park"})' /\ ~OnTop(t, {"park"})'
      /\ ~OnTop(t, {"runnable?", "blocking?", "park"})'
      /\ ~OnTop(t, {"undo"})' /\ ~OnTop(t, {"quit"})' /\ ~OnTop(t, {"leave"})'
  BY <1>3 DEF OnTop, DriverKinds
<1>10. /\ Len(injector) \in Nat /\ Claimable \in Int /\ drains \in Nat /\ activeDrainers \in Nat
  BY CountTypes DEF Inv
<1>11. UNCHANGED <<injector, Claimable, drains, activeDrainers>>
  BY SameClaimable DEF counts
<1>12. RunnableStep(t)
  <2>1. CASE injector = <<>>
    BY <1>11, <2>1, EmptySeq DEF RunnableStep
  <2>2. CASE injector # <<>>
    <3>1. t \in RunnableTakers => t \in Waking'
      BY <1>1, <1>7, <2>2, Seen
    <3>2. t \notin RunnableSleepers' /\ t \notin RunnableExits
      BY <1>1, <1>3, <1>8, <1>9, Seen, SeenNext
    <3>3. One(t \in Waking) = 0 /\ One(t \in RunnableExits) = 0
      BY <1>7, <3>2, OneIs
    <3>4. /\ One(t \in RunnableTakers) \in Nat /\ One(t \in Waking') \in Nat
          /\ One(t \in RunnableTakers) <= One(t \in Waking')
          /\ One(t \in RunnableTakers') \in Nat /\ One(t \in RunnableExits') \in Nat
      BY <3>1 DEF One
    <3>. QED
      BY <1>10, <1>11, <3>2, <3>3, <3>4 DEF RunnableStep
  <2>. QED
    BY <2>1, <2>2
<1>13. ClosureStep(t)
  <2>1. CASE ~BlockingReady
    BY <1>11, <2>1, CountTypes DEF ClosureStep, Inv
  <2>2. CASE BlockingReady
    <3>1. /\ t \in ClosureTakers => t \in Waking' \/ t \in ClosureTakers'
      BY <1>1, <1>3, <1>4, <1>5, <1>7, <2>2, Seen, SeenNext
    <3>2. /\ t \notin ClosureSleepers' /\ t \notin ClosureExits
          /\ t \in ClosureTakers \cup Vacant <=> t \in ClosureTakers
      BY <1>1, <1>3, <1>8, <1>9, Seen, SeenNext
    <3>3. One(t \in Waking) = 0 /\ One(t \in ClosureExits) = 0
      BY <1>7, <3>2, OneIs
    <3>4. /\ One(t \in ClosureTakers) \in Nat /\ One(t \in Waking') \in Nat
          /\ One(t \in ClosureTakers') \in Nat /\ One(t \in ClosureExits') \in Nat
          /\ One(t \in ClosureTakers) <= One(t \in Waking') + One(t \in ClosureTakers')
      BY <3>1 DEF One
    <3>5. /\ One(t \in ClosureTakers \cup Vacant) = One(t \in ClosureTakers)
          /\ One(t \in (ClosureTakers \cup Vacant)') \in Nat
          /\ One(t \in ClosureTakers') <= One(t \in (ClosureTakers \cup Vacant)')
      BY <3>2 DEF One
    <3>6. Claimable' + One(t \in Waking) + One(t \in ClosureTakers \cup Vacant)
            <= Claimable + One(t \in Waking') + One(t \in (ClosureTakers \cup Vacant)')
      BY <1>10, <1>11, <3>3, <3>4, <3>5
    <3>7. Claimable' + One(t \in Waking) + One(t \in ClosureTakers) + drains + One(t \in ClosureExits)
            <= Claimable + One(t \in Waking') + One(t \in ClosureTakers') + drains'
                 + One(t \in ClosureExits')
      BY <1>10, <1>11, <3>3, <3>4, SMTT(30)
    <3>8. activeDrainers + One(t \in ClosureExits) <= activeDrainers' + One(t \in ClosureExits')
      BY <1>10, <1>11, <3>3, <3>4
    <3>. QED
      BY <3>2, <3>6, <3>7, <3>8 DEF ClosureStep
  <2>. QED
    BY <2>1, <2>2
<1>14. Popped(t)' /\ Undoing(t)'
  BY <1>9 DEF Popped, Undoing
<1>15. \A x \in Threads \ {t} : Me(x) # Me(t)
  BY DEF Me
<1>. QED
  BY <1>1, <1>2, <1>6, <1>12, <1>13, <1>14, <1>15, Moved

LEMMA FlushMatched ==
  ASSUME Inv, Inv', WakeInv, ~stopping, NEW t \in Threads, Busy(t), Top(t).kind \in DriverKinds,
         NEW f, Flush(t, f), f.kind = Top(t).kind, f.pc \notin Idling,
         UNCHANGED <<injector, blockingQueue, counts, stopping, queueClosed, permit>>,
         \A x : x # Me(t) => (x \in parked' <=> x \in parked),
         Top(t).pc \notin Retired,
         injector = <<>> \/ (ForRunnable(Top(t)) /\ ~Registered(t) /\ slot[t] = NoUnit => ForRunnable(f)),
         ~BlockingReady \/ (ForClosure(Top(t)) /\ ~Registered(t) => ForClosure(f))
  PROVE  WakeInv'
<1>1. CASE slot[t] = NoUnit
  <2>1. Rewrites(t, f) /\ UNCHANGED queues
    BY <1>1 DEF Flush, Rewrites, queues
  <2>2. Busy(t)' /\ Top(t)' = f
    BY <2>1, TurnsBy, TurnTop
  <2>3. ~Registered(t)'
    BY <2>2, MyIdleNext
  <2>4. f.pc \notin {"runnable?", "blocking?", "park", "undo", "quit", "leave"}
    BY DEF Idling
  <2>5. Top(t).pc \notin {"residue?", "jobs?", "ensure", "notify"}
    BY DEF Retired
  <2>. QED
    BY <1>1, <2>1, <2>3, <2>4, <2>5, DriverCalm
<1>2. CASE slot[t] # NoUnit
  <2>1. PICK g : g = PushFrame(slot[t])
    OBVIOUS
  <2>2. g.kind = "wake" /\ g.pc = "push" /\ Calls2(t, f, g)
    BY <1>2, <2>1 DEF Flush, Calls2, PushFrame, Frame
  <2>3. \A x \in Workers \ {t} : slot'[x] = slot[x]
    BY <1>2 DEF Flush, Inv, DataTypes
  <2>. QED
    BY <1>2, <2>2, <2>3, DriverWakes
<1>. QED
  BY <1>1, <1>2

LEMMA FlushesMatched ==
  ASSUME Inv, Inv', WakeInv, ~stopping, NEW t \in Threads,
         \/ FlushBeforeExit(t) \/ Yield(t)
         \/ Driving(t, "block") /\ Block(t) /\ ~CanTakeBlocking
  PROVE  WakeInv'
<1>1. CASE FlushBeforeExit(t)
  <2>1. /\ Busy(t) /\ Top(t).kind \in DriverKinds /\ Top(t).pc = "exit" /\ Flush(t, Top(t))
        /\ UNCHANGED <<injector, blockingQueue, counts, stopping, queueClosed, permit, parked>>
    BY <1>1 DEF FlushBeforeExit, Driving, At, stops, parkers
  <2>2. PICK f : f = Top(t)
    OBVIOUS
  <2>3. Flush(t, f) /\ f.kind = Top(t).kind /\ f.pc = "exit"
    BY <2>1, <2>2
  <2>4. ~ForRunnable(Top(t)) /\ (ForClosure(Top(t)) => ForClosure(f))
    BY <2>1, <2>2 DEF ForRunnable, LoopPcs, Awake, Idling
  <2>. QED
    BY <2>1, <2>3, <2>4, FlushMatched DEF Idling, Retired
<1>2. CASE Yield(t)
  <2>1. PICK f : f = [Top(t) EXCEPT !.pc = "top", !.work = 0, !.force = TRUE]
    OBVIOUS
  <2>2. /\ Busy(t) /\ Top(t).kind \in DriverKinds /\ Top(t).pc = "yield" /\ Flush(t, f)
        /\ UNCHANGED <<injector, blockingQueue, counts, stopping, queueClosed, permit, parked>>
    BY <1>2, <2>1 DEF Yield, Driving, At, stops, parkers
  <2>3. Top(t) \in FrameTypes
    BY <2>2, DriverPlace
  <2>4. f.kind = Top(t).kind /\ f.pc = "top"
    BY <2>1, <2>3 DEF FrameTypes
  <2>5. ~ForRunnable(Top(t)) /\ ForClosure(f)
    BY <2>2, <2>4 DEF ForRunnable, ForClosure, ClosurePcs, LoopPcs, Awake, Idling
  <2>. QED
    BY <2>2, <2>4, <2>5, FlushMatched DEF Idling, Retired
<1>3. CASE Driving(t, "block") /\ Block(t) /\ ~CanTakeBlocking
  <2>1. PICK f : f = [Top(t) EXCEPT !.pc = IF IsDrain(t) THEN "idle" ELSE "register", !.streak = 0, !.work = 0]
    OBVIOUS
  <2>2. /\ Busy(t) /\ Top(t).kind \in DriverKinds /\ Top(t).pc = "block"
    BY <1>3 DEF Driving, At
  <2>3. /\ Flush(t, f)
        /\ UNCHANGED <<injector, blockingQueue, counts, stopping, queueClosed, permit, parked>>
    BY <1>3, <2>1 DEF Block, TakeBlocking, stops, parkers
  <2>4. Top(t) \in FrameTypes
    BY <2>2, DriverPlace
  <2>5. f.kind = Top(t).kind /\ f.pc \in {"idle", "register"}
    BY <2>1, <2>4 DEF FrameTypes
  <2>6. ~ForRunnable(Top(t)) /\ ~BlockingReady
    BY <1>3, <2>2 DEF ForRunnable, LoopPcs, Awake, Idling, CanTakeBlocking, WakeInv
  <2>. QED
    BY <2>2, <2>3, <2>5, <2>6, FlushMatched DEF Idling, Retired
<1>. QED
  BY <1>1, <1>2, <1>3

LEMMA DeregisterMatched ==
  ASSUME Inv, Inv', WakeInv, ~stopping, NEW t \in Threads, Deregister(t)
  PROVE  WakeInv'
<1>1. /\ parked' = parked \ {Me(t)}
      /\ UNCHANGED <<injector, blockingQueue, counts, stopping, queueClosed, permit>>
  BY DEF Deregister, stops
<1>2. /\ Busy(t) /\ Top(t).kind \in DriverKinds /\ Top(t).pc \in {"undo", "quit", "expired", "leave"}
  BY DEF Deregister, Driving, At
<1>3. /\ Top(t) \in FrameTypes /\ t \in Workers
      /\ Top(t).pc = "expired" => slot[t] = NoUnit
  BY <1>2, DriverPlace DEF QuietPcs
<1>4. Undoing(t)
  BY <1>3 DEF WakeInv
<1>5. CASE Top(t).pc = "undo"
  <2>1. PICK f : f = Restarted(Top(t))
    OBVIOUS
  <2>2. f.kind = Top(t).kind /\ f.pc \in {"fair", "top"} /\ f.streak = 0
    BY <1>3, <2>1 DEF FrameTypes, Restarted
  <2>3. Rewrites(t, f) /\ UNCHANGED queues
    BY <1>1, <1>5, <2>1 DEF Deregister, Rewrites, Driving, At, queues
  <2>4. Me(t)' = Me(t)
    BY <1>2, <2>3, TurnsBy DEF Turns, Me
  <2>5. ~Registered(t)'
    BY <1>1, <2>4 DEF Registered
  <2>6. ForRunnable(f) /\ ForClosure(f)
    BY <1>2, <2>2, SchedulerAssumption DEF ForRunnable, ForClosure, ClosurePcs, LoopPcs
  <2>. QED
    BY <1>1, <1>2, <1>5, <2>2, <2>3, <2>5, <2>6, DriverCalm
<1>6. CASE Top(t).pc = "expired"
  <2>1. PICK f : f = [Top(t) EXCEPT !.pc = "permit?"]
    OBVIOUS
  <2>2. f.kind = Top(t).kind /\ f.pc = "permit?"
    BY <1>3, <2>1 DEF FrameTypes
  <2>3. Rewrites(t, f) /\ UNCHANGED queues
    BY <1>1, <1>6, <2>1 DEF Deregister, Rewrites, Driving, At, queues, Go
  <2>4. Me(t)' = Me(t)
    BY <1>2, <2>3, TurnsBy DEF Turns, Me
  <2>5. ~Registered(t)'
    BY <1>1, <2>4 DEF Registered
  <2>6. ForRunnable(f) /\ ForClosure(f)
    BY <1>2, <2>2 DEF ForRunnable, ForClosure, ClosurePcs, Awake
  <2>. QED
    BY <1>1, <1>2, <1>6, <2>2, <2>3, <2>5, <2>6, DriverCalm
<1>7. CASE Top(t).pc = "leave"
  <2>1. PICK f : f = [Top(t) EXCEPT !.pc = "xrunnable"]
    OBVIOUS
  <2>2. f.kind = Top(t).kind /\ f.pc = "xrunnable"
    BY <1>3, <2>1 DEF FrameTypes
  <2>3. Flush(t, f)
    BY <1>1, <1>7, <2>1 DEF Deregister, Driving, At
  <2>4. ForRunnable(f) /\ ForClosure(f)
    BY <1>2, <2>2 DEF ForRunnable, ForClosure, ClosurePcs, Awake
  <2>. QED
    BY <1>1, <1>2, <1>7, <2>2, <2>3, <2>4, FlushMatched DEF Idling, Retired
<1>8. Top(t).pc # "quit"
  BY <1>2, <1>4 DEF Undoing, OnTop
<1>. QED
  BY <1>2, <1>5, <1>6, <1>7, <1>8

-----------------------------------------------------------------------------
(* Drivers that run something.                                             *)

\* A driver starts a closure, or a task.
LEMMA DriverCalls ==
  ASSUME Inv, Inv', WakeInv, ~stopping, NEW t \in Threads, Busy(t), Top(t).kind \in DriverKinds,
         NEW f, NEW g, Calls2(t, f, g), g.kind \in {"task", "job"}, Top(t).pc \notin Retired,
         UNCHANGED <<drains, activeDrainers, stopping, queueClosed, parked, permit>>,
         \A x \in Workers \ {t} : slot'[x] = slot[x],
         \/ injector' = <<>>
         \/ t \notin RunnableTakers /\ injector' = injector
         \/ Len(injector') = Len(injector) - 1,
         \/ Claimable' <= 0
         \/ Claimable' = Claimable /\ g.kind = "task"
         \/ Claimable' = Claimable - 1
  PROVE  WakeInv'
<1>1. /\ t \in Workers /\ t # Stopper /\ Under(t) = Top(t) /\ ~At(t, "unpark")
  BY DriverPlace
<1>2. /\ Adds(t, f, g) /\ Keeps(t) /\ Below(t)
  BY AddsBy DEF Adds
<1>3. Busy(t)' /\ Top(t)' = g /\ Under(t)' = g
  BY <1>2, AddTop DEF Under
<1>4. g.pc \notin Idling
  <2>1. FrameOK(t, g)
    <3>1. stack'[t][Len(stack'[t])] = g /\ Len(stack'[t]) \in 1..Len(stack'[t])
      BY <1>2 DEF Adds
    <3>. QED
      BY <3>1 DEF Inv, Stacks, StackOK
  <2>. QED
    BY <2>1 DEF FrameOK, Idling
<1>5. ~Registered(t)'
  BY <1>3, <1>4, MyIdleNext
<1>6. StopPc' = StopPc
  BY <1>1, <1>2, StopPcKept DEF Inv
<1>7. t \notin Waking /\ t \notin Waking'
  BY <1>3, Wakes DEF DriverKinds
<1>8. /\ ~OnTop(t, {"residue?", "ensure"}) /\ ~OnTop(t, {"residue?", "jobs?", "ensure"})
      /\ ~OnTop(t, Retired)
  BY DEF OnTop, Retired
<1>9. /\ ~OnTop(t, {"blocking?", "park"})' /\ ~OnTop(t, {"park"})'
      /\ ~OnTop(t, {"runnable?", "blocking?", "park"})'
      /\ ~OnTop(t, {"undo"})' /\ ~OnTop(t, {"quit"})' /\ ~OnTop(t, {"leave"})'
      /\ ~OnTop(t, {"residue?", "ensure"})' /\ ~OnTop(t, {"residue?", "jobs?", "ensure"})'
      /\ ~OnTop(t, Retired)'
  BY <1>3 DEF OnTop, DriverKinds
<1>10. /\ Len(injector) \in Nat /\ Claimable \in Int /\ drains \in Nat /\ activeDrainers \in Nat
       /\ Len(injector') \in Nat /\ Claimable' \in Int
  BY CountTypes, CountTypesNext DEF Inv
<1>11. ~ForRunnable(g) /\ (g.kind = "task" => ForClosure(g)) /\ (g.kind = "job" => ~ForClosure(g))
  BY DEF ForRunnable, ForClosure, DriverKinds
<1>12. /\ t \notin RunnableTakers' /\ t \notin RunnableSleepers' /\ t \notin RunnableExits
       /\ t \notin RunnableExits' /\ t \notin ClosureSleepers' /\ t \notin ClosureExits
       /\ t \notin ClosureExits' /\ (t \in ClosureTakers \cup Vacant <=> t \in ClosureTakers)
       /\ (t \in (ClosureTakers \cup Vacant)' <=> t \in ClosureTakers')
       /\ (t \in ClosureTakers' <=> g.kind = "task")
  BY <1>1, <1>3, <1>5, <1>8, <1>9, <1>11, Seen, SeenNext
<1>13. /\ One(t \in Waking) = 0 /\ One(t \in Waking') = 0 /\ One(t \in RunnableTakers') = 0
       /\ One(t \in RunnableExits) = 0 /\ One(t \in RunnableExits') = 0
       /\ One(t \in ClosureExits) = 0 /\ One(t \in ClosureExits') = 0
       /\ One(t \in ClosureTakers \cup Vacant) = One(t \in ClosureTakers)
       /\ One(t \in (ClosureTakers \cup Vacant)') = One(t \in ClosureTakers')
  BY <1>7, <1>12 DEF One
<1>14. RunnableStep(t)
  <2>1. CASE injector' = <<>>
    BY <2>1, EmptySeq DEF RunnableStep
  <2>2. CASE injector' # <<>>
    <3>1. /\ One(t \in RunnableTakers) \in Nat /\ One(t \in RunnableTakers) <= 1
          /\ injector' = injector => One(t \in RunnableTakers) = 0 \/ Len(injector') = Len(injector) - 1
      BY <2>2 DEF One
    <3>2. Len(injector') + One(t \in RunnableTakers) <= Len(injector)
      BY <1>10, <2>2, <3>1
    <3>. QED
      BY <1>10, <1>12, <1>13, <3>1, <3>2 DEF RunnableStep
  <2>. QED
    BY <2>1, <2>2
<1>15. ClosureStep(t)
  <2>1. CASE Claimable' <= 0
    BY <2>1 DEF ClosureStep
  <2>2. CASE ~(Claimable' <= 0)
    <3>1. /\ One(t \in ClosureTakers) \in Nat /\ One(t \in ClosureTakers) <= 1
          /\ One(t \in ClosureTakers') \in Nat
          /\ g.kind = "task" => One(t \in ClosureTakers') = 1
      BY <1>12 DEF One
    <3>2. Claimable' + One(t \in ClosureTakers) <= Claimable + One(t \in ClosureTakers')
      BY <1>10, <2>2, <3>1
    <3>3. Claimable' + One(t \in Waking) + One(t \in ClosureTakers \cup Vacant)
            <= Claimable + One(t \in Waking') + One(t \in (ClosureTakers \cup Vacant)')
      BY <1>10, <1>13, <3>1, <3>2
    <3>4. /\ Claimable' + One(t \in Waking) + One(t \in ClosureTakers) + drains + One(t \in ClosureExits)
               <= Claimable + One(t \in Waking') + One(t \in ClosureTakers') + drains'
                    + One(t \in ClosureExits')
          /\ activeDrainers + One(t \in ClosureExits) <= activeDrainers' + One(t \in ClosureExits')
      BY <1>10, <1>13, <3>1, <3>2
    <3>. QED
      BY <1>12, <3>3, <3>4 DEF ClosureStep
  <2>. QED
    BY <2>1, <2>2
<1>16. Popped(t)' /\ Undoing(t)'
  BY <1>9 DEF Popped, Undoing
<1>17. \A x \in Threads \ {t} : Me(x) # Me(t)
  BY DEF Me
<1>. QED
  BY <1>1, <1>2, <1>6, <1>14, <1>15, <1>16, <1>17, Moved

LEMMA TakeMatched ==
  ASSUME Inv, Inv', WakeInv, ~stopping, NEW t \in Threads, Busy(t), Top(t).kind \in DriverKinds,
         NEW f, TakeBlocking(t, f), Top(t).pc \notin Retired, ~ForRunnable(Top(t))
  PROVE  WakeInv'
<1>1. PICK g : g = Frame("job", "user", Head(blockingQueue))
  OBVIOUS
<1>2. g.kind = "job" /\ Calls2(t, f, g)
  BY <1>1 DEF TakeBlocking, Calls2, Frame
<1>3. UNCHANGED <<injector, slot, drains, activeDrainers, stopping, queueClosed, parked, permit>>
  BY DEF TakeBlocking, stops, parkers
<1>4. t \notin RunnableTakers
  BY DEF RunnableTakers
<1>5. Claimable' = Claimable - 1
  <2>1. /\ blockingQueue # <<>> /\ blockingQueue' = Tail(blockingQueue) /\ activeBlocking' = activeBlocking + 1
    BY DEF TakeBlocking, CanTakeBlocking, BlockingReady
  <2>2. Len(blockingQueue') = Len(blockingQueue) - 1 /\ Len(blockingQueue) \in Nat
    BY <2>1, TailFacts DEF Inv, DataTypes
  <2>3. PICK q \in Nat, l \in Nat, n \in Nat :
          q = Len(blockingQueue) /\ l = activeBlocking /\ n = MaxBlocking
    BY <2>2, SchedulerAssumption DEF Inv, DataTypes
  <2>4. Len(blockingQueue') = q - 1 /\ MaxBlocking - activeBlocking' = n - l - 1
    BY <2>1, <2>2, <2>3
  <2>5. Claimable' = IF q - 1 < n - l - 1 THEN q - 1 ELSE n - l - 1
    BY <2>4 DEF Claimable, Lesser
  <2>6. Claimable = IF q < n - l THEN q ELSE n - l
    BY <2>3 DEF Claimable, Lesser
  <2>. QED
    BY <2>5, <2>6
<1>. QED
  BY <1>2, <1>3, <1>4, <1>5, DriverCalls

LEMMA RunMatched ==
  ASSUME Inv, Inv', WakeInv, ~stopping, NEW t \in Threads, Busy(t), Top(t).kind \in DriverKinds,
         NEW f, NEW u, RunClaimed(t, u, f), Top(t).pc \notin Retired,
         \/ slot[t] # NoUnit /\ slot' = [slot EXCEPT ![t] = NoUnit] /\ injector' = injector
         \/ slot' = slot /\ injector # <<>> /\ injector' = Tail(injector),
         UNCHANGED <<blockingQueue, counts, stopping, queueClosed, parked>>
  PROVE  WakeInv'
<1>1. PICK g : g = Frame("task", "user", u)
  OBVIOUS
<1>2. g.kind = "task" /\ Calls2(t, f, g) /\ permit' = permit
  BY <1>1 DEF RunClaimed, Calls2, Frame
<1>3. UNCHANGED <<drains, activeDrainers, Claimable>>
  BY SameClaimable DEF counts
<1>4. \A x \in Workers \ {t} : slot'[x] = slot[x]
  BY DEF Inv, DataTypes
<1>5. slot[t] # NoUnit => t \notin RunnableTakers
  BY DEF RunnableTakers
<1>6. \/ t \notin RunnableTakers /\ injector' = injector
      \/ Len(injector') = Len(injector) - 1
  BY <1>5, TailFacts DEF Inv, DataTypes
<1>. QED
  BY <1>2, <1>3, <1>4, <1>6, DriverCalls

LEMMA ClaimsMatched ==
  ASSUME Inv, Inv', WakeInv, ~stopping, NEW t \in Threads, Claim(t)
  PROVE  WakeInv'
<1>1. /\ Busy(t) /\ Top(t).kind \in DriverKinds /\ Top(t).pc \in {"claim", "fair"}
  BY DEF Claim, Driving, At
<1>2. UNCHANGED <<blockingQueue, counts, stopping, queueClosed, parked>>
  BY DEF Claim, stops
<1>3. Top(t).pc \notin Retired
  BY <1>1 DEF Retired
<1>4. CASE slot[t] # NoUnit
  <2>1. /\ RunClaimed(t, slot[t], ServedRunnable(Top(t))) /\ slot' = [slot EXCEPT ![t] = NoUnit]
        /\ injector' = injector
    BY <1>4 DEF Claim
  <2>. QED
    BY <1>1, <1>2, <1>3, <1>4, <2>1, RunMatched
<1>5. CASE slot[t] = NoUnit /\ injector # <<>>
  <2>1. /\ RunClaimed(t, Head(injector), ServedRunnable(Top(t))) /\ slot' = slot
        /\ injector' = Tail(injector)
    BY <1>5 DEF Claim
  <2>. QED
    BY <1>1, <1>2, <1>3, <1>5, <2>1, RunMatched
<1>6. CASE slot[t] = NoUnit /\ injector = <<>>
  <2>1. Go(t, "block") /\ UNCHANGED <<queues, counts, parkers, stops>>
    BY <1>6 DEF Claim, queues, parkers
  <2>2. PICK from \in {"claim", "fair"} : Driving(t, from)
    BY DEF Claim
  <2>. QED
    BY <1>6, <2>1, <2>2, GoCalm DEF ClosurePcs
<1>. QED
  BY <1>4, <1>5, <1>6

LEMMA ForceMatched ==
  ASSUME Inv, Inv', WakeInv, ~stopping, NEW t \in Threads, ForceFifo(t)
  PROVE  WakeInv'
<1>1. /\ Busy(t) /\ Top(t).kind \in DriverKinds /\ Top(t).pc = "force"
  BY DEF ForceFifo, Driving, At
<1>2. UNCHANGED <<blockingQueue, slot, counts, stopping, queueClosed, parked>>
  BY DEF ForceFifo, stops
<1>3. Top(t).pc \notin Retired /\ Top(t) \in FrameTypes
  BY <1>1, DriverPlace DEF Retired
<1>4. CASE injector # <<>>
  <2>1. PICK f : RunClaimed(t, Head(injector), f) /\ injector' = Tail(injector)
    BY <1>4 DEF ForceFifo
  <2>. QED
    BY <1>1, <1>2, <1>3, <1>4, <2>1, RunMatched
<1>5. CASE injector = <<>>
  <2>1. PICK f : f = [[Top(t) EXCEPT !.force = FALSE] EXCEPT !.pc = "fair"]
    OBVIOUS
  <2>2. f.kind = Top(t).kind /\ f.pc = "fair"
    BY <1>3, <2>1 DEF FrameTypes
  <2>3. Rewrites(t, f) /\ UNCHANGED <<queues, permit>>
    BY <1>2, <1>5, <2>1 DEF ForceFifo, Rewrites, queues
  <2>4. Me(t)' = Me(t)
    BY <1>1, <2>3, TurnsBy DEF Turns, Me
  <2>5. ~Registered(t)'
    <3>1. ~Registered(t)
      BY <1>1, DriverPlace DEF Idling
    <3>. QED
      BY <1>2, <2>4, <3>1 DEF Registered
  <2>6. ForClosure(f)
    BY <1>1, <2>2 DEF ForClosure, ClosurePcs, LoopPcs
  <2>. QED
    BY <1>1, <1>2, <1>5, <2>2, <2>3, <2>5, <2>6, DriverCalm
<1>. QED
  BY <1>4, <1>5

LEMMA FairMatched ==
  ASSUME Inv, Inv', WakeInv, ~stopping, NEW t \in Threads, FairBlocking(t)
  PROVE  WakeInv'
<1>1. /\ Busy(t) /\ Top(t).kind \in DriverKinds /\ Top(t).pc = "fair" /\ Top(t).streak >= Quantum
  BY DEF FairBlocking, Driving, At
<1>2. Top(t).pc \notin Retired /\ Top(t) \in FrameTypes
  BY <1>1, DriverPlace DEF Retired
<1>3. CASE TakeBlocking(t, [[Top(t) EXCEPT !.streak = 0] EXCEPT !.pc = "release"])
  <2>1. ~ForRunnable(Top(t))
    <3>1. Top(t).streak \in Nat /\ Quantum \in Nat
      BY <1>2, SchedulerAssumption DEF FrameTypes
    <3>2. ~(Top(t).streak < Quantum)
      BY <1>1, <3>1
    <3>. QED
      BY <1>1, <3>2 DEF ForRunnable, Awake, Idling
  <2>. QED
    BY <1>1, <1>2, <1>3, <2>1, TakeMatched
<1>4. CASE /\ ~CanTakeBlocking /\ Put(t, WithTop(t, [[Top(t) EXCEPT !.streak = 0] EXCEPT !.pc = "claim"]))
           /\ UNCHANGED <<units, queues, counts, parkers, stops>>
  <2>1. PICK f : f = [[Top(t) EXCEPT !.streak = 0] EXCEPT !.pc = "claim"]
    OBVIOUS
  <2>2. f.kind = Top(t).kind /\ f.pc = "claim"
    BY <1>2, <2>1 DEF FrameTypes
  <2>3. Rewrites(t, f)
    BY <1>4, <2>1 DEF Rewrites
  <2>4. Me(t)' = Me(t)
    BY <1>1, <2>3, TurnsBy DEF Turns, Me
  <2>5. ~Registered(t)'
    <3>1. ~Registered(t)
      BY <1>1, DriverPlace DEF Idling
    <3>. QED
      BY <1>4, <2>4, <3>1 DEF Registered, parkers
  <2>6. ForRunnable(f)
    BY <1>1, <2>2 DEF ForRunnable, Awake
  <2>7. ~BlockingReady
    BY <1>4 DEF CanTakeBlocking, WakeInv
  <2>8. UNCHANGED <<queues, counts, stopping, queueClosed, parked, permit>>
    BY <1>4 DEF stops, parkers
  <2>. QED
    BY <1>1, <1>2, <2>2, <2>3, <2>5, <2>6, <2>7, <2>8, DriverCalm
<1>. QED
  BY <1>3, <1>4 DEF FairBlocking

LEMMA BlockMatched ==
  ASSUME Inv, Inv', WakeInv, ~stopping, NEW t \in Threads, Block(t)
  PROVE  WakeInv'
<1>1. /\ Busy(t) /\ Top(t).kind \in DriverKinds /\ Top(t).pc = "block" /\ Driving(t, "block")
  BY DEF Block, Driving, At
<1>2. Top(t).pc \notin Retired /\ ~ForRunnable(Top(t))
  BY <1>1 DEF Retired, ForRunnable, LoopPcs, Awake, Idling
<1>3. CASE ~CanTakeBlocking
  BY <1>1, <1>3, FlushesMatched
<1>4. CASE CanTakeBlocking
  <2>1. PICK f : TakeBlocking(t, f)
    BY <1>4 DEF Block
  <2>. QED
    BY <1>1, <1>2, <2>1, TakeMatched
<1>. QED
  BY <1>3, <1>4

LEMMA CompensateMatched ==
  ASSUME Inv, Inv', WakeInv, ~stopping, NEW t \in Threads, Compensate(t)
  PROVE  WakeInv'
<1>1. /\ Busy(t) /\ Top(t).kind \in DriverKinds
      /\ Top(t).pc \in {"xrunnable", "xblocking", "xtake", "xresidue"}
  BY DEF Compensate, Driving, At
<1>2. Top(t).pc \notin Retired /\ Top(t) \in FrameTypes
  BY <1>1, DriverPlace DEF Retired
<1>3. PICK g : g = WakeFrame
  OBVIOUS
<1>4. g.kind = "wake" /\ g.pc = "wake"
  BY <1>3 DEF WakeFrame, Frame
<1>5. ASSUME NEW pc, Put(t, Append(WithTop(t, [Top(t) EXCEPT !.pc = pc]), WakeFrame)),
             UNCHANGED <<units, queues, counts, parkers, stops>>
      PROVE  WakeInv'
  <2>1. PICK f : f = [Top(t) EXCEPT !.pc = pc]
    OBVIOUS
  <2>2. f.kind = Top(t).kind
    BY <1>2, <2>1 DEF FrameTypes
  <2>3. Calls2(t, f, g)
    BY <1>3, <1>5, <2>1 DEF Calls2
  <2>4. UNCHANGED <<injector, blockingQueue, slot, counts, stopping, queueClosed, permit, parked>>
    BY <1>5 DEF queues, stops, parkers
  <2>. QED
    BY <1>1, <1>2, <1>4, <2>2, <2>3, <2>4, DriverWakes
<1>6. CASE Top(t).pc = "xrunnable"
  <2>1. UNCHANGED <<units, queues, counts, parkers, stops>> /\ Driving(t, "xrunnable")
    BY <1>6 DEF Compensate, Driving, At
  <2>2. CASE injector # <<>>
    BY <1>5, <1>6, <2>1, <2>2 DEF Compensate, Driving, At
  <2>3. CASE injector = <<>>
    <3>1. Go(t, "xblocking")
      BY <1>6, <2>3 DEF Compensate, Driving, At, Go
    <3>. QED
      BY <2>1, <2>3, <3>1, GoCalm DEF ClosurePcs, LoopPcs
  <2>. QED
    BY <2>2, <2>3
<1>7. CASE Top(t).pc = "xblocking"
  <2>1. UNCHANGED <<units, queues, counts, parkers, stops>> /\ Driving(t, "xblocking")
    BY <1>7 DEF Compensate, Driving, At
  <2>2. CASE BlockingReady
    <3>1. Go(t, "xtake")
      BY <1>7, <2>2 DEF Compensate, Driving, At, Go
    <3>. QED
      BY <2>1, <3>1, GoCalm DEF ClosurePcs, LoopPcs, Awake, Idling
  <2>3. CASE ~BlockingReady
    <3>1. Go(t, "out")
      BY <1>7, <2>3 DEF Compensate, Driving, At, Go
    <3>. QED
      BY <2>1, <2>3, <3>1, GoCalm DEF LoopPcs, Awake, Idling
  <2>. QED
    BY <2>2, <2>3
<1>8. CASE Top(t).pc = "xtake"
  <2>1. CASE ~CanTakeBlocking
    <3>1. UNCHANGED <<units, queues, counts, parkers, stops>>
          /\ Put(t, Append(WithTop(t, [Top(t) EXCEPT !.pc = "out"]), WakeFrame))
      BY <1>8, <2>1 DEF Compensate, Driving, At, TakeBlocking
    <3>. QED
      BY <1>5, <3>1
  <2>2. CASE CanTakeBlocking
    <3>1. TakeBlocking(t, [Top(t) EXCEPT !.pc = "xrelease"])
      BY <1>8, <2>2 DEF Compensate, Driving, At
    <3>2. ~ForRunnable(Top(t))
      BY <1>8 DEF ForRunnable, LoopPcs, Awake, Idling
    <3>. QED
      BY <1>1, <1>2, <3>1, <3>2, TakeMatched
  <2>. QED
    BY <2>1, <2>2
<1>9. CASE Top(t).pc = "xresidue"
  <2>1. UNCHANGED <<units, queues, counts, parkers, stops>> /\ Driving(t, "xresidue")
    BY <1>9 DEF Compensate, Driving, At
  <2>2. CASE BlockingReady
    BY <1>5, <1>9, <2>1, <2>2 DEF Compensate, Driving, At
  <2>3. CASE ~BlockingReady
    <3>1. Go(t, "out")
      BY <1>9, <2>3 DEF Compensate, Driving, At, Go
    <3>. QED
      BY <2>1, <2>3, <3>1, GoCalm DEF LoopPcs, Awake, Idling
  <2>. QED
    BY <2>2, <2>3
<1>. QED
  BY <1>1, <1>6, <1>7, <1>8, <1>9

-----------------------------------------------------------------------------
(* Lanes and drainers come and go.                                         *)

\* In which of the sets a driver is, before and after its frame is rewritten.
LEMMA TurnSeen ==
  ASSUME Inv, Inv', NEW t \in Threads, Busy(t), Top(t).kind \in DriverKinds, Top(t).pc \notin Idling,
         NEW f, Rewrites(t, f), f.kind = Top(t).kind, f.pc \notin Idling, UNCHANGED slot
  PROVE  /\ t \notin Waking /\ t \notin Waking'
         /\ t \notin RunnableSleepers' /\ t \notin ClosureSleepers'
         /\ t \in RunnableTakers <=> ForRunnable(Top(t)) /\ slot[t] = NoUnit
         /\ t \in RunnableTakers' <=> ForRunnable(f) /\ slot[t] = NoUnit
         /\ t \in RunnableExits <=> Top(t).pc \in {"residue?", "ensure"}
         /\ t \in RunnableExits' <=> f.pc \in {"residue?", "ensure"}
         /\ t \in ClosureTakers <=> ForClosure(Top(t))
         /\ t \in ClosureTakers' <=> ForClosure(f)
         /\ t \in ClosureExits <=> Top(t).pc \in {"residue?", "jobs?", "ensure"}
         /\ t \in ClosureExits' <=> f.pc \in {"residue?", "jobs?", "ensure"}
         /\ t \in ClosureTakers \cup Vacant <=> ForClosure(Top(t)) \/ Top(t).pc \in Retired
         /\ t \in (ClosureTakers \cup Vacant)' <=> ForClosure(f) \/ f.pc \in Retired
<1>1. t \in Workers /\ Under(t) = Top(t) /\ ~Registered(t)
  BY DriverPlace
<1>2. Busy(t)' /\ Top(t)' = f
  BY TurnsBy, TurnTop
<1>3. Under(t)' = f
  BY <1>2 DEF Under, DriverKinds
<1>4. ~Registered(t)'
  BY <1>2, MyIdleNext
<1>5. \A S : /\ OnTop(t, S) <=> Top(t).pc \in S
             /\ OnTop(t, S)' <=> f.pc \in S'
  BY <1>2 DEF OnTop
<1>6. t \notin Waking /\ t \notin Waking'
  BY <1>2, Wakes DEF DriverKinds
<1>7. /\ t \in RunnableTakers <=> ForRunnable(Top(t)) /\ slot[t] = NoUnit
      /\ t \in RunnableExits <=> Top(t).pc \in {"residue?", "ensure"}
      /\ t \in ClosureTakers <=> ForClosure(Top(t))
      /\ t \in ClosureExits <=> Top(t).pc \in {"residue?", "jobs?", "ensure"}
      /\ t \in ClosureTakers \cup Vacant <=> ForClosure(Top(t)) \/ Top(t).pc \in Retired
  BY <1>1, Seen DEF OnTop
<1>8. /\ t \in RunnableTakers' <=> ForRunnable(f) /\ slot[t] = NoUnit
      /\ t \in ClosureTakers' <=> ForClosure(f)
      /\ t \notin RunnableSleepers' /\ t \notin ClosureSleepers'
  BY <1>1, <1>2, <1>3, <1>4, SeenNext
<1>9. /\ t \in RunnableExits' <=> f.pc \in {"residue?", "ensure"}
      /\ t \in ClosureExits' <=> f.pc \in {"residue?", "jobs?", "ensure"}
      /\ t \in (ClosureTakers \cup Vacant)' <=> ForClosure(f) \/ f.pc \in Retired
  BY <1>1, <1>2, <1>8, SeenNext DEF OnTop
<1>. QED
  BY <1>6, <1>7, <1>8, <1>9

LEMMA TurnMatched ==
  ASSUME Inv, Inv', WakeInv, ~stopping, NEW t \in Threads, Busy(t), Top(t).kind \in DriverKinds,
         NEW f, Rewrites(t, f), f.kind = Top(t).kind, f.pc \notin Idling,
         UNCHANGED <<slot, stopping, queueClosed, parked, permit>>, RunnableStep(t), ClosureStep(t)
  PROVE  WakeInv'
<1>1. /\ t # Stopper /\ ~At(t, "unpark")
  BY DriverPlace
<1>2. /\ Turns(t, f) /\ Keeps(t) /\ Below(t)
  BY TurnsBy DEF Turns
<1>3. Busy(t)' /\ Top(t)' = f
  BY <1>2, TurnTop
<1>4. StopPc' = StopPc
  BY <1>1, <1>2, StopPcKept DEF Inv
<1>5. Popped(t)' /\ Undoing(t)'
  BY <1>3 DEF Popped, Undoing, OnTop, Idling
<1>. QED
  BY <1>1, <1>2, <1>4, <1>5, Moved

LEMMA ReleaseMatched ==
  ASSUME Inv, Inv', WakeInv, ~stopping, NEW t \in Threads, Release(t)
  PROVE  WakeInv'
<1>1. PICK f : f = IF At(t, "release") THEN Served(Top(t)) ELSE [Top(t) EXCEPT !.pc = "xresidue"]
  OBVIOUS
<1>2. /\ Busy(t) /\ Top(t).kind \in DriverKinds /\ Top(t).pc \in {"release", "xrelease"} /\ Rewrites(t, f)
      /\ activeBlocking' = activeBlocking - 1
      /\ UNCHANGED <<queues, drains, activeDrainers, stopping, queueClosed, parked, permit>>
  BY <1>1 DEF Release, Driving, At, Rewrites, stops, parkers
<1>3. Top(t) \in FrameTypes
  BY <1>2, DriverPlace
<1>4. f.kind = Top(t).kind /\ f.pc \in {"fair", "top", "exit", "yield", "xresidue"}
  <2>1. CASE At(t, "release")
    BY <1>1, <1>3, <2>1 DEF FrameTypes, Served
  <2>2. CASE ~At(t, "release")
    BY <1>1, <1>3, <2>2 DEF FrameTypes
  <2>. QED
    BY <2>1, <2>2
<1>5. f.pc \notin Idling /\ Top(t).pc \notin Idling
  BY <1>2, <1>4 DEF Idling
<1>6. /\ ~ForRunnable(Top(t)) /\ ~ForClosure(Top(t)) /\ ForClosure(f) /\ Top(t).pc \notin Retired
      /\ f.pc \notin Retired
  BY <1>2, <1>4 DEF ForRunnable, ForClosure, LoopPcs, Awake, Idling, ClosurePcs, DriverKinds, Retired
<1>7. /\ t \notin Waking /\ t \notin Waking'
      /\ t \notin RunnableSleepers' /\ t \notin ClosureSleepers' /\ t \notin RunnableTakers
      /\ t \notin RunnableExits /\ t \notin ClosureExits /\ t \notin RunnableExits' /\ t \notin ClosureExits'
      /\ t \notin ClosureTakers /\ t \notin ClosureTakers \cup Vacant
      /\ t \in ClosureTakers' /\ t \in (ClosureTakers \cup Vacant)'
  <2>1. UNCHANGED slot
    BY <1>2 DEF queues
  <2>2. Top(t).pc \notin {"residue?", "jobs?", "ensure"} /\ f.pc \notin {"residue?", "jobs?", "ensure"}
    BY <1>2, <1>4
  <2>. QED
    BY <1>2, <1>4, <1>5, <1>6, <2>1, <2>2, TurnSeen
<1>8. /\ Len(injector) \in Nat /\ Claimable \in Int /\ drains \in Nat /\ activeDrainers \in Nat
      /\ Claimable' \in Int /\ injector' = injector
  BY <1>2, CountTypes, CountTypesNext DEF Inv, queues
<1>9. Claimable' <= Claimable + 1
  <2>1. PICK q \in Nat, l \in Nat, n \in Nat :
          q = Len(blockingQueue) /\ l = activeBlocking /\ n = MaxBlocking
    BY SchedulerAssumption DEF Inv, DataTypes
  <2>2. blockingQueue' = blockingQueue /\ MaxBlocking - activeBlocking' = n - l + 1
    BY <1>2, <2>1 DEF queues
  <2>3. Claimable' = IF q < n - l + 1 THEN q ELSE n - l + 1
    BY <2>1, <2>2 DEF Claimable, Lesser
  <2>4. Claimable = IF q < n - l THEN q ELSE n - l
    BY <2>1 DEF Claimable, Lesser
  <2>. QED
    BY <2>3, <2>4
<1>10. RunnableStep(t)
  <2>1. One(t \in RunnableTakers') \in Nat
    BY DEF One
  <2>2. /\ One(t \in Waking) = 0 /\ One(t \in Waking') = 0 /\ One(t \in RunnableTakers) = 0
        /\ One(t \in RunnableExits) = 0 /\ One(t \in RunnableExits') = 0
    BY <1>7 DEF One
  <2>. QED
    BY <1>2, <1>7, <1>8, <2>1, <2>2 DEF RunnableStep
<1>11. ClosureStep(t)
  <2>1. /\ One(t \in Waking) = 0 /\ One(t \in Waking') = 0 /\ One(t \in ClosureTakers) = 0
        /\ One(t \in ClosureTakers') = 1 /\ One(t \in ClosureExits) = 0 /\ One(t \in ClosureExits') = 0
        /\ One(t \in ClosureTakers \cup Vacant) = 0 /\ One(t \in (ClosureTakers \cup Vacant)') = 1
    BY <1>7 DEF One
  <2>. QED
    BY <1>2, <1>7, <1>8, <1>9, <2>1 DEF ClosureStep
<1>12. UNCHANGED <<slot, stopping, queueClosed, parked, permit>>
  BY <1>2 DEF queues
<1>. QED
  BY <1>2, <1>4, <1>5, <1>10, <1>11, <1>12, TurnMatched

LEMMA RetireMatched ==
  ASSUME Inv, Inv', WakeInv, ~stopping, NEW t \in Threads, Retire(t)
  PROVE  WakeInv'
<1>1. PICK f : f = [Top(t) EXCEPT !.pc = "residue?"]
  OBVIOUS
<1>2. /\ Busy(t) /\ Top(t).kind \in DriverKinds /\ Top(t).pc = "exit" /\ Rewrites(t, f)
      /\ activeDrainers' = activeDrainers - 1
      /\ UNCHANGED <<queues, drains, activeBlocking, stopping, queueClosed, parked, permit>>
  BY <1>1 DEF Retire, Driving, At, Rewrites, Go, stops, parkers
<1>3. Top(t) \in FrameTypes
  BY <1>2, DriverPlace
<1>4. f.kind = Top(t).kind /\ f.pc = "residue?"
  BY <1>1, <1>3 DEF FrameTypes
<1>5. f.pc \notin Idling /\ Top(t).pc \notin Idling
  BY <1>2, <1>4 DEF Idling
<1>6. /\ ~ForRunnable(Top(t)) /\ ForClosure(Top(t)) /\ ~ForRunnable(f) /\ ~ForClosure(f)
      /\ f.pc \in Retired
  BY <1>2, <1>4 DEF ForRunnable, ForClosure, LoopPcs, Awake, Idling, ClosurePcs, DriverKinds, Retired
<1>7. UNCHANGED slot
  BY <1>2 DEF queues
<1>8. /\ t \notin Waking /\ t \notin Waking'
      /\ t \notin RunnableSleepers' /\ t \notin ClosureSleepers'
      /\ t \notin RunnableTakers /\ t \notin RunnableTakers'
      /\ t \notin RunnableExits /\ t \notin ClosureExits /\ t \in RunnableExits' /\ t \in ClosureExits'
      /\ t \in ClosureTakers /\ t \in ClosureTakers \cup Vacant
      /\ t \notin ClosureTakers' /\ t \in (ClosureTakers \cup Vacant)'
  BY <1>2, <1>4, <1>5, <1>6, <1>7, TurnSeen
<1>9. /\ Len(injector) \in Nat /\ Claimable \in Int /\ drains \in Nat /\ activeDrainers \in Nat
      /\ Claimable' = Claimable /\ injector' = injector
  BY <1>2, CountTypes, SameClaimable DEF Inv, queues
<1>10. RunnableStep(t)
  <2>1. /\ One(t \in Waking) = 0 /\ One(t \in Waking') = 0 /\ One(t \in RunnableTakers) = 0
        /\ One(t \in RunnableTakers') = 0
        /\ One(t \in RunnableExits) = 0 /\ One(t \in RunnableExits') = 1
    BY <1>8 DEF One
  <2>. QED
    BY <1>2, <1>8, <1>9, <2>1 DEF RunnableStep
<1>11. ClosureStep(t)
  <2>1. /\ One(t \in Waking) = 0 /\ One(t \in Waking') = 0 /\ One(t \in ClosureTakers) = 1
        /\ One(t \in ClosureTakers') = 0 /\ One(t \in ClosureExits) = 0 /\ One(t \in ClosureExits') = 1
        /\ One(t \in ClosureTakers \cup Vacant) = 1 /\ One(t \in (ClosureTakers \cup Vacant)') = 1
    BY <1>8 DEF One
  <2>. QED
    BY <1>2, <1>8, <1>9, <2>1 DEF ClosureStep
<1>. QED
  BY <1>2, <1>4, <1>5, <1>7, <1>10, <1>11, TurnMatched

LEMMA RearmMatched ==
  ASSUME Inv, Inv', WakeInv, ~stopping, NEW t \in Threads, Rearm(t)
  PROVE  WakeInv'
<1>1. PICK f : f = [Top(t) EXCEPT !.pc = "notify"]
  OBVIOUS
<1>2. /\ Busy(t) /\ Top(t).kind \in DriverKinds /\ Top(t).pc = "ensure" /\ Rewrites(t, f) /\ EnsureDrainer
      /\ UNCHANGED <<queues, activeBlocking, stopping, queueClosed, parked, permit>>
  BY <1>1 DEF Rearm, Driving, At, Rewrites, Go, stops, parkers
<1>3. Top(t) \in FrameTypes
  BY <1>2, DriverPlace
<1>4. f.kind = Top(t).kind /\ f.pc = "notify"
  BY <1>1, <1>3 DEF FrameTypes
<1>5. f.pc \notin Idling /\ Top(t).pc \notin Idling
  BY <1>2, <1>4 DEF Idling
<1>6. /\ ~ForRunnable(Top(t)) /\ ~ForClosure(Top(t)) /\ ~ForRunnable(f) /\ ~ForClosure(f)
      /\ f.pc \in Retired /\ Top(t).pc \in Retired
  BY <1>2, <1>4 DEF ForRunnable, ForClosure, LoopPcs, Awake, Idling, ClosurePcs, DriverKinds, Retired
<1>7. UNCHANGED slot
  BY <1>2 DEF queues
<1>8. /\ t \notin Waking /\ t \notin Waking'
      /\ t \notin RunnableSleepers' /\ t \notin ClosureSleepers'
      /\ t \notin RunnableTakers /\ t \notin RunnableTakers'
      /\ t \in RunnableExits /\ t \in ClosureExits /\ t \notin RunnableExits' /\ t \notin ClosureExits'
      /\ t \notin ClosureTakers /\ t \in ClosureTakers \cup Vacant
      /\ t \notin ClosureTakers' /\ t \in (ClosureTakers \cup Vacant)'
  BY <1>2, <1>4, <1>5, <1>6, <1>7, TurnSeen
<1>9. /\ Len(injector) \in Nat /\ Claimable \in Int /\ drains \in Nat /\ activeDrainers \in Nat
      /\ Claimable' = Claimable /\ injector' = injector /\ Cardinality(Workers) \in Nat
  BY <1>2, CountTypes, SameClaimable DEF Inv, queues
<1>10. /\ One(t \in Waking) = 0 /\ One(t \in Waking') = 0 /\ One(t \in RunnableTakers) = 0
       /\ One(t \in RunnableTakers') = 0
       /\ One(t \in RunnableExits) = 1 /\ One(t \in RunnableExits') = 0
       /\ One(t \in ClosureTakers) = 0
       /\ One(t \in ClosureTakers') = 0 /\ One(t \in ClosureExits) = 1 /\ One(t \in ClosureExits') = 0
       /\ One(t \in ClosureTakers \cup Vacant) = 1 /\ One(t \in (ClosureTakers \cup Vacant)') = 1
  BY <1>8 DEF One
<1>11. \/ activeDrainers' >= Cardinality(Workers)
       \/ drains' = drains + 1 /\ activeDrainers' = activeDrainers + 1
  BY <1>2 DEF EnsureDrainer
<1>12. RunnableStep(t)
  BY <1>8, <1>9, <1>10, <1>11 DEF RunnableStep
<1>13. ClosureStep(t)
  BY <1>8, <1>9, <1>10, <1>11 DEF ClosureStep
<1>. QED
  BY <1>2, <1>4, <1>5, <1>7, <1>12, <1>13, TurnMatched

\* A frame that is no driver, or a driver about to return, counts at most as
\* one that is above a driver that goes on.
LEMMA PlainMatched ==
  ASSUME Inv, Inv', WakeInv, ~stopping, NEW t \in Threads, Busy(t),
         Top(t).kind \notin DriverKinds \/ Top(t).pc = "out",
         Below(t), Keeps(t), StopPc' = StopPc,
         UNCHANGED <<injector, Claimable, drains, activeDrainers, stopping, queueClosed, parked>>,
         \A x \in Workers \ {t} : slot'[x] = slot[x],
         permit \ {Me(t)} \subseteq permit',
         At(t, "unpark") /\ Top(t).kind = "wake" /\ Top(t).p # NoParker => Top(t).p \in permit',
         Busy(t)', Top(t)'.pc \notin Idling,
         t \in Waking => t \in Waking',
         t \in Workers /\ ForClosure(Under(t)) => ForClosure(Under(t)')
  PROVE  WakeInv'
<1>1. ~Registered(t)'
  BY MyIdleNext
<1>2. /\ ~OnTop(t, {"residue?", "ensure"}) /\ ~OnTop(t, {"residue?", "jobs?", "ensure"})
      /\ ~OnTop(t, Retired) /\ ~OnTop(t, {"blocking?", "park"}) /\ ~OnTop(t, {"park"})
  BY DEF OnTop, Retired
<1>3. /\ ~OnTop(t, {"blocking?", "park"})' /\ ~OnTop(t, {"park"})'
      /\ ~OnTop(t, {"runnable?", "blocking?", "park"})'
      /\ ~OnTop(t, {"undo"})' /\ ~OnTop(t, {"quit"})' /\ ~OnTop(t, {"leave"})'
  BY DEF OnTop, Idling
<1>4. ~ForRunnable(Top(t))
  BY DEF ForRunnable, LoopPcs, Awake, Idling
<1>5. /\ t \notin RunnableTakers /\ t \notin RunnableExits /\ t \notin ClosureExits
      /\ t \in ClosureTakers \cup Vacant => t \in ClosureTakers
  <2>1. CASE t \in Workers
    BY <1>2, <1>4, <2>1, Seen
  <2>2. CASE t \notin Workers
    BY <2>2, Unseen
  <2>. QED
    BY <2>1, <2>2
<1>6. t \in ClosureTakers => t \in ClosureTakers'
  <2>1. CASE t \in Workers
    BY <1>1, <2>1, Seen, SeenNext
  <2>2. CASE t \notin Workers
    BY <2>2, Unseen
  <2>. QED
    BY <2>1, <2>2
<1>7. t \notin RunnableSleepers' /\ t \notin ClosureSleepers'
  <2>1. CASE t \in Workers
    BY <1>3, <2>1, SeenNext
  <2>2. CASE t \notin Workers
    BY <2>2, Unseen
  <2>. QED
    BY <2>1, <2>2
<1>8. t \in ClosureTakers \cup Vacant => t \in (ClosureTakers \cup Vacant)'
  BY <1>5, <1>6
<1>9. RunnableStep(t) /\ ClosureStep(t)
  BY <1>5, <1>6, <1>7, <1>8, CalmSteps
<1>10. Popped(t)' /\ Undoing(t)'
  BY <1>3 DEF Popped, Undoing
<1>11. \A x \in Threads \ {t} : Me(x) # Me(t)
  BY DEF Me
<1>12. \A x \in Threads \ {t} : /\ Me(x) \in parked' <=> Me(x) \in parked
                                /\ Me(x) \in permit => Me(x) \in permit'
  BY <1>11
<1>. QED
  BY <1>9, <1>10, <1>12, Moved

LEMMA NotifyMatched ==
  ASSUME Inv, Inv', WakeInv, ~stopping, NEW t \in Threads, NotifyIdle(t)
  PROVE  WakeInv'
<1>1. /\ Busy(t) /\ Top(t).kind \in DriverKinds /\ Top(t).pc = "notify" /\ stack' = WithoutTop(t)
      /\ permit' = permit \ {Me(t)}
      /\ UNCHANGED <<queues, counts, stopping, queueClosed, parked>>
  BY DEF NotifyIdle, Driving, At
<1>2. /\ t \in Workers /\ t # Stopper /\ Under(t) = Top(t) /\ ~At(t, "unpark") /\ ~Registered(t)
  BY <1>1, DriverPlace DEF Idling
<1>3. Top(t).kind \in ParkingKinds
  BY <1>1 DEF DriverKinds, ParkingKinds
<1>4. Drops(t) /\ Keeps(t) /\ Below(t)
  BY <1>1, <1>3, ErasesBy DEF Drops
<1>5. ~Busy(t)'
  <2>1. /\ FrameOK(t, Top(t)) /\ Len(stack[t]) \in Nat \ {0} /\ Top(t) = stack[t][Len(stack[t])]
    BY <1>1, TopFacts DEF Inv
  <2>2. Top(t).kind = "drain"
    BY <1>1, <2>1 DEF FrameOK, DriverKinds, CoopPcs, Leaving
  <2>3. Len(stack[t]) = 1
    BY <1>1, <2>1, <2>2, TopNests DEF Nests, Bases, Inv
  <2>4. Len(stack'[t]) = 0 /\ stack'[t] \in Seq(FrameTypes)
    BY <1>4, <2>3 DEF Drops, Below, Stacks, StackOK
  <2>. QED
    BY <2>4, EmptySeq DEF Busy
<1>6. StopPc' = StopPc
  BY <1>2, <1>4, StopPcKept DEF Inv
<1>7. /\ t \notin Waking /\ t \notin RunnableTakers /\ t \notin RunnableExits /\ t \notin ClosureTakers
      /\ t \notin ClosureExits
  <2>1. ~ForRunnable(Top(t)) /\ ~ForClosure(Top(t))
    BY <1>1 DEF ForRunnable, ForClosure, LoopPcs, Awake, Idling, ClosurePcs, DriverKinds
  <2>2. ~OnTop(t, {"residue?", "ensure"}) /\ ~OnTop(t, {"residue?", "jobs?", "ensure"})
    BY <1>1 DEF OnTop
  <2>. QED
    BY <1>1, <1>2, <2>1, <2>2, Seen, Wakes DEF DriverKinds
<1>8. t \in (ClosureTakers \cup Vacant)' /\ t \notin RunnableSleepers' /\ t \notin ClosureSleepers'
  BY <1>2, <1>5 DEF Vacant, RunnableSleepers, ClosureSleepers, OnTop
<1>9. Claimable' = Claimable /\ injector' = injector /\ UNCHANGED <<drains, activeDrainers>>
  BY <1>1, SameClaimable DEF queues, counts
<1>10. RunnableStep(t) /\ ClosureStep(t)
  BY <1>7, <1>8, <1>9, CalmSteps
<1>11. Popped(t)' /\ Undoing(t)'
  BY <1>5 DEF Popped, Undoing, OnTop
<1>12. \A x \in Threads \ {t} : Me(x) # Me(t)
  BY DEF Me
<1>13. \A x \in Threads \ {t} : /\ Me(x) \in parked' <=> Me(x) \in parked
                                /\ Me(x) \in permit => Me(x) \in permit'
  BY <1>1, <1>12
<1>14. UNCHANGED <<stopping, queueClosed>> /\ \A x \in Workers \ {t} : slot'[x] = slot[x]
  BY <1>1 DEF queues
<1>. QED
  BY <1>2, <1>4, <1>6, <1>10, <1>11, <1>13, <1>14, Moved

LEMMA StartMatched ==
  ASSUME Inv, Inv', WakeInv, ~stopping, NEW t \in Workers, StartDrain(t)
  PROVE  WakeInv'
<1>1. /\ stack[t] = <<>> /\ drains > 0 /\ drains' = drains - 1
      /\ Put(t, <<Frame("drain", "fair", NoUnit)>>)
      /\ UNCHANGED <<queues, activeDrainers, activeBlocking, parked, permit, stopping, queueClosed>>
  BY DEF StartDrain, parkers, stops
<1>2. PICK f : f = Frame("drain", "fair", NoUnit)
  OBVIOUS
<1>3. f.kind = "drain" /\ f.pc = "fair" /\ f.streak = 0
  BY <1>2 DEF Frame
<1>4. /\ Below(t) /\ Keeps(t) /\ stack'[t] = <<f>> /\ t \in Threads /\ t # Stopper
  BY <1>1, <1>2, StartForm, KeepsPut, PutFacts, SchedulerAssumption DEF Inv, Threads
<1>5. Busy(t)' /\ Top(t)' = f
  <2>1. <<f>> # <<>> /\ Last(<<f>>) = f
    BY DEF Last
  <2>. QED
    BY <1>4, <2>1 DEF Busy, Top
<1>6. Under(t)' = f
  BY <1>3, <1>5 DEF Under
<1>7. ~Registered(t)'
  BY <1>3, <1>4, <1>5, MyIdleNext DEF Idling
<1>8. StopPc' = StopPc
  BY <1>4, StopPcKept DEF Inv
<1>9. ~Busy(t) /\ slot[t] = NoUnit /\ slot' = slot
  BY <1>1 DEF Busy, Inv, SlotInv, queues
<1>10. ForRunnable(f) /\ ForClosure(f)
  BY <1>3, SchedulerAssumption DEF ForRunnable, ForClosure, ClosurePcs, LoopPcs, DriverKinds
<1>11. /\ t \notin Waking /\ t \notin Waking'
       /\ t \notin RunnableTakers /\ t \notin RunnableExits /\ t \notin ClosureTakers
       /\ t \notin ClosureExits /\ t \in ClosureTakers \cup Vacant
  BY <1>3, <1>5, <1>9
     DEF Waking, RunnableTakers, RunnableExits, ClosureTakers, ClosureExits, Vacant, OnTop
<1>12. /\ t \in RunnableTakers' /\ t \in ClosureTakers' /\ t \in (ClosureTakers \cup Vacant)'
       /\ t \notin RunnableExits' /\ t \notin ClosureExits'
       /\ t \notin RunnableSleepers' /\ t \notin ClosureSleepers'
  BY <1>3, <1>5, <1>6, <1>7, <1>9, <1>10, SeenNext DEF OnTop
<1>13. /\ Len(injector) \in Nat /\ Claimable \in Int /\ drains \in Nat /\ activeDrainers \in Nat
       /\ Claimable' = Claimable /\ injector' = injector
  BY <1>1, CountTypes, SameClaimable DEF Inv, queues
<1>14. /\ One(t \in Waking) = 0 /\ One(t \in Waking') = 0 /\ One(t \in RunnableTakers) = 0
       /\ One(t \in RunnableTakers') = 1
       /\ One(t \in RunnableExits) = 0 /\ One(t \in RunnableExits') = 0
       /\ One(t \in ClosureTakers) = 0
       /\ One(t \in ClosureTakers') = 1 /\ One(t \in ClosureExits) = 0 /\ One(t \in ClosureExits') = 0
       /\ One(t \in ClosureTakers \cup Vacant) = 1 /\ One(t \in (ClosureTakers \cup Vacant)') = 1
  BY <1>11, <1>12 DEF One
<1>15. RunnableStep(t)
  BY <1>1, <1>12, <1>13, <1>14 DEF RunnableStep
<1>16. ClosureStep(t)
  BY <1>1, <1>12, <1>13, <1>14 DEF ClosureStep
<1>17. Popped(t)' /\ Undoing(t)'
  BY <1>3, <1>5 DEF Popped, Undoing, OnTop
<1>18. ~At(t, "unpark")
  BY <1>9 DEF At
<1>. QED
  BY <1>1, <1>4, <1>8, <1>9, <1>15, <1>16, <1>17, <1>18, Moved

-----------------------------------------------------------------------------
(* Returns, wakes and calls.                                               *)

\* What a frame that ends uncovers.
LEMMA Uncovers ==
  ASSUME Stacks, NEW t \in Threads, Busy(t), Drops(t), Top(t).kind \notin Bases
  PROVE  /\ Busy(t)' /\ Under(t)' = Top(t)' /\ Nests(Top(t)', Top(t)) /\ FrameOK(t, Top(t)')
         /\ Top(t).kind = "wake" => Under(t) = Top(t)'
<1>1. /\ Len(stack[t]) \in Nat \ {0} /\ Top(t) = stack[t][Len(stack[t])] /\ FrameOK(t, Top(t))
  BY TopFacts
<1>2. Len(stack[t]) # 1 /\ Nests(stack[t][Len(stack[t]) - 1], Top(t))
  BY <1>1, TopNests
<1>3. Len(stack[t]) - 1 \in 1..Len(stack[t]) /\ Len(stack[t]) - 1 \in Nat \ {0}
  BY <1>1, <1>2, Before
<1>4. stack'[t] # <<>>
  <2>1. Len(stack'[t]) \in Nat \ {0}
    BY <1>3 DEF Drops
  <2>. QED
    BY <2>1
<1>5. Busy(t)' /\ Top(t)' = stack[t][Len(stack[t]) - 1]
  BY <1>4, DropTop DEF Busy
<1>6. FrameOK(t, Top(t)')
  BY <1>3, <1>5 DEF Stacks, StackOK
<1>7. Top(t)'.kind # "wake"
  BY <1>1, <1>2, <1>5 DEF Nests, FrameOK, FrameTypes, Kinds, Bases, DriverKinds, UserKinds
<1>. QED
  BY <1>2, <1>5, <1>6, <1>7 DEF Under

\* What a wake or a unit that ends leaves on top.
LEMMA UncoversCalm ==
  ASSUME Stacks, NEW t \in Threads, Busy(t), Drops(t), Top(t).kind \notin Bases
  PROVE  Top(t)'.pc \notin Idling \cup Retired
<1>1. Nests(Top(t)', Top(t)) /\ FrameOK(t, Top(t)') /\ FrameOK(t, Top(t))
  BY Uncovers, TopFacts
<1>2. Top(t)'.kind \in {"task", "job", "host"} => Top(t)'.pc = "user"
  BY <1>1 DEF FrameOK
<1>3. Top(t)'.kind = "stop" => Top(t)'.pc \in StopPcs
  BY <1>1 DEF FrameOK
<1>4. \/ Top(t)'.kind \in {"task", "job", "host", "stop"}
      \/ Top(t)'.pc \in ServedPcs \cup LanePcs \cup WakingPcs
  BY <1>1 DEF Nests, FrameOK, FrameTypes, Kinds, Bases, DriverKinds, UserKinds
<1>. QED
  BY <1>2, <1>3, <1>4 DEF StopPcs, ServedPcs, LanePcs, WakingPcs, Idling, Retired

LEMMA NoStopper ==
  ASSUME Stacks, NEW t \in Threads, Busy(t), Top(t).kind # "stop", Below(t)
  PROVE  StopPc' = StopPc
  BY StopPcKept

LEMMA LoopMatched ==
  ASSUME Inv, Inv', WakeInv, ~stopping, NEW t \in Threads, BlockStep(t)
  PROVE  WakeInv'
<1>1. CASE Poll(t) /\ Top(t).kind = "coop"
  <2>1. Driving(t, "top") /\ UNCHANGED <<queues, counts, parkers, stops>>
    BY <1>1 DEF Poll, Driving, At, DriverKinds
  <2>2. PICK to \in {"leave", "force", "fair"} : Go(t, to)
    BY <1>1 DEF Poll
  <2>. QED
    BY <2>1, <2>2, GoCalm DEF LoopPcs, ClosurePcs, Awake, Idling
<1>2. CASE (Poll(t) \/ HostPark(t)) /\ Top(t).kind = "block"
  <2>1. PICK f : f.pc \in {"out", "sleep", "top"} /\ f.kind = "block" /\ Rewrites(t, f) /\ Busy(t)
    <3>1. Busy(t)
      BY <1>2 DEF Poll, HostPark, At
    <3>2. Top(t) \in FrameTypes
      BY <3>1, TopFacts DEF Inv, FrameOK
    <3>3. PICK pc \in {"out", "sleep", "top"} : Go(t, pc)
      BY <1>2 DEF Poll, HostPark
    <3>4. PICK f : f = [Top(t) EXCEPT !.pc = pc]
      OBVIOUS
    <3>5. f.pc = pc /\ f.kind = "block" /\ Rewrites(t, f)
      BY <1>2, <3>2, <3>3, <3>4 DEF FrameTypes, Go, Rewrites
    <3>. QED
      BY <3>1, <3>5
  <2>2. /\ UNCHANGED <<queues, counts, stopping, queueClosed, parked>> /\ permit \ {Me(t)} \subseteq permit'
    BY <1>2 DEF Poll, HostPark, parkers, stops
  <2>3. Turns(t, f) /\ Keeps(t) /\ Below(t)
    BY <2>1, TurnsBy DEF Turns
  <2>4. Busy(t)' /\ Top(t)' = f
    BY <2>3, TurnTop
  <2>5. StopPc' = StopPc
    BY <1>2, <2>1, <2>3, NoStopper DEF Inv
  <2>6. UNCHANGED <<injector, Claimable, drains, activeDrainers, slot>>
    BY <2>2, SameClaimable DEF queues, counts
  <2>7. t \notin Workers
    <3>1. FrameOK(t, Top(t))
      BY <2>1, TopFacts DEF Inv
    <3>. QED
      BY <1>2, <3>1, SchedulerAssumption DEF FrameOK
  <2>8. t \notin Waking /\ Top(t).kind \notin DriverKinds
    BY <1>2, Wakes DEF DriverKinds
  <2>9. f.pc \notin Idling
    BY <2>1 DEF Idling
  <2>. QED
    BY <1>2, <2>1, <2>2, <2>3, <2>4, <2>5, <2>6, <2>7, <2>8, <2>9, PlainMatched
<1>3. CASE LeaveBlockOn(t)
  <2>1. /\ Busy(t) /\ Top(t).pc = "out" /\ Top(t).kind \in {"coop", "block"} /\ stack' = WithoutTop(t)
        /\ UNCHANGED <<queues, counts, stopping, queueClosed, parked>> /\ permit \ {Me(t)} \subseteq permit'
    BY <1>3 DEF LeaveBlockOn, At
  <2>2. Drops(t) /\ Keeps(t) /\ Below(t)
    BY <2>1, ErasesBy DEF ParkingKinds, Drops
  <2>3. Busy(t)' /\ Top(t)'.pc \notin Idling
    BY <2>1, <2>2, Uncovers, UncoversCalm DEF Bases, Inv
  <2>4. StopPc' = StopPc
    BY <2>1, <2>2, NoStopper DEF Inv
  <2>5. UNCHANGED <<injector, Claimable, drains, activeDrainers, slot>>
    BY <2>1, SameClaimable DEF queues, counts
  <2>6. ~ForClosure(Under(t)) /\ t \notin Waking
    BY <2>1, Wakes DEF ForClosure, Under, ClosurePcs, LoopPcs, Awake, Idling
  <2>7. ~(Top(t).kind = "wake")
    BY <2>1
  <2>. QED
    BY <2>1, <2>2, <2>3, <2>4, <2>5, <2>6, <2>7, PlainMatched
<1>4. Poll(t) => Top(t).kind \in {"coop", "block"}
  BY DEF Poll
<1>5. HostPark(t) => Top(t).kind = "block"
  BY DEF HostPark
<1>. QED
  BY <1>1, <1>2, <1>3, <1>4, <1>5 DEF BlockStep

\* A unit, a wait or a wake that is over.
LEMMA ReturnMatched ==
  ASSUME Inv, Inv', WakeInv, ~stopping, NEW t \in Threads, Busy(t), Top(t).kind \in Ending, Pops(t),
         UNCHANGED <<injector, blockingQueue, counts, stopping, queueClosed, parked>>,
         \A x \in Workers \ {t} : slot'[x] = slot[x],
         permit \subseteq permit', t \notin Waking,
         At(t, "unpark") /\ Top(t).kind = "wake" /\ Top(t).p # NoParker => Top(t).p \in permit'
  PROVE  WakeInv'
<1>1. Drops(t) /\ Keeps(t) /\ Below(t)
  BY DropsBy DEF Drops
<1>2. Top(t).kind \notin Bases /\ Top(t).kind \notin DriverKinds /\ Top(t).kind # "stop"
  BY DEF Ending, Bases, DriverKinds
<1>3. /\ Busy(t)' /\ Under(t)' = Top(t)' /\ Nests(Top(t)', Top(t))
      /\ Top(t).kind = "wake" => Under(t) = Top(t)'
      /\ Top(t)'.pc \notin Idling
  BY <1>1, <1>2, Uncovers, UncoversCalm DEF Inv
<1>4. ForClosure(Under(t)) => ForClosure(Under(t)')
  <2>1. CASE Top(t).kind = "wake"
    BY <1>3, <2>1
  <2>2. CASE Top(t).kind = "task"
    <3>1. Top(t)'.kind \in DriverKinds /\ Top(t)'.pc \in ServedPcs
      BY <1>3, <2>2 DEF Nests
    <3>. QED
      BY <1>3, <3>1 DEF ForClosure, ServedPcs, ClosurePcs, LoopPcs
  <2>3. CASE Top(t).kind \in {"job", "wait"}
    BY <2>3 DEF ForClosure, Under, DriverKinds
  <2>. QED
    BY <2>1, <2>2, <2>3 DEF Ending
<1>5. StopPc' = StopPc
  BY <1>1, <1>2, NoStopper DEF Inv
<1>6. UNCHANGED <<injector, Claimable, drains, activeDrainers>>
  BY SameClaimable DEF counts
<1>. QED
  BY <1>1, <1>2, <1>3, <1>4, <1>5, <1>6, PlainMatched

LEMMA OverMatched ==
  ASSUME Inv, Inv', WakeInv, ~stopping, NEW t \in Threads,
         Unpark(t) \/ SyncDone(t) \/ TaskReady(t) \/ JobReturns(t)
  PROVE  WakeInv'
<1>1. CASE Unpark(t)
  <2>1. /\ Busy(t) /\ Top(t).kind \in Ending /\ Pops(t) /\ t \notin Waking
        /\ UNCHANGED <<injector, blockingQueue, slot, counts, stopping, queueClosed, parked>>
    BY <1>1, Wakes DEF Unpark, At, Ending, Pops, queues, stops
  <2>2. /\ permit \subseteq permit' /\ (Top(t).p # NoParker => Top(t).p \in permit')
    BY <1>1 DEF Unpark
  <2>. QED
    BY <2>1, <2>2, ReturnMatched
<1>2. CASE SyncDone(t)
  <2>1. /\ Busy(t) /\ Pops(t) /\ Top(t).pc = "waiting"
        /\ UNCHANGED <<injector, blockingQueue, slot, counts, stopping, queueClosed, parked, permit>>
    BY <1>2 DEF SyncDone, At, Pops, queues, stops, parkers
  <2>2. Top(t).kind = "wait"
    <3>1. FrameOK(t, Top(t))
      BY <2>1, TopFacts DEF Inv
    <3>. QED
      BY <2>1, <3>1 DEF FrameOK, FrameTypes, Kinds, DrainPcs, CoopPcs, StopPcs, WakePcs, Retired, Leaving
  <2>3. t \notin Waking /\ Top(t).kind \in Ending
    BY <2>2, Wakes DEF Ending
  <2>. QED
    BY <2>1, <2>2, <2>3, ReturnMatched
<1>3. CASE TaskReady(t) \/ JobReturns(t)
  <2>1. /\ Busy(t) /\ Pops(t) /\ Top(t).kind \in {"task", "job"} /\ permit \subseteq permit'
        /\ UNCHANGED <<injector, blockingQueue, slot, counts, stopping, queueClosed, parked>>
    BY <1>3 DEF TaskReady, JobReturns, User, At, Pops, queues, stops, Ends
  <2>2. t \notin Waking /\ Top(t).kind \in Ending
    BY <2>1, Wakes DEF Ending
  <2>. QED
    BY <2>1, <2>2, ReturnMatched
<1>. QED
  BY <1>1, <1>2, <1>3

\* What a call leaves below it.
LEMMA AddUnder ==
  ASSUME NEW t \in Threads, NEW f, NEW g, Adds(t, f, g)
  PROVE  /\ Busy(t)' /\ Top(t)' = g
         /\ Under(t)' = IF g.kind = "wake" THEN f ELSE g
<1>1. Busy(t)' /\ Top(t)' = g
  BY AddTop
<1>2. /\ Len(stack[t]) \in Nat /\ Len(stack'[t]) = Len(stack[t]) + 1 /\ stack'[t][Len(stack[t])] = f
  BY DEF Adds
<1>3. Len(stack'[t]) - 1 = Len(stack[t])
  BY <1>2
<1>. QED
  BY <1>1, <1>2, <1>3 DEF Under

LEMMA CallMatched ==
  ASSUME Inv, Inv', WakeInv, ~stopping, NEW t \in Threads, User(t),
         UNCHANGED <<injector, blockingQueue, counts, stopping, queueClosed, parked>>,
         \A x \in Workers \ {t} : slot'[x] = slot[x],
         permit \subseteq permit',
         \/ Put(t, Called(t))
         \/ \E g : /\ Put(t, Append(Called(t), g))
                   /\ \/ g.kind = "wake"
                      \/ g.kind = "coop" /\ g.pc = "top"
                      \/ g.kind = "block" /\ t \in Hosts /\ g.pc = "top"
                      \/ g.kind = "wait" /\ Top(t).kind = "job" /\ g.pc = "waiting"
  PROVE  WakeInv'
<1>1. PICK f : f = [Top(t) EXCEPT !.work = @ + 1]
  OBVIOUS
<1>2. /\ Busy(t) /\ f.kind = Top(t).kind /\ f.pc = "user" /\ Called(t) = WithTop(t, f)
      /\ Top(t).kind \in UserKinds /\ (Top(t).kind = "host" <=> t \in Hosts)
  BY <1>1, CalledFrame
<1>3. /\ Top(t).kind \notin DriverKinds /\ Top(t).kind # "stop" /\ t \notin Waking /\ ~At(t, "unpark")
      /\ Under(t) = Top(t)
  BY <1>2, Wakes DEF UserKinds, DriverKinds, Under, User, At
<1>4. UNCHANGED <<Claimable, drains, activeDrainers>>
  BY SameClaimable DEF counts
<1>5. CASE Put(t, Called(t))
  <2>1. Turns(t, f) /\ Keeps(t) /\ Below(t)
    BY <1>2, <1>5, TurnsBy DEF Turns, Rewrites
  <2>2. Busy(t)' /\ Top(t)' = f
    BY <2>1, TurnTop
  <2>3. Under(t)' = f
    BY <1>2, <2>2 DEF Under, UserKinds
  <2>4. StopPc' = StopPc
    BY <1>2, <1>3, <2>1, NoStopper DEF Inv
  <2>5. ForClosure(Under(t)) => ForClosure(Under(t)')
    BY <1>2, <1>3, <2>3 DEF ForClosure
  <2>6. f.pc \notin Idling
    BY <1>2 DEF Idling
  <2>. QED
    BY <1>2, <1>3, <1>4, <2>1, <2>2, <2>4, <2>5, <2>6, PlainMatched
<1>6. ASSUME NEW g, Put(t, Append(Called(t), g)),
             \/ g.kind = "wake"
             \/ g.kind = "coop" /\ g.pc = "top"
             \/ g.kind = "block" /\ t \in Hosts /\ g.pc = "top"
             \/ g.kind = "wait" /\ Top(t).kind = "job" /\ g.pc = "waiting"
      PROVE  WakeInv'
  <2>1. Calls2(t, f, g)
    BY <1>2, <1>6 DEF Calls2
  <2>2. Adds(t, f, g) /\ Keeps(t) /\ Below(t)
    BY <1>2, <2>1, AddsBy DEF Adds
  <2>3. Busy(t)' /\ Top(t)' = g /\ Under(t)' = IF g.kind = "wake" THEN f ELSE g
    BY <2>2, AddUnder
  <2>4. StopPc' = StopPc
    BY <1>2, <1>3, <2>2, NoStopper DEF Inv
  <2>5. g.pc \notin Idling
    <3>1. FrameOK(t, g)
      <4>1. stack'[t][Len(stack'[t])] = g /\ Len(stack'[t]) \in 1..Len(stack'[t])
        BY <2>2 DEF Adds
      <4>. QED
        BY <4>1 DEF Inv, Stacks, StackOK
    <3>2. g.kind = "wake" => g.pc \in WakePcs
      BY <3>1 DEF FrameOK
    <3>. QED
      BY <1>6, <3>2 DEF WakePcs, Idling
  <2>6. t \in Workers /\ ForClosure(Under(t)) => ForClosure(Under(t)')
    <3>1. CASE g.kind = "wake"
      BY <1>2, <1>3, <2>3, <3>1 DEF ForClosure
    <3>2. CASE g.kind = "coop" /\ g.pc = "top"
      BY <2>3, <3>2 DEF ForClosure, DriverKinds, ClosurePcs, LoopPcs
    <3>3. CASE t \in Hosts
      BY <3>3, SchedulerAssumption
    <3>4. CASE Top(t).kind = "job"
      BY <1>3, <3>4 DEF ForClosure, DriverKinds
    <3>. QED
      BY <1>6, <3>1, <3>2, <3>3, <3>4
  <2>. QED
    BY <1>2, <1>3, <1>4, <2>2, <2>3, <2>4, <2>5, <2>6, PlainMatched
<1>. QED
  BY <1>5, <1>6

LEMMA ScheduleMatched ==
  ASSUME Inv, Inv', WakeInv, ~stopping, NEW t \in Threads, User(t), NEW u,
         Schedule(t, u, Called(t), Owner(t)),
         UNCHANGED <<injector, blockingQueue, counts, stopping, queueClosed, parked, permit>>
  PROVE  WakeInv'
<1>1. \A x \in Workers \ {t} : slot'[x] = slot[x]
  BY DEF Schedule, ScheduleTo, Inv, DataTypes
<1>2. PICK g : g = PushFrame(slot[t])
  OBVIOUS
<1>3. PICK e : e = PushFrame(u)
  OBVIOUS
<1>4. g.kind = "wake" /\ e.kind = "wake"
  BY <1>2, <1>3 DEF PushFrame, Frame
<1>5. Put(t, Called(t)) \/ Put(t, Append(Called(t), g)) \/ Put(t, Append(Called(t), e))
  BY <1>2, <1>3 DEF Schedule, ScheduleTo
<1>. QED
  BY <1>1, <1>4, <1>5, CallMatched

LEMMA UserCallMatched ==
  ASSUME Inv, Inv', WakeInv, ~stopping, NEW t \in Threads, UserCall(t)
  PROVE  WakeInv'
<1>1. ASSUME NEW u \in Tasks, SpawnTask(t, u)
      PROVE  WakeInv'
  BY <1>1, ScheduleMatched DEF SpawnTask, May, parkers, stops
<1>2. ASSUME NEW u \in Tasks, WakeTask(t, u)
      PROVE  WakeInv'
  <2>1. /\ User(t)
        /\ UNCHANGED <<injector, blockingQueue, counts, stopping, queueClosed, parked, permit>>
    BY <1>2 DEF WakeTask, May, parkers, stops
  <2>2. CASE Schedule(t, u, Called(t), Owner(t))
    BY <2>1, <2>2, ScheduleMatched
  <2>3. CASE Put(t, Called(t)) /\ UNCHANGED slot
    BY <2>1, <2>3, CallMatched
  <2>. QED
    BY <1>2, <2>2, <2>3 DEF WakeTask
<1>3. ASSUME NEW u \in Jobs, SpawnBlocking(t, u)
      PROVE  WakeInv'
  <2>1. PICK g : g = Frame("wake", "enqueue", u)
    OBVIOUS
  <2>2. g.kind = "wake" /\ Put(t, Append(Called(t), g))
    BY <1>3, <2>1 DEF SpawnBlocking, Frame
  <2>3. /\ User(t)
        /\ UNCHANGED <<injector, blockingQueue, slot, counts, stopping, queueClosed, parked, permit>>
    BY <1>3 DEF SpawnBlocking, May, queues, parkers, stops
  <2>. QED
    BY <2>2, <2>3, CallMatched
<1>4. ASSUME NEW u \in Units, SyncWait(t, u)
      PROVE  WakeInv'
  <2>1. PICK g : g = Frame("wait", "waiting", u)
    OBVIOUS
  <2>2. g.kind = "wait" /\ g.pc = "waiting" /\ Put(t, Append(Called(t), g)) /\ Top(t).kind = "job"
    BY <1>4, <2>1 DEF SyncWait, Frame, Owner
  <2>3. /\ User(t)
        /\ UNCHANGED <<injector, blockingQueue, slot, counts, stopping, queueClosed, parked, permit>>
    BY <1>4 DEF SyncWait, May, queues, parkers, stops
  <2>. QED
    BY <2>2, <2>3, CallMatched
<1>5. ASSUME NEW u \in Units \cup {NoUnit}, BlockOn(t, u)
      PROVE  WakeInv'
  <2>1. PICK g : g = Frame(IF t \in Workers THEN "coop" ELSE "block", "top", u)
    OBVIOUS
  <2>2. /\ User(t) /\ Put(t, Append(Called(t), g)) /\ permit \subseteq permit'
        /\ UNCHANGED <<injector, blockingQueue, slot, counts, stopping, queueClosed, parked>>
    BY <1>5, <2>1 DEF BlockOn, May, EnterBlockOn, queues
  <2>3. g.pc = "top" /\ (g.kind = "coop" \/ (g.kind = "block" /\ t \notin Workers))
    BY <2>1 DEF Frame
  <2>4. t \in Workers \/ t \in Hosts
    <3>1. PICK f : f = [Top(t) EXCEPT !.work = @ + 1]
      OBVIOUS
    <3>. QED
      BY <2>2, <3>1, CalledFrame
  <2>. QED
    BY <2>2, <2>3, <2>4, CallMatched
<1>. QED
  BY <1>1, <1>2, <1>3, <1>4, <1>5 DEF UserCall

LEMMA PendingMatched ==
  ASSUME Inv, Inv', WakeInv, ~stopping, NEW t \in Threads, TaskPending(t)
  PROVE  WakeInv'
<1>1. /\ User(t) /\ Busy(t) /\ Top(t).kind = "task" /\ Top(t).kind \in Ending
      /\ UNCHANGED <<injector, blockingQueue, counts, stopping, queueClosed, parked, permit>>
  BY DEF TaskPending, User, At, Ending, parkers, stops
<1>2. t \in Workers /\ t \notin Waking /\ ~At(t, "unpark")
  BY <1>1, TaskTop, Wakes DEF Runner, User, At
<1>3. \A x \in Workers \ {t} : slot'[x] = slot[x]
  BY DEF TaskPending, Schedule, ScheduleTo, Inv, DataTypes
<1>4. CASE Pops(t)
  BY <1>1, <1>2, <1>3, <1>4, ReturnMatched
<1>5. CASE Put(t, Append(Front(stack[t]), PushFrame(slot[t])))
  <2>1. PICK g : g = PushFrame(slot[t])
    OBVIOUS
  <2>2. g.kind = "wake" /\ g.pc = "push" /\ Rewrites(t, g)
    BY <1>5, <2>1 DEF PushFrame, Frame, Rewrites, WithTop
  <2>3. Turns(t, g) /\ Keeps(t) /\ Below(t)
    BY <1>1, <2>2, TurnsBy DEF Turns
  <2>4. Busy(t)' /\ Top(t)' = g
    BY <2>3, TurnTop
  <2>5. ForClosure(Under(t)')
    <3>1. /\ Len(stack[t]) \in Nat \ {0} /\ Top(t) = stack[t][Len(stack[t])]
      BY <1>1, TopFacts DEF Inv
    <3>2. Len(stack[t]) # 1 /\ Nests(stack[t][Len(stack[t]) - 1], Top(t))
      BY <1>1, <3>1, TopNests DEF Bases, Inv
    <3>3. Len(stack[t]) - 1 \in 1..Len(stack[t]) - 1
      BY <3>1, <3>2, Before
    <3>4. stack'[t][Len(stack[t]) - 1] = stack[t][Len(stack[t]) - 1] /\ Len(stack'[t]) = Len(stack[t])
      BY <2>3, <3>3 DEF Turns, Below
    <3>5. Under(t)' = stack[t][Len(stack[t]) - 1]
      BY <2>2, <2>4, <3>4 DEF Under
    <3>6. Under(t)'.kind \in DriverKinds /\ Under(t)'.pc \in ServedPcs
      BY <1>1, <3>2, <3>5 DEF Nests
    <3>. QED
      BY <3>6 DEF ForClosure, ServedPcs, ClosurePcs, LoopPcs
  <2>6. StopPc' = StopPc /\ Top(t).kind \notin DriverKinds
    BY <1>1, <2>3, NoStopper DEF Inv, DriverKinds
  <2>7. UNCHANGED <<Claimable, drains, activeDrainers>>
    BY <1>1, SameClaimable DEF counts
  <2>8. g.pc \notin Idling
    BY <2>2 DEF Idling
  <2>. QED
    BY <1>1, <1>2, <1>3, <2>3, <2>4, <2>5, <2>6, <2>7, <2>8, PlainMatched
<1>6. Pops(t) \/ Put(t, Append(Front(stack[t]), PushFrame(slot[t])))
  BY <1>2 DEF TaskPending, Schedule, ScheduleTo, Pops
<1>. QED
  BY <1>4, <1>5, <1>6

-----------------------------------------------------------------------------
(* push_to_queue_and_wake: what is queued is owed a wake, which wake_one   *)
(* hands to a parked driver or turns into a drainer.                       *)

LEMMA WakeSeen ==
  ASSUME Inv, NEW t \in Threads, Busy(t), Top(t).kind = "wake"
  PROVE  /\ t \notin RunnableTakers /\ t \notin RunnableSleepers /\ t \notin RunnableExits
         /\ t \notin ClosureSleepers /\ t \notin ClosureExits
         /\ t \in ClosureTakers \cup Vacant <=> t \in ClosureTakers
         /\ t \in ClosureTakers <=> t \in Workers /\ ForClosure(Under(t))
         /\ t \in Waking <=> Top(t).pc = "wake"
<1>1. ~Registered(t)
  <2>1. FrameOK(t, Top(t))
    BY TopFacts DEF Inv
  <2>2. Top(t).pc \notin Idling
    BY <2>1 DEF FrameOK, WakePcs, Idling
  <2>. QED
    BY <2>2, MyIdle DEF Registered
<1>. QED
  BY <1>1 DEF RunnableTakers, RunnableSleepers, RunnableExits, ClosureTakers, ClosureSleepers,
     ClosureExits, Vacant, OnTop, ForRunnable, DriverKinds, Waking

LEMMA WakeTurnSeen ==
  ASSUME Inv, Inv', NEW t \in Threads, Busy(t), Top(t).kind = "wake",
         NEW f, Rewrites(t, f), f.kind = "wake"
  PROVE  /\ Turns(t, f) /\ Keeps(t) /\ Below(t) /\ Busy(t)' /\ Top(t)' = f /\ StopPc' = StopPc
         /\ Under(t)' = Under(t) /\ ~Registered(t)'
         /\ t \notin RunnableTakers' /\ t \notin RunnableSleepers' /\ t \notin RunnableExits'
         /\ t \notin ClosureSleepers' /\ t \notin ClosureExits'
         /\ t \in (ClosureTakers \cup Vacant)' <=> t \in ClosureTakers'
         /\ t \in ClosureTakers' <=> t \in Workers /\ ForClosure(Under(t))
         /\ t \in Waking' <=> f.pc = "wake"
         /\ t \in Workers => Popped(t)' /\ Undoing(t)'
<1>1. Turns(t, f) /\ Keeps(t) /\ Below(t)
  BY TurnsBy DEF Turns
<1>2. Busy(t)' /\ Top(t)' = f
  BY <1>1, TurnTop
<1>3. Under(t)' = Under(t)
  <2>1. /\ Len(stack[t]) - 1 \in 1..Len(stack[t]) /\ Under(t) = stack[t][Len(stack[t]) - 1]
    BY UnderFacts DEF Inv
  <2>2. Len(stack[t]) - 1 \in 1..Len(stack[t]) - 1
    BY <1>1, <2>1 DEF Turns
  <2>3. stack'[t][Len(stack[t]) - 1] = stack[t][Len(stack[t]) - 1] /\ Len(stack'[t]) = Len(stack[t])
    BY <1>1, <2>2 DEF Turns, Below
  <2>. QED
    BY <1>2, <2>1, <2>3 DEF Under
<1>4. ~Registered(t)'
  <2>1. FrameOK(t, f)
    <3>1. stack'[t][Len(stack'[t])] = f /\ Len(stack'[t]) \in 1..Len(stack'[t])
      BY <1>1 DEF Turns
    <3>. QED
      BY <3>1 DEF Inv, Stacks, StackOK
  <2>2. f.pc \notin Idling
    BY <2>1 DEF FrameOK, WakePcs, Idling
  <2>. QED
    BY <1>2, <2>2, MyIdleNext
<1>5. ~ForRunnable(f) /\ \A S : ~OnTop(t, S)'
  BY <1>2 DEF ForRunnable, OnTop, DriverKinds
<1>6. /\ ~OnTop(t, {"blocking?", "park"})' /\ ~OnTop(t, {"park"})'
      /\ ~OnTop(t, {"runnable?", "blocking?", "park"})'
      /\ ~OnTop(t, {"undo"})' /\ ~OnTop(t, {"quit"})' /\ ~OnTop(t, {"leave"})'
      /\ ~OnTop(t, {"residue?", "ensure"})' /\ ~OnTop(t, {"residue?", "jobs?", "ensure"})'
      /\ ~OnTop(t, Retired)'
  BY <1>2 DEF OnTop, DriverKinds
<1>7. Popped(t)' /\ Undoing(t)'
  BY <1>6 DEF Popped, Undoing
<1>8. StopPc' = StopPc
  BY <1>1, NoStopper DEF Inv
<1>9. /\ t \notin RunnableTakers' /\ t \notin RunnableSleepers' /\ t \notin RunnableExits'
      /\ t \notin ClosureSleepers' /\ t \notin ClosureExits'
      /\ t \in (ClosureTakers \cup Vacant)' <=> t \in ClosureTakers'
      /\ t \in ClosureTakers' <=> t \in Workers /\ ForClosure(Under(t))
  <2>1. CASE t \in Workers
    BY <1>2, <1>3, <1>4, <1>5, <1>6, <2>1, SeenNext
  <2>2. CASE t \notin Workers
    BY <2>2, Unseen
  <2>. QED
    BY <2>1, <2>2
<1>10. t \in Waking' <=> f.pc = "wake"
  BY <1>2, Wakes
<1>. QED
  BY <1>1, <1>2, <1>3, <1>4, <1>7, <1>8, <1>9, <1>10

LEMMA PushMatched ==
  ASSUME Inv, Inv', WakeInv, ~stopping, NEW t \in Threads, PushInjector(t) \/ Enqueue(t)
  PROVE  WakeInv'
<1>1. /\ Busy(t) /\ Top(t).pc \in {"push", "enqueue"} /\ UNCHANGED <<slot, counts, parked, stopping, queueClosed>>
  BY DEF PushInjector, Enqueue, At, parkers, stops
<1>2. Top(t).kind = "wake" /\ Top(t) \in FrameTypes
  BY <1>1, WakeTop
<1>3. ~queueClosed
  BY DEF WakeInv
<1>4. PICK f : f = [Top(t) EXCEPT !.pc = "wake"]
  OBVIOUS
<1>5. f.kind = "wake" /\ f.pc = "wake" /\ Rewrites(t, f) /\ UNCHANGED permit
  BY <1>2, <1>3, <1>4 DEF FrameTypes, PushInjector, Enqueue, Go, Rewrites, parkers
<1>6. /\ Turns(t, f) /\ Keeps(t) /\ Below(t) /\ StopPc' = StopPc
      /\ t \in Workers => Popped(t)' /\ Undoing(t)'
  BY <1>1, <1>2, <1>5, WakeTurnSeen
<1>7. /\ t \notin RunnableTakers /\ t \notin RunnableExits /\ t \notin ClosureExits /\ t \notin Waking
      /\ t \notin RunnableTakers' /\ t \notin RunnableSleepers' /\ t \notin RunnableExits'
      /\ t \notin ClosureSleepers' /\ t \notin ClosureExits' /\ t \in Waking'
      /\ t \in ClosureTakers => t \in ClosureTakers'
      /\ t \in ClosureTakers \cup Vacant => t \in (ClosureTakers \cup Vacant)'
  BY <1>1, <1>2, <1>5, WakeSeen, WakeTurnSeen
<1>8. /\ Len(injector) \in Nat /\ Claimable \in Int /\ drains \in Nat /\ activeDrainers \in Nat
      /\ Len(injector') \in Nat /\ Claimable' \in Int /\ UNCHANGED <<drains, activeDrainers>>
  BY <1>1, CountTypes, CountTypesNext DEF Inv, counts
<1>9. Len(injector') <= Len(injector) + 1 /\ Claimable' <= Claimable + 1
  <2>1. CASE PushInjector(t)
    <3>1. injector' = Append(injector, Top(t).u) /\ UNCHANGED blockingQueue
      BY <2>1 DEF PushInjector
    <3>2. Top(t).u \in Tasks
      BY <1>1, <2>1, WakeTop DEF PushInjector, At
    <3>3. Len(injector') = Len(injector) + 1
      BY <3>1, <3>2, AppendProperties DEF Inv, DataTypes
    <3>4. Claimable' = Claimable
      BY <1>1, <3>1, SameClaimable DEF counts
    <3>. QED
      BY <1>8, <3>3, <3>4
  <2>2. CASE Enqueue(t)
    <3>1. blockingQueue' = Append(blockingQueue, Top(t).u) /\ UNCHANGED injector
      BY <1>3, <2>2 DEF Enqueue
    <3>2. Top(t).u \in Jobs
      BY <1>1, <2>2, WakeTop DEF Enqueue, At
    <3>3. Len(blockingQueue') = Len(blockingQueue) + 1 /\ Len(blockingQueue) \in Nat
      BY <3>1, <3>2, AppendProperties DEF Inv, DataTypes
    <3>4. PICK q \in Nat, l \in Nat, n \in Nat :
            q = Len(blockingQueue) /\ l = activeBlocking /\ n = MaxBlocking
      BY <3>3, SchedulerAssumption DEF Inv, DataTypes
    <3>5. MaxBlocking - activeBlocking' = n - l /\ Len(blockingQueue') = q + 1
      BY <1>1, <3>3, <3>4 DEF counts
    <3>6. Claimable' = IF q + 1 < n - l THEN q + 1 ELSE n - l
      BY <3>5 DEF Claimable, Lesser
    <3>7. Claimable = IF q < n - l THEN q ELSE n - l
      BY <3>4 DEF Claimable, Lesser
    <3>8. Claimable' <= Claimable + 1
      BY <3>4, <3>6, <3>7
    <3>. QED
      BY <1>8, <3>1, <3>8
  <2>. QED
    BY <2>1, <2>2
<1>10. /\ One(t \in Waking) = 0 /\ One(t \in Waking') = 1 /\ One(t \in RunnableTakers) = 0
       /\ One(t \in RunnableTakers') = 0 /\ One(t \in RunnableExits) = 0 /\ One(t \in RunnableExits') = 0
       /\ One(t \in ClosureExits) = 0 /\ One(t \in ClosureExits') = 0
  BY <1>7 DEF One
<1>11. /\ One(t \in ClosureTakers) \in Nat /\ One(t \in ClosureTakers') \in Nat
       /\ One(t \in ClosureTakers) <= One(t \in ClosureTakers')
  BY <1>7 DEF One
<1>12. /\ One(t \in ClosureTakers \cup Vacant) \in Nat /\ One(t \in (ClosureTakers \cup Vacant)') \in Nat
       /\ One(t \in ClosureTakers \cup Vacant) <= One(t \in (ClosureTakers \cup Vacant)')
  BY <1>7 DEF One
<1>13. RunnableStep(t)
  BY <1>7, <1>8, <1>9, <1>10 DEF RunnableStep
<1>14. ClosureStep(t)
  <2>1. Claimable' + One(t \in Waking) + One(t \in ClosureTakers \cup Vacant)
          <= Claimable + One(t \in Waking') + One(t \in (ClosureTakers \cup Vacant)')
    BY <1>8, <1>9, <1>10, <1>12
  <2>2. Claimable' + One(t \in Waking) + One(t \in ClosureTakers) + drains + One(t \in ClosureExits)
          <= Claimable + One(t \in Waking') + One(t \in ClosureTakers') + drains' + One(t \in ClosureExits')
    BY <1>8, <1>9, <1>10, <1>11
  <2>3. activeDrainers + One(t \in ClosureExits) <= activeDrainers' + One(t \in ClosureExits')
    BY <1>8, <1>10
  <2>. QED
    BY <1>7, <2>1, <2>2, <2>3 DEF ClosureStep
<1>15. ~At(t, "unpark") /\ UNCHANGED <<slot, parked, permit, stopping, queueClosed>>
  BY <1>1, <1>5 DEF At
<1>. QED
  BY <1>6, <1>13, <1>14, <1>15, Moved

LEMMA EnsureMatched ==
  ASSUME Inv, Inv', WakeInv, ~stopping, NEW t \in Threads, Busy(t), Top(t).kind = "wake",
         Top(t).pc = "wake", parked = {}, EnsureDrainer, Pops(t),
         UNCHANGED <<queues, activeBlocking, permit, parked, stopping, queueClosed>>
  PROVE  WakeInv'
<1>1. Drops(t) /\ Keeps(t) /\ Below(t)
  BY DropsBy DEF Drops
<1>2. /\ Busy(t)' /\ Under(t)' = Top(t)' /\ Under(t) = Top(t)' /\ Top(t)'.pc \notin Idling \cup Retired
  BY <1>1, Uncovers, UncoversCalm DEF Inv, Bases
<1>3. \A x : ~Registered(x)'
  BY DEF Registered
<1>4. RunnableSleepers' = {} /\ ClosureSleepers' = {}
  BY <1>3 DEF RunnableSleepers, ClosureSleepers
<1>5. StopPc' = StopPc
  BY <1>1, NoStopper DEF Inv
<1>6. Popped(t)' /\ Undoing(t)'
  BY <1>2 DEF Popped, Undoing, OnTop, Idling
<1>7. /\ t \notin RunnableTakers /\ t \notin RunnableExits /\ t \notin ClosureExits /\ t \in Waking
      /\ t \in ClosureTakers => t \in Workers /\ ForClosure(Under(t))
  BY WakeSeen
<1>8. t \in ClosureTakers => t \in ClosureTakers'
  BY <1>2, <1>3, <1>7, SeenNext
<1>9. /\ Len(injector) \in Nat /\ Claimable \in Int /\ drains \in Nat /\ activeDrainers \in Nat
      /\ Claimable' = Claimable /\ injector' = injector /\ Cardinality(Workers) \in Nat
  BY CountTypes, SameClaimable DEF Inv, queues
<1>10. /\ One(t \in Waking) = 1 /\ One(t \in RunnableTakers) = 0 /\ One(t \in RunnableExits) = 0
       /\ One(t \in ClosureExits) = 0
  BY <1>7 DEF One
<1>11. /\ One(t \in Waking') \in Nat /\ One(t \in RunnableTakers') \in Nat
       /\ One(t \in RunnableExits') \in Nat /\ One(t \in ClosureExits') \in Nat
  BY DEF One
<1>12. /\ One(t \in ClosureTakers) \in Nat /\ One(t \in ClosureTakers') \in Nat
       /\ One(t \in ClosureTakers) <= One(t \in ClosureTakers')
  BY <1>8 DEF One
<1>13. \/ activeDrainers' >= Cardinality(Workers)
       \/ drains' = drains + 1 /\ activeDrainers' = activeDrainers + 1
  BY DEF EnsureDrainer
<1>14. RunnableStep(t)
  BY <1>4, <1>9, <1>10, <1>11, <1>13 DEF RunnableStep
<1>15. ClosureStep(t)
  <2>1. CASE drains' = drains + 1 /\ activeDrainers' = activeDrainers + 1
    <3>1. Claimable' + One(t \in Waking) + One(t \in ClosureTakers) + drains + One(t \in ClosureExits)
            <= Claimable + One(t \in Waking') + One(t \in ClosureTakers') + drains'
                 + One(t \in ClosureExits')
      BY <1>9, <1>10, <1>11, <1>12, <2>1, SMTT(30)
    <3>2. activeDrainers + One(t \in ClosureExits) <= activeDrainers' + One(t \in ClosureExits')
      BY <1>9, <1>10, <1>11, <2>1
    <3>. QED
      BY <1>4, <3>1, <3>2 DEF ClosureStep
  <2>2. CASE activeDrainers' >= Cardinality(Workers)
    BY <1>4, <2>2 DEF ClosureStep
  <2>. QED
    BY <1>13, <2>1, <2>2
<1>16. ~At(t, "unpark") /\ UNCHANGED slot
  BY DEF At, queues
<1>. QED
  BY <1>1, <1>5, <1>6, <1>14, <1>15, <1>16, Moved

\* A registered parker is that of the innermost frame of a pool thread, with its
\* slot empty.
LEMMA ParkedTop ==
  ASSUME Inv, WakeInv, ~stopping, NEW p \in parked
  PROVE  \E w \in Workers : /\ p = Me(w) /\ Busy(w) /\ Top(w).kind \in DriverKinds
                            /\ Top(w).pc \in Idling \ {"quit", "leave"} /\ slot[w] = NoUnit
<1>1. PICK w \in Threads, i \in Nat : /\ p = <<w, i>> /\ i \in 1..Len(stack[w])
                                      /\ Mark(stack[w][i]) \in IdleMarks
  <2>1. p \in Spots(IdleMarks)
    BY DEF Inv, ParkerInv
  <2>2. p \in Threads \X Nat
    BY <2>1, SpotsAre
  <2>3. PICK w \in Threads, i \in Nat : p = <<w, i>>
    BY <2>2
  <2>4. i \in 1..Len(stack[w]) /\ Mark(stack[w][i]) \in IdleMarks
    BY <2>1, <2>3, SpotsAre
  <2>. QED
    BY <2>3, <2>4
<1>2. stack[w][i].kind \in DriverKinds /\ stack[w][i].pc \in Idling
  BY <1>1 DEF Mark, IdleMarks
<1>3. Busy(w)
  <2>1. stack[w] \in Seq(FrameTypes)
    BY DEF Inv, Stacks, StackOK
  <2>. QED
    BY <1>1, <2>1, EmptySeq DEF Busy
<1>4. /\ Len(stack[w]) \in Nat \ {0} /\ Top(w) = stack[w][Len(stack[w])]
  BY <1>3, TopFacts DEF Inv
<1>5. i = Len(stack[w])
  <2>1. ASSUME i # Len(stack[w])
        PROVE  FALSE
    <3>1. i + 1 \in 1..Len(stack[w]) /\ i + 1 # 1 /\ (i + 1) - 1 = i
      BY <1>1, <1>4, <2>1
    <3>2. Nests(stack[w][(i + 1) - 1], stack[w][i + 1])
      BY <3>1 DEF Inv, Stacks, StackOK
    <3>3. Nests(stack[w][i], stack[w][i + 1]) /\ FrameOK(w, stack[w][i + 1])
      BY <3>1, <3>2 DEF Inv, Stacks, StackOK
    <3>4. stack[w][i].pc \in ServedPcs \cup LanePcs \cup WakingPcs
      BY <1>2, <3>3 DEF Nests, FrameOK, FrameTypes, Kinds, Bases, DriverKinds, UserKinds
    <3>. QED
      BY <1>2, <3>4 DEF ServedPcs, LanePcs, WakingPcs, Idling
  <2>. QED
    BY <2>1
<1>6. /\ p = Me(w) /\ Top(w).kind \in DriverKinds /\ Top(w).pc \in Idling
  BY <1>1, <1>2, <1>4, <1>5 DEF Me
<1>7. w \in Workers /\ (Top(w).pc \in QuietPcs => slot[w] = NoUnit)
  BY <1>3, <1>6, DriverPlace
<1>8. Undoing(w) /\ Registered(w)
  BY <1>6, <1>7 DEF WakeInv, Registered
<1>9. Top(w).pc \notin {"quit", "leave"} /\ (Top(w).pc = "undo" => slot[w] = NoUnit)
  BY <1>3, <1>6, <1>8 DEF Undoing, OnTop
<1>10. slot[w] = NoUnit
  <2>1. Top(w).pc \in QuietPcs \/ Top(w).pc = "undo"
    BY <1>6, <1>9 DEF Idling, QuietPcs
  <2>. QED
    BY <1>7, <1>9, <2>1
<1>. QED
  BY <1>3, <1>6, <1>7, <1>9, <1>10

LEMMA PopMatched ==
  ASSUME Inv, Inv', WakeInv, ~stopping, NEW t \in Threads, Busy(t), Top(t).kind = "wake",
         Top(t).pc = "wake", NEW p \in parked, parked' = parked \ {p},
         Put(t, WithTop(t, [Top(t) EXCEPT !.p = p, !.pc = "unpark"])),
         UNCHANGED <<queues, counts, permit, stopping, queueClosed>>
  PROVE  WakeInv'
<1>1. PICK w \in Workers : /\ p = Me(w) /\ Busy(w) /\ Top(w).kind \in DriverKinds
                           /\ Top(w).pc \in Idling \ {"quit", "leave"} /\ slot[w] = NoUnit
  BY ParkedTop
<1>2. PICK f : f = [Top(t) EXCEPT !.p = p, !.pc = "unpark"]
  OBVIOUS
<1>3. Top(t) \in FrameTypes
  BY WakeTop
<1>4. f.kind = "wake" /\ f.pc = "unpark" /\ f.p = p /\ Rewrites(t, f)
  BY <1>2, <1>3 DEF FrameTypes, Rewrites
<1>5. w \in Threads /\ w # t
  BY <1>1 DEF Threads, DriverKinds
<1>6. /\ Turns(t, f) /\ Busy(t)' /\ Top(t)' = f /\ StopPc' = StopPc
      /\ Under(t)' = Under(t) /\ ~Registered(t)'
      /\ t \notin RunnableTakers' /\ t \notin RunnableSleepers' /\ t \notin RunnableExits'
      /\ t \notin ClosureSleepers' /\ t \notin ClosureExits'
      /\ t \in (ClosureTakers \cup Vacant)' <=> t \in ClosureTakers'
      /\ t \in ClosureTakers' <=> t \in Workers /\ ForClosure(Under(t))
      /\ t \notin Waking'
      /\ t \in Workers => Popped(t)' /\ Undoing(t)'
  BY <1>4, WakeTurnSeen
<1>7. /\ t \notin RunnableTakers /\ t \notin RunnableExits /\ t \notin ClosureExits /\ t \in Waking
      /\ t \in ClosureTakers \cup Vacant <=> t \in ClosureTakers
      /\ t \in ClosureTakers <=> t \in Workers /\ ForClosure(Under(t))
  BY WakeSeen
<1>8. ASSUME NEW x \in Threads \ {t}
      PROVE  /\ Busy(x)' <=> Busy(x)
             /\ Top(x)' = Top(x) /\ Under(x)' = Under(x) /\ Me(x)' = Me(x)
  <2>1. stack'[x] = stack[x]
    BY <1>4, PutFacts DEF Inv, Rewrites
  <2>. QED
    BY <2>1 DEF Busy, Top, Under, Me
<1>9. ASSUME NEW x \in Threads \ {t, w}
      PROVE  Registered(x)' <=> Registered(x)
  <2>1. Me(x)' = Me(x)
    BY <1>8
  <2>2. Me(x) # Me(w)
    BY DEF Me
  <2>. QED
    BY <1>1, <2>1, <2>2 DEF Registered
<1>10. Registered(w) /\ ~Registered(w)'
  BY <1>1, <1>5, <1>8 DEF Registered
<1>11. slot' = slot /\ injector' = injector /\ UNCHANGED <<drains, activeDrainers>> /\ Claimable' = Claimable
  BY SameClaimable DEF queues, counts
<1>12. Workers \subseteq Threads
  BY DEF Threads
<1>13. ForRunnable(Top(w)) /\ ForClosure(Under(w))
  <2>1. Under(w) = Top(w)
    BY <1>1 DEF Under, DriverKinds
  <2>. QED
    BY <1>1, <2>1 DEF ForRunnable, ForClosure, Awake, ClosurePcs
<1>14. /\ w \notin RunnableTakers /\ w \in RunnableTakers' /\ w \notin ClosureTakers \cup Vacant
       /\ w \notin ClosureTakers /\ w \in ClosureTakers' /\ w \in (ClosureTakers \cup Vacant)'
  <2>1. Busy(w)' /\ Top(w)' = Top(w) /\ Under(w)' = Under(w)
    BY <1>1, <1>5, <1>8
  <2>2. ~OnTop(w, Retired)
    BY <1>1 DEF OnTop, Idling, Retired
  <2>. QED
    BY <1>1, <1>10, <1>11, <1>13, <2>1, <2>2, Seen, SeenNext
<1>15. Waking' \ {t} = Waking \ {t}
  BY <1>8 DEF Waking
<1>16. RunnableTakers' \ {w} = RunnableTakers \ {w}
  <2>1. ASSUME NEW x \in Workers \ {w}
        PROVE  x \in RunnableTakers' <=> x \in RunnableTakers
    <3>1. CASE x = t
      BY <1>6, <1>7, <3>1
    <3>2. CASE x # t
      <4>1. /\ Busy(x)' <=> Busy(x)
            /\ Top(x)' = Top(x) /\ (Registered(x)' <=> Registered(x))
        BY <1>8, <1>9, <1>12, <2>1, <3>2
      <4>. QED
        BY <1>11, <4>1 DEF RunnableTakers, ForRunnable
    <3>. QED
      BY <3>1, <3>2
  <2>. QED
    BY <2>1 DEF RunnableTakers
<1>17. /\ ClosureTakers' \ {w} = ClosureTakers \ {w}
       /\ (ClosureTakers \cup Vacant)' \ {w} = (ClosureTakers \cup Vacant) \ {w}
  <2>1. ASSUME NEW x \in Workers \ {w}
        PROVE  /\ x \in ClosureTakers' <=> x \in ClosureTakers
               /\ x \in (ClosureTakers \cup Vacant)' <=> x \in ClosureTakers \cup Vacant
    <3>1. CASE x = t
      BY <1>6, <1>7, <3>1
    <3>2. CASE x # t
      <4>1. /\ Busy(x)' <=> Busy(x)
            /\ Top(x)' = Top(x) /\ Under(x)' = Under(x) /\ (Registered(x)' <=> Registered(x))
        BY <1>8, <1>9, <1>12, <2>1, <3>2
      <4>2. x \in ClosureTakers' <=> x \in ClosureTakers
        BY <4>1 DEF ClosureTakers, ForClosure
      <4>3. x \in Vacant' <=> x \in Vacant
        BY <4>1 DEF Vacant, OnTop
      <4>. QED
        BY <4>2, <4>3
    <3>. QED
      BY <3>1, <3>2
  <2>2. \A x : x \in ClosureTakers \/ x \in Vacant \/ x \in ClosureTakers' \/ x \in Vacant' => x \in Workers
    BY DEF ClosureTakers, Vacant
  <2>. QED
    BY <2>1, <2>2
<1>18. RunnableExits' = RunnableExits /\ ClosureExits' = ClosureExits
  <2>1. ASSUME NEW x \in Workers
        PROVE  /\ x \in RunnableExits' <=> x \in RunnableExits
               /\ x \in ClosureExits' <=> x \in ClosureExits
    <3>1. CASE x = t
      BY <1>6, <1>7, <3>1
    <3>2. CASE x # t
      <4>1. /\ Busy(x)' <=> Busy(x)
            /\ Top(x)' = Top(x)
        BY <1>8, <1>12, <2>1, <3>2
      <4>. QED
        BY <2>1, <4>1 DEF RunnableExits, ClosureExits, OnTop
    <3>. QED
      BY <3>1, <3>2
  <2>. QED
    BY <2>1 DEF RunnableExits, ClosureExits
<1>19. RunnableSleepers' \subseteq RunnableSleepers /\ ClosureSleepers' \subseteq ClosureSleepers
  <2>1. ASSUME NEW x \in Workers
        PROVE  /\ x \in RunnableSleepers' => x \in RunnableSleepers
               /\ x \in ClosureSleepers' => x \in ClosureSleepers
    <3>1. CASE x = t
      BY <1>6, <3>1
    <3>2. CASE x = w
      BY <1>10, <3>2 DEF RunnableSleepers, ClosureSleepers
    <3>3. CASE x # t /\ x # w
      <4>1. /\ Busy(x)' <=> Busy(x)
            /\ Top(x)' = Top(x) /\ (Registered(x)' <=> Registered(x))
        BY <1>8, <1>9, <1>12, <2>1, <3>3
      <4>. QED
        BY <2>1, <4>1 DEF RunnableSleepers, ClosureSleepers, OnTop
    <3>. QED
      BY <3>1, <3>2, <3>3
  <2>. QED
    BY <2>1 DEF RunnableSleepers, ClosureSleepers
<1>20. /\ IsFiniteSet(Waking') /\ Cardinality(Waking) \in Nat /\ Cardinality(Waking') \in Nat
       /\ Cardinality(Waking') + 1 = Cardinality(Waking)
  <2>1. IsFiniteSet(Waking)
    BY DEF WakeInv
  <2>2. /\ IsFiniteSet(Waking') /\ Cardinality(Waking) \in Nat /\ Cardinality(Waking') \in Nat
        /\ Cardinality(Waking') + One(t \in Waking) = Cardinality(Waking) + One(t \in Waking')
    BY <1>15, <2>1, Changes
  <2>3. One(t \in Waking) = 1 /\ One(t \in Waking') = 0
    BY <1>6, <1>7 DEF One
  <2>. QED
    BY <2>2, <2>3
<1>21. ASSUME NEW A, NEW B, A \subseteq Workers, B \ {w} = A \ {w}, w \notin A, w \in B
       PROVE  Cardinality(A) \in Nat /\ Cardinality(B) = Cardinality(A) + 1
  <2>1. IsFiniteSet(A)
    BY <1>21, SomeWorkers
  <2>2. One(w \in A) = 0 /\ One(w \in B) = 1
    BY <1>21 DEF One
  <2>3. /\ Cardinality(A) \in Nat /\ Cardinality(B) \in Nat
        /\ Cardinality(B) + One(w \in A) = Cardinality(A) + One(w \in B)
    BY <1>21, <2>1, Changes
  <2>. QED
    BY <2>2, <2>3
<1>22. /\ Cardinality(RunnableTakers) \in Nat
       /\ Cardinality(RunnableTakers') = Cardinality(RunnableTakers) + 1
  <2>1. RunnableTakers \subseteq Workers
    BY DEF RunnableTakers
  <2>. QED
    BY <1>14, <1>16, <1>21, <2>1
<1>23. /\ Cardinality(ClosureTakers) \in Nat
       /\ Cardinality(ClosureTakers') = Cardinality(ClosureTakers) + 1
  <2>1. ClosureTakers \subseteq Workers
    BY DEF ClosureTakers
  <2>. QED
    BY <1>14, <1>17, <1>21, <2>1
<1>24. /\ Cardinality(ClosureTakers \cup Vacant) \in Nat
       /\ Cardinality((ClosureTakers \cup Vacant)') = Cardinality(ClosureTakers \cup Vacant) + 1
  <2>1. ClosureTakers \cup Vacant \subseteq Workers
    BY DEF ClosureTakers, Vacant
  <2>. QED
    BY <1>14, <1>17, <1>21, <2>1
<1>25. /\ Len(injector) \in Nat /\ Claimable \in Int /\ drains \in Nat /\ activeDrainers \in Nat
       /\ Cardinality(RunnableExits) \in Nat /\ Cardinality(ClosureExits) \in Nat
  <2>1. RunnableExits \subseteq Workers /\ ClosureExits \subseteq Workers
    BY DEF RunnableExits, ClosureExits
  <2>. QED
    BY <2>1, SomeWorkers, FS_CardinalityType, CountTypes DEF Inv
<1>26. RunnablesMatched'
  <2>1. /\ RunnableSleepers # {} => Len(injector) <= Cardinality(Waking) + Cardinality(RunnableTakers)
        /\ \/ Len(injector) <= Cardinality(Waking) + Cardinality(RunnableTakers) + drains
                                 + Cardinality(RunnableExits)
           \/ activeDrainers + Cardinality(RunnableExits) >= Cardinality(Workers)
    BY DEF WakeInv, RunnablesMatched, Matched
  <2>2. RunnableSleepers' # {} => Len(injector') <= Cardinality(Waking') + Cardinality(RunnableTakers')
    <3>1. CASE RunnableSleepers # {}
      BY <1>11, <1>20, <1>22, <1>25, <2>1, <3>1
    <3>2. CASE RunnableSleepers = {}
      BY <1>19, <3>2
    <3>. QED
      BY <3>1, <3>2
  <2>3. \/ Len(injector') <= Cardinality(Waking') + Cardinality(RunnableTakers') + drains'
                               + Cardinality(RunnableExits')
        \/ activeDrainers' + Cardinality(RunnableExits') >= Cardinality(Workers)
    BY <1>11, <1>18, <1>20, <1>22, <1>25, <2>1
  <2>. QED
    BY <2>2, <2>3 DEF RunnablesMatched, Matched
<1>27. ClosuresMatched'
  <2>1. /\ ClosureSleepers # {} => Claimable <= Cardinality(Waking) + Cardinality(ClosureTakers \cup Vacant)
        /\ \/ Claimable <= Cardinality(Waking) + Cardinality(ClosureTakers) + drains
                             + Cardinality(ClosureExits)
           \/ activeDrainers + Cardinality(ClosureExits) >= Cardinality(Workers)
    BY DEF WakeInv, ClosuresMatched, Matched
  <2>2. ClosureSleepers' # {} => Claimable' <= Cardinality(Waking') + Cardinality((ClosureTakers \cup Vacant)')
    <3>1. CASE ClosureSleepers # {}
      BY <1>11, <1>20, <1>24, <1>25, <2>1, <3>1
    <3>2. CASE ClosureSleepers = {}
      BY <1>19, <3>2
    <3>. QED
      BY <3>1, <3>2
  <2>3. \/ Claimable' <= Cardinality(Waking') + Cardinality(ClosureTakers') + drains'
                           + Cardinality(ClosureExits')
        \/ activeDrainers' + Cardinality(ClosureExits') >= Cardinality(Workers)
    BY <1>11, <1>18, <1>20, <1>23, <1>25, <2>1
  <2>. QED
    BY <2>2, <2>3 DEF ClosuresMatched, Matched
<1>28. ASSUME NEW x \in Workers
       PROVE  Popped(x)' /\ Undoing(x)'
  <2>1. CASE x = t
    BY <1>6, <2>1
  <2>2. CASE x # t
    <3>1. /\ Busy(x)' <=> Busy(x)
          /\ Top(x)' = Top(x) /\ Me(x)' = Me(x) /\ Popped(x) /\ Undoing(x)
      BY <1>8, <1>12, <1>28, <2>2 DEF WakeInv
    <3>2. Registered(x)' => Registered(x)
      <4>1. parked' \subseteq parked
        OBVIOUS
      <4>. QED
        BY <3>1, <4>1 DEF Registered
    <3>3. Undoing(x)'
      BY <1>11, <3>1, <3>2 DEF Undoing, OnTop
    <3>4. ASSUME OnTop(x, {"runnable?", "blocking?", "park"})', ~Registered(x)'
          PROVE  Notified(x)'
      <4>1. CASE x = w
        <5>1. At(t, "unpark")' /\ Top(t)'.kind = "wake" /\ Top(t)'.p = Me(x)'
          BY <1>1, <1>4, <1>6, <3>1, <4>1 DEF At
        <5>. QED
          BY <5>1 DEF Notified
      <4>2. CASE x # w
        <5>1. ~Registered(x) /\ OnTop(x, {"runnable?", "blocking?", "park"})
          BY <1>9, <1>12, <2>2, <3>1, <3>4, <4>2 DEF OnTop
        <5>2. Notified(x)
          BY <3>1, <5>1 DEF Popped
        <5>3. CASE Me(x) \in permit
          BY <3>1, <5>3 DEF Notified
        <5>4. ASSUME NEW y \in Threads, At(y, "unpark"), Top(y).kind = "wake", Top(y).p = Me(x)
              PROVE  Notified(x)'
          <6>1. y # t
            BY <5>4 DEF At
          <6>2. At(y, "unpark")' /\ Top(y)'.kind = "wake" /\ Top(y)'.p = Me(x)'
            BY <1>8, <3>1, <5>4, <6>1 DEF At
          <6>. QED
            BY <6>2 DEF Notified
        <5>. QED
          BY <5>2, <5>3, <5>4 DEF Notified
      <4>. QED
        BY <4>1, <4>2
    <3>. QED
      BY <3>3, <3>4 DEF Popped
  <2>. QED
    BY <2>1, <2>2
<1>29. /\ queueClosed' => stopping'
       /\ StopPc' = "publish" <=> ~stopping'
  BY <1>6 DEF WakeInv
<1>. QED
  BY <1>20, <1>26, <1>27, <1>28, <1>29 DEF WakeInv

LEMMA WakeStepMatched ==
  ASSUME Inv, Inv', WakeInv, ~stopping, NEW t \in Threads, WakeStep(t)
  PROVE  WakeInv'
<1>1. ASSUME WakeOne(t)
      PROVE  WakeInv'
  <2>1. /\ Busy(t) /\ Top(t).pc = "wake"
        /\ UNCHANGED <<units, queues, activeBlocking, permit, stopping, queueClosed>>
    BY <1>1 DEF WakeOne, At, stops
  <2>2. Top(t).kind = "wake"
    BY <2>1, WakeTop
  <2>3. CASE parked = {} /\ EnsureDrainer /\ Put(t, Front(stack[t])) /\ UNCHANGED parked
    BY <2>1, <2>2, <2>3, EnsureMatched DEF Pops
  <2>4. ASSUME NEW p \in parked, parked' = parked \ {p},
               Put(t, WithTop(t, [Top(t) EXCEPT !.p = p, !.pc = "unpark"])),
               UNCHANGED <<drains, activeDrainers>>
        PROVE  WakeInv'
    <3>1. UNCHANGED <<queues, counts, permit, stopping, queueClosed>>
      BY <2>1, <2>4 DEF counts
    <3>. QED
      BY <2>1, <2>2, <2>4, <3>1, PopMatched
  <2>. QED
    BY <1>1, <2>3, <2>4 DEF WakeOne
<1>. QED
  BY <1>1, PushMatched, OverMatched DEF WakeStep

-----------------------------------------------------------------------------
(* Every step.                                                             *)

\* A thread moves no frame of another one, but for the parkers it takes along.
Apart(t) ==
  /\ \A x \in Threads \ {t} :
       stack'[x] = stack[x] \/ stack'[x] = WithoutTop(t)[x]
  /\ UNCHANGED <<stopping, queueClosed>>
LEMMA PutApart ==
  ASSUME NEW t \in Threads, NEW s, Put(t, s), UNCHANGED <<stopping, queueClosed>>, Inv
  PROVE  Apart(t)
<1>1. \A x \in Threads \ {t} : stack'[x] = stack[x]
  BY PutFacts DEF Inv
<1>. QED
  BY <1>1 DEF Apart

LEMMA ScheduleApart ==
  ASSUME Inv, NEW t \in Threads, NEW u, NEW s, NEW owner, Schedule(t, u, s, owner),
         UNCHANGED <<stopping, queueClosed>>
  PROVE  Apart(t)
<1>1. \/ Put(t, s) \/ Put(t, Append(s, PushFrame(slot[t]))) \/ Put(t, Append(s, PushFrame(u)))
  BY DEF Schedule, ScheduleTo
<1>. QED
  BY <1>1, PutApart

LEMMA FlushApart ==
  ASSUME Inv, NEW t \in Threads, NEW f, Flush(t, f), UNCHANGED <<stopping, queueClosed>>
  PROVE  Apart(t)
<1>1. Put(t, WithTop(t, f)) \/ Put(t, Append(WithTop(t, f), PushFrame(slot[t])))
  BY DEF Flush
<1>. QED
  BY <1>1, PutApart

LEMMA TakeApart ==
  ASSUME Inv, NEW t \in Threads, NEW f, TakeBlocking(t, f)
  PROVE  Apart(t)
  BY PutApart DEF TakeBlocking, stops

LEMMA RunApart ==
  ASSUME Inv, NEW t \in Threads, NEW u, NEW f, RunClaimed(t, u, f), UNCHANGED stops
  PROVE  Apart(t)
<1>1. Put(t, WithTop(t, f)) \/ Put(t, Append(WithTop(t, f), Frame("task", "user", u)))
  BY DEF RunClaimed
<1>. QED
  BY <1>1, PutApart DEF stops

LEMMA WithoutTopApart ==
  ASSUME NEW t \in Threads, stack' = WithoutTop(t), UNCHANGED <<stopping, queueClosed>>
  PROVE  Apart(t)
  BY DEF Apart

LEMMA DriveApart ==
  ASSUME Inv, NEW t \in Threads, DriveStep(t)
  PROVE  Apart(t)
<1>1. CASE FairBlocking(t)
  <2>1. PICK f : f = [Top(t) EXCEPT !.streak = 0]
    OBVIOUS
  <2>2. \/ TakeBlocking(t, [f EXCEPT !.pc = "release"])
        \/ Put(t, WithTop(t, [f EXCEPT !.pc = "claim"])) /\ UNCHANGED stops
    BY <1>1, <2>1 DEF FairBlocking
  <2>. QED
    BY <2>2, TakeApart, PutApart DEF stops
<1>2. CASE Claim(t)
  <2>1. /\ UNCHANGED stops
        /\ \/ RunClaimed(t, slot[t], ServedRunnable(Top(t)))
           \/ RunClaimed(t, Head(injector), ServedRunnable(Top(t)))
           \/ Go(t, "block")
    BY <1>2 DEF Claim
  <2>. QED
    BY <2>1, RunApart, PutApart DEF stops, Go
<1>3. CASE ForceFifo(t)
  <2>1. PICK f : f = [Top(t) EXCEPT !.force = FALSE]
    OBVIOUS
  <2>2. /\ UNCHANGED stops
        /\ \/ RunClaimed(t, Head(injector),
                         [f EXCEPT !.streak = @ + 1, !.work = @ + 1, !.pc = "top"])
           \/ Put(t, WithTop(t, [f EXCEPT !.pc = "fair"]))
    BY <1>3, <2>1 DEF ForceFifo
  <2>. QED
    BY <2>2, RunApart, PutApart DEF stops
<1>4. CASE Block(t) \/ Yield(t) \/ FlushBeforeExit(t)
  <2>1. \/ TakeBlocking(t, [Top(t) EXCEPT !.streak = 0, !.pc = "release"])
        \/ UNCHANGED stops /\ \E f : Flush(t, f)
    BY <1>4 DEF Block, Yield, FlushBeforeExit
  <2>. QED
    BY <2>1, TakeApart, FlushApart DEF stops
<1>5. CASE Deregister(t)
  <2>1. /\ UNCHANGED stops
        /\ \/ Put(t, WithTop(t, Restarted(Top(t)))) \/ Go(t, "exit") \/ Go(t, "permit?")
           \/ \E f : Flush(t, f)
    BY <1>5 DEF Deregister
  <2>. QED
    BY <2>1, FlushApart, PutApart DEF stops, Go
<1>6. CASE Release(t) \/ GoIdle(t) \/ Recheck(t) \/ Park(t) \/ AfterExpiry(t) \/ Retire(t)
  BY <1>6, PutApart DEF Release, GoIdle, Recheck, Park, AfterExpiry, Retire, Go, stops
<1>7. CASE Register(t) \/ Residue(t) \/ Rearm(t) \/ LingerEnds(t) \/ LingerExpires(t)
  BY <1>7, PutApart DEF Register, Residue, Rearm, LingerEnds, LingerExpires, Go, stops
<1>8. CASE NotifyIdle(t)
  BY <1>8, WithoutTopApart DEF NotifyIdle
<1>9. CASE Compensate(t)
  <2>1. \/ UNCHANGED stops /\ \E s : Put(t, s)
        \/ TakeBlocking(t, [Top(t) EXCEPT !.pc = "xrelease"])
    BY <1>9 DEF Compensate
  <2>. QED
    BY <2>1, TakeApart, PutApart DEF stops
<1>. QED
  BY <1>1, <1>2, <1>3, <1>4, <1>5, <1>6, <1>7, <1>8, <1>9 DEF DriveStep

LEMMA CodeApart ==
  ASSUME Inv, NEW t \in Threads, CodeStep(t)
  PROVE  Apart(t)
<1>1. CASE WakeStep(t)
  <2>1. UNCHANGED stops /\ \E s : Put(t, s)
    BY <1>1 DEF WakeStep, PushInjector, WakeOne, Unpark, Enqueue, Go
  <2>. QED
    BY <2>1, PutApart DEF stops
<1>2. CASE Poll(t) \/ HostPark(t)
  BY <1>2, PutApart DEF Poll, HostPark, Go, stops
<1>3. CASE LeaveBlockOn(t)
  BY <1>3, WithoutTopApart DEF LeaveBlockOn
<1>4. CASE SyncDone(t) \/ StartDrain(t)
  BY <1>4, PutApart DEF SyncDone, StartDrain, stops
<1>5. CASE DriveStep(t)
  BY <1>5, DriveApart
<1>. QED
  BY <1>1, <1>2, <1>3, <1>4, <1>5 DEF CodeStep, BlockStep

LEMMA UserApart ==
  ASSUME Inv, NEW t \in Threads, UserCall(t) \/ UserReturn(t)
  PROVE  Apart(t)
<1>1. ASSUME NEW u \in Tasks, SpawnTask(t, u)
      PROVE  Apart(t)
  BY <1>1, ScheduleApart DEF SpawnTask, stops
<1>2. ASSUME NEW u \in Tasks, WakeTask(t, u)
      PROVE  Apart(t)
  BY <1>2, ScheduleApart, PutApart DEF WakeTask, stops
<1>3. ASSUME NEW u \in Jobs, SpawnBlocking(t, u)
      PROVE  Apart(t)
  BY <1>3, PutApart DEF SpawnBlocking, stops
<1>4. ASSUME NEW u \in Units, SyncWait(t, u)
      PROVE  Apart(t)
  BY <1>4, PutApart DEF SyncWait, stops
<1>5. ASSUME NEW u \in Units \cup {NoUnit}, BlockOn(t, u)
      PROVE  Apart(t)
  BY <1>5, PutApart DEF BlockOn, EnterBlockOn
<1>6. CASE TaskReady(t) \/ JobReturns(t)
  BY <1>6, PutApart DEF TaskReady, JobReturns, stops
<1>7. CASE TaskPending(t)
  BY <1>7, ScheduleApart, PutApart DEF TaskPending, stops
<1>. QED
  BY <1>1, <1>2, <1>3, <1>4, <1>5, <1>6, <1>7 DEF UserCall, UserReturn

\* The stop goes on by its own steps alone.
LEMMA StopStays ==
  ASSUME Inv, NEW t \in Threads, CodeStep(t) \/ UserCall(t) \/ UserReturn(t)
  PROVE  StopPc' = StopPc /\ UNCHANGED <<stopping, queueClosed>>
<1>. DEFINE s == stack[Stopper]
<1>1. Apart(t)
  BY CodeApart, UserApart
<1>2. Stopper \in Threads /\ StackOK(Stopper, s) /\ s # <<>>
  BY DEF Threads, Inv, Stacks, StackOK
<1>3. s \in Seq(FrameTypes) /\ Len(s) \in Nat \ {0} /\ 1 \in 1..Len(s) /\ FrameOK(Stopper, s[1])
  BY <1>2, EmptySeq DEF StackOK
<1>4. CASE t # Stopper
  <2>1. stack'[Stopper] = s \/ stack'[Stopper] = WithoutTop(t)[Stopper]
    BY <1>1, <1>2, <1>4 DEF Apart
  <2>2. WithoutTop(t)[Stopper] =
          [i \in 1..Len(s) |-> IF s[i].p = Me(t) THEN [s[i] EXCEPT !.p = NoParker] ELSE s[i]]
    BY <1>2, <1>4 DEF WithoutTop
  <2>3. s[1] \in FrameTypes /\ WithoutTop(t)[Stopper][1].pc = s[1].pc
    BY <1>3, <2>2 DEF FrameOK, FrameTypes
  <2>4. StopPc' = StopPc
    BY <2>1, <2>3 DEF StopPc
  <2>. QED
    BY <1>1, <2>4 DEF Apart
<1>5. CASE t = Stopper
  <2>1. t \notin Workers /\ t \notin Hosts
    BY <1>5, SchedulerAssumption
  <2>2. Busy(t) /\ Top(t) = s[Len(s)] /\ FrameOK(t, Top(t)) /\ Top(t).kind \in {"stop", "wake"}
    <3>1. Busy(t)
      BY <1>2, <1>5 DEF Busy
    <3>2. Top(t) = s[Len(s)] /\ FrameOK(t, Top(t))
      BY <1>5, <3>1, TopFacts DEF Inv
    <3>. QED
      BY <2>1, <3>1, <3>2 DEF FrameOK, FrameTypes, Kinds
  <2>3. ~UserCall(t) /\ ~UserReturn(t)
    <3>1. ~User(t)
      BY <2>2 DEF User, UserKinds
    <3>. QED
      BY <3>1 DEF UserCall, UserReturn, SpawnTask, WakeTask, SpawnBlocking, SyncWait, BlockOn, May,
         TaskReady, TaskPending, JobReturns
  <2>4. Top(t).pc \in StopPcs \cup WakePcs
    BY <2>2 DEF FrameOK
  <2>5. ~BlockStep(t) /\ ~SyncDone(t)
    BY <2>2, <2>4 DEF BlockStep, Poll, HostPark, LeaveBlockOn, SyncDone, At, StopPcs, WakePcs
  <2>6. WakeStep(t)
    BY <2>1, <2>3, <2>5 DEF CodeStep
  <2>7. /\ \/ \E f : Put(t, Append(Front(s), f))
           \/ Put(t, Front(s))
        /\ At(t, "push") \/ At(t, "wake") \/ Top(t).kind = "wake" \/ At(t, "enqueue")
    BY <1>5, <2>6 DEF WakeStep, PushInjector, WakeOne, Unpark, Enqueue, Go, WithTop
  <2>8. Top(t).kind = "wake"
    BY <2>2, <2>7, WakeTop DEF At
  <2>9. Len(s) # 1
    BY <1>5, <2>2, <2>8, TopNests DEF Inv, Bases
  <2>10. 1 \in 1..Len(s)-1 /\ Len(s)-1 \in Nat \ {0}
    BY <1>3, <2>9, Before
  <2>11. /\ Front(s) \in Seq(FrameTypes) /\ Len(Front(s)) = Len(s) - 1
         /\ Front(s)[1] = s[1]
    BY <1>2, <1>3, <2>10, FrontFacts
  <2>12. ASSUME NEW f PROVE Append(Front(s), f)[1] = s[1]
    <3>1. Front(s) \in Seq(FrameTypes \cup {f})
      BY <2>11
    <3>2. \A i \in 1..Len(Front(s)) : Append(Front(s), f)[i] = Front(s)[i]
      BY <3>1, AppendProperties
    <3>. QED
      BY <2>10, <2>11, <3>2
  <2>13. stack'[Stopper][1] = s[1]
    <3>1. stack'[Stopper] = Front(s) \/ \E f : stack'[Stopper] = Append(Front(s), f)
      BY <1>5, <2>7, PutFacts DEF Inv
    <3>. QED
      BY <2>11, <2>12, <3>1
  <2>. QED
    BY <1>1, <2>13 DEF StopPc, Apart
<1>. QED
  BY <1>4, <1>5

LEMMA ThreadsMatched ==
  ASSUME Inv, Inv', WakeInv, ~stopping, NEW t \in Threads, CodeStep(t) \/ UserCall(t) \/ UserReturn(t)
  PROVE  WakeInv'
<1>1. CASE LingerEnds(t) \/ GoIdle(t) \/ Recheck(t) \/ LingerExpires(t) \/ Residue(t)
  BY <1>1, SimpleMatched
<1>2. CASE Register(t) \/ Park(t) \/ AfterExpiry(t) \/ Deregister(t)
  BY <1>2, Parking, DeregisterMatched
<1>3. CASE FlushBeforeExit(t) \/ Yield(t) \/ Block(t)
  BY <1>3, FlushesMatched, BlockMatched
<1>4. CASE FairBlocking(t) \/ Release(t) \/ Claim(t) \/ ForceFifo(t)
  BY <1>4, FairMatched, ReleaseMatched, ClaimsMatched, ForceMatched
<1>5. CASE Compensate(t) \/ Retire(t) \/ Rearm(t) \/ NotifyIdle(t)
  BY <1>5, CompensateMatched, RetireMatched, RearmMatched, NotifyMatched
<1>6. DriveStep(t) => WakeInv'
  BY <1>1, <1>2, <1>3, <1>4, <1>5 DEF DriveStep
<1>7. t \in Workers /\ StartDrain(t) => WakeInv'
  BY StartMatched
<1>8. BlockStep(t) => WakeInv'
  BY LoopMatched
<1>9. WakeStep(t) => WakeInv'
  BY WakeStepMatched
<1>10. SyncDone(t) \/ TaskReady(t) \/ JobReturns(t) => WakeInv'
  BY OverMatched
<1>11. TaskPending(t) \/ UserCall(t) => WakeInv'
  BY PendingMatched, UserCallMatched
<1>. QED
  BY <1>6, <1>7, <1>8, <1>9, <1>10, <1>11 DEF CodeStep, UserReturn

\* Once the generation stops there is nothing to match.
LEMMA StopMatched ==
  ASSUME Inv, WakeInv, StopStep
  PROVE  WakeInv'
<1>1. ASSUME NEW pc, Stopping(pc)
      PROVE  StopPc = pc
  BY <1>1, StopTop
<1>2. ASSUME NEW pc, NEW to, Stopping(pc), Go(Stopper, to)
      PROVE  StopPc' = to
  <2>1. /\ Stopper \in Threads /\ Len(stack[Stopper]) = 1 /\ Busy(Stopper)
        /\ Top(Stopper) = stack[Stopper][1]
    BY <1>2, StopTop
  <2>2. stack[Stopper] \in Seq(FrameTypes) /\ FrameOK(Stopper, Top(Stopper))
    BY <2>1, TopFacts DEF Inv
  <2>3. PICK f : f = [Top(Stopper) EXCEPT !.pc = to]
    OBVIOUS
  <2>4. f.pc = to
    BY <2>2, <2>3 DEF FrameOK, FrameTypes
  <2>5. stack'[Stopper] = Append(Front(stack[Stopper]), f)
    BY <1>2, <2>1, <2>3, PutFacts DEF Inv, Go, WithTop
  <2>6. Front(stack[Stopper]) \in Seq(FrameTypes \cup {f}) /\ Len(Front(stack[Stopper])) = 0
    BY <2>1, <2>2, FrontFacts DEF Busy
  <2>7. Append(Front(stack[Stopper]), f)[1] = f
    BY <2>6, AppendProperties
  <2>. QED
    BY <2>4, <2>5, <2>7 DEF StopPc
<1>3. CASE PublishStop
  <2>1. stopping' = TRUE /\ StopPc' = "close" /\ queueClosed' = queueClosed
    BY <1>2, <1>3 DEF PublishStop
  <2>. QED
    BY <2>1 DEF WakeInv
<1>4. CASE CloseWork \/ UnparkAll \/ WorkIdle
  <2>1. \E pc \in {"close", "abort", "work"} : Stopping(pc)
    BY <1>4 DEF CloseWork, UnparkAll, WorkIdle
  <2>2. \E to \in {"abort", "unpark", "drainers"} : StopPc' = to
    BY <1>2, <1>4 DEF CloseWork, UnparkAll, WorkIdle
  <2>3. stopping
    BY <1>1, <2>1 DEF WakeInv
  <2>4. UNCHANGED <<stopping, queueClosed>>
    BY <1>4 DEF CloseWork, UnparkAll, WorkIdle, stops
  <2>. QED
    BY <2>2, <2>3, <2>4 DEF WakeInv
<1>5. CASE CloseQueue
  <2>1. Stopping("unpark") /\ Go(Stopper, "work") /\ UNCHANGED stopping
    BY <1>5 DEF CloseQueue
  <2>2. StopPc = "unpark" /\ StopPc' = "work"
    BY <1>1, <1>2, <2>1
  <2>3. stopping
    BY <2>2 DEF WakeInv
  <2>. QED
    BY <2>1, <2>2, <2>3 DEF WakeInv
<1>6. CASE SchedulerIdle
  <2>1. Stopping("drainers") /\ UNCHANGED <<stopping, queueClosed>>
    BY <1>6 DEF SchedulerIdle
  <2>2. Go(Stopper, "stopped") \/ UNCHANGED stack
    BY <1>6 DEF SchedulerIdle
  <2>3. StopPc = "drainers" /\ StopPc' \in {"drainers", "stopped"}
    BY <1>1, <1>2, <2>1, <2>2 DEF StopPc
  <2>4. stopping
    BY <2>3 DEF WakeInv
  <2>. QED
    BY <2>1, <2>3, <2>4 DEF WakeInv
<1>7. ASSUME NEW u \in Tasks, AbortTask(u)
      PROVE  WakeInv'
  <2>1. Stopping("abort") /\ UNCHANGED <<stopping, queueClosed>>
    BY <1>7 DEF AbortTask
  <2>2. Put(Stopper, Append(stack[Stopper], PushFrame(u))) \/ UNCHANGED stack
    BY <1>7 DEF AbortTask
  <2>3. StopPc = "abort" /\ Stopper \in Threads /\ Len(stack[Stopper]) = 1 /\ Busy(Stopper)
    BY <2>1, StopTop
  <2>4. stack[Stopper] \in Seq(FrameTypes)
    BY <2>3, TopFacts DEF Inv
  <2>5. PICK g : g = PushFrame(u)
    OBVIOUS
  <2>6. stack[Stopper] \in Seq(FrameTypes \cup {g})
    BY <2>4
  <2>7. Append(stack[Stopper], g)[1] = stack[Stopper][1]
    BY <2>3, <2>6, AppendProperties
  <2>8. StopPc' = StopPc
    <3>1. Put(Stopper, Append(stack[Stopper], PushFrame(u))) =>
            stack'[Stopper] = Append(stack[Stopper], g)
      BY <2>3, <2>5, PutFacts DEF Inv
    <3>. QED
      BY <2>2, <2>7, <3>1 DEF StopPc
  <2>9. stopping
    BY <2>3 DEF WakeInv
  <2>. QED
    BY <2>1, <2>3, <2>8, <2>9 DEF WakeInv
<1>. QED
  BY <1>3, <1>4, <1>5, <1>6, <1>7 DEF StopStep

LEMMA StutterMatched ==
  ASSUME WakeInv, UNCHANGED vars
  PROVE  WakeInv'
<1>1. /\ UNCHANGED <<stack, injector, blockingQueue, slot, drains, activeDrainers, activeBlocking>>
      /\ UNCHANGED <<parked, permit, stopping, queueClosed>>
  BY DEF vars, queues, counts, parkers, stops
<1>2. /\ UNCHANGED <<StopPc, Waking, RunnableTakers, RunnableSleepers, RunnableExits>>
      /\ UNCHANGED <<ClosureTakers, ClosureSleepers, ClosureExits, Vacant, Claimable>>
  BY <1>1 DEF StopPc, Waking, RunnableTakers, RunnableSleepers, RunnableExits, ClosureTakers,
     ClosureSleepers, ClosureExits, Vacant, Claimable, Busy, Top, OnTop, Registered, Me, ForRunnable,
     ForClosure, Under
<1>3. \A w : Popped(w) => Popped(w)'
  BY <1>1 DEF Popped, OnTop, Registered, Notified, Me, Top, Busy, At
<1>4. \A w : Undoing(w) => Undoing(w)'
  BY <1>1 DEF Undoing, OnTop, Registered, Me, Top, Busy
<1>5. RunnablesMatched => RunnablesMatched'
  BY <1>1, <1>2 DEF RunnablesMatched, Matched
<1>6. ClosuresMatched => ClosuresMatched'
  BY <1>1, <1>2 DEF ClosuresMatched, Matched
<1>. QED
  BY <1>1, <1>2, <1>3, <1>4, <1>5, <1>6 DEF WakeInv

LEMMA NextWake ==
  ASSUME Inv, Inv', WakeInv, [Next]_vars
  PROVE  WakeInv'
<1>1. ASSUME NEW t \in Threads, CodeStep(t) \/ UserCall(t) \/ UserReturn(t)
      PROVE  WakeInv'
  <2>1. CASE ~stopping
    BY <1>1, <2>1, ThreadsMatched
  <2>2. CASE stopping
    BY <1>1, <2>2, StopStays DEF WakeInv
  <2>. QED
    BY <2>1, <2>2
<1>2. CASE StopStep
  BY <1>2, StopMatched
<1>3. CASE UNCHANGED vars
  BY <1>3, StutterMatched
<1>. QED
  BY <1>1, <1>2, <1>3 DEF Next

LEMMA InitWake ==
  ASSUME Init
  PROVE  WakeInv
<1>1. /\ Stacks
      /\ \A t \in Threads : \A i \in 1..Len(stack[t]) :
           /\ t \notin Workers /\ i = 1 /\ stack[t][i].p = NoParker
           /\ Mark(stack[t][i]) \in {<<"host", "user">>, <<"stop", "publish">>}
      /\ stack[Stopper] = <<Frame("stop", "publish", NoUnit)>>
  BY InitStacks
<1>2. StopPc = "publish" /\ ~stopping /\ ~queueClosed
  <2>1. StopPc = "publish"
    BY <1>1 DEF StopPc, Frame
  <2>. QED
    BY <2>1 DEF Init
<1>3. \A w \in Workers : ~Busy(w)
  BY SchedulerAssumption DEF Init, Threads, Busy
<1>4. Waking = {}
  <2>. SUFFICES ASSUME NEW t \in Threads, Busy(t), Top(t).kind = "wake" PROVE FALSE
    BY DEF Waking
  <2>1. PICK n : n = Len(stack[t]) /\ n \in Nat \ {0} /\ Top(t) = stack[t][n]
    BY <1>1, TopFacts
  <2>2. Mark(Top(t)) \in {<<"host", "user">>, <<"stop", "publish">>}
    BY <1>1, <2>1
  <2>. QED
    BY <2>2 DEF Mark
<1>5. /\ RunnableTakers = {} /\ RunnableSleepers = {} /\ RunnableExits = {}
      /\ ClosureTakers = {} /\ ClosureSleepers = {} /\ ClosureExits = {}
  BY <1>3 DEF RunnableTakers, RunnableSleepers, RunnableExits, ClosureTakers, ClosureSleepers,
     ClosureExits, OnTop
<1>6. Len(injector) = 0 /\ Claimable = 0 /\ drains = 0
  BY SchedulerAssumption DEF Init, Claimable, Lesser
<1>7. IsFiniteSet({}) /\ Cardinality({}) = 0
  BY FS_EmptySet
<1>8. RunnablesMatched /\ ClosuresMatched
  BY <1>4, <1>5, <1>6, <1>7 DEF RunnablesMatched, ClosuresMatched, Matched
<1>9. \A w \in Workers : Popped(w) /\ Undoing(w)
  BY <1>3 DEF Popped, Undoing, OnTop
<1>. QED
  BY <1>2, <1>4, <1>7, <1>8, <1>9 DEF WakeInv

\* The wakes under way and the threads awake match the queues at every moment
\* of every behaviour, until the generation stops.
THEOREM WakesAreMatched == Spec => []WakeInv
<1>1. Inv /\ WakeInv /\ [Next]_vars => Inv' /\ WakeInv'
  BY NextInv, NextWake
<1>. QED
  BY <1>1, InitInv, InitWake, PTL DEF Spec

\* A pool with a free thread has room for another drainer.
LEMMA RoomForDrainers ==
  ASSUME Inv, drains = 0, NEW w \in Workers, ~Busy(w)
  PROVE  activeDrainers < Cardinality(Workers)
<1>. DEFINE S == Workers \ {w}
            D == {<<x, 1>> : x \in S}
<1>1. IsFiniteSet(S) /\ Cardinality(S) = Cardinality(Workers) - 1 /\ Cardinality(Workers) \in Nat
  BY SchedulerAssumption, FS_RemoveElement, FS_CardinalityType
<1>2. IsFiniteSet(D) /\ Cardinality(D) <= Cardinality(S)
  <2>. DEFINE f == [x \in S |-> <<x, 1>>]
  <2>1. f \in Surjection(S, D)
    BY DEF Surjection
  <2>. HIDE DEF f, D, S
  <2>. QED
    BY <1>1, <2>1, FS_Surjection
<1>3. Draining \subseteq D
  <2>. SUFFICES ASSUME NEW p \in Draining PROVE p \in D
    OBVIOUS
  <2>1. PICK x \in Threads, i \in Nat : p = <<x, i>> /\ i \in 1..Len(stack[x]) /\ Mark(stack[x][i]) \in DrainMarks
    BY SpotsAre DEF Draining
  <2>2. FrameOK(x, stack[x][i]) /\ stack[x][i].kind = "drain" /\ StackOK(x, stack[x])
    BY <2>1 DEF Mark, DrainMarks, Inv, Stacks, StackOK
  <2>3. x \in Workers /\ i = 1
    BY <2>1, <2>2 DEF FrameOK, StackOK, Nests, Bases
  <2>4. x # w
    BY <2>1, <2>3 DEF Busy
  <2>. QED
    BY <2>1, <2>3, <2>4
<1>. HIDE DEF S, D
<1>4. Cardinality(Draining) <= Cardinality(D) /\ Cardinality(D) \in Nat /\ Cardinality(Draining) \in Nat
  BY <1>2, <1>3, FS_Subset, FS_CardinalityType
<1>5. Cardinality(S) \in Nat /\ Cardinality(Draining) <= Cardinality(S)
  BY <1>1, <1>2, <1>4, FS_CardinalityType
<1>6. activeDrainers = Cardinality(Draining)
  BY <1>4 DEF Inv, DrainInv
<1>7. PICK n \in Nat, m \in Nat, d \in Nat :
        n = Cardinality(Workers) /\ m = Cardinality(S) /\ d = Cardinality(Draining)
  BY <1>1, <1>4, <1>5
<1>8. m = n - 1 /\ d <= m
  BY <1>1, <1>5, <1>7
<1>9. d < n
  BY <1>8
<1>. QED
  BY <1>6, <1>7, <1>9

\* What rests: a driver is parked and registered, and nobody wakes or retires.
LEMMA RestingFacts ==
  ASSUME Inv, WakeInv, ~stopping, \A t \in Threads : AtRest(t)
  PROVE  /\ Waking = {} /\ RunnableTakers = {} /\ ClosureTakers = {}
         /\ RunnableExits = {} /\ ClosureExits = {} /\ Vacant = {w \in Workers : ~Busy(w)}
         /\ \A w \in Workers : Busy(w) /\ Top(w).pc = "park" =>
              w \in RunnableSleepers /\ w \in ClosureSleepers
<1>1. ASSUME NEW t \in Threads, Busy(t)
      PROVE  /\ Top(t).kind \notin {"wake", "task"}
             /\ Top(t).kind \in DriverKinds => Top(t).pc = "park" /\ Me(t) \notin permit
             /\ Top(t).pc = "park" => Top(t).kind \in DriverKinds
  <2>1. FrameOK(t, Top(t)) /\ AtRest(t)
    BY <1>1, TopFacts DEF Inv
  <2>2. Top(t).kind \notin {"wake", "task"}
    BY <1>1, <2>1 DEF AtRest, FrameOK, WakePcs
  <2>3. Top(t).kind \in DriverKinds => Top(t).pc = "park" /\ Me(t) \notin permit
    BY <1>1, <2>1 DEF AtRest, FrameOK, DriverKinds, DrainPcs, CoopPcs, Retired, Leaving
  <2>4. Top(t).pc = "park" => Top(t).kind \in DriverKinds
    BY <2>1 DEF FrameOK, FrameTypes, Kinds, DriverKinds, StopPcs, WakePcs
  <2>. QED
    BY <2>2, <2>3, <2>4
<1>2. Waking = {}
  BY <1>1 DEF Waking
<1>3. ASSUME NEW w \in Workers, Busy(w), Top(w).kind \in DriverKinds
      PROVE  Registered(w) /\ Top(w).pc = "park"
  <2>1. w \in Threads /\ Top(w).pc = "park" /\ Me(w) \notin permit
    BY <1>1, <1>3 DEF Threads
  <2>2. ~Notified(w)
    BY <1>1, <2>1 DEF Notified, At
  <2>3. Popped(w) /\ OnTop(w, {"runnable?", "blocking?", "park"})
    BY <1>3, <2>1 DEF WakeInv, OnTop
  <2>. QED
    BY <2>1, <2>2, <2>3 DEF Popped
<1>4. RunnableTakers = {}
  BY <1>3 DEF RunnableTakers, ForRunnable
<1>5. ClosureTakers = {}
  <2>1. ASSUME NEW w \in Workers, Busy(w), ForClosure(Under(w)) PROVE Registered(w)
    <3>1. Under(w) = Top(w) /\ Top(w).kind # "task"
      BY <1>1, <2>1 DEF Under, Threads
    <3>. QED
      BY <1>3, <2>1, <3>1 DEF ForClosure
  <2>. QED
    BY <2>1 DEF ClosureTakers
<1>6. \A w \in Workers : ~OnTop(w, Retired)
  BY <1>3 DEF OnTop, Retired
<1>7. RunnableExits = {} /\ ClosureExits = {}
  BY <1>6 DEF RunnableExits, ClosureExits, OnTop, Retired
<1>8. Vacant = {w \in Workers : ~Busy(w)}
  BY <1>6 DEF Vacant
<1>9. ASSUME NEW w \in Workers, Busy(w), Top(w).pc = "park"
      PROVE  w \in RunnableSleepers /\ w \in ClosureSleepers
  <2>1. Top(w).kind \in DriverKinds
    BY <1>1, <1>9 DEF Threads
  <2>. QED
    BY <1>3, <1>9, <2>1 DEF RunnableSleepers, ClosureSleepers, OnTop
<1>. QED
  BY <1>2, <1>4, <1>5, <1>7, <1>8, <1>9

\* No wake is lost: whichever of push, pop, unpark, register, recheck, park,
\* retire and compensation raced, when every thread rests and one of the pool
\* is free or parked nothing that could run is queued; for every pool, bound on
\* the lanes, budget and menu of calls, and whatever the other threads wait for.
THEOREM NoWakeIsLost == Spec => []NoLostWork
<1>1. ASSUME Inv, WakeInv, StoppedIsIdle PROVE NoLostWork
  <2>. SUFFICES ASSUME AllAtRest, NEW w \in Workers, Available(w)
                PROVE  injector = <<>> /\ ~CanTakeBlocking
    BY DEF NoLostWork
  <2>0. /\ injector \in Seq(Tasks) /\ blockingQueue \in Seq(Jobs)
        /\ drains \in Nat /\ activeDrainers \in Nat /\ activeBlocking \in Nat
        /\ Len(injector) \in Nat /\ Len(blockingQueue) \in Nat /\ MaxBlocking \in Nat
    BY <1>1, LenProperties, SchedulerAssumption DEF Inv, DataTypes
  <2>1. CASE stopping
    <3>1. Stopper \in Threads /\ Busy(Stopper) /\ AtRest(Stopper)
      BY <1>1 DEF Threads, Inv, Stacks, StackOK, Busy, AllAtRest
    <3>2. FrameOK(Stopper, Top(Stopper))
      BY <1>1, <3>1, TopFacts DEF Inv
    <3>3. Top(Stopper).kind \in {"stop", "wake"}
      BY <3>2, SchedulerAssumption DEF FrameOK, FrameTypes, Kinds
    <3>4. Top(Stopper).kind = "stop" /\ Top(Stopper).pc \in {"publish", "stopped"}
      BY <3>1, <3>2, <3>3 DEF AtRest, FrameOK, StopPcs, WakePcs
    <3>5. Stopping(Top(Stopper).pc)
      BY <3>1, <3>4 DEF Stopping, At
    <3>6. StopPc = Top(Stopper).pc
      BY <1>1, <3>5, StopTop
    <3>7. Stopping("stopped")
      BY <1>1, <2>1, <3>4, <3>5, <3>6 DEF WakeInv
    <3>. QED
      BY <1>1, <2>1, <3>7 DEF StoppedIsIdle, CanTakeBlocking
  <2>2. CASE ~stopping
    <3>1. /\ Waking = {} /\ RunnableTakers = {} /\ ClosureTakers = {}
          /\ RunnableExits = {} /\ ClosureExits = {} /\ Vacant = {x \in Workers : ~Busy(x)}
          /\ Busy(w) /\ Top(w).pc = "park" => w \in RunnableSleepers /\ w \in ClosureSleepers
      BY <1>1, <2>2, RestingFacts DEF AllAtRest
    <3>2. RunnablesMatched /\ ClosuresMatched
      BY <1>1, <2>2 DEF WakeInv
    <3>3. Cardinality({}) = 0
      BY FS_EmptySet
    <3>4. Claimable \in Int
      BY <2>0 DEF Claimable, Lesser
    <3>5. Len(injector) <= 0 /\ Claimable <= 0
      <4>1. CASE \A x \in Workers : Busy(x)
        <5>1. RunnableSleepers # {} /\ ClosureSleepers # {} /\ Vacant = {}
          BY <3>1, <4>1 DEF Available
        <5>2. Len(injector) <= 0 + 0
          BY <3>1, <3>2, <3>3, <5>1 DEF RunnablesMatched, Matched
        <5>3. ClosureTakers \cup Vacant = {}
          BY <3>1, <5>1
        <5>4. Claimable <= 0 + 0
          BY <3>1, <3>2, <3>3, <5>1, <5>3 DEF ClosuresMatched, Matched
        <5>. QED
          BY <5>2, <5>4
      <4>2. CASE \E x \in Workers : ~Busy(x)
        <5>1. drains = 0
          BY <4>2 DEF AllAtRest
        <5>2. ~(activeDrainers + 0 >= Cardinality(Workers))
          <6>1. activeDrainers < Cardinality(Workers) /\ Cardinality(Workers) \in Nat
            BY <1>1, <4>2, <5>1, RoomForDrainers, FS_CardinalityType, SchedulerAssumption
          <6>. QED
            BY <2>0, <6>1
        <5>3. Len(injector) <= 0 + 0 + 0 + 0
          BY <3>1, <3>2, <3>3, <5>1, <5>2 DEF RunnablesMatched, Matched
        <5>4. Claimable <= 0 + 0 + 0 + 0
          BY <3>1, <3>2, <3>3, <5>1, <5>2 DEF ClosuresMatched, Matched
        <5>. QED
          BY <5>3, <5>4
      <4>. QED
        BY <4>1, <4>2
    <3>6. injector = <<>>
      BY <2>0, <3>5, EmptySeq
    <3>7. ~BlockingReady
      <4>1. Len(blockingQueue) <= 0 \/ MaxBlocking <= activeBlocking
        BY <2>0, <3>5 DEF Claimable, Lesser
      <4>. QED
        BY <2>0, <4>1, EmptySeq DEF BlockingReady
    <3>. QED
      BY <3>6, <3>7 DEF CanTakeBlocking
  <2>. QED
    BY <2>1, <2>2
<1>. QED
  BY <1>1, CoreInvariant, WakesAreMatched, StopLeavesNothing, PTL
=============================================================================
