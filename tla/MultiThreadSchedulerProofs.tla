--------------------- MODULE MultiThreadSchedulerProofs ---------------------
(***************************************************************************)
(* Theorems about MultiThreadScheduler, for every pool, every set of       *)
(* hosts, tasks and closures, every menu of calls, every budget.           *)
(***************************************************************************)
EXTENDS MultiThreadScheduler, FiniteSetTheorems, SequenceTheorems, TLAPS

-----------------------------------------------------------------------------
(* Frames: which program counters a frame of each kind can have, on which  *)
(* threads it occurs, and what may be nested on what.                      *)

Kinds == {"drain", "coop", "block", "task", "job", "host", "wait", "stop", "wake"}
DrainPcs ==
  {"fair", "claim", "block", "release", "idle", "register", "runnable?", "blocking?", "park",
   "undo", "quit", "expired", "permit?", "exit"} \cup Retired
CoopPcs ==
  {"top", "force", "fair", "claim", "block", "release", "yield", "register", "runnable?",
   "blocking?", "park", "undo", "leave"} \cup Leaving
StopPcs == {"publish", "close", "abort", "unpark", "work", "drainers", "stopped"}
WakePcs == {"push", "wake", "unpark", "enqueue"}
Pcs == DrainPcs \cup CoopPcs \cup StopPcs \cup WakePcs \cup {"sleep", "user", "waiting"}

Parkers == (Threads \cup {NoUnit}) \X Nat
FrameTypes ==
  [kind : Kinds, pc : Pcs, u : Units \cup {NoUnit}, p : Parkers,
   streak : Nat, work : Nat, force : BOOLEAN]

FrameOK(t, f) ==
  /\ f \in FrameTypes
  /\ f.kind = "drain" => t \in Workers /\ f.pc \in DrainPcs
  /\ f.kind = "coop"  => t \in Workers /\ f.pc \in CoopPcs
  /\ f.kind = "block" => t \in Hosts /\ f.pc \in {"top", "sleep", "out"}
  /\ f.kind = "task"  => t \in Workers /\ f.pc = "user" /\ f.u \in Tasks
  /\ f.kind = "job"   => t \in Workers /\ f.pc = "user" /\ f.u \in Jobs
  /\ f.kind = "host"  => t \in Hosts /\ f.pc = "user"
  /\ f.kind = "wait"  => t \in Workers /\ f.pc = "waiting" /\ f.u \in Units
  /\ f.kind = "stop"  => t = Stopper /\ f.pc \in StopPcs
  /\ f.kind = "wake"  => /\ f.pc \in WakePcs
                         /\ f.pc = "push" => f.u \in Tasks
                         /\ f.pc = "enqueue" => f.u \in Jobs
  /\ f.kind # "wake" => f.p = NoParker

\* Where a driver frame stands while user code, or a wake, runs above it.
ServedPcs  == {"fair", "top", "exit", "yield"}
LanePcs    == {"release", "xrelease"}
WakingPcs  == ServedPcs \cup {"idle", "register", "xrunnable", "xblocking", "out"}
Bases      == {"drain", "host", "stop"}
Nests(f, g) ==
  /\ g.kind \notin Bases
  /\ g.kind = "task"  => f.kind \in DriverKinds /\ f.pc \in ServedPcs
  /\ g.kind = "job"   => f.kind \in DriverKinds /\ f.pc \in LanePcs
  /\ g.kind = "coop"  => f.kind \in {"task", "job"}
  /\ g.kind = "block" => f.kind = "host"
  /\ g.kind = "wait"  => f.kind = "job"
  /\ g.kind = "wake"  => \/ f.kind \in UserKinds \cup {"stop"}
                         \/ f.kind \in DriverKinds /\ f.pc \in WakingPcs

StackOK(t, s) ==
  /\ s \in Seq(FrameTypes)
  /\ \A i \in 1..Len(s) : FrameOK(t, s[i])
  /\ \A i \in 1..Len(s) : IF i = 1 THEN s[1].kind \in Bases ELSE Nests(s[i-1], s[i])
  /\ t = Stopper => s # <<>>

Stacks == DOMAIN stack = Threads /\ \A t \in Threads : StackOK(t, stack[t])

DataTypes ==
  /\ status \in [Units -> {"new", "queued", "running", "again", "idle", "done"}]
  /\ parent \in [Units -> Units \cup Threads \cup {NoUnit}]
  /\ injector \in Seq(Tasks) /\ blockingQueue \in Seq(Jobs)
  /\ slot \in [Workers -> Tasks \cup {NoUnit}]
  /\ drains \in Nat /\ activeDrainers \in Nat /\ activeBlocking \in Nat
  /\ stopping \in BOOLEAN /\ closed \in BOOLEAN /\ queueClosed \in BOOLEAN
  /\ idleAsleep \in BOOLEAN /\ aborting \subseteq Tasks

\* The frames whose kind and program counter are in Z, by thread and depth.
Mark(f)  == <<f.kind, f.pc>>
Spots(Z) ==
  UNION {{t} \X {i \in 1..Len(stack[t]) : Mark(stack[t][i]) \in Z} : t \in Threads}

\* A lane is taken for every frame that has a closure above it or its lane to give back.
LaneMarks == DriverKinds \X LanePcs
Lanes     == Spots(LaneMarks)
LaneInv ==
  /\ IsFiniteSet(Lanes) /\ activeBlocking = Cardinality(Lanes)
  /\ activeBlocking <= MaxBlocking
DrainMarks == {"drain"} \X (DrainPcs \ Retired)
Draining   == Spots(DrainMarks)
DrainInv ==
  /\ IsFiniteSet(Draining) /\ activeDrainers = drains + Cardinality(Draining)
  /\ activeDrainers <= Cardinality(Workers)

\* Parkers are those of frames that are there.
ParkingKinds == {"drain", "coop", "block"}
ParkMarks    == ParkingKinds \X Pcs
IdleMarks    == DriverKinds \X Idling
ParkerInv ==
  /\ parked \subseteq Spots(IdleMarks)
  /\ permit \subseteq Spots(ParkMarks) /\ stopParkers \subseteq Spots(ParkMarks)
  /\ \A t \in Threads : \A i \in 1..Len(stack[t]) :
       stack[t][i].p = NoParker \/ stack[t][i].p \in Spots(ParkMarks)

\* The slot is empty wherever its owner may come to rest.
QuietPcs ==
  {"idle", "register", "runnable?", "blocking?", "park", "expired", "permit?"}
    \cup Retired \cup Leaving
SlotOK(w, s) ==
  \A i \in 1..Len(s) :
    /\ s[i].kind \in DriverKinds /\ s[i].pc \in QuietPcs
    /\ \A j \in i+1..Len(s) : s[j].kind \in {"job", "wake", "wait"}
    => slot[w] = NoUnit
SlotInv == \A w \in Workers : SlotOK(w, stack[w]) /\ (slot[w] # NoUnit => Busy(w))

\* A queued unit is in one place: a queue, a slot, or the hands of a thread; a
\* running one is on one stack.
Places == {"injector", "queue", "slot", "hand"}
In(k, x, u) ==
  \/ k = "injector" /\ x = NoUnit /\ u \in Range(injector)
  \/ k = "queue" /\ x = NoUnit /\ u \in Range(blockingQueue)
  \/ k = "slot" /\ x \in Workers /\ slot[x] = u
  \/ k = "hand" /\ x \in Threads /\ (At(x, "push") \/ At(x, "enqueue")) /\ Top(x).u = u
Holders == Threads \cup {NoUnit}
QueuedInv ==
  \A u \in Units, k \in Places, x \in Holders : In(k, x, u) => status[u] = "queued"
OnePlace ==
  /\ IsInjective(injector) /\ IsInjective(blockingQueue)
  /\ \A u \in Units, k, l \in Places, x, y \in Holders :
       In(k, x, u) /\ In(l, y, u) => k = l /\ x = y
RunningInv ==
  \A t \in Threads : \A i \in 1..Len(stack[t]) :
    /\ stack[t][i].kind = "task" => status[stack[t][i].u] \in {"running", "again"}
    /\ stack[t][i].kind = "job"  => status[stack[t][i].u] = "running"
OneRunning ==
  \A t, x \in Threads : \A i \in 1..Len(stack[t]), j \in 1..Len(stack[x]) :
    /\ stack[t][i].kind \in {"task", "job"} /\ stack[x][j].kind \in {"task", "job"}
    /\ stack[t][i].u = stack[x][j].u
    => t = x /\ i = j
PlaceInv == QueuedInv /\ OnePlace /\ RunningInv /\ OneRunning

\* The slot holds no child of the closure its thread is in, which was not queued
\* when it submitted anything.
ParentInv ==
  \A u \in Units : parent[u] \in Jobs => status[parent[u]] \notin {"new", "queued"}
Waits(f) == f.kind \in {"wake", "wait"}
Innermost(s, m, u) ==
  \E i \in 1..m : /\ s[i].kind = "job" /\ s[i].u = u
                  /\ \A j \in i+1..m : Waits(s[j])
ChildInv ==
  \A w \in Workers :
    slot[w] # NoUnit => ~Innermost(stack[w], Len(stack[w]), parent[slot[w]])
WaitInv == ParentInv /\ ChildInv

StopPc == stack[Stopper][1].pc
AllOver == \A u \in Units : status[u] \in {"new", "done"}
StopInv ==
  /\ StopPc \in {"abort", "unpark", "work", "drainers", "stopped"} => closed
  /\ StopPc \in {"work", "drainers", "stopped"} => queueClosed
  /\ queueClosed => blockingQueue = <<>>
  /\ StopPc \in {"drainers", "stopped"} => AllOver
  /\ StopPc = "stopped" => Lanes = {}

-----------------------------------------------------------------------------
(* Sequences: what replacing, adding and removing the top frame does.      *)

LEMMA FrontFacts ==
  ASSUME NEW S, NEW s \in Seq(S), s # <<>>
  PROVE  /\ Len(s) \in Nat \ {0} /\ Last(s) = s[Len(s)] /\ Last(s) \in S
         /\ Front(s) \in Seq(S) /\ Len(Front(s)) = Len(s) - 1
         /\ \A i \in 1..Len(s)-1 : Front(s)[i] = s[i]
<1>1. Len(s) \in Nat \ {0} /\ \A i \in 1..Len(s) : s[i] \in S
  BY EmptySeq, ElementOfSeq
<1>2. DEFINE n == Len(s) - 1
<1>3. n \in Nat /\ \A i \in 1..n : s[i] \in S
  BY <1>1
<1>4. Last(s) = s[Len(s)] /\ Last(s) \in S
  BY <1>1 DEF Last
<1>. HIDE DEF n
<1>5. /\ SubSeq(s, 1, n) \in Seq(S) /\ Len(SubSeq(s, 1, n)) = n
      /\ \A i \in 1..n : SubSeq(s, 1, n)[i] = s[i]
  BY <1>3, SubSeqProperties
<1>6. Front(s) = SubSeq(s, 1, n)
  BY DEF Front, n
<1>. QED
  BY <1>1, <1>4, <1>5, <1>6 DEF n

LEMMA ReplaceFacts ==
  ASSUME NEW S, NEW s \in Seq(S), s # <<>>, NEW f \in S
  PROVE  LET r == Append(Front(s), f) IN
         /\ r \in Seq(S) /\ Len(r) = Len(s) /\ r[Len(s)] = f
         /\ \A i \in 1..Len(s)-1 : r[i] = s[i]
<1>1. /\ Len(s) \in Nat \ {0} /\ Front(s) \in Seq(S) /\ Len(Front(s)) = Len(s) - 1
      /\ \A i \in 1..Len(s)-1 : Front(s)[i] = s[i]
  BY FrontFacts
<1>2. /\ Append(Front(s), f) \in Seq(S) /\ Len(Append(Front(s), f)) = Len(Front(s)) + 1
      /\ \A i \in 1..Len(Front(s)) : Append(Front(s), f)[i] = Front(s)[i]
      /\ Append(Front(s), f)[Len(Front(s)) + 1] = f
  BY <1>1, AppendProperties
<1>. QED
  BY <1>1, <1>2

LEMMA TailFacts ==
  ASSUME NEW S, NEW s \in Seq(S), s # <<>>
  PROVE  /\ Head(s) \in S /\ Tail(s) \in Seq(S) /\ Head(s) = s[1]
         /\ Len(s) \in Nat \ {0} /\ Len(Tail(s)) = Len(s) - 1
         /\ \A i \in 1..Len(s)-1 : Tail(s)[i] = s[i+1]
  BY EmptySeq, HeadTailProperties

\* The two ways a queue changes, by what is in it.
LEMMA QueuePush ==
  ASSUME NEW S, NEW s \in Seq(S), NEW e \in S
  PROVE  /\ Append(s, e) \in Seq(S)
         /\ Range(Append(s, e)) = Range(s) \cup {e}
         /\ IsInjective(s) /\ e \notin Range(s) => IsInjective(Append(s, e))
<1>. DEFINE r == Append(s, e)
<1>1. /\ r \in Seq(S) /\ Len(r) = Len(s) + 1 /\ r[Len(s) + 1] = e
      /\ \A i \in 1..Len(s) : r[i] = s[i]
      /\ Len(s) \in Nat /\ DOMAIN s = 1..Len(s) /\ DOMAIN r = 1..Len(s)+1
  BY AppendProperties, LenProperties
<1>. HIDE DEF r
<1>2. Range(r) = Range(s) \cup {e}
  BY <1>1 DEF Range
<1>3. ASSUME IsInjective(s), e \notin Range(s) PROVE IsInjective(r)
  BY <1>1, <1>3 DEF Range, IsInjective
<1>. QED
  BY <1>1, <1>2, <1>3 DEF r

LEMMA QueuePop ==
  ASSUME NEW S, NEW s \in Seq(S), s # <<>>
  PROVE  /\ Head(s) \in S /\ Head(s) \in Range(s) /\ Tail(s) \in Seq(S)
         /\ Range(Tail(s)) \subseteq Range(s)
         /\ IsInjective(s) => IsInjective(Tail(s)) /\ Head(s) \notin Range(Tail(s))
<1>. DEFINE r == Tail(s)
<1>1. /\ Head(s) \in S /\ r \in Seq(S) /\ Head(s) = s[1] /\ Len(s) \in Nat \ {0}
      /\ Len(r) = Len(s) - 1 /\ \A i \in 1..Len(s)-1 : r[i] = s[i+1]
      /\ DOMAIN s = 1..Len(s) /\ DOMAIN r = 1..Len(s)-1
  BY TailFacts, LenProperties
<1>. HIDE DEF r
<1>2. Head(s) \in Range(s) /\ Range(r) \subseteq Range(s)
  BY <1>1 DEF Range
<1>3. ASSUME IsInjective(s) PROVE IsInjective(r) /\ Head(s) \notin Range(r)
  <2>1. \A i, j \in 1..Len(s) : s[i] = s[j] => i = j
    BY <1>1, <1>3 DEF IsInjective
  <2>2. \A i, j \in 1..Len(s)-1 : r[i] = r[j] => i = j
    <3>. TAKE i, j \in 1..Len(s)-1
    <3>1. i+1 \in 1..Len(s) /\ j+1 \in 1..Len(s) /\ r[i] = s[i+1] /\ r[j] = s[j+1]
      BY <1>1
    <3>2. i \in Int /\ j \in Int
      BY <1>1
    <3>3. \A m, k \in 1..Len(s) : m = i+1 /\ k = j+1 /\ s[m] = s[k] => m = k
      BY <2>1
    <3>4. r[i] = r[j] => i+1 = j+1
      BY <3>1, <3>3
    <3>. QED
      BY <3>2, <3>4
  <2>3. \A i \in 1..Len(s)-1 : r[i] # s[1]
    <3>. TAKE i \in 1..Len(s)-1
    <3>1. i+1 \in 1..Len(s) /\ 1 \in 1..Len(s) /\ i+1 # 1 /\ r[i] = s[i+1]
      BY <1>1
    <3>. QED
      BY <2>1, <3>1
  <2>. QED
    BY <1>1, <2>2, <2>3 DEF IsInjective, Range
<1>. QED
  BY <1>1, <1>2, <1>3 DEF r

-----------------------------------------------------------------------------
(* The five ways a step changes the stacks.                                *)

Rewrites(t, f) == Put(t, WithTop(t, f))
Calls2(t, f, g) == Put(t, Append(WithTop(t, f), g))
Pops(t) == Put(t, Front(stack[t]))

\* What they have in common: only the top of one stack changes, but for the
\* parkers other frames may lose.
Same(f, g) == f.kind = g.kind /\ f.pc = g.pc /\ f.u = g.u
Below(t) ==
  /\ Stacks'
  /\ \A x \in Threads \ {t} :
       /\ Len(stack'[x]) = Len(stack[x])
       /\ \A i \in 1..Len(stack[x]) : /\ Same(stack'[x][i], stack[x][i])
                                      /\ stack'[x][i].p \in {stack[x][i].p, NoParker}
  /\ \A i \in 1..Len(stack[t])-1 : stack'[t][i] = stack[t][i]

Turns(t, f) ==
  /\ Busy(t) /\ Below(t) /\ Len(stack[t]) \in Nat \ {0} /\ Len(stack'[t]) = Len(stack[t])
  /\ stack'[t][Len(stack[t])] = f
Adds(t, f, g) ==
  /\ Busy(t) /\ Below(t) /\ Len(stack[t]) \in Nat \ {0} /\ Len(stack'[t]) = Len(stack[t]) + 1
  /\ stack'[t][Len(stack[t])] = f /\ stack'[t][Len(stack[t]) + 1] = g
Drops(t) ==
  /\ Busy(t) /\ Below(t) /\ Len(stack[t]) \in Nat \ {0} /\ Len(stack'[t]) = Len(stack[t]) - 1

LEMMA TopFacts ==
  ASSUME Stacks, NEW t \in Threads, Busy(t)
  PROVE  /\ stack[t] \in Seq(FrameTypes) /\ stack[t] # <<>> /\ Len(stack[t]) \in Nat \ {0}
         /\ Top(t) = stack[t][Len(stack[t])] /\ FrameOK(t, Top(t))
<1>1. stack[t] \in Seq(FrameTypes) /\ stack[t] # <<>>
  BY DEF Stacks, StackOK, Busy
<1>2. Len(stack[t]) \in Nat \ {0} /\ Top(t) = stack[t][Len(stack[t])]
  BY <1>1, FrontFacts DEF Top
<1>. QED
  BY <1>1, <1>2 DEF Stacks, StackOK

LEMMA PutFacts ==
  ASSUME Stacks, NEW t \in Threads, NEW s, Put(t, s)
  PROVE  DOMAIN stack' = Threads /\ stack'[t] = s /\ \A x \in Threads \ {t} : stack'[x] = stack[x]
  BY DEF Stacks, Put

\* A stack whose new top may stand on what is below it.
LEMMA RewriteOK ==
  ASSUME NEW t \in Threads, NEW s, StackOK(t, s), s # <<>>, NEW f, FrameOK(t, f),
         IF Len(s) = 1 THEN f.kind \in Bases ELSE Nests(s[Len(s)-1], f)
  PROVE  StackOK(t, Append(Front(s), f))
<1>. DEFINE r == Append(Front(s), f)
<1>0. s \in Seq(FrameTypes) /\ f \in FrameTypes /\ Len(s) \in Nat \ {0}
  BY EmptySeq DEF StackOK, FrameOK
<1>1. /\ r \in Seq(FrameTypes) /\ Len(r) = Len(s) /\ r[Len(s)] = f
      /\ \A i \in 1..Len(s)-1 : r[i] = s[i]
  BY <1>0, ReplaceFacts
<1>. HIDE DEF r
<1>2. \A i \in 1..Len(r) : FrameOK(t, r[i])
  BY <1>0, <1>1 DEF StackOK
<1>3. \A i \in 1..Len(r) : IF i = 1 THEN r[1].kind \in Bases ELSE Nests(r[i-1], r[i])
  <2>. TAKE i \in 1..Len(r)
  <2>1. CASE i = Len(s)
    BY <1>0, <1>1, <2>1
  <2>2. CASE i # Len(s)
    BY <1>0, <1>1, <2>2 DEF StackOK
  <2>. QED BY <2>1, <2>2
<1>4. r # <<>>
  BY <1>0, <1>1
<1>. QED
  BY <1>1, <1>2, <1>3, <1>4 DEF StackOK, r

LEMMA PushOK ==
  ASSUME NEW t \in Threads, NEW s, StackOK(t, s), s # <<>>, NEW g, FrameOK(t, g),
         Nests(s[Len(s)], g)
  PROVE  StackOK(t, Append(s, g))
<1>. DEFINE r == Append(s, g)
<1>0. s \in Seq(FrameTypes) /\ g \in FrameTypes /\ Len(s) \in Nat \ {0}
  BY EmptySeq DEF StackOK, FrameOK
<1>1. /\ r \in Seq(FrameTypes) /\ Len(r) = Len(s) + 1 /\ r[Len(s) + 1] = g
      /\ \A i \in 1..Len(s) : r[i] = s[i]
  BY <1>0, AppendProperties
<1>. HIDE DEF r
<1>2. \A i \in 1..Len(r) : FrameOK(t, r[i])
  BY <1>0, <1>1 DEF StackOK
<1>3. \A i \in 1..Len(r) : IF i = 1 THEN r[1].kind \in Bases ELSE Nests(r[i-1], r[i])
  <2>. TAKE i \in 1..Len(r)
  <2>1. CASE i = Len(s) + 1
    BY <1>0, <1>1, <2>1
  <2>2. CASE i # Len(s) + 1
    BY <1>0, <1>1, <2>2 DEF StackOK
  <2>. QED BY <2>1, <2>2
<1>4. r # <<>>
  BY <1>0, <1>1
<1>. QED
  BY <1>1, <1>2, <1>3, <1>4 DEF StackOK, r

LEMMA PopOK ==
  ASSUME NEW t \in Threads, NEW s, StackOK(t, s), s # <<>>, t = Stopper => Len(s) > 1
  PROVE  StackOK(t, Front(s))
<1>. DEFINE r == Front(s)
<1>0. s \in Seq(FrameTypes)
  BY DEF StackOK
<1>1. /\ r \in Seq(FrameTypes) /\ Len(r) = Len(s) - 1 /\ Len(s) \in Nat \ {0}
      /\ \A i \in 1..Len(s)-1 : r[i] = s[i]
  BY <1>0, FrontFacts
<1>. HIDE DEF r
<1>2. t = Stopper => r # <<>>
  BY <1>1
<1>. QED
  BY <1>1, <1>2 DEF StackOK, r

\* Everything a step that puts s on t leaves as it was.
LEMMA BelowFacts ==
  ASSUME Stacks, NEW t \in Threads, NEW s, Put(t, s), StackOK(t, s),
         \A i \in 1..Len(stack[t])-1 : s[i] = stack[t][i]
  PROVE  Below(t)
<1>1. DOMAIN stack' = Threads /\ stack'[t] = s /\ \A x \in Threads \ {t} : stack'[x] = stack[x]
  BY PutFacts
<1>. QED
  BY <1>1 DEF Below, Stacks, Same

LEMMA TopNests ==
  ASSUME Stacks, NEW t \in Threads, Busy(t)
  PROVE  IF Len(stack[t]) = 1 THEN Top(t).kind \in Bases
         ELSE Nests(stack[t][Len(stack[t]) - 1], Top(t))
<1>. DEFINE n == Len(stack[t])
<1>1. n \in Nat \ {0} /\ Top(t) = stack[t][n]
  BY TopFacts
<1>2. n \in 1..n
  BY <1>1
<1>3. IF n = 1 THEN stack[t][1].kind \in Bases ELSE Nests(stack[t][n-1], stack[t][n])
  BY <1>2 DEF Stacks, StackOK
<1>. QED
  BY <1>1, <1>3

LEMMA RewriteForm ==
  ASSUME Stacks, NEW t \in Threads, Busy(t), NEW f, FrameOK(t, f),
         \/ f.kind = Top(t).kind
         \/ f.kind = "wake" /\ Top(t).kind = "task",
         Rewrites(t, f)
  PROVE  Turns(t, f)
<1>. DEFINE s == stack[t]
            n == Len(s)
            r == Append(Front(s), f)
<1>1. /\ s \in Seq(FrameTypes) /\ s # <<>> /\ n \in Nat \ {0} /\ Top(t) = s[n]
      /\ StackOK(t, s)
  BY TopFacts DEF Stacks
<1>2. f \in FrameTypes /\ Put(t, r)
  BY DEF FrameOK, Rewrites, WithTop
<1>3. Len(r) = n /\ r[n] = f /\ \A i \in 1..n-1 : r[i] = s[i]
  BY <1>1, <1>2, ReplaceFacts
<1>4. IF n = 1 THEN f.kind \in Bases ELSE Nests(s[n-1], f)
  <2>1. IF n = 1 THEN s[n].kind \in Bases ELSE Nests(s[n-1], s[n])
    BY <1>1, TopNests
  <2>. QED
    BY <1>1, <2>1 DEF Nests, Bases, ServedPcs, WakingPcs
<1>5. StackOK(t, r)
  BY <1>1, <1>4, RewriteOK
<1>6. stack'[t] = r
  BY <1>2, PutFacts
<1>. HIDE DEF r
<1>7. Below(t)
  BY <1>2, <1>3, <1>5, BelowFacts
<1>. QED
  BY <1>1, <1>3, <1>6, <1>7 DEF Turns

LEMMA CallForm ==
  ASSUME Stacks, NEW t \in Threads, Busy(t), NEW f, FrameOK(t, f), f.kind = Top(t).kind,
         NEW g, FrameOK(t, g), Nests(f, g), Calls2(t, f, g)
  PROVE  Adds(t, f, g)
<1>. DEFINE s == stack[t]
            n == Len(s)
            q == Append(Front(s), f)
            r == Append(q, g)
<1>1. /\ s \in Seq(FrameTypes) /\ s # <<>> /\ n \in Nat \ {0} /\ Top(t) = s[n]
      /\ StackOK(t, s)
  BY TopFacts DEF Stacks
<1>2. f \in FrameTypes /\ g \in FrameTypes /\ Put(t, r)
  BY DEF FrameOK, Calls2, WithTop
<1>3. q \in Seq(FrameTypes) /\ Len(q) = n /\ q[n] = f /\ \A i \in 1..n-1 : q[i] = s[i]
  BY <1>1, <1>2, ReplaceFacts
<1>4. IF n = 1 THEN f.kind \in Bases ELSE Nests(s[n-1], f)
  <2>1. IF n = 1 THEN s[n].kind \in Bases ELSE Nests(s[n-1], s[n])
    BY <1>1, TopNests
  <2>. QED
    BY <1>1, <2>1 DEF Nests
<1>5. StackOK(t, q)
  BY <1>1, <1>4, RewriteOK
<1>6. stack'[t] = r
  BY <1>2, PutFacts
<1>. HIDE DEF q
<1>7. /\ Len(r) = n + 1 /\ r[n+1] = g /\ \A i \in 1..n : r[i] = q[i]
  BY <1>1, <1>2, <1>3, AppendProperties
<1>8. q # <<>>
  BY <1>1, <1>3
<1>9. StackOK(t, r)
  BY <1>3, <1>5, <1>8, PushOK
<1>. HIDE DEF r
<1>10. Below(t)
  BY <1>1, <1>2, <1>3, <1>7, <1>9, BelowFacts
<1>. QED
  BY <1>1, <1>3, <1>6, <1>7, <1>10 DEF Adds

LEMMA PushForm ==
  ASSUME Stacks, NEW t \in Threads, Busy(t),
         NEW g, FrameOK(t, g), Nests(Top(t), g), Put(t, Append(stack[t], g))
  PROVE  Adds(t, Top(t), g)
<1>. DEFINE s == stack[t]
            n == Len(s)
            r == Append(s, g)
<1>1. /\ s \in Seq(FrameTypes) /\ s # <<>> /\ n \in Nat \ {0} /\ Top(t) = s[n]
      /\ StackOK(t, s) /\ g \in FrameTypes
  BY TopFacts DEF Stacks, FrameOK
<1>2. Len(r) = n + 1 /\ r[n+1] = g /\ \A i \in 1..n : r[i] = s[i]
  BY <1>1, AppendProperties
<1>3. StackOK(t, r)
  BY <1>1, PushOK
<1>4. stack'[t] = r /\ Put(t, r)
  BY PutFacts
<1>. HIDE DEF r
<1>5. Below(t)
  BY <1>1, <1>2, <1>3, <1>4, BelowFacts
<1>. QED
  BY <1>1, <1>2, <1>4, <1>5 DEF Adds

LEMMA PopForm ==
  ASSUME Stacks, NEW t \in Threads, Busy(t), Top(t).kind \notin Bases, Pops(t)
  PROVE  /\ Drops(t) /\ Len(stack[t]) > 1
         /\ Nests(stack[t][Len(stack[t]) - 1], Top(t))
         /\ stack'[t][Len(stack[t]) - 1] = stack[t][Len(stack[t]) - 1]
<1>. DEFINE s == stack[t]
            n == Len(s)
            r == Front(s)
<1>1. /\ s \in Seq(FrameTypes) /\ s # <<>> /\ n \in Nat \ {0} /\ Top(t) = s[n]
      /\ StackOK(t, s)
  BY TopFacts DEF Stacks
<1>2. n > 1 /\ Nests(s[n-1], s[n])
  <2>1. n # 1 /\ Nests(s[n-1], Top(t))
    BY TopNests
  <2>2. \A k \in Nat \ {0} : k # 1 => k > 1
    OBVIOUS
  <2>. QED
    BY <1>1, <2>1, <2>2
<1>3. Len(r) = n - 1 /\ \A i \in 1..n-1 : r[i] = s[i]
  BY <1>1, FrontFacts
<1>4. StackOK(t, r)
  BY <1>1, <1>2, PopOK
<1>5. stack'[t] = r /\ Put(t, r)
  BY PutFacts DEF Pops
<1>. HIDE DEF r
<1>6. Below(t)
  BY <1>1, <1>3, <1>4, <1>5, BelowFacts
<1>. QED
  BY <1>1, <1>2, <1>3, <1>5, <1>6 DEF Drops

\* The frames other threads keep when a frame of t leaves with its parker.
Forgets(f, p) == IF f.p = p THEN [f EXCEPT !.p = NoParker] ELSE f
LEMMA ForgetsOK ==
  ASSUME NEW x \in Threads, NEW f, FrameOK(x, f), NEW p
  PROVE  /\ FrameOK(x, Forgets(f, p)) /\ Same(Forgets(f, p), f)
         /\ Forgets(f, p).p \in {f.p, NoParker}
<1>1. NoParker \in Parkers
  BY DEF NoParker, Parkers
<1>. QED
  BY <1>1 DEF Forgets, FrameOK, FrameTypes, Same

LEMMA NestsSame ==
  ASSUME NEW e, NEW f, NEW g, NEW h, Same(e, f), Same(g, h)
  PROVE  Nests(e, g) <=> Nests(f, h)
  BY DEF Same, Nests

LEMMA EraseForm ==
  ASSUME Stacks, NEW t \in Threads, Busy(t), Top(t).kind \in ParkingKinds,
         stack' = WithoutTop(t)
  PROVE  /\ Drops(t)
         /\ \A x \in Threads \ {t} : \A i \in 1..Len(stack[x]) :
              stack'[x][i] = Forgets(stack[x][i], Me(t))
         /\ Top(t).kind \notin Bases => Nests(stack[t][Len(stack[t]) - 1], Top(t))
<1>. DEFINE s == stack[t]
            n == Len(s)
            r == Front(s)
<1>1. /\ s \in Seq(FrameTypes) /\ s # <<>> /\ n \in Nat \ {0} /\ Top(t) = s[n]
      /\ StackOK(t, s)
  BY TopFacts DEF Stacks
<1>2. t # Stopper
  BY <1>1, SchedulerAssumption DEF StackOK, FrameOK, ParkingKinds
<1>3. Len(r) = n - 1 /\ \A i \in 1..n-1 : r[i] = s[i]
  BY <1>1, FrontFacts
<1>4. StackOK(t, r)
  BY <1>1, <1>2, PopOK
<1>5. stack'[t] = r /\ DOMAIN stack' = Threads
  BY DEF WithoutTop
<1>6. ASSUME NEW x \in Threads \ {t}
      PROVE  /\ StackOK(x, stack'[x]) /\ Len(stack'[x]) = Len(stack[x])
             /\ \A i \in 1..Len(stack[x]) : /\ stack'[x][i] = Forgets(stack[x][i], Me(t))
                                            /\ Same(stack'[x][i], stack[x][i])
                                            /\ stack'[x][i].p \in {stack[x][i].p, NoParker}
  <2>. DEFINE y == stack[x]
              z == [i \in 1..Len(y) |-> Forgets(y[i], Me(t))]
  <2>1. stack'[x] = z
    BY DEF WithoutTop, Forgets
  <2>2. StackOK(x, y) /\ Len(y) \in Nat
    BY LenProperties DEF Stacks, StackOK
  <2>3. \A i \in 1..Len(y) : FrameOK(x, y[i])
    BY <2>2 DEF StackOK
  <2>. HIDE DEF y
  <2>4. \A i \in 1..Len(y) : /\ FrameOK(x, z[i]) /\ Same(z[i], y[i]) /\ z[i] = Forgets(y[i], Me(t))
                             /\ z[i].p \in {y[i].p, NoParker}
    BY <2>3, ForgetsOK
  <2>5. z \in Seq(FrameTypes) /\ Len(z) = Len(y)
    <3>1. \A i \in 1..Len(y) : Forgets(y[i], Me(t)) \in FrameTypes
      BY <2>4 DEF FrameOK
    <3>. QED
      BY <2>2, <3>1
  <2>. HIDE DEF z
  <2>6. \A i \in 1..Len(z) : IF i = 1 THEN z[1].kind \in Bases ELSE Nests(z[i-1], z[i])
    <3>. TAKE i \in 1..Len(z)
    <3>1. IF i = 1 THEN y[1].kind \in Bases ELSE Nests(y[i-1], y[i])
      BY <2>2, <2>5 DEF StackOK
    <3>2. CASE i = 1
      BY <2>2, <2>4, <2>5, <3>1, <3>2 DEF Same
    <3>3. CASE i # 1
      <4>1. i-1 \in 1..Len(y) /\ i \in 1..Len(y)
        BY <2>2, <2>5, <3>3
      <4>. QED
        BY <2>4, <3>1, <3>3, <4>1, NestsSame
    <3>. QED BY <3>2, <3>3
  <2>7. x = Stopper => z # <<>>
    <3>1. x = Stopper => y # <<>> /\ y \in Seq(FrameTypes)
      BY <2>2 DEF StackOK
    <3>2. x = Stopper => Len(z) # 0
      BY <2>5, <3>1, EmptySeq
    <3>. QED
      BY <3>2
  <2>8. StackOK(x, z)
    BY <2>4, <2>5, <2>6, <2>7 DEF StackOK
  <2>. QED
    BY <2>1, <2>4, <2>5, <2>8 DEF y
<1>. HIDE DEF r
<1>7. Stacks'
  BY <1>4, <1>5, <1>6 DEF Stacks
<1>8. Below(t)
  BY <1>3, <1>5, <1>6, <1>7 DEF Below, Same
<1>9. Top(t).kind \notin Bases => Nests(s[n-1], s[n])
  BY <1>1, TopNests
<1>. QED
  BY <1>1, <1>3, <1>5, <1>6, <1>8, <1>9 DEF Drops

LEMMA StartForm ==
  ASSUME Stacks, NEW w \in Workers, stack[w] = <<>>, Put(w, <<Frame("drain", "fair", NoUnit)>>)
  PROVE  /\ Below(w) /\ Len(stack[w]) = 0 /\ Len(stack'[w]) = 1
         /\ stack'[w][1] = Frame("drain", "fair", NoUnit)
<1>. DEFINE f == Frame("drain", "fair", NoUnit)
<1>1. FrameOK(w, f) /\ w \in Threads
  BY DEF FrameOK, FrameTypes, Frame, NoParker, Parkers, Kinds, Pcs, DrainPcs, Threads
<1>2. f.kind \in Bases
  BY DEF Frame, Bases
<1>. HIDE DEF f
<1>3. StackOK(w, <<f>>)
  BY <1>1, <1>2, SchedulerAssumption DEF StackOK, FrameOK
<1>4. Below(w)
  BY <1>1, <1>3, BelowFacts DEF f
<1>. QED
  BY <1>1, <1>4, PutFacts DEF f


-----------------------------------------------------------------------------
(* The frames at a mark, before and after a step.                          *)

LEMMA SpotsAre ==
  ASSUME NEW Z
  PROVE  /\ Spots(Z) \subseteq Threads \X Nat
         /\ \A x, i : <<x, i>> \in Spots(Z) <=>
                        x \in Threads /\ i \in 1..Len(stack[x]) /\ Mark(stack[x][i]) \in Z
  BY DEF Spots

LEMMA SpotsAreNext ==
  ASSUME NEW Z
  PROVE  /\ Spots(Z)' \subseteq Threads \X Nat
         /\ \A x, i : <<x, i>> \in Spots(Z)' <=>
                        x \in Threads /\ i \in 1..Len(stack'[x]) /\ Mark(stack'[x][i]) \in Z
  BY DEF Spots

LEMMA SpotsBelow ==
  ASSUME Stacks, NEW t \in Threads, Below(t), NEW Z
  PROVE  \A x \in Threads, i \in Nat :
           (x # t \/ (i < Len(stack[t]) /\ i <= Len(stack'[t])))
           => (<<x, i>> \in Spots(Z)' <=> <<x, i>> \in Spots(Z))
<1>. TAKE x \in Threads, i \in Nat
<1>1. Len(stack[t]) \in Nat /\ Len(stack'[t]) \in Nat
  BY LenProperties DEF Stacks, StackOK, Below
<1>2. CASE x # t
  <2>1. /\ Len(stack'[x]) = Len(stack[x])
        /\ i \in 1..Len(stack[x]) => Same(stack'[x][i], stack[x][i])
    BY <1>2 DEF Below
  <2>. QED
    BY <1>2, <2>1, SpotsAre, SpotsAreNext DEF Same, Mark
<1>3. CASE x = t /\ i < Len(stack[t]) /\ i <= Len(stack'[t])
  <2>1. i >= 1 => stack'[t][i] = stack[t][i]
    BY <1>1, <1>3 DEF Below
  <2>. QED
    BY <1>1, <1>3, <2>1, SpotsAre, SpotsAreNext
<1>. QED
  BY <1>2, <1>3

LEMMA SpotsTurn ==
  ASSUME Stacks, NEW t \in Threads, NEW f, Turns(t, f), NEW Z
  PROVE  /\ Me(t)' = Me(t) /\ Me(t) \in Threads \X Nat
         /\ Me(t) \in Spots(Z) <=> Mark(Top(t)) \in Z
         /\ Spots(Z)' = IF Mark(f) \in Z THEN Spots(Z) \cup {Me(t)} ELSE Spots(Z) \ {Me(t)}
<1>. DEFINE n == Len(stack[t])
<1>1. /\ n \in Nat \ {0} /\ Len(stack'[t]) = n /\ stack'[t][n] = f /\ Below(t)
      /\ Top(t) = stack[t][n] /\ Me(t) = <<t, n>> /\ Me(t)' = <<t, n>>
  BY TopFacts DEF Turns, Me
<1>. HIDE DEF n
<1>2. /\ <<t, n>> \in Spots(Z) <=> Mark(stack[t][n]) \in Z
      /\ <<t, n>> \in Spots(Z)' <=> Mark(f) \in Z
  BY <1>1, SpotsAre, SpotsAreNext DEF n
<1>3. ASSUME NEW x \in Threads, NEW i \in Nat, <<x, i>> # <<t, n>>
      PROVE  <<x, i>> \in Spots(Z)' <=> <<x, i>> \in Spots(Z)
  <2>1. CASE x # t \/ i < n
    <3>1. i < n => i <= Len(stack'[t])
      BY <1>1
    <3>. QED
      BY <1>1, <2>1, <3>1, SpotsBelow DEF n
  <2>2. CASE x = t /\ i > n
    <3>1. i \notin 1..n
      BY <1>1, <2>2
    <3>. QED
      BY <1>1, <2>2, <3>1, SpotsAre, SpotsAreNext DEF n
  <2>. QED
    BY <1>1, <1>3, <2>1, <2>2
<1>4. Spots(Z) \subseteq Threads \X Nat /\ Spots(Z)' \subseteq Threads \X Nat
  BY SpotsAre, SpotsAreNext
<1>5. \A p \in Threads \X Nat : p # <<t, n>> => (p \in Spots(Z)' <=> p \in Spots(Z))
  BY <1>3
<1>. QED
  BY <1>1, <1>2, <1>4, <1>5

LEMMA SpotsAdd ==
  ASSUME Stacks, NEW t \in Threads, NEW f, NEW g, Adds(t, f, g), NEW Z
  PROVE  /\ Me(t)' = <<t, Len(stack[t]) + 1>> /\ Me(t) \in Threads \X Nat
         /\ Me(t)' \notin Spots(Z)
         /\ Me(t) \in Spots(Z) <=> Mark(Top(t)) \in Z
         /\ Spots(Z)' = (IF Mark(f) \in Z THEN Spots(Z) \cup {Me(t)} ELSE Spots(Z) \ {Me(t)})
                          \cup (IF Mark(g) \in Z THEN {Me(t)'} ELSE {})
<1>. DEFINE n == Len(stack[t])
<1>1. /\ n \in Nat \ {0} /\ Len(stack'[t]) = n+1 /\ stack'[t][n] = f /\ stack'[t][n+1] = g
      /\ Below(t) /\ Top(t) = stack[t][n] /\ Me(t) = <<t, n>> /\ Me(t)' = <<t, n+1>>
  BY TopFacts DEF Adds, Me
<1>. HIDE DEF n
<1>2. /\ <<t, n>> \in Spots(Z) <=> Mark(stack[t][n]) \in Z
      /\ <<t, n>> \in Spots(Z)' <=> Mark(f) \in Z
      /\ <<t, n+1>> \in Spots(Z)' <=> Mark(g) \in Z
      /\ <<t, n+1>> \notin Spots(Z)
  <2>1. n \in 1..n /\ n \in 1..n+1 /\ n+1 \in 1..n+1 /\ n+1 \notin 1..n
    BY <1>1
  <2>. QED
    BY <1>1, <2>1, SpotsAre, SpotsAreNext DEF n
<1>3. ASSUME NEW x \in Threads, NEW i \in Nat, <<x, i>> # <<t, n>>, <<x, i>> # <<t, n+1>>
      PROVE  <<x, i>> \in Spots(Z)' <=> <<x, i>> \in Spots(Z)
  <2>1. CASE x # t \/ i < n
    <3>1. i < n => i <= Len(stack'[t])
      BY <1>1
    <3>. QED
      BY <1>1, <2>1, <3>1, SpotsBelow DEF n
  <2>2. CASE x = t /\ i > n+1
    <3>1. i \notin 1..n /\ i \notin 1..n+1
      BY <1>1, <2>2
    <3>. QED
      BY <1>1, <2>2, <3>1, SpotsAre, SpotsAreNext DEF n
  <2>. QED
    BY <1>1, <1>3, <2>1, <2>2
<1>4. Spots(Z) \subseteq Threads \X Nat /\ Spots(Z)' \subseteq Threads \X Nat
  BY SpotsAre, SpotsAreNext
<1>5. \A p \in Threads \X Nat : p # <<t, n>> /\ p # <<t, n+1>> =>
        (p \in Spots(Z)' <=> p \in Spots(Z))
  BY <1>3
<1>. QED
  BY <1>1, <1>2, <1>4, <1>5 DEF n

LEMMA SpotsDrop ==
  ASSUME Stacks, NEW t \in Threads, Drops(t), NEW Z
  PROVE  /\ Me(t) \in Threads \X Nat
         /\ Me(t) \in Spots(Z) <=> Mark(Top(t)) \in Z
         /\ Spots(Z)' = Spots(Z) \ {Me(t)}
<1>. DEFINE n == Len(stack[t])
<1>1. /\ n \in Nat \ {0} /\ Len(stack'[t]) = n-1 /\ Below(t) /\ Top(t) = stack[t][n]
      /\ Me(t) = <<t, n>>
  BY TopFacts DEF Drops, Me
<1>. HIDE DEF n
<1>2. (<<t, n>> \in Spots(Z) <=> Mark(stack[t][n]) \in Z) /\ <<t, n>> \notin Spots(Z)'
  <2>1. n \in 1..n /\ n \notin 1..n-1
    BY <1>1
  <2>. QED
    BY <1>1, <2>1, SpotsAre, SpotsAreNext DEF n
<1>3. ASSUME NEW x \in Threads, NEW i \in Nat, <<x, i>> # <<t, n>>
      PROVE  <<x, i>> \in Spots(Z)' <=> <<x, i>> \in Spots(Z)
  <2>1. CASE x # t \/ i < n
    <3>1. i < n => i <= Len(stack'[t])
      BY <1>1
    <3>. QED
      BY <1>1, <2>1, <3>1, SpotsBelow DEF n
  <2>2. CASE x = t /\ i > n
    <3>1. i \notin 1..n /\ i \notin 1..n-1
      BY <1>1, <2>2
    <3>. QED
      BY <1>1, <2>2, <3>1, SpotsAre, SpotsAreNext DEF n
  <2>. QED
    BY <1>1, <1>3, <2>1, <2>2
<1>4. Spots(Z) \subseteq Threads \X Nat /\ Spots(Z)' \subseteq Threads \X Nat
  BY SpotsAre, SpotsAreNext
<1>5. \A p \in Threads \X Nat : p # <<t, n>> => (p \in Spots(Z)' <=> p \in Spots(Z))
  BY <1>3
<1>. QED
  BY <1>1, <1>2, <1>4, <1>5

LEMMA SpotsStart ==
  ASSUME Stacks, NEW w \in Workers, Below(w), Len(stack[w]) = 0, Len(stack'[w]) = 1, NEW Z
  PROVE  /\ <<w, 1>> \notin Spots(Z)
         /\ Spots(Z)' = IF Mark(stack'[w][1]) \in Z THEN Spots(Z) \cup {<<w, 1>>} ELSE Spots(Z)
<1>. w \in Threads
  BY DEF Threads
<1>1. <<w, 1>> \notin Spots(Z) /\ (<<w, 1>> \in Spots(Z)' <=> Mark(stack'[w][1]) \in Z)
  BY SpotsAre, SpotsAreNext
<1>2. ASSUME NEW x \in Threads, NEW i \in Nat, <<x, i>> # <<w, 1>>
      PROVE  <<x, i>> \in Spots(Z)' <=> <<x, i>> \in Spots(Z)
  <2>1. CASE x # w
    BY <2>1, SpotsBelow
  <2>2. CASE x = w /\ i # 1
    BY <2>2, SpotsAre, SpotsAreNext
  <2>. QED
    BY <1>2, <2>1, <2>2
<1>3. Spots(Z) \subseteq Threads \X Nat /\ Spots(Z)' \subseteq Threads \X Nat
  BY SpotsAre, SpotsAreNext
<1>4. \A p \in Threads \X Nat : p # <<w, 1>> => (p \in Spots(Z)' <=> p \in Spots(Z))
  BY <1>2
<1>5. <<w, 1>> \in Threads \X Nat
  OBVIOUS
<1>6. CASE Mark(stack'[w][1]) \in Z
  BY <1>1, <1>3, <1>4, <1>5, <1>6
<1>7. CASE Mark(stack'[w][1]) \notin Z
  <2>1. \A p : p \in Spots(Z)' <=> p \in Spots(Z)
    BY <1>1, <1>3, <1>4, <1>5, <1>7
  <2>2. Spots(Z)' = Spots(Z)
    BY <2>1
  <2>. QED
    BY <1>1, <1>7, <2>2
<1>. QED
  BY <1>6, <1>7

\* When the top frame neither comes to nor leaves the marks.
LEMMA TurnKept ==
  ASSUME Stacks, NEW t \in Threads, NEW f, Turns(t, f), NEW Z, Mark(f) \in Z <=> Mark(Top(t)) \in Z
  PROVE  Spots(Z)' = Spots(Z)
<1>1. CASE Mark(f) \in Z
  <2>1. Spots(Z)' = Spots(Z) \cup {Me(t)} /\ Me(t) \in Spots(Z)
    BY <1>1, SpotsTurn
  <2>. QED BY <2>1
<1>2. CASE Mark(f) \notin Z
  <2>1. Spots(Z)' = Spots(Z) \ {Me(t)} /\ Me(t) \notin Spots(Z)
    BY <1>2, SpotsTurn
  <2>. QED BY <2>1
<1>. QED BY <1>1, <1>2

LEMMA AddKept ==
  ASSUME Stacks, NEW t \in Threads, NEW f, NEW g, Adds(t, f, g), NEW Z,
         Mark(f) \in Z <=> Mark(Top(t)) \in Z, Mark(g) \notin Z
  PROVE  Spots(Z)' = Spots(Z)
<1>1. CASE Mark(f) \in Z
  <2>1. Spots(Z)' = (Spots(Z) \cup {Me(t)}) \cup {} /\ Me(t) \in Spots(Z)
    BY <1>1, SpotsAdd
  <2>. QED BY <2>1
<1>2. CASE Mark(f) \notin Z
  <2>1. Spots(Z)' = (Spots(Z) \ {Me(t)}) \cup {} /\ Me(t) \notin Spots(Z)
    BY <1>2, SpotsAdd
  <2>. QED BY <2>1
<1>. QED BY <1>1, <1>2

LEMMA DropKept ==
  ASSUME Stacks, NEW t \in Threads, Drops(t), NEW Z, Mark(Top(t)) \notin Z
  PROVE  Spots(Z)' = Spots(Z)
<1>1. Spots(Z)' = Spots(Z) \ {Me(t)} /\ Me(t) \notin Spots(Z)
  BY SpotsDrop
<1>. QED BY <1>1

-----------------------------------------------------------------------------
(* Counters and parkers, by the way the stack changes.                     *)

SameMarks(f, g) ==
  /\ Mark(f) \in LaneMarks <=> Mark(g) \in LaneMarks
  /\ Mark(f) \in DrainMarks <=> Mark(g) \in DrainMarks
Unmarked(f) == Mark(f) \notin LaneMarks /\ Mark(f) \notin DrainMarks

LEMMA TurnCounts ==
  ASSUME Stacks, NEW t \in Threads, NEW f, Turns(t, f), SameMarks(f, Top(t))
  PROVE  Lanes' = Lanes /\ Draining' = Draining
<1>1. Spots(LaneMarks)' = Spots(LaneMarks)
  BY TurnKept DEF SameMarks
<1>2. Spots(DrainMarks)' = Spots(DrainMarks)
  BY TurnKept DEF SameMarks
<1>. QED
  BY <1>1, <1>2 DEF Lanes, Draining

LEMMA AddCounts ==
  ASSUME Stacks, NEW t \in Threads, NEW f, NEW g, Adds(t, f, g), SameMarks(f, Top(t)), Unmarked(g)
  PROVE  Lanes' = Lanes /\ Draining' = Draining
<1>1. Spots(LaneMarks)' = Spots(LaneMarks)
  BY AddKept DEF SameMarks, Unmarked
<1>2. Spots(DrainMarks)' = Spots(DrainMarks)
  BY AddKept DEF SameMarks, Unmarked
<1>. QED
  BY <1>1, <1>2 DEF Lanes, Draining

LEMMA DropCounts ==
  ASSUME Stacks, NEW t \in Threads, Drops(t), Unmarked(Top(t))
  PROVE  Lanes' = Lanes /\ Draining' = Draining
<1>1. Spots(LaneMarks)' = Spots(LaneMarks)
  BY DropKept DEF Unmarked
<1>2. Spots(DrainMarks)' = Spots(DrainMarks)
  BY DropKept DEF Unmarked
<1>. QED
  BY <1>1, <1>2 DEF Lanes, Draining

LEMMA CountsKept ==
  ASSUME LaneInv, DrainInv, Lanes' = Lanes, Draining' = Draining, UNCHANGED counts
  PROVE  LaneInv' /\ DrainInv'
  BY DEF LaneInv, DrainInv, counts

Parks(f) == f.kind \in ParkingKinds
NamesOK(S) ==
  \A t \in Threads : \A i \in 1..Len(stack[t]) : stack[t][i].p = NoParker \/ stack[t][i].p \in S

LEMMA ParkMark ==
  ASSUME NEW t \in Threads, NEW f, FrameOK(t, f)
  PROVE  Mark(f) \in ParkMarks <=> Parks(f)
  BY DEF FrameOK, FrameTypes, Mark, ParkMarks, Parks

\* The frames below the top keep their parkers, or lose them.
LEMMA NamesBelow ==
  ASSUME Stacks, NEW t \in Threads, Below(t), NEW S, NamesOK(S),
         \A i \in 1..Len(stack'[t]) : i >= Len(stack[t]) =>
            stack'[t][i].p = NoParker \/ stack'[t][i].p \in S
  PROVE  NamesOK(S)'
<1>. SUFFICES ASSUME NEW x \in Threads, NEW i \in 1..Len(stack'[x])
              PROVE  stack'[x][i].p = NoParker \/ stack'[x][i].p \in S
  BY DEF NamesOK
<1>1. Len(stack[x]) \in Nat /\ Len(stack'[x]) \in Nat
  BY LenProperties DEF Stacks, StackOK, Below
<1>2. CASE x # t
  <2>1. i \in 1..Len(stack[x]) /\ stack'[x][i].p \in {stack[x][i].p, NoParker}
    BY <1>2 DEF Below
  <2>. QED
    BY <2>1 DEF NamesOK
<1>3. CASE x = t /\ i < Len(stack[t])
  <2>1. i \in 1..Len(stack[t]) /\ stack'[t][i] = stack[t][i]
    BY <1>1, <1>3 DEF Below
  <2>. QED
    BY <1>3, <2>1 DEF NamesOK
<1>4. CASE x = t /\ i >= Len(stack[t])
  BY <1>4
<1>. QED
  BY <1>1, <1>2, <1>3, <1>4

LEMMA TurnParkers ==
  ASSUME Stacks, ParkerInv, NEW t \in Threads, NEW f, Turns(t, f), Parks(f) <=> Parks(Top(t)),
         parked' \subseteq parked \cup {Me(t)}, Me(t) \in parked' => Mark(f) \in IdleMarks,
         permit' \subseteq Spots(ParkMarks), stopParkers' \subseteq Spots(ParkMarks),
         f.p = NoParker \/ f.p \in Spots(ParkMarks)
  PROVE  ParkerInv'
<1>1. FrameOK(t, f) /\ FrameOK(t, Top(t)) /\ Len(stack[t]) \in Nat \ {0}
      /\ Len(stack'[t]) = Len(stack[t]) /\ stack'[t][Len(stack[t])] = f
  BY TopFacts DEF Turns, Below, Stacks, StackOK
<1>2. Spots(ParkMarks)' = Spots(ParkMarks)
  BY <1>1, TurnKept, ParkMark
<1>3. parked' \subseteq Spots(IdleMarks)'
  <2>1. Spots(IdleMarks)' = IF Mark(f) \in IdleMarks THEN Spots(IdleMarks) \cup {Me(t)}
                            ELSE Spots(IdleMarks) \ {Me(t)}
    BY SpotsTurn
  <2>. QED
    BY <2>1 DEF ParkerInv
<1>4. NamesOK(Spots(ParkMarks))
  BY DEF NamesOK, ParkerInv
<1>5. PICK S : S = Spots(ParkMarks)
  OBVIOUS
<1>6. NamesOK(S)'
  <2>1. \A i \in 1..Len(stack'[t]) : i >= Len(stack[t]) => stack'[t][i] = f
    BY <1>1
  <2>2. Below(t) /\ NamesOK(S)
    BY <1>4, <1>5 DEF Turns
  <2>. QED
    BY <1>5, <2>1, <2>2, NamesBelow
<1>. QED
  BY <1>2, <1>3, <1>5, <1>6 DEF ParkerInv, NamesOK

LEMMA AddParkers ==
  ASSUME Stacks, ParkerInv, NEW t \in Threads, NEW f, NEW g, Adds(t, f, g),
         Parks(f) <=> Parks(Top(t)), f.p = NoParker, g.p = NoParker,
         parked' \subseteq parked, Me(t) \in parked' => Mark(f) \in IdleMarks,
         permit' \subseteq Spots(ParkMarks) \/ (Parks(g) /\ permit' \subseteq Spots(ParkMarks) \cup {Me(t)'}),
         stopParkers' \subseteq Spots(ParkMarks) \/ (Parks(g) /\ stopParkers' \subseteq Spots(ParkMarks) \cup {Me(t)'})
  PROVE  ParkerInv'
<1>. DEFINE n == Len(stack[t])
<1>1. /\ n \in Nat \ {0} /\ Len(stack'[t]) = n + 1 /\ stack'[t][n] = f /\ stack'[t][n+1] = g
      /\ StackOK(t, stack'[t])
  BY DEF Adds, Below, Stacks
<1>2. FrameOK(t, f) /\ FrameOK(t, g) /\ FrameOK(t, Top(t))
  <2>1. n \in 1..n+1 /\ n+1 \in 1..n+1
    BY <1>1
  <2>2. FrameOK(t, Top(t))
    BY TopFacts DEF Adds
  <2>. QED
    BY <1>1, <2>1, <2>2 DEF StackOK
<1>3. /\ Spots(ParkMarks) \subseteq Spots(ParkMarks)'
      /\ Parks(g) => Me(t)' \in Spots(ParkMarks)'
  <2>1. /\ Me(t) \in Spots(ParkMarks) <=> Mark(Top(t)) \in ParkMarks
        /\ Spots(ParkMarks)' = (IF Mark(f) \in ParkMarks THEN Spots(ParkMarks) \cup {Me(t)} ELSE Spots(ParkMarks) \ {Me(t)})
                                \cup (IF Mark(g) \in ParkMarks THEN {Me(t)'} ELSE {})
    BY SpotsAdd
  <2>2. /\ Mark(f) \in ParkMarks <=> Mark(Top(t)) \in ParkMarks
        /\ Parks(g) => Mark(g) \in ParkMarks
    BY <1>2, ParkMark
  <2>. QED
    BY <2>1, <2>2
<1>4. parked' \subseteq Spots(IdleMarks)'
  <2>1. /\ Me(t) \in Spots(IdleMarks) <=> Mark(Top(t)) \in IdleMarks
        /\ Spots(IdleMarks)' = (IF Mark(f) \in IdleMarks THEN Spots(IdleMarks) \cup {Me(t)} ELSE Spots(IdleMarks) \ {Me(t)})
                                \cup (IF Mark(g) \in IdleMarks THEN {Me(t)'} ELSE {})
    BY SpotsAdd
  <2>. QED
    BY <2>1 DEF ParkerInv
<1>5. PICK S : S = Spots(ParkMarks)
  OBVIOUS
<1>6. NamesOK(S)'
  <2>1. \A i \in 1..Len(stack'[t]) : i >= Len(stack[t]) => stack'[t][i].p = NoParker
    <3>. TAKE i \in 1..Len(stack'[t])
    <3>1. i >= n => i = n \/ i = n+1
      BY <1>1
    <3>. QED
      BY <1>1, <3>1
  <2>2. Below(t) /\ NamesOK(S)
    BY <1>5 DEF Adds, NamesOK, ParkerInv
  <2>. QED
    BY <1>5, <2>1, <2>2, NamesBelow
<1>. QED
  BY <1>3, <1>4, <1>5, <1>6 DEF ParkerInv, NamesOK

LEMMA DropParkers ==
  ASSUME Stacks, ParkerInv, NEW t \in Threads, Drops(t), ~Parks(Top(t)),
         parked' \subseteq parked,
         permit' \subseteq Spots(ParkMarks), stopParkers' \subseteq Spots(ParkMarks)
  PROVE  ParkerInv'
<1>1. FrameOK(t, Top(t)) /\ Len(stack[t]) \in Nat \ {0} /\ Len(stack'[t]) = Len(stack[t]) - 1
  BY TopFacts DEF Drops
<1>2. Spots(ParkMarks)' = Spots(ParkMarks)
  BY <1>1, DropKept, ParkMark
<1>3. Spots(IdleMarks)' = Spots(IdleMarks)
  <2>1. Mark(Top(t)) \notin IdleMarks
    BY DEF Mark, IdleMarks, Parks, ParkingKinds, DriverKinds
  <2>. QED
    BY <2>1, DropKept
<1>4. PICK S : S = Spots(ParkMarks)
  OBVIOUS
<1>5. NamesOK(S)'
  <2>1. \A i \in 1..Len(stack'[t]) : ~(i >= Len(stack[t]))
    BY <1>1
  <2>2. Below(t) /\ NamesOK(S)
    BY <1>4 DEF Drops, NamesOK, ParkerInv
  <2>. QED
    BY <2>1, <2>2, NamesBelow
<1>. QED
  BY <1>2, <1>3, <1>4, <1>5 DEF ParkerInv, NamesOK

-----------------------------------------------------------------------------
(* Slots, by the way the stack changes.                                    *)

Quiet(f)  == f.kind \in DriverKinds /\ f.pc \in QuietPcs
Shade(f)  == f.kind \in {"job", "wake", "wait"}

\* A frame the slot must be empty for, seen from position m of the stack of t.
Exposed(s, m) == \E i \in 1..m : Quiet(s[i]) /\ \A j \in i+1..m : Shade(s[j])

LEMMA SlotMeans ==
  ASSUME NEW w, NEW s, Len(s) \in Nat
  PROVE  SlotOK(w, s) <=> (Exposed(s, Len(s)) => slot[w] = NoUnit)
  BY DEF SlotOK, Exposed, Quiet, Shade

LEMMA SlotMeansNext ==
  ASSUME NEW w, NEW s, Len(s) \in Nat
  PROVE  SlotOK(w, s)' <=> (Exposed(s, Len(s)) => slot'[w] = NoUnit)
  BY DEF SlotOK, Exposed, Quiet, Shade

\* What the frames up to m expose follows from the frames up to m-1 and frame m.
LEMMA ExposedTop ==
  ASSUME NEW s, NEW m \in Nat
  PROVE  Exposed(s, m+1) <=> Quiet(s[m+1]) \/ (Exposed(s, m) /\ Shade(s[m+1]))
<1>1. ASSUME Exposed(s, m+1), ~Quiet(s[m+1]) PROVE Exposed(s, m) /\ Shade(s[m+1])
  <2>1. PICK i \in 1..m+1 : Quiet(s[i]) /\ \A j \in i+1..m+1 : Shade(s[j])
    BY <1>1 DEF Exposed
  <2>2. i \in 1..m /\ m+1 \in i+1..m+1 /\ \A j \in i+1..m : j \in i+1..m+1
    BY <1>1, <2>1
  <2>. QED
    BY <2>1, <2>2 DEF Exposed
<1>2. ASSUME Quiet(s[m+1]) PROVE Exposed(s, m+1)
  <2>1. m+1 \in 1..m+1 /\ \A j \in (m+1)+1..m+1 : FALSE
    OBVIOUS
  <2>. QED
    BY <1>2, <2>1 DEF Exposed
<1>3. ASSUME Exposed(s, m), Shade(s[m+1]) PROVE Exposed(s, m+1)
  <2>1. PICK i \in 1..m : Quiet(s[i]) /\ \A j \in i+1..m : Shade(s[j])
    BY <1>3 DEF Exposed
  <2>2. i \in 1..m+1 /\ \A j \in i+1..m+1 : j \in i+1..m \/ j = m+1
    OBVIOUS
  <2>3. \A j \in i+1..m+1 : Shade(s[j])
    BY <1>3, <2>1, <2>2
  <2>. QED
    BY <2>1, <2>2, <2>3 DEF Exposed
<1>. QED
  BY <1>1, <1>2, <1>3

LEMMA ExposedSame ==
  ASSUME NEW s, NEW r, NEW m \in Nat, \A i \in 1..m : Same(s[i], r[i])
  PROVE  Exposed(s, m) <=> Exposed(r, m)
<1>1. \A i \in 1..m : (Quiet(s[i]) <=> Quiet(r[i])) /\ (Shade(s[i]) <=> Shade(r[i]))
  BY DEF Same, Quiet, Shade
<1>2. \A i \in 1..m : \A j \in i+1..m : j \in 1..m
  OBVIOUS
<1>. QED
  BY <1>1, <1>2 DEF Exposed

LEMMA ExposedBelow ==
  ASSUME Stacks, NEW t \in Threads, Below(t), Busy(t)
  PROVE  LET n == Len(stack[t]) IN
         /\ n - 1 \in Nat /\ n = (n - 1) + 1
         /\ Exposed(stack'[t], n - 1) <=> Exposed(stack[t], n - 1)
         /\ Exposed(stack[t], n) <=> Quiet(Top(t)) \/ (Exposed(stack[t], n - 1) /\ Shade(Top(t)))
<1>. DEFINE n == Len(stack[t])
<1>1. n \in Nat \ {0} /\ Top(t) = stack[t][n]
  BY TopFacts
<1>2. \A i \in 1..n-1 : Same(stack'[t][i], stack[t][i])
  BY DEF Below, Same
<1>. HIDE DEF n
<1>3. n-1 \in Nat /\ n = (n-1) + 1
  BY <1>1
<1>4. Exposed(stack'[t], n-1) <=> Exposed(stack[t], n-1)
  BY <1>2, <1>3, ExposedSame
<1>5. Exposed(stack[t], n) <=> Quiet(stack[t][n]) \/ (Exposed(stack[t], n-1) /\ Shade(stack[t][n]))
  BY <1>3, ExposedTop
<1>. QED
  BY <1>1, <1>3, <1>4, <1>5 DEF n

SlotKept(w) == SlotOK(w, stack[w]) /\ (slot[w] # NoUnit => Busy(w))

LEMMA SlotOther ==
  ASSUME Stacks, SlotInv, NEW t, Below(t), NEW x \in Workers \ {t}, slot'[x] = slot[x]
  PROVE  SlotKept(x)'
<1>1. /\ x \in Threads /\ Len(stack'[x]) = Len(stack[x]) /\ Len(stack[x]) \in Nat
      /\ \A i \in 1..Len(stack[x]) : Same(stack'[x][i], stack[x][i])
      /\ SlotOK(x, stack[x]) /\ (slot[x] # NoUnit => stack[x] # <<>>)
  BY LenProperties DEF Threads, Below, SlotInv, Busy, Stacks, StackOK
<1>2. Exposed(stack'[x], Len(stack[x])) <=> Exposed(stack[x], Len(stack[x]))
  BY <1>1, ExposedSame
<1>3. SlotOK(x, stack[x])'
  BY <1>1, <1>2, SlotMeans DEF SlotOK, Exposed, Quiet, Shade
<1>4. stack[x] # <<>> => stack'[x] # <<>>
  <2>1. stack[x] # <<>> => Len(stack[x]) # 0
    BY <1>1, EmptySeq DEF Stacks, StackOK
  <2>. QED
    BY <1>1, <2>1
<1>. QED
  BY <1>1, <1>3, <1>4 DEF SlotKept, Busy

LEMMA SlotAll ==
  ASSUME Stacks, SlotInv, NEW t \in Threads, Below(t),
         \A x \in Workers \ {t} : slot'[x] = slot[x],
         t \in Workers =>
           /\ Exposed(stack'[t], Len(stack'[t])) => slot'[t] = NoUnit
           /\ stack'[t] = <<>> => slot'[t] = NoUnit
  PROVE  SlotInv'
<1>1. \A x \in Workers \ {t} : SlotKept(x)'
  BY SlotOther
<1>2. t \in Workers => SlotKept(t)'
  BY DEF SlotKept, SlotOK, Exposed, Quiet, Shade, Busy
<1>. QED
  BY <1>1, <1>2 DEF SlotKept, SlotInv

LEMMA TurnSlot ==
  ASSUME Stacks, SlotInv, NEW t \in Threads, NEW f, Turns(t, f), UNCHANGED slot,
         t \in Workers => /\ Quiet(f) => Quiet(Top(t)) \/ slot[t] = NoUnit
                          /\ Shade(f) => Shade(Top(t))
  PROVE  SlotInv'
<1>. DEFINE n == Len(stack[t])
<1>1. /\ Below(t) /\ Busy(t) /\ n \in Nat \ {0} /\ Len(stack'[t]) = n /\ stack'[t][n] = f
  BY DEF Turns
<1>2. ASSUME t \in Workers, Exposed(stack'[t], n), slot[t] # NoUnit PROVE FALSE
  <2>1. /\ n - 1 \in Nat /\ n = (n - 1) + 1
        /\ Exposed(stack'[t], n - 1) <=> Exposed(stack[t], n - 1)
        /\ Exposed(stack[t], n) <=> Quiet(Top(t)) \/ (Exposed(stack[t], n - 1) /\ Shade(Top(t)))
    BY <1>1, ExposedBelow
  <2>. HIDE DEF n
  <2>2. Exposed(stack'[t], n) <=> Quiet(f) \/ (Exposed(stack'[t], n-1) /\ Shade(f))
    BY <1>1, <2>1, ExposedTop
  <2>3. ~Exposed(stack[t], n)
    BY <1>1, <1>2, SlotMeans DEF SlotInv, n
  <2>. QED
    BY <1>2, <2>1, <2>2, <2>3
<1>3. stack'[t] # <<>>
  BY <1>1
<1>. QED
  BY <1>1, <1>2, <1>3, SlotAll

LEMMA AddSlot ==
  ASSUME Stacks, SlotInv, NEW t \in Threads, NEW f, NEW g, Adds(t, f, g), UNCHANGED slot,
         t \in Workers => /\ Quiet(f) => Quiet(Top(t)) \/ slot[t] = NoUnit
                          /\ Shade(f) => Shade(Top(t))
                          /\ ~Quiet(g)
  PROVE  SlotInv'
<1>. DEFINE n == Len(stack[t])
<1>1. /\ Below(t) /\ Busy(t) /\ n \in Nat \ {0} /\ Len(stack'[t]) = n+1
      /\ stack'[t][n] = f /\ stack'[t][n+1] = g
  BY DEF Adds
<1>2. ASSUME t \in Workers, Exposed(stack'[t], n+1), slot[t] # NoUnit PROVE FALSE
  <2>1. /\ n - 1 \in Nat /\ n = (n - 1) + 1
        /\ Exposed(stack'[t], n - 1) <=> Exposed(stack[t], n - 1)
        /\ Exposed(stack[t], n) <=> Quiet(Top(t)) \/ (Exposed(stack[t], n - 1) /\ Shade(Top(t)))
    BY <1>1, ExposedBelow
  <2>. HIDE DEF n
  <2>2. Exposed(stack'[t], n) <=> Quiet(f) \/ (Exposed(stack'[t], n-1) /\ Shade(f))
    BY <1>1, <2>1, ExposedTop
  <2>3. Exposed(stack'[t], n+1) <=> Quiet(g) \/ (Exposed(stack'[t], n) /\ Shade(g))
    BY <1>1, ExposedTop
  <2>4. ~Exposed(stack[t], n)
    BY <1>1, <1>2, SlotMeans DEF SlotInv, n
  <2>. QED
    BY <1>2, <2>1, <2>2, <2>3, <2>4
<1>3. stack'[t] # <<>>
  BY <1>1
<1>. QED
  BY <1>1, <1>2, <1>3, SlotAll

\* A frame that ends over a driver leaves it in the midst of its loop.
LEMMA DropSlot ==
  ASSUME Stacks, SlotInv, NEW t \in Threads, Drops(t), UNCHANGED slot,
         Len(stack[t]) > 1, Nests(stack[t][Len(stack[t]) - 1], Top(t)),
         Top(t).kind \in {"task", "job", "wake", "wait"}
  PROVE  SlotInv'
<1>. DEFINE n == Len(stack[t])
<1>1. /\ Below(t) /\ Busy(t) /\ n \in Nat \ {0} /\ n > 1 /\ Len(stack'[t]) = n-1
  BY DEF Drops
<1>2. ASSUME t \in Workers, Exposed(stack'[t], n-1), slot[t] # NoUnit PROVE FALSE
  <2>1. /\ n - 1 \in Nat /\ n = (n - 1) + 1
        /\ Exposed(stack'[t], n - 1) <=> Exposed(stack[t], n - 1)
        /\ Exposed(stack[t], n) <=> Quiet(Top(t)) \/ (Exposed(stack[t], n - 1) /\ Shade(Top(t)))
    BY <1>1, ExposedBelow
  <2>2. ~Exposed(stack[t], n)
    BY <1>1, <1>2, SlotMeans DEF SlotInv
  <2>3. Top(t).kind = "task"
    BY <1>2, <2>1, <2>2 DEF Shade
  <2>. DEFINE e == stack[t][n-1]
  <2>4. e.kind \in DriverKinds /\ e.pc \in ServedPcs
    BY <2>3 DEF Nests
  <2>5. ~Quiet(e) /\ ~Shade(e)
    BY <2>4 DEF Quiet, Shade, ServedPcs, QuietPcs, Retired, Leaving, DriverKinds
  <2>6. Exposed(stack[t], n-1) <=> Quiet(e) \/ (Exposed(stack[t], n-2) /\ Shade(e))
    <3>1. n-2 \in Nat /\ n-1 = (n-2)+1
      BY <1>1
    <3>. HIDE DEF n
    <3>2. \A m \in Nat : m + 1 = n-1 =>
            (Exposed(stack[t], m+1) <=> Quiet(stack[t][m+1]) \/ (Exposed(stack[t], m) /\ Shade(stack[t][m+1])))
      BY ExposedTop
    <3>. QED
      BY <3>1, <3>2
  <2>. QED
    BY <1>2, <2>1, <2>5, <2>6
<1>3. stack'[t] # <<>>
  <2>1. \A k \in Nat : k > 1 => k-1 # 0
    OBVIOUS
  <2>. QED
    BY <1>1, <2>1
<1>. QED
  BY <1>1, <1>2, <1>3, SlotAll

\* With the slot of t empty nothing needs to be known about its stack.
LEMMA EmptySlot ==
  ASSUME Stacks, SlotInv, NEW t \in Threads, Below(t),
         \A x \in Workers \ {t} : slot'[x] = slot[x],
         t \in Workers => slot'[t] = NoUnit
  PROVE  SlotInv'
  BY SlotAll

\* A slot that was filled under a frame that shades nothing below it.
LEMMA FilledSlot ==
  ASSUME Stacks, SlotInv, NEW t \in Threads, Below(t),
         \A x \in Workers \ {t} : slot'[x] = slot[x],
         NEW m \in Nat, m + 1 \in 1..Len(stack'[t]),
         ~Shade(stack'[t][m+1]), ~Quiet(stack'[t][m+1]),
         \/ Len(stack'[t]) = m + 1
         \/ Len(stack'[t]) = m + 2 /\ ~Quiet(stack'[t][m+2])
  PROVE  SlotInv'
<1>. DEFINE s == stack'[t]
<1>1. ~Exposed(s, m+1)
  BY ExposedTop
<1>2. ~Exposed(s, Len(s))
  <2>1. CASE Len(s) = m+1
    BY <1>1, <2>1
  <2>2. CASE Len(s) = m+2 /\ ~Quiet(s[m+2])
    <3>. HIDE DEF s
    <3>1. m+1 \in Nat /\ m+2 = (m+1)+1
      OBVIOUS
    <3>2. \A k \in Nat : Exposed(s, k+1) <=> Quiet(s[k+1]) \/ (Exposed(s, k) /\ Shade(s[k+1]))
      BY ExposedTop
    <3>. QED
      BY <1>1, <2>2, <3>1, <3>2
  <2>. QED
    BY <2>1, <2>2
<1>3. s # <<>>
  OBVIOUS
<1>. QED
  BY <1>2, <1>3, SlotAll

-----------------------------------------------------------------------------
(* Where a queued unit is, by the way the stack changes.                   *)

LEMMA TurnTop ==
  ASSUME NEW t \in Threads, NEW f, Turns(t, f)
  PROVE  Busy(t)' /\ Top(t)' = f
<1>1. stack'[t] \in Seq(FrameTypes) /\ Len(stack'[t]) \in Nat \ {0} /\ stack'[t][Len(stack'[t])] = f
  BY DEF Turns, Below, Stacks, StackOK
<1>2. stack'[t] # <<>>
  BY <1>1
<1>3. Last(stack'[t]) = stack'[t][Len(stack'[t])]
  BY <1>1, <1>2, FrontFacts
<1>. QED
  BY <1>1, <1>2, <1>3 DEF Top, Busy

LEMMA AddTop ==
  ASSUME NEW t \in Threads, NEW f, NEW g, Adds(t, f, g)
  PROVE  Busy(t)' /\ Top(t)' = g
<1>1. stack'[t] \in Seq(FrameTypes) /\ Len(stack'[t]) \in Nat \ {0} /\ stack'[t][Len(stack'[t])] = g
  BY DEF Adds, Below, Stacks, StackOK
<1>2. stack'[t] # <<>>
  BY <1>1
<1>3. Last(stack'[t]) = stack'[t][Len(stack'[t])]
  BY <1>1, <1>2, FrontFacts
<1>. QED
  BY <1>1, <1>2, <1>3 DEF Top, Busy

LEMMA DropTop ==
  ASSUME NEW t \in Threads, Drops(t), Busy(t)'
  PROVE  /\ Len(stack[t]) - 1 \in Nat \ {0} /\ Top(t)' = stack[t][Len(stack[t]) - 1]
         /\ Len(stack'[t]) = Len(stack[t]) - 1
<1>. DEFINE n == Len(stack[t])
<1>1. stack'[t] \in Seq(FrameTypes) /\ stack'[t] # <<>> /\ n \in Nat \ {0} /\ Len(stack'[t]) = n-1
      /\ \A i \in 1..n-1 : stack'[t][i] = stack[t][i]
  BY DEF Drops, Below, Stacks, StackOK, Busy
<1>2. Last(stack'[t]) = stack'[t][Len(stack'[t])] /\ Len(stack'[t]) \in Nat \ {0}
  BY <1>1, FrontFacts
<1>. HIDE DEF n
<1>3. n-1 \in Nat \ {0} /\ n-1 \in 1..n-1
  BY <1>1, <1>2
<1>. QED
  BY <1>1, <1>2, <1>3 DEF Top, n

LEMMA OtherTop ==
  ASSUME Stacks, NEW t \in Threads, Below(t), NEW x \in Threads \ {t}
  PROVE  /\ Busy(x)' <=> Busy(x)
         /\ Busy(x) => Same(Top(x)', Top(x))
<1>1. /\ stack[x] \in Seq(FrameTypes) /\ stack'[x] \in Seq(FrameTypes)
      /\ Len(stack'[x]) = Len(stack[x]) /\ Len(stack[x]) \in Nat
      /\ \A i \in 1..Len(stack[x]) : Same(stack'[x][i], stack[x][i])
  BY LenProperties DEF Stacks, StackOK, Below
<1>2. stack'[x] # <<>> <=> stack[x] # <<>>
  BY <1>1, EmptySeq
<1>3. ASSUME stack[x] # <<>>
      PROVE  /\ Last(stack[x]) = stack[x][Len(stack[x])] /\ Last(stack'[x]) = stack'[x][Len(stack'[x])]
             /\ Len(stack[x]) \in 1..Len(stack[x])
  <2>1. Last(stack[x]) = stack[x][Len(stack[x])] /\ Len(stack[x]) \in Nat \ {0}
    BY <1>1, <1>3, FrontFacts
  <2>2. Last(stack'[x]) = stack'[x][Len(stack'[x])]
    BY <1>1, <1>2, <1>3, FrontFacts
  <2>. QED
    BY <2>1, <2>2
<1>. QED
  BY <1>1, <1>2, <1>3 DEF Top, Busy

Holding(f) == f.pc \in {"push", "enqueue"}

LEMMA HandIs ==
  ASSUME NEW x \in Threads, NEW u
  PROVE  /\ In("hand", x, u) <=> Busy(x) /\ Holding(Top(x)) /\ Top(x).u = u
         /\ In("hand", x, u)' <=> Busy(x)' /\ Holding(Top(x)') /\ Top(x)'.u = u
  BY DEF In, At, Holding

LEMMA HandOther ==
  ASSUME Stacks, NEW t \in Threads, Below(t), NEW x \in Threads \ {t}, NEW u
  PROVE  In("hand", x, u)' <=> In("hand", x, u)
  BY OtherTop, HandIs DEF Same, Holding

LEMMA TurnHand ==
  ASSUME NEW t \in Threads, NEW f, Turns(t, f), NEW u
  PROVE  In("hand", t, u)' <=> Holding(f) /\ f.u = u
  BY TurnTop, HandIs

LEMMA AddHand ==
  ASSUME NEW t \in Threads, NEW f, NEW g, Adds(t, f, g), NEW u
  PROVE  In("hand", t, u)' <=> Holding(g) /\ g.u = u
  BY AddTop, HandIs

LEMMA OnlyWakesHold ==
  ASSUME NEW t, NEW f, FrameOK(t, f), f.kind # "wake"
  PROVE  ~Holding(f)
  BY DEF FrameOK, FrameTypes, Kinds, Holding, DrainPcs, CoopPcs, StopPcs, Retired, Leaving

LEMMA DropHand ==
  ASSUME Stacks, NEW t \in Threads, Drops(t), NEW u
  PROVE  ~In("hand", t, u)'
<1>1. SUFFICES ASSUME Busy(t)' PROVE ~Holding(Top(t)')
  BY HandIs
<1>. DEFINE n == Len(stack[t])
            e == stack[t][n-1]
<1>2. n-1 \in Nat \ {0} /\ Top(t)' = e /\ n \in Nat \ {0} /\ Top(t) = stack[t][n]
  BY <1>1, DropTop, TopFacts DEF Drops
<1>3. n-1 \in 1..n /\ n # 1
  <2>1. \A k \in Nat \ {0} : k-1 \in Nat \ {0} => k-1 \in 1..k /\ k # 1
    OBVIOUS
  <2>. QED
    BY <1>2, <2>1
<1>4. FrameOK(t, e)
  BY <1>3 DEF Stacks, StackOK
<1>5. Nests(e, Top(t))
  BY <1>3, TopNests DEF Drops
<1>6. FrameOK(t, Top(t))
  BY TopFacts DEF Drops
<1>7. e.kind # "wake"
  BY <1>5, <1>6 DEF Nests, FrameOK, FrameTypes, Kinds, Bases, DriverKinds, UserKinds
<1>. QED
  BY <1>2, <1>4, <1>7, OnlyWakesHold

\* Units stay where they are, leave, come, or move.
LEMMA PlacesShrink ==
  ASSUME QueuedInv, OnePlace, IsInjective(injector'), IsInjective(blockingQueue'),
         \A u \in Units, k \in Places, x \in Holders :
           In(k, x, u)' => In(k, x, u) /\ status'[u] = status[u]
  PROVE  QueuedInv' /\ OnePlace'
<1>1. QueuedInv'
  BY DEF QueuedInv
<1>2. \A u \in Units, k, l \in Places, x, y \in Holders :
        In(k, x, u)' /\ In(l, y, u)' => k = l /\ x = y
  BY DEF OnePlace
<1>. QED
  BY <1>1, <1>2 DEF OnePlace

LEMMA PlacesGrow ==
  ASSUME QueuedInv, OnePlace, IsInjective(injector'), IsInjective(blockingQueue'),
         NEW v \in Units, NEW l, NEW y, status[v] # "queued", status'[v] = "queued",
         \A u \in Units, k \in Places, x \in Holders :
           In(k, x, u)' => \/ In(k, x, u) /\ status'[u] = status[u]
                           \/ u = v /\ k = l /\ x = y
  PROVE  QueuedInv' /\ OnePlace'
<1>1. QueuedInv'
  BY DEF QueuedInv
<1>2. ASSUME NEW u \in Units, NEW k \in Places, NEW m \in Places, NEW x \in Holders, NEW z \in Holders,
             In(k, x, u)', In(m, z, u)'
      PROVE  k = m /\ x = z
  <2>1. CASE u = v
    <3>1. ~In(k, x, v) /\ ~In(m, z, v)
      BY DEF QueuedInv
    <3>. QED
      BY <1>2, <2>1, <3>1
  <2>2. CASE u # v
    BY <1>2, <2>2 DEF OnePlace
  <2>. QED
    BY <2>1, <2>2
<1>. QED
  BY <1>1, <1>2 DEF OnePlace

LEMMA PlacesMove ==
  ASSUME QueuedInv, OnePlace, IsInjective(injector'), IsInjective(blockingQueue'),
         NEW v \in Units, NEW j \in Places, NEW w \in Holders, In(j, w, v), NEW l, NEW y,
         UNCHANGED status,
         \A u \in Units, k \in Places, x \in Holders :
           In(k, x, u)' => \/ In(k, x, u) /\ ~(k = j /\ x = w)
                           \/ u = v /\ k = l /\ x = y
  PROVE  QueuedInv' /\ OnePlace'
<1>1. QueuedInv'
  BY DEF QueuedInv
<1>2. ASSUME NEW u \in Units, NEW k \in Places, NEW m \in Places, NEW x \in Holders, NEW z \in Holders,
             In(k, x, u)', In(m, z, u)'
      PROVE  k = m /\ x = z
  <2>1. CASE u = v
    <3>1. ASSUME NEW a \in Places, NEW b \in Holders, In(a, b, v), ~(a = j /\ b = w) PROVE FALSE
      BY <3>1 DEF OnePlace
    <3>. QED
      BY <1>2, <2>1, <3>1
  <2>2. CASE u # v
    BY <1>2, <2>2 DEF OnePlace
  <2>. QED
    BY <2>1, <2>2
<1>. QED
  BY <1>1, <1>2 DEF OnePlace

\* A unit comes to a place and sends the one it finds there to another.
LEMMA PlacesDisplace ==
  ASSUME QueuedInv, OnePlace, IsInjective(injector'), IsInjective(blockingQueue'),
         NEW v \in Units, NEW l \in Places, NEW y \in Holders, status[v] # "queued", status'[v] = "queued",
         NEW o \in Units, In(l, y, o), status'[o] = status[o], NEW m, NEW z,
         \A u \in Units, k \in Places, x \in Holders :
           In(k, x, u)' => \/ In(k, x, u) /\ status'[u] = status[u] /\ ~(k = l /\ x = y)
                           \/ u = v /\ k = l /\ x = y
                           \/ u = o /\ k = m /\ x = z
  PROVE  QueuedInv' /\ OnePlace'
<1>1. QueuedInv'
  BY DEF QueuedInv
<1>2. ASSUME NEW u \in Units, NEW k \in Places, NEW n \in Places, NEW x \in Holders, NEW q \in Holders,
             In(k, x, u)', In(n, q, u)'
      PROVE  k = n /\ x = q
  <2>1. ~In(k, x, v) /\ ~In(n, q, v) /\ v # o
    BY DEF QueuedInv
  <2>2. CASE u = v
    BY <1>2, <2>1, <2>2
  <2>3. CASE u = o
    <3>1. ASSUME NEW a \in Places, NEW b \in Holders, In(a, b, o), ~(a = l /\ b = y) PROVE FALSE
      BY <3>1 DEF OnePlace
    <3>. QED
      BY <1>2, <2>1, <2>3, <3>1
  <2>4. CASE u # v /\ u # o
    BY <1>2, <2>4 DEF OnePlace
  <2>. QED
    BY <2>2, <2>3, <2>4
<1>. QED
  BY <1>1, <1>2 DEF OnePlace

-----------------------------------------------------------------------------
(* Which units run, by the way the stack changes.                          *)

Runner(f) == f.kind \in {"task", "job"}

\* A frame of the next state that was already there, with its kind and its unit.
Stays(x, i) ==
  /\ i \in 1..Len(stack[x])
  /\ stack'[x][i].kind = stack[x][i].kind /\ stack'[x][i].u = stack[x][i].u

LEMMA StaysBelow ==
  ASSUME Stacks, NEW t \in Threads, Below(t), NEW x \in Threads, NEW i \in 1..Len(stack'[x]),
         x # t \/ i < Len(stack[t])
  PROVE  Stays(x, i)
<1>1. CASE x # t
  BY <1>1 DEF Below, Same, Stays
<1>2. CASE x = t
  <2>1. Len(stack[t]) \in Nat
    BY LenProperties DEF Stacks, StackOK
  <2>2. i \in 1..Len(stack[t])-1
    BY <1>2, <2>1
  <2>3. stack'[t][i] = stack[t][i]
    BY <2>2 DEF Below
  <2>. QED
    BY <1>2, <2>1, <2>2, <2>3 DEF Stays
<1>. QED
  BY <1>1, <1>2

LEMMA RunnerUnit ==
  ASSUME Stacks, NEW x \in Threads, NEW i \in 1..Len(stack[x]), Runner(stack[x][i])
  PROVE  /\ stack[x][i].u \in Units
         /\ stack[x][i].kind = "task" => stack[x][i].u \in Tasks
         /\ stack[x][i].kind = "job" => stack[x][i].u \in Jobs
  BY DEF Stacks, StackOK, FrameOK, Runner, Units

LEMMA OneRunner ==
  ASSUME OneRunning, NEW x \in Threads, NEW y \in Threads,
         NEW i \in 1..Len(stack[x]), NEW j \in 1..Len(stack[y]),
         Runner(stack[x][i]), Runner(stack[y][j]), stack[x][i].u = stack[y][j].u
  PROVE  x = y /\ i = j
  BY DEF OneRunning, Runner

LEMMA RunningKept ==
  ASSUME Stacks, RunningInv, OneRunning, NEW t \in Threads, Below(t),
         \A i \in 1..Len(stack'[t]) :
           i >= Len(stack[t]) /\ Runner(stack'[t][i]) => Stays(t, i),
         \A u \in Units : status[u] \in {"running", "again"} =>
           \/ status'[u] = status[u]
           \/ u \in Tasks /\ status'[u] \in {"running", "again"}
  PROVE  RunningInv' /\ OneRunning'
<1>1. ASSUME NEW x \in Threads, NEW i \in 1..Len(stack'[x]), Runner(stack'[x][i])
      PROVE  Stays(x, i)
  <2>1. CASE x # t \/ i < Len(stack[t])
    BY <2>1, StaysBelow
  <2>2. CASE x = t /\ i >= Len(stack[t])
    BY <1>1, <2>2
  <2>3. Len(stack[t]) \in Nat
    BY LenProperties DEF Stacks, StackOK
  <2>. QED
    BY <2>1, <2>2, <2>3
<1>2. RunningInv'
  <2>. SUFFICES ASSUME NEW x \in Threads, NEW i \in 1..Len(stack'[x])
                PROVE  /\ stack'[x][i].kind = "task" => status'[stack'[x][i].u] \in {"running", "again"}
                       /\ stack'[x][i].kind = "job"  => status'[stack'[x][i].u] = "running"
    BY DEF RunningInv
  <2>1. CASE Runner(stack'[x][i])
    <3>1. Stays(x, i)
      BY <1>1, <2>1
    <3>2. /\ i \in 1..Len(stack[x]) /\ stack[x][i].u \in Units
          /\ stack[x][i].kind = "task" => stack[x][i].u \in Tasks
          /\ stack[x][i].kind = "job" => stack[x][i].u \in Jobs
      BY <2>1, <3>1, RunnerUnit DEF Stays, Runner
    <3>3. /\ stack[x][i].kind = "task" => status[stack[x][i].u] \in {"running", "again"}
          /\ stack[x][i].kind = "job" => status[stack[x][i].u] = "running"
      BY <3>2 DEF RunningInv
    <3>. QED
      BY <3>1, <3>2, <3>3, SchedulerAssumption DEF Stays
  <2>2. CASE ~Runner(stack'[x][i])
    BY <2>2 DEF Runner
  <2>. QED
    BY <2>1, <2>2
<1>3. OneRunning'
  <2>. SUFFICES ASSUME NEW x \in Threads, NEW y \in Threads,
                       NEW i \in 1..Len(stack'[x]), NEW j \in 1..Len(stack'[y]),
                       Runner(stack'[x][i]), Runner(stack'[y][j]), stack'[x][i].u = stack'[y][j].u
                PROVE  x = y /\ i = j
    BY DEF OneRunning, Runner
  <2>1. Stays(x, i) /\ Stays(y, j)
    BY <1>1
  <2>2. /\ i \in 1..Len(stack[x]) /\ j \in 1..Len(stack[y])
        /\ Runner(stack[x][i]) /\ Runner(stack[y][j]) /\ stack[x][i].u = stack[y][j].u
    BY <2>1 DEF Stays, Runner
  <2>. QED
    BY <2>2 DEF OneRunning, Runner
<1>. QED
  BY <1>2, <1>3

\* The innermost unit of t returns.
LEMMA RunningReturn ==
  ASSUME Stacks, RunningInv, OneRunning, NEW t \in Threads, Drops(t), Runner(Top(t)),
         \A u \in Units : u # Top(t).u => status'[u] = status[u]
  PROVE  RunningInv' /\ OneRunning'
<1>. DEFINE n == Len(stack[t])
<1>1. n \in Nat \ {0} /\ Len(stack'[t]) = n-1 /\ Top(t) = stack[t][n] /\ Below(t)
  BY TopFacts DEF Drops
<1>2. ASSUME NEW x \in Threads, NEW i \in 1..Len(stack'[x])
      PROVE  Stays(x, i) /\ (x # t \/ i # n)
  <2>1. x # t \/ i < n
    BY <1>1
  <2>. QED
    BY <1>1, <2>1, StaysBelow
<1>3. RunningInv'
  <2>. SUFFICES ASSUME NEW x \in Threads, NEW i \in 1..Len(stack'[x])
                PROVE  /\ stack'[x][i].kind = "task" => status'[stack'[x][i].u] \in {"running", "again"}
                       /\ stack'[x][i].kind = "job"  => status'[stack'[x][i].u] = "running"
    BY DEF RunningInv
  <2>1. CASE Runner(stack'[x][i])
    <3>1. Stays(x, i) /\ (x # t \/ i # n)
      BY <1>2
    <3>2. i \in 1..Len(stack[x]) /\ stack[x][i].u \in Units
      BY <2>1, <3>1, RunnerUnit DEF Stays, Runner
    <3>3. stack[x][i].u # Top(t).u
      <4>1. n \in 1..Len(stack[t])
        BY <1>1
      <4>. QED
        BY <1>1, <2>1, <3>1, <3>2, <4>1 DEF OneRunning, Stays, Runner
    <3>4. /\ stack[x][i].kind = "task" => status[stack[x][i].u] \in {"running", "again"}
          /\ stack[x][i].kind = "job" => status[stack[x][i].u] = "running"
      BY <3>2 DEF RunningInv
    <3>. QED
      BY <3>1, <3>2, <3>3, <3>4 DEF Stays
  <2>2. CASE ~Runner(stack'[x][i])
    BY <2>2 DEF Runner
  <2>. QED
    BY <2>1, <2>2
<1>4. OneRunning'
  <2>. SUFFICES ASSUME NEW x \in Threads, NEW y \in Threads,
                       NEW i \in 1..Len(stack'[x]), NEW j \in 1..Len(stack'[y]),
                       Runner(stack'[x][i]), Runner(stack'[y][j]), stack'[x][i].u = stack'[y][j].u
                PROVE  x = y /\ i = j
    BY DEF OneRunning, Runner
  <2>1. Stays(x, i) /\ Stays(y, j)
    BY <1>2
  <2>2. /\ i \in 1..Len(stack[x]) /\ j \in 1..Len(stack[y])
        /\ Runner(stack[x][i]) /\ Runner(stack[y][j]) /\ stack[x][i].u = stack[y][j].u
    BY <2>1 DEF Stays, Runner
  <2>. QED
    BY <2>2 DEF OneRunning, Runner
<1>. QED
  BY <1>3, <1>4

\* A queued unit starts on t.
LEMMA RunningCall ==
  ASSUME Stacks, RunningInv, OneRunning, NEW t \in Threads, NEW f, NEW g, Adds(t, f, g),
         ~Runner(f), Runner(g), g.u \in Units, DOMAIN status = Units,
         status[g.u] = "queued", status' = [status EXCEPT ![g.u] = "running"]
  PROVE  RunningInv' /\ OneRunning'
<1>. DEFINE n == Len(stack[t])
<1>1. /\ n \in Nat \ {0} /\ Len(stack'[t]) = n+1 /\ Below(t)
      /\ stack'[t][n] = f /\ stack'[t][n+1] = g
  BY DEF Adds
<1>2. ASSUME NEW x \in Threads, NEW i \in 1..Len(stack'[x]), Runner(stack'[x][i])
      PROVE  \/ Stays(x, i) /\ status[stack[x][i].u] # "queued" /\ stack[x][i].u \in Units
                /\ Runner(stack[x][i])
             \/ x = t /\ i = n+1
  <2>1. CASE x # t \/ i < n
    <3>1. Stays(x, i)
      BY <2>1, <1>1, StaysBelow
    <3>2. Runner(stack[x][i]) /\ i \in 1..Len(stack[x])
      BY <1>2, <3>1 DEF Stays, Runner
    <3>. QED
      BY <3>1, <3>2, RunnerUnit DEF RunningInv, Runner
  <2>2. CASE x = t /\ i = n
    BY <1>1, <1>2, <2>2
  <2>3. x = t => i \in 1..n+1
    BY <1>1
  <2>. QED
    BY <1>1, <2>1, <2>2, <2>3
<1>3. RunningInv'
  <2>. SUFFICES ASSUME NEW x \in Threads, NEW i \in 1..Len(stack'[x])
                PROVE  /\ stack'[x][i].kind = "task" => status'[stack'[x][i].u] \in {"running", "again"}
                       /\ stack'[x][i].kind = "job"  => status'[stack'[x][i].u] = "running"
    BY DEF RunningInv
  <2>1. CASE Runner(stack'[x][i])
    <3>1. CASE Stays(x, i) /\ status[stack[x][i].u] # "queued" /\ stack[x][i].u \in Units
                /\ Runner(stack[x][i])
      <4>1. i \in 1..Len(stack[x]) /\ status'[stack[x][i].u] = status[stack[x][i].u]
        BY <3>1 DEF Stays
      <4>. QED
        BY <3>1, <4>1 DEF Stays, RunningInv
    <3>2. CASE x = t /\ i = n+1
      <4>1. status'[g.u] = "running"
        OBVIOUS
      <4>. QED
        BY <1>1, <3>2, <4>1
    <3>. QED
      BY <1>2, <2>1, <3>1, <3>2
  <2>2. CASE ~Runner(stack'[x][i])
    BY <2>2 DEF Runner
  <2>. QED
    BY <2>1, <2>2
<1>4. OneRunning'
  <2>. SUFFICES ASSUME NEW x \in Threads, NEW y \in Threads,
                       NEW i \in 1..Len(stack'[x]), NEW j \in 1..Len(stack'[y]),
                       Runner(stack'[x][i]), Runner(stack'[y][j]), stack'[x][i].u = stack'[y][j].u
                PROVE  x = y /\ i = j
    BY DEF OneRunning, Runner
  <2>. DEFINE Old(a, k) == Stays(a, k) /\ status[stack[a][k].u] # "queued" /\ Runner(stack[a][k])
  <2>1. (Old(x, i) \/ (x = t /\ i = n+1)) /\ (Old(y, j) \/ (y = t /\ j = n+1))
    BY <1>2
  <2>2. CASE Old(x, i) /\ Old(y, j)
    <3>1. /\ i \in 1..Len(stack[x]) /\ j \in 1..Len(stack[y])
          /\ Runner(stack[x][i]) /\ Runner(stack[y][j]) /\ stack[x][i].u = stack[y][j].u
      BY <2>2 DEF Stays, Runner
    <3>. QED
      BY <3>1 DEF OneRunning, Runner
  <2>3. CASE Old(x, i) /\ y = t /\ j = n+1
    BY <1>1, <2>3 DEF Stays
  <2>4. CASE Old(y, j) /\ x = t /\ i = n+1
    BY <1>1, <2>4 DEF Stays
  <2>. QED
    BY <2>1, <2>2, <2>3, <2>4
<1>. QED
  BY <1>3, <1>4

-----------------------------------------------------------------------------
(* Closures that wait, by the way the stack changes.                       *)

\* A unit that was submitted stays submitted, by the same parent.
Settled ==
  \A u \in Units : status[u] # "new" => status'[u] # "new" /\ parent'[u] = parent[u]

LEMMA InnermostTop ==
  ASSUME NEW s, NEW u, NEW m \in Nat
  PROVE  Innermost(s, m+1, u) <=> \/ s[m+1].kind = "job" /\ s[m+1].u = u
                                  \/ Innermost(s, m, u) /\ Waits(s[m+1])
<1>1. ASSUME Innermost(s, m+1, u), ~(s[m+1].kind = "job" /\ s[m+1].u = u)
      PROVE  Innermost(s, m, u) /\ Waits(s[m+1])
  <2>1. PICK i \in 1..m+1 : s[i].kind = "job" /\ s[i].u = u /\ \A j \in i+1..m+1 : Waits(s[j])
    BY <1>1 DEF Innermost
  <2>2. i \in 1..m /\ m+1 \in i+1..m+1 /\ \A j \in i+1..m : j \in i+1..m+1
    BY <1>1, <2>1
  <2>. QED
    BY <2>1, <2>2 DEF Innermost
<1>2. ASSUME s[m+1].kind = "job" /\ s[m+1].u = u PROVE Innermost(s, m+1, u)
  <2>1. m+1 \in 1..m+1 /\ \A j \in (m+1)+1..m+1 : FALSE
    OBVIOUS
  <2>. QED
    BY <1>2, <2>1 DEF Innermost
<1>3. ASSUME Innermost(s, m, u), Waits(s[m+1]) PROVE Innermost(s, m+1, u)
  <2>1. PICK i \in 1..m : s[i].kind = "job" /\ s[i].u = u /\ \A j \in i+1..m : Waits(s[j])
    BY <1>3 DEF Innermost
  <2>2. i \in 1..m+1 /\ \A j \in i+1..m+1 : j \in i+1..m \/ j = m+1
    OBVIOUS
  <2>3. \A j \in i+1..m+1 : Waits(s[j])
    BY <1>3, <2>1, <2>2
  <2>. QED
    BY <2>1, <2>2, <2>3 DEF Innermost
<1>. QED
  BY <1>1, <1>2, <1>3

LEMMA InnermostSame ==
  ASSUME NEW s, NEW r, NEW u, NEW m \in Nat, \A i \in 1..m : Same(s[i], r[i])
  PROVE  Innermost(s, m, u) <=> Innermost(r, m, u)
<1>1. \A i \in 1..m : /\ s[i].kind = "job" /\ s[i].u = u <=> r[i].kind = "job" /\ r[i].u = u
                      /\ Waits(s[i]) <=> Waits(r[i])
  BY DEF Same, Waits
<1>2. \A i \in 1..m : \A j \in i+1..m : j \in 1..m
  OBVIOUS
<1>. QED
  BY <1>1, <1>2 DEF Innermost

LEMMA InnermostBelow ==
  ASSUME Stacks, NEW t \in Threads, Below(t), Busy(t), NEW u
  PROVE  LET n == Len(stack[t]) IN
         /\ n - 1 \in Nat /\ n = (n - 1) + 1
         /\ Innermost(stack'[t], n - 1, u) <=> Innermost(stack[t], n - 1, u)
         /\ Innermost(stack[t], n, u) <=>
              \/ Top(t).kind = "job" /\ Top(t).u = u
              \/ Innermost(stack[t], n - 1, u) /\ Waits(Top(t))
<1>. DEFINE n == Len(stack[t])
<1>1. n \in Nat \ {0} /\ Top(t) = stack[t][n]
  BY TopFacts
<1>2. \A i \in 1..n-1 : Same(stack'[t][i], stack[t][i])
  BY DEF Below, Same
<1>. HIDE DEF n
<1>3. n-1 \in Nat /\ n = (n-1) + 1
  BY <1>1
<1>4. Innermost(stack'[t], n-1, u) <=> Innermost(stack[t], n-1, u)
  BY <1>2, <1>3, InnermostSame
<1>5. Innermost(stack[t], n, u) <=> \/ stack[t][n].kind = "job" /\ stack[t][n].u = u
                                    \/ Innermost(stack[t], n-1, u) /\ Waits(stack[t][n])
  BY <1>3, InnermostTop
<1>. QED
  BY <1>1, <1>3, <1>4, <1>5 DEF n

\* What ChildInv needs of the data.
SlotsSettled == Settled /\ \A w \in Workers : slot[w] # NoUnit =>
                  slot[w] \in Units /\ status[slot[w]] # "new"

LEMMA ChildAll ==
  ASSUME Stacks, ChildInv, SlotsSettled, NEW t \in Threads, Below(t),
         \A x \in Workers \ {t} : slot'[x] = slot[x],
         t \in Workers /\ slot'[t] # NoUnit
         => ~Innermost(stack'[t], Len(stack'[t]), parent'[slot'[t]])
  PROVE  ChildInv'
<1>. SUFFICES ASSUME NEW x \in Workers, slot'[x] # NoUnit,
                     Innermost(stack'[x], Len(stack'[x]), parent'[slot'[x]])
              PROVE  FALSE
  BY DEF ChildInv, Innermost, Waits
<1>1. CASE x = t
  BY <1>1
<1>2. CASE x # t
  <2>1. slot[x] # NoUnit /\ slot'[x] = slot[x] /\ parent'[slot[x]] = parent[slot[x]]
    BY <1>2 DEF SlotsSettled, Settled
  <2>2. /\ x \in Threads \ {t} /\ Len(stack'[x]) = Len(stack[x]) /\ Len(stack[x]) \in Nat
        /\ \A i \in 1..Len(stack[x]) : Same(stack'[x][i], stack[x][i])
    BY <1>2, LenProperties DEF Threads, Below, Stacks, StackOK
  <2>3. Innermost(stack[x], Len(stack[x]), parent[slot[x]])
    BY <2>1, <2>2, InnermostSame
  <2>. QED
    BY <2>1, <2>3 DEF ChildInv
<1>. QED
  BY <1>1, <1>2

LEMMA TurnChild ==
  ASSUME Stacks, ChildInv, SlotsSettled, NEW t \in Threads, NEW f, Turns(t, f), UNCHANGED slot,
         f.kind = Top(t).kind, f.u = Top(t).u
  PROVE  ChildInv'
<1>. DEFINE n == Len(stack[t])
<1>1. /\ Below(t) /\ Busy(t) /\ n \in Nat \ {0} /\ Len(stack'[t]) = n /\ stack'[t][n] = f
  BY DEF Turns
<1>2. ASSUME t \in Workers, slot[t] # NoUnit, Innermost(stack'[t], n, parent'[slot[t]]) PROVE FALSE
  <2>. DEFINE u == parent[slot[t]]
  <2>1. ~Innermost(stack[t], n, u) /\ parent'[slot[t]] = u
    BY <1>2 DEF ChildInv, SlotsSettled, Settled
  <2>. HIDE DEF u
  <2>2. /\ n - 1 \in Nat /\ n = (n - 1) + 1
        /\ Innermost(stack'[t], n - 1, u) <=> Innermost(stack[t], n - 1, u)
        /\ Innermost(stack[t], n, u) <=>
              \/ Top(t).kind = "job" /\ Top(t).u = u
              \/ Innermost(stack[t], n - 1, u) /\ Waits(Top(t))
    BY <1>1, InnermostBelow
  <2>. HIDE DEF n
  <2>3. Innermost(stack'[t], n, u) <=> \/ f.kind = "job" /\ f.u = u
                                       \/ Innermost(stack'[t], n-1, u) /\ Waits(f)
    <3>1. \A m \in Nat : m + 1 = n =>
            (Innermost(stack'[t], m+1, u) <=> \/ stack'[t][m+1].kind = "job" /\ stack'[t][m+1].u = u
                                              \/ Innermost(stack'[t], m, u) /\ Waits(stack'[t][m+1]))
      BY InnermostTop
    <3>. QED
      BY <1>1, <2>2, <3>1
  <2>. QED
    BY <1>2, <2>1, <2>2, <2>3 DEF Waits
<1>. QED
  BY <1>1, <1>2, ChildAll

LEMMA AddChild ==
  ASSUME Stacks, ChildInv, SlotsSettled, NEW t \in Threads, NEW f, NEW g, Adds(t, f, g),
         UNCHANGED slot, f.kind = Top(t).kind, f.u = Top(t).u,
         t \in Workers /\ g.kind = "job" /\ slot[t] # NoUnit => g.u # parent'[slot[t]]
  PROVE  ChildInv'
<1>. DEFINE n == Len(stack[t])
<1>1. /\ Below(t) /\ Busy(t) /\ n \in Nat \ {0} /\ Len(stack'[t]) = n+1
      /\ stack'[t][n] = f /\ stack'[t][n+1] = g
  BY DEF Adds
<1>2. ASSUME t \in Workers, slot[t] # NoUnit, Innermost(stack'[t], n+1, parent'[slot[t]]) PROVE FALSE
  <2>. DEFINE u == parent[slot[t]]
  <2>1. ~Innermost(stack[t], n, u) /\ parent'[slot[t]] = u
    BY <1>2 DEF ChildInv, SlotsSettled, Settled
  <2>. HIDE DEF u
  <2>2. /\ n - 1 \in Nat /\ n = (n - 1) + 1
        /\ Innermost(stack'[t], n - 1, u) <=> Innermost(stack[t], n - 1, u)
        /\ Innermost(stack[t], n, u) <=>
              \/ Top(t).kind = "job" /\ Top(t).u = u
              \/ Innermost(stack[t], n - 1, u) /\ Waits(Top(t))
    BY <1>1, InnermostBelow
  <2>. HIDE DEF n
  <2>3. Innermost(stack'[t], n, u) <=> \/ f.kind = "job" /\ f.u = u
                                       \/ Innermost(stack'[t], n-1, u) /\ Waits(f)
    <3>1. \A m \in Nat : m + 1 = n =>
            (Innermost(stack'[t], m+1, u) <=> \/ stack'[t][m+1].kind = "job" /\ stack'[t][m+1].u = u
                                              \/ Innermost(stack'[t], m, u) /\ Waits(stack'[t][m+1]))
      BY InnermostTop
    <3>. QED
      BY <1>1, <2>2, <3>1
  <2>4. Innermost(stack'[t], n+1, u) <=> \/ g.kind = "job" /\ g.u = u
                                         \/ Innermost(stack'[t], n, u) /\ Waits(g)
    BY <1>1, InnermostTop
  <2>. QED
    BY <1>2, <2>1, <2>2, <2>3, <2>4 DEF Waits
<1>. QED
  BY <1>1, <1>2, ChildAll

LEMMA DropChild ==
  ASSUME Stacks, ChildInv, SlotsSettled, NEW t \in Threads, Drops(t), UNCHANGED slot,
         Len(stack[t]) > 1, Nests(stack[t][Len(stack[t]) - 1], Top(t)),
         Top(t).kind \in {"task", "job", "wake", "wait"}
  PROVE  ChildInv'
<1>. DEFINE n == Len(stack[t])
            e == stack[t][n-1]
<1>1. /\ Below(t) /\ Busy(t) /\ n \in Nat \ {0} /\ n > 1 /\ Len(stack'[t]) = n-1
  BY DEF Drops
<1>2. ASSUME t \in Workers, slot[t] # NoUnit, Innermost(stack'[t], n-1, parent'[slot[t]]) PROVE FALSE
  <2>. DEFINE u == parent[slot[t]]
  <2>1. ~Innermost(stack[t], n, u) /\ parent'[slot[t]] = u
    BY <1>2 DEF ChildInv, SlotsSettled, Settled
  <2>. HIDE DEF u
  <2>2. /\ n - 1 \in Nat /\ n = (n - 1) + 1
        /\ Innermost(stack'[t], n - 1, u) <=> Innermost(stack[t], n - 1, u)
        /\ Innermost(stack[t], n, u) <=>
              \/ Top(t).kind = "job" /\ Top(t).u = u
              \/ Innermost(stack[t], n - 1, u) /\ Waits(Top(t))
    BY <1>1, InnermostBelow
  <2>3. Top(t).kind \in {"task", "job"}
    BY <1>2, <2>1, <2>2 DEF Waits
  <2>4. e.kind \in DriverKinds
    BY <2>3 DEF Nests
  <2>5. e.kind # "job" /\ ~Waits(e)
    BY <2>4 DEF DriverKinds, Waits
  <2>6. Innermost(stack[t], n-1, u) <=> \/ e.kind = "job" /\ e.u = u
                                        \/ Innermost(stack[t], n-2, u) /\ Waits(e)
    <3>1. n-2 \in Nat /\ n-1 = (n-2)+1
      BY <1>1
    <3>. HIDE DEF n
    <3>2. \A m \in Nat : m + 1 = n-1 =>
            (Innermost(stack[t], m+1, u) <=> \/ stack[t][m+1].kind = "job" /\ stack[t][m+1].u = u
                                             \/ Innermost(stack[t], m, u) /\ Waits(stack[t][m+1]))
      BY InnermostTop
    <3>. QED
      BY <3>1, <3>2
  <2>. QED
    BY <1>2, <2>1, <2>2, <2>5, <2>6
<1>. QED
  BY <1>1, <1>2, ChildAll

LEMMA EmptyChild ==
  ASSUME Stacks, ChildInv, SlotsSettled, NEW t \in Threads, Below(t),
         \A x \in Workers \ {t} : slot'[x] = slot[x],
         t \in Workers => slot'[t] = NoUnit
  PROVE  ChildInv'
  BY ChildAll

LEMMA FilledChild ==
  ASSUME Stacks, ChildInv, SlotsSettled, NEW t \in Threads, Below(t),
         \A x \in Workers \ {t} : slot'[x] = slot[x],
         NEW m \in Nat, stack'[t][m+1].kind \notin {"job", "wake", "wait"},
         \/ Len(stack'[t]) = m + 1
         \/ Len(stack'[t]) = m + 2 /\ stack'[t][m+2].kind # "job"
  PROVE  ChildInv'
<1>. DEFINE s == stack'[t]
            u == parent'[slot'[t]]
<1>1. ~Innermost(s, m+1, u)
  BY InnermostTop DEF Waits
<1>2. ~Innermost(s, Len(s), u)
  <2>1. CASE Len(s) = m+1
    BY <1>1, <2>1
  <2>2. CASE Len(s) = m+2 /\ s[m+2].kind # "job"
    <3>. HIDE DEF s, u
    <3>1. m+1 \in Nat /\ m+2 = (m+1)+1
      OBVIOUS
    <3>2. \A k \in Nat : Innermost(s, k+1, u) <=> \/ s[k+1].kind = "job" /\ s[k+1].u = u
                                                  \/ Innermost(s, k, u) /\ Waits(s[k+1])
      BY InnermostTop
    <3>. QED
      BY <1>1, <2>2, <3>1, <3>2
  <2>. QED
    BY <2>1, <2>2
<1>. QED
  BY <1>2, ChildAll

-----------------------------------------------------------------------------
(* The inductive invariant, and what each kind of step leaves of it.       *)

Inv ==
  /\ Stacks /\ DataTypes /\ LaneInv /\ DrainInv /\ ParkerInv
  /\ SlotInv /\ PlaceInv /\ WaitInv /\ StopInv

LEMMA Before ==
  ASSUME NEW n \in Nat \ {0}, n # 1
  PROVE  n > 1 /\ n-1 # 0 /\ n-1 \in Nat \ {0} /\ 1 \in 1..n-1 /\ n-1 \in 1..n-1 /\ n-1 \in 1..n
  OBVIOUS

LEMMA StopPcKept ==
  ASSUME Stacks, NEW t \in Threads, Below(t), (Busy(t) /\ Top(t).kind # "stop") \/ t # Stopper
  PROVE  StopPc' = StopPc /\ FrameOK(Stopper, stack[Stopper][1]) /\ stack[Stopper][1].kind = "stop"
<1>. DEFINE s == stack[Stopper]
<1>1. Stopper \in Threads
  BY DEF Threads
<1>2. StackOK(Stopper, s) /\ s # <<>>
  BY <1>1 DEF Stacks, StackOK
<1>3. Len(s) \in Nat \ {0}
  BY <1>2, EmptySeq DEF StackOK
<1>4. FrameOK(Stopper, s[1]) /\ s[1].kind \in Bases
  BY <1>2, <1>3 DEF StackOK
<1>5. s[1].kind = "stop"
  BY <1>4, SchedulerAssumption DEF FrameOK, Bases
<1>6. CASE t # Stopper
  <2>1. Same(stack'[Stopper][1], s[1])
    BY <1>1, <1>3, <1>6 DEF Below
  <2>. QED
    BY <1>4, <1>5, <2>1 DEF Same, StopPc
<1>7. CASE t = Stopper /\ Busy(t) /\ Top(t).kind # "stop"
  <2>1. Top(t) = s[Len(s)]
    BY <1>7, TopFacts
  <2>2. Len(s) # 1
    BY <1>5, <1>7, <2>1
  <2>3. 1 \in 1..Len(s)-1
    BY <1>3, <2>2, Before
  <2>4. stack'[Stopper][1] = s[1]
    BY <1>7, <2>3 DEF Below
  <2>. QED
    BY <1>4, <1>5, <2>4 DEF StopPc
<1>. QED
  BY <1>6, <1>7

LEMMA StopKept ==
  ASSUME StopInv, StopPc' = StopPc, UNCHANGED <<closed, queueClosed>>,
         queueClosed /\ blockingQueue = <<>> => blockingQueue' = <<>>,
         closed /\ AllOver => AllOver',
         AllOver /\ queueClosed /\ blockingQueue = <<>> => Lanes' \subseteq Lanes
  PROVE  StopInv'
  BY DEF StopInv

LEMMA DataSettled ==
  ASSUME DataTypes, QueuedInv, Settled
  PROVE  SlotsSettled
<1>. SUFFICES ASSUME NEW w \in Workers, slot[w] # NoUnit
              PROVE  slot[w] \in Units /\ status[slot[w]] # "new"
  BY DEF SlotsSettled
<1>1. slot[w] \in Units
  BY DEF DataTypes, Units
<1>2. In("slot", w, slot[w]) /\ w \in Holders /\ "slot" \in Places
  BY DEF In, Holders, Threads, Places
<1>3. status[slot[w]] = "queued"
  BY <1>1, <1>2 DEF QueuedInv
<1>. QED
  BY <1>1, <1>3

Still == UNCHANGED <<units, queues, closed, queueClosed, stopping, aborting, idleAsleep>>

\* A frame of t moves on, and nothing else changes but parkers.
LEMMA MoveKept ==
  ASSUME Inv, NEW t \in Threads, Busy(t), NEW f, FrameOK(t, f), Rewrites(t, f),
         f.kind = Top(t).kind, f.u = Top(t).u, f.kind \notin {"wake", "stop"}, SameMarks(f, Top(t)),
         t \in Workers => (Quiet(f) => Quiet(Top(t)) \/ slot[t] = NoUnit),
         Still, UNCHANGED counts,
         parked' \subseteq parked \cup {Me(t)}, Me(t) \in parked' => Mark(f) \in IdleMarks,
         permit' \subseteq Spots(ParkMarks), stopParkers' \subseteq Spots(ParkMarks)
  PROVE  Inv'
<1>1. Turns(t, f) /\ Below(t)
  BY RewriteForm DEF Inv, Turns
<1>2. FrameOK(t, Top(t))
  BY TopFacts DEF Inv
<1>3. Stacks'
  BY <1>1 DEF Below
<1>4. DataTypes'
  BY DEF Inv, DataTypes, Still, units, queues, counts
<1>5. Lanes' = Lanes /\ Draining' = Draining
  BY <1>1, TurnCounts DEF Inv
<1>6. LaneInv' /\ DrainInv'
  BY <1>5, CountsKept DEF Inv
<1>7. ParkerInv'
  BY <1>1, TurnParkers DEF Inv, Parks, FrameOK
<1>8. SlotInv'
  BY <1>1, TurnSlot DEF Inv, Still, queues, Shade
<1>9. QueuedInv' /\ OnePlace'
  <2>1. ~Holding(f)
    BY OnlyWakesHold
  <2>2. \A u \in Units, k \in Places, x \in Holders :
           In(k, x, u)' => In(k, x, u) /\ status'[u] = status[u]
    <3>. SUFFICES ASSUME NEW u \in Units, NEW k \in Places, NEW x \in Holders, In(k, x, u)'
                  PROVE  In(k, x, u)
      BY DEF Still, units
    <3>1. CASE k # "hand"
      BY <3>1 DEF In, Still, queues
    <3>2. CASE k = "hand"
      <4>1. x \in Threads /\ x # t
        BY <1>1, <2>1, <3>2, TurnHand DEF In
      <4>. QED
        BY <1>1, <3>2, <4>1, HandOther DEF Inv
    <3>. QED
      BY <3>1, <3>2
  <2>. QED
    BY <2>2, PlacesShrink DEF Inv, PlaceInv, OnePlace, Still, queues
<1>10. RunningInv' /\ OneRunning'
  <2>1. \A i \in 1..Len(stack'[t]) :
           i >= Len(stack[t]) /\ Runner(stack'[t][i]) => Stays(t, i)
    BY <1>1, TopFacts DEF Inv, Turns, Stays
  <2>. QED
    BY <1>1, <2>1, RunningKept DEF Inv, PlaceInv, Still, units
<1>11. Settled /\ SlotsSettled
  <2>1. Settled
    BY DEF Settled, Still, units
  <2>. QED
    BY <2>1, DataSettled DEF Inv, PlaceInv
<1>12. WaitInv'
  <2>1. ParentInv'
    BY DEF Inv, WaitInv, ParentInv, Still, units
  <2>2. ChildInv'
    BY <1>1, <1>11, TurnChild DEF Inv, WaitInv, Still, queues
  <2>. QED
    BY <2>1, <2>2 DEF WaitInv
<1>13. StopInv'
  <2>1. StopPc' = StopPc
    BY <1>1, StopPcKept DEF Inv
  <2>2. AllOver => AllOver'
    BY DEF AllOver, Still, units
  <2>. QED
    BY <1>5, <2>1, <2>2, StopKept DEF Inv, Still, queues
<1>14. PlaceInv'
  BY <1>9, <1>10 DEF PlaceInv
<1>. QED
  BY <1>3, <1>4, <1>6, <1>7, <1>8, <1>12, <1>13, <1>14 DEF Inv

\* The same for a driver, in terms of its program counter.
Remade(g, f) ==
  f \in FrameTypes /\ f.kind = g.kind /\ f.u = g.u /\ f.p = g.p
FreshMarks(f, g) ==
  /\ f.kind = "drain" => f.pc \in DrainPcs
  /\ f.kind = "coop" => f.pc \in CoopPcs
  /\ f.pc \notin LanePcs /\ g.pc \notin LanePcs
  /\ f.pc \in Retired <=> g.pc \in Retired

LEMMA DriverFrame ==
  ASSUME NEW t, NEW g, FrameOK(t, g), g.kind \in DriverKinds, NEW f, Remade(g, f),
         f.kind = "drain" => f.pc \in DrainPcs, f.kind = "coop" => f.pc \in CoopPcs
  PROVE  FrameOK(t, f) /\ f.p = NoParker /\ t \in Workers
  BY DEF Remade, FrameOK, DriverKinds

LEMMA DriverMarks ==
  ASSUME NEW f, f.kind \in DriverKinds, f.kind = "drain" => f.pc \in DrainPcs
  PROVE  /\ Mark(f) \in LaneMarks <=> f.pc \in LanePcs
         /\ Mark(f) \in DrainMarks <=> f.kind = "drain" /\ f.pc \notin Retired
         /\ Mark(f) \in IdleMarks <=> f.pc \in Idling
         /\ Quiet(f) <=> f.pc \in QuietPcs
  BY DEF Mark, LaneMarks, DrainMarks, IdleMarks, Quiet

LEMMA DriverMove ==
  ASSUME Inv, NEW t \in Threads, Busy(t), Top(t).kind \in DriverKinds,
         NEW f, Remade(Top(t), f), FreshMarks(f, Top(t)), Rewrites(t, f),
         f.pc \in QuietPcs => Top(t).pc \in QuietPcs \/ slot[t] = NoUnit,
         Still, UNCHANGED counts,
         parked' \subseteq parked \cup {Me(t)}, Me(t) \in parked' => f.pc \in Idling,
         permit' \subseteq Spots(ParkMarks), stopParkers' \subseteq Spots(ParkMarks)
  PROVE  Inv'
<1>1. FrameOK(t, Top(t))
  BY TopFacts DEF Inv
<1>2. FrameOK(t, f) /\ t \in Workers /\ f.kind = Top(t).kind /\ f.u = Top(t).u
  BY <1>1, DriverFrame DEF FreshMarks, Remade
<1>3. Top(t).kind = "drain" => Top(t).pc \in DrainPcs
  BY <1>1 DEF FrameOK
<1>4. /\ Mark(f) \in LaneMarks <=> f.pc \in LanePcs
      /\ Mark(f) \in DrainMarks <=> f.kind = "drain" /\ f.pc \notin Retired
      /\ Mark(f) \in IdleMarks <=> f.pc \in Idling
      /\ Quiet(f) <=> f.pc \in QuietPcs
  BY <1>2, DriverMarks DEF FreshMarks
<1>5. /\ Mark(Top(t)) \in LaneMarks <=> Top(t).pc \in LanePcs
      /\ Mark(Top(t)) \in DrainMarks <=> Top(t).kind = "drain" /\ Top(t).pc \notin Retired
      /\ Quiet(Top(t)) <=> Top(t).pc \in QuietPcs
  BY <1>3, DriverMarks
<1>6. SameMarks(f, Top(t))
  BY <1>2, <1>4, <1>5 DEF SameMarks, FreshMarks
<1>7. f.kind \notin {"wake", "stop"}
  BY <1>2 DEF DriverKinds
<1>. QED
  BY <1>2, <1>4, <1>5, <1>6, <1>7, MoveKept

\* A driver moves on and changes no parker: it does not leave its registration.
LEMMA DriverStep ==
  ASSUME Inv, NEW t \in Threads, Busy(t), Top(t).kind \in DriverKinds,
         NEW f, Remade(Top(t), f), FreshMarks(f, Top(t)), Rewrites(t, f),
         f.pc \in QuietPcs => Top(t).pc \in QuietPcs \/ slot[t] = NoUnit,
         Top(t).pc \in Idling => f.pc \in Idling,
         UNCHANGED <<units, queues, counts, parkers, stops>>
  PROVE  Inv'
<1>1. Me(t) \in parked => Top(t).pc \in Idling
  <2>1. Me(t) = <<t, Len(stack[t])>> /\ Top(t) = stack[t][Len(stack[t])]
    BY TopFacts DEF Inv, Me
  <2>2. Me(t) \in Spots(IdleMarks) => Mark(Top(t)) \in IdleMarks
    BY <2>1, SpotsAre
  <2>. QED
    BY <2>2 DEF Inv, ParkerInv, Mark, IdleMarks
<1>2. Still /\ UNCHANGED counts /\ UNCHANGED parked /\ UNCHANGED permit /\ UNCHANGED stopParkers
  BY DEF Still, parkers, stops
<1>. QED
  BY <1>1, <1>2, DriverMove DEF Inv, ParkerInv

LEMMA DrivingTop ==
  ASSUME Inv, NEW t \in Threads, NEW pc, Driving(t, pc)
  PROVE  /\ Busy(t) /\ Top(t).kind \in DriverKinds /\ Top(t).pc = pc /\ t \in Workers
         /\ Top(t) \in FrameTypes
         /\ Top(t).kind = "drain" => pc \in DrainPcs
         /\ Top(t).kind = "coop" => pc \in CoopPcs
<1>1. Busy(t) /\ Top(t).kind \in DriverKinds /\ Top(t).pc = pc
  BY DEF Driving, At
<1>2. FrameOK(t, Top(t))
  BY <1>1, TopFacts DEF Inv
<1>. QED
  BY <1>1, <1>2 DEF FrameOK, DriverKinds

LEMMA GoFrame ==
  ASSUME NEW t, NEW pc \in Pcs, Top(t) \in FrameTypes
  PROVE  LET f == [Top(t) EXCEPT !.pc = pc] IN Remade(Top(t), f) /\ f.pc = pc
  BY DEF Remade, FrameTypes

\* A driver at `from` goes to `to` and nothing else happens.
Step(t, from, to) ==
  /\ Top(t).kind = "drain" => to \in DrainPcs
  /\ Top(t).kind = "coop" => to \in CoopPcs
  /\ from \notin LanePcs /\ to \notin LanePcs
  /\ from \in Retired <=> to \in Retired
  /\ to \in QuietPcs => from \in QuietPcs \/ slot[t] = NoUnit

LEMMA GoStep ==
  ASSUME Inv, NEW t \in Threads, NEW from, Driving(t, from), NEW to, Step(t, from, to),
         Put(t, WithTop(t, [Top(t) EXCEPT !.pc = to])),
         from \in Idling => to \in Idling,
         UNCHANGED <<units, queues, counts, parkers, stops>>
  PROVE  Inv'
<1>1. /\ Busy(t) /\ Top(t).kind \in DriverKinds /\ Top(t).pc = from /\ Top(t) \in FrameTypes
  BY DrivingTop
<1>2. to \in Pcs
  BY <1>1 DEF Step, DriverKinds, Pcs
<1>3. PICK f : f = [Top(t) EXCEPT !.pc = to]
  OBVIOUS
<1>4. Remade(Top(t), f) /\ f.pc = to
  BY <1>1, <1>2, <1>3, GoFrame
<1>5. FreshMarks(f, Top(t)) /\ Rewrites(t, f)
  BY <1>1, <1>3, <1>4 DEF FreshMarks, Step, Rewrites, Remade
<1>. QED
  BY <1>1, <1>4, <1>5, DriverStep DEF Step

LEMMA GoMove ==
  ASSUME Inv, NEW t \in Threads, NEW from, Driving(t, from), NEW to, Step(t, from, to),
         Put(t, WithTop(t, [Top(t) EXCEPT !.pc = to])),
         Still, UNCHANGED counts,
         parked' \subseteq parked \cup {Me(t)}, Me(t) \in parked' => to \in Idling,
         permit' \subseteq Spots(ParkMarks), stopParkers' \subseteq Spots(ParkMarks)
  PROVE  Inv'
<1>1. /\ Busy(t) /\ Top(t).kind \in DriverKinds /\ Top(t).pc = from /\ Top(t) \in FrameTypes
  BY DrivingTop
<1>2. to \in Pcs
  BY <1>1 DEF Step, DriverKinds, Pcs
<1>3. PICK f : f = [Top(t) EXCEPT !.pc = to]
  OBVIOUS
<1>4. Remade(Top(t), f) /\ f.pc = to
  BY <1>1, <1>2, <1>3, GoFrame
<1>5. FreshMarks(f, Top(t)) /\ Rewrites(t, f)
  BY <1>1, <1>3, <1>4 DEF FreshMarks, Step, Rewrites, Remade
<1>. QED
  BY <1>1, <1>4, <1>5, DriverMove DEF Step

LEMMA SimpleMoves ==
  ASSUME Inv, NEW t \in Threads,
         LingerEnds(t) \/ GoIdle(t) \/ Recheck(t) \/ LingerExpires(t) \/ Residue(t)
  PROVE  Inv'
<1>1. CASE LingerEnds(t)
  <2>1. Driving(t, "idle") /\ Step(t, "idle", "exit")
    BY <1>1 DEF LingerEnds, IsDrain, Step, DrainPcs, LanePcs, Retired, QuietPcs
  <2>. QED
    BY <1>1, <2>1, GoStep DEF LingerEnds, Go, Idling
<1>2. CASE GoIdle(t)
  <2>1. Driving(t, "idle") /\ Step(t, "idle", "register")
    BY <1>2 DEF GoIdle, Step, DrainPcs, CoopPcs, LanePcs, Retired, QuietPcs
  <2>. QED
    BY <1>2, <2>1, GoStep DEF GoIdle, Go, Idling
<1>3. CASE LingerExpires(t)
  <2>1. Driving(t, "park") /\ Step(t, "park", "expired")
    BY <1>3 DEF LingerExpires, IsDrain, Step, DrainPcs, LanePcs, Retired, QuietPcs
  <2>. QED
    BY <1>3, <2>1, GoStep DEF LingerExpires, Go, Idling
<1>4. CASE Recheck(t)
  <2>1. PICK from, to :
          /\ Driving(t, from) /\ Go(t, to) /\ UNCHANGED <<units, queues, counts, parkers, stops>>
          /\ from \in {"runnable?", "blocking?"}
          /\ to \in {"undo", "blocking?", "park", "quit", "leave"}
          /\ to = "quit" => Top(t).kind = "drain"
          /\ to = "leave" => Top(t).kind # "drain"
    BY <1>4 DEF Recheck, IsDrain
  <2>2. Step(t, from, to) /\ (from \in Idling => to \in Idling)
    BY <2>1 DEF Step, DrainPcs, CoopPcs, LanePcs, Retired, QuietPcs, Idling
  <2>. QED
    BY <2>1, <2>2, GoStep DEF Go
<1>5. CASE Residue(t)
  <2>1. PICK from, to :
          /\ Driving(t, from) /\ Go(t, to) /\ UNCHANGED <<units, queues, counts, parkers, stops>>
          /\ from \in {"residue?", "jobs?"} /\ to \in {"ensure", "jobs?", "notify"}
    BY <1>5 DEF Residue
  <2>2. Top(t).kind = "drain"
    BY <2>1, DrivingTop DEF CoopPcs, DriverKinds, Leaving
  <2>3. Step(t, from, to) /\ (from \in Idling => to \in Idling)
    BY <2>1, <2>2 DEF Step, DrainPcs, LanePcs, Retired, QuietPcs, Idling
  <2>. QED
    BY <2>1, <2>3, GoStep DEF Go
<1>. QED
  BY <1>1, <1>2, <1>3, <1>4, <1>5

LEMMA MyPark ==
  ASSUME Inv, NEW t \in Threads, Busy(t), Parks(Top(t))
  PROVE  Me(t) \in Spots(ParkMarks)
<1>1. FrameOK(t, Top(t)) /\ Me(t) = <<t, Len(stack[t])>> /\ Top(t) = stack[t][Len(stack[t])]
      /\ Len(stack[t]) \in Nat \ {0}
  BY TopFacts DEF Inv, Me
<1>2. Mark(Top(t)) \in ParkMarks
  BY <1>1, ParkMark
<1>3. Len(stack[t]) \in 1..Len(stack[t])
  BY <1>1
<1>. QED
  BY <1>1, <1>2, <1>3, SpotsAre

LEMMA DriverParks ==
  ASSUME Inv, NEW t \in Threads, Busy(t), Top(t).kind \in DriverKinds
  PROVE  Me(t) \in Spots(ParkMarks) /\ permit \subseteq Spots(ParkMarks) /\ stopParkers \subseteq Spots(ParkMarks)
  BY MyPark DEF Inv, ParkerInv, Parks, ParkingKinds, DriverKinds

LEMMA RestartFrame ==
  ASSUME NEW t, Top(t) \in FrameTypes, Top(t).kind \in DriverKinds
  PROVE  LET f == Restarted(Top(t)) IN
         /\ Remade(Top(t), f)
         /\ f.pc = IF Top(t).kind = "drain" THEN "fair" ELSE "top"
  BY DEF Restarted, Remade, FrameTypes, Pcs, DrainPcs, CoopPcs

\* A driver that begins its loop anew.
LEMMA RestartMove ==
  ASSUME Inv, NEW t \in Threads, NEW from \in {"undo", "permit?"}, Driving(t, from),
         Put(t, WithTop(t, Restarted(Top(t)))),
         Still, UNCHANGED counts, UNCHANGED stopParkers,
         parked' \subseteq parked, Me(t) \notin parked', permit' \subseteq permit
  PROVE  Inv'
<1>1. /\ Busy(t) /\ Top(t).kind \in DriverKinds /\ Top(t).pc = from /\ Top(t) \in FrameTypes
  BY DrivingTop
<1>2. PICK f : f = Restarted(Top(t))
  OBVIOUS
<1>3. Remade(Top(t), f) /\ f.pc \in {"fair", "top"} /\ (f.kind = "drain" <=> f.pc = "fair")
  BY <1>1, <1>2, RestartFrame DEF Remade
<1>4. FreshMarks(f, Top(t)) /\ Rewrites(t, f) /\ f.pc \notin QuietPcs
  BY <1>1, <1>2, <1>3
  DEF FreshMarks, Rewrites, Remade, DrainPcs, CoopPcs, LanePcs, Retired, QuietPcs, Leaving
<1>5. permit' \subseteq Spots(ParkMarks) /\ stopParkers' \subseteq Spots(ParkMarks)
  BY <1>1, DriverParks
<1>. QED
  BY <1>1, <1>3, <1>4, <1>5, DriverMove

LEMMA MyIdle ==
  ASSUME Inv, NEW t \in Threads, Busy(t), Top(t).pc \notin Idling
  PROVE  Me(t) \notin parked
<1>1. Me(t) = <<t, Len(stack[t])>> /\ Top(t) = stack[t][Len(stack[t])]
  BY TopFacts DEF Inv, Me
<1>2. Me(t) \in Spots(IdleMarks) => Mark(Top(t)) \in IdleMarks
  BY <1>1, SpotsAre
<1>. QED
  BY <1>2 DEF Inv, ParkerInv, Mark, IdleMarks

LEMMA ParkMoves ==
  ASSUME Inv, NEW t \in Threads, Register(t) \/ Park(t) \/ AfterExpiry(t)
  PROVE  Inv'
<1>1. CASE Park(t)
  <2>1. Driving(t, "park") /\ Step(t, "park", "undo") /\ "undo" \in Idling
    BY <1>1 DEF Park, Step, DrainPcs, CoopPcs, LanePcs, Retired, QuietPcs, Idling
  <2>2. Still /\ UNCHANGED counts /\ parked' = parked /\ permit' \subseteq permit /\ stopParkers' = stopParkers
    BY <1>1 DEF Park, Still, stops
  <2>3. permit' \subseteq Spots(ParkMarks) /\ stopParkers' \subseteq Spots(ParkMarks)
    BY <2>2 DEF Inv, ParkerInv
  <2>. QED
    BY <1>1, <2>1, <2>2, <2>3, GoMove DEF Park, Go
<1>2. CASE AfterExpiry(t)
  <2>1. /\ Driving(t, "permit?") /\ Busy(t) /\ Top(t).pc = "permit?" /\ Top(t).kind \in DriverKinds
        /\ "permit?" \in DrainPcs /\ "permit?" \notin CoopPcs
    BY <1>2 DEF AfterExpiry, Driving, At, DrainPcs, CoopPcs, Leaving
  <2>2. Top(t).kind = "drain" /\ Me(t) \notin parked
    BY <2>1, DrivingTop, MyIdle DEF DriverKinds, Idling
  <2>3. Still /\ UNCHANGED counts /\ parked' = parked /\ permit' \subseteq permit /\ stopParkers' = stopParkers
    BY <1>2 DEF AfterExpiry, Still, stops
  <2>4. CASE Put(t, WithTop(t, Restarted(Top(t))))
    BY <2>1, <2>2, <2>3, <2>4, RestartMove
  <2>5. CASE Go(t, "exit")
    <3>1. Step(t, "permit?", "exit")
      BY <2>2 DEF Step, DrainPcs, LanePcs, Retired, QuietPcs
    <3>2. permit' \subseteq Spots(ParkMarks) /\ stopParkers' \subseteq Spots(ParkMarks)
      BY <2>3 DEF Inv, ParkerInv
    <3>. QED
      BY <2>1, <2>2, <2>3, <2>5, <3>1, <3>2, GoMove DEF Go
  <2>. QED
    BY <1>2, <2>4, <2>5 DEF AfterExpiry
<1>3. CASE Register(t)
  <2>1. /\ Driving(t, "register") /\ Busy(t) /\ Top(t).pc = "register" /\ Top(t).kind \in DriverKinds
        /\ Top(t) \in FrameTypes
    BY <1>3, DrivingTop DEF Register
  <2>2. Still /\ UNCHANGED counts /\ parked' = parked \cup {Me(t)}
    BY <1>3 DEF Register, Still
  <2>3. permit' \subseteq Spots(ParkMarks) /\ stopParkers' \subseteq Spots(ParkMarks)
    BY <1>3, <2>1, DriverParks DEF Register
  <2>4. PICK f : Rewrites(t, f) /\ (f = [Top(t) EXCEPT !.pc = "runnable?", !.force = TRUE]
                                    \/ f = [Top(t) EXCEPT !.pc = "runnable?"])
    BY <1>3 DEF Register, Go, Rewrites
  <2>5. Remade(Top(t), f) /\ f.pc = "runnable?"
    BY <2>1, <2>4 DEF Remade, FrameTypes, Pcs, DrainPcs
  <2>6. FreshMarks(f, Top(t)) /\ f.pc \in Idling /\ Top(t).pc \in QuietPcs
    BY <2>1, <2>5 DEF FreshMarks, Remade, DrainPcs, CoopPcs, LanePcs, Retired, QuietPcs, Idling
  <2>. QED
    BY <2>1, <2>2, <2>3, <2>4, <2>5, <2>6, DriverMove
<1>. QED
  BY <1>1, <1>2, <1>3

-----------------------------------------------------------------------------
(* A driver hands its slot to the shared queue.                            *)

LEMMA PushFrameOK ==
  ASSUME NEW t \in Threads, NEW u \in Tasks
  PROVE  LET g == PushFrame(u) IN
         /\ FrameOK(t, g) /\ g.kind = "wake" /\ g.pc = "push" /\ g.u = u /\ g.p = NoParker
         /\ Unmarked(g) /\ ~Quiet(g) /\ Waits(g) /\ Holding(g)
  BY DEF PushFrame, Frame, FrameOK, FrameTypes, Kinds, Pcs, WakePcs, NoParker, Parkers, Units,
         Unmarked, Mark, LaneMarks, DrainMarks, DriverKinds, Quiet, Waits, Holding

LEMMA HandsOver ==
  ASSUME Inv, NEW t \in Threads, Busy(t), Top(t).kind \in DriverKinds,
         NEW f, Remade(Top(t), f), FreshMarks(f, Top(t)), f.pc \in WakingPcs,
         slot[t] # NoUnit, slot' = [slot EXCEPT ![t] = NoUnit],
         NEW g, g = PushFrame(slot[t]), Calls2(t, f, g),
         UNCHANGED <<units, injector, blockingQueue, counts, stops, permit>>,
         parked' \subseteq parked, Me(t) \in parked' => f.pc \in Idling
  PROVE  Inv'
<1>1. FrameOK(t, Top(t))
  BY TopFacts DEF Inv
<1>2. FrameOK(t, f) /\ t \in Workers /\ f.kind = Top(t).kind /\ f.u = Top(t).u /\ f.p = NoParker
  BY <1>1, DriverFrame DEF FreshMarks, Remade
<1>3. slot[t] \in Tasks /\ slot \in [Workers -> Tasks \cup {NoUnit}]
  BY <1>2 DEF Inv, DataTypes
<1>4. /\ FrameOK(t, g) /\ g.kind = "wake" /\ g.pc = "push" /\ g.u = slot[t] /\ g.p = NoParker
      /\ Unmarked(g) /\ ~Quiet(g) /\ Waits(g) /\ Holding(g)
  BY <1>3, PushFrameOK
<1>5. Nests(f, g)
  BY <1>2, <1>4 DEF Nests, Bases
<1>6. Adds(t, f, g) /\ Below(t)
  BY <1>2, <1>4, <1>5, CallForm DEF Inv, Adds
<1>7. Stacks'
  BY <1>6 DEF Below
<1>8. /\ t \in Workers => slot'[t] = NoUnit
      /\ \A x \in Workers \ {t} : slot'[x] = slot[x]
      /\ slot' \in [Workers -> Tasks \cup {NoUnit}]
  BY <1>3
<1>9. DataTypes'
  BY <1>8 DEF Inv, DataTypes, units, counts, stops
<1>10. SameMarks(f, Top(t))
  <2>1. Top(t).kind = "drain" => Top(t).pc \in DrainPcs
    BY <1>1 DEF FrameOK
  <2>. QED
    BY <1>2, <2>1, DriverMarks DEF SameMarks, FreshMarks
<1>11. Lanes' = Lanes /\ Draining' = Draining
  BY <1>4, <1>6, <1>10, AddCounts DEF Inv
<1>12. LaneInv' /\ DrainInv'
  BY <1>11, CountsKept DEF Inv
<1>13. ParkerInv'
  <2>1. Mark(f) \in IdleMarks <=> f.pc \in Idling
    BY <1>2, DriverMarks DEF FreshMarks
  <2>2. permit' = permit /\ stopParkers' = stopParkers
    BY DEF stops
  <2>3. permit' \subseteq Spots(ParkMarks) /\ stopParkers' \subseteq Spots(ParkMarks)
    BY <2>2 DEF Inv, ParkerInv
  <2>. QED
    BY <1>2, <1>4, <1>6, <2>1, <2>3, AddParkers DEF Inv, Parks
<1>14. SlotInv'
  BY <1>6, <1>8, EmptySlot DEF Inv
<1>15. QueuedInv' /\ OnePlace'
  <2>. DEFINE v == slot[t]
  <2>1. v \in Units /\ In("slot", t, v) /\ "slot" \in Places /\ t \in Holders
    BY <1>2, <1>3 DEF In, Units, Places, Holders
  <2>2. ASSUME NEW u \in Units, NEW k \in Places, NEW x \in Holders, In(k, x, u)'
        PROVE  \/ In(k, x, u) /\ ~(k = "slot" /\ x = t)
               \/ u = v /\ k = "hand" /\ x = t
    <3>1. CASE k \in {"injector", "queue"}
      BY <2>2, <3>1 DEF In
    <3>2. CASE k = "slot"
      <4>1. x \in Workers /\ slot'[x] = u /\ u # NoUnit
        BY <2>2, <3>2, SchedulerAssumption DEF In, Units
      <4>2. x # t
        BY <1>2, <1>8, <4>1
      <4>. QED
        BY <1>8, <3>2, <4>1, <4>2 DEF In
    <3>3. CASE k = "hand"
      <4>1. x \in Threads
        BY <2>2, <3>3 DEF In
      <4>2. CASE x = t
        BY <1>4, <1>6, <2>2, <3>3, <4>2, AddHand
      <4>3. CASE x # t
        BY <1>6, <2>2, <3>3, <4>1, <4>3, HandOther DEF Inv
      <4>. QED
        BY <4>2, <4>3
    <3>. QED
      BY <3>1, <3>2, <3>3 DEF Places
  <2>. HIDE DEF v
  <2>3. IsInjective(injector') /\ IsInjective(blockingQueue') /\ UNCHANGED status
    BY DEF Inv, PlaceInv, OnePlace, units
  <2>. QED
    BY <2>1, <2>2, <2>3, PlacesMove DEF Inv, PlaceInv
<1>16. RunningInv' /\ OneRunning'
  <2>1. \A i \in 1..Len(stack'[t]) :
           i >= Len(stack[t]) /\ Runner(stack'[t][i]) => Stays(t, i)
    <3>. TAKE i \in 1..Len(stack'[t])
    <3>1. i >= Len(stack[t]) => i = Len(stack[t]) \/ i = Len(stack[t]) + 1
      BY <1>6 DEF Adds
    <3>2. ~Runner(f) /\ ~Runner(g)
      BY <1>2, <1>4 DEF Runner, DriverKinds
    <3>. QED
      BY <1>6, <3>1, <3>2 DEF Adds
  <2>. QED
    BY <1>6, <2>1, RunningKept DEF Inv, PlaceInv, units
<1>17. Settled /\ SlotsSettled
  <2>1. Settled
    BY DEF Settled, units
  <2>. QED
    BY <2>1, DataSettled DEF Inv, PlaceInv
<1>18. WaitInv'
  <2>1. ParentInv'
    BY DEF Inv, WaitInv, ParentInv, units
  <2>2. ChildInv'
    BY <1>6, <1>8, <1>17, EmptyChild DEF Inv, WaitInv
  <2>. QED
    BY <2>1, <2>2 DEF WaitInv
<1>19. StopInv'
  <2>1. StopPc' = StopPc
    BY <1>6, StopPcKept DEF Inv, DriverKinds
  <2>2. AllOver => AllOver'
    BY DEF AllOver, units
  <2>. QED
    BY <1>11, <2>1, <2>2, StopKept DEF Inv, stops
<1>20. PlaceInv'
  BY <1>15, <1>16 DEF PlaceInv
<1>. QED
  BY <1>7, <1>9, <1>12, <1>13, <1>14, <1>18, <1>19, <1>20 DEF Inv

\* Flush, by whether the slot holds a task.
LEMMA FlushKept ==
  ASSUME Inv, NEW t \in Threads, Busy(t), Top(t).kind \in DriverKinds,
         NEW f, Remade(Top(t), f), FreshMarks(f, Top(t)), f.pc \in WakingPcs, Flush(t, f),
         UNCHANGED <<units, injector, blockingQueue, counts, stops, permit>>,
         parked' \subseteq parked, Me(t) \in parked' => f.pc \in Idling
  PROVE  Inv'
<1>1. CASE slot[t] = NoUnit
  <2>1. Rewrites(t, f) /\ UNCHANGED slot
    BY <1>1 DEF Flush, Rewrites
  <2>2. Still /\ UNCHANGED counts /\ permit' = permit /\ stopParkers' = stopParkers
    BY <2>1 DEF Still, queues, stops
  <2>3. permit' \subseteq Spots(ParkMarks) /\ stopParkers' \subseteq Spots(ParkMarks)
    BY <2>2 DEF Inv, ParkerInv
  <2>. QED
    BY <1>1, <2>1, <2>2, <2>3, DriverMove
<1>2. CASE slot[t] # NoUnit
  <2>1. PICK g : g = PushFrame(slot[t])
    OBVIOUS
  <2>2. Calls2(t, f, g) /\ slot' = [slot EXCEPT ![t] = NoUnit]
    BY <1>2, <2>1 DEF Flush, Calls2
  <2>. QED
    BY <1>2, <2>1, <2>2, HandsOver
<1>. QED
  BY <1>1, <1>2

LEMMA Flushes ==
  ASSUME Inv, NEW t \in Threads,
         \/ FlushBeforeExit(t) \/ Yield(t)
         \/ Driving(t, "block") /\ Block(t) /\ ~CanTakeBlocking
  PROVE  Inv'
<1>1. CASE FlushBeforeExit(t)
  <2>1. /\ Driving(t, "exit") /\ Flush(t, Top(t))
        /\ UNCHANGED <<units, injector, blockingQueue, counts, stops, permit>> /\ parked' = parked
    BY <1>1 DEF FlushBeforeExit, parkers
  <2>2. Busy(t) /\ Top(t).kind \in DriverKinds /\ Top(t).pc = "exit" /\ Top(t) \in FrameTypes
        /\ (Top(t).kind = "drain" => "exit" \in DrainPcs) /\ (Top(t).kind = "coop" => "exit" \in CoopPcs)
    BY <2>1, DrivingTop
  <2>3. PICK f : f = Top(t)
    OBVIOUS
  <2>4. Remade(Top(t), f) /\ FreshMarks(f, Top(t)) /\ f.pc \in WakingPcs /\ Me(t) \notin parked
    BY <2>2, <2>3, MyIdle DEF Remade, FreshMarks, LanePcs, WakingPcs, ServedPcs, Idling
  <2>. QED
    BY <2>1, <2>2, <2>3, <2>4, FlushKept
<1>2. CASE Yield(t)
  <2>1. /\ Driving(t, "yield") /\ Flush(t, [Top(t) EXCEPT !.pc = "top", !.work = 0, !.force = TRUE])
        /\ UNCHANGED <<units, injector, blockingQueue, counts, stops, permit>> /\ parked' = parked
    BY <1>2 DEF Yield, parkers
  <2>2. Busy(t) /\ Top(t).kind \in DriverKinds /\ Top(t).pc = "yield" /\ Top(t) \in FrameTypes
        /\ (Top(t).kind = "drain" => "yield" \in DrainPcs)
    BY <2>1, DrivingTop
  <2>3. PICK f : f = [Top(t) EXCEPT !.pc = "top", !.work = 0, !.force = TRUE]
    OBVIOUS
  <2>4. Remade(Top(t), f) /\ f.pc = "top"
    BY <2>2, <2>3 DEF Remade, FrameTypes, Pcs, CoopPcs
  <2>5. FreshMarks(f, Top(t)) /\ f.pc \in WakingPcs /\ Me(t) \notin parked
    BY <2>2, <2>4, MyIdle DEF Remade, FreshMarks, LanePcs, WakingPcs, ServedPcs, Idling, DrainPcs, CoopPcs, Retired
  <2>. QED
    BY <2>1, <2>2, <2>3, <2>4, <2>5, FlushKept
<1>3. CASE Driving(t, "block") /\ Block(t) /\ ~CanTakeBlocking
  <2>1. /\ Flush(t, [Top(t) EXCEPT !.pc = IF IsDrain(t) THEN "idle" ELSE "register",
                                   !.streak = 0, !.work = 0])
        /\ UNCHANGED <<units, injector, blockingQueue, counts, stops, permit>> /\ parked' = parked
    BY <1>3 DEF Block, TakeBlocking, parkers
  <2>2. Busy(t) /\ Top(t).kind \in DriverKinds /\ Top(t).pc = "block" /\ Top(t) \in FrameTypes
    BY <1>3, DrivingTop
  <2>3. PICK f : f = [Top(t) EXCEPT !.pc = IF IsDrain(t) THEN "idle" ELSE "register",
                                   !.streak = 0, !.work = 0]
    OBVIOUS
  <2>4. Remade(Top(t), f) /\ f.pc = (IF Top(t).kind = "drain" THEN "idle" ELSE "register")
    BY <2>2, <2>3 DEF Remade, FrameTypes, Pcs, DrainPcs, IsDrain
  <2>5. FreshMarks(f, Top(t)) /\ f.pc \in WakingPcs /\ Me(t) \notin parked
    BY <2>2, <2>4, MyIdle DEF Remade, FreshMarks, LanePcs, WakingPcs, ServedPcs, Idling, DrainPcs, CoopPcs, Retired
  <2>. QED
    BY <2>1, <2>2, <2>3, <2>4, <2>5, FlushKept
<1>. QED
  BY <1>1, <1>2, <1>3

LEMMA DeregisterKept ==
  ASSUME Inv, NEW t \in Threads, Deregister(t)
  PROVE  Inv'
<1>1. /\ parked' = parked \ {Me(t)}
      /\ UNCHANGED <<units, injector, blockingQueue, counts, stops, permit>>
  BY DEF Deregister
<1>2. permit' \subseteq Spots(ParkMarks) /\ stopParkers' \subseteq Spots(ParkMarks)
  BY <1>1 DEF Inv, ParkerInv, stops
<1>3. CASE Driving(t, "undo") /\ Put(t, WithTop(t, Restarted(Top(t)))) /\ UNCHANGED slot
  <2>1. Still /\ UNCHANGED counts /\ UNCHANGED stopParkers
    BY <1>1, <1>3 DEF Still, queues, stops
  <2>. QED
    BY <1>1, <1>3, <2>1, RestartMove
<1>4. CASE \/ Driving(t, "quit") /\ Go(t, "exit") /\ UNCHANGED slot
           \/ Driving(t, "expired") /\ Go(t, "permit?") /\ UNCHANGED slot
  <2>1. PICK from, to :
          /\ Driving(t, from) /\ Go(t, to) /\ from \in {"quit", "expired"} /\ to \in {"exit", "permit?"}
          /\ from = "quit" => to = "exit"
          /\ UNCHANGED slot
    BY <1>4
  <2>2. Top(t).kind = "drain"
    BY <2>1, DrivingTop DEF CoopPcs, DriverKinds, Leaving
  <2>3. Step(t, from, to)
    BY <2>1, <2>2 DEF Step, DrainPcs, LanePcs, Retired, QuietPcs, Leaving
  <2>4. Still /\ UNCHANGED counts
    BY <1>1, <2>1 DEF Still, queues, stops
  <2>. QED
    BY <1>1, <1>2, <2>1, <2>3, <2>4, GoMove DEF Go
<1>5. CASE Driving(t, "leave") /\ Flush(t, [Top(t) EXCEPT !.pc = "xrunnable"])
  <2>2. Busy(t) /\ Top(t).kind \in DriverKinds /\ Top(t).pc = "leave" /\ Top(t) \in FrameTypes
        /\ (Top(t).kind = "drain" => "leave" \in DrainPcs)
    BY <1>5, DrivingTop
  <2>3. PICK f : f = [Top(t) EXCEPT !.pc = "xrunnable"]
    OBVIOUS
  <2>4. Remade(Top(t), f) /\ f.pc = "xrunnable"
    BY <2>2, <2>3 DEF Remade, FrameTypes, Pcs, CoopPcs, Leaving
  <2>5. FreshMarks(f, Top(t)) /\ f.pc \in WakingPcs
    BY <2>2, <2>4 DEF Remade, FreshMarks, LanePcs, WakingPcs, DrainPcs, CoopPcs, Retired, Leaving
  <2>. QED
    BY <1>1, <1>5, <2>2, <2>3, <2>4, <2>5, FlushKept
<1>. QED
  BY <1>3, <1>4, <1>5 DEF Deregister

-----------------------------------------------------------------------------
(* What a step that adds a frame, or ends one, does to running units and   *)
(* waiting closures.                                                       *)

LEMMA AddRunning ==
  ASSUME Stacks, RunningInv, OneRunning, NEW t \in Threads, NEW f, NEW g, Adds(t, f, g),
         f.kind = Top(t).kind, f.u = Top(t).u, ~Runner(g),
         \A u \in Units : status[u] \in {"running", "again"} =>
           \/ status'[u] = status[u]
           \/ u \in Tasks /\ status'[u] \in {"running", "again"}
  PROVE  RunningInv' /\ OneRunning'
<1>1. \A i \in 1..Len(stack'[t]) :
         i >= Len(stack[t]) /\ Runner(stack'[t][i]) => Stays(t, i)
  <2>. TAKE i \in 1..Len(stack'[t])
  <2>1. i >= Len(stack[t]) => i = Len(stack[t]) \/ i = Len(stack[t]) + 1
    BY DEF Adds
  <2>2. Top(t) = stack[t][Len(stack[t])] /\ Len(stack[t]) \in Nat \ {0}
    BY TopFacts DEF Adds
  <2>. QED
    BY <2>1, <2>2 DEF Adds, Stays
<1>. QED
  BY <1>1, RunningKept DEF Adds

LEMMA TurnRunning ==
  ASSUME Stacks, RunningInv, OneRunning, NEW t \in Threads, NEW f, Turns(t, f),
         Runner(f) => f.kind = Top(t).kind /\ f.u = Top(t).u,
         \A u \in Units : status[u] \in {"running", "again"} =>
           \/ status'[u] = status[u]
           \/ u \in Tasks /\ status'[u] \in {"running", "again"}
  PROVE  RunningInv' /\ OneRunning'
<1>1. \A i \in 1..Len(stack'[t]) :
         i >= Len(stack[t]) /\ Runner(stack'[t][i]) => Stays(t, i)
  <2>. TAKE i \in 1..Len(stack'[t])
  <2>1. i >= Len(stack[t]) => i = Len(stack[t])
    BY DEF Turns
  <2>2. Top(t) = stack[t][Len(stack[t])] /\ Len(stack[t]) \in Nat \ {0}
    BY TopFacts DEF Turns
  <2>. QED
    BY <2>1, <2>2 DEF Turns, Stays
<1>. QED
  BY <1>1, RunningKept DEF Turns

LEMMA DropRunning ==
  ASSUME Stacks, RunningInv, OneRunning, NEW t \in Threads, Drops(t),
         \A u \in Units : status[u] \in {"running", "again"} =>
           \/ status'[u] = status[u]
           \/ u \in Tasks /\ status'[u] \in {"running", "again"}
  PROVE  RunningInv' /\ OneRunning'
<1>1. \A i \in 1..Len(stack'[t]) : ~(i >= Len(stack[t]))
  BY DEF Drops
<1>. QED
  BY <1>1, RunningKept DEF Drops

\* When nothing a unit is judged by changes.
Unmoved == UNCHANGED <<units, queues>>
LEMMA UnmovedFacts ==
  ASSUME Inv, Unmoved
  PROVE  /\ Settled /\ SlotsSettled /\ ParentInv' /\ (AllOver => AllOver')
         /\ \A u \in Units : status[u] \in {"running", "again"} => status'[u] = status[u]
         /\ IsInjective(injector') /\ IsInjective(blockingQueue')
         /\ \A u \in Units, k \in Places, x \in Holders :
              k # "hand" /\ In(k, x, u)' => In(k, x, u) /\ status'[u] = status[u]
<1>1. Settled
  BY DEF Settled, Unmoved, units
<1>2. SlotsSettled
  BY <1>1, DataSettled DEF Inv, PlaceInv
<1>3. ParentInv' /\ (AllOver => AllOver')
  BY DEF Inv, WaitInv, ParentInv, AllOver, Unmoved, units
<1>4. \A u \in Units : status[u] \in {"running", "again"} => status'[u] = status[u]
  BY DEF Unmoved, units
<1>5. IsInjective(injector') /\ IsInjective(blockingQueue')
  BY DEF Inv, PlaceInv, OnePlace, Unmoved, queues
<1>6. \A u \in Units, k \in Places, x \in Holders :
        k # "hand" /\ In(k, x, u)' => In(k, x, u) /\ status'[u] = status[u]
  BY DEF In, Unmoved, units, queues
<1>. QED
  BY <1>1, <1>2, <1>3, <1>4, <1>5, <1>6

\* The hands that other threads hold units in are theirs still.
LEMMA HandsShrink ==
  ASSUME Inv, NEW t \in Threads, Below(t), UNCHANGED status, \A u \in Units : ~In("hand", t, u)',
         IsInjective(injector'), IsInjective(blockingQueue'),
         \A u \in Units, k \in Places, x \in Holders :
           k # "hand" /\ In(k, x, u)' => In(k, x, u)
  PROVE  QueuedInv' /\ OnePlace'
<1>1. ASSUME NEW u \in Units, NEW k \in Places, NEW x \in Holders, In(k, x, u)'
      PROVE  In(k, x, u) /\ status'[u] = status[u]
  <2>1. CASE k = "hand"
    <3>1. x \in Threads \ {t}
      BY <1>1, <2>1 DEF In
    <3>. QED
      BY <1>1, <2>1, <3>1, HandOther DEF Inv
  <2>2. CASE k # "hand"
    BY <1>1, <2>2
  <2>. QED
    BY <2>1, <2>2
<1>. QED
  BY <1>1, PlacesShrink DEF Inv, PlaceInv

-----------------------------------------------------------------------------
(* The exit guard wakes another driver.                                    *)

LEMMA WakeFrameOK ==
  ASSUME NEW t \in Threads
  PROVE  LET g == WakeFrame IN
         /\ FrameOK(t, g) /\ g.kind = "wake" /\ g.pc = "wake" /\ g.p = NoParker
         /\ Unmarked(g) /\ ~Quiet(g) /\ Waits(g) /\ ~Holding(g)
  BY DEF WakeFrame, Frame, FrameOK, FrameTypes, Kinds, Pcs, WakePcs, NoParker, Parkers, Units,
         Unmarked, Mark, LaneMarks, DrainMarks, DriverKinds, Quiet, Waits, Holding

LEMMA WakesOn ==
  ASSUME Inv, NEW t \in Threads, Busy(t), Top(t).kind \in DriverKinds,
         NEW f, Remade(Top(t), f), FreshMarks(f, Top(t)), f.pc \in WakingPcs,
         f.pc \in QuietPcs => Top(t).pc \in QuietPcs, Top(t).pc \notin Idling,
         NEW g, g = WakeFrame, Calls2(t, f, g),
         UNCHANGED <<units, queues, counts, parkers, stops>>
  PROVE  Inv'
<1>1. FrameOK(t, Top(t))
  BY TopFacts DEF Inv
<1>2. FrameOK(t, f) /\ t \in Workers /\ f.kind = Top(t).kind /\ f.u = Top(t).u /\ f.p = NoParker
  BY <1>1, DriverFrame DEF FreshMarks, Remade
<1>4. /\ FrameOK(t, g) /\ g.kind = "wake" /\ g.pc = "wake" /\ g.p = NoParker
      /\ Unmarked(g) /\ ~Quiet(g) /\ Waits(g) /\ ~Holding(g)
  BY WakeFrameOK
<1>5. Nests(f, g)
  BY <1>2, <1>4 DEF Nests, Bases
<1>6. Adds(t, f, g) /\ Below(t)
  BY <1>2, <1>4, <1>5, CallForm DEF Inv, Adds
<1>7. Stacks'
  BY <1>6 DEF Below
<1>8. Unmoved /\ UNCHANGED counts /\ UNCHANGED stops /\ parked' = parked /\ permit' = permit
  BY DEF Unmoved, parkers
<1>9. DataTypes'
  BY <1>8 DEF Inv, DataTypes, Unmoved, units, queues, counts, stops
<1>10. Top(t).kind = "drain" => Top(t).pc \in DrainPcs
  BY <1>1 DEF FrameOK
<1>11. SameMarks(f, Top(t)) /\ (Quiet(f) => Quiet(Top(t)))
  BY <1>2, <1>10, DriverMarks DEF SameMarks, FreshMarks
<1>12. Lanes' = Lanes /\ Draining' = Draining
  BY <1>4, <1>6, <1>11, AddCounts DEF Inv
<1>13. LaneInv' /\ DrainInv'
  BY <1>12, CountsKept DEF Inv
<1>14. ParkerInv'
  <2>1. permit' \subseteq Spots(ParkMarks) /\ stopParkers' \subseteq Spots(ParkMarks)
    BY <1>8 DEF Inv, ParkerInv, stops
  <2>2. Me(t) \notin parked'
    BY <1>8, MyIdle
  <2>. QED
    BY <1>2, <1>4, <1>6, <1>8, <2>1, <2>2, AddParkers DEF Inv, Parks
<1>15. SlotInv'
  <2>1. ~Shade(f)
    BY <1>2 DEF Shade, DriverKinds
  <2>2. UNCHANGED slot
    BY <1>8 DEF Unmoved, queues
  <2>. QED
    BY <1>4, <1>6, <1>11, <2>1, <2>2, AddSlot DEF Inv
<1>16. QueuedInv' /\ OnePlace'
  <2>1. \A u \in Units : ~In("hand", t, u)'
    BY <1>4, <1>6, AddHand
  <2>2. UNCHANGED status
    BY <1>8 DEF Unmoved, units
  <2>. QED
    BY <1>6, <1>8, <2>1, <2>2, UnmovedFacts, HandsShrink
<1>17. RunningInv' /\ OneRunning'
  <2>1. ~Runner(g)
    BY <1>4 DEF Runner
  <2>. QED
    BY <1>2, <1>6, <1>8, <2>1, UnmovedFacts, AddRunning DEF Inv, PlaceInv
<1>18. WaitInv'
  <2>1. ChildInv'
    <3>1. UNCHANGED slot
      BY <1>8 DEF Unmoved, queues
    <3>. QED
      BY <1>2, <1>4, <1>6, <1>8, <3>1, UnmovedFacts, AddChild DEF Inv, WaitInv
  <2>. QED
    BY <1>8, <2>1, UnmovedFacts DEF WaitInv
<1>19. StopInv'
  <2>1. StopPc' = StopPc
    BY <1>6, StopPcKept DEF Inv, DriverKinds
  <2>. QED
    BY <1>8, <1>12, <2>1, UnmovedFacts, StopKept DEF Inv, stops, Unmoved, queues
<1>20. PlaceInv'
  BY <1>16, <1>17 DEF PlaceInv
<1>. QED
  BY <1>7, <1>9, <1>13, <1>14, <1>15, <1>18, <1>19, <1>20 DEF Inv

-----------------------------------------------------------------------------
(* A driver takes a lane and runs a closure.                               *)

LEMMA JobFrameOK ==
  ASSUME NEW t \in Workers, NEW u \in Jobs
  PROVE  LET g == Frame("job", "user", u) IN
         /\ FrameOK(t, g) /\ g.kind = "job" /\ g.u = u /\ g.pc = "user" /\ g.p = NoParker
         /\ Unmarked(g) /\ ~Quiet(g) /\ ~Waits(g) /\ ~Holding(g) /\ Runner(g)
  BY DEF Frame, FrameOK, FrameTypes, Kinds, Pcs, NoParker, Parkers, Units, Runner,
         Unmarked, Mark, LaneMarks, DrainMarks, DriverKinds, Quiet, Waits, Holding
LEMMA TaskFrameOK ==
  ASSUME NEW t \in Workers, NEW u \in Tasks
  PROVE  LET g == Frame("task", "user", u) IN
         /\ FrameOK(t, g) /\ g.kind = "task" /\ g.u = u /\ g.pc = "user" /\ g.p = NoParker
         /\ Unmarked(g) /\ ~Quiet(g) /\ ~Waits(g) /\ ~Holding(g) /\ Runner(g)
  BY DEF Frame, FrameOK, FrameTypes, Kinds, Pcs, NoParker, Parkers, Units, Runner,
         Unmarked, Mark, LaneMarks, DrainMarks, DriverKinds, Quiet, Waits, Holding

\* A queued unit that leaves its queue is in no other place.
LEMMA TakenFrom ==
  ASSUME Inv, NEW v \in Units, NEW l \in Places, NEW y \in Holders, In(l, y, v)
  PROVE  /\ status[v] = "queued"
         /\ \A k \in Places, x \in Holders : In(k, x, v) => k = l /\ x = y
  BY DEF Inv, PlaceInv, QueuedInv, OnePlace

LEMMA TakeKept ==
  ASSUME Inv, NEW t \in Threads, Busy(t), Top(t).kind \in DriverKinds,
         NEW f, Remade(Top(t), f), f.pc \in LanePcs,
         f.kind = "drain" => f.pc \in DrainPcs, f.kind = "coop" => f.pc \in CoopPcs,
         Top(t).pc \notin LanePcs, Top(t).pc \notin Retired, Top(t).pc \notin Idling,
         f.pc \in QuietPcs => Top(t).pc \in QuietPcs,
         TakeBlocking(t, f)
  PROVE  Inv'
<1>1. FrameOK(t, Top(t))
  BY TopFacts DEF Inv
<1>2. FrameOK(t, f) /\ t \in Workers /\ f.kind = Top(t).kind /\ f.u = Top(t).u /\ f.p = NoParker
  BY <1>1, DriverFrame DEF Remade
<1>. DEFINE v == Head(blockingQueue)
<1>3. /\ blockingQueue \in Seq(Jobs) /\ blockingQueue # <<>> /\ v \in Jobs
      /\ v \in Range(blockingQueue) /\ Tail(blockingQueue) \in Seq(Jobs)
      /\ Range(Tail(blockingQueue)) \subseteq Range(blockingQueue)
      /\ IsInjective(Tail(blockingQueue)) /\ v \notin Range(Tail(blockingQueue))
  BY QueuePop DEF TakeBlocking, CanTakeBlocking, BlockingReady, Inv, DataTypes, PlaceInv, OnePlace
<1>4. PICK g : g = Frame("job", "user", v)
  OBVIOUS
<1>. HIDE DEF v
<1>5. /\ FrameOK(t, g) /\ g.kind = "job" /\ g.u = v /\ g.pc = "user" /\ g.p = NoParker
      /\ Unmarked(g) /\ ~Quiet(g) /\ ~Waits(g) /\ ~Holding(g) /\ Runner(g)
  BY <1>2, <1>3, <1>4, JobFrameOK
<1>6. Calls2(t, f, g)
  BY <1>4 DEF TakeBlocking, Calls2, v
<1>7. Nests(f, g)
  BY <1>2, <1>5 DEF Nests, Bases
<1>8. Adds(t, f, g) /\ Below(t)
  BY <1>2, <1>5, <1>6, <1>7, CallForm DEF Inv, Adds
<1>9. Stacks'
  BY <1>8 DEF Below
<1>10. /\ activeBlocking' = activeBlocking + 1 /\ activeBlocking < MaxBlocking
       /\ blockingQueue' = Tail(blockingQueue) /\ status' = [status EXCEPT ![v] = "running"]
       /\ ~queueClosed /\ UNCHANGED <<parent, injector, slot, drains, activeDrainers>>
       /\ UNCHANGED <<closed, queueClosed, stopping, aborting, idleAsleep>>
       /\ parked' = parked /\ permit' = permit /\ stopParkers' = stopParkers
  BY DEF TakeBlocking, CanTakeBlocking, BlockingReady, parkers, stops, v
<1>11. DataTypes'
  <2>1. status' \in [Units -> {"new", "queued", "running", "again", "idle", "done"}]
    BY <1>10 DEF Inv, DataTypes
  <2>2. activeBlocking' \in Nat /\ blockingQueue' \in Seq(Jobs)
    BY <1>3, <1>10 DEF Inv, DataTypes
  <2>. QED
    BY <1>10, <2>1, <2>2 DEF Inv, DataTypes
<1>12. v \in Units /\ In("queue", NoUnit, v) /\ "queue" \in Places /\ NoUnit \in Holders
  BY <1>3 DEF In, Units, Places, Holders
<1>13. /\ status[v] = "queued"
       /\ \A k \in Places, x \in Holders : In(k, x, v) => k = "queue" /\ x = NoUnit
  BY <1>12, TakenFrom
<1>14. /\ status'[v] = "running"
       /\ \A u \in Units : u # v => status'[u] = status[u]
  BY <1>10, <1>12 DEF Inv, DataTypes
<1>15. LaneInv'
  <2>1. Mark(f) \in LaneMarks /\ Mark(Top(t)) \notin LaneMarks /\ Mark(g) \notin LaneMarks
    BY <1>2, <1>5 DEF Mark, LaneMarks, Unmarked
  <2>2. Me(t) \notin Spots(LaneMarks) /\ Spots(LaneMarks)' = (Spots(LaneMarks) \cup {Me(t)}) \cup {}
    BY <1>8, <2>1, SpotsAdd DEF Inv
  <2>3. Me(t) \notin Lanes /\ Lanes' = Lanes \cup {Me(t)}
    BY <2>2 DEF Lanes
  <2>4. IsFiniteSet(Lanes) /\ activeBlocking = Cardinality(Lanes)
    BY DEF Inv, LaneInv
  <2>5. IsFiniteSet(Lanes \cup {Me(t)}) /\ Cardinality(Lanes \cup {Me(t)}) = Cardinality(Lanes) + 1
    BY <2>3, <2>4, FS_AddElement
  <2>6. activeBlocking' <= MaxBlocking
    BY <1>10, SchedulerAssumption DEF Inv, DataTypes
  <2>. QED
    BY <1>10, <2>3, <2>4, <2>5, <2>6 DEF LaneInv
<1>16. DrainInv'
  <2>1. Mark(f) \in DrainMarks <=> Mark(Top(t)) \in DrainMarks
    <3>1. Top(t).kind = "drain" => Top(t).pc \in DrainPcs
      BY <1>1 DEF FrameOK
    <3>2. f.pc \notin Retired
      BY DEF LanePcs, Retired
    <3>. QED
      BY <1>2, <3>1, <3>2, DriverMarks
  <2>2. Spots(DrainMarks)' = Spots(DrainMarks)
    BY <1>5, <1>8, <2>1, AddKept DEF Inv, Unmarked
  <2>. QED
    BY <1>10, <2>2 DEF Inv, DrainInv, Draining
<1>17. ParkerInv'
  <2>1. permit' \subseteq Spots(ParkMarks) /\ stopParkers' \subseteq Spots(ParkMarks)
    BY <1>10 DEF Inv, ParkerInv
  <2>2. Me(t) \notin parked'
    BY <1>10, MyIdle
  <2>. QED
    BY <1>2, <1>5, <1>8, <1>10, <2>1, <2>2, AddParkers DEF Inv, Parks
<1>18. SlotInv'
  <2>1. ~Shade(f) /\ (Quiet(f) => Quiet(Top(t)))
    BY <1>2 DEF Shade, DriverKinds, Quiet
  <2>. QED
    BY <1>5, <1>8, <1>10, <2>1, AddSlot DEF Inv
<1>19. QueuedInv' /\ OnePlace'
  <2>1. \A u \in Units : ~In("hand", t, u)'
    BY <1>5, <1>8, AddHand
  <2>2. ASSUME NEW u \in Units, NEW k \in Places, NEW x \in Holders, In(k, x, u)'
        PROVE  In(k, x, u) /\ u # v
    <3>1. CASE k = "hand"
      <4>1. x \in Threads \ {t}
        BY <2>1, <2>2, <3>1 DEF In
      <4>2. In(k, x, u)
        BY <1>8, <2>2, <3>1, <4>1, HandOther DEF Inv
      <4>. QED
        BY <1>13, <3>1, <4>2
    <3>2. CASE k = "queue"
      BY <1>3, <1>10, <2>2, <3>2 DEF In
    <3>3. CASE k \in {"injector", "slot"}
      <4>1. In(k, x, u)
        BY <1>10, <2>2, <3>3 DEF In
      <4>. QED
        BY <1>13, <3>3, <4>1
    <3>. QED
      BY <3>1, <3>2, <3>3 DEF Places
  <2>3. IsInjective(injector') /\ IsInjective(blockingQueue')
    BY <1>3, <1>10 DEF Inv, PlaceInv, OnePlace
  <2>. QED
    BY <1>14, <2>2, <2>3, PlacesShrink DEF Inv, PlaceInv
<1>20. RunningInv' /\ OneRunning'
  <2>1. DOMAIN status = Units
    BY DEF Inv, DataTypes
  <2>2. ~Runner(f)
    BY <1>2 DEF Runner, DriverKinds
  <2>. QED
    BY <1>5, <1>8, <1>10, <1>12, <1>13, <2>1, <2>2, RunningCall DEF Inv, PlaceInv
<1>21. Settled /\ SlotsSettled
  <2>1. Settled
    BY <1>10, <1>14 DEF Settled
  <2>. QED
    BY <2>1, DataSettled DEF Inv, PlaceInv
<1>22. WaitInv'
  <2>1. ParentInv'
    <3>. SUFFICES ASSUME NEW u \in Units, parent[u] \in Jobs
                  PROVE  status'[parent[u]] \notin {"new", "queued"}
      BY <1>10 DEF ParentInv
    <3>1. status[parent[u]] \notin {"new", "queued"} /\ parent[u] \in Units
      BY DEF Inv, WaitInv, ParentInv, Units
    <3>. QED
      BY <1>14, <3>1
  <2>2. ASSUME slot[t] # NoUnit PROVE v # parent'[slot[t]]
    <3>1. slot[t] \in Units
      BY <1>2, <2>2 DEF Inv, DataTypes, Units
    <3>. QED
      BY <1>3, <1>10, <1>13, <3>1 DEF Inv, WaitInv, ParentInv
  <2>3. ChildInv'
    BY <1>2, <1>5, <1>8, <1>10, <1>21, <2>2, AddChild DEF Inv, WaitInv
  <2>. QED
    BY <2>1, <2>3 DEF WaitInv
<1>23. StopInv'
  <2>1. StopPc' = StopPc
    BY <1>8, StopPcKept DEF Inv, DriverKinds
  <2>2. ~AllOver
    BY <1>12, <1>13 DEF AllOver
  <2>. QED
    BY <1>10, <2>1, <2>2, StopKept DEF Inv
<1>24. PlaceInv'
  BY <1>19, <1>20 DEF PlaceInv
<1>. QED
  BY <1>9, <1>11, <1>15, <1>16, <1>17, <1>18, <1>22, <1>23, <1>24 DEF Inv

-----------------------------------------------------------------------------
(* Steps that leave lanes, drainers and the stop alone, put together from  *)
(* what they do to the frames and what they do to the units.               *)

Neutral(t) ==
  /\ Below(t) /\ Lanes' = Lanes /\ Draining' = Draining /\ StopPc' = StopPc

LEMMA TurnNeutral ==
  ASSUME Inv, NEW t \in Threads, NEW f, Turns(t, f), SameMarks(f, Top(t)),
         Top(t).kind # "stop"
  PROVE  Neutral(t)
<1>1. Busy(t) /\ Below(t) /\ Stacks
  BY DEF Inv, Turns
<1>2. Lanes' = Lanes /\ Draining' = Draining
  BY <1>1, TurnCounts
<1>3. StopPc' = StopPc
  BY <1>1, StopPcKept
<1>. QED
  BY <1>1, <1>2, <1>3 DEF Neutral

LEMMA AddNeutral ==
  ASSUME Inv, NEW t \in Threads, NEW f, NEW g, Adds(t, f, g), SameMarks(f, Top(t)), Unmarked(g),
         Top(t).kind # "stop"
  PROVE  Neutral(t)
<1>1. Busy(t) /\ Below(t) /\ Stacks
  BY DEF Inv, Adds
<1>2. Lanes' = Lanes /\ Draining' = Draining
  BY <1>1, AddCounts
<1>3. StopPc' = StopPc
  BY <1>1, StopPcKept
<1>. QED
  BY <1>1, <1>2, <1>3 DEF Neutral

LEMMA DropNeutral ==
  ASSUME Inv, NEW t \in Threads, Drops(t), Unmarked(Top(t)), Top(t).kind # "stop"
  PROVE  Neutral(t)
<1>1. Busy(t) /\ Below(t) /\ Stacks
  BY DEF Inv, Drops
<1>2. Lanes' = Lanes /\ Draining' = Draining
  BY <1>1, DropCounts
<1>3. StopPc' = StopPc
  BY <1>1, StopPcKept
<1>. QED
  BY <1>1, <1>2, <1>3 DEF Neutral

LEMMA Assembled ==
  ASSUME Inv, NEW t \in Threads, Neutral(t), UNCHANGED counts, Settled,
         DataTypes', ParkerInv', SlotInv', QueuedInv', OnePlace', RunningInv', OneRunning',
         ParentInv', ChildInv', UNCHANGED <<closed, queueClosed>>,
         queueClosed /\ blockingQueue = <<>> => blockingQueue' = <<>>,
         closed /\ AllOver => AllOver'
  PROVE  Inv'
<1>1. Stacks'
  BY DEF Neutral, Below
<1>2. LaneInv' /\ DrainInv'
  BY CountsKept DEF Inv, Neutral
<1>3. StopInv'
  BY StopKept DEF Inv, Neutral
<1>. QED
  BY <1>1, <1>2, <1>3 DEF Inv, PlaceInv, WaitInv

LEMMA AwaitingParks ==
  ASSUME Stacks, NEW v
  PROVE  Awaiting(v) \subseteq Spots(ParkMarks)
<1>1. ASSUME NEW p \in Awaiting(v) PROVE p \in Spots(ParkMarks)
  <2>1. PICK x \in Threads : \E i \in DOMAIN stack[x] :
           p = <<x, i>> /\ stack[x][i].kind \in {"coop", "block"}
    BY <1>1 DEF Awaiting
  <2>2. PICK i \in DOMAIN stack[x] : p = <<x, i>> /\ stack[x][i].kind \in {"coop", "block"}
    BY <2>1
  <2>3. i \in 1..Len(stack[x]) /\ FrameOK(x, stack[x][i])
    BY <2>2, LenProperties DEF Stacks, StackOK
  <2>4. Mark(stack[x][i]) \in ParkMarks
    BY <2>2, <2>3, ParkMark DEF Parks, ParkingKinds
  <2>. QED
    BY <2>2, <2>3, <2>4, SpotsAre
<1>. QED
  BY <1>1

\* A unit that was submitted ends: nothing else is submitted or forgotten.
LEMMA EndFacts ==
  ASSUME Inv, NEW v \in Units, status[v] # "new", Ends(v), UNCHANGED parent
  PROVE  /\ Settled /\ ParentInv' /\ (AllOver => AllOver')
         /\ status' \in [Units -> {"new", "queued", "running", "again", "idle", "done"}]
         /\ status'[v] = "done" /\ \A u \in Units : u # v => status'[u] = status[u]
         /\ permit' \subseteq Spots(ParkMarks)
<1>1. /\ status' = [status EXCEPT ![v] = "done"]
      /\ status \in [Units -> {"new", "queued", "running", "again", "idle", "done"}]
  BY DEF Ends, Inv, DataTypes
<1>2. /\ status' \in [Units -> {"new", "queued", "running", "again", "idle", "done"}]
      /\ status'[v] = "done" /\ \A u \in Units : u # v => status'[u] = status[u]
  BY <1>1
<1>3. Settled
  BY <1>2 DEF Settled
<1>4. ParentInv'
  <2>. SUFFICES ASSUME NEW u \in Units, parent[u] \in Jobs
                PROVE  status'[parent[u]] \notin {"new", "queued"}
    BY DEF ParentInv
  <2>1. status[parent[u]] \notin {"new", "queued"} /\ parent[u] \in Units
    BY DEF Inv, WaitInv, ParentInv, Units
  <2>. QED
    BY <1>2, <2>1
<1>5. AllOver => AllOver'
  BY <1>2 DEF AllOver
<1>6. permit' \subseteq Spots(ParkMarks)
  BY AwaitingParks DEF Ends, Inv, ParkerInv
<1>. QED
  BY <1>2, <1>3, <1>4, <1>5, <1>6

-----------------------------------------------------------------------------
(* A driver claims a runnable: it runs it, or drops it while stopping.     *)

\* The task v leaves the place it is queued in, the slot of t or the injector.
Loses(t, v) ==
  /\ injector' \in Seq(Tasks) /\ IsInjective(injector')
  /\ UNCHANGED slot \/ slot' = [slot EXCEPT ![t] = NoUnit]
  /\ \A u \in Units, k \in Places, x \in Holders :
       k # "hand" /\ In(k, x, u)' => In(k, x, u) /\ u # v
  /\ status[v] = "queued" /\ \A x \in Threads : ~In("hand", x, v)

Claims(t, v, f) ==
  /\ Busy(t) /\ Top(t).kind \in DriverKinds /\ Top(t).pc \notin Idling
  /\ Remade(Top(t), f) /\ FreshMarks(f, Top(t)) /\ f.pc \in ServedPcs
  /\ v \in Tasks /\ Loses(t, v)
  /\ UNCHANGED <<parent, blockingQueue, counts, parked, stops>>

\* What claiming does to the driver and to the queues, whatever becomes of v.
LEMMA ClaimFacts ==
  ASSUME Inv, NEW t \in Threads, NEW v, NEW f, Claims(t, v, f)
  PROVE  /\ FrameOK(t, f) /\ t \in Workers /\ f.kind = Top(t).kind /\ f.u = Top(t).u
         /\ f.p = NoParker /\ SameMarks(f, Top(t)) /\ ~Quiet(f) /\ ~Shade(f) /\ ~Runner(f)
         /\ f.kind # "wait" /\ f.kind # "stop" /\ ~Holding(f) /\ (Parks(f) <=> Parks(Top(t)))
         /\ Me(t) \notin parked /\ v \in Units
         /\ slot' \in [Workers -> Tasks \cup {NoUnit}]
         /\ \A x \in Workers \ {t} : slot'[x] = slot[x]
         /\ slot' = slot \/ slot'[t] = NoUnit
<1>1. FrameOK(t, Top(t))
  BY TopFacts DEF Inv, Claims
<1>2. FrameOK(t, f) /\ t \in Workers /\ f.kind = Top(t).kind /\ f.u = Top(t).u /\ f.p = NoParker
  BY <1>1, DriverFrame DEF Claims, FreshMarks, Remade
<1>3. SameMarks(f, Top(t)) /\ ~Quiet(f)
  <2>1. Top(t).kind = "drain" => Top(t).pc \in DrainPcs
    BY <1>1 DEF FrameOK
  <2>2. f.pc \notin QuietPcs
    BY DEF Claims, ServedPcs, QuietPcs, Retired, Leaving
  <2>. QED
    BY <1>2, <2>1, <2>2, DriverMarks DEF SameMarks, FreshMarks, Claims
<1>4. /\ ~Shade(f) /\ ~Runner(f) /\ f.kind # "wait" /\ f.kind # "stop" /\ f.kind # "wake"
      /\ (Parks(f) <=> Parks(Top(t)))
  BY <1>2 DEF Claims, DriverKinds, Shade, Runner, Parks
<1>5. ~Holding(f) /\ Me(t) \notin parked
  BY <1>2, <1>4, OnlyWakesHold, MyIdle DEF Claims
<1>6. /\ slot' \in [Workers -> Tasks \cup {NoUnit}]
      /\ \A x \in Workers \ {t} : slot'[x] = slot[x]
      /\ slot' = slot \/ slot'[t] = NoUnit
  BY <1>2 DEF Claims, Loses, Inv, DataTypes
<1>7. v \in Units
  BY DEF Claims, Units
<1>. QED
  BY <1>2, <1>3, <1>4, <1>5, <1>6, <1>7

LEMMA ClaimPlaces ==
  ASSUME Inv, NEW t \in Threads, NEW v, NEW f, Claims(t, v, f), Below(t),
         \A u \in Units : ~In("hand", t, u)',
         \A u \in Units : u # v => status'[u] = status[u]
  PROVE  QueuedInv' /\ OnePlace'
<1>1. ASSUME NEW u \in Units, NEW k \in Places, NEW x \in Holders, In(k, x, u)'
      PROVE  In(k, x, u) /\ status'[u] = status[u]
  <2>1. CASE k = "hand"
    <3>1. x \in Threads \ {t}
      BY <1>1, <2>1 DEF In
    <3>2. In(k, x, u)
      BY <1>1, <2>1, <3>1, HandOther DEF Inv
    <3>. QED
      BY <2>1, <3>1, <3>2 DEF Claims, Loses
  <2>2. CASE k # "hand"
    BY <1>1, <2>2 DEF Claims, Loses
  <2>. QED
    BY <2>1, <2>2
<1>2. IsInjective(injector') /\ IsInjective(blockingQueue')
  BY DEF Claims, Loses, Inv, PlaceInv, OnePlace
<1>. QED
  BY <1>1, <1>2, PlacesShrink DEF Inv, PlaceInv

LEMMA ClaimDrops ==
  ASSUME Inv, NEW t \in Threads, NEW v, NEW f, Claims(t, v, f), Ends(v), Rewrites(t, f)
  PROVE  Inv'
<1>1. /\ FrameOK(t, f) /\ t \in Workers /\ f.kind = Top(t).kind /\ f.u = Top(t).u
      /\ f.p = NoParker /\ SameMarks(f, Top(t)) /\ ~Quiet(f) /\ ~Shade(f) /\ ~Runner(f)
      /\ f.kind # "wait" /\ f.kind # "stop" /\ ~Holding(f) /\ (Parks(f) <=> Parks(Top(t)))
      /\ Me(t) \notin parked /\ v \in Units
      /\ slot' \in [Workers -> Tasks \cup {NoUnit}]
      /\ \A x \in Workers \ {t} : slot'[x] = slot[x]
      /\ slot' = slot \/ slot'[t] = NoUnit
  BY ClaimFacts
<1>2. /\ UNCHANGED <<parent, blockingQueue, counts, parked, stops>> /\ status[v] = "queued"
      /\ Busy(t)
  BY DEF Claims, Loses
<1>3. /\ Settled /\ ParentInv' /\ (AllOver => AllOver')
      /\ status' \in [Units -> {"new", "queued", "running", "again", "idle", "done"}]
      /\ status'[v] = "done" /\ \A u \in Units : u # v => status'[u] = status[u]
      /\ permit' \subseteq Spots(ParkMarks)
  BY <1>1, <1>2, EndFacts
<1>4. Turns(t, f) /\ Below(t)
  BY <1>1, <1>2, RewriteForm DEF Inv, Turns
<1>5. Neutral(t)
  BY <1>1, <1>4, TurnNeutral
<1>6. DataTypes'
  BY <1>1, <1>2, <1>3 DEF Inv, DataTypes, Claims, Loses, counts, stops
<1>7. ParkerInv'
  <2>1. stopParkers' \subseteq Spots(ParkMarks) /\ parked' = parked
    BY <1>2 DEF Inv, ParkerInv, stops
  <2>. QED
    BY <1>1, <1>3, <1>4, <2>1, TurnParkers DEF Inv
<1>8. SlotsSettled
  BY <1>3, DataSettled DEF Inv, PlaceInv
<1>9. SlotInv' /\ ChildInv'
  <2>1. CASE slot' = slot
    BY <1>1, <1>3, <1>4, <1>8, <2>1, TurnSlot, TurnChild DEF Inv, WaitInv
  <2>2. CASE slot'[t] = NoUnit
    BY <1>1, <1>4, <1>8, <2>2, EmptySlot, EmptyChild DEF Inv, WaitInv
  <2>. QED
    BY <1>1, <2>1, <2>2
<1>10. QueuedInv' /\ OnePlace'
  <2>1. \A u \in Units : ~In("hand", t, u)'
    BY <1>1, <1>4, TurnHand
  <2>. QED
    BY <1>3, <1>4, <2>1, ClaimPlaces
<1>11. RunningInv' /\ OneRunning'
  BY <1>1, <1>2, <1>3, <1>4, TurnRunning DEF Inv, PlaceInv
<1>. QED
  BY <1>2, <1>3, <1>5, <1>6, <1>7, <1>9, <1>10, <1>11, Assembled DEF stops

LEMMA ClaimRuns ==
  ASSUME Inv, NEW t \in Threads, NEW v, NEW f, Claims(t, v, f), UNCHANGED permit,
         status' = [status EXCEPT ![v] = "running"],
         NEW g, g = Frame("task", "user", v), Calls2(t, f, g)
  PROVE  Inv'
<1>1. /\ FrameOK(t, f) /\ t \in Workers /\ f.kind = Top(t).kind /\ f.u = Top(t).u
      /\ f.p = NoParker /\ SameMarks(f, Top(t)) /\ ~Quiet(f) /\ ~Shade(f) /\ ~Runner(f)
      /\ f.kind # "wait" /\ f.kind # "stop" /\ ~Holding(f) /\ (Parks(f) <=> Parks(Top(t)))
      /\ Me(t) \notin parked /\ v \in Units
      /\ slot' \in [Workers -> Tasks \cup {NoUnit}]
      /\ \A x \in Workers \ {t} : slot'[x] = slot[x]
      /\ slot' = slot \/ slot'[t] = NoUnit
  BY ClaimFacts
<1>2. /\ UNCHANGED <<parent, blockingQueue, counts, parked, stops>> /\ status[v] = "queued"
      /\ Busy(t) /\ Top(t).kind \in DriverKinds /\ v \in Tasks
  BY DEF Claims, Loses
<1>3. /\ FrameOK(t, g) /\ g.kind = "task" /\ g.u = v /\ g.pc = "user" /\ g.p = NoParker
      /\ Unmarked(g) /\ ~Quiet(g) /\ ~Waits(g) /\ ~Holding(g) /\ Runner(g)
  BY <1>1, <1>2, TaskFrameOK
<1>4. Nests(f, g)
  BY <1>1, <1>2, <1>3 DEF Nests, Bases, Claims
<1>5. Adds(t, f, g) /\ Below(t)
  BY <1>1, <1>2, <1>3, <1>4, CallForm DEF Inv, Adds
<1>6. Neutral(t)
  BY <1>1, <1>3, <1>5, AddNeutral
<1>7. /\ DOMAIN status = Units
      /\ status' \in [Units -> {"new", "queued", "running", "again", "idle", "done"}]
      /\ status'[v] = "running" /\ \A u \in Units : u # v => status'[u] = status[u]
  BY <1>1 DEF Inv, DataTypes
<1>8. DataTypes'
  BY <1>1, <1>2, <1>7 DEF Inv, DataTypes, Claims, Loses, counts, stops
<1>9. ParkerInv'
  <2>1. /\ stopParkers' \subseteq Spots(ParkMarks) /\ permit' \subseteq Spots(ParkMarks)
        /\ parked' = parked
    BY <1>2 DEF Inv, ParkerInv, stops
  <2>. QED
    BY <1>1, <1>3, <1>5, <2>1, AddParkers DEF Inv
<1>10. Settled /\ SlotsSettled
  <2>1. Settled
    BY <1>2, <1>7 DEF Settled
  <2>. QED
    BY <2>1, DataSettled DEF Inv, PlaceInv
<1>11. SlotInv' /\ ChildInv'
  <2>1. CASE slot' = slot
    BY <1>1, <1>3, <1>5, <1>10, <2>1, AddSlot, AddChild DEF Inv, WaitInv
  <2>2. CASE slot'[t] = NoUnit
    BY <1>1, <1>5, <1>10, <2>2, EmptySlot, EmptyChild DEF Inv, WaitInv
  <2>. QED
    BY <1>1, <2>1, <2>2
<1>12. QueuedInv' /\ OnePlace'
  <2>1. \A u \in Units : ~In("hand", t, u)'
    BY <1>3, <1>5, AddHand
  <2>. QED
    BY <1>5, <1>7, <2>1, ClaimPlaces
<1>13. RunningInv' /\ OneRunning'
  BY <1>1, <1>2, <1>3, <1>5, <1>7, RunningCall DEF Inv, PlaceInv
<1>14. ParentInv'
  <2>. SUFFICES ASSUME NEW u \in Units, parent[u] \in Jobs
                PROVE  status'[parent[u]] \notin {"new", "queued"}
    BY <1>2 DEF ParentInv
  <2>1. status[parent[u]] \notin {"new", "queued"} /\ parent[u] \in Units
    BY DEF Inv, WaitInv, ParentInv, Units
  <2>. QED
    BY <1>7, <2>1
<1>15. ~AllOver
  BY <1>1, <1>2 DEF AllOver
<1>. QED
  BY <1>2, <1>6, <1>8, <1>9, <1>10, <1>11, <1>12, <1>13, <1>14, <1>15, Assembled DEF stops

LEMMA LosesSlot ==
  ASSUME Inv, NEW t \in Workers, slot[t] # NoUnit, slot' = [slot EXCEPT ![t] = NoUnit],
         UNCHANGED <<injector, blockingQueue>>
  PROVE  slot[t] \in Tasks /\ Loses(t, slot[t])
<1>1. slot[t] \in Tasks /\ slot \in [Workers -> Tasks \cup {NoUnit}]
  BY DEF Inv, DataTypes
<1>2. slot[t] \in Units /\ In("slot", t, slot[t]) /\ t \in Holders /\ "slot" \in Places
  BY <1>1 DEF Units, In, Holders, Threads, Places
<1>3. /\ status[slot[t]] = "queued"
      /\ \A k \in Places, x \in Holders : In(k, x, slot[t]) => k = "slot" /\ x = t
  BY <1>2, TakenFrom
<1>4. ASSUME NEW u \in Units, NEW k \in Places, NEW x \in Holders, k # "hand", In(k, x, u)'
      PROVE  In(k, x, u) /\ u # slot[t]
  <2>1. CASE k = "slot"
    <3>1. x \in Workers /\ slot'[x] = u /\ u # NoUnit
      BY <1>4, <2>1, SchedulerAssumption DEF In, Units
    <3>2. x # t /\ slot[x] = u
      BY <1>1, <3>1
    <3>. QED
      BY <1>3, <2>1, <3>1, <3>2 DEF In
  <2>2. CASE k \in {"injector", "queue"}
    <3>1. In(k, x, u)
      BY <1>4, <2>2 DEF In
    <3>. QED
      BY <1>3, <2>2, <3>1
  <2>. QED
    BY <1>4, <2>1, <2>2 DEF Places
<1>5. ASSUME NEW x \in Threads PROVE ~In("hand", x, slot[t])
  BY <1>3 DEF Places, Holders
<1>. QED
  BY <1>1, <1>3, <1>4, <1>5 DEF Loses, Inv, DataTypes, PlaceInv, OnePlace

LEMMA LosesHead ==
  ASSUME Inv, NEW t \in Workers, injector # <<>>, injector' = Tail(injector),
         UNCHANGED <<slot, blockingQueue>>
  PROVE  Head(injector) \in Tasks /\ Loses(t, Head(injector))
<1>. DEFINE v == Head(injector)
<1>1. /\ v \in Tasks /\ v \in Range(injector) /\ Tail(injector) \in Seq(Tasks)
      /\ Range(Tail(injector)) \subseteq Range(injector)
      /\ IsInjective(Tail(injector)) /\ v \notin Range(Tail(injector))
  BY QueuePop DEF Inv, DataTypes, PlaceInv, OnePlace
<1>. HIDE DEF v
<1>2. v \in Units /\ In("injector", NoUnit, v) /\ NoUnit \in Holders /\ "injector" \in Places
  BY <1>1 DEF Units, In, Holders, Places
<1>3. /\ status[v] = "queued"
      /\ \A k \in Places, x \in Holders : In(k, x, v) => k = "injector" /\ x = NoUnit
  BY <1>2, TakenFrom
<1>4. ASSUME NEW u \in Units, NEW k \in Places, NEW x \in Holders, k # "hand", In(k, x, u)'
      PROVE  In(k, x, u) /\ u # v
  <2>1. CASE k = "injector"
    BY <1>1, <1>4, <2>1 DEF In
  <2>2. CASE k \in {"slot", "queue"}
    <3>1. In(k, x, u)
      BY <1>4, <2>2 DEF In
    <3>. QED
      BY <1>3, <2>2, <3>1
  <2>. QED
    BY <1>4, <2>1, <2>2 DEF Places
<1>5. ASSUME NEW x \in Threads PROVE ~In("hand", x, v)
  BY <1>3 DEF Places, Holders
<1>. QED
  BY <1>1, <1>3, <1>4, <1>5 DEF Loses, v

\* Running what was claimed, or dropping it.
LEMMA ClaimKept ==
  ASSUME Inv, NEW t \in Threads, NEW v, NEW f, Claims(t, v, f), RunClaimed(t, v, f)
  PROVE  Inv'
<1>1. CASE stopping /\ Ends(v) /\ Put(t, WithTop(t, f))
  BY <1>1, ClaimDrops DEF Rewrites
<1>2. CASE /\ status' = [status EXCEPT ![v] = "running"]
           /\ Put(t, Append(WithTop(t, f), Frame("task", "user", v)))
           /\ UNCHANGED permit
  <2>1. PICK g : g = Frame("task", "user", v)
    OBVIOUS
  <2>. QED
    BY <1>2, <2>1, ClaimRuns DEF Calls2
<1>. QED
  BY <1>1, <1>2 DEF RunClaimed

\* A driver that served something loops, or its budget is used up.
LEMMA ServedFrame ==
  ASSUME NEW g \in FrameTypes, g.kind \in DriverKinds, NEW f,
         f = Served(g) \/ f = ServedRunnable(g)
  PROVE  /\ Remade(g, f) /\ f.pc \in ServedPcs
         /\ f.kind = "drain" => f.pc \in {"fair", "exit"}
         /\ f.kind = "coop" => f.pc \in {"top", "yield"}
<1>1. {"fair", "exit", "top", "yield"} \subseteq Pcs
  BY DEF Pcs, DrainPcs, CoopPcs
<1>2. ASSUME NEW h \in FrameTypes, h.kind = g.kind, h.u = g.u, h.p = g.p
      PROVE  LET e == Served(h) IN
             /\ Remade(g, e) /\ e.pc \in ServedPcs
             /\ e.kind = "drain" => e.pc \in {"fair", "exit"}
             /\ e.kind = "coop" => e.pc \in {"top", "yield"}
  <2>1. PICK pc : pc = IF h.work + 1 < Budget THEN (IF h.kind = "drain" THEN "fair" ELSE "top")
                       ELSE IF h.kind = "drain" THEN "exit" ELSE "yield"
    OBVIOUS
  <2>2. /\ pc \in Pcs /\ pc \in ServedPcs
        /\ h.kind = "drain" => pc \in {"fair", "exit"}
        /\ h.kind = "coop" => pc \in {"top", "yield"}
    BY <1>1, <1>2, <2>1 DEF ServedPcs, DriverKinds
  <2>3. PICK e : e = [h EXCEPT !.work = @ + 1, !.pc = pc]
    OBVIOUS
  <2>4. Served(h) = e
    BY <2>1, <2>3 DEF Served
  <2>5. e \in FrameTypes /\ e.kind = h.kind /\ e.u = h.u /\ e.p = h.p /\ e.pc = pc
    <3>1. PICK n \in Nat : n = h.work + 1
      BY DEF FrameTypes
    <3>2. e = [h EXCEPT !.work = n, !.pc = pc]
      BY <2>3, <3>1
    <3>. QED
      BY <2>2, <3>2 DEF FrameTypes
  <2>. QED
    BY <1>2, <2>2, <2>4, <2>5 DEF Remade
<1>3. CASE f = Served(g)
  BY <1>2, <1>3
<1>4. CASE f = ServedRunnable(g)
  <2>1. PICK h : h = [g EXCEPT !.streak = @ + 1]
    OBVIOUS
  <2>2. h \in FrameTypes /\ h.kind = g.kind /\ h.u = g.u /\ h.p = g.p
    BY <2>1 DEF FrameTypes
  <2>. QED
    BY <1>2, <1>4, <2>1, <2>2 DEF ServedRunnable
<1>. QED
  BY <1>3, <1>4

LEMMA ServedMarks ==
  ASSUME Inv, NEW t \in Threads, NEW from \in {"claim", "fair", "force"}, Driving(t, from),
         NEW f, Remade(Top(t), f), f.pc \in ServedPcs,
         f.kind = "drain" => f.pc \in {"fair", "exit"},
         f.kind = "coop" => f.pc \in {"top", "yield"}
  PROVE  /\ Busy(t) /\ Top(t).kind \in DriverKinds /\ Top(t).pc \notin Idling
         /\ FreshMarks(f, Top(t)) /\ t \in Workers
<1>1. Busy(t) /\ Top(t).kind \in DriverKinds /\ Top(t).pc = from /\ t \in Workers
  BY DrivingTop
<1>. QED
  BY <1>1 DEF FreshMarks, DrainPcs, CoopPcs, LanePcs, Retired, Idling, ServedPcs

LEMMA ClaimStep ==
  ASSUME Inv, NEW t \in Threads, Claim(t)
  PROVE  Inv'
<1>1. PICK from \in {"claim", "fair", "force"} : Driving(t, from) /\ from \in {"claim", "fair"}
  BY DEF Claim
<1>2. Top(t) \in FrameTypes /\ Top(t).kind \in DriverKinds
  BY <1>1, DrivingTop
<1>3. PICK f : f = ServedRunnable(Top(t))
  OBVIOUS
<1>4. /\ Remade(Top(t), f) /\ f.pc \in ServedPcs
      /\ f.kind = "drain" => f.pc \in {"fair", "exit"}
      /\ f.kind = "coop" => f.pc \in {"top", "yield"}
  BY <1>2, <1>3, ServedFrame
<1>5. /\ Busy(t) /\ Top(t).kind \in DriverKinds /\ Top(t).pc \notin Idling
      /\ FreshMarks(f, Top(t)) /\ t \in Workers
  BY <1>1, <1>4, ServedMarks
<1>6. UNCHANGED <<parent, blockingQueue, counts, parked, stops>>
  BY DEF Claim
<1>7. CASE /\ slot[t] # NoUnit /\ slot' = [slot EXCEPT ![t] = NoUnit]
           /\ RunClaimed(t, slot[t], f) /\ UNCHANGED injector
  <2>1. slot[t] \in Tasks /\ Loses(t, slot[t])
    BY <1>5, <1>6, <1>7, LosesSlot
  <2>2. Claims(t, slot[t], f)
    BY <1>4, <1>5, <1>6, <2>1 DEF Claims
  <2>. QED
    BY <1>7, <2>2, ClaimKept
<1>8. CASE /\ injector # <<>> /\ injector' = Tail(injector)
           /\ RunClaimed(t, Head(injector), f) /\ UNCHANGED slot
  <2>1. Head(injector) \in Tasks /\ Loses(t, Head(injector))
    BY <1>5, <1>6, <1>8, LosesHead
  <2>2. Claims(t, Head(injector), f)
    BY <1>4, <1>5, <1>6, <2>1 DEF Claims
  <2>. QED
    BY <1>8, <2>2, ClaimKept
<1>9. CASE Go(t, "block") /\ UNCHANGED <<status, permit, injector, slot>>
  <2>1. UNCHANGED <<units, queues, counts, parkers, stops>>
    BY <1>6, <1>9 DEF units, queues, parkers
  <2>2. Step(t, from, "block") /\ ~(from \in Idling)
    BY <1>1 DEF Step, DrainPcs, CoopPcs, LanePcs, Retired, QuietPcs, Leaving, Idling
  <2>. QED
    BY <1>1, <1>9, <2>1, <2>2, GoStep DEF Go
<1>. QED
  BY <1>3, <1>7, <1>8, <1>9 DEF Claim

LEMMA ForceStep ==
  ASSUME Inv, NEW t \in Threads, ForceFifo(t)
  PROVE  Inv'
<1>1. Driving(t, "force")
  BY DEF ForceFifo
<1>2. Top(t) \in FrameTypes /\ Top(t).kind = "coop"
  BY <1>1, DrivingTop DEF DrainPcs, Retired, DriverKinds
<1>3. UNCHANGED <<parent, blockingQueue, slot, counts, parked, stops>>
  BY DEF ForceFifo
<1>4. PICK f : f = [[Top(t) EXCEPT !.force = FALSE] EXCEPT !.streak = @ + 1, !.work = @ + 1, !.pc = "top"]
  OBVIOUS
<1>5. Remade(Top(t), f) /\ f.pc = "top"
  <2>1. PICK h : h = [Top(t) EXCEPT !.force = FALSE]
    OBVIOUS
  <2>2. h \in FrameTypes /\ h.kind = Top(t).kind /\ h.u = Top(t).u /\ h.p = Top(t).p
    BY <1>2, <2>1 DEF FrameTypes
  <2>3. f = [h EXCEPT !.streak = @ + 1, !.work = @ + 1, !.pc = "top"] /\ "top" \in Pcs
    BY <1>4, <2>1 DEF Pcs, CoopPcs
  <2>4. f \in FrameTypes /\ f.kind = h.kind /\ f.u = h.u /\ f.p = h.p /\ f.pc = "top"
    <3>1. PICK m, n \in Nat : m = h.streak + 1 /\ n = h.work + 1
      BY <2>2 DEF FrameTypes
    <3>2. f = [h EXCEPT !.streak = m, !.work = n, !.pc = "top"]
      BY <2>3, <3>1
    <3>. QED
      BY <2>2, <2>3, <3>2 DEF FrameTypes
  <2>. QED
    BY <2>2, <2>4 DEF Remade
<1>6. /\ Busy(t) /\ Top(t).kind \in DriverKinds /\ Top(t).pc \notin Idling
      /\ FreshMarks(f, Top(t)) /\ t \in Workers
  BY <1>1, <1>2, <1>5, ServedMarks DEF ServedPcs, Remade
<1>7. CASE injector # <<>> /\ injector' = Tail(injector) /\ RunClaimed(t, Head(injector), f)
  <2>1. Head(injector) \in Tasks /\ Loses(t, Head(injector))
    BY <1>3, <1>6, <1>7, LosesHead
  <2>2. Claims(t, Head(injector), f)
    BY <1>3, <1>5, <1>6, <2>1 DEF Claims, ServedPcs
  <2>. QED
    BY <1>7, <2>2, ClaimKept
<1>8. PICK h : h = [[Top(t) EXCEPT !.force = FALSE] EXCEPT !.pc = "fair"]
  OBVIOUS
<1>9. CASE Put(t, WithTop(t, h)) /\ UNCHANGED <<status, permit, injector>>
  <2>1. Remade(Top(t), h) /\ h.pc = "fair"
    BY <1>2, <1>8 DEF Remade, FrameTypes, Pcs, CoopPcs
  <2>2. FreshMarks(h, Top(t)) /\ h.pc \notin QuietPcs
    BY <1>1, <1>2, <2>1, DrivingTop
       DEF FreshMarks, Remade, CoopPcs, LanePcs, Retired, QuietPcs, Leaving
  <2>3. UNCHANGED <<units, queues, counts, parkers, stops>>
    BY <1>3, <1>9 DEF units, queues, parkers
  <2>. QED
    BY <1>6, <1>9, <2>1, <2>2, <2>3, DriverStep DEF Rewrites
<1>. QED
  BY <1>4, <1>7, <1>8, <1>9 DEF ForceFifo

-----------------------------------------------------------------------------
(* The other steps of a driver: closures, lanes, retirement, compensation. *)

LEMMA FairStep ==
  ASSUME Inv, NEW t \in Threads, FairBlocking(t)
  PROVE  Inv'
<1>1. Driving(t, "fair")
  BY DEF FairBlocking
<1>2. Busy(t) /\ Top(t) \in FrameTypes /\ Top(t).kind \in DriverKinds /\ Top(t).pc = "fair"
  BY <1>1, DrivingTop
<1>3. PICK f : f = [[Top(t) EXCEPT !.streak = 0] EXCEPT !.pc = "release"]
  OBVIOUS
<1>4. PICK h : h = [[Top(t) EXCEPT !.streak = 0] EXCEPT !.pc = "claim"]
  OBVIOUS
<1>5. {"release", "claim"} \subseteq Pcs
  BY DEF Pcs, DrainPcs
<1>6. Remade(Top(t), f) /\ f.pc = "release" /\ Remade(Top(t), h) /\ h.pc = "claim"
  BY <1>2, <1>3, <1>4, <1>5 DEF Remade, FrameTypes
<1>7. CASE TakeBlocking(t, f)
  BY <1>2, <1>6, <1>7, TakeKept
     DEF LanePcs, DrainPcs, CoopPcs, Retired, Idling, QuietPcs, Leaving
<1>8. CASE Put(t, WithTop(t, h)) /\ UNCHANGED <<units, queues, counts, parkers, stops>>
  <2>1. FreshMarks(h, Top(t)) /\ h.pc \notin QuietPcs /\ Top(t).pc \notin Idling
    BY <1>2, <1>6 DEF FreshMarks, DrainPcs, CoopPcs, LanePcs, Retired, QuietPcs, Leaving, Idling
  <2>. QED
    BY <1>2, <1>6, <1>8, <2>1, DriverStep DEF Rewrites
<1>. QED
  BY <1>3, <1>4, <1>7, <1>8 DEF FairBlocking

LEMMA BlockStepKept ==
  ASSUME Inv, NEW t \in Threads, Block(t)
  PROVE  Inv'
<1>1. Driving(t, "block")
  BY DEF Block
<1>2. Busy(t) /\ Top(t) \in FrameTypes /\ Top(t).kind \in DriverKinds /\ Top(t).pc = "block"
  BY <1>1, DrivingTop
<1>3. PICK f : f = [Top(t) EXCEPT !.streak = 0, !.pc = "release"]
  OBVIOUS
<1>4. Remade(Top(t), f) /\ f.pc = "release"
  BY <1>2, <1>3 DEF Remade, FrameTypes, Pcs, DrainPcs
<1>5. CASE TakeBlocking(t, f)
  BY <1>2, <1>4, <1>5, TakeKept
     DEF LanePcs, DrainPcs, CoopPcs, Retired, Idling, QuietPcs, Leaving
<1>6. CASE ~CanTakeBlocking
  BY <1>1, <1>6, Flushes
<1>7. TakeBlocking(t, f) \/ ~CanTakeBlocking
  BY <1>3 DEF Block
<1>. QED
  BY <1>5, <1>6, <1>7

\* Giving a lane back.
LEMMA ReleaseKept ==
  ASSUME Inv, NEW t \in Threads, Release(t)
  PROVE  Inv'
<1>1. PICK from : Driving(t, from) /\ from \in LanePcs
  BY DEF Release, LanePcs
<1>2. /\ Busy(t) /\ Top(t) \in FrameTypes /\ Top(t).kind \in DriverKinds /\ Top(t).pc = from
      /\ t \in Workers
  BY <1>1, DrivingTop
<1>3. PICK f : f = IF At(t, "release") THEN Served(Top(t)) ELSE [Top(t) EXCEPT !.pc = "xresidue"]
  OBVIOUS
<1>4. /\ Remade(Top(t), f) /\ f.pc \notin LanePcs /\ f.pc \notin Retired
      /\ f.kind = "drain" => f.pc \in DrainPcs
      /\ f.kind = "coop" => f.pc \in CoopPcs
      /\ f.pc \in QuietPcs => Top(t).pc \in QuietPcs
  <2>1. CASE from = "release"
    <3>1. f = Served(Top(t))
      BY <1>1, <1>3, <2>1 DEF Driving
    <3>2. /\ Remade(Top(t), f) /\ f.pc \in ServedPcs
          /\ f.kind = "drain" => f.pc \in {"fair", "exit"}
          /\ f.kind = "coop" => f.pc \in {"top", "yield"}
      BY <1>2, <3>1, ServedFrame
    <3>. QED
      BY <3>2 DEF ServedPcs, LanePcs, Retired, DrainPcs, CoopPcs, QuietPcs, Leaving
  <2>2. CASE from = "xrelease"
    <3>1. f = [Top(t) EXCEPT !.pc = "xresidue"]
      BY <1>2, <1>3, <2>2 DEF At
    <3>2. Remade(Top(t), f) /\ f.pc = "xresidue" /\ "xresidue" \in Pcs
      BY <1>2, <3>1 DEF Remade, FrameTypes, Pcs, CoopPcs, Leaving
    <3>3. f.kind = "coop"
      BY <1>1, <1>2, <2>2, <3>2, DrivingTop DEF DrainPcs, Retired, DriverKinds, Remade
    <3>. QED
      BY <1>2, <2>2, <3>2, <3>3 DEF LanePcs, Retired, CoopPcs, QuietPcs, Leaving
  <2>. QED
    BY <1>1, <2>1, <2>2 DEF LanePcs
<1>5. FrameOK(t, Top(t))
  BY <1>2, TopFacts DEF Inv
<1>6. FrameOK(t, f) /\ f.kind = Top(t).kind /\ f.u = Top(t).u /\ f.p = NoParker
  BY <1>2, <1>4, <1>5, DriverFrame DEF Remade
<1>7. /\ Rewrites(t, f) /\ activeBlocking' = activeBlocking - 1
      /\ UNCHANGED <<units, queues, drains, activeDrainers, parkers, stops>>
  BY <1>3 DEF Release, Rewrites
<1>8. Turns(t, f) /\ Below(t)
  BY <1>2, <1>6, <1>7, RewriteForm DEF Inv, Turns
<1>9. Top(t).kind = "drain" => Top(t).pc \in DrainPcs
  BY <1>5 DEF FrameOK
<1>10. LaneInv' /\ activeBlocking' \in Nat
  <2>1. Mark(f) \notin LaneMarks /\ Mark(Top(t)) \in LaneMarks
    BY <1>1, <1>2, <1>4, <1>6 DEF Mark, LaneMarks
  <2>2. Me(t) \in Lanes /\ Lanes' = Lanes \ {Me(t)}
    BY <1>8, <2>1, SpotsTurn DEF Inv, Lanes
  <2>3. IsFiniteSet(Lanes) /\ activeBlocking = Cardinality(Lanes) /\ activeBlocking <= MaxBlocking
    BY DEF Inv, LaneInv
  <2>4. IsFiniteSet(Lanes \ {Me(t)}) /\ Cardinality(Lanes \ {Me(t)}) = Cardinality(Lanes) - 1
    BY <2>2, <2>3, FS_RemoveElement
  <2>5. Cardinality(Lanes \ {Me(t)}) \in Nat
    BY <2>4, FS_CardinalityType
  <2>6. activeBlocking' <= MaxBlocking
    BY <1>7, <2>3, SchedulerAssumption DEF Inv, DataTypes
  <2>. QED
    BY <1>7, <2>2, <2>3, <2>4, <2>5, <2>6 DEF LaneInv
<1>11. DrainInv'
  <2>1. Mark(f) \in DrainMarks <=> Mark(Top(t)) \in DrainMarks
    <3>1. Top(t).pc \notin Retired
      BY <1>1, <1>2 DEF LanePcs, Retired
    <3>. QED
      BY <1>2, <1>4, <1>6, <1>9, <3>1, DriverMarks
  <2>2. Spots(DrainMarks)' = Spots(DrainMarks)
    BY <1>8, <2>1, TurnKept DEF Inv
  <2>. QED
    BY <1>7, <2>2 DEF Inv, DrainInv, Draining
<1>12. Stacks'
  BY <1>8 DEF Below
<1>13. Unmoved /\ UNCHANGED stops /\ parked' = parked /\ permit' = permit /\ UNCHANGED <<drains, activeDrainers>>
  BY <1>7 DEF Unmoved, parkers
<1>14. DataTypes'
  BY <1>10, <1>13 DEF Inv, DataTypes, Unmoved, units, queues, stops
<1>15. ParkerInv'
  <2>1. permit' \subseteq Spots(ParkMarks) /\ stopParkers' \subseteq Spots(ParkMarks)
    BY <1>13 DEF Inv, ParkerInv, stops
  <2>2. Me(t) \notin parked'
    BY <1>1, <1>2, <1>13, MyIdle DEF LanePcs, Idling
  <2>. QED
    BY <1>6, <1>8, <1>13, <2>1, <2>2, TurnParkers DEF Inv, Parks
<1>16. SlotInv'
  <2>1. (Quiet(f) => Quiet(Top(t))) /\ ~Shade(f)
    BY <1>2, <1>4, <1>6 DEF Quiet, Shade, DriverKinds
  <2>. QED
    BY <1>8, <1>13, <2>1, TurnSlot DEF Inv, Unmoved, queues
<1>17. QueuedInv' /\ OnePlace'
  <2>1. ~Holding(f)
    BY <1>2, <1>6, OnlyWakesHold DEF DriverKinds
  <2>2. \A u \in Units : ~In("hand", t, u)'
    BY <1>8, <2>1, TurnHand
  <2>3. UNCHANGED status
    BY <1>13 DEF Unmoved, units
  <2>. QED
    BY <1>8, <1>13, <2>2, <2>3, UnmovedFacts, HandsShrink
<1>18. RunningInv' /\ OneRunning'
  BY <1>6, <1>8, <1>13, UnmovedFacts, TurnRunning DEF Inv, PlaceInv
<1>19. WaitInv'
  <2>1. ChildInv'
    BY <1>6, <1>8, <1>13, UnmovedFacts, TurnChild DEF Inv, WaitInv, Unmoved, queues
  <2>. QED
    BY <1>13, <2>1, UnmovedFacts DEF WaitInv
<1>20. StopInv'
  <2>1. StopPc' = StopPc
    BY <1>2, <1>8, StopPcKept DEF Inv, DriverKinds
  <2>2. Spots(LaneMarks)' \subseteq Spots(LaneMarks)
    <3>1. Mark(f) \notin LaneMarks
      BY <1>4 DEF Mark, LaneMarks
    <3>. QED
      BY <1>8, <3>1, SpotsTurn DEF Inv
  <2>. QED
    BY <1>13, <2>1, <2>2, UnmovedFacts, StopKept DEF Inv, stops, Unmoved, queues, Lanes
<1>21. PlaceInv'
  BY <1>17, <1>18 DEF PlaceInv
<1>. QED
  BY <1>10, <1>11, <1>12, <1>14, <1>15, <1>16, <1>19, <1>20, <1>21 DEF Inv

LEMMA CompensateKept ==
  ASSUME Inv, NEW t \in Threads, Compensate(t)
  PROVE  Inv'
<1>1. PICK from \in {"xrunnable", "xblocking", "xtake", "xresidue"} : Driving(t, from) /\
        \/ \E to \in {"xblocking", "xtake", "out"} :
             /\ UNCHANGED <<units, queues, counts, parkers, stops>>
             /\ \/ Put(t, WithTop(t, [Top(t) EXCEPT !.pc = to]))
                \/ /\ to # "xtake"
                   /\ Put(t, Append(WithTop(t, [Top(t) EXCEPT !.pc = to]), WakeFrame))
        \/ from = "xtake" /\ TakeBlocking(t, [Top(t) EXCEPT !.pc = "xrelease"])
  BY DEF Compensate
<1>2. Busy(t) /\ Top(t) \in FrameTypes /\ Top(t).kind \in DriverKinds /\ Top(t).pc = from
  BY <1>1, DrivingTop
<1>3. Top(t).kind = "coop"
  BY <1>1, <1>2, DrivingTop DEF DrainPcs, Retired, DriverKinds
<1>4. CASE \E to \in {"xblocking", "xtake", "out"} :
             /\ UNCHANGED <<units, queues, counts, parkers, stops>>
             /\ Put(t, WithTop(t, [Top(t) EXCEPT !.pc = to]))
  <2>1. PICK to \in {"xblocking", "xtake", "out"} :
             /\ UNCHANGED <<units, queues, counts, parkers, stops>>
             /\ Put(t, WithTop(t, [Top(t) EXCEPT !.pc = to]))
    BY <1>4
  <2>2. Step(t, from, to) /\ from \notin Idling
    BY <1>1, <1>3 DEF Step, CoopPcs, LanePcs, Retired, QuietPcs, Leaving, Idling
  <2>. QED
    BY <1>1, <2>1, <2>2, GoStep
<1>5. CASE \E to \in {"xblocking", "out"} :
             /\ UNCHANGED <<units, queues, counts, parkers, stops>>
             /\ Put(t, Append(WithTop(t, [Top(t) EXCEPT !.pc = to]), WakeFrame))
  <2>1. PICK to \in {"xblocking", "out"} :
             /\ UNCHANGED <<units, queues, counts, parkers, stops>>
             /\ Put(t, Append(WithTop(t, [Top(t) EXCEPT !.pc = to]), WakeFrame))
    BY <1>5
  <2>2. PICK f : f = [Top(t) EXCEPT !.pc = to]
    OBVIOUS
  <2>3. to \in Pcs
    BY DEF Pcs, CoopPcs, Leaving
  <2>4. Remade(Top(t), f) /\ f.pc = to
    BY <1>2, <2>2, <2>3, GoFrame
  <2>5. /\ FreshMarks(f, Top(t)) /\ f.pc \in WakingPcs /\ Top(t).pc \notin Idling
        /\ Top(t).pc \in QuietPcs
    BY <1>1, <1>2, <1>3, <2>4
       DEF FreshMarks, Remade, CoopPcs, LanePcs, Retired, QuietPcs, Leaving, Idling, WakingPcs
  <2>6. PICK g : g = WakeFrame
    OBVIOUS
  <2>. QED
    BY <1>2, <2>1, <2>2, <2>4, <2>5, <2>6, WakesOn DEF Calls2
<1>6. CASE from = "xtake" /\ TakeBlocking(t, [Top(t) EXCEPT !.pc = "xrelease"])
  <2>1. PICK f : f = [Top(t) EXCEPT !.pc = "xrelease"]
    OBVIOUS
  <2>2. "xrelease" \in Pcs
    BY DEF Pcs, CoopPcs, Leaving
  <2>3. Remade(Top(t), f) /\ f.pc = "xrelease"
    BY <1>2, <2>1, <2>2, GoFrame
  <2>4. f.kind = "coop"
    BY <1>3, <2>3 DEF Remade
  <2>. QED
    BY <1>2, <1>6, <2>1, <2>3, <2>4, TakeKept
       DEF LanePcs, CoopPcs, Retired, Idling, QuietPcs, Leaving
<1>. QED
  BY <1>1, <1>4, <1>5, <1>6

\* A retiring drainer gives its count back before it looks again.
LEMMA RetireKept ==
  ASSUME Inv, NEW t \in Threads, Retire(t)
  PROVE  Inv'
<1>1. /\ Driving(t, "exit") /\ slot[t] = NoUnit /\ activeDrainers' = activeDrainers - 1
      /\ Go(t, "residue?")
      /\ UNCHANGED <<units, queues, drains, activeBlocking, parkers, stops>>
  BY DEF Retire
<1>2. Busy(t) /\ Top(t) \in FrameTypes /\ Top(t).pc = "exit" /\ Top(t).kind = "drain" /\ t \in Workers
  BY <1>1, DrivingTop DEF CoopPcs, Leaving, DriverKinds
<1>3. PICK f : f = [Top(t) EXCEPT !.pc = "residue?"]
  OBVIOUS
<1>4. "residue?" \in Pcs
  BY DEF Pcs, DrainPcs, Retired
<1>5. Remade(Top(t), f) /\ f.pc = "residue?"
  BY <1>2, <1>3, <1>4, GoFrame
<1>6. FrameOK(t, f) /\ f.kind = "drain" /\ f.u = Top(t).u /\ f.p = NoParker
  <2>1. FrameOK(t, Top(t))
    BY <1>2, TopFacts DEF Inv
  <2>2. f.kind = "drain" /\ f.pc \in DrainPcs
    BY <1>2, <1>5 DEF Remade, DrainPcs, Retired
  <2>. QED
    BY <1>2, <1>5, <2>1, <2>2, DriverFrame DEF Remade, DriverKinds
<1>7. Turns(t, f) /\ Below(t)
  BY <1>1, <1>2, <1>3, <1>6, RewriteForm DEF Inv, Turns, Go, Rewrites
<1>8. DrainInv' /\ activeDrainers' \in Nat
  <2>1. Mark(f) \notin DrainMarks /\ Mark(Top(t)) \in DrainMarks
    BY <1>2, <1>5, <1>6 DEF Mark, DrainMarks, DrainPcs, Retired
  <2>2. Me(t) \in Draining /\ Draining' = Draining \ {Me(t)}
    BY <1>7, <2>1, SpotsTurn DEF Inv, Draining
  <2>3. /\ IsFiniteSet(Draining) /\ activeDrainers = drains + Cardinality(Draining)
        /\ activeDrainers <= Cardinality(Workers) /\ drains \in Nat
    BY DEF Inv, DrainInv, DataTypes
  <2>4. IsFiniteSet(Draining \ {Me(t)}) /\ Cardinality(Draining \ {Me(t)}) = Cardinality(Draining) - 1
    BY <2>2, <2>3, FS_RemoveElement
  <2>5. Cardinality(Draining \ {Me(t)}) \in Nat
    BY <2>4, FS_CardinalityType
  <2>6. Cardinality(Workers) \in Nat
    BY SchedulerAssumption, FS_CardinalityType
  <2>7. PICK c \in Nat : c = Cardinality(Draining \ {Me(t)})
    BY <2>5
  <2>8. activeDrainers = drains + (c + 1)
    <3>1. Cardinality(Draining) \in Nat
      BY <2>3, FS_CardinalityType
    <3>. QED
      BY <2>3, <2>4, <2>7, <3>1
  <2>9. activeDrainers' = drains + c /\ drains + c \in Nat /\ drains + c <= Cardinality(Workers)
    BY <1>1, <2>3, <2>6, <2>8
  <2>10. Cardinality(Draining') = c /\ IsFiniteSet(Draining') /\ drains' = drains
    BY <1>1, <2>2, <2>4, <2>7
  <2>. QED
    BY <2>9, <2>10 DEF DrainInv
<1>9. LaneInv'
  <2>1. Mark(f) \notin LaneMarks /\ Mark(Top(t)) \notin LaneMarks
    BY <1>2, <1>5 DEF Mark, LaneMarks, LanePcs
  <2>2. Spots(LaneMarks)' = Spots(LaneMarks)
    BY <1>7, <2>1, TurnKept DEF Inv
  <2>. QED
    BY <1>1, <2>2 DEF Inv, LaneInv, Lanes
<1>10. Stacks'
  BY <1>7 DEF Below
<1>11. /\ Unmoved /\ UNCHANGED stops /\ parked' = parked /\ permit' = permit
       /\ UNCHANGED <<drains, activeBlocking>>
  BY <1>1 DEF Unmoved, parkers
<1>12. DataTypes'
  BY <1>8, <1>11 DEF Inv, DataTypes, Unmoved, units, queues, stops
<1>13. ParkerInv'
  <2>1. permit' \subseteq Spots(ParkMarks) /\ stopParkers' \subseteq Spots(ParkMarks)
    BY <1>11 DEF Inv, ParkerInv, stops
  <2>2. Me(t) \notin parked'
    BY <1>2, <1>11, MyIdle DEF Idling
  <2>. QED
    BY <1>2, <1>6, <1>7, <1>11, <2>1, <2>2, TurnParkers DEF Inv, Parks
<1>14. SlotInv'
  <2>1. ~Shade(f)
    BY <1>6 DEF Shade
  <2>. QED
    BY <1>1, <1>7, <1>11, <2>1, TurnSlot DEF Inv, Unmoved, queues
<1>15. QueuedInv' /\ OnePlace'
  <2>1. ~Holding(f)
    BY <1>6, OnlyWakesHold
  <2>2. \A u \in Units : ~In("hand", t, u)'
    BY <1>7, <2>1, TurnHand
  <2>3. UNCHANGED status
    BY <1>11 DEF Unmoved, units
  <2>. QED
    BY <1>7, <1>11, <2>2, <2>3, UnmovedFacts, HandsShrink
<1>16. RunningInv' /\ OneRunning'
  BY <1>2, <1>6, <1>7, <1>11, UnmovedFacts, TurnRunning DEF Inv, PlaceInv
<1>17. WaitInv'
  <2>1. ChildInv'
    BY <1>2, <1>6, <1>7, <1>11, UnmovedFacts, TurnChild DEF Inv, WaitInv, Unmoved, queues
  <2>. QED
    BY <1>11, <2>1, UnmovedFacts DEF WaitInv
<1>18. StopInv'
  <2>1. StopPc' = StopPc
    BY <1>2, <1>7, StopPcKept DEF Inv
  <2>2. Spots(LaneMarks)' \subseteq Spots(LaneMarks)
    <3>1. Mark(f) \notin LaneMarks
      BY <1>5 DEF Mark, LaneMarks, LanePcs
    <3>. QED
      BY <1>7, <3>1, SpotsTurn DEF Inv
  <2>. QED
    BY <1>11, <2>1, <2>2, UnmovedFacts, StopKept DEF Inv, stops, Unmoved, queues, Lanes
<1>19. PlaceInv'
  BY <1>15, <1>16 DEF PlaceInv
<1>. QED
  BY <1>8, <1>9, <1>10, <1>12, <1>13, <1>14, <1>17, <1>18, <1>19 DEF Inv

\* ensure_drainer counts one more drainer, as long as the pool has a thread for it.
LEMMA EnsureFacts ==
  ASSUME Inv, EnsureDrainer, Draining' = Draining
  PROVE  DrainInv' /\ drains' \in Nat /\ activeDrainers' \in Nat
<1>1. /\ IsFiniteSet(Draining) /\ activeDrainers = drains + Cardinality(Draining)
      /\ activeDrainers <= Cardinality(Workers) /\ drains \in Nat /\ activeDrainers \in Nat
  BY DEF Inv, DrainInv, DataTypes
<1>2. PICK c \in Nat : c = Cardinality(Draining)
  BY <1>1, FS_CardinalityType
<1>3. PICK n \in Nat : n = Cardinality(Workers)
  BY SchedulerAssumption, FS_CardinalityType
<1>4. /\ activeDrainers' = drains' + c /\ activeDrainers' <= n
      /\ drains' \in Nat /\ activeDrainers' \in Nat
  <2>1. CASE activeDrainers >= n
    BY <1>1, <1>2, <1>3, <2>1 DEF EnsureDrainer
  <2>2. CASE activeDrainers < n
    BY <1>1, <1>2, <1>3, <2>2 DEF EnsureDrainer
  <2>. QED
    BY <1>1, <1>3, <2>1, <2>2
<1>5. IsFiniteSet(Draining') /\ Cardinality(Draining') = c
  BY <1>1, <1>2
<1>. QED
  BY <1>3, <1>4, <1>5 DEF DrainInv

\* What remains of a step that leaves the units and the queues as they are.
LEMMA UnmovedKept ==
  ASSUME Inv, NEW t \in Threads, Below(t), Unmoved, UNCHANGED <<activeBlocking, stops>>,
         Lanes' = Lanes, DrainInv', drains' \in Nat, activeDrainers' \in Nat, StopPc' = StopPc,
         ParkerInv', SlotInv', ChildInv', RunningInv', OneRunning',
         \A u \in Units : ~In("hand", t, u)'
  PROVE  Inv'
<1>1. Stacks'
  BY DEF Below
<1>2. DataTypes'
  BY DEF Inv, DataTypes, Unmoved, units, queues, stops
<1>3. LaneInv'
  BY DEF Inv, LaneInv
<1>4. QueuedInv' /\ OnePlace'
  <2>1. UNCHANGED status
    BY DEF Unmoved, units
  <2>. QED
    BY <2>1, UnmovedFacts, HandsShrink
<1>5. WaitInv'
  BY UnmovedFacts DEF WaitInv
<1>6. StopInv'
  BY UnmovedFacts, StopKept DEF Inv, stops, Unmoved, queues
<1>. QED
  BY <1>1, <1>2, <1>3, <1>4, <1>5, <1>6 DEF Inv, PlaceInv

LEMMA RearmKept ==
  ASSUME Inv, NEW t \in Threads, Rearm(t)
  PROVE  Inv'
<1>1. /\ Driving(t, "ensure") /\ EnsureDrainer /\ Go(t, "notify")
      /\ UNCHANGED <<units, queues, activeBlocking, parkers, stops>>
  BY DEF Rearm
<1>2. Busy(t) /\ Top(t) \in FrameTypes /\ Top(t).pc = "ensure" /\ Top(t).kind = "drain"
  BY <1>1, DrivingTop DEF CoopPcs, Leaving, DriverKinds
<1>3. PICK f : f = [Top(t) EXCEPT !.pc = "notify"]
  OBVIOUS
<1>4. "notify" \in Pcs
  BY DEF Pcs, DrainPcs, Retired
<1>5. Remade(Top(t), f) /\ f.pc = "notify"
  BY <1>2, <1>3, <1>4, GoFrame
<1>6. FrameOK(t, f) /\ f.kind = "drain" /\ f.u = Top(t).u /\ f.p = NoParker
  <2>1. FrameOK(t, Top(t))
    BY <1>2, TopFacts DEF Inv
  <2>2. f.kind = "drain" /\ f.pc \in DrainPcs
    BY <1>2, <1>5 DEF Remade, DrainPcs, Retired
  <2>. QED
    BY <1>2, <1>5, <2>1, <2>2, DriverFrame DEF Remade, DriverKinds
<1>7. Turns(t, f) /\ Below(t)
  BY <1>1, <1>2, <1>3, <1>6, RewriteForm DEF Inv, Turns, Go, Rewrites
<1>8. SameMarks(f, Top(t)) /\ Quiet(Top(t))
  BY <1>2, <1>5, <1>6 DEF SameMarks, Mark, LaneMarks, DrainMarks, LanePcs, Retired, Quiet,
     QuietPcs, DriverKinds
<1>9. Lanes' = Lanes /\ Draining' = Draining
  BY <1>7, <1>8, TurnCounts DEF Inv
<1>10. DrainInv' /\ drains' \in Nat /\ activeDrainers' \in Nat
  BY <1>1, <1>9, EnsureFacts
<1>11. Unmoved /\ UNCHANGED stops /\ parked' = parked /\ permit' = permit
  BY <1>1 DEF Unmoved, parkers
<1>12. ParkerInv'
  <2>1. permit' \subseteq Spots(ParkMarks) /\ stopParkers' \subseteq Spots(ParkMarks)
    BY <1>11 DEF Inv, ParkerInv, stops
  <2>2. Me(t) \notin parked'
    BY <1>2, <1>11, MyIdle DEF Idling
  <2>. QED
    BY <1>2, <1>6, <1>7, <1>11, <2>1, <2>2, TurnParkers DEF Inv, Parks
<1>13. SlotInv'
  <2>1. ~Shade(f)
    BY <1>6 DEF Shade
  <2>. QED
    BY <1>7, <1>8, <1>11, <2>1, TurnSlot DEF Inv, Unmoved, queues
<1>14. \A u \in Units : ~In("hand", t, u)'
  BY <1>6, <1>7, TurnHand, OnlyWakesHold
<1>15. RunningInv' /\ OneRunning'
  BY <1>2, <1>6, <1>7, <1>11, UnmovedFacts, TurnRunning DEF Inv, PlaceInv
<1>16. ChildInv'
  BY <1>2, <1>6, <1>7, <1>11, UnmovedFacts, TurnChild DEF Inv, WaitInv, Unmoved, queues
<1>17. StopPc' = StopPc
  BY <1>2, <1>7, StopPcKept DEF Inv
<1>. QED
  BY <1>1, <1>7, <1>9, <1>10, <1>11, <1>12, <1>13, <1>14, <1>15, <1>16, <1>17, UnmovedKept

\* A drain job starts: what was counted as queued is counted as running.
LEMMA StartKept ==
  ASSUME Inv, NEW w \in Workers, StartDrain(w)
  PROVE  Inv'
<1>1. /\ stack[w] = <<>> /\ drains > 0 /\ drains' = drains - 1
      /\ Put(w, <<Frame("drain", "fair", NoUnit)>>)
      /\ UNCHANGED <<units, queues, activeDrainers, activeBlocking, parkers, stops>>
  BY DEF StartDrain
<1>2. PICK f : f = Frame("drain", "fair", NoUnit)
  OBVIOUS
<1>3. /\ f.kind = "drain" /\ f.pc = "fair" /\ f.p = NoParker /\ ~Quiet(f) /\ ~Runner(f) /\ ~Holding(f)
      /\ Mark(f) \notin LaneMarks /\ Mark(f) \in DrainMarks
  BY <1>2 DEF Frame, Quiet, QuietPcs, Retired, Leaving, Runner, Holding, Mark, LaneMarks, LanePcs,
              DrainMarks, DrainPcs
<1>4. /\ Below(w) /\ Len(stack[w]) = 0 /\ Len(stack'[w]) = 1 /\ stack'[w][1] = f /\ w \in Threads
  BY <1>1, <1>2, StartForm DEF Inv, Threads
<1>5. Unmoved /\ UNCHANGED stops /\ parked' = parked /\ permit' = permit
      /\ UNCHANGED <<activeBlocking, activeDrainers>>
  BY <1>1 DEF Unmoved, parkers
<1>6. Lanes' = Lanes
  <2>1. Mark(stack'[w][1]) \notin LaneMarks
    BY <1>3, <1>4
  <2>2. Spots(LaneMarks)' = Spots(LaneMarks)
    BY <1>4, <2>1, SpotsStart DEF Inv
  <2>. QED
    BY <2>2 DEF Lanes
<1>7. DrainInv' /\ drains' \in Nat /\ activeDrainers' \in Nat
  <2>1. Mark(stack'[w][1]) \in DrainMarks
    BY <1>3, <1>4
  <2>2. <<w, 1>> \notin Draining /\ Draining' = Draining \cup {<<w, 1>>}
    BY <1>4, <2>1, SpotsStart DEF Inv, Draining
  <2>3. /\ IsFiniteSet(Draining) /\ activeDrainers = drains + Cardinality(Draining)
        /\ activeDrainers <= Cardinality(Workers) /\ drains \in Nat /\ activeDrainers \in Nat
    BY DEF Inv, DrainInv, DataTypes
  <2>4. PICK c \in Nat : c = Cardinality(Draining)
    BY <2>3, FS_CardinalityType
  <2>5. IsFiniteSet(Draining') /\ Cardinality(Draining') = c + 1
    BY <2>2, <2>3, <2>4, FS_AddElement
  <2>6. activeDrainers' = drains' + (c + 1) /\ drains' \in Nat
    BY <1>1, <2>3, <2>4
  <2>. QED
    BY <1>1, <2>3, <2>5, <2>6 DEF DrainInv
<1>8. ParkerInv'
  <2>1. Spots(ParkMarks) \subseteq Spots(ParkMarks)' /\ Spots(IdleMarks) \subseteq Spots(IdleMarks)'
    BY <1>4, SpotsStart DEF Inv
  <2>2. NamesOK(Spots(ParkMarks))
    BY DEF Inv, ParkerInv, NamesOK
  <2>3. ASSUME NEW x \in Threads, NEW i \in 1..Len(stack'[x])
        PROVE  stack'[x][i].p = NoParker \/ stack'[x][i].p \in Spots(ParkMarks)
    <3>1. CASE x = w
      BY <1>3, <1>4, <2>3, <3>1
    <3>2. CASE x # w
      <4>1. /\ i \in 1..Len(stack[x]) /\ stack'[x][i].p \in {stack[x][i].p, NoParker}
        BY <1>4, <2>3, <3>2 DEF Below
      <4>. QED
        BY <2>2, <4>1 DEF NamesOK
    <3>. QED
      BY <3>1, <3>2
  <2>. QED
    BY <1>5, <2>1, <2>3 DEF Inv, ParkerInv, stops
<1>9. slot[w] = NoUnit /\ slot' = slot
  BY <1>1, <1>5 DEF Inv, SlotInv, Busy, Unmoved, queues
<1>10. SlotInv' /\ ChildInv'
  BY <1>4, <1>5, <1>9, EmptySlot, EmptyChild, UnmovedFacts DEF Inv, WaitInv
<1>11. \A u \in Units : ~In("hand", w, u)'
  <2>1. Top(w)' = f
    BY <1>1, <1>2, <1>4, PutFacts DEF Inv, Top, Last
  <2>. QED
    BY <1>3, <1>4, <2>1, HandIs
<1>12. \A i \in 1..Len(stack'[w]) : stack'[w][i] = f
  BY <1>4
<1>13. RunningInv' /\ OneRunning'
  BY <1>3, <1>4, <1>5, <1>12, UnmovedFacts, RunningKept DEF Inv, PlaceInv
<1>14. StopPc' = StopPc
  BY <1>4, SchedulerAssumption, StopPcKept DEF Inv
<1>. QED
  BY <1>4, <1>5, <1>6, <1>7, <1>8, <1>10, <1>11, <1>13, <1>14, UnmovedKept

-----------------------------------------------------------------------------
(* Wakes, waits and returns: the innermost frame ends.                     *)

Ending == {"task", "job", "wake", "wait"}

LEMMA DropShape ==
  ASSUME Inv, NEW t \in Threads, Busy(t), Top(t).kind \in Ending, Put(t, Front(stack[t]))
  PROVE  /\ Drops(t) /\ Below(t) /\ Neutral(t) /\ Len(stack[t]) > 1
         /\ Nests(stack[t][Len(stack[t]) - 1], Top(t)) /\ ~Parks(Top(t))
         /\ \A u \in Units : ~In("hand", t, u)'
         /\ Lanes' = Lanes /\ Draining' = Draining /\ StopPc' = StopPc
<1>1. Top(t).kind \notin Bases /\ ~Parks(Top(t)) /\ Unmarked(Top(t)) /\ Top(t).kind # "stop"
  BY DEF Ending, Bases, Parks, ParkingKinds, Unmarked, Mark, LaneMarks, DrainMarks, DriverKinds
<1>2. /\ Drops(t) /\ Len(stack[t]) > 1
      /\ Nests(stack[t][Len(stack[t]) - 1], Top(t))
  BY <1>1, PopForm DEF Inv, Pops
<1>3. Neutral(t)
  BY <1>1, <1>2, DropNeutral
<1>4. \A u \in Units : ~In("hand", t, u)'
  BY <1>2, DropHand DEF Inv
<1>. QED
  BY <1>1, <1>2, <1>3, <1>4 DEF Drops, Neutral

\* The units stay as they are.
LEMMA DropUnmoved ==
  ASSUME Inv, NEW t \in Threads, Busy(t), Top(t).kind \in Ending, Put(t, Front(stack[t])),
         Unmoved, UNCHANGED <<activeBlocking, stops>>, parked' \subseteq parked,
         permit' \subseteq Spots(ParkMarks),
         EnsureDrainer \/ UNCHANGED <<drains, activeDrainers>>
  PROVE  Inv'
<1>1. /\ Drops(t) /\ Below(t) /\ Neutral(t) /\ Len(stack[t]) > 1
      /\ Nests(stack[t][Len(stack[t]) - 1], Top(t)) /\ ~Parks(Top(t))
      /\ \A u \in Units : ~In("hand", t, u)'
      /\ Lanes' = Lanes /\ Draining' = Draining /\ StopPc' = StopPc
  BY DropShape
<1>2. DrainInv' /\ drains' \in Nat /\ activeDrainers' \in Nat
  <2>1. CASE EnsureDrainer
    BY <1>1, <2>1, EnsureFacts
  <2>2. CASE UNCHANGED <<drains, activeDrainers>>
    BY <1>1, <2>2 DEF Inv, DrainInv, DataTypes
  <2>. QED
    BY <2>1, <2>2
<1>3. ParkerInv'
  BY <1>1, DropParkers DEF Inv, ParkerInv, stops
<1>4. SlotInv' /\ ChildInv'
  BY <1>1, UnmovedFacts, DropSlot, DropChild DEF Inv, WaitInv, Unmoved, queues, Ending
<1>5. RunningInv' /\ OneRunning'
  BY <1>1, UnmovedFacts, DropRunning DEF Inv, PlaceInv
<1>. QED
  BY <1>1, <1>2, <1>3, <1>4, <1>5, UnmovedKept

\* One unit, which the frame ran or held, ends or becomes idle.
LEMMA DropChanges ==
  ASSUME Inv, NEW t \in Threads, Busy(t), Top(t).kind \in Ending, Put(t, Front(stack[t])),
         NEW v \in Units, Settled, ParentInv', AllOver => AllOver',
         status' \in [Units -> {"new", "queued", "running", "again", "idle", "done"}],
         \A u \in Units : u # v => status'[u] = status[u],
         permit' \subseteq Spots(ParkMarks),
         UNCHANGED <<parent, queues, counts, parked, stops>>,
         \/ Runner(Top(t)) /\ v = Top(t).u
         \/ In("hand", t, v)
  PROVE  Inv'
<1>1. /\ Drops(t) /\ Below(t) /\ Neutral(t) /\ Len(stack[t]) > 1
      /\ Nests(stack[t][Len(stack[t]) - 1], Top(t)) /\ ~Parks(Top(t))
      /\ \A u \in Units : ~In("hand", t, u)'
  BY DropShape
<1>2. DataTypes'
  BY DEF Inv, DataTypes, queues, counts, stops
<1>3. ParkerInv'
  BY <1>1, DropParkers DEF Inv, ParkerInv, stops
<1>4. SlotsSettled
  BY DataSettled DEF Inv, PlaceInv
<1>5. SlotInv' /\ ChildInv'
  BY <1>1, <1>4, DropSlot, DropChild DEF Inv, WaitInv, queues, Ending
<1>6. ASSUME NEW k \in Places, NEW x \in Holders, In(k, x, v) PROVE k = "hand" /\ x = t
  <2>1. status[v] = "queued"
    BY <1>6 DEF Inv, PlaceInv, QueuedInv
  <2>2. CASE Runner(Top(t)) /\ v = Top(t).u
    <3>1. Top(t) = stack[t][Len(stack[t])] /\ Len(stack[t]) \in 1..Len(stack[t])
      BY TopFacts DEF Inv
    <3>. QED
      BY <2>1, <2>2, <3>1 DEF Inv, PlaceInv, RunningInv, Runner
  <2>3. CASE In("hand", t, v)
    BY <1>6, <2>3 DEF Inv, PlaceInv, OnePlace, Places, Holders
  <2>. QED
    BY <2>2, <2>3
<1>7. QueuedInv' /\ OnePlace'
  <2>1. ASSUME NEW u \in Units, NEW k \in Places, NEW x \in Holders, In(k, x, u)'
        PROVE  In(k, x, u) /\ status'[u] = status[u]
    <3>1. CASE k = "hand"
      <4>1. x \in Threads \ {t}
        BY <1>1, <2>1, <3>1 DEF In
      <4>2. In(k, x, u)
        BY <1>1, <2>1, <3>1, <4>1, HandOther DEF Inv
      <4>. QED
        BY <1>6, <4>1, <4>2
    <3>2. CASE k # "hand"
      <4>1. In(k, x, u)
        BY <2>1, <3>2 DEF In, queues
      <4>. QED
        BY <1>6, <3>2, <4>1
    <3>. QED
      BY <3>1, <3>2
  <2>2. IsInjective(injector') /\ IsInjective(blockingQueue')
    BY DEF Inv, PlaceInv, OnePlace, queues
  <2>. QED
    BY <2>1, <2>2, PlacesShrink DEF Inv, PlaceInv
<1>8. RunningInv' /\ OneRunning'
  <2>1. CASE Runner(Top(t)) /\ v = Top(t).u
    BY <1>1, <2>1, RunningReturn DEF Inv, PlaceInv
  <2>2. CASE In("hand", t, v)
    <3>1. status[v] = "queued"
      BY <2>2 DEF Inv, PlaceInv, QueuedInv, Places, Holders
    <3>. QED
      BY <1>1, <3>1, DropRunning DEF Inv, PlaceInv
  <2>. QED
    BY <2>1, <2>2
<1>. QED
  BY <1>1, <1>2, <1>3, <1>5, <1>7, <1>8, Assembled DEF queues, stops

LEMMA TaskTop ==
  ASSUME Inv, NEW t \in Threads, Busy(t), Runner(Top(t))
  PROVE  /\ Top(t).kind \in Ending /\ Top(t).u \in Units /\ t \in Workers
         /\ Top(t).kind = "task" => Top(t).u \in Tasks /\ status[Top(t).u] \in {"running", "again"}
         /\ Top(t).kind = "job" => Top(t).u \in Jobs /\ status[Top(t).u] = "running"
<1>1. /\ Top(t) = stack[t][Len(stack[t])] /\ Len(stack[t]) \in 1..Len(stack[t])
      /\ FrameOK(t, Top(t))
  BY TopFacts DEF Inv
<1>2. /\ Top(t).kind = "task" => status[Top(t).u] \in {"running", "again"}
      /\ Top(t).kind = "job" => status[Top(t).u] = "running"
  BY <1>1 DEF Inv, PlaceInv, RunningInv
<1>3. /\ Top(t).kind = "task" => Top(t).u \in Tasks /\ t \in Workers
      /\ Top(t).kind = "job" => Top(t).u \in Jobs /\ t \in Workers
  BY <1>1 DEF FrameOK
<1>. QED
  BY <1>2, <1>3 DEF Ending, Runner, Units

LEMMA ReturnKept ==
  ASSUME Inv, NEW t \in Threads, TaskReady(t) \/ JobReturns(t)
  PROVE  Inv'
<1>1. /\ Busy(t) /\ Runner(Top(t)) /\ Ends(Top(t).u) /\ Put(t, Front(stack[t]))
      /\ UNCHANGED <<parent, queues, counts, parked, stops>>
  BY DEF TaskReady, JobReturns, User, At, Runner
<1>2. /\ Top(t).kind \in Ending /\ Top(t).u \in Units /\ status[Top(t).u] # "new"
  BY <1>1, TaskTop DEF Runner
<1>3. PICK v \in Units : v = Top(t).u
  BY <1>2
<1>4. /\ Settled /\ ParentInv' /\ (AllOver => AllOver')
      /\ status' \in [Units -> {"new", "queued", "running", "again", "idle", "done"}]
      /\ status'[v] = "done" /\ \A u \in Units : u # v => status'[u] = status[u]
      /\ permit' \subseteq Spots(ParkMarks)
  BY <1>1, <1>2, <1>3, EndFacts
<1>. QED
  BY <1>1, <1>2, <1>3, <1>4, DropChanges

\* A poll that answers Pending without a wake leaves the task idle.
LEMMA IdleKept ==
  ASSUME Inv, NEW t \in Threads, User(t), Top(t).kind = "task", status[Top(t).u] = "running",
         status' = [status EXCEPT ![Top(t).u] = "idle"], Put(t, Front(stack[t])),
         UNCHANGED <<parent, queues, counts, parkers, stops>>
  PROVE  Inv'
<1>1. Busy(t) /\ Runner(Top(t)) /\ Top(t).kind \in Ending /\ Top(t).u \in Tasks
  BY TaskTop DEF User, At, Runner
<1>2. PICK v \in Units : v = Top(t).u /\ v \in Tasks
  BY <1>1 DEF Units
<1>3. /\ status' \in [Units -> {"new", "queued", "running", "again", "idle", "done"}]
      /\ status'[v] = "idle" /\ \A u \in Units : u # v => status'[u] = status[u]
  BY <1>2 DEF Inv, DataTypes
<1>4. Settled /\ ~AllOver
  BY <1>2, <1>3 DEF Settled, AllOver
<1>5. ParentInv'
  <2>. SUFFICES ASSUME NEW u \in Units, parent[u] \in Jobs
                PROVE  status'[parent[u]] \notin {"new", "queued"}
    BY DEF ParentInv
  <2>1. status[parent[u]] \notin {"new", "queued"} /\ parent[u] \in Units
    BY DEF Inv, WaitInv, ParentInv, Units
  <2>. QED
    BY <1>3, <2>1
<1>6. permit' \subseteq Spots(ParkMarks) /\ parked' = parked
  BY DEF parkers, Inv, ParkerInv
<1>. QED
  BY <1>1, <1>2, <1>3, <1>4, <1>5, <1>6, DropChanges

LEMMA WakeTop ==
  ASSUME Inv, NEW t \in Threads, Busy(t),
         Top(t).pc \in {"push", "wake", "enqueue"} \/ Top(t).kind = "wake"
  PROVE  /\ Top(t).kind = "wake" /\ Top(t).kind \in Ending /\ Top(t) \in FrameTypes
         /\ Top(t).pc = "push" => Top(t).u \in Tasks
         /\ Top(t).pc = "enqueue" => Top(t).u \in Jobs
         /\ Top(t).p = NoParker \/ Top(t).p \in Spots(ParkMarks)
<1>1. /\ Top(t) = stack[t][Len(stack[t])] /\ Len(stack[t]) \in 1..Len(stack[t])
      /\ FrameOK(t, Top(t))
  BY TopFacts DEF Inv
<1>2. Top(t).kind = "wake"
  BY <1>1 DEF FrameOK, FrameTypes, Kinds, DrainPcs, CoopPcs, StopPcs, Retired, Leaving
<1>3. Top(t).p = NoParker \/ Top(t).p \in Spots(ParkMarks)
  BY <1>1 DEF Inv, ParkerInv
<1>. QED
  BY <1>1, <1>2, <1>3 DEF Ending, FrameOK

\* A wake goes on from the queue it pushed to, or to the parker it took.
LEMMA WakeTurns ==
  ASSUME Inv, NEW t \in Threads, Busy(t), Top(t).kind = "wake",
         NEW f \in FrameTypes, f.kind = "wake", f.u = Top(t).u, f.pc \in {"wake", "unpark"},
         f.p = NoParker \/ f.p \in Spots(ParkMarks),
         Rewrites(t, f), parked' \subseteq parked, UNCHANGED <<permit, stops>>
  PROVE  /\ Turns(t, f) /\ Below(t) /\ Neutral(t) /\ ParkerInv'
         /\ \A u \in Units : ~In("hand", t, u)'
         /\ Lanes' = Lanes /\ Draining' = Draining /\ StopPc' = StopPc
<1>1. FrameOK(t, f)
  BY DEF FrameOK, WakePcs
<1>2. Turns(t, f) /\ Below(t)
  BY <1>1, RewriteForm DEF Inv, Turns
<1>3. SameMarks(f, Top(t)) /\ ~Parks(f) /\ ~Parks(Top(t))
  BY DEF SameMarks, Mark, LaneMarks, DrainMarks, DriverKinds, Parks, ParkingKinds
<1>4. Neutral(t)
  BY <1>2, <1>3, TurnNeutral
<1>5. Me(t) \notin parked'
  <2>1. Mark(Top(t)) \notin IdleMarks
    BY DEF Mark, IdleMarks, DriverKinds
  <2>2. Me(t) \notin Spots(IdleMarks)
    BY <1>2, <2>1, SpotsTurn DEF Inv
  <2>. QED
    BY <2>2 DEF Inv, ParkerInv
<1>6. ParkerInv'
  <2>1. permit' \subseteq Spots(ParkMarks) /\ stopParkers' \subseteq Spots(ParkMarks)
    BY DEF Inv, ParkerInv, stops
  <2>. QED
    BY <1>2, <1>3, <1>5, <2>1, TurnParkers DEF Inv
<1>7. \A u \in Units : ~In("hand", t, u)'
  BY <1>2, TurnHand DEF Holding
<1>. QED
  BY <1>2, <1>4, <1>6, <1>7 DEF Neutral

LEMMA IdleParks ==
  ASSUME Stacks
  PROVE  Spots(IdleMarks) \subseteq Spots(ParkMarks)
<1>1. Idling \subseteq Pcs
  BY DEF Idling, Pcs, DrainPcs, CoopPcs
<1>2. IdleMarks \subseteq ParkMarks
  BY <1>1 DEF IdleMarks, ParkMarks, DriverKinds, ParkingKinds
<1>. QED
  BY <1>2 DEF Spots

LEMMA WakeOneKept ==
  ASSUME Inv, NEW t \in Threads, WakeOne(t)
  PROVE  Inv'
<1>1. /\ Busy(t) /\ Top(t).pc = "wake" /\ UNCHANGED <<units, queues, activeBlocking, permit, stops>>
  BY DEF WakeOne, At
<1>2. Top(t).kind = "wake" /\ Top(t).kind \in Ending /\ Top(t) \in FrameTypes
  BY <1>1, WakeTop
<1>3. Unmoved /\ permit' \subseteq Spots(ParkMarks) /\ UNCHANGED <<activeBlocking, stops, permit>>
  BY <1>1 DEF Unmoved, Inv, ParkerInv
<1>4. ASSUME NEW p \in parked, parked' = parked \ {p},
             Put(t, WithTop(t, [Top(t) EXCEPT !.p = p, !.pc = "unpark"])),
             UNCHANGED <<drains, activeDrainers>>
      PROVE  Inv'
  <2>1. PICK f : f = [Top(t) EXCEPT !.p = p, !.pc = "unpark"]
    OBVIOUS
  <2>2. p \in Spots(ParkMarks) /\ p \in Parkers
    BY IdleParks, SpotsAre DEF Inv, ParkerInv, Parkers
  <2>3. "unpark" \in Pcs
    BY DEF Pcs, WakePcs
  <2>4. f \in FrameTypes /\ f.kind = "wake" /\ f.u = Top(t).u /\ f.pc = "unpark" /\ f.p = p
    BY <1>2, <2>1, <2>2, <2>3 DEF FrameTypes
  <2>5. /\ Turns(t, f) /\ Below(t) /\ Neutral(t) /\ ParkerInv'
        /\ \A u \in Units : ~In("hand", t, u)'
        /\ Lanes' = Lanes /\ Draining' = Draining /\ StopPc' = StopPc
    BY <1>1, <1>2, <1>4, <2>1, <2>2, <2>4, WakeTurns DEF Rewrites
  <2>6. DrainInv' /\ drains' \in Nat /\ activeDrainers' \in Nat
    BY <1>4, <2>5 DEF Inv, DrainInv, DataTypes
  <2>7. SlotInv'
    BY <1>1, <1>2, <1>3, <2>4, <2>5, TurnSlot DEF Inv, Unmoved, queues, Quiet, Shade, DriverKinds
  <2>8. ChildInv'
    BY <1>2, <1>3, <2>4, <2>5, UnmovedFacts, TurnChild DEF Inv, WaitInv, Unmoved, queues
  <2>9. RunningInv' /\ OneRunning'
    BY <1>2, <1>3, <2>4, <2>5, UnmovedFacts, TurnRunning DEF Inv, PlaceInv
  <2>. QED
    BY <1>3, <2>5, <2>6, <2>7, <2>8, <2>9, UnmovedKept
<1>5. CASE EnsureDrainer /\ Put(t, Front(stack[t])) /\ UNCHANGED parked
  BY <1>1, <1>2, <1>3, <1>5, DropUnmoved
<1>. QED
  BY <1>4, <1>5 DEF WakeOne

LEMMA UnparkKept ==
  ASSUME Inv, NEW t \in Threads, Unpark(t)
  PROVE  Inv'
<1>1. /\ Busy(t) /\ Top(t).kind = "wake" /\ Put(t, Front(stack[t]))
      /\ permit' = IF Top(t).p = NoParker THEN permit ELSE permit \cup {Top(t).p}
      /\ UNCHANGED <<units, queues, counts, parked, stops>>
  BY DEF Unpark, At
<1>2. Top(t).kind \in Ending /\ (Top(t).p = NoParker \/ Top(t).p \in Spots(ParkMarks))
  BY <1>1, WakeTop
<1>3. permit' \subseteq Spots(ParkMarks)
  BY <1>1, <1>2 DEF Inv, ParkerInv
<1>4. Unmoved /\ UNCHANGED <<activeBlocking, stops>> /\ UNCHANGED <<drains, activeDrainers>>
      /\ parked' \subseteq parked
  BY <1>1 DEF Unmoved, counts
<1>. QED
  BY <1>1, <1>2, <1>3, <1>4, DropUnmoved

LEMMA SyncDoneKept ==
  ASSUME Inv, NEW t \in Threads, SyncDone(t)
  PROVE  Inv'
<1>1. /\ Busy(t) /\ Top(t).pc = "waiting" /\ Put(t, Front(stack[t]))
      /\ UNCHANGED <<units, queues, counts, parkers, stops>>
  BY DEF SyncDone, At
<1>2. Top(t).kind \in Ending
  <2>1. FrameOK(t, Top(t))
    BY <1>1, TopFacts DEF Inv
  <2>. QED
    BY <1>1, <2>1 DEF Ending, FrameOK, FrameTypes, Kinds, DrainPcs, CoopPcs, StopPcs, WakePcs,
                      Retired, Leaving
<1>3. /\ permit' \subseteq Spots(ParkMarks) /\ Unmoved /\ UNCHANGED <<activeBlocking, stops>>
      /\ UNCHANGED <<drains, activeDrainers>> /\ parked' \subseteq parked
  BY <1>1 DEF Inv, ParkerInv, Unmoved, counts, parkers
<1>. QED
  BY <1>1, <1>2, <1>3, DropUnmoved

\* A thread pushes what it holds.
LEMMA MoveFromHand ==
  ASSUME Inv, NEW t \in Threads, NEW v \in Units, In("hand", t, v), NEW f, NEW l,
         Turns(t, f), f.kind = "wake", Top(t).kind = "wake", f.u = Top(t).u, Neutral(t), ParkerInv',
         \A u \in Units : ~In("hand", t, u)',
         UNCHANGED <<units, slot, counts, closed, queueClosed>>,
         IsInjective(injector'), IsInjective(blockingQueue'), DataTypes',
         queueClosed => UNCHANGED blockingQueue,
         \A u \in Units, k \in Places, x \in Holders :
           k # "hand" /\ In(k, x, u)' => In(k, x, u) \/ (u = v /\ k = l /\ x = NoUnit)
  PROVE  Inv'
<1>1. Below(t) /\ Busy(t)
  BY DEF Turns
<1>2. Settled /\ SlotsSettled
  <2>1. Settled
    BY DEF Settled, units
  <2>. QED
    BY <2>1, DataSettled DEF Inv, PlaceInv
<1>3. ParentInv' /\ (AllOver => AllOver')
  BY DEF Inv, WaitInv, ParentInv, AllOver, units
<1>4. SlotInv' /\ ChildInv'
  BY <1>2, TurnSlot, TurnChild DEF Inv, WaitInv, Quiet, DriverKinds, Shade
<1>5. QueuedInv' /\ OnePlace'
  <2>1. ASSUME NEW u \in Units, NEW k \in Places, NEW x \in Holders, In(k, x, u)'
        PROVE  (In(k, x, u) /\ ~(k = "hand" /\ x = t)) \/ (u = v /\ k = l /\ x = NoUnit)
    <3>1. CASE k = "hand"
      <4>1. x \in Threads \ {t}
        BY <2>1, <3>1 DEF In
      <4>2. In(k, x, u)
        BY <1>1, <2>1, <3>1, <4>1, HandOther DEF Inv
      <4>. QED
        BY <4>1, <4>2
    <3>2. CASE k # "hand"
      BY <2>1, <3>2
    <3>. QED
      BY <3>1, <3>2
  <2>2. UNCHANGED status /\ "hand" \in Places /\ t \in Holders
    BY DEF units, Places, Holders
  <2>. QED
    BY <2>1, <2>2, PlacesMove DEF Inv, PlaceInv
<1>6. RunningInv' /\ OneRunning'
  <2>1. \A u \in Units : status'[u] = status[u]
    BY DEF units
  <2>. QED
    BY <2>1, TurnRunning DEF Inv, PlaceInv
<1>. QED
  BY <1>2, <1>3, <1>4, <1>5, <1>6, Assembled

LEMMA PushKept ==
  ASSUME Inv, NEW t \in Threads, PushInjector(t)
  PROVE  Inv'
<1>1. /\ Busy(t) /\ Top(t).pc = "push" /\ At(t, "push") /\ injector' = Append(injector, Top(t).u)
      /\ Go(t, "wake") /\ UNCHANGED <<units, blockingQueue, slot, counts, parkers, stops>>
  BY DEF PushInjector, At
<1>2. /\ Top(t).kind = "wake" /\ Top(t) \in FrameTypes /\ Top(t).u \in Tasks
      /\ Top(t).p = NoParker \/ Top(t).p \in Spots(ParkMarks)
  BY <1>1, WakeTop
<1>3. PICK v \in Tasks : v = Top(t).u
  BY <1>2
<1>4. PICK f : f = [Top(t) EXCEPT !.pc = "wake"]
  OBVIOUS
<1>5. f \in FrameTypes /\ f.kind = "wake" /\ f.u = Top(t).u /\ f.pc = "wake" /\ f.p = Top(t).p
  <2>1. "wake" \in Pcs
    BY DEF Pcs, WakePcs
  <2>. QED
    BY <1>2, <1>4, <2>1 DEF FrameTypes
<1>6. parked' = parked /\ UNCHANGED <<permit, stops>> /\ UNCHANGED <<units, slot, counts, closed, queueClosed>>
  BY <1>1 DEF parkers, stops
<1>7. /\ Turns(t, f) /\ Below(t) /\ Neutral(t) /\ ParkerInv'
      /\ \A u \in Units : ~In("hand", t, u)'
  BY <1>1, <1>2, <1>4, <1>5, <1>6, WakeTurns DEF Rewrites, Go
<1>8. v \in Units /\ In("hand", t, v) /\ "hand" \in Places /\ t \in Holders
  BY <1>1, <1>3 DEF In, Units, Places, Holders
<1>9. v \notin Range(injector)
  BY <1>8, TakenFrom DEF In, Places, Holders
<1>10. /\ injector' \in Seq(Tasks) /\ Range(injector') = Range(injector) \cup {v}
       /\ IsInjective(injector') /\ IsInjective(blockingQueue')
  BY <1>1, <1>3, <1>9, QueuePush DEF Inv, DataTypes, PlaceInv, OnePlace
<1>11. DataTypes'
  BY <1>1, <1>10 DEF Inv, DataTypes, units, counts, stops
<1>12. ASSUME NEW u \in Units, NEW k \in Places, NEW x \in Holders, k # "hand", In(k, x, u)'
       PROVE  In(k, x, u) \/ (u = v /\ k = "injector" /\ x = NoUnit)
  <2>1. CASE k = "injector"
    BY <1>10, <1>12, <2>1 DEF In
  <2>2. CASE k \in {"queue", "slot"}
    BY <1>1, <1>12, <2>2 DEF In
  <2>. QED
    BY <1>12, <2>1, <2>2 DEF Places
<1>. QED
  BY <1>1, <1>2, <1>5, <1>6, <1>7, <1>8, <1>10, <1>11, <1>12, MoveFromHand

LEMMA EnqueueKept ==
  ASSUME Inv, NEW t \in Threads, Enqueue(t)
  PROVE  Inv'
<1>1. /\ Busy(t) /\ Top(t).pc = "enqueue" /\ At(t, "enqueue")
      /\ UNCHANGED <<parent, injector, slot, counts, parked, stops>>
  BY DEF Enqueue, At
<1>2. /\ Top(t).kind = "wake" /\ Top(t) \in FrameTypes /\ Top(t).u \in Jobs
      /\ Top(t).p = NoParker \/ Top(t).p \in Spots(ParkMarks)
      /\ Top(t).kind \in Ending
  BY <1>1, WakeTop
<1>3. PICK v \in Jobs : v = Top(t).u
  BY <1>2
<1>4. v \in Units /\ In("hand", t, v) /\ "hand" \in Places /\ t \in Holders
  BY <1>1, <1>3 DEF In, Units, Places, Holders
<1>5. /\ status[v] = "queued"
      /\ \A k \in Places, x \in Holders : In(k, x, v) => k = "hand" /\ x = t
  BY <1>4, TakenFrom
<1>6. CASE ~queueClosed /\ blockingQueue' = Append(blockingQueue, v) /\ Go(t, "wake")
           /\ UNCHANGED <<status, permit>>
  <2>1. PICK f : f = [Top(t) EXCEPT !.pc = "wake"]
    OBVIOUS
  <2>2. f \in FrameTypes /\ f.kind = "wake" /\ f.u = Top(t).u /\ f.pc = "wake" /\ f.p = Top(t).p
    <3>1. "wake" \in Pcs
      BY DEF Pcs, WakePcs
    <3>. QED
      BY <1>2, <2>1, <3>1 DEF FrameTypes
  <2>3. parked' = parked /\ UNCHANGED <<permit, stops>>
        /\ UNCHANGED <<units, slot, counts, closed, queueClosed>>
    BY <1>1, <1>6 DEF stops, units
  <2>4. /\ Turns(t, f) /\ Below(t) /\ Neutral(t) /\ ParkerInv'
        /\ \A u \in Units : ~In("hand", t, u)'
    BY <1>1, <1>2, <1>6, <2>1, <2>2, <2>3, WakeTurns DEF Rewrites, Go
  <2>5. v \notin Range(blockingQueue)
    BY <1>5 DEF In, Places, Holders
  <2>6. /\ blockingQueue' \in Seq(Jobs) /\ Range(blockingQueue') = Range(blockingQueue) \cup {v}
        /\ IsInjective(injector') /\ IsInjective(blockingQueue')
    BY <1>1, <1>6, <2>5, QueuePush DEF Inv, DataTypes, PlaceInv, OnePlace
  <2>7. DataTypes'
    BY <1>1, <2>3, <2>6 DEF Inv, DataTypes, units, counts, stops
  <2>8. ASSUME NEW u \in Units, NEW k \in Places, NEW x \in Holders, k # "hand", In(k, x, u)'
        PROVE  In(k, x, u) \/ (u = v /\ k = "queue" /\ x = NoUnit)
    <3>1. CASE k = "queue"
      BY <2>6, <2>8, <3>1 DEF In
    <3>2. CASE k \in {"injector", "slot"}
      BY <1>1, <2>8, <3>2 DEF In
    <3>. QED
      BY <2>8, <3>1, <3>2 DEF Places
  <2>. QED
    BY <1>2, <1>4, <1>6, <2>2, <2>3, <2>4, <2>6, <2>7, <2>8, MoveFromHand
<1>7. CASE queueClosed /\ Ends(v) /\ Put(t, Front(stack[t])) /\ UNCHANGED blockingQueue
  <2>1. /\ Settled /\ ParentInv' /\ (AllOver => AllOver')
        /\ status' \in [Units -> {"new", "queued", "running", "again", "idle", "done"}]
        /\ status'[v] = "done" /\ \A u \in Units : u # v => status'[u] = status[u]
        /\ permit' \subseteq Spots(ParkMarks)
    BY <1>1, <1>4, <1>5, <1>7, EndFacts
  <2>2. UNCHANGED <<parent, queues, counts, parked, stops>>
    BY <1>1, <1>7 DEF queues
  <2>. QED
    BY <1>1, <1>2, <1>4, <1>7, <2>1, <2>2, DropChanges
<1>. QED
  BY <1>3, <1>6, <1>7 DEF Enqueue

LEMMA WakeStepKept ==
  ASSUME Inv, NEW t \in Threads, WakeStep(t) \/ SyncDone(t)
  PROVE  Inv'
  BY PushKept, WakeOneKept, UnparkKept, EnqueueKept, SyncDoneKept DEF WakeStep

-----------------------------------------------------------------------------
(* schedule: a task becomes queued, in the slot or on its way to the       *)
(* shared queue.                                                           *)

Queues(v) ==
  /\ v \in Tasks /\ status[v] \in {"new", "idle", "again"}
  /\ status' = [status EXCEPT ![v] = "queued"]
  /\ parent' \in [Units -> Units \cup Threads \cup {NoUnit}]
  /\ Settled /\ ParentInv' /\ (closed /\ AllOver => AllOver')
  /\ UNCHANGED <<injector, blockingQueue, counts, parkers, stops>>

\* Where schedule leaves the slot of t, and what it puts in the hand of t.
Kept(t, v)      == UNCHANGED slot /\ \A u \in Units : In("hand", t, u)' => u = v
Taken(t, v)     == /\ t \in Workers /\ slot[t] = NoUnit /\ slot' = [slot EXCEPT ![t] = v]
                   /\ \A u \in Units : ~In("hand", t, u)'
Displaced(t, v) == /\ t \in Workers /\ slot[t] # NoUnit /\ slot' = [slot EXCEPT ![t] = v]
                   /\ \A u \in Units : In("hand", t, u)' => u = slot[t]

LEMMA QueuesFacts ==
  ASSUME Inv, NEW v, Queues(v)
  PROVE  /\ v \in Units /\ status'[v] = "queued" /\ status[v] # "queued"
         /\ \A u \in Units : u # v => status'[u] = status[u]
         /\ status' \in [Units -> {"new", "queued", "running", "again", "idle", "done"}]
         /\ slot' \in [Workers -> Tasks \cup {NoUnit}] => DataTypes'
         /\ IsInjective(injector') /\ IsInjective(blockingQueue') /\ SlotsSettled
         /\ permit' \subseteq Spots(ParkMarks) /\ stopParkers' \subseteq Spots(ParkMarks)
         /\ parked' = parked /\ UNCHANGED counts /\ UNCHANGED <<closed, queueClosed, blockingQueue>>
         /\ \A k \in Places, x \in Holders : ~In(k, x, v)
<1>1. v \in Units /\ status' = [status EXCEPT ![v] = "queued"]
      /\ status \in [Units -> {"new", "queued", "running", "again", "idle", "done"}]
  BY DEF Queues, Units, Inv, DataTypes
<1>2. /\ status' \in [Units -> {"new", "queued", "running", "again", "idle", "done"}]
      /\ status'[v] = "queued" /\ \A u \in Units : u # v => status'[u] = status[u]
  BY <1>1
<1>3. status[v] # "queued" /\ \A k \in Places, x \in Holders : ~In(k, x, v)
  BY <1>1 DEF Queues, Inv, PlaceInv, QueuedInv
<1>4. slot' \in [Workers -> Tasks \cup {NoUnit}] => DataTypes'
  BY <1>2 DEF Queues, Inv, DataTypes, counts, stops
<1>5. /\ IsInjective(injector') /\ IsInjective(blockingQueue') /\ SlotsSettled
  BY DataSettled DEF Inv, PlaceInv, OnePlace, Queues
<1>6. /\ permit' \subseteq Spots(ParkMarks) /\ stopParkers' \subseteq Spots(ParkMarks)
      /\ parked' = parked /\ UNCHANGED counts /\ UNCHANGED <<closed, queueClosed, blockingQueue>>
  BY DEF Inv, ParkerInv, Queues, parkers, stops
<1>. QED
  BY <1>1, <1>2, <1>3, <1>4, <1>5, <1>6

LEMMA QueuesPlaces ==
  ASSUME Inv, NEW t \in Threads, NEW v, Queues(v), Below(t),
         Kept(t, v) \/ Taken(t, v) \/ Displaced(t, v)
  PROVE  QueuedInv' /\ OnePlace'
<1>1. /\ v \in Units /\ v \in Tasks /\ status'[v] = "queued" /\ status[v] # "queued"
      /\ \A u \in Units : u # v => status'[u] = status[u]
      /\ IsInjective(injector') /\ IsInjective(blockingQueue')
      /\ UNCHANGED <<injector, blockingQueue>>
      /\ \A k \in Places, x \in Holders : ~In(k, x, v)
  BY QueuesFacts DEF Queues
<1>2. ASSUME NEW u \in Units, NEW x \in Threads \ {t}, In("hand", x, u)'
      PROVE  In("hand", x, u) /\ u # v
  <2>1. In("hand", x, u) /\ "hand" \in Places /\ x \in Holders
    BY <1>2, HandOther DEF Inv, Places, Holders
  <2>. QED
    BY <1>1, <2>1
<1>3. ASSUME NEW u \in Units, NEW k \in {"injector", "queue"}, NEW x, In(k, x, u)'
      PROVE  In(k, x, u) /\ u # v
  <2>1. In(k, x, u) /\ x = NoUnit /\ k \in Places /\ NoUnit \in Holders
    BY <1>1, <1>3 DEF In, Places, Holders
  <2>. QED
    BY <1>1, <2>1
<1>4. slot \in [Workers -> Tasks \cup {NoUnit}] /\ NoUnit \notin Units
  BY SchedulerAssumption DEF Inv, DataTypes, Units
<1>5. CASE Kept(t, v)
  <2>1. ASSUME NEW u \in Units, NEW k \in Places, NEW x \in Holders, In(k, x, u)'
        PROVE  \/ In(k, x, u) /\ status'[u] = status[u]
               \/ u = v /\ k = "hand" /\ x = t
    <3>1. CASE k \in {"injector", "queue"}
      BY <1>1, <1>3, <2>1, <3>1
    <3>2. CASE k = "slot"
      <4>1. In(k, x, u)
        BY <1>5, <2>1, <3>2 DEF In, Kept
      <4>. QED
        BY <1>1, <4>1
    <3>3. CASE k = "hand"
      <4>1. x \in Threads
        BY <2>1, <3>3 DEF In
      <4>2. CASE x = t
        BY <1>5, <2>1, <3>3, <4>2 DEF Kept
      <4>3. CASE x # t
        BY <1>1, <1>2, <2>1, <3>3, <4>1, <4>3
      <4>. QED
        BY <4>2, <4>3
    <3>. QED
      BY <3>1, <3>2, <3>3 DEF Places
  <2>. QED
    BY <1>1, <2>1, PlacesGrow DEF Inv, PlaceInv
<1>6. CASE Taken(t, v)
  <2>1. ASSUME NEW u \in Units, NEW k \in Places, NEW x \in Holders, In(k, x, u)'
        PROVE  \/ In(k, x, u) /\ status'[u] = status[u]
               \/ u = v /\ k = "slot" /\ x = t
    <3>1. CASE k \in {"injector", "queue"}
      BY <1>1, <1>3, <2>1, <3>1
    <3>2. CASE k = "slot"
      <4>1. x \in Workers /\ slot'[x] = u
        BY <2>1, <3>2 DEF In
      <4>2. CASE x = t
        BY <1>4, <1>6, <3>2, <4>1, <4>2 DEF Taken
      <4>3. CASE x # t
        <5>1. In(k, x, u)
          BY <1>4, <1>6, <3>2, <4>1, <4>3 DEF Taken, In
        <5>. QED
          BY <1>1, <5>1
      <4>. QED
        BY <4>2, <4>3
    <3>3. CASE k = "hand"
      <4>1. x \in Threads \ {t}
        BY <1>6, <2>1, <3>3 DEF In, Taken
      <4>. QED
        BY <1>1, <1>2, <2>1, <3>3, <4>1
    <3>. QED
      BY <3>1, <3>2, <3>3 DEF Places
  <2>. QED
    BY <1>1, <2>1, PlacesGrow DEF Inv, PlaceInv
<1>7. CASE Displaced(t, v)
  <2>1. PICK o : o = slot[t]
    OBVIOUS
  <2>2. o \in Units /\ In("slot", t, o) /\ "slot" \in Places /\ t \in Holders /\ o # v
    <3>1. o \in Units /\ In("slot", t, o) /\ "slot" \in Places /\ t \in Holders
      BY <1>4, <1>7, <2>1 DEF Displaced, In, Places, Holders, Units
    <3>. QED
      BY <1>1, <3>1
  <2>3. status'[o] = status[o]
    BY <1>1, <2>2
  <2>4. ASSUME NEW u \in Units, NEW k \in Places, NEW x \in Holders, In(k, x, u)'
        PROVE  \/ In(k, x, u) /\ status'[u] = status[u] /\ ~(k = "slot" /\ x = t)
               \/ u = v /\ k = "slot" /\ x = t
               \/ u = o /\ k = "hand" /\ x = t
    <3>1. CASE k \in {"injector", "queue"}
      BY <1>1, <1>3, <2>4, <3>1
    <3>2. CASE k = "slot"
      <4>1. x \in Workers /\ slot'[x] = u
        BY <2>4, <3>2 DEF In
      <4>2. CASE x = t
        BY <1>4, <1>7, <3>2, <4>1, <4>2 DEF Displaced
      <4>3. CASE x # t
        <5>1. In(k, x, u)
          BY <1>4, <1>7, <3>2, <4>1, <4>3 DEF Displaced, In
        <5>. QED
          BY <1>1, <4>3, <5>1
      <4>. QED
        BY <4>2, <4>3
    <3>3. CASE k = "hand"
      <4>1. x \in Threads
        BY <2>4, <3>3 DEF In
      <4>2. CASE x = t
        BY <1>7, <2>1, <2>4, <3>3, <4>2 DEF Displaced
      <4>3. CASE x # t
        BY <1>1, <1>2, <2>4, <3>3, <4>1, <4>3
      <4>. QED
        BY <4>2, <4>3
    <3>. QED
      BY <3>1, <3>2, <3>3 DEF Places
  <2>. QED
    BY <1>1, <2>2, <2>3, <2>4, PlacesDisplace DEF Inv, PlaceInv
<1>. QED
  BY <1>5, <1>6, <1>7

\* A task that answered Pending makes room for the push of what it displaces.
LEMMA RunningOver ==
  ASSUME Stacks, RunningInv, OneRunning, NEW t \in Threads, NEW f, Turns(t, f),
         Runner(Top(t)), ~Runner(f), \A u \in Units : u # Top(t).u => status'[u] = status[u]
  PROVE  RunningInv' /\ OneRunning'
<1>. DEFINE n == Len(stack[t])
<1>1. n \in Nat \ {0} /\ Len(stack'[t]) = n /\ stack'[t][n] = f /\ Top(t) = stack[t][n] /\ Below(t)
  BY TopFacts DEF Turns
<1>2. ASSUME NEW x \in Threads, NEW i \in 1..Len(stack'[x]), Runner(stack'[x][i])
      PROVE  /\ Stays(x, i) /\ i \in 1..Len(stack[x]) /\ Runner(stack[x][i])
             /\ stack[x][i].u \in Units /\ stack[x][i].u # Top(t).u
             /\ stack[x][i].kind = "task" => status[stack[x][i].u] \in {"running", "again"}
             /\ stack[x][i].kind = "job" => status[stack[x][i].u] = "running"
  <2>1. x # t \/ i < n
    BY <1>1, <1>2
  <2>2. Stays(x, i) /\ i \in 1..Len(stack[x]) /\ Runner(stack[x][i]) /\ stack[x][i].u \in Units
    BY <1>1, <1>2, <2>1, StaysBelow, RunnerUnit DEF Stays, Runner
  <2>3. n \in 1..Len(stack[t]) /\ Runner(stack[t][n])
    BY <1>1
  <2>4. stack[x][i].u # stack[t][n].u
    BY <2>1, <2>2, <2>3, OneRunner
  <2>. QED
    BY <1>1, <2>2, <2>4 DEF RunningInv
<1>3. RunningInv'
  <2>. SUFFICES ASSUME NEW x \in Threads, NEW i \in 1..Len(stack'[x]), Runner(stack'[x][i])
                PROVE  /\ stack'[x][i].kind = "task" => status'[stack'[x][i].u] \in {"running", "again"}
                       /\ stack'[x][i].kind = "job"  => status'[stack'[x][i].u] = "running"
    BY DEF RunningInv, Runner
  <2>. QED
    BY <1>2 DEF Stays
<1>4. OneRunning'
  <2>. SUFFICES ASSUME NEW x \in Threads, NEW y \in Threads,
                       NEW i \in 1..Len(stack'[x]), NEW j \in 1..Len(stack'[y]),
                       Runner(stack'[x][i]), Runner(stack'[y][j]), stack'[x][i].u = stack'[y][j].u
                PROVE  x = y /\ i = j
    BY DEF OneRunning, Runner
  <2>1. /\ i \in 1..Len(stack[x]) /\ j \in 1..Len(stack[y])
        /\ Runner(stack[x][i]) /\ Runner(stack[y][j]) /\ stack[x][i].u = stack[y][j].u
    BY <1>2 DEF Stays
  <2>. QED
    BY <2>1, OneRunner
<1>. QED
  BY <1>3, <1>4

\* The frame of user code that has made one more call.
LEMMA CalledFrame ==
  ASSUME Inv, NEW t \in Threads, User(t), NEW f, f = [Top(t) EXCEPT !.work = @ + 1]
  PROVE  /\ Busy(t) /\ FrameOK(t, f) /\ f.kind = Top(t).kind /\ f.u = Top(t).u /\ f.pc = "user"
         /\ f.p = NoParker /\ Top(t).kind \in UserKinds /\ Called(t) = WithTop(t, f)
         /\ SameMarks(f, Top(t)) /\ ~Quiet(f) /\ ~Holding(f) /\ f.kind \notin {"wait", "stop", "wake"}
         /\ ~Parks(f) /\ ~Parks(Top(t)) /\ Me(t) \notin parked
         /\ Top(t).kind = "host" <=> t \in Hosts
         /\ Top(t).kind # "host" => t \in Workers
<1>1. /\ Busy(t) /\ Top(t).kind \in UserKinds /\ Top(t).pc = "user"
  BY DEF User, At
<1>2. FrameOK(t, Top(t))
  BY <1>1, TopFacts DEF Inv
<1>3. f \in FrameTypes /\ f.kind = Top(t).kind /\ f.u = Top(t).u /\ f.pc = "user" /\ f.p = Top(t).p
  <2>1. PICK n \in Nat : n = Top(t).work + 1
    BY <1>2 DEF FrameOK, FrameTypes
  <2>2. f = [Top(t) EXCEPT !.work = n]
    BY <2>1
  <2>. QED
    BY <1>1, <1>2, <2>2 DEF FrameOK, FrameTypes
<1>4. FrameOK(t, f) /\ f.p = NoParker
  BY <1>1, <1>2, <1>3 DEF FrameOK, UserKinds
<1>5. /\ SameMarks(f, Top(t)) /\ ~Quiet(f) /\ ~Holding(f) /\ f.kind \notin {"wait", "stop", "wake"}
      /\ ~Parks(f) /\ ~Parks(Top(t))
  BY <1>1, <1>3 DEF UserKinds, SameMarks, Mark, LaneMarks, DrainMarks, DriverKinds, Quiet, Holding,
     Parks, ParkingKinds
<1>6. Me(t) \notin parked
  BY <1>1, MyIdle DEF Idling
<1>7. /\ Top(t).kind = "host" <=> t \in Hosts
      /\ Top(t).kind # "host" => t \in Workers
  BY <1>1, <1>2, SchedulerAssumption DEF FrameOK, UserKinds
<1>. QED
  BY <1>1, <1>3, <1>4, <1>5, <1>6, <1>7 DEF Called

\* Whoever calls is a unit that runs, or a host.
LEMMA CallerFacts ==
  ASSUME Inv, NEW t \in Threads, User(t)
  PROVE  /\ Name(t) \in Units \cup Threads
         /\ Name(t) \in Jobs => Top(t).kind = "job" /\ status[Name(t)] = "running"
         /\ Top(t).kind = "job" => Name(t) \in Jobs
<1>1. /\ Busy(t) /\ Top(t).kind \in UserKinds /\ Top(t).pc = "user"
  BY DEF User, At
<1>2. FrameOK(t, Top(t))
  BY <1>1, TopFacts DEF Inv
<1>3. CASE Top(t).kind = "host"
  BY <1>2, <1>3, SchedulerAssumption DEF Name, FrameOK
<1>4. CASE Top(t).kind \in {"task", "job"}
  <2>1. /\ Top(t).u \in Units
        /\ Top(t).kind = "task" => Top(t).u \in Tasks
        /\ Top(t).kind = "job" => Top(t).u \in Jobs /\ status[Top(t).u] = "running"
    BY <1>1, <1>4, TaskTop DEF Runner
  <2>. QED
    BY <1>4, <2>1, SchedulerAssumption DEF Name
<1>. QED
  BY <1>1, <1>3, <1>4 DEF UserKinds

\* A call whose caller pushes a task, one it submits or one it finds in its slot.
LEMMA CallPushes ==
  ASSUME Inv, NEW t \in Threads, User(t), NEW v, Queues(v), status[v] # "again",
         NEW o \in Tasks, NEW g, g = PushFrame(o), NEW f, f = [Top(t) EXCEPT !.work = @ + 1],
         Put(t, Append(Called(t), g))
  PROVE  /\ Adds(t, f, g) /\ Below(t) /\ Neutral(t) /\ ParkerInv' /\ RunningInv' /\ OneRunning'
         /\ \A x \in Units : In("hand", t, x)' => x = o
<1>1. /\ Busy(t) /\ FrameOK(t, f) /\ f.kind = Top(t).kind /\ f.u = Top(t).u /\ f.pc = "user"
      /\ f.p = NoParker /\ Top(t).kind \in UserKinds /\ Called(t) = WithTop(t, f)
      /\ SameMarks(f, Top(t)) /\ ~Holding(f) /\ f.kind \notin {"wait", "stop", "wake"}
      /\ ~Parks(f) /\ ~Parks(Top(t)) /\ Me(t) \notin parked
  BY CalledFrame
<1>2. /\ v \in Units /\ \A u \in Units : u # v => status'[u] = status[u]
      /\ permit' \subseteq Spots(ParkMarks) /\ stopParkers' \subseteq Spots(ParkMarks)
      /\ parked' = parked
  BY QueuesFacts
<1>3. /\ FrameOK(t, g) /\ g.kind = "wake" /\ g.pc = "push" /\ g.u = o /\ g.p = NoParker
      /\ Unmarked(g) /\ ~Quiet(g) /\ Waits(g) /\ Holding(g)
  BY PushFrameOK
<1>4. Nests(f, g)
  BY <1>1, <1>3 DEF Nests, Bases
<1>5. Adds(t, f, g) /\ Below(t)
  <2>1. Calls2(t, f, g)
    BY <1>1 DEF Calls2
  <2>2. Adds(t, f, g)
    BY <1>1, <1>3, <1>4, <2>1, CallForm DEF Inv
  <2>. QED
    BY <2>2 DEF Adds
<1>6. Neutral(t)
  BY <1>1, <1>3, <1>5, AddNeutral
<1>7. ParkerInv'
  BY <1>1, <1>2, <1>3, <1>5, AddParkers DEF Inv
<1>8. \A x \in Units : In("hand", t, x)' => x = o
  BY <1>3, <1>5, AddHand
<1>9. ASSUME NEW x \in Units, status[x] \in {"running", "again"} PROVE status'[x] = status[x]
  BY <1>2, <1>9 DEF Queues
<1>10. RunningInv' /\ OneRunning'
  <2>1. ~Runner(g)
    BY <1>3 DEF Runner
  <2>. QED
    BY <1>1, <1>5, <1>9, <2>1, AddRunning DEF Inv, PlaceInv
<1>. QED
  BY <1>5, <1>6, <1>7, <1>8, <1>10

\* A call of schedule by user code.
LEMMA ScheduleKept ==
  ASSUME Inv, NEW t \in Threads, User(t), NEW v, Queues(v), status[v] # "again",
         Schedule(t, v, Called(t), Owner(t))
  PROVE  Inv'
<1>1. PICK f : f = [Top(t) EXCEPT !.work = @ + 1]
  OBVIOUS
<1>2. /\ Busy(t) /\ FrameOK(t, f) /\ f.kind = Top(t).kind /\ f.u = Top(t).u /\ f.pc = "user"
      /\ f.p = NoParker /\ Top(t).kind \in UserKinds /\ Called(t) = WithTop(t, f)
      /\ SameMarks(f, Top(t)) /\ ~Quiet(f) /\ ~Holding(f) /\ f.kind \notin {"wait", "stop", "wake"}
      /\ ~Parks(f) /\ ~Parks(Top(t)) /\ Me(t) \notin parked
  BY <1>1, CalledFrame
<1>3. /\ v \in Units /\ v \in Tasks /\ status'[v] = "queued" /\ status[v] # "queued"
      /\ \A u \in Units : u # v => status'[u] = status[u]
      /\ slot' \in [Workers -> Tasks \cup {NoUnit}] => DataTypes'
      /\ SlotsSettled
      /\ permit' \subseteq Spots(ParkMarks) /\ stopParkers' \subseteq Spots(ParkMarks)
      /\ parked' = parked /\ UNCHANGED counts /\ UNCHANGED <<closed, queueClosed, blockingQueue>>
  BY QueuesFacts DEF Queues
<1>4. Settled /\ ParentInv' /\ (closed /\ AllOver => AllOver')
  BY DEF Queues
<1>5. slot \in [Workers -> Tasks \cup {NoUnit}]
  BY DEF Inv, DataTypes
<1>6. PICK n : n = Len(stack[t]) /\ n \in Nat \ {0}
  BY <1>2, TopFacts DEF Inv
<1>7. PICK m \in Nat : n = m + 1
  BY <1>6
<1>m. t \in Workers /\ Top(t).kind # "job" =>
        ~Shade(f) /\ f.kind \notin {"job", "wake", "wait"}
  BY <1>2 DEF Shade
<1>8. CASE t \in Workers /\ Top(t).kind # "job" /\ slot[t] = NoUnit
           /\ slot' = [slot EXCEPT ![t] = v] /\ Put(t, WithTop(t, f))
  <2>1. Turns(t, f) /\ Below(t)
    BY <1>2, <1>8, RewriteForm DEF Inv, Turns, Rewrites
  <2>2. Neutral(t)
    BY <1>2, <2>1, TurnNeutral
  <2>3. ParkerInv'
    BY <1>2, <1>3, <2>1, TurnParkers DEF Inv
  <2>4. Taken(t, v)
    BY <1>2, <1>8, <2>1, TurnHand DEF Taken
  <2>5. QueuedInv' /\ OnePlace'
    BY <2>1, <2>4, QueuesPlaces
  <2>6. RunningInv' /\ OneRunning'
    <3>1. ASSUME NEW x \in Units, status[x] \in {"running", "again"} PROVE status'[x] = status[x]
      BY <1>3, <3>1 DEF Queues
    <3>. QED
      BY <1>2, <2>1, <3>1, TurnRunning DEF Inv, PlaceInv
  <2>7. /\ \A x \in Workers \ {t} : slot'[x] = slot[x]
        /\ slot' \in [Workers -> Tasks \cup {NoUnit}]
    BY <1>3, <1>5, <1>8
  <2>8. /\ Len(stack'[t]) = m + 1 /\ m + 1 \in 1..Len(stack'[t]) /\ stack'[t][m+1] = f
        /\ ~Shade(f) /\ f.kind \notin {"job", "wake", "wait"}
    <3>1. Len(stack'[t]) = n /\ stack'[t][n] = f
      BY <1>6, <2>1 DEF Turns
    <3>2. m + 1 \in 1..m+1
      OBVIOUS
    <3>. QED
      BY <1>m, <1>7, <1>8, <3>1, <3>2
  <2>9. SlotInv' /\ ChildInv'
    BY <1>2, <1>3, <2>1, <2>7, <2>8, FilledSlot, FilledChild DEF Inv, WaitInv
  <2>. QED
    BY <1>3, <1>4, <2>2, <2>3, <2>5, <2>6, <2>7, <2>9, Assembled
<1>9. CASE t \in Workers /\ Top(t).kind # "job" /\ slot[t] # NoUnit
           /\ slot' = [slot EXCEPT ![t] = v] /\ Put(t, Append(Called(t), PushFrame(slot[t])))
  <2>1. PICK o \in Tasks : o = slot[t]
    BY <1>5, <1>9
  <2>2. PICK g : g = PushFrame(o)
    OBVIOUS
  <2>3. /\ Adds(t, f, g) /\ Below(t) /\ Neutral(t) /\ ParkerInv' /\ RunningInv' /\ OneRunning'
        /\ \A x \in Units : In("hand", t, x)' => x = o
    BY <1>1, <1>9, <2>1, <2>2, CallPushes
  <2>4. Displaced(t, v)
    BY <1>9, <2>1, <2>3 DEF Displaced
  <2>5. QueuedInv' /\ OnePlace'
    BY <2>3, <2>4, QueuesPlaces
  <2>6. /\ \A x \in Workers \ {t} : slot'[x] = slot[x]
        /\ slot' \in [Workers -> Tasks \cup {NoUnit}]
    BY <1>3, <1>5, <1>9
  <2>7. /\ Len(stack'[t]) = m + 2 /\ m + 1 \in 1..Len(stack'[t]) /\ stack'[t][m+1] = f
        /\ stack'[t][m+2] = g /\ ~Shade(f) /\ f.kind \notin {"job", "wake", "wait"}
    <3>1. Len(stack'[t]) = n + 1 /\ stack'[t][n] = f /\ stack'[t][n+1] = g
      BY <1>6, <2>3 DEF Adds
    <3>2. m + 1 \in 1..m+2 /\ n + 1 = m + 2
      BY <1>7
    <3>. QED
      BY <1>m, <1>7, <1>9, <3>1, <3>2
  <2>8. ~Quiet(g) /\ g.kind # "job"
    BY <2>2, PushFrameOK
  <2>9. SlotInv' /\ ChildInv'
    BY <1>2, <1>3, <2>3, <2>6, <2>7, <2>8, FilledSlot, FilledChild DEF Inv, WaitInv
  <2>. QED
    BY <1>3, <1>4, <2>3, <2>5, <2>6, <2>9, Assembled
<1>10. CASE UNCHANGED slot /\ Put(t, Append(Called(t), PushFrame(v)))
  <2>1. PICK g : g = PushFrame(v)
    OBVIOUS
  <2>2. /\ Adds(t, f, g) /\ Below(t) /\ Neutral(t) /\ ParkerInv' /\ RunningInv' /\ OneRunning'
        /\ \A x \in Units : In("hand", t, x)' => x = v
    BY <1>1, <1>3, <1>10, <2>1, CallPushes
  <2>3. Kept(t, v)
    BY <1>10, <2>2 DEF Kept
  <2>4. QueuedInv' /\ OnePlace'
    BY <2>2, <2>3, QueuesPlaces
  <2>5. ~Quiet(g) /\ g.kind # "job" /\ (Shade(f) => Shade(Top(t)))
    BY <1>2, <1>3, <2>1, PushFrameOK DEF Shade
  <2>6. SlotInv' /\ ChildInv'
    BY <1>2, <1>3, <1>10, <2>2, <2>5, AddSlot, AddChild DEF Inv, WaitInv
  <2>. QED
    BY <1>3, <1>4, <1>5, <1>10, <2>2, <2>4, <2>6, Assembled
<1>. QED
  BY <1>1, <1>2, <1>8, <1>9, <1>10 DEF Schedule, ScheduleTo, Owner

\* A task stands over a driver in the midst of its loop.
LEMMA OverDriver ==
  ASSUME Inv, NEW t \in Threads, Busy(t), Top(t).kind = "task"
  PROVE  \E m \in Nat : /\ Len(stack[t]) = m + 2 /\ ~Shade(stack[t][m+1]) /\ ~Quiet(stack[t][m+1])
                        /\ stack[t][m+1].kind \notin {"job", "wake", "wait"}
<1>1. PICK n \in Nat \ {0} : n = Len(stack[t])
  BY TopFacts DEF Inv
<1>2. n # 1 /\ Nests(stack[t][n-1], Top(t))
  BY <1>1, TopNests DEF Inv, Bases
<1>3. PICK m \in Nat : n = m + 2
  <2>1. \E m \in Nat : n = m + 2
    <3>1. n - 2 \in Nat /\ n = (n - 2) + 2
      BY <1>2
    <3>. QED
      BY <3>1
  <2>. QED
    BY <2>1
<1>4. n - 1 = m + 1
  BY <1>3
<1>5. PICK e : e = stack[t][m+1]
  OBVIOUS
<1>6. e.kind \in DriverKinds /\ e.pc \in ServedPcs
  BY <1>2, <1>4, <1>5 DEF Nests
<1>7. ~Shade(e) /\ ~Quiet(e) /\ e.kind \notin {"job", "wake", "wait"}
  BY <1>6 DEF Shade, Quiet, DriverKinds, ServedPcs, QuietPcs, Retired, Leaving
<1>. QED
  BY <1>1, <1>3, <1>5, <1>7

\* A task that was woken while it ran is queued again.
LEMMA AgainKept ==
  ASSUME Inv, NEW t \in Threads, User(t), Top(t).kind = "task", NEW v, v = Top(t).u,
         status[v] = "again", status' = [status EXCEPT ![v] = "queued"],
         Schedule(t, v, Front(stack[t]), FALSE),
         UNCHANGED <<parent, injector, blockingQueue, counts, parkers, stops>>
  PROVE  Inv'
<1>1. Busy(t) /\ Top(t).pc = "user" /\ Runner(Top(t))
  BY DEF User, At, Runner
<1>2. t \in Workers /\ Top(t).kind \in Ending /\ v \in Tasks /\ v \in Units
  BY <1>1, TaskTop
<1>3. status \in [Units -> {"new", "queued", "running", "again", "idle", "done"}]
  BY DEF Inv, DataTypes
<1>4. Queues(v)
  <2>1. \A u \in Units : u # v => status'[u] = status[u]
    BY <1>3
  <2>2. status'[v] = "queued"
    BY <1>2, <1>3
  <2>3. Settled
    BY <2>1, <2>2 DEF Settled
  <2>4. ParentInv'
    <3>. SUFFICES ASSUME NEW u \in Units, parent[u] \in Jobs
                  PROVE  status'[parent[u]] \notin {"new", "queued"}
      BY DEF ParentInv
    <3>1. parent[u] # v /\ parent[u] \in Units
      BY <1>2, SchedulerAssumption DEF Units
    <3>2. status[parent[u]] \notin {"new", "queued"}
      BY DEF Inv, WaitInv, ParentInv
    <3>. QED
      BY <2>1, <3>1, <3>2
  <2>5. ~AllOver
    BY <1>2 DEF AllOver
  <2>6. parent' \in [Units -> Units \cup Threads \cup {NoUnit}]
    BY DEF Inv, DataTypes
  <2>. QED
    BY <1>2, <2>3, <2>4, <2>5, <2>6 DEF Queues
<1>5. /\ v \in Units /\ v \in Tasks /\ status'[v] = "queued" /\ status[v] # "queued"
      /\ \A u \in Units : u # v => status'[u] = status[u]
      /\ slot' \in [Workers -> Tasks \cup {NoUnit}] => DataTypes'
      /\ SlotsSettled
      /\ permit' \subseteq Spots(ParkMarks) /\ stopParkers' \subseteq Spots(ParkMarks)
      /\ parked' = parked /\ UNCHANGED counts /\ UNCHANGED <<closed, queueClosed, blockingQueue>>
  BY <1>4, QueuesFacts DEF Queues
<1>6. Settled /\ ParentInv' /\ (closed /\ AllOver => AllOver')
  BY <1>4 DEF Queues
<1>7. slot \in [Workers -> Tasks \cup {NoUnit}]
  BY DEF Inv, DataTypes
<1>8. PICK m \in Nat : /\ Len(stack[t]) = m + 2 /\ ~Shade(stack[t][m+1]) /\ ~Quiet(stack[t][m+1])
                       /\ stack[t][m+1].kind \notin {"job", "wake", "wait"}
  BY <1>1, OverDriver
<1>9. ASSUME Below(t) PROVE stack'[t][m+1] = stack[t][m+1]
  <2>1. m + 1 \in 1..(m+2)-1
    OBVIOUS
  <2>. QED
    BY <1>8, <1>9, <2>1 DEF Below
<1>10. slot' = [slot EXCEPT ![t] = v]
       => /\ \A x \in Workers \ {t} : slot'[x] = slot[x]
          /\ slot' \in [Workers -> Tasks \cup {NoUnit}]
  BY <1>5, <1>7
<1>11. CASE slot[t] = NoUnit /\ slot' = [slot EXCEPT ![t] = v] /\ Put(t, Front(stack[t]))
  <2>1. /\ Drops(t) /\ Below(t) /\ Neutral(t) /\ ~Parks(Top(t)) /\ \A u \in Units : ~In("hand", t, u)'
    BY <1>1, <1>2, <1>11, DropShape
  <2>2. ParkerInv'
    BY <1>5, <2>1, DropParkers DEF Inv
  <2>3. Taken(t, v)
    BY <1>2, <1>11, <2>1 DEF Taken
  <2>4. QueuedInv' /\ OnePlace'
    BY <1>4, <2>1, <2>3, QueuesPlaces
  <2>5. RunningInv' /\ OneRunning'
    BY <1>1, <1>5, <2>1, RunningReturn DEF Inv, PlaceInv
  <2>6. /\ Len(stack'[t]) = m + 1 /\ m + 1 \in 1..Len(stack'[t]) /\ stack'[t][m+1] = stack[t][m+1]
    <3>1. Len(stack'[t]) = (m + 2) - 1
      BY <1>8, <2>1 DEF Drops
    <3>2. (m + 2) - 1 = m + 1 /\ m + 1 \in 1..m+1
      OBVIOUS
    <3>. QED
      BY <1>9, <2>1, <3>1, <3>2
  <2>7. SlotInv'
    BY <1>8, <1>10, <1>11, <2>1, <2>6, FilledSlot DEF Inv
  <2>8. ChildInv'
    BY <1>5, <1>8, <1>10, <1>11, <2>1, <2>6, FilledChild DEF Inv, WaitInv
  <2>. QED
    BY <1>5, <1>6, <1>10, <1>11, <2>1, <2>2, <2>4, <2>5, <2>7, <2>8, Assembled
<1>12. CASE slot[t] # NoUnit /\ slot' = [slot EXCEPT ![t] = v]
            /\ Put(t, Append(Front(stack[t]), PushFrame(slot[t])))
  <2>1. PICK o \in Tasks : o = slot[t]
    BY <1>2, <1>7, <1>12
  <2>2. PICK g : g = PushFrame(o)
    OBVIOUS
  <2>3. /\ FrameOK(t, g) /\ g.kind = "wake" /\ g.pc = "push" /\ g.u = o /\ g.p = NoParker
        /\ Unmarked(g) /\ ~Quiet(g) /\ Holding(g)
    BY <2>2, PushFrameOK
  <2>4. Rewrites(t, g)
    BY <1>12, <2>1, <2>2 DEF Rewrites, WithTop
  <2>5. Turns(t, g) /\ Below(t)
    BY <1>1, <2>3, <2>4, RewriteForm DEF Inv, Turns
  <2>6. Unmarked(Top(t)) /\ ~Parks(Top(t)) /\ ~Parks(g) /\ ~Runner(g)
    BY <2>3 DEF Unmarked, Mark, LaneMarks, DrainMarks, DriverKinds, Parks, ParkingKinds, Runner
  <2>7. Neutral(t)
    BY <2>3, <2>5, <2>6, TurnNeutral DEF SameMarks, Unmarked
  <2>8. Me(t) \notin parked
    BY <1>1, MyIdle DEF Idling
  <2>9. ParkerInv'
    BY <1>5, <2>3, <2>5, <2>6, <2>8, TurnParkers DEF Inv
  <2>10. Displaced(t, v)
    <3>1. \A u \in Units : In("hand", t, u)' => u = o
      BY <2>3, <2>5, TurnHand
    <3>. QED
      BY <1>2, <1>12, <2>1, <3>1 DEF Displaced
  <2>11. QueuedInv' /\ OnePlace'
    BY <1>4, <2>5, <2>10, QueuesPlaces
  <2>12. RunningInv' /\ OneRunning'
    BY <1>1, <1>5, <2>5, <2>6, RunningOver DEF Inv, PlaceInv
  <2>13. /\ Len(stack'[t]) = m + 2 /\ m + 1 \in 1..Len(stack'[t]) /\ stack'[t][m+1] = stack[t][m+1]
         /\ stack'[t][m+2] = g
    <3>1. Len(stack'[t]) = m + 2 /\ stack'[t][m+2] = g
      BY <1>8, <2>5 DEF Turns
    <3>2. m + 1 \in 1..m+2
      OBVIOUS
    <3>. QED
      BY <1>9, <2>5, <3>1, <3>2
  <2>14. SlotInv'
    BY <1>8, <1>10, <1>12, <2>3, <2>5, <2>13, FilledSlot DEF Inv
  <2>15. ChildInv'
    BY <1>5, <1>8, <1>10, <1>12, <2>3, <2>5, <2>13, FilledChild DEF Inv, WaitInv
  <2>. QED
    BY <1>5, <1>6, <1>10, <1>12, <2>7, <2>9, <2>11, <2>12, <2>14, <2>15, Assembled
<1>. QED
  BY <1>2, <1>11, <1>12 DEF Schedule, ScheduleTo

LEMMA PendingKept ==
  ASSUME Inv, NEW t \in Threads, TaskPending(t)
  PROVE  Inv'
<1>1. /\ User(t) /\ Top(t).kind = "task"
      /\ UNCHANGED <<parent, injector, blockingQueue, counts, parkers, stops>>
  BY DEF TaskPending
<1>2. CASE /\ status[Top(t).u] = "again" /\ status' = [status EXCEPT ![Top(t).u] = "queued"]
           /\ Schedule(t, Top(t).u, Front(stack[t]), FALSE)
  BY <1>1, <1>2, AgainKept
<1>3. CASE /\ status[Top(t).u] = "running" /\ status' = [status EXCEPT ![Top(t).u] = "idle"]
           /\ Put(t, Front(stack[t])) /\ UNCHANGED slot
  <2>1. UNCHANGED <<parent, queues, counts, parkers, stops>>
    BY <1>1, <1>3 DEF queues
  <2>. QED
    BY <1>1, <1>3, <2>1, IdleKept
<1>. QED
  BY <1>2, <1>3 DEF TaskPending

-----------------------------------------------------------------------------
(* The calls of user code.                                                 *)

\* A unit is submitted by whoever calls.
LEMMA SubmitFacts ==
  ASSUME Inv, NEW t \in Threads, User(t), NEW v \in Units, status[v] = "new",
         status' = [status EXCEPT ![v] = "queued"], parent' = [parent EXCEPT ![v] = Name(t)]
  PROVE  /\ Settled /\ ParentInv'
         /\ parent' \in [Units -> Units \cup Threads \cup {NoUnit}]
         /\ status' \in [Units -> {"new", "queued", "running", "again", "idle", "done"}]
         /\ status'[v] = "queued" /\ parent'[v] = Name(t)
         /\ \A u \in Units : u # v => status'[u] = status[u] /\ parent'[u] = parent[u]
<1>1. /\ status \in [Units -> {"new", "queued", "running", "again", "idle", "done"}]
      /\ parent \in [Units -> Units \cup Threads \cup {NoUnit}]
      /\ Name(t) \in Units \cup Threads
  BY CallerFacts DEF Inv, DataTypes
<1>2. /\ parent' \in [Units -> Units \cup Threads \cup {NoUnit}]
      /\ status' \in [Units -> {"new", "queued", "running", "again", "idle", "done"}]
      /\ status'[v] = "queued" /\ parent'[v] = Name(t)
      /\ \A u \in Units : u # v => status'[u] = status[u] /\ parent'[u] = parent[u]
  BY <1>1
<1>3. Settled
  BY <1>2 DEF Settled
<1>4. ParentInv'
  <2>. SUFFICES ASSUME NEW u \in Units, parent'[u] \in Jobs
                PROVE  status'[parent'[u]] \notin {"new", "queued"}
    BY DEF ParentInv
  <2>1. parent'[u] \in Units /\ status[parent'[u]] \notin {"new", "queued"}
    <3>1. CASE u = v
      BY <1>2, <3>1, CallerFacts DEF Units
    <3>2. CASE u # v
      BY <1>2, <3>2 DEF Inv, WaitInv, ParentInv, Units
    <3>. QED
      BY <3>1, <3>2
  <2>. QED
    BY <1>2, <2>1
<1>. QED
  BY <1>2, <1>3, <1>4

LEMMA SpawnTaskKept ==
  ASSUME Inv, NEW t \in Threads, NEW v \in Tasks, SpawnTask(t, v)
  PROVE  Inv'
<1>1. /\ User(t) /\ v \in Units /\ status[v] = "new" /\ ~closed
      /\ status' = [status EXCEPT ![v] = "queued"] /\ parent' = [parent EXCEPT ![v] = Name(t)]
      /\ Schedule(t, v, Called(t), Owner(t))
      /\ UNCHANGED <<injector, blockingQueue, counts, parkers, stops>>
  BY DEF SpawnTask, May, Units
<1>2. Settled /\ ParentInv' /\ parent' \in [Units -> Units \cup Threads \cup {NoUnit}]
  BY <1>1, SubmitFacts
<1>3. Queues(v) /\ status[v] # "again"
  BY <1>1, <1>2 DEF Queues
<1>. QED
  BY <1>1, <1>3, ScheduleKept

\* A task that is woken while it runs notes it.
LEMMA WakeRunning ==
  ASSUME Inv, NEW t \in Threads, User(t), NEW v \in Tasks, status[v] = "running",
         status' = [status EXCEPT ![v] = "again"], Put(t, Called(t)),
         UNCHANGED <<parent, queues, counts, parkers, stops>>
  PROVE  Inv'
<1>1. PICK f : f = [Top(t) EXCEPT !.work = @ + 1]
  OBVIOUS
<1>2. /\ Busy(t) /\ FrameOK(t, f) /\ f.kind = Top(t).kind /\ f.u = Top(t).u /\ f.pc = "user"
      /\ f.p = NoParker /\ Top(t).kind \in UserKinds /\ Called(t) = WithTop(t, f)
      /\ SameMarks(f, Top(t)) /\ ~Quiet(f) /\ ~Holding(f) /\ f.kind \notin {"wait", "stop", "wake"}
      /\ ~Parks(f) /\ ~Parks(Top(t)) /\ Me(t) \notin parked
  BY <1>1, CalledFrame
<1>3. /\ v \in Units /\ status'[v] = "again" /\ \A u \in Units : u # v => status'[u] = status[u]
      /\ status' \in [Units -> {"new", "queued", "running", "again", "idle", "done"}]
  BY DEF Inv, DataTypes, Units
<1>4. DataTypes'
  BY <1>3 DEF Inv, DataTypes, queues, counts, stops
<1>5. Settled /\ ~AllOver
  BY <1>3 DEF Settled, AllOver
<1>6. ParentInv'
  <2>. SUFFICES ASSUME NEW u \in Units, parent[u] \in Jobs
                PROVE  status'[parent[u]] \notin {"new", "queued"}
    BY DEF ParentInv
  <2>1. parent[u] \in Units /\ status[parent[u]] \notin {"new", "queued"}
    BY DEF Inv, WaitInv, ParentInv, Units
  <2>. QED
    BY <1>3, <2>1
<1>7. /\ IsInjective(injector') /\ IsInjective(blockingQueue') /\ SlotsSettled
      /\ permit' \subseteq Spots(ParkMarks) /\ stopParkers' \subseteq Spots(ParkMarks)
      /\ parked' = parked /\ UNCHANGED counts /\ UNCHANGED <<slot, closed, queueClosed, blockingQueue>>
  BY <1>5, DataSettled DEF Inv, PlaceInv, OnePlace, ParkerInv, queues, parkers, stops
<1>8. Turns(t, f) /\ Below(t)
  BY <1>2, RewriteForm DEF Inv, Turns, Rewrites
<1>9. Neutral(t)
  BY <1>2, <1>8, TurnNeutral
<1>10. ParkerInv'
  BY <1>2, <1>7, <1>8, TurnParkers DEF Inv
<1>11. SlotInv'
  BY <1>2, <1>7, <1>8, TurnSlot DEF Inv, Shade
<1>12. ChildInv'
  BY <1>2, <1>7, <1>8, TurnChild DEF Inv, WaitInv
<1>13. RunningInv' /\ OneRunning'
  <2>1. ASSUME NEW u \in Units PROVE status'[u] = status[u] \/ (u \in Tasks /\ status'[u] \in {"running", "again"})
    BY <1>3
  <2>. QED
    BY <1>2, <1>8, <2>1, TurnRunning DEF Inv, PlaceInv
<1>14. QueuedInv' /\ OnePlace'
  <2>1. ASSUME NEW u \in Units, NEW k \in Places, NEW x \in Holders, In(k, x, u)'
        PROVE  In(k, x, u) /\ status'[u] = status[u]
    <3>1. In(k, x, u)
      <4>1. CASE k = "hand"
        <5>1. x \in Threads
          BY <2>1, <4>1 DEF In
        <5>2. CASE x = t
          BY <1>2, <1>8, <2>1, <4>1, <5>2, TurnHand
        <5>3. CASE x # t
          BY <1>8, <2>1, <4>1, <5>1, <5>3, HandOther DEF Inv
        <5>. QED
          BY <5>2, <5>3
      <4>2. CASE k # "hand"
        BY <2>1, <4>2 DEF In, queues
      <4>. QED
        BY <4>1, <4>2
    <3>2. status[u] = "queued"
      BY <3>1 DEF Inv, PlaceInv, QueuedInv
    <3>. QED
      BY <1>3, <3>1, <3>2
  <2>. QED
    BY <1>7, <2>1, PlacesShrink DEF Inv, PlaceInv
<1>. QED
  BY <1>4, <1>5, <1>6, <1>7, <1>9, <1>10, <1>11, <1>12, <1>13, <1>14, Assembled

LEMMA WakeTaskKept ==
  ASSUME Inv, NEW t \in Threads, NEW v \in Tasks, WakeTask(t, v)
  PROVE  Inv'
<1>1. /\ User(t) /\ v \in Units /\ status[v] \in {"idle", "running"}
      /\ UNCHANGED <<parent, injector, blockingQueue, counts, parkers, stops>>
      /\ status' = [status EXCEPT ![v] = IF @ = "idle" THEN "queued" ELSE "again"]
  BY DEF WakeTask, May, Units
<1>2. status \in [Units -> {"new", "queued", "running", "again", "idle", "done"}]
  BY DEF Inv, DataTypes
<1>3. CASE status[v] = "idle"
  <2>1. /\ status' = [status EXCEPT ![v] = "queued"] /\ Schedule(t, v, Called(t), Owner(t))
    BY <1>1, <1>2, <1>3 DEF WakeTask
  <2>2. status'[v] = "queued" /\ \A u \in Units : u # v => status'[u] = status[u]
    BY <1>1, <1>2, <2>1
  <2>3. Settled /\ ~AllOver
    BY <1>1, <1>3, <2>2 DEF Settled, AllOver
  <2>4. ParentInv'
    <3>. SUFFICES ASSUME NEW u \in Units, parent[u] \in Jobs
                  PROVE  status'[parent[u]] \notin {"new", "queued"}
      BY <1>1 DEF ParentInv
    <3>1. parent[u] # v /\ parent[u] \in Units
      BY SchedulerAssumption DEF Units
    <3>2. status[parent[u]] \notin {"new", "queued"}
      BY DEF Inv, WaitInv, ParentInv
    <3>. QED
      BY <2>2, <3>1, <3>2
  <2>5. parent' \in [Units -> Units \cup Threads \cup {NoUnit}]
    BY <1>1 DEF Inv, DataTypes
  <2>6. Queues(v) /\ status[v] # "again"
    BY <1>1, <1>3, <2>1, <2>3, <2>4, <2>5 DEF Queues
  <2>. QED
    BY <1>1, <2>1, <2>6, ScheduleKept
<1>4. CASE status[v] = "running"
  <2>1. status' = [status EXCEPT ![v] = "again"] /\ Put(t, Called(t)) /\ UNCHANGED slot
    BY <1>1, <1>2, <1>4 DEF WakeTask
  <2>2. UNCHANGED <<parent, queues, counts, parkers, stops>>
    BY <1>1, <2>1 DEF queues
  <2>. QED
    BY <1>1, <1>4, <2>1, <2>2, WakeRunning
<1>. QED
  BY <1>1, <1>3, <1>4

LEMMA EnqueueFrameOK ==
  ASSUME NEW t \in Threads, NEW u \in Jobs
  PROVE  LET g == Frame("wake", "enqueue", u) IN
         /\ FrameOK(t, g) /\ g.kind = "wake" /\ g.pc = "enqueue" /\ g.u = u /\ g.p = NoParker
         /\ Unmarked(g) /\ ~Quiet(g) /\ Holding(g) /\ ~Runner(g)
  BY DEF Frame, FrameOK, FrameTypes, Kinds, Pcs, WakePcs, NoParker, Parkers, Units, Runner,
         Unmarked, Mark, LaneMarks, DrainMarks, DriverKinds, Quiet, Holding

LEMMA SpawnBlockingKept ==
  ASSUME Inv, NEW t \in Threads, NEW v \in Jobs, SpawnBlocking(t, v)
  PROVE  Inv'
<1>1. PICK f : f = [Top(t) EXCEPT !.work = @ + 1]
  OBVIOUS
<1>2. PICK g : g = Frame("wake", "enqueue", v)
  OBVIOUS
<1>3. /\ User(t) /\ v \in Units /\ status[v] = "new" /\ ~closed
      /\ status' = [status EXCEPT ![v] = "queued"] /\ parent' = [parent EXCEPT ![v] = Name(t)]
      /\ Put(t, Append(Called(t), g))
      /\ UNCHANGED <<queues, counts, parkers, stops>>
  BY <1>2 DEF SpawnBlocking, May, Units
<1>4. /\ Busy(t) /\ FrameOK(t, f) /\ f.kind = Top(t).kind /\ f.u = Top(t).u /\ f.pc = "user"
      /\ f.p = NoParker /\ Top(t).kind \in UserKinds /\ Called(t) = WithTop(t, f)
      /\ SameMarks(f, Top(t)) /\ ~Quiet(f) /\ f.kind \notin {"wait", "stop", "wake"}
      /\ ~Parks(f) /\ ~Parks(Top(t)) /\ Me(t) \notin parked
  BY <1>1, <1>3, CalledFrame
<1>5. /\ FrameOK(t, g) /\ g.kind = "wake" /\ g.pc = "enqueue" /\ g.u = v /\ g.p = NoParker
      /\ Unmarked(g) /\ ~Quiet(g) /\ Holding(g) /\ ~Runner(g)
  BY <1>2, EnqueueFrameOK
<1>6. /\ Settled /\ ParentInv'
      /\ parent' \in [Units -> Units \cup Threads \cup {NoUnit}]
      /\ status' \in [Units -> {"new", "queued", "running", "again", "idle", "done"}]
      /\ status'[v] = "queued" /\ \A u \in Units : u # v => status'[u] = status[u]
  BY <1>3, SubmitFacts
<1>7. DataTypes'
  BY <1>3, <1>6 DEF Inv, DataTypes, queues, counts, stops
<1>8. /\ IsInjective(injector') /\ IsInjective(blockingQueue') /\ SlotsSettled
      /\ permit' \subseteq Spots(ParkMarks) /\ stopParkers' \subseteq Spots(ParkMarks)
      /\ parked' = parked /\ UNCHANGED counts
      /\ UNCHANGED <<slot, closed, queueClosed, injector, blockingQueue>>
  BY <1>3, <1>6, DataSettled DEF Inv, PlaceInv, OnePlace, ParkerInv, queues, parkers, stops
<1>9. Adds(t, f, g) /\ Below(t)
  <2>1. Calls2(t, f, g)
    BY <1>3, <1>4 DEF Calls2
  <2>2. Nests(f, g)
    BY <1>4, <1>5 DEF Nests, Bases
  <2>3. Adds(t, f, g)
    BY <1>4, <1>5, <2>1, <2>2, CallForm DEF Inv
  <2>. QED
    BY <2>3 DEF Adds
<1>10. Neutral(t)
  BY <1>4, <1>5, <1>9, AddNeutral
<1>11. ParkerInv'
  BY <1>4, <1>5, <1>8, <1>9, AddParkers DEF Inv
<1>12. RunningInv' /\ OneRunning'
  <2>1. ASSUME NEW u \in Units, status[u] \in {"running", "again"} PROVE status'[u] = status[u]
    BY <1>3, <1>6, <2>1
  <2>. QED
    BY <1>4, <1>5, <1>9, <2>1, AddRunning DEF Inv, PlaceInv
<1>13. SlotInv'
  BY <1>4, <1>5, <1>8, <1>9, AddSlot DEF Inv, Shade
<1>14. ChildInv'
  BY <1>4, <1>5, <1>8, <1>9, AddChild DEF Inv, WaitInv
<1>15. QueuedInv' /\ OnePlace'
  <2>1. ASSUME NEW u \in Units, NEW k \in Places, NEW x \in Holders, In(k, x, u)'
        PROVE  \/ In(k, x, u) /\ status'[u] = status[u]
               \/ u = v /\ k = "hand" /\ x = t
    <3>1. ASSUME In(k, x, u) PROVE status'[u] = status[u]
      <4>1. status[u] = "queued"
        BY <3>1 DEF Inv, PlaceInv, QueuedInv
      <4>. QED
        BY <1>3, <1>6, <4>1
    <3>2. CASE k = "hand"
      <4>1. x \in Threads
        BY <2>1, <3>2 DEF In
      <4>2. CASE x = t
        BY <1>5, <1>9, <2>1, <3>2, <4>2, AddHand
      <4>3. CASE x # t
        BY <1>9, <2>1, <3>1, <3>2, <4>1, <4>3, HandOther DEF Inv
      <4>. QED
        BY <4>2, <4>3
    <3>3. CASE k # "hand"
      BY <1>8, <2>1, <3>1, <3>3 DEF In
    <3>. QED
      BY <3>2, <3>3
  <2>. QED
    BY <1>3, <1>6, <1>8, <2>1, PlacesGrow DEF Inv, PlaceInv
<1>. QED
  BY <1>3, <1>6, <1>7, <1>8, <1>10, <1>11, <1>12, <1>13, <1>14, <1>15, Assembled

\* A call whose caller adds a frame and leaves every unit as it is.
LEMMA CallsOver ==
  ASSUME Inv, NEW t \in Threads, User(t), NEW f, f = [Top(t) EXCEPT !.work = @ + 1],
         NEW g, FrameOK(t, g), Nests(f, g), g.p = NoParker, Unmarked(g), ~Quiet(g), ~Runner(g),
         ~Holding(g), Put(t, Append(Called(t), g)),
         Unmoved, UNCHANGED <<counts, parked, stopping, closed, queueClosed, aborting, idleAsleep>>,
         permit' \subseteq Spots(ParkMarks) \/ (Parks(g) /\ permit' \subseteq Spots(ParkMarks) \cup {Me(t)'}),
         stopParkers' \subseteq Spots(ParkMarks)
           \/ (Parks(g) /\ stopParkers' \subseteq Spots(ParkMarks) \cup {Me(t)'})
  PROVE  Inv'
<1>1. /\ Busy(t) /\ FrameOK(t, f) /\ f.kind = Top(t).kind /\ f.u = Top(t).u /\ f.pc = "user"
      /\ f.p = NoParker /\ Top(t).kind \in UserKinds /\ Called(t) = WithTop(t, f)
      /\ SameMarks(f, Top(t)) /\ ~Quiet(f) /\ f.kind \notin {"wait", "stop", "wake"}
      /\ ~Parks(f) /\ ~Parks(Top(t)) /\ Me(t) \notin parked
  BY CalledFrame
<1>2. Adds(t, f, g) /\ Below(t)
  <2>1. Calls2(t, f, g)
    BY <1>1 DEF Calls2
  <2>2. Adds(t, f, g)
    BY <1>1, <2>1, CallForm DEF Inv
  <2>. QED
    BY <2>2 DEF Adds
<1>3. /\ Settled /\ SlotsSettled /\ ParentInv' /\ (AllOver => AllOver')
      /\ \A u \in Units : status[u] \in {"running", "again"} => status'[u] = status[u]
      /\ IsInjective(injector') /\ IsInjective(blockingQueue')
      /\ \A u \in Units, k \in Places, x \in Holders :
           k # "hand" /\ In(k, x, u)' => In(k, x, u) /\ status'[u] = status[u]
  BY UnmovedFacts
<1>4. DataTypes'
  BY DEF Inv, DataTypes, Unmoved, units, queues, counts
<1>5. Lanes' = Lanes /\ Draining' = Draining
  BY <1>1, <1>2, AddCounts DEF Inv
<1>6. ParkerInv'
  BY <1>1, <1>2, AddParkers DEF Inv
<1>7. SlotInv'
  BY <1>1, <1>2, AddSlot DEF Inv, Shade, Unmoved, queues
<1>8. RunningInv' /\ OneRunning'
  BY <1>1, <1>2, <1>3, AddRunning DEF Inv, PlaceInv
<1>9. ChildInv'
  BY <1>1, <1>2, <1>3, AddChild DEF Inv, WaitInv, Unmoved, queues, Runner
<1>10. StopPc' = StopPc
  BY <1>1, <1>2, StopPcKept DEF Inv, UserKinds
<1>11. QueuedInv' /\ OnePlace'
  <2>1. \A u \in Units : ~In("hand", t, u)'
    BY <1>2, AddHand
  <2>2. UNCHANGED status
    BY DEF Unmoved, units
  <2>. QED
    BY <1>2, <1>3, <2>1, <2>2, HandsShrink
<1>12. LaneInv' /\ DrainInv'
  BY <1>5, CountsKept DEF Inv
<1>13. StopInv'
  BY <1>3, <1>5, <1>10, StopKept DEF Inv, Unmoved, queues
<1>. QED
  BY <1>2, <1>3, <1>4, <1>6, <1>7, <1>8, <1>9, <1>11, <1>12, <1>13 DEF Inv, Below, PlaceInv, WaitInv

LEMMA BlockOnKept ==
  ASSUME Inv, NEW t \in Threads, NEW u \in Units \cup {NoUnit}, BlockOn(t, u)
  PROVE  Inv'
<1>1. PICK f : f = [Top(t) EXCEPT !.work = @ + 1]
  OBVIOUS
<1>2. PICK g : g = Frame(IF t \in Workers THEN "coop" ELSE "block", "top", u)
  OBVIOUS
<1>3. PICK me : me = <<t, Len(Called(t)) + 1>>
  OBVIOUS
<1>4. /\ User(t) /\ ~closed /\ Put(t, Append(Called(t), g))
      /\ stopParkers' = stopParkers \cup {me}
      /\ permit' = IF stopping THEN permit \cup {me} ELSE permit
      /\ UNCHANGED <<units, queues, counts, parked, stopping, closed, queueClosed, aborting, idleAsleep>>
  BY <1>2, <1>3 DEF BlockOn, May, EnterBlockOn
<1>5. /\ Busy(t) /\ f.kind = Top(t).kind /\ Top(t).kind \in UserKinds /\ Called(t) = WithTop(t, f)
      /\ FrameOK(t, f)
      /\ Top(t).kind = "host" <=> t \in Hosts
      /\ Top(t).kind # "host" => t \in Workers
  BY <1>1, <1>4, CalledFrame
<1>6. /\ g.kind = IF t \in Workers THEN "coop" ELSE "block"
      /\ g.pc = "top" /\ g.u = u /\ g.p = NoParker /\ g \in FrameTypes
  BY <1>2 DEF Frame, FrameTypes, Kinds, Pcs, CoopPcs, NoParker, Parkers
<1>7. FrameOK(t, g)
  BY <1>5, <1>6 DEF FrameOK, CoopPcs
<1>8. Nests(f, g)
  BY <1>5, <1>6, SchedulerAssumption DEF Nests, UserKinds, Bases
<1>9. Unmarked(g) /\ ~Quiet(g) /\ ~Runner(g) /\ ~Holding(g) /\ Parks(g) /\ g.kind # "wait"
  BY <1>6 DEF Unmarked, Mark, LaneMarks, DrainMarks, LanePcs, Quiet, QuietPcs, Retired, Leaving,
     Runner, Holding, Parks, ParkingKinds
<1>10. Me(t)' = me
  <2>1. stack[t] \in Seq(FrameTypes) /\ stack[t] # <<>> /\ f \in FrameTypes /\ g \in FrameTypes
    BY <1>5, <1>6, TopFacts DEF Inv, FrameOK
  <2>2. Called(t) \in Seq(FrameTypes)
    BY <1>5, <2>1, ReplaceFacts DEF WithTop
  <2>3. Len(Append(Called(t), g)) = Len(Called(t)) + 1
    BY <2>1, <2>2, AppendProperties
  <2>4. stack'[t] = Append(Called(t), g)
    BY <1>4, PutFacts DEF Inv
  <2>. QED
    BY <1>3, <2>3, <2>4 DEF Me
<1>11. /\ permit' \subseteq Spots(ParkMarks) \cup {Me(t)'}
       /\ stopParkers' \subseteq Spots(ParkMarks) \cup {Me(t)'}
  BY <1>4, <1>10 DEF Inv, ParkerInv
<1>12. Unmoved
  BY <1>4 DEF Unmoved
<1>. QED
  BY <1>1, <1>4, <1>6, <1>7, <1>8, <1>9, <1>11, <1>12, CallsOver

LEMMA SyncWaitKept ==
  ASSUME Inv, NEW t \in Threads, NEW u \in Units, SyncWait(t, u)
  PROVE  Inv'
<1>1. PICK f : f = [Top(t) EXCEPT !.work = @ + 1]
  OBVIOUS
<1>2. PICK g : g = Frame("wait", "waiting", u)
  OBVIOUS
<1>3. /\ User(t) /\ Top(t).kind = "job" /\ status[u] # "new" /\ Put(t, Append(Called(t), g))
      /\ UNCHANGED <<units, queues, counts, parkers, stops>>
  BY <1>2 DEF SyncWait, May, Owner
<1>4. /\ f.kind = Top(t).kind /\ t \in Workers
  BY <1>1, <1>3, CalledFrame
<1>5. /\ g.kind = "wait" /\ g.pc = "waiting" /\ g.u = u /\ g.p = NoParker /\ g \in FrameTypes
  BY <1>2 DEF Frame, FrameTypes, Kinds, Pcs, NoParker, Parkers
<1>6. FrameOK(t, g)
  BY <1>4, <1>5 DEF FrameOK
<1>7. Nests(f, g)
  BY <1>3, <1>4, <1>5 DEF Nests, Bases
<1>8. Unmarked(g) /\ ~Quiet(g) /\ ~Runner(g) /\ ~Holding(g)
  BY <1>5 DEF Unmarked, Mark, LaneMarks, DrainMarks, DriverKinds, Quiet, Runner, Holding
<1>9. permit' \subseteq Spots(ParkMarks) /\ stopParkers' \subseteq Spots(ParkMarks)
  BY <1>3 DEF Inv, ParkerInv, parkers, stops
<1>10. Unmoved /\ UNCHANGED <<counts, parked, stopping, closed, queueClosed, aborting, idleAsleep>>
  BY <1>3 DEF Unmoved, parkers, stops
<1>. QED
  BY <1>1, <1>3, <1>5, <1>6, <1>7, <1>8, <1>9, <1>10, CallsOver

LEMMA CallKept ==
  ASSUME Inv, NEW t \in Threads, UserCall(t)
  PROVE  Inv'
  BY SpawnTaskKept, WakeTaskKept, SpawnBlockingKept, SyncWaitKept, BlockOnKept DEF UserCall

-----------------------------------------------------------------------------
(* block_on goes round its loop, and leaves.                               *)

\* A block_on frame goes to another program counter.
LEMMA LoopMove ==
  ASSUME Inv, NEW t \in Threads, Busy(t), Top(t).kind \in {"coop", "block"},
         Top(t).pc \in {"top", "sleep"},
         NEW pc, Go(t, pc), Top(t).kind = "coop" => pc \in {"leave", "force", "fair"},
         Top(t).kind = "block" => pc \in {"out", "sleep", "top"},
         permit' \subseteq permit, UNCHANGED <<units, queues, counts, parked, stops>>
  PROVE  Inv'
<1>1. PICK f : f = [Top(t) EXCEPT !.pc = pc]
  OBVIOUS
<1>2. FrameOK(t, Top(t))
  BY TopFacts DEF Inv
<1>3. pc \in Pcs
  BY DEF Pcs, CoopPcs, Leaving
<1>4. f \in FrameTypes /\ f.kind = Top(t).kind /\ f.u = Top(t).u /\ f.p = Top(t).p /\ f.pc = pc
  BY <1>1, <1>2, <1>3 DEF FrameOK, FrameTypes
<1>5. FrameOK(t, f)
  BY <1>2, <1>4 DEF FrameOK, CoopPcs, Leaving
<1>6. Rewrites(t, f)
  BY <1>1 DEF Go, Rewrites
<1>7. ~Quiet(f) /\ f.kind \notin {"wake", "stop"} /\ SameMarks(f, Top(t))
  BY <1>4 DEF Quiet, DriverKinds, QuietPcs, Retired, Leaving, SameMarks, Mark, LaneMarks, LanePcs, DrainMarks
<1>8. Me(t) \notin parked
  BY MyIdle DEF Idling
<1>9. /\ Still /\ permit' \subseteq Spots(ParkMarks) /\ stopParkers' \subseteq Spots(ParkMarks)
      /\ parked' \subseteq parked \cup {Me(t)} /\ Me(t) \notin parked'
  BY <1>8 DEF Still, stops, Inv, ParkerInv
<1>. QED
  BY <1>4, <1>5, <1>6, <1>7, <1>9, MoveKept

LEMMA LoopKept ==
  ASSUME Inv, NEW t \in Threads, Poll(t) \/ HostPark(t)
  PROVE  Inv'
<1>1. CASE Poll(t)
  <2>1. PICK pc : pc = IF stopping \/ Ended(Top(t).u)
                       THEN (IF Top(t).kind = "coop" THEN "leave" ELSE "out")
                       ELSE IF Top(t).kind = "block" THEN "sleep" ELSE IF Top(t).force THEN "force" ELSE "fair"
    OBVIOUS
  <2>2. /\ Busy(t) /\ Top(t).kind \in {"coop", "block"} /\ Top(t).pc = "top" /\ Go(t, pc)
        /\ UNCHANGED <<units, queues, counts, parked, stops>> /\ permit' \subseteq permit
    BY <1>1, <2>1 DEF Poll, parkers
  <2>3. /\ Top(t).kind = "coop" => pc \in {"leave", "force", "fair"}
        /\ Top(t).kind = "block" => pc \in {"out", "sleep", "top"}
    BY <2>1
  <2>. QED
    BY <2>2, <2>3, LoopMove
<1>2. CASE HostPark(t)
  BY <1>2, LoopMove DEF HostPark, At
<1>. QED
  BY <1>1, <1>2

LEMMA QuietTop ==
  ASSUME Inv, NEW t \in Threads, Busy(t), t \in Workers => Quiet(Top(t))
  PROVE  t \in Workers => slot[t] = NoUnit
<1>1. PICK n : n = Len(stack[t]) /\ n \in Nat \ {0} /\ Top(t) = stack[t][n]
  BY TopFacts DEF Inv
<1>2. n \in 1..n /\ \A j \in n+1..n : FALSE
  BY <1>1
<1>. QED
  BY <1>1, <1>2 DEF Inv, SlotInv, SlotOK, Quiet

\* Only the innermost frame of a thread can be a wake.
LEMMA NoNamesBelow ==
  ASSUME Stacks, NEW t \in Threads, NEW i \in 1..Len(stack[t])-1
  PROVE  stack[t][i].p = NoParker
<1>1. PICK n \in Nat : n = Len(stack[t])
  BY LenProperties DEF Stacks, StackOK
<1>2. i \in 1..n /\ i+1 \in 1..n /\ i+1 # 1 /\ (i+1)-1 = i
  BY <1>1
<1>3. Nests(stack[t][i], stack[t][i+1]) /\ FrameOK(t, stack[t][i]) /\ FrameOK(t, stack[t][i+1])
  BY <1>1, <1>2 DEF Stacks, StackOK
<1>4. stack[t][i].kind # "wake"
  BY <1>3 DEF Nests, FrameOK, FrameTypes, Kinds, Bases, DriverKinds, UserKinds
<1>. QED
  BY <1>3, <1>4 DEF FrameOK

\* A frame that could park ends, and takes its parker along.
LEMMA LeaveKept ==
  ASSUME Inv, NEW t \in Threads, Busy(t), Parks(Top(t)), Unmarked(Top(t)), Top(t).pc \notin Idling,
         stack' = WithoutTop(t), t \in Workers => slot[t] = NoUnit,
         stopParkers' = stopParkers \ {Me(t)}, permit' = permit \ {Me(t)}, idleAsleep' \in BOOLEAN,
         UNCHANGED <<units, queues, counts, parked, stopping, closed, queueClosed, aborting>>
  PROVE  Inv'
<1>1. /\ Drops(t) /\ Below(t)
      /\ \A x \in Threads \ {t} : \A i \in 1..Len(stack[x]) :
           stack'[x][i] = Forgets(stack[x][i], Me(t))
  <2>1. /\ Drops(t)
        /\ \A x \in Threads \ {t} : \A i \in 1..Len(stack[x]) :
             stack'[x][i] = Forgets(stack[x][i], Me(t))
    BY EraseForm DEF Inv, Parks
  <2>. QED
    BY <2>1 DEF Drops
<1>2. Unmoved
  BY DEF Unmoved
<1>3. /\ Settled /\ SlotsSettled /\ ParentInv' /\ (AllOver => AllOver')
      /\ \A u \in Units : status[u] \in {"running", "again"} => status'[u] = status[u]
      /\ IsInjective(injector') /\ IsInjective(blockingQueue')
      /\ \A u \in Units, k \in Places, x \in Holders :
           k # "hand" /\ In(k, x, u)' => In(k, x, u) /\ status'[u] = status[u]
  BY <1>2, UnmovedFacts
<1>4. DataTypes'
  BY DEF Inv, DataTypes, units, queues, counts
<1>5. Lanes' = Lanes /\ Draining' = Draining
  BY <1>1, DropCounts DEF Inv
<1>6. ParkerInv'
  <2>1. Me(t) \notin parked
    BY MyIdle
  <2>2. /\ Spots(IdleMarks)' = Spots(IdleMarks) \ {Me(t)}
        /\ Spots(ParkMarks)' = Spots(ParkMarks) \ {Me(t)}
    <3>1. Spots(IdleMarks)' = Spots(IdleMarks) \ {Me(t)}
      BY <1>1, SpotsDrop DEF Inv
    <3>2. Spots(ParkMarks)' = Spots(ParkMarks) \ {Me(t)}
      BY <1>1, SpotsDrop DEF Inv
    <3>. QED
      BY <3>1, <3>2
  <2>3. /\ parked' \subseteq Spots(IdleMarks)'
        /\ permit' \subseteq Spots(ParkMarks)' /\ stopParkers' \subseteq Spots(ParkMarks)'
    BY <2>1, <2>2 DEF Inv, ParkerInv
  <2>4. ASSUME NEW x \in Threads, NEW i \in 1..Len(stack'[x])
        PROVE  stack'[x][i].p = NoParker \/ stack'[x][i].p \in Spots(ParkMarks)'
    <3>1. CASE x = t
      <4>1. i \in 1..Len(stack[t])-1
        BY <1>1, <3>1 DEF Drops
      <4>2. stack'[t][i] = stack[t][i]
        BY <1>1, <4>1 DEF Below
      <4>. QED
        BY <3>1, <4>1, <4>2, NoNamesBelow DEF Inv
    <3>2. CASE x # t
      <4>1. i \in 1..Len(stack[x])
        BY <1>1, <3>2 DEF Below
      <4>2. stack'[x][i] = Forgets(stack[x][i], Me(t))
        BY <1>1, <3>2, <4>1
      <4>3. stack[x][i].p = NoParker \/ stack[x][i].p \in Spots(ParkMarks)
        BY <4>1 DEF Inv, ParkerInv
      <4>4. CASE stack[x][i].p = Me(t)
        <5>1. FrameOK(x, stack[x][i])
          BY <4>1 DEF Inv, Stacks, StackOK
        <5>2. stack'[x][i].p \in {stack[x][i].p, NoParker} /\ stack'[x][i] = [stack[x][i] EXCEPT !.p = NoParker]
          BY <1>1, <3>2, <4>1, <4>2, <4>4 DEF Forgets, Below
        <5>. QED
          BY <5>1, <5>2 DEF FrameOK, FrameTypes
      <4>5. CASE stack[x][i].p # Me(t)
        BY <2>2, <4>2, <4>3, <4>5 DEF Forgets
      <4>. QED
        BY <4>4, <4>5
    <3>. QED
      BY <3>1, <3>2
  <2>. QED
    BY <2>3, <2>4 DEF ParkerInv
<1>7. SlotInv' /\ ChildInv'
  <2>1. /\ \A x \in Workers \ {t} : slot'[x] = slot[x]
        /\ t \in Workers => slot'[t] = NoUnit
    BY DEF queues
  <2>. QED
    BY <1>1, <1>3, <2>1, EmptySlot, EmptyChild DEF Inv, WaitInv
<1>8. RunningInv' /\ OneRunning'
  BY <1>1, <1>3, DropRunning DEF Inv, PlaceInv
<1>9. StopPc' = StopPc
  BY <1>1, StopPcKept DEF Inv, Parks, ParkingKinds
<1>10. QueuedInv' /\ OnePlace'
  <2>1. \A u \in Units : ~In("hand", t, u)'
    BY <1>1, DropHand DEF Inv
  <2>2. UNCHANGED status
    BY DEF units
  <2>. QED
    BY <1>1, <1>3, <2>1, <2>2, HandsShrink
<1>11. LaneInv' /\ DrainInv'
  BY <1>5, CountsKept DEF Inv
<1>12. StopInv'
  BY <1>3, <1>5, <1>9, StopKept DEF Inv, queues
<1>. QED
  BY <1>1, <1>3, <1>4, <1>6, <1>7, <1>8, <1>10, <1>11, <1>12 DEF Inv, Below, PlaceInv, WaitInv

LEMMA NotifyKept ==
  ASSUME Inv, NEW t \in Threads, NotifyIdle(t)
  PROVE  Inv'
<1>1. /\ Busy(t) /\ Top(t).kind \in DriverKinds /\ Top(t).pc = "notify" /\ t \in Workers
      /\ Top(t).kind = "coop" => "notify" \in CoopPcs
  BY DrivingTop DEF NotifyIdle
<1>2. Top(t).kind = "drain"
  BY <1>1 DEF DriverKinds, CoopPcs, Leaving
<1>3. Parks(Top(t)) /\ Unmarked(Top(t)) /\ Top(t).pc \notin Idling /\ Quiet(Top(t))
  BY <1>1, <1>2 DEF Parks, ParkingKinds, Unmarked, Mark, LaneMarks, LanePcs, DrainMarks, DrainPcs,
     Retired, Idling, Quiet, QuietPcs
<1>4. t \in Workers => slot[t] = NoUnit
  BY <1>1, <1>3, QuietTop
<1>. QED
  BY <1>1, <1>3, <1>4, LeaveKept DEF NotifyIdle

LEMMA LeaveBlockOnKept ==
  ASSUME Inv, NEW t \in Threads, LeaveBlockOn(t)
  PROVE  Inv'
<1>1. Busy(t) /\ Top(t).kind \in {"coop", "block"} /\ Top(t).pc = "out"
  BY DEF LeaveBlockOn, At
<1>2. FrameOK(t, Top(t))
  BY <1>1, TopFacts DEF Inv
<1>3. /\ Parks(Top(t)) /\ Unmarked(Top(t)) /\ Top(t).pc \notin Idling
  BY <1>1 DEF Parks, ParkingKinds, Unmarked, Mark, LaneMarks, LanePcs, DrainMarks, Idling
<1>4. t \in Workers => Quiet(Top(t))
  BY <1>1, <1>2, SchedulerAssumption DEF Quiet, DriverKinds, QuietPcs, Leaving, FrameOK
<1>5. t \in Workers => slot[t] = NoUnit
  BY <1>1, <1>4, QuietTop
<1>6. idleAsleep' \in BOOLEAN /\ UNCHANGED <<units, queues, counts, parked, stopping, closed, queueClosed, aborting>>
  BY DEF LeaveBlockOn, Inv, DataTypes
<1>. QED
  BY <1>1, <1>3, <1>5, <1>6, LeaveKept DEF LeaveBlockOn

-----------------------------------------------------------------------------
(* The stop of the generation.                                             *)

LEMMA StopTop ==
  ASSUME Inv, NEW pc, Stopping(pc)
  PROVE  /\ Stopper \in Threads /\ Busy(Stopper) /\ Top(Stopper).kind = "stop" /\ Top(Stopper).pc = pc
         /\ Len(stack[Stopper]) = 1 /\ Top(Stopper) = stack[Stopper][1] /\ StopPc = pc
         /\ pc \in StopPcs /\ Stopper \notin Workers
<1>1. Stopper \in Threads /\ Busy(Stopper) /\ Top(Stopper).kind = "stop" /\ Top(Stopper).pc = pc
  BY DEF Stopping, At, Threads
<1>2. Len(stack[Stopper]) = 1
  BY <1>1, TopNests DEF Inv, Nests, Bases
<1>3. Top(Stopper) = stack[Stopper][1] /\ FrameOK(Stopper, Top(Stopper))
  BY <1>1, <1>2, TopFacts DEF Inv
<1>. QED
  BY <1>1, <1>2, <1>3, SchedulerAssumption DEF StopPc, FrameOK

\* The stopper goes on; what it does to units leaves running ones alone.
LEMMA StopForm ==
  ASSUME Inv, NEW from, Stopping(from), NEW to \in StopPcs, Go(Stopper, to), Settled, DataTypes',
         ParentInv', UNCHANGED <<slot, counts, parked>>,
         permit' \subseteq Spots(ParkMarks), stopParkers' \subseteq Spots(ParkMarks),
         IsInjective(injector'), IsInjective(blockingQueue'),
         \A u \in Units : status[u] \in {"running", "again"} => status'[u] = status[u],
         \A u \in Units, k \in Places, x \in Holders :
           In(k, x, u) => status'[u] = status[u] \/ k = "queue",
         \A u \in Units, x \in Holders : In("injector", x, u)' => In("injector", x, u),
         \A u \in Units, x \in Holders : In("queue", x, u)' => In("queue", x, u) /\ status'[u] = status[u],
         StopPc = from /\ StopPc' = to /\ Lanes' = Lanes => StopInv'
  PROVE  Inv'
<1>1. /\ Stopper \in Threads /\ Busy(Stopper) /\ Top(Stopper).kind = "stop" /\ Top(Stopper).pc = from
      /\ Len(stack[Stopper]) = 1 /\ Top(Stopper) = stack[Stopper][1] /\ StopPc = from
      /\ from \in StopPcs /\ Stopper \notin Workers
  BY StopTop
<1>2. PICK f : f = [Top(Stopper) EXCEPT !.pc = to]
  OBVIOUS
<1>3. FrameOK(Stopper, Top(Stopper))
  BY <1>1, TopFacts DEF Inv
<1>4. f \in FrameTypes /\ f.kind = "stop" /\ f.u = Top(Stopper).u /\ f.p = NoParker /\ f.pc = to
  <2>1. to \in Pcs
    BY DEF Pcs
  <2>. QED
    BY <1>1, <1>2, <1>3, <2>1 DEF FrameOK, FrameTypes
<1>5. FrameOK(Stopper, f)
  BY <1>4 DEF FrameOK
<1>6. Turns(Stopper, f) /\ Below(Stopper) /\ Len(stack'[Stopper]) = 1 /\ stack'[Stopper][1] = f
  <2>1. Rewrites(Stopper, f)
    BY <1>2 DEF Go, Rewrites
  <2>2. Turns(Stopper, f)
    BY <1>1, <1>4, <1>5, <2>1, RewriteForm DEF Inv
  <2>. QED
    BY <1>1, <2>2 DEF Turns
<1>7. StopPc' = to
  BY <1>4, <1>6 DEF StopPc
<1>8. /\ SameMarks(f, Top(Stopper)) /\ ~Quiet(f) /\ ~Holding(f) /\ ~Parks(f) /\ ~Parks(Top(Stopper))
      /\ ~Runner(f)
  BY <1>1, <1>4, <1>5, OnlyWakesHold DEF SameMarks, Mark, LaneMarks, DrainMarks, DriverKinds, Quiet,
     Parks, ParkingKinds, Runner
<1>9. Lanes' = Lanes /\ Draining' = Draining
  BY <1>1, <1>6, <1>8, TurnCounts DEF Inv
<1>10. ParkerInv'
  <2>1. Me(Stopper) \notin parked
    BY <1>1, MyIdle DEF StopPcs, Idling
  <2>. QED
    BY <1>1, <1>4, <1>6, <1>8, <2>1, TurnParkers DEF Inv
<1>11. SlotInv'
  BY <1>1, <1>6, TurnSlot DEF Inv
<1>12. SlotsSettled
  BY DataSettled DEF Inv, PlaceInv
<1>13. ChildInv'
  BY <1>1, <1>4, <1>6, <1>12, TurnChild DEF Inv, WaitInv
<1>14. RunningInv' /\ OneRunning'
  BY <1>1, <1>6, <1>8, TurnRunning DEF Inv, PlaceInv
<1>15. QueuedInv' /\ OnePlace'
  <2>1. ASSUME NEW u \in Units, NEW k \in Places, NEW x \in Holders, In(k, x, u)'
        PROVE  In(k, x, u) /\ status'[u] = status[u]
    <3>1. CASE k = "injector"
      BY <2>1, <3>1
    <3>2. CASE k = "queue"
      BY <2>1, <3>2
    <3>3. CASE k = "slot"
      <4>1. In(k, x, u)
        BY <2>1, <3>3 DEF In
      <4>. QED
        BY <3>3, <4>1
    <3>4. CASE k = "hand"
      <4>1. x \in Threads
        BY <2>1, <3>4 DEF In
      <4>2. x # Stopper
        BY <1>1, <1>6, <1>8, <2>1, <3>4, TurnHand
      <4>3. In(k, x, u)
        BY <1>1, <1>6, <2>1, <3>4, <4>1, <4>2, HandOther DEF Inv
      <4>. QED
        BY <3>4, <4>3
    <3>. QED
      BY <3>1, <3>2, <3>3, <3>4 DEF Places
  <2>. QED
    BY <2>1, PlacesShrink DEF Inv, PlaceInv
<1>16. LaneInv' /\ DrainInv'
  BY <1>9, CountsKept DEF Inv
<1>17. StopInv'
  BY <1>1, <1>7, <1>9
<1>. QED
  BY <1>6, <1>10, <1>11, <1>13, <1>14, <1>15, <1>16, <1>17 DEF Inv, Below, PlaceInv, WaitInv

\* The stopper goes on and leaves the units alone.
LEMMA StopGoes ==
  ASSUME Inv, NEW from, Stopping(from), NEW to \in StopPcs, Go(Stopper, to),
         UNCHANGED <<units, queues, counts, parked>>,
         permit' \subseteq Spots(ParkMarks), stopParkers' \subseteq Spots(ParkMarks),
         stopping' \in BOOLEAN, closed' \in BOOLEAN, queueClosed' \in BOOLEAN,
         idleAsleep' \in BOOLEAN, aborting' \subseteq Tasks,
         StopPc = from /\ StopPc' = to /\ Lanes' = Lanes => StopInv'
  PROVE  Inv'
<1>1. Unmoved
  BY DEF Unmoved
<1>2. /\ Settled /\ ParentInv' /\ IsInjective(injector') /\ IsInjective(blockingQueue')
  BY <1>1, UnmovedFacts
<1>3. DataTypes'
  BY DEF Inv, DataTypes, units, queues, counts
<1>4. UNCHANGED <<status, slot, injector, blockingQueue>>
  BY DEF units, queues
<1>5. \A u \in Units, x \in Holders, k \in {"injector", "queue"} : In(k, x, u)' => In(k, x, u)
  BY <1>4 DEF In
<1>6. /\ \A u \in Units, x \in Holders : In("injector", x, u)' => In("injector", x, u)
      /\ \A u \in Units, x \in Holders : In("queue", x, u)' => In("queue", x, u) /\ status'[u] = status[u]
  BY <1>4, <1>5
<1>. QED
  BY <1>2, <1>3, <1>4, <1>6, StopForm

\* With the drainers gone and all work over no closure holds a lane.
LEMMA NoLanes ==
  ASSUME Inv, AllOver, activeDrainers = 0
  PROVE  Lanes = {}
<1>1. Draining = {}
  <2>1. IsFiniteSet(Draining) /\ drains \in Nat /\ 0 = drains + Cardinality(Draining)
    BY DEF Inv, DrainInv, DataTypes
  <2>2. PICK c : c = Cardinality(Draining)
    OBVIOUS
  <2>3. c \in Nat
    BY <2>1, <2>2, FS_CardinalityType
  <2>4. c = 0
    BY <2>1, <2>2, <2>3
  <2>. QED
    BY <2>1, <2>2, <2>4, FS_EmptySet
<1>2. ASSUME NEW x \in Threads, NEW i \in 1..Len(stack[x]), Mark(stack[x][i]) \in LaneMarks
      PROVE  FALSE
  <2>1. FrameOK(x, stack[x][i]) /\ stack[x][i].kind \in DriverKinds /\ stack[x][i].pc \in LanePcs
    BY <1>2 DEF Inv, Stacks, StackOK, Mark, LaneMarks
  <2>2. CASE stack[x][i].kind = "drain"
    <3>1. Mark(stack[x][i]) \in DrainMarks
      BY <2>1, <2>2 DEF FrameOK, Mark, DrainMarks, LanePcs, Retired
    <3>2. <<x, i>> \in Draining
      BY <3>1, SpotsAre DEF Draining
    <3>. QED
      BY <1>1, <3>2
  <2>3. CASE stack[x][i].kind = "coop"
    <3>1. PICK n \in Nat : n = Len(stack[x])
      BY LenProperties DEF Inv, Stacks, StackOK
    <3>2. i # 1 /\ Nests(stack[x][i-1], stack[x][i])
      BY <1>2, <2>3 DEF Inv, Stacks, StackOK, Bases
    <3>3. i - 1 \in 1..n
      BY <3>1, <3>2
    <3>4. Runner(stack[x][i-1])
      BY <2>3, <3>2 DEF Nests, Runner
    <3>5. /\ stack[x][i-1].u \in Units
          /\ status[stack[x][i-1].u] \in {"running", "again"}
      BY <3>1, <3>3, <3>4, RunnerUnit DEF Inv, PlaceInv, RunningInv, Runner
    <3>. QED
      BY <3>5 DEF AllOver
  <2>. QED
    BY <2>1, <2>2, <2>3 DEF DriverKinds
<1>3. \A p : p \in Lanes => p \in Threads \X Nat
  BY SpotsAre DEF Lanes
<1>4. \A x, i : <<x, i>> \notin Lanes
  BY <1>2, SpotsAre DEF Lanes
<1>. QED
  BY <1>3, <1>4

LEMMA StopGoesKept ==
  ASSUME Inv, PublishStop \/ CloseWork \/ UnparkAll \/ WorkIdle
  PROVE  Inv'
<1>1. /\ permit \subseteq Spots(ParkMarks) /\ stopParkers \subseteq Spots(ParkMarks)
      /\ stopping \in BOOLEAN /\ closed \in BOOLEAN /\ queueClosed \in BOOLEAN
      /\ idleAsleep \in BOOLEAN /\ aborting \subseteq Tasks
      /\ StopInv
  BY DEF Inv, ParkerInv, DataTypes
<1>2. CASE PublishStop
  <2>1. /\ Stopping("publish") /\ Go(Stopper, "close") /\ stopping' = TRUE
        /\ UNCHANGED <<units, queues, counts, parkers, closed, queueClosed, stopParkers, aborting, idleAsleep>>
    BY <1>2 DEF PublishStop
  <2>2. "close" \in StopPcs /\ UNCHANGED <<parked, permit, blockingQueue>>
    BY <2>1 DEF StopPcs, parkers, queues
  <2>3. StopPc' = "close" => StopInv'
    BY <1>1, <2>1, <2>2 DEF StopInv
  <2>. QED
    BY <1>1, <2>1, <2>2, <2>3, StopGoes
<1>3. CASE CloseWork
  <2>1. /\ Stopping("close") /\ Go(Stopper, "abort") /\ closed' = TRUE /\ aborting' \subseteq Tasks
        /\ UNCHANGED <<units, queues, counts, parkers, stopping, queueClosed, stopParkers, idleAsleep>>
    BY <1>3 DEF CloseWork
  <2>2. "abort" \in StopPcs /\ UNCHANGED <<parked, permit, blockingQueue>>
    BY <2>1 DEF StopPcs, parkers, queues
  <2>3. StopPc' = "abort" => StopInv'
    BY <1>1, <2>1, <2>2 DEF StopInv
  <2>. QED
    BY <1>1, <2>1, <2>2, <2>3, StopGoes
<1>4. CASE UnparkAll
  <2>1. /\ Stopping("abort") /\ Go(Stopper, "unpark") /\ permit' = permit \cup stopParkers
        /\ stopParkers' = {}
        /\ UNCHANGED <<units, queues, counts, parked, stopping, closed, queueClosed, aborting, idleAsleep>>
    BY <1>4 DEF UnparkAll
  <2>2. "unpark" \in StopPcs /\ UNCHANGED blockingQueue
    BY <2>1 DEF StopPcs, queues
  <2>3. StopPc = "abort" /\ StopPc' = "unpark" => StopInv'
    BY <1>1, <2>1, <2>2 DEF StopInv
  <2>. QED
    BY <1>1, <2>1, <2>2, <2>3, StopGoes
<1>5. CASE WorkIdle
  <2>1. /\ Stopping("work") /\ Go(Stopper, "drainers") /\ NoWork
        /\ UNCHANGED <<units, queues, counts, parkers, stops>>
    BY <1>5 DEF WorkIdle
  <2>2. /\ "drainers" \in StopPcs
        /\ UNCHANGED <<status, parked, permit, blockingQueue, stopping, closed, queueClosed, stopParkers,
                       aborting, idleAsleep>>
    BY <2>1 DEF StopPcs, parkers, queues, units, stops
  <2>3. AllOver /\ AllOver'
    BY <2>1, <2>2 DEF NoWork, AllOver
  <2>4. StopPc = "work" /\ StopPc' = "drainers" => StopInv'
    BY <1>1, <2>2, <2>3 DEF StopInv
  <2>. QED
    BY <1>1, <2>1, <2>2, <2>4, StopGoes
<1>. QED
  BY <1>2, <1>3, <1>4, <1>5

LEMMA StackSame ==
  ASSUME UNCHANGED stack, NEW Z
  PROVE  Spots(Z)' = Spots(Z)
  BY DEF Spots

\* No frame moves; at most a running task notes a wake.
LEMMA StillKept ==
  ASSUME Inv, UNCHANGED <<stack, parent, queues, counts, parkers, closed, queueClosed, stopParkers>>,
         stopping' \in BOOLEAN, idleAsleep' \in BOOLEAN, aborting' \subseteq Tasks,
         status' \in [Units -> {"new", "queued", "running", "again", "idle", "done"}],
         \A u \in Units : \/ status'[u] = status[u]
                          \/ u \in Tasks /\ status[u] = "running" /\ status'[u] = "again"
  PROVE  Inv'
<1>1. /\ UNCHANGED <<stack, parent, injector, blockingQueue, slot, drains, activeDrainers, activeBlocking>>
      /\ UNCHANGED <<parked, permit, closed, queueClosed, stopParkers>>
  BY DEF queues, counts, parkers
<1>2. Stacks'
  BY <1>1 DEF Inv, Stacks
<1>3. DataTypes'
  BY <1>1 DEF Inv, DataTypes
<1>4. LaneInv' /\ DrainInv'
  <2>1. Lanes' = Lanes
    BY <1>1, StackSame DEF Lanes
  <2>2. Draining' = Draining
    BY <1>1, StackSame DEF Draining
  <2>. QED
    BY <2>1, <2>2, CountsKept DEF Inv
<1>5. ParkerInv'
  <2>1. Spots(IdleMarks)' = Spots(IdleMarks)
    BY <1>1, StackSame
  <2>2. Spots(ParkMarks)' = Spots(ParkMarks)
    BY <1>1, StackSame
  <2>. QED
    BY <1>1, <2>1, <2>2 DEF Inv, ParkerInv
<1>6. SlotInv'
  BY <1>1 DEF Inv, SlotInv, SlotOK, Busy
<1>7. QueuedInv' /\ OnePlace'
  <2>1. ASSUME NEW u \in Units, NEW k \in Places, NEW x \in Holders, In(k, x, u)'
        PROVE  In(k, x, u) /\ status'[u] = status[u]
    <3>1. In(k, x, u)
      BY <1>1, <2>1 DEF In, At, Busy, Top
    <3>2. status[u] = "queued"
      BY <3>1 DEF Inv, PlaceInv, QueuedInv
    <3>. QED
      BY <3>1, <3>2
  <2>2. IsInjective(injector') /\ IsInjective(blockingQueue')
    BY <1>1 DEF Inv, PlaceInv, OnePlace
  <2>. QED
    BY <2>1, <2>2, PlacesShrink DEF Inv, PlaceInv
<1>8. RunningInv' /\ OneRunning'
  <2>1. RunningInv'
    <3>. SUFFICES ASSUME NEW x \in Threads, NEW i \in 1..Len(stack[x])
                  PROVE  /\ stack[x][i].kind = "task" => status'[stack[x][i].u] \in {"running", "again"}
                         /\ stack[x][i].kind = "job"  => status'[stack[x][i].u] = "running"
      BY <1>1 DEF RunningInv
    <3>1. ASSUME Runner(stack[x][i])
          PROVE  /\ stack[x][i].u \in Units
                 /\ stack[x][i].kind = "job" => stack[x][i].u \notin Tasks
      BY <3>1, RunnerUnit, SchedulerAssumption DEF Inv
    <3>2. /\ stack[x][i].kind = "task" => status[stack[x][i].u] \in {"running", "again"}
          /\ stack[x][i].kind = "job"  => status[stack[x][i].u] = "running"
      BY DEF Inv, PlaceInv, RunningInv
    <3>. QED
      BY <3>1, <3>2 DEF Runner
  <2>2. OneRunning'
    BY <1>1 DEF Inv, PlaceInv, OneRunning
  <2>. QED
    BY <2>1, <2>2
<1>9. ParentInv'
  <2>. SUFFICES ASSUME NEW u \in Units, parent[u] \in Jobs
                PROVE  status'[parent[u]] \notin {"new", "queued"}
    BY <1>1 DEF ParentInv
  <2>1. parent[u] \in Units /\ status[parent[u]] \notin {"new", "queued"}
    BY DEF Inv, WaitInv, ParentInv, Units
  <2>. QED
    BY <2>1
<1>10. ChildInv'
  BY <1>1 DEF Inv, WaitInv, ChildInv
<1>11. StopInv'
  <2>1. StopPc' = StopPc
    BY <1>1 DEF StopPc
  <2>2. Lanes' = Lanes
    BY <1>1, StackSame DEF Lanes
  <2>3. AllOver => AllOver'
    BY DEF AllOver
  <2>. QED
    BY <1>1, <2>1, <2>2, <2>3 DEF Inv, StopInv
<1>. QED
  BY <1>2, <1>3, <1>4, <1>5, <1>6, <1>7, <1>8, <1>9, <1>10, <1>11 DEF Inv, PlaceInv, WaitInv

LEMMA StutterKept ==
  ASSUME Inv, UNCHANGED vars
  PROVE  Inv'
<1>1. /\ UNCHANGED <<stack, units, queues, counts, parkers, stops>>
      /\ UNCHANGED <<status, parent, stopping, closed, queueClosed, stopParkers, aborting, idleAsleep>>
  BY DEF vars, units, stops
<1>2. /\ stopping' \in BOOLEAN /\ idleAsleep' \in BOOLEAN /\ aborting' \subseteq Tasks
      /\ status' \in [Units -> {"new", "queued", "running", "again", "idle", "done"}]
  BY <1>1 DEF Inv, DataTypes
<1>. QED
  BY <1>1, <1>2, StillKept

\* The stop closes the queue: what is still queued there is dropped.
LEMMA CloseQueueKept ==
  ASSUME Inv, CloseQueue
  PROVE  Inv'
<1>. DEFINE dropped == Range(blockingQueue)
<1>1. /\ Stopping("unpark") /\ Go(Stopper, "work") /\ queueClosed' = TRUE /\ blockingQueue' = <<>>
      /\ status' = [u \in Units |-> IF u \in dropped THEN "done" ELSE status[u]]
      /\ permit' = permit \cup UNION {Awaiting(u) : u \in dropped}
      /\ UNCHANGED <<parent, injector, slot, counts, parked, stopping, closed, stopParkers, aborting, idleAsleep>>
  BY DEF CloseQueue
<1>2. "work" \in StopPcs
  BY DEF StopPcs
<1>3. status \in [Units -> {"new", "queued", "running", "again", "idle", "done"}]
  BY DEF Inv, DataTypes
<1>4. ASSUME NEW u \in Units, u \in dropped
      PROVE  /\ status[u] = "queued"
             /\ \A k \in Places, x \in Holders : In(k, x, u) => k = "queue"
  <2>1. In("queue", NoUnit, u) /\ "queue" \in Places /\ NoUnit \in Holders
    BY <1>4 DEF In, Places, Holders
  <2>. QED
    BY <2>1, TakenFrom
<1>5. ASSUME NEW u \in Units
      PROVE  /\ u \in dropped => status'[u] = "done"
             /\ u \notin dropped => status'[u] = status[u]
  BY <1>1
<1>. HIDE DEF dropped
<1>6. status' \in [Units -> {"new", "queued", "running", "again", "idle", "done"}]
  BY <1>1, <1>3
<1>7. Settled
  BY <1>1, <1>5 DEF Settled
<1>8. DataTypes'
  BY <1>1, <1>6 DEF Inv, DataTypes, counts
<1>9. ParentInv'
  <2>. SUFFICES ASSUME NEW u \in Units, parent[u] \in Jobs
                PROVE  status'[parent[u]] \notin {"new", "queued"}
    BY <1>1 DEF ParentInv
  <2>1. parent[u] \in Units /\ status[parent[u]] \notin {"new", "queued"}
    BY DEF Inv, WaitInv, ParentInv, Units
  <2>. QED
    BY <1>5, <2>1
<1>10. permit' \subseteq Spots(ParkMarks) /\ stopParkers' \subseteq Spots(ParkMarks)
  <2>1. \A u : Awaiting(u) \subseteq Spots(ParkMarks)
    BY AwaitingParks DEF Inv
  <2>2. permit \subseteq Spots(ParkMarks) /\ stopParkers \subseteq Spots(ParkMarks)
    BY DEF Inv, ParkerInv
  <2>. QED
    BY <1>1, <2>1, <2>2
<1>11. IsInjective(injector') /\ IsInjective(blockingQueue')
  BY <1>1 DEF Inv, PlaceInv, OnePlace, IsInjective
<1>12. \A u \in Units : status[u] \in {"running", "again"} => status'[u] = status[u]
  BY <1>4, <1>5
<1>13. \A u \in Units, k \in Places, x \in Holders :
         In(k, x, u) => status'[u] = status[u] \/ k = "queue"
  BY <1>4, <1>5
<1>14. /\ \A u \in Units, x \in Holders : In("injector", x, u)' => In("injector", x, u)
       /\ \A u \in Units, x \in Holders : ~In("queue", x, u)'
  BY <1>1 DEF In, Range
<1>15. StopPc = "unpark" /\ StopPc' = "work" => StopInv'
  BY <1>1 DEF Inv, StopInv
<1>. QED
  BY <1>1, <1>2, <1>7, <1>8, <1>9, <1>10, <1>11, <1>12, <1>13, <1>14, <1>15, StopForm

LEMMA SchedulerIdleKept ==
  ASSUME Inv, SchedulerIdle
  PROVE  Inv'
<1>1. /\ Stopping("drainers")
      /\ UNCHANGED <<units, queues, counts, parkers, stopping, closed, queueClosed, stopParkers, aborting>>
  BY DEF SchedulerIdle
<1>2. /\ permit \subseteq Spots(ParkMarks) /\ stopParkers \subseteq Spots(ParkMarks)
      /\ stopping \in BOOLEAN /\ closed \in BOOLEAN /\ queueClosed \in BOOLEAN
      /\ idleAsleep \in BOOLEAN /\ aborting \subseteq Tasks
      /\ status \in [Units -> {"new", "queued", "running", "again", "idle", "done"}]
      /\ StopInv
  BY DEF Inv, ParkerInv, DataTypes
<1>3. CASE activeDrainers = 0 /\ Go(Stopper, "stopped") /\ UNCHANGED idleAsleep
  <2>1. StopPc = "drainers"
    BY <1>1, StopTop
  <2>2. AllOver /\ closed /\ queueClosed /\ blockingQueue = <<>>
    BY <1>2, <2>1 DEF StopInv
  <2>3. Lanes = {}
    BY <1>3, <2>2, NoLanes
  <2>4. "stopped" \in StopPcs /\ UNCHANGED <<status, parked, permit, blockingQueue>>
    BY <1>1 DEF StopPcs, parkers, queues, units
  <2>5. AllOver'
    BY <2>2, <2>4 DEF AllOver
  <2>6. StopPc' = "stopped" /\ Lanes' = Lanes => StopInv'
    BY <1>1, <2>2, <2>3, <2>4, <2>5 DEF StopInv
  <2>. QED
    BY <1>1, <1>2, <1>3, <2>4, <2>6, StopGoes
<1>4. CASE idleAsleep' = TRUE /\ UNCHANGED stack
  <2>1. UNCHANGED <<status, parent>>
    BY <1>1 DEF units
  <2>. QED
    BY <1>1, <1>2, <1>4, <2>1, StillKept
<1>. QED
  BY <1>3, <1>4 DEF SchedulerIdle

\* An idle task whose handle is aborted is queued by the stopper.
LEMMA AbortIdle ==
  ASSUME Inv, NEW v \in Tasks, Stopping("abort"), status[v] = "idle",
         status' = [status EXCEPT ![v] = "queued"], aborting' \subseteq Tasks,
         Put(Stopper, Append(stack[Stopper], PushFrame(v))),
         UNCHANGED <<parent, queues, counts, parkers, stopping, closed, queueClosed, stopParkers, idleAsleep>>
  PROVE  Inv'
<1>1. /\ Stopper \in Threads /\ Busy(Stopper) /\ Top(Stopper).kind = "stop" /\ Top(Stopper).pc = "abort"
      /\ Len(stack[Stopper]) = 1 /\ Top(Stopper) = stack[Stopper][1] /\ StopPc = "abort"
      /\ Stopper \notin Workers
  BY StopTop
<1>2. PICK f : f = Top(Stopper)
  OBVIOUS
<1>3. PICK g : g = PushFrame(v)
  OBVIOUS
<1>4. /\ FrameOK(Stopper, g) /\ g.kind = "wake" /\ g.pc = "push" /\ g.u = v /\ g.p = NoParker
      /\ Unmarked(g) /\ ~Quiet(g) /\ Holding(g)
  BY <1>1, <1>3, PushFrameOK
<1>5. FrameOK(Stopper, f) /\ f.kind = "stop" /\ f.pc = "abort" /\ f.p = NoParker
  <2>1. FrameOK(Stopper, f)
    BY <1>1, <1>2, TopFacts DEF Inv
  <2>. QED
    BY <1>1, <1>2, <2>1 DEF FrameOK
<1>6. Adds(Stopper, f, g) /\ Below(Stopper)
  <2>1. Nests(f, g)
    BY <1>4, <1>5 DEF Nests, Bases
  <2>2. Put(Stopper, Append(stack[Stopper], g))
    BY <1>3
  <2>3. Adds(Stopper, f, g)
    BY <1>1, <1>2, <1>4, <2>1, <2>2, PushForm DEF Inv
  <2>. QED
    BY <2>3 DEF Adds
<1>7. /\ v \in Units /\ status'[v] = "queued" /\ \A u \in Units : u # v => status'[u] = status[u]
      /\ status' \in [Units -> {"new", "queued", "running", "again", "idle", "done"}]
  BY DEF Inv, DataTypes, Units
<1>8. /\ UNCHANGED <<parent, injector, blockingQueue, slot, parked, permit, drains, activeDrainers,
                    activeBlocking>>
      /\ UNCHANGED <<stopping, closed, queueClosed, stopParkers, idleAsleep, counts>>
  BY DEF queues, counts, parkers
<1>9. DataTypes'
  BY <1>7, <1>8 DEF Inv, DataTypes
<1>10. Settled /\ SlotsSettled
  <2>1. Settled
    BY <1>7, <1>8 DEF Settled
  <2>. QED
    BY <2>1, DataSettled DEF Inv, PlaceInv
<1>11. ParentInv'
  <2>. SUFFICES ASSUME NEW u \in Units, parent[u] \in Jobs
                PROVE  status'[parent[u]] \notin {"new", "queued"}
    BY <1>8 DEF ParentInv
  <2>1. parent[u] # v /\ parent[u] \in Units
    BY SchedulerAssumption DEF Units
  <2>2. status[parent[u]] \notin {"new", "queued"}
    BY DEF Inv, WaitInv, ParentInv
  <2>. QED
    BY <1>7, <2>1, <2>2
<1>12. /\ SameMarks(f, Top(Stopper)) /\ ~Parks(f) /\ ~Parks(g) /\ ~Runner(g)
  BY <1>2, <1>4, <1>5 DEF SameMarks, Parks, ParkingKinds, Runner
<1>13. LaneInv' /\ DrainInv' /\ Lanes' = Lanes
  <2>1. Lanes' = Lanes /\ Draining' = Draining
    BY <1>1, <1>4, <1>6, <1>12, AddCounts DEF Inv
  <2>. QED
    BY <1>8, <2>1, CountsKept DEF Inv
<1>14. ParkerInv'
  <2>1. Me(Stopper) \notin parked
    BY <1>1, MyIdle DEF Idling
  <2>2. permit' \subseteq Spots(ParkMarks) /\ stopParkers' \subseteq Spots(ParkMarks)
    BY <1>8 DEF Inv, ParkerInv
  <2>. QED
    BY <1>1, <1>2, <1>4, <1>5, <1>6, <1>8, <2>1, <2>2, AddParkers DEF Inv
<1>15. SlotInv'
  BY <1>1, <1>6, <1>8, AddSlot DEF Inv
<1>16. ChildInv'
  BY <1>1, <1>2, <1>6, <1>8, <1>10, AddChild DEF Inv, WaitInv
<1>17. RunningInv' /\ OneRunning'
  <2>1. \A u \in Units : status[u] \in {"running", "again"} => status'[u] = status[u]
    BY <1>7
  <2>. QED
    BY <1>1, <1>2, <1>6, <1>12, <2>1, AddRunning DEF Inv, PlaceInv
<1>18. QueuedInv' /\ OnePlace'
  <2>1. ASSUME NEW u \in Units, NEW k \in Places, NEW x \in Holders, In(k, x, u)'
        PROVE  \/ In(k, x, u) /\ status'[u] = status[u]
               \/ u = v /\ k = "hand" /\ x = Stopper
    <3>1. ASSUME In(k, x, u) PROVE status'[u] = status[u]
      <4>1. status[u] = "queued"
        BY <3>1 DEF Inv, PlaceInv, QueuedInv
      <4>. QED
        BY <1>7, <4>1
    <3>2. CASE k = "hand"
      <4>1. x \in Threads
        BY <2>1, <3>2 DEF In
      <4>2. CASE x = Stopper
        BY <1>1, <1>4, <1>6, <2>1, <3>2, <4>2, AddHand
      <4>3. CASE x # Stopper
        BY <1>1, <1>6, <2>1, <3>1, <3>2, <4>1, <4>3, HandOther DEF Inv
      <4>. QED
        BY <4>2, <4>3
    <3>3. CASE k # "hand"
      BY <1>8, <2>1, <3>1, <3>3 DEF In
    <3>. QED
      BY <3>2, <3>3
  <2>2. IsInjective(injector') /\ IsInjective(blockingQueue')
    BY <1>8 DEF Inv, PlaceInv, OnePlace
  <2>. QED
    BY <1>7, <2>1, <2>2, PlacesGrow DEF Inv, PlaceInv
<1>19. StopInv'
  <2>1. StopPc' = "abort"
    <3>1. stack'[Stopper][1] = f
      BY <1>1, <1>6 DEF Adds
    <3>. QED
      BY <1>5, <3>1 DEF StopPc
  <2>. QED
    BY <1>1, <1>8, <2>1 DEF Inv, StopInv
<1>. QED
  BY <1>6, <1>9, <1>11, <1>13, <1>14, <1>15, <1>16, <1>17, <1>18, <1>19
  DEF Inv, Below, PlaceInv, WaitInv

LEMMA AbortKept ==
  ASSUME Inv, NEW v \in Tasks, AbortTask(v)
  PROVE  Inv'
<1>1. /\ Stopping("abort") /\ aborting' \subseteq Tasks
      /\ UNCHANGED <<parent, queues, counts, parkers, stopping, closed, queueClosed, stopParkers, idleAsleep>>
      /\ stopping' \in BOOLEAN /\ idleAsleep' \in BOOLEAN
      /\ status \in [Units -> {"new", "queued", "running", "again", "idle", "done"}]
  BY DEF AbortTask, Inv, DataTypes
<1>2. CASE /\ status[v] = "idle" /\ status' = [status EXCEPT ![v] = "queued"]
           /\ Put(Stopper, Append(stack[Stopper], PushFrame(v)))
  BY <1>1, <1>2, AbortIdle
<1>3. CASE status[v] = "running" /\ status' = [status EXCEPT ![v] = "again"] /\ UNCHANGED stack
  <2>1. /\ status' \in [Units -> {"new", "queued", "running", "again", "idle", "done"}]
        /\ \A u \in Units : \/ status'[u] = status[u]
                            \/ u \in Tasks /\ status[u] = "running" /\ status'[u] = "again"
    BY <1>1, <1>3
  <2>. QED
    BY <1>1, <1>3, <2>1, StillKept
<1>4. CASE UNCHANGED <<status, stack>>
  BY <1>1, <1>4, StillKept
<1>. QED
  BY <1>2, <1>3, <1>4 DEF AbortTask

-----------------------------------------------------------------------------
(* The invariant is inductive.                                             *)

LEMMA InitStacks ==
  ASSUME Init
  PROVE  /\ Stacks
         /\ \A t \in Threads : \A i \in 1..Len(stack[t]) :
              /\ t \notin Workers /\ i = 1 /\ stack[t][i].p = NoParker
              /\ Mark(stack[t][i]) \in {<<"host", "user">>, <<"stop", "publish">>}
         /\ stack[Stopper] = <<Frame("stop", "publish", NoUnit)>>
<1>. DEFINE h == Frame("host", "user", NoUnit)
            s == Frame("stop", "publish", NoUnit)
<1>1. /\ h \in FrameTypes /\ s \in FrameTypes
      /\ h.kind = "host" /\ h.pc = "user" /\ h.p = NoParker
      /\ s.kind = "stop" /\ s.pc = "publish" /\ s.p = NoParker
  BY DEF Frame, FrameTypes, Kinds, Pcs, StopPcs, NoParker, Parkers
<1>2. DOMAIN stack = Threads
  BY DEF Init
<1>3. ASSUME NEW t \in Workers PROVE stack[t] = <<>>
  BY <1>3, SchedulerAssumption DEF Init, Threads
<1>4. ASSUME NEW t \in Hosts PROVE stack[t] = <<h>>
  BY <1>4, SchedulerAssumption DEF Init, Threads
<1>5. stack[Stopper] = <<s>>
  BY SchedulerAssumption DEF Init, Threads
<1>. HIDE DEF h, s
<1>6. ASSUME NEW t \in Threads
      PROVE  /\ StackOK(t, stack[t])
             /\ \A i \in 1..Len(stack[t]) :
                  /\ t \notin Workers /\ i = 1 /\ stack[t][i].p = NoParker
                  /\ Mark(stack[t][i]) \in {<<"host", "user">>, <<"stop", "publish">>}
  <2>1. CASE t \in Workers
    <3>1. stack[t] = <<>> /\ t # Stopper
      BY <1>3, <2>1, SchedulerAssumption
    <3>2. Len(<<>>) = 0 /\ <<>> \in Seq(FrameTypes)
      OBVIOUS
    <3>3. StackOK(t, <<>>)
      BY <3>1, <3>2 DEF StackOK
    <3>. QED
      BY <3>1, <3>2, <3>3
  <2>2. CASE t \in Hosts
    <3>1. FrameOK(t, h) /\ h.kind \in Bases
      BY <1>1, <2>2 DEF FrameOK, Bases
    <3>2. stack[t] = <<h>> /\ t \notin Workers /\ t # Stopper
      BY <1>4, <2>2, SchedulerAssumption
    <3>. QED
      BY <1>1, <3>1, <3>2 DEF StackOK, Mark
  <2>3. CASE t = Stopper
    <3>1. FrameOK(t, s) /\ s.kind \in Bases
      BY <1>1, <2>3 DEF FrameOK, Bases, StopPcs
    <3>2. stack[t] = <<s>> /\ t \notin Workers
      BY <1>5, <2>3, SchedulerAssumption
    <3>. QED
      BY <1>1, <3>1, <3>2 DEF StackOK, Mark
  <2>. QED
    BY <2>1, <2>2, <2>3 DEF Threads
<1>. QED
  BY <1>2, <1>5, <1>6 DEF Stacks, s

LEMMA InitInv ==
  ASSUME Init
  PROVE  Inv
<1>1. /\ Stacks
      /\ \A t \in Threads : \A i \in 1..Len(stack[t]) :
           /\ t \notin Workers /\ i = 1 /\ stack[t][i].p = NoParker
           /\ Mark(stack[t][i]) \in {<<"host", "user">>, <<"stop", "publish">>}
      /\ stack[Stopper] = <<Frame("stop", "publish", NoUnit)>>
  BY InitStacks
<1>2. DataTypes
  <2>1. <<>> \in Seq(Tasks) /\ <<>> \in Seq(Jobs)
    OBVIOUS
  <2>2. /\ status \in [Units -> {"new", "queued", "running", "again", "idle", "done"}]
        /\ parent \in [Units -> Units \cup Threads \cup {NoUnit}]
        /\ slot \in [Workers -> Tasks \cup {NoUnit}]
    BY DEF Init
  <2>. QED
    BY <2>1, <2>2 DEF Init, DataTypes
<1>3. ASSUME NEW Z, <<"host", "user">> \notin Z, <<"stop", "publish">> \notin Z
      PROVE  Spots(Z) = {}
  BY <1>1, <1>3, SpotsAre
<1>4. Lanes = {}
  BY <1>3 DEF Lanes, LaneMarks, DriverKinds
<1>5. Draining = {}
  BY <1>3 DEF Draining, DrainMarks
<1>6. LaneInv
  BY <1>4, FS_EmptySet, SchedulerAssumption DEF Init, LaneInv
<1>7. DrainInv
  <2>1. Cardinality(Workers) \in Nat
    BY FS_CardinalityType, SchedulerAssumption
  <2>2. IsFiniteSet(Draining) /\ Cardinality(Draining) = 0
    BY <1>5, FS_EmptySet
  <2>. QED
    BY <2>1, <2>2 DEF Init, DrainInv
<1>8. ParkerInv
  BY <1>1 DEF Init, ParkerInv
<1>9. SlotInv
  BY DEF Init, SlotInv, SlotOK
<1>10. \A u \in Units, k \in Places, x \in Holders : ~In(k, x, u)
  <2>. SUFFICES ASSUME NEW u \in Units, NEW k \in Places, NEW x \in Holders, In(k, x, u)
                PROVE  FALSE
    OBVIOUS
  <2>1. injector = <<>> /\ blockingQueue = <<>> /\ \A w \in Workers : slot[w] = NoUnit
    BY DEF Init
  <2>2. Range(injector) = {} /\ Range(blockingQueue) = {}
    BY <2>1 DEF Range
  <2>3. k \notin {"injector", "queue"}
    BY <2>2 DEF In
  <2>4. k # "slot"
    BY <2>1, SchedulerAssumption DEF In, Units
  <2>5. k = "hand" /\ x \in Threads /\ Busy(x) /\ Holding(Top(x))
    BY <2>3, <2>4, HandIs DEF Places, In, Holding, At
  <2>6. PICK n : n = Len(stack[x]) /\ n \in Nat \ {0} /\ Top(x) = stack[x][n]
    BY <1>1, <2>5, TopFacts
  <2>7. Mark(Top(x)) \in {<<"host", "user">>, <<"stop", "publish">>}
    BY <1>1, <2>5, <2>6
  <2>. QED
    BY <2>5, <2>7 DEF Mark, Holding
<1>11. QueuedInv /\ OnePlace
  BY <1>10 DEF QueuedInv, OnePlace, Init, IsInjective
<1>12. \A t \in Threads : \A i \in 1..Len(stack[t]) : stack[t][i].kind \in {"host", "stop"}
  BY <1>1 DEF Mark
<1>13. RunningInv /\ OneRunning
  BY <1>12 DEF RunningInv, OneRunning
<1>14. ParentInv
  BY SchedulerAssumption DEF Init, ParentInv
<1>15. ChildInv
  BY DEF Init, ChildInv
<1>16. StopInv
  <2>1. StopPc = "publish"
    BY <1>1 DEF StopPc, Frame
  <2>. QED
    BY <2>1 DEF Init, StopInv
<1>. QED
  BY <1>1, <1>2, <1>6, <1>7, <1>8, <1>9, <1>11, <1>13, <1>14, <1>15, <1>16
  DEF Inv, PlaceInv, WaitInv

LEMMA DriveKept ==
  ASSUME Inv, NEW t \in Threads, DriveStep(t)
  PROVE  Inv'
<1>1. CASE LingerEnds(t) \/ GoIdle(t) \/ Recheck(t) \/ LingerExpires(t) \/ Residue(t)
  BY <1>1, SimpleMoves
<1>2. CASE Register(t) \/ Park(t) \/ AfterExpiry(t)
  BY <1>2, ParkMoves
<1>3. CASE FlushBeforeExit(t) \/ Yield(t)
  BY <1>3, Flushes
<1>4. CASE Deregister(t) \/ FairBlocking(t) \/ Block(t) \/ Release(t)
  BY <1>4, DeregisterKept, FairStep, BlockStepKept, ReleaseKept
<1>5. CASE Claim(t) \/ ForceFifo(t) \/ Compensate(t)
  BY <1>5, ClaimStep, ForceStep, CompensateKept
<1>6. CASE Retire(t) \/ Rearm(t) \/ NotifyIdle(t)
  BY <1>6, RetireKept, RearmKept, NotifyKept
<1>. QED
  BY <1>1, <1>2, <1>3, <1>4, <1>5, <1>6 DEF DriveStep

LEMMA NextInv ==
  ASSUME Inv, [Next]_vars
  PROVE  Inv'
<1>1. ASSUME NEW t \in Threads, CodeStep(t)
      PROVE  Inv'
  <2>1. CASE WakeStep(t) \/ SyncDone(t)
    BY <2>1, WakeStepKept
  <2>2. CASE BlockStep(t)
    BY <2>2, LoopKept, LeaveBlockOnKept DEF BlockStep
  <2>3. CASE t \in Workers /\ (DriveStep(t) \/ StartDrain(t))
    BY <2>3, DriveKept, StartKept
  <2>. QED
    BY <1>1, <2>1, <2>2, <2>3 DEF CodeStep
<1>2. ASSUME NEW t \in Threads, UserCall(t)
      PROVE  Inv'
  BY <1>2, CallKept
<1>3. ASSUME NEW t \in Threads, UserReturn(t)
      PROVE  Inv'
  BY <1>3, ReturnKept, PendingKept DEF UserReturn
<1>4. CASE StopStep
  BY <1>4, StopGoesKept, CloseQueueKept, SchedulerIdleKept, AbortKept DEF StopStep
<1>5. CASE UNCHANGED vars
  BY <1>5, StutterKept
<1>. QED
  BY <1>1, <1>2, <1>3, <1>4, <1>5 DEF Next

\* The inductive invariant holds of every behaviour: stacks nest as they may,
\* counters count the frames they stand for, parkers are those of frames that
\* are there, a queued unit is in one place and a running one on one stack, and
\* no slot is occupied under a frame that may come to rest.
THEOREM CoreInvariant == Spec => []Inv
<1>. QED
  BY InitInv, NextInv, PTL DEF Spec

-----------------------------------------------------------------------------
(* What follows from it.                                                   *)

LEMMA FramesAre ==
  ASSUME Stacks, NEW K
  PROVE  /\ FramesOf(K) \subseteq Threads \X Nat
         /\ \A x, i : <<x, i>> \in FramesOf(K) <=>
              x \in Threads /\ i \in 1..Len(stack[x]) /\ stack[x][i].kind \in K
<1>1. \A t \in Threads : DOMAIN stack[t] = 1..Len(stack[t])
  BY LenProperties DEF Stacks, StackOK
<1>. QED
  BY <1>1 DEF FramesOf

\* The frames the lanes are counted by: the closures on a stack, and the
\* drivers whose closure has returned.
LaneFrames ==
  FramesOf({"job"})
    \cup {p \in FramesOf(DriverKinds) :
            FrameAt(p).pc \in {"release", "xrelease"} /\ p[2] = Len(stack[p[1]])}

\* A driver that took a lane has the closure on top of it, or is on top.
LEMMA LaneOver ==
  ASSUME Stacks, NEW t \in Threads, NEW n \in Nat, n = Len(stack[t]), NEW i \in 1..n
  PROVE  /\ Mark(stack[t][i]) \in LaneMarks /\ i # n => i+1 \in 1..n /\ stack[t][i+1].kind = "job"
         /\ stack[t][i].kind = "job" =>
              i # 1 /\ i-1 \in 1..n /\ i-1 # n /\ Mark(stack[t][i-1]) \in LaneMarks
<1>1. ASSUME Mark(stack[t][i]) \in LaneMarks, i # n
      PROVE  i+1 \in 1..n /\ stack[t][i+1].kind = "job"
  <2>1. i+1 \in 1..n /\ i+1 # 1 /\ (i+1)-1 = i
    BY <1>1
  <2>2. Nests(stack[t][i], stack[t][i+1]) /\ FrameOK(t, stack[t][i+1])
    BY <2>1 DEF Stacks, StackOK
  <2>3. stack[t][i].kind \in DriverKinds /\ stack[t][i].pc \in LanePcs
    BY <1>1 DEF Mark, LaneMarks
  <2>. QED
    BY <2>1, <2>2, <2>3 DEF Nests, FrameOK, FrameTypes, Kinds, Bases, DriverKinds, LanePcs,
       ServedPcs, WakingPcs, UserKinds
<1>2. ASSUME stack[t][i].kind = "job"
      PROVE  i # 1 /\ i-1 \in 1..n /\ i-1 # n /\ Mark(stack[t][i-1]) \in LaneMarks
  <2>1. i # 1 /\ Nests(stack[t][i-1], stack[t][i])
    BY <1>2 DEF Stacks, StackOK, Bases
  <2>2. i-1 \in 1..n /\ i-1 # n
    BY <2>1
  <2>. QED
    BY <1>2, <2>1, <2>2 DEF Nests, Mark, LaneMarks
<1>. QED
  BY <1>1, <1>2

\* One frame for every lane.
LEMMA LanesAreFrames ==
  ASSUME Stacks
  PROVE  ExistsBijection(Lanes, LaneFrames)
<1>. DEFINE F == [p \in Lanes |-> IF p[2] = Len(stack[p[1]]) THEN p ELSE <<p[1], p[2]+1>>]
<1>1. /\ Lanes \subseteq Threads \X Nat
      /\ \A x, i : <<x, i>> \in Lanes <=>
           x \in Threads /\ i \in 1..Len(stack[x]) /\ Mark(stack[x][i]) \in LaneMarks
  BY SpotsAre DEF Lanes
<1>2. /\ LaneFrames \subseteq Threads \X Nat
      /\ \A x, i : <<x, i>> \in LaneFrames <=>
           /\ x \in Threads /\ i \in 1..Len(stack[x])
           /\ \/ stack[x][i].kind = "job"
              \/ Mark(stack[x][i]) \in LaneMarks /\ i = Len(stack[x])
  <2>1. /\ FramesOf({"job"}) \subseteq Threads \X Nat
        /\ \A x, i : <<x, i>> \in FramesOf({"job"}) <=>
             x \in Threads /\ i \in 1..Len(stack[x]) /\ stack[x][i].kind \in {"job"}
    BY FramesAre
  <2>2. /\ FramesOf(DriverKinds) \subseteq Threads \X Nat
        /\ \A x, i : <<x, i>> \in FramesOf(DriverKinds) <=>
             x \in Threads /\ i \in 1..Len(stack[x]) /\ stack[x][i].kind \in DriverKinds
    BY FramesAre
  <2>3. LaneFrames \subseteq Threads \X Nat
    BY <2>1, <2>2 DEF LaneFrames
  <2>4. ASSUME NEW x, NEW i
        PROVE  <<x, i>> \in LaneFrames <=>
                 /\ x \in Threads /\ i \in 1..Len(stack[x])
                 /\ \/ stack[x][i].kind = "job"
                    \/ Mark(stack[x][i]) \in LaneMarks /\ i = Len(stack[x])
    <3>1. FrameAt(<<x, i>>) = stack[x][i]
      BY DEF FrameAt
    <3>2. Mark(stack[x][i]) \in LaneMarks <=>
            stack[x][i].kind \in DriverKinds /\ stack[x][i].pc \in {"release", "xrelease"}
      BY DEF Mark, LaneMarks, LanePcs
    <3>. QED
      BY <2>1, <2>2, <3>1, <3>2 DEF LaneFrames
  <2>. QED
    BY <2>3, <2>4
<1>3. ASSUME NEW x \in Threads
      PROVE  Len(stack[x]) \in Nat
  BY LenProperties DEF Stacks, StackOK
<1>4. ASSUME NEW x, NEW i, <<x, i>> \in Lanes
      PROVE  /\ F[<<x, i>>] = IF i = Len(stack[x]) THEN <<x, i>> ELSE <<x, i+1>>
             /\ F[<<x, i>>] \in LaneFrames
             /\ i # Len(stack[x]) => stack[x][i+1].kind = "job"
             /\ i = Len(stack[x]) => stack[x][i].kind # "job"
             /\ i \in Nat
  <2>1. /\ x \in Threads /\ i \in 1..Len(stack[x]) /\ Mark(stack[x][i]) \in LaneMarks
    BY <1>1, <1>4
  <2>2. PICK n \in Nat : n = Len(stack[x])
    BY <1>3, <2>1
  <2>3. F[<<x, i>>] = IF i = n THEN <<x, i>> ELSE <<x, i+1>>
    BY <1>4, <2>2
  <2>4. i # n => i+1 \in 1..n /\ stack[x][i+1].kind = "job"
    <3>1. x \in Threads /\ i \in 1..n /\ Mark(stack[x][i]) \in LaneMarks
      BY <2>1, <2>2
    <3>. QED
      BY <2>2, <3>1, LaneOver, ZenonT(40)
  <2>5. stack[x][i].kind # "job" /\ i \in Nat
    BY <2>1, <2>2 DEF Mark, LaneMarks, DriverKinds
  <2>6. F[<<x, i>>] \in LaneFrames
    BY <1>2, <2>1, <2>2, <2>3, <2>4
  <2>. QED
    BY <2>2, <2>3, <2>4, <2>5, <2>6
<1>. HIDE DEF F
<1>5. F \in [Lanes -> LaneFrames]
  <2>1. ASSUME NEW p \in Lanes PROVE F[p] \in LaneFrames
    <3>1. PICK x \in Threads, i \in Nat : p = <<x, i>>
      BY <1>1
    <3>. QED
      BY <1>4, <3>1
  <2>. QED
    BY <2>1 DEF F
<1>6. ASSUME NEW p \in Lanes, NEW q \in Lanes, F[p] = F[q]
      PROVE  p = q
  <2>1. PICK x \in Threads, i \in Nat : p = <<x, i>>
    BY <1>1
  <2>2. PICK y \in Threads, j \in Nat : q = <<y, j>>
    BY <1>1
  <2>3. /\ F[<<x, i>>] = IF i = Len(stack[x]) THEN <<x, i>> ELSE <<x, i+1>>
        /\ i # Len(stack[x]) => stack[x][i+1].kind = "job"
        /\ i = Len(stack[x]) => stack[x][i].kind # "job"
    BY <1>4, <2>1
  <2>4. /\ F[<<y, j>>] = IF j = Len(stack[y]) THEN <<y, j>> ELSE <<y, j+1>>
        /\ j # Len(stack[y]) => stack[y][j+1].kind = "job"
        /\ j = Len(stack[y]) => stack[y][j].kind # "job"
    BY <1>4, <2>2
  <2>5. F[<<x, i>>] = F[<<y, j>>]
    BY <1>6, <2>1, <2>2
  <2>6. CASE i = Len(stack[x]) /\ j = Len(stack[y])
    BY <2>1, <2>2, <2>3, <2>4, <2>5, <2>6
  <2>7. CASE i = Len(stack[x]) /\ j # Len(stack[y])
    <3>1. <<x, i>> = <<y, j+1>>
      BY <2>3, <2>4, <2>5, <2>7
    <3>. QED
      BY <2>3, <2>4, <2>7, <3>1
  <2>8. CASE i # Len(stack[x]) /\ j = Len(stack[y])
    <3>1. <<x, i+1>> = <<y, j>>
      BY <2>3, <2>4, <2>5, <2>8
    <3>. QED
      BY <2>3, <2>4, <2>8, <3>1
  <2>9. CASE i # Len(stack[x]) /\ j # Len(stack[y])
    <3>1. <<x, i+1>> = <<y, j+1>>
      BY <2>3, <2>4, <2>5, <2>9
    <3>. QED
      BY <2>1, <2>2, <3>1
  <2>. QED
    BY <2>6, <2>7, <2>8, <2>9
<1>7. ASSUME NEW q \in LaneFrames
      PROVE  \E p \in Lanes : F[p] = q
  <2>1. PICK x \in Threads, j \in Nat : q = <<x, j>>
    BY <1>2
  <2>2. PICK n \in Nat : n = Len(stack[x])
    BY <1>3
  <2>3. j \in 1..n /\ (stack[x][j].kind = "job" \/ (Mark(stack[x][j]) \in LaneMarks /\ j = n))
    BY <1>2, <2>1, <2>2
  <2>4. CASE stack[x][j].kind = "job"
    <3>1. j-1 \in 1..n /\ j-1 # n /\ Mark(stack[x][j-1]) \in LaneMarks
      BY <2>2, <2>3, <2>4, LaneOver
    <3>2. <<x, j-1>> \in Lanes
      BY <1>1, <2>2, <3>1
    <3>3. F[<<x, j-1>>] = IF j-1 = Len(stack[x]) THEN <<x, j-1>> ELSE <<x, (j-1)+1>>
      BY <1>4, <3>2
    <3>4. F[<<x, j-1>>] = <<x, (j-1)+1>> /\ (j-1)+1 = j
      BY <2>2, <3>1, <3>3
    <3>. QED
      BY <2>1, <3>2, <3>4
  <2>5. CASE Mark(stack[x][j]) \in LaneMarks /\ j = n
    <3>1. <<x, j>> \in Lanes
      BY <1>1, <2>2, <2>3, <2>5
    <3>2. F[<<x, j>>] = <<x, j>>
      BY <1>4, <2>2, <2>5, <3>1
    <3>. QED
      BY <2>1, <3>1, <3>2
  <2>. QED
    BY <2>3, <2>4, <2>5
<1>8. F \in Bijection(Lanes, LaneFrames)
  <2>1. F \in Injection(Lanes, LaneFrames)
    BY <1>5, <1>6 DEF Injection, IsInjective
  <2>2. F \in Surjection(Lanes, LaneFrames)
    BY <1>5, <1>7 DEF Surjection
  <2>. QED
    BY <2>1, <2>2 DEF Bijection
<1>. QED
  BY <1>8 DEF ExistsBijection

LEMMA DrainersAreFrames ==
  ASSUME Stacks
  PROVE  {p \in FramesOf({"drain"}) : FrameAt(p).pc \notin Retired} = Draining
<1>. DEFINE S == {p \in FramesOf({"drain"}) : FrameAt(p).pc \notin Retired}
<1>1. /\ FramesOf({"drain"}) \subseteq Threads \X Nat
      /\ \A x, i : <<x, i>> \in FramesOf({"drain"}) <=>
           x \in Threads /\ i \in 1..Len(stack[x]) /\ stack[x][i].kind \in {"drain"}
  BY FramesAre
<1>2. /\ Draining \subseteq Threads \X Nat
      /\ \A x, i : <<x, i>> \in Draining <=>
           x \in Threads /\ i \in 1..Len(stack[x]) /\ Mark(stack[x][i]) \in DrainMarks
  BY SpotsAre DEF Draining
<1>3. ASSUME NEW x \in Threads, NEW i \in Nat
      PROVE  <<x, i>> \in S <=> <<x, i>> \in Draining
  <2>1. FrameAt(<<x, i>>) = stack[x][i]
    BY DEF FrameAt
  <2>2. ASSUME i \in 1..Len(stack[x])
        PROVE  Mark(stack[x][i]) \in DrainMarks <=> stack[x][i].kind = "drain" /\ stack[x][i].pc \notin Retired
    <3>1. FrameOK(x, stack[x][i])
      BY <2>2 DEF Stacks, StackOK
    <3>. QED
      BY <3>1 DEF FrameOK, Mark, DrainMarks
  <2>. QED
    BY <1>1, <1>2, <2>1, <2>2
<1>4. S \subseteq Threads \X Nat
  BY <1>1
<1>. HIDE DEF S
<1>5. \A p \in Threads \X Nat : p \in S <=> p \in Draining
  BY <1>3
<1>6. S = Draining
  BY <1>2, <1>4, <1>5
<1>. QED
  BY <1>6 DEF S

\* Frames, counters and registries fit together, for every pool, budget and
\* bound on the lanes: a lane for every closure on a stack, a count for every
\* drainer that has not retired, and a registered parker only while its frame
\* is on its way into or out of a park.
THEOREM TypeCorrect == Spec => []TypeOK
<1>1. ASSUME Inv PROVE TypeOK
  <2>1. \A u \in Units : status[u] \in {"new", "queued", "running", "again", "idle", "done"}
    BY <1>1 DEF Inv, DataTypes
  <2>2. Range(injector) \subseteq Tasks /\ Range(blockingQueue) \subseteq Jobs
    <3>1. injector \in Seq(Tasks) /\ blockingQueue \in Seq(Jobs)
      BY <1>1 DEF Inv, DataTypes
    <3>2. /\ DOMAIN injector = 1..Len(injector) /\ \A i \in 1..Len(injector) : injector[i] \in Tasks
          /\ DOMAIN blockingQueue = 1..Len(blockingQueue)
          /\ \A i \in 1..Len(blockingQueue) : blockingQueue[i] \in Jobs
      BY <3>1, LenProperties, ElementOfSeq
    <3>. QED
      BY <3>2 DEF Range
  <2>3. slot \in [Workers -> Tasks \cup {NoUnit}] /\ activeBlocking <= MaxBlocking
    BY <1>1 DEF Inv, DataTypes, LaneInv
  <2>4. activeBlocking = Cardinality(LaneFrames)
    <3>1. IsFiniteSet(Lanes) /\ activeBlocking = Cardinality(Lanes)
      BY <1>1 DEF Inv, LaneInv
    <3>2. ExistsBijection(Lanes, LaneFrames)
      BY <1>1, LanesAreFrames DEF Inv
    <3>. QED
      BY <3>1, <3>2, FS_Bijection
  <2>5. /\ activeDrainers = drains + Cardinality({p \in FramesOf({"drain"}) : FrameAt(p).pc \notin Retired})
        /\ activeDrainers <= Cardinality(Workers)
    <3>1. {p \in FramesOf({"drain"}) : FrameAt(p).pc \notin Retired} = Draining
      BY <1>1, DrainersAreFrames DEF Inv
    <3>. QED
      BY <1>1, <3>1 DEF Inv, DrainInv
  <2>6. \A p \in parked : p \in FramesOf(DriverKinds) /\ FrameAt(p).pc \in Idling
    <3>. TAKE p \in parked
    <3>1. p \in Spots(IdleMarks)
      BY <1>1 DEF Inv, ParkerInv
    <3>2. PICK x \in Threads, i \in Nat : p = <<x, i>>
      BY <3>1, SpotsAre
    <3>3. x \in Threads /\ i \in 1..Len(stack[x]) /\ Mark(stack[x][i]) \in IdleMarks
      BY <3>1, <3>2, SpotsAre
    <3>4. stack[x][i].kind \in DriverKinds /\ stack[x][i].pc \in Idling
      BY <3>3 DEF Mark, IdleMarks
    <3>5. p \in FramesOf(DriverKinds)
      BY <1>1, <3>2, <3>3, <3>4, FramesAre DEF Inv
    <3>. QED
      BY <3>2, <3>4, <3>5 DEF FrameAt
  <2>7. permit \subseteq FramesOf({"drain", "coop", "block"})
    <3>1. ASSUME NEW p \in permit PROVE p \in FramesOf({"drain", "coop", "block"})
      <4>1. p \in Spots(ParkMarks)
        BY <1>1, <3>1 DEF Inv, ParkerInv
      <4>2. PICK x \in Threads, i \in Nat : p = <<x, i>>
        BY <4>1, SpotsAre
      <4>3. x \in Threads /\ i \in 1..Len(stack[x]) /\ Mark(stack[x][i]) \in ParkMarks
        BY <4>1, <4>2, SpotsAre
      <4>4. stack[x][i].kind \in {"drain", "coop", "block"}
        BY <4>3 DEF Mark, ParkMarks, ParkingKinds
      <4>. QED
        BY <1>1, <4>2, <4>3, <4>4, FramesAre DEF Inv
    <3>. QED
      BY <3>1
  <2>. QED
    BY <2>1, <2>2, <2>3, <2>4, <2>5, <2>6, <2>7 DEF TypeOK, LaneFrames
<1>. QED
  BY <1>1, CoreInvariant, PTL

\* No thread parks, retires or returns from a block_on with a task in its slot,
\* where no other thread can see it: for any pool and any nesting.
THEOREM SlotsAreServed == Spec => []SlotIsServed
<1>1. ASSUME Inv PROVE SlotIsServed
  <2>. SUFFICES ASSUME NEW w \in Workers, slot[w] # NoUnit
                PROVE  Busy(w) /\ ~(Top(w).kind \in DriverKinds
                                    /\ Top(w).pc \in Committed \cup Retired \cup Leaving)
    BY DEF SlotIsServed
  <2>1. Busy(w) /\ w \in Threads
    BY <1>1 DEF Inv, SlotInv, Threads
  <2>2. ~Quiet(Top(w))
    BY <1>1, <2>1, QuietTop
  <2>. QED
    BY <2>1, <2>2 DEF Quiet, QuietPcs, Committed
<1>. QED
  BY <1>1, CoreInvariant, PTL

\* A closure that waits for a task it submitted itself never has it in the slot
\* of its own thread, for any nesting of closures, block_on frames and waits.
THEOREM NobodyWaitsOnASlottedChild == Spec => []NoWaitOnSlottedChild
<1>1. ASSUME Inv PROVE NoWaitOnSlottedChild
  <2>. SUFFICES ASSUME NEW w \in Workers, At(w, "waiting"), parent[Top(w).u] = Waiter(w),
                       slot[w] = Top(w).u
                PROVE  FALSE
    BY DEF NoWaitOnSlottedChild
  <2>1. PICK n : n = Len(stack[w]) /\ n \in Nat \ {0} /\ Top(w) = stack[w][n]
    BY <1>1, TopFacts DEF At, Inv, Threads
  <2>2. n \in 1..n /\ FrameOK(w, Top(w)) /\ Top(w).pc = "waiting"
    BY <1>1, <2>1, TopFacts DEF At, Inv, Threads
  <2>3. Top(w).kind = "wait" /\ Top(w).u \in Units
    BY <2>2 DEF FrameOK, FrameTypes, Kinds, DrainPcs, CoopPcs, StopPcs, WakePcs, Retired, Leaving
  <2>4. n # 1 /\ Nests(stack[w][n-1], Top(w))
    BY <1>1, <2>1, <2>3, TopNests DEF At, Inv, Threads, Bases
  <2>5. stack[w][n-1].kind = "job"
    BY <2>3, <2>4 DEF Nests
  <2>6. slot[w] # NoUnit /\ parent[slot[w]] = stack[w][n-1].u
    BY <2>1, <2>3, SchedulerAssumption DEF Waiter, Units
  <2>7. n-1 \in 1..n /\ (n-1)+1 = n /\ \A j \in n..n : j = n
    <3>1. n \in Nat \ {0} /\ n # 1
      BY <2>1, <2>4
    <3>2. n-1 \in 1..n
      BY <3>1, Before
    <3>. QED
      BY <3>1, <3>2
  <2>8. Innermost(stack[w], n, parent[slot[w]])
    <3>1. Waits(stack[w][n])
      BY <2>1, <2>3 DEF Waits
    <3>2. \A j \in (n-1)+1..n : Waits(stack[w][j])
      BY <2>7, <3>1
    <3>. QED
      BY <2>5, <2>6, <2>7, <3>2 DEF Innermost
  <2>. QED
    BY <1>1, <2>1, <2>6, <2>8 DEF Inv, WaitInv, ChildInv
<1>. QED
  BY <1>1, CoreInvariant, PTL

\* Once the stop is over no unit runs or is queued, no slot is occupied and no
\* lane is taken, for any pool, any hosts and whatever was under way.
THEOREM StopLeavesNothing == Spec => []StoppedIsIdle
<1>1. ASSUME Inv PROVE StoppedIsIdle
  <2>. SUFFICES ASSUME Stopping("stopped")
                PROVE  /\ \A w \in Workers : ~\E i \in DOMAIN stack[w] : stack[w][i].kind \in UserKinds
                       /\ injector = <<>> /\ blockingQueue = <<>> /\ activeBlocking = 0
                       /\ \A w \in Workers : slot[w] = NoUnit
    BY DEF StoppedIsIdle
  <2>1. StopPc = "stopped"
    BY <1>1, StopTop
  <2>2. AllOver /\ Lanes = {} /\ blockingQueue = <<>>
    BY <1>1, <2>1 DEF Inv, StopInv
  <2>3. activeBlocking = 0
    BY <1>1, <2>2, FS_EmptySet DEF Inv, LaneInv
  <2>4. \A u \in Units : status[u] \notin {"queued", "running", "again"}
    BY <2>2 DEF AllOver
  <2>5. ASSUME NEW w \in Workers, NEW i \in DOMAIN stack[w], stack[w][i].kind \in UserKinds
        PROVE  FALSE
    <3>1. w \in Threads /\ i \in 1..Len(stack[w])
      BY <1>1, <2>5, LenProperties DEF Inv, Stacks, StackOK, Threads
    <3>2. FrameOK(w, stack[w][i])
      BY <1>1, <3>1 DEF Inv, Stacks, StackOK
    <3>3. Runner(stack[w][i])
      BY <2>5, <3>2, SchedulerAssumption DEF FrameOK, UserKinds, Runner
    <3>4. stack[w][i].u \in Units
      BY <1>1, <3>1, <3>3, RunnerUnit DEF Inv
    <3>5. status[stack[w][i].u] \in {"running", "again"}
      BY <1>1, <3>1, <3>3 DEF Inv, PlaceInv, RunningInv, Runner
    <3>. QED
      BY <2>4, <3>4, <3>5
  <2>6. injector = <<>>
    <3>1. ASSUME injector # <<>> PROVE FALSE
      <4>1. Head(injector) \in Range(injector) /\ Head(injector) \in Tasks
        BY <1>1, <3>1, QueuePop DEF Inv, DataTypes
      <4>2. /\ In("injector", NoUnit, Head(injector)) /\ Head(injector) \in Units
            /\ "injector" \in Places /\ NoUnit \in Holders
        BY <4>1 DEF In, Units, Places, Holders
      <4>3. status[Head(injector)] = "queued"
        BY <1>1, <4>2 DEF Inv, PlaceInv, QueuedInv
      <4>. QED
        BY <2>4, <4>2, <4>3
    <3>. QED
      BY <3>1
  <2>7. ASSUME NEW w \in Workers PROVE slot[w] = NoUnit
    <3>1. ASSUME slot[w] # NoUnit PROVE FALSE
      <4>1. /\ In("slot", w, slot[w]) /\ slot[w] \in Units /\ "slot" \in Places /\ w \in Holders
        BY <1>1, <3>1 DEF In, Units, Places, Holders, Threads, Inv, DataTypes
      <4>2. status[slot[w]] = "queued"
        BY <1>1, <4>1 DEF Inv, PlaceInv, QueuedInv
      <4>. QED
        BY <2>4, <4>1, <4>2
    <3>. QED
      BY <3>1
  <2>. QED
    BY <2>2, <2>3, <2>5, <2>6, <2>7
<1>. QED
  BY <1>1, CoreInvariant, PTL
=============================================================================
