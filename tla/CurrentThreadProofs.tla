------------------------ MODULE CurrentThreadProofs ------------------------
(***************************************************************************)
(* The executor of the current thread, for any finite sets of hosts and    *)
(* tasks and any threads: the frames of a stack are what their call claims *)
(* of the executor, and each claim has one frame.                          *)
(*                                                                         *)
(* Spots(P) are the frames, of all stacks, that P holds of; a step changes *)
(* them only at the top of one stack.  TypeInv and ShapeInv say what a     *)
(* frame carries and where it stands; ClaimsInv ties frames to claims.     *)
(* Sound ties the counter of every dispatch to the deliveries and the owed *)
(* dispatches of the hosts, through the sweeps that cancel them.           *)
(* TaskInv gives a task's queued runnable, or the frame that carries it,   *)
(* one place.  StopInv keeps a stopped executor without claims and tasks.  *)
(***************************************************************************)
EXTENDS CurrentThread, FiniteSetTheorems, SequenceTheorems, WellFoundedInduction, TLAPS

(* The frames of the stacks, by what they carry. *)
PlainPcs   == {"return", "drain", "move", "purge", "retire", "rdq", "rdqJoin", "drive",
               "evict", "gone", "lease", "abort", "close", "wait"}
Results    == {"none", "done", "accepted", "failed", "unavailable", "coalesced"}
Failures   == [dispatch : Dispatches \cup {NoDispatch}, epoch : 0 .. Epochs - 1]

SchedFrames    == [pc : {"push", "offer", "return"}, task : Tasks, waker : BOOLEAN]
PlainFrames    == [pc : PlainPcs]
PublishFrames  == [pc : PublishPcs, dispatch : Dispatches, live : SUBSET Hosts,
                   failures : SUBSET Failures, result : Results, failure : Failures]
DropFrames     == [pc : {"drop", "forget", "forgetHosts"}, tasks : SUBSET Tasks]
CompleteFrames == [pc : {"complete"}, failures : SUBSET Failures, redispatch : BOOLEAN]
CancelFrames   == [pc : {"cancel", "uncancel"}, failure : Failures]
AttemptFrames  == [pc : {"attempt"}, n : Nat, res : Results]
ResFrames      == [pc : {"reopen", "last", "return"}, res : Results]
AdmitFrames    == [pc : {"admit", "mark", "fail"}, dispatch : Dispatches]
TurnFrames     == [pc : {"turn", "release", "again", "ack"}, dispatch : Dispatches, n : Nat]
PollFrames     == [pc : {"poll"}, task : Tasks]

Frames == UNION {SchedFrames, PlainFrames, PublishFrames, DropFrames, CompleteFrames,
                 CancelFrames, AttemptFrames, ResFrames, AdmitFrames, TurnFrames,
                 PollFrames}

-----------------------------------------------------------------------------
(* Minima, maxima and sequences of sets.                                   *)

LEMMA MinOf ==
  ASSUME NEW S \in SUBSET Nat, S # {}
  PROVE  Min(S) \in S /\ \A m \in S : Min(S) <= m
<1>1. IsWellFoundedOn(OpToRel(<, Nat), Nat)
  BY NatLessThanWellFounded
<1>2. PICK n \in S : \A m \in S : ~ (<<m, n>> \in OpToRel(<, Nat))
  BY <1>1, WFMin
<1>3. ASSUME NEW m \in S PROVE n <= m
  <2>1. m \in Nat /\ n \in Nat
    OBVIOUS
  <2>2. m < n => <<m, n>> \in OpToRel(<, Nat)
    BY <2>1 DEF OpToRel
  <2>3. ~ (m < n)
    BY <1>2, <2>2, Zenon
  <2>. QED
    BY <2>1, <2>3
<1>. QED
  BY <1>3 DEF Min

LEMMA MaxOf ==
  ASSUME NEW n \in Nat, NEW S \in SUBSET (0 .. n), S # {}
  PROVE  Max(S) \in S /\ \A m \in S : m <= Max(S)
<1>. DEFINE T == {n - x : x \in S}
<1>1. T \in SUBSET Nat /\ T # {}
  <2>1. \A x \in S : x \in 0 .. n /\ n - x \in Nat
    OBVIOUS
  <2>2. \A y \in T : y \in Nat
    BY <2>1
  <2>. QED
    BY <2>2
<1>2. Min(T) \in T /\ \A m \in T : Min(T) <= m
  BY <1>1, MinOf
<1>3. PICK x \in S : Min(T) = n - x
  BY <1>2
<1>4. ASSUME NEW m \in S PROVE m <= x
  <2>1. n - m \in T
    OBVIOUS
  <2>2. n - x <= n - m
    BY <1>2, <1>3, <2>1
  <2>3. x \in 0 .. n /\ m \in 0 .. n
    OBVIOUS
  <2>. QED
    BY <2>2, <2>3
<1>. QED
  BY <1>4 DEF Max

LEMMA SetToSeqShape ==
  ASSUME NEW S, IsFiniteSet(S)
  PROVE  /\ SetToSeq(S) \in Seq(S)
         /\ \A x \in S : \E i \in DOMAIN SetToSeq(S) : SetToSeq(S)[i] = x
         /\ \A i, j \in DOMAIN SetToSeq(S) : SetToSeq(S)[i] = SetToSeq(S)[j] => i = j
         /\ SetToSeq(S) = <<>> => S = {}
<1>. DEFINE n == Cardinality(S)
<1>1. n \in Nat
  BY FS_CardinalityType
<1>2. ExistsBijection(1 .. n, S)
  BY FS_CardinalityType
<1>3. PICK g \in Bijection(1 .. n, S) : TRUE
  BY <1>2 DEF ExistsBijection
<1>4. g \in [1 .. n -> S] /\ IsInjective(g)
  BY <1>3 DEF Bijection, Injection
<1>. DEFINE f == SetToSeq(S)
<1>5. f \in [1 .. n -> S] /\ IsInjective(f)
  BY <1>4 DEF SetToSeq
<1>. HIDE DEF n, f
<1>6. f \in Seq(S) /\ DOMAIN f = 1 .. n
  BY <1>1, <1>5
<1>7. f \in Injection(1 .. n, S)
  BY <1>5 DEF Injection
<1>8. \A i, j \in DOMAIN f : f[i] = f[j] => i = j
  BY <1>5, <1>6 DEF IsInjective
<1>9. f \in Surjection(1 .. n, S)
  <2>1. Cardinality(1 .. n) = n
    BY <1>1, FS_Interval
  <2>2. Cardinality(S) = n
    BY DEF n
  <2>. QED
    BY <1>7, <2>1, <2>2, FS_Injection
<1>10. \A x \in S : \E i \in DOMAIN f : f[i] = x
  BY <1>6, <1>9 DEF Surjection
<1>11. f = <<>> => S = {}
  BY <1>10
<1>. QED
  BY <1>6, <1>8, <1>10, <1>11 DEF f

-----------------------------------------------------------------------------
(* How a stack changes.                                                    *)

(* The same frame, but for the result of a request noted in it.            *)
Same(f, g) == g = f \/ \E r \in Results : "res" \in DOMAIN f /\ g = [f EXCEPT !.res = r]

(* t is s with the frames fs for the one on top, or s without that one and *)
(* the callers that waited for it: n frames of s stay.                     *)
Replaces(s, t, n, fs) ==
  /\ n \in 0 .. Len(s) /\ (s # <<>> => n < Len(s))
  /\ Len(t) = n + Len(fs)
  /\ \A i \in 1 .. n : Same(s[i], t[i])
  /\ \A k \in 1 .. Len(fs) : t[n + k] = fs[k]
  /\ \A i \in n + 1 .. Len(s) - 1 : s[i].pc \in {"return", "lease"}
  /\ fs # <<>> => n + 1 >= Len(s)

Moves(a, fs) ==
  \E t \in Seq(Frames), n \in Nat :
    stack' = [stack EXCEPT ![a] = t] /\ Replaces(stack[a], t, n, fs)

LEMMA FrontShape ==
  ASSUME NEW S, NEW s \in Seq(S), s # <<>>
  PROVE  /\ Len(s) \in Nat \ {0} /\ Last(s) = s[Len(s)] /\ Last(s) \in S
         /\ Front(s) \in Seq(S) /\ Len(Front(s)) = Len(s) - 1
         /\ \A i \in 1 .. Len(s) - 1 : Front(s)[i] = s[i]
<1>1. Len(s) \in Nat \ {0} /\ \A i \in 1 .. Len(s) : s[i] \in S
  BY EmptySeq, ElementOfSeq
<1>. DEFINE n == Len(s) - 1
<1>2. n \in Nat /\ \A i \in 1 .. n : s[i] \in S
  BY <1>1
<1>3. Last(s) = s[Len(s)] /\ Last(s) \in S
  BY <1>1 DEF Last
<1>. HIDE DEF n
<1>4. /\ SubSeq(s, 1, n) \in Seq(S)
      /\ Len(SubSeq(s, 1, n)) = n
      /\ \A i \in 1 .. n : SubSeq(s, 1, n)[i] = s[i]
  BY <1>2, SubSeqProperties
<1>5. Front(s) = SubSeq(s, 1, n)
  BY DEF Front, n
<1>. QED
  BY <1>1, <1>3, <1>4, <1>5, Zenon DEF n

(* Front(s) \o fs, which is what a call does.                              *)
LEMMA FrontReplaced ==
  ASSUME NEW s \in Seq(Frames), s # <<>>, NEW fs \in Seq(Frames)
  PROVE  /\ Front(s) \o fs \in Seq(Frames)
         /\ Replaces(s, Front(s) \o fs, Len(s) - 1, fs)
<1>. DEFINE n == Len(s) - 1
            t == Front(s) \o fs
<1>1. /\ Len(s) \in Nat \ {0} /\ Front(s) \in Seq(Frames) /\ Len(Front(s)) = n
      /\ \A i \in 1 .. n : Front(s)[i] = s[i]
  BY FrontShape
<1>2. n \in Nat /\ Len(fs) \in Nat
  BY <1>1
<1>3. /\ t \in Seq(Frames) /\ Len(t) = n + Len(fs)
      /\ \A i \in 1 .. n + Len(fs) : t[i] = IF i <= n THEN Front(s)[i] ELSE fs[i - n]
  <2>. DEFINE p == Front(s)
  <2>1. p \in Seq(Frames) /\ Len(p) = n
    BY <1>1
  <2>. HIDE DEF p
  <2>2. /\ p \o fs \in Seq(Frames) /\ Len(p \o fs) = Len(p) + Len(fs)
        /\ \A i \in 1 .. Len(p) + Len(fs) :
             (p \o fs)[i] = IF i <= Len(p) THEN p[i] ELSE fs[i - Len(p)]
    BY <2>1, ConcatProperties
  <2>. QED
    BY <2>1, <2>2 DEF p
<1>. HIDE DEF t
<1>4. \A i \in 1 .. n : Same(s[i], t[i])
  BY <1>1, <1>2, <1>3, SMTT(40) DEF Same
<1>5. \A k \in 1 .. Len(fs) : t[n + k] = fs[k]
  BY <1>2, <1>3
<1>6. Replaces(s, t, n, fs)
  BY <1>1, <1>2, <1>3, <1>4, <1>5 DEF Replaces
<1>. QED
  BY <1>3, <1>6 DEF t

LEMMA SameFrame ==
  ASSUME NEW f \in Frames, NEW g, Same(f, g)
  PROVE  g \in Frames /\ g.pc = f.pc /\ DOMAIN g = DOMAIN f
<1>1. CASE g = f
  BY <1>1
<1>2. ASSUME NEW r \in Results, "res" \in DOMAIN f, g = [f EXCEPT !.res = r]
      PROVE  g \in Frames /\ g.pc = f.pc /\ DOMAIN g = DOMAIN f
  <2>1. f \in AttemptFrames \cup ResFrames
    BY <1>2 DEF Frames, SchedFrames, PlainFrames, PublishFrames, DropFrames, CompleteFrames,
       CancelFrames, AdmitFrames, TurnFrames, PollFrames, AttemptFrames, ResFrames
  <2>2. g \in AttemptFrames \cup ResFrames
    BY <1>2, <2>1 DEF AttemptFrames, ResFrames
  <2>3. g \in Frames
    BY <2>2 DEF Frames
  <2>. QED
    BY <1>2, <2>1, <2>3 DEF AttemptFrames, ResFrames
<1>. QED
  BY <1>1, <1>2 DEF Same

(* A return, which also returns from the callers that only wait for it.    *)
LEMMA UnwoundReplaced ==
  ASSUME NEW s \in Seq(Frames), s # <<>>, NEW res \in Results
  PROVE  \E n \in Nat : /\ Unwound(s, res) \in Seq(Frames)
                        /\ Replaces(s, Unwound(s, res), n, <<>>)
<1>. DEFINE I == {i \in DOMAIN s : i < Len(s) /\ s[i].pc \notin {"return", "lease"}}
            n == Max({0} \cup I)
            t == Unwound(s, res)
<1>1. Len(s) \in Nat \ {0} /\ DOMAIN s = 1 .. Len(s) /\ \A i \in 1 .. Len(s) : s[i] \in Frames
  BY EmptySeq, ElementOfSeq
<1>2. {0} \cup I \in SUBSET (0 .. Len(s)) /\ {0} \cup I # {}
  BY <1>1
<1>3. n \in {0} \cup I /\ \A m \in {0} \cup I : m <= n
  <2>. HIDE DEF I
  <2>. QED
    BY <1>1, <1>2, MaxOf
<1>4. n \in 0 .. Len(s) /\ n < Len(s)
  BY <1>1, <1>3
<1>5. \A i \in n + 1 .. Len(s) - 1 : s[i].pc \in {"return", "lease"}
  <2>. SUFFICES ASSUME NEW i \in n + 1 .. Len(s) - 1, s[i].pc \notin {"return", "lease"}
                PROVE  FALSE
    OBVIOUS
  <2>1. n \in Nat /\ i \in DOMAIN s /\ i < Len(s) /\ ~ (i <= n)
    <3>. HIDE DEF n
    <3>. QED
      BY <1>1, <1>4
  <2>2. i \in I
    BY <2>1
  <2>. QED
    BY <1>3, <2>1, <2>2
<1>6. t = IF n > 0 /\ "res" \in DOMAIN s[n]
          THEN Append(SubSeq(s, 1, n - 1), [s[n] EXCEPT !.res = res])
          ELSE SubSeq(s, 1, n)
  BY DEF Unwound
<1>. HIDE DEF t, n, I
<1>7. /\ SubSeq(s, 1, n) \in Seq(Frames) /\ Len(SubSeq(s, 1, n)) = n
      /\ \A i \in 1 .. n : SubSeq(s, 1, n)[i] = s[i]
  BY <1>1, <1>4, SubSeqProperties
<1>8. /\ t \in Seq(Frames) /\ Len(t) = n /\ \A i \in 1 .. n : Same(s[i], t[i])
  <2>1. CASE n > 0 /\ "res" \in DOMAIN s[n]
    <3>. DEFINE u == SubSeq(s, 1, n - 1)
                g == [s[n] EXCEPT !.res = res]
    <3>1. n - 1 \in Nat /\ n \in 1 .. Len(s) /\ \A i \in 1 .. n - 1 : s[i] \in Frames
      BY <1>1, <1>4, <2>1
    <3>2. u \in Seq(Frames) /\ Len(u) = n - 1 /\ \A i \in 1 .. n - 1 : u[i] = s[i]
      BY <3>1, SubSeqProperties
    <3>3. Same(s[n], g) /\ s[n] \in Frames
      BY <1>1, <2>1, <3>1 DEF Same
    <3>4. g \in Frames
      BY <3>3, SameFrame
    <3>. HIDE DEF u, g
    <3>5. /\ Append(u, g) \in Seq(Frames) /\ Len(Append(u, g)) = n
          /\ Append(u, g)[n] = g /\ \A i \in 1 .. n - 1 : Append(u, g)[i] = s[i]
      BY <3>1, <3>2, <3>4
    <3>6. t = Append(u, g)
      BY <1>6, <2>1 DEF u, g
    <3>7. \A i \in 1 .. n : Same(s[i], t[i])
      <4>1. \A i \in 1 .. n - 1 : Same(s[i], t[i])
        BY <3>5, <3>6 DEF Same
      <4>2. Same(s[n], t[n])
        BY <3>3, <3>5, <3>6
      <4>3. \A i \in 1 .. n : i = n \/ i \in 1 .. n - 1
        BY <3>1
      <4>. QED
        BY <4>1, <4>2, <4>3, Zenon
    <3>. QED
      BY <3>5, <3>6, <3>7
  <2>2. CASE ~ (n > 0 /\ "res" \in DOMAIN s[n])
    BY <1>6, <1>7, <2>2 DEF Same
  <2>. QED
    BY <2>1, <2>2
<1>9. Replaces(s, t, n, <<>>)
  BY <1>1, <1>4, <1>5, <1>8 DEF Replaces
<1>10. n \in Nat
  BY <1>4
<1>. QED
  BY <1>8, <1>9, <1>10 DEF t

-----------------------------------------------------------------------------
(* The steps of the stacks, as the actions write them.                     *)

Stacks == stack \in [Actors -> Seq(Frames)]

LEMMA TopShape ==
  ASSUME Stacks, NEW a \in Actors, stack[a] # <<>>
  PROVE  /\ stack[a] \in Seq(Frames) /\ Len(stack[a]) \in Nat \ {0}
         /\ Top(a) \in Frames /\ Top(a) = stack[a][Len(stack[a])]
<1>1. stack[a] \in Seq(Frames)
  BY DEF Stacks
<1>. QED
  BY <1>1, FrontShape DEF Top

LEMMA BecomeMoves ==
  ASSUME Stacks, NEW a \in Actors, stack[a] # <<>>, NEW fs \in Seq(Frames),
         stack' = [stack EXCEPT ![a] = Front(stack[a]) \o fs]
  PROVE  Moves(a, fs)
<1>1. stack[a] \in Seq(Frames) /\ Len(stack[a]) \in Nat \ {0}
  BY TopShape
<1>2. /\ Front(stack[a]) \o fs \in Seq(Frames) /\ Len(stack[a]) - 1 \in Nat
      /\ Replaces(stack[a], Front(stack[a]) \o fs, Len(stack[a]) - 1, fs)
  BY <1>1, FrontReplaced
<1>. QED
  BY <1>2 DEF Moves

LEMMA ConcatThree ==
  ASSUME NEW S, NEW p \in Seq(S), NEW q \in Seq(S), NEW r \in Seq(S)
  PROVE  (p \o q) \o r = p \o (q \o r)
  BY ConcatAssociative, SMTT(40)

LEMMA PairConcat ==
  ASSUME NEW S, NEW f \in S, NEW g \in S
  PROVE  <<f>> \o <<g>> = <<f, g>>
<1>. DEFINE p == <<f>>
            q == <<g>>
            r == <<f, g>>
<1>1. /\ p \in Seq(S) /\ q \in Seq(S) /\ r \in Seq(S)
      /\ Len(p) = 1 /\ Len(q) = 1 /\ Len(r) = 2
      /\ p[1] = f /\ q[1] = g /\ r[1] = f /\ r[2] = g
  OBVIOUS
<1>. HIDE DEF p, q, r
<1>2. /\ p \o q \in Seq(S) /\ Len(p \o q) = Len(p) + Len(q)
      /\ \A i \in 1 .. Len(p) + Len(q) : (p \o q)[i] = IF i <= Len(p) THEN p[i] ELSE q[i - Len(p)]
  BY <1>1, ConcatProperties
<1>3. Len(p \o q) = 2 /\ \A i \in 1 .. 2 : (p \o q)[i] = r[i]
  BY <1>1, <1>2
<1>4. p \o q = r
  BY <1>1, <1>2, <1>3, SeqEqual
<1>. QED
  BY <1>4 DEF p, q, r

LEMMA GotoMoves ==
  ASSUME Stacks, NEW a \in Actors, stack[a] # <<>>, NEW f \in Frames, Goto(a, f)
  PROVE  Moves(a, <<f>>)
<1>1. <<f>> \in Seq(Frames)
  OBVIOUS
<1>. QED
  BY <1>1, BecomeMoves DEF Goto, Become

LEMMA SpawnMoves ==
  ASSUME Stacks, NEW a \in Actors, stack[a] # <<>>, NEW f \in Frames, NEW gs \in Seq(Frames),
         stack' = [stack EXCEPT ![a] = Become(a, f) \o gs]
  PROVE  Moves(a, <<f>> \o gs)
<1>1. <<f>> \in Seq(Frames) /\ <<f>> \o gs \in Seq(Frames)
  BY ConcatProperties
<1>2. Front(stack[a]) \in Seq(Frames)
  BY TopShape, FrontShape
<1>3. Become(a, f) \o gs = Front(stack[a]) \o (<<f>> \o gs)
  BY <1>1, <1>2, ConcatThree DEF Become
<1>. QED
  BY <1>1, <1>3, BecomeMoves

LEMMA CallMoves ==
  ASSUME Stacks, NEW a \in Actors, stack[a] # <<>>, NEW f \in Frames, NEW g \in Frames,
         Call(a, f, g)
  PROVE  Moves(a, <<f, g>>)
<1>1. <<g>> \in Seq(Frames) /\ <<f>> \o <<g>> = <<f, g>>
  BY PairConcat
<1>. QED
  BY <1>1, SpawnMoves DEF Call

LEMMA ReturnMoves ==
  ASSUME Stacks, NEW a \in Actors, stack[a] # <<>>, NEW res \in Results, ReturnWith(a, res)
  PROVE  Moves(a, <<>>)
<1>1. PICK n \in Nat : /\ Unwound(stack[a], res) \in Seq(Frames)
                       /\ Replaces(stack[a], Unwound(stack[a], res), n, <<>>)
  BY TopShape, UnwoundReplaced
<1>. QED
  BY <1>1 DEF Moves, ReturnWith

LEMMA OpenMoves ==
  ASSUME Stacks, NEW a \in Actors, stack[a] = <<>>, NEW fs \in Seq(Frames),
         stack' = [stack EXCEPT ![a] = fs]
  PROVE  Moves(a, fs)
<1>1. Len(stack[a]) = 0 /\ Len(fs) \in Nat
  OBVIOUS
<1>2. Replaces(stack[a], fs, 0, fs)
  BY <1>1 DEF Replaces
<1>. QED
  BY <1>2 DEF Moves

LEMMA OpenOne ==
  ASSUME Stacks, NEW a \in Actors, stack[a] = <<>>, NEW f \in Frames,
         stack' = [stack EXCEPT ![a] = <<f>>]
  PROVE  Moves(a, <<f>>)
<1>1. <<f>> \in Seq(Frames)
  OBVIOUS
<1>. QED
  BY <1>1, OpenMoves

LEMMA SoleMoves ==
  ASSUME Stacks, NEW a \in Actors, Len(stack[a]) = 1, NEW fs \in Seq(Frames),
         stack' = [stack EXCEPT ![a] = fs]
  PROVE  Moves(a, fs)
<1>1. Len(fs) \in Nat
  OBVIOUS
<1>2. Replaces(stack[a], fs, 0, fs)
  BY <1>1 DEF Replaces
<1>. QED
  BY <1>2 DEF Moves

(* A request that joins a dispatch: the caller goes on at once.            *)
LEMMA CoalescedMoves ==
  ASSUME Stacks, NEW a \in Actors, stack[a] # <<>>, NEW f \in Frames, NEW res \in Results,
         stack' = [stack EXCEPT ![a] = Unwound(Become(a, f) \o <<Frame("drain")>>, res)]
  PROVE  \/ \E g \in Frames : Same(f, g) /\ Moves(a, <<g>>)
         \/ f.pc \in {"return", "lease"} /\ Moves(a, <<>>)
<1>. DEFINE s == stack[a]
            m == Len(s)
            u == Front(s) \o <<f, Frame("drain")>>
            t == Unwound(u, res)
<1>1. s \in Seq(Frames) /\ m \in Nat \ {0}
  BY TopShape
<1>2. Frame("drain") \in Frames
  BY DEF Frame, Frames, PlainFrames, PlainPcs
<1>3. <<f, Frame("drain")>> \in Seq(Frames) /\ Len(<<f, Frame("drain")>>) = 2
  BY <1>2
<1>4. u \in Seq(Frames) /\ Replaces(s, u, m - 1, <<f, Frame("drain")>>)
  BY <1>1, <1>3, FrontReplaced
<1>5. Become(a, f) \o <<Frame("drain")>> = u
  <2>1. Front(s) \in Seq(Frames) /\ <<f>> \in Seq(Frames) /\ <<Frame("drain")>> \in Seq(Frames)
    BY <1>1, <1>2, FrontShape
  <2>2. <<f>> \o <<Frame("drain")>> = <<f, Frame("drain")>>
    BY <1>2, PairConcat
  <2>. QED
    BY <2>1, <2>2, ConcatThree DEF Become
<1>. HIDE DEF u
<1>6. /\ Len(u) = m + 1 /\ u[m] = f
      /\ \A i \in 1 .. m - 1 : Same(s[i], u[i])
  <2>1. /\ Len(u) = m - 1 + 2
        /\ \A k \in 1 .. 2 : u[m - 1 + k] = <<f, Frame("drain")>>[k]
        /\ \A i \in 1 .. m - 1 : Same(s[i], u[i])
    BY <1>3, <1>4 DEF Replaces
  <2>2. u[m - 1 + 1] = f
    BY <2>1
  <2>. QED
    BY <1>1, <2>1, <2>2
<1>7. \A i \in 1 .. m - 1 : u[i] = s[i]
  <2>1. /\ Front(s) \in Seq(Frames) /\ Len(Front(s)) = m - 1
        /\ \A i \in 1 .. m - 1 : Front(s)[i] = s[i]
    BY <1>1, FrontShape
  <2>. DEFINE p == Front(s)
              q == <<f, Frame("drain")>>
  <2>2. \A i \in 1 .. Len(p) + Len(q) : (p \o q)[i] = IF i <= Len(p) THEN p[i] ELSE q[i - Len(p)]
    <3>. HIDE DEF p, q
    <3>1. p \in Seq(Frames) /\ q \in Seq(Frames)
      BY <1>3, <2>1 DEF p, q
    <3>. QED
      BY <3>1, ConcatProperties
  <2>3. u = p \o q
    BY DEF u
  <2>. HIDE DEF p, q
  <2>4. Len(q) = 2 /\ Len(p) = m - 1 /\ \A i \in 1 .. m - 1 : p[i] = s[i]
    BY <1>3, <2>1 DEF p, q
  <2>. QED
    BY <1>1, <2>2, <2>3, <2>4
<1>8. u # <<>>
  BY <1>1, <1>6
<1>9. PICK n \in Nat : t \in Seq(Frames) /\ Replaces(u, t, n, <<>>)
  BY <1>4, <1>8, UnwoundReplaced
<1>. HIDE DEF t
<1>10. /\ n <= m /\ Len(t) = n /\ \A i \in 1 .. n : Same(u[i], t[i])
       /\ \A i \in n + 1 .. m : u[i].pc \in {"return", "lease"}
  <2>1. /\ n < Len(u) /\ Len(t) = n + Len(<<>>) /\ \A i \in 1 .. n : Same(u[i], t[i])
        /\ \A i \in n + 1 .. Len(u) - 1 : u[i].pc \in {"return", "lease"}
    BY <1>8, <1>9 DEF Replaces
  <2>. QED
    BY <1>1, <1>6, <2>1
<1>11. stack' = [stack EXCEPT ![a] = t]
  BY <1>5 DEF t
<1>12. CASE n = m
  <2>1. Same(f, t[m])
    BY <1>1, <1>6, <1>10, <1>12
  <2>2. t[m] \in Frames
    BY <2>1, SameFrame
  <2>3. \A i \in 1 .. m - 1 : Same(s[i], t[i])
    BY <1>1, <1>7, <1>10, <1>12
  <2>4. Replaces(s, t, m - 1, <<t[m]>>)
    <3>1. /\ Len(<<t[m]>>) = 1 /\ m - 1 \in Nat /\ m - 1 + 1 = m
          /\ \A i \in m .. m - 1 : FALSE
      BY <1>1
    <3>2. Len(t) = m - 1 + Len(<<t[m]>>) /\ \A k \in 1 .. Len(<<t[m]>>) : t[m - 1 + k] = <<t[m]>>[k]
      BY <1>1, <1>10, <1>12, <3>1
    <3>. QED
      BY <1>1, <2>3, <3>1, <3>2 DEF Replaces
  <2>5. m - 1 \in Nat
    BY <1>1
  <2>. QED
    BY <1>9, <1>11, <2>1, <2>2, <2>4, <2>5 DEF Moves
<1>13. CASE n < m
  <2>1. f.pc \in {"return", "lease"}
    BY <1>1, <1>6, <1>10, <1>13
  <2>2. Replaces(s, t, n, <<>>)
    <3>1. \A i \in n + 1 .. m - 1 : s[i].pc \in {"return", "lease"}
      BY <1>1, <1>7, <1>10
    <3>2. \A i \in 1 .. n : Same(s[i], t[i])
      BY <1>1, <1>7, <1>10, <1>13
    <3>. QED
      BY <1>1, <1>10, <1>13, <3>1, <3>2 DEF Replaces
  <2>. QED
    BY <1>9, <1>11, <2>1, <2>2 DEF Moves
<1>14. n = m \/ n < m
  BY <1>1, <1>10
<1>. QED
  BY <1>12, <1>13, <1>14

-----------------------------------------------------------------------------
(* Where the frames of a kind are, before and after a step.                *)

Spots(st, X) ==
  UNION {{<<b, i>> : i \in {i \in 1 .. Len(st[b]) : st[b][i] \in X}} : b \in Actors}

(* The kinds that a noted result does not change, and those whose frames   *)
(* are never popped with the frame above them.                             *)
Steady(X)  == X \subseteq Frames /\ \A f, g \in Frames : Same(f, g) => (f \in X <=> g \in X)
Lasting(X) == \A f \in X : f.pc \notin {"return", "lease"}

Kind(P) == {f \in Frames : f.pc \in P}

Held(claim, S) == IF claim THEN \E x : S = {x} ELSE S = {}

LEMMA SteadyKind ==
  ASSUME NEW P
  PROVE  Steady(Kind(P)) /\ ("return" \notin P /\ "lease" \notin P => Lasting(Kind(P)))
  BY SameFrame DEF Steady, Kind, Lasting

LEMMA SteadyFields ==
  ASSUME NEW X \in SUBSET Frames,
         \A f \in X : f.pc \notin {"attempt", "reopen", "last", "return", "lease"}
  PROVE  Steady(X) /\ Lasting(X)
<1>1. ASSUME NEW f \in Frames, NEW g \in Frames, Same(f, g), g # f
      PROVE  f \notin X /\ g \notin X
  <2>1. "res" \in DOMAIN f
    BY <1>1 DEF Same
  <2>2. f \in AttemptFrames \cup ResFrames
    BY <2>1 DEF Frames, SchedFrames, PlainFrames, PublishFrames, DropFrames, CompleteFrames,
       CancelFrames, AdmitFrames, TurnFrames, PollFrames, AttemptFrames, ResFrames
  <2>3. f.pc \in {"attempt", "reopen", "last", "return"}
    BY <2>2 DEF AttemptFrames, ResFrames
  <2>4. g.pc = f.pc
    BY <1>1, SameFrame
  <2>. QED
    BY <2>3, <2>4
<1>. QED
  BY <1>1 DEF Steady, Lasting

LEMMA SpotsAt ==
  ASSUME NEW st, NEW X, NEW x
  PROVE  x \in Spots(st, X) <=>
           \E b \in Actors : \E i \in 1 .. Len(st[b]) : x = <<b, i>> /\ st[b][i] \in X
  BY DEF Spots

LEMMA SpotAt ==
  ASSUME NEW st, NEW X, NEW b, NEW i
  PROVE  <<b, i>> \in Spots(st, X) <=>
           b \in Actors /\ i \in 1 .. Len(st[b]) /\ st[b][i] \in X
<1>1. \A c \in Actors : \A j \in 1 .. Len(st[c]) : <<b, i>> = <<c, j>> <=> b = c /\ i = j
  OBVIOUS
<1>. QED
  BY <1>1, SpotsAt

LEMMA SpotsEqual ==
  ASSUME NEW st, NEW X, NEW S,
         \A x \in S : \E b, i : x = <<b, i>>,
         \A b, i : <<b, i>> \in Spots(st, X) <=> <<b, i>> \in S
  PROVE  Spots(st, X) = S
<1>1. \A x \in Spots(st, X) : \E b, i : x = <<b, i>>
  BY SpotsAt
<1>. QED
  BY <1>1

Top1(a) == <<a, Len(stack[a])>>
Base(a) == IF stack[a] = <<>> THEN 0 ELSE Len(stack[a]) - 1
New(a, fs, X) == {<<a, Base(a) + k>> : k \in {k \in 1 .. Len(fs) : fs[k] \in X}}

LEMMA SpotsMoved ==
  ASSUME Stacks, NEW a \in Actors, NEW fs \in Seq(Frames), Moves(a, fs), NEW X, Steady(X)
  PROVE  /\ Stacks'
         /\ Spots(stack', X) \subseteq (Spots(stack, X) \ {Top1(a)}) \cup New(a, fs, X)
         /\ Lasting(X) => Spots(stack', X) = (Spots(stack, X) \ {Top1(a)}) \cup New(a, fs, X)
<1>. DEFINE s == stack[a]
            S == (Spots(stack, X) \ {Top1(a)}) \cup New(a, fs, X)
<1>1. PICK t \in Seq(Frames), n \in Nat :
        stack' = [stack EXCEPT ![a] = t] /\ Replaces(s, t, n, fs)
  BY DEF Moves
<1>2. s \in Seq(Frames) /\ Len(s) \in Nat /\ (s = <<>> <=> Len(s) = 0) /\ Len(fs) \in Nat
      /\ (fs = <<>> <=> Len(fs) = 0)
  BY EmptySeq DEF Stacks
<1>3. stack' \in [Actors -> Seq(Frames)] /\ stack'[a] = t /\ \A b \in Actors \ {a} : stack'[b] = stack[b]
  BY <1>1 DEF Stacks
<1>4. /\ n \in 0 .. Len(s) /\ (s # <<>> => n < Len(s))
      /\ Len(t) = n + Len(fs)
      /\ \A i \in 1 .. n : Same(s[i], t[i])
      /\ \A k \in 1 .. Len(fs) : t[n + k] = fs[k]
      /\ \A i \in n + 1 .. Len(s) - 1 : s[i].pc \in {"return", "lease"}
      /\ fs # <<>> => n + 1 >= Len(s)
  BY <1>1 DEF Replaces
<1>5. /\ \A i \in 1 .. Len(s) : s[i] \in Frames
      /\ \A i \in 1 .. Len(t) : t[i] \in Frames
  BY <1>2, ElementOfSeq
<1>6. Base(a) \in Nat
  BY <1>2 DEF Base
<1>7. fs # <<>> => n = Base(a)
  <2>1. (s = <<>> => Base(a) = 0) /\ (s # <<>> => Base(a) = Len(s) - 1)
    BY DEF Base
  <2>. HIDE DEF s
  <2>. QED
    BY <1>2, <1>4, <2>1
<1>. HIDE DEF s
<1>8. \A i : <<a, i>> \in New(a, fs, X) <=>
               i \in Base(a) + 1 .. Base(a) + Len(fs) /\ fs[i - Base(a)] \in X
  <2>1. ASSUME NEW k \in 1 .. Len(fs) PROVE Base(a) + k \in Base(a) + 1 .. Base(a) + Len(fs) /\ Base(a) + k - Base(a) = k
    BY <1>2, <1>6
  <2>2. ASSUME NEW i \in Base(a) + 1 .. Base(a) + Len(fs) PROVE i - Base(a) \in 1 .. Len(fs) /\ Base(a) + (i - Base(a)) = i
    BY <1>2, <1>6
  <2>. DEFINE K == {k \in 1 .. Len(fs) : fs[k] \in X}
  <2>3. \A i : <<a, i>> \in New(a, fs, X) <=> \E k \in K : i = Base(a) + k
    BY DEF New
  <2>4. \A k : k \in K <=> k \in 1 .. Len(fs) /\ fs[k] \in X
    OBVIOUS
  <2>. HIDE DEF Base, K
  <2>5. ASSUME NEW i, <<a, i>> \in New(a, fs, X)
        PROVE  i \in Base(a) + 1 .. Base(a) + Len(fs) /\ fs[i - Base(a)] \in X
    <3>1. PICK k \in K : i = Base(a) + k
      BY <2>3, <2>5
    <3>2. k \in 1 .. Len(fs) /\ fs[k] \in X
      BY <2>4
    <3>3. Base(a) + k \in Base(a) + 1 .. Base(a) + Len(fs) /\ Base(a) + k - Base(a) = k
      BY <2>1, <3>2
    <3>4. i \in Base(a) + 1 .. Base(a) + Len(fs)
      BY <3>1, <3>3
    <3>5. i - Base(a) = k
      BY <1>6, <3>1, <3>2
    <3>. QED
      BY <3>2, <3>4, <3>5
  <2>6. ASSUME NEW i \in Base(a) + 1 .. Base(a) + Len(fs), fs[i - Base(a)] \in X
        PROVE  <<a, i>> \in New(a, fs, X)
    <3>1. i - Base(a) \in K
      BY <2>2, <2>4, <2>6
    <3>. QED
      BY <2>2, <2>3, <3>1
  <2>. QED
    BY <2>5, <2>6
<1>9. \A x \in New(a, fs, X) : \E i : x = <<a, i>>
  BY DEF New
<1>10. \A i \in 1 .. n : s[i] \in X <=> t[i] \in X
  <2>1. \A i \in 1 .. n : i \in 1 .. Len(s) /\ i \in 1 .. Len(t)
    BY <1>2, <1>4
  <2>. QED
    BY <2>1, <1>4, <1>5 DEF Steady
<1>11. ASSUME NEW i, <<a, i>> \in Spots(stack', X) PROVE <<a, i>> \in S
  <2>1. i \in 1 .. Len(t) /\ t[i] \in X
    BY <1>3, <1>11, SpotAt
  <2>2. CASE i \in 1 .. n
    <3>1. i \in 1 .. Len(s) /\ s[i] \in X /\ (i = Len(s) => FALSE)
      BY <1>2, <1>4, <1>10, <2>1, <2>2
    <3>2. <<a, i>> \in Spots(stack, X)
      BY <3>1, SpotAt DEF s
    <3>3. <<a, i>> # Top1(a)
      BY <3>1 DEF Top1, s
    <3>. QED
      BY <3>2, <3>3
  <2>3. CASE i \notin 1 .. n
    <3>1. i \in n + 1 .. n + Len(fs) /\ i - n \in 1 .. Len(fs) /\ n + (i - n) = i
      BY <1>2, <1>4, <2>1, <2>3
    <3>2. fs[i - n] \in X /\ fs # <<>>
      BY <1>2, <1>4, <2>1, <3>1
    <3>. QED
      BY <1>7, <1>8, <3>1, <3>2
  <2>. QED
    BY <2>2, <2>3
<1>12. ASSUME Lasting(X), NEW i, <<a, i>> \in S PROVE <<a, i>> \in Spots(stack', X)
  <2>1. CASE <<a, i>> \in New(a, fs, X)
    <3>1. i \in Base(a) + 1 .. Base(a) + Len(fs) /\ fs[i - Base(a)] \in X
      BY <1>8, <2>1
    <3>2. fs # <<>>
      BY <1>2, <1>6, <3>1
    <3>3. i \in n + 1 .. n + Len(fs) /\ fs[i - n] \in X
      BY <1>7, <3>1, <3>2
    <3>4. i \in 1 .. Len(t) /\ i - n \in 1 .. Len(fs) /\ n + (i - n) = i
      BY <1>2, <1>4, <3>3
    <3>5. t[i] \in X
      BY <1>4, <3>3, <3>4
    <3>. QED
      BY <1>3, <3>4, <3>5, SpotAt
  <2>2. CASE <<a, i>> \in Spots(stack, X) /\ <<a, i>> # Top1(a)
    <3>1. i \in 1 .. Len(s) /\ s[i] \in X /\ i # Len(s)
      BY <2>2, SpotAt DEF Top1, s
    <3>2. i \in 1 .. n
      <4>1. s[i].pc \notin {"return", "lease"}
        BY <1>12, <3>1 DEF Lasting
      <4>2. i \in 1 .. Len(s) - 1
        BY <1>2, <3>1
      <4>3. i \notin n + 1 .. Len(s) - 1
        BY <1>4, <4>1
      <4>. QED
        BY <1>2, <4>2, <4>3
    <3>3. i \in 1 .. Len(t) /\ t[i] \in X
      BY <1>2, <1>4, <1>10, <3>1, <3>2
    <3>. QED
      BY <1>3, <3>3, SpotAt
  <2>. QED
    BY <1>12, <2>1, <2>2
<1>13. ASSUME NEW b, NEW i, b # a PROVE <<b, i>> \in Spots(stack', X) <=> <<b, i>> \in S
  <2>1. <<b, i>> \notin New(a, fs, X)
    BY <1>9, <1>13
  <2>2. <<b, i>> # Top1(a)
    BY <1>13 DEF Top1
  <2>. QED
    BY <1>3, <1>13, <2>1, <2>2, SpotAt
<1>14. \A x \in S : \E b, i : x = <<b, i>>
  BY <1>9, SpotsAt
<1>15. Spots(stack', X) \subseteq S
  <2>1. \A x \in Spots(stack', X) : \E b, i : x = <<b, i>>
    BY SpotsAt
  <2>2. \A b, i : <<b, i>> \in Spots(stack', X) => <<b, i>> \in S
    <3>. HIDE DEF S
    <3>. QED
      BY <1>11, <1>13
  <2>. HIDE DEF S
  <2>. QED
    BY <2>1, <2>2
<1>16. ASSUME Lasting(X) PROVE Spots(stack', X) = S
  <2>1. \A b, i : <<b, i>> \in S => <<b, i>> \in Spots(stack', X)
    <3>. HIDE DEF S
    <3>. QED
      BY <1>12, <1>13, <1>16
  <2>. HIDE DEF S
  <2>. QED
    <3>1. ASSUME NEW x \in S PROVE x \in Spots(stack', X)
      <4>1. PICK b, i : x = <<b, i>>
        BY <1>14
      <4>. QED
        BY <2>1, <4>1
    <3>. QED
      BY <1>15, <3>1
<1>. QED
  BY <1>3, <1>15, <1>16 DEF Stacks

(* A step that neither leaves nor enters a kind of frame.                  *)
Trace(a, P) ==
  \E fs \in Seq(Frames) :
    /\ Moves(a, fs)
    /\ stack[a] # <<>> => Top(a).pc \in P
    /\ \A k \in 1 .. Len(fs) : fs[k].pc \in P

LEMMA SpotOfTop ==
  ASSUME Stacks, NEW a \in Actors, stack[a] # <<>>, NEW X
  PROVE  Top1(a) \in Spots(stack, X) <=> Top(a) \in X
<1>1. Len(stack[a]) \in 1 .. Len(stack[a]) /\ Top(a) = stack[a][Len(stack[a])]
  BY TopShape
<1>. QED
  BY <1>1, SpotAt DEF Top1

LEMMA NoTop ==
  ASSUME Stacks, NEW a \in Actors, stack[a] = <<>>, NEW X
  PROVE  Top1(a) \notin Spots(stack, X)
<1>1. ~ (Len(stack[a]) \in 1 .. Len(stack[a]))
  BY EmptySeq
<1>. QED
  BY <1>1, SpotAt DEF Top1

LEMMA Untouched ==
  ASSUME Stacks, NEW a \in Actors, NEW P, Trace(a, P),
         NEW X, Steady(X), \A f \in X : f.pc \notin P
  PROVE  /\ Stacks'
         /\ Spots(stack', X) \subseteq Spots(stack, X)
         /\ Lasting(X) => Spots(stack', X) = Spots(stack, X)
<1>1. PICK fs \in Seq(Frames) :
        /\ Moves(a, fs)
        /\ stack[a] # <<>> => Top(a).pc \in P
        /\ \A k \in 1 .. Len(fs) : fs[k].pc \in P
  BY DEF Trace
<1>2. New(a, fs, X) = {}
  BY <1>1 DEF New
<1>3. Top1(a) \notin Spots(stack, X)
  BY <1>1, SpotOfTop, NoTop
<1>4. /\ Stacks'
      /\ Spots(stack', X) \subseteq (Spots(stack, X) \ {Top1(a)}) \cup New(a, fs, X)
      /\ Lasting(X) => Spots(stack', X) = (Spots(stack, X) \ {Top1(a)}) \cup New(a, fs, X)
  BY <1>1, SpotsMoved
<1>5. (Spots(stack, X) \ {Top1(a)}) \cup New(a, fs, X) = Spots(stack, X)
  BY <1>2, <1>3
<1>. QED
  BY <1>4, <1>5

(* The top frame is followed by one of its kind, or is of another kind.    *)
LEMMA Kept ==
  ASSUME Stacks, NEW a \in Actors, stack[a] # <<>>, NEW f \in Frames, NEW gs \in Seq(Frames),
         Moves(a, <<f>> \o gs), NEW X, Steady(X), Lasting(X),
         f \in X <=> Top(a) \in X, \A k \in 1 .. Len(gs) : gs[k] \notin X
  PROVE  Spots(stack', X) = Spots(stack, X)
<1>. DEFINE fs == <<f>> \o gs
<1>1. /\ fs \in Seq(Frames) /\ Len(fs) = Len(gs) + 1 /\ fs[1] = f
      /\ \A k \in 2 .. Len(fs) : fs[k] = gs[k - 1]
      /\ Len(gs) \in Nat
  <2>. DEFINE p == <<f>>
  <2>1. p \in Seq(Frames) /\ Len(p) = 1 /\ p[1] = f
    OBVIOUS
  <2>. HIDE DEF p
  <2>2. /\ p \o gs \in Seq(Frames) /\ Len(p \o gs) = Len(p) + Len(gs)
        /\ \A i \in 1 .. Len(p) + Len(gs) : (p \o gs)[i] = IF i <= Len(p) THEN p[i] ELSE gs[i - Len(p)]
    BY <2>1, ConcatProperties
  <2>3. Len(gs) \in Nat
    OBVIOUS
  <2>4. /\ p \o gs \in Seq(Frames) /\ Len(p \o gs) = Len(gs) + 1 /\ (p \o gs)[1] = f
        /\ \A k \in 2 .. Len(gs) + 1 : (p \o gs)[k] = gs[k - 1]
    BY <2>1, <2>2, <2>3
  <2>. QED
    BY <2>3, <2>4 DEF p
<1>. HIDE DEF fs
<1>2. Base(a) + 1 = Len(stack[a]) /\ Base(a) \in Nat
  BY TopShape DEF Base
<1>3. New(a, fs, X) = IF f \in X THEN {Top1(a)} ELSE {}
  <2>1. \A k \in 1 .. Len(fs) : fs[k] \in X <=> (k = 1 /\ f \in X)
    <3>1. ASSUME NEW k \in 1 .. Len(fs), k # 1 PROVE fs[k] \notin X
      <4>1. k \in 2 .. Len(fs) /\ k - 1 \in 1 .. Len(gs)
        BY <1>1, <3>1
      <4>. QED
        BY <1>1, <4>1
    <3>. QED
      BY <1>1, <3>1
  <2>2. 1 \in 1 .. Len(fs)
    BY <1>1
  <2>3. {k \in 1 .. Len(fs) : fs[k] \in X} = IF f \in X THEN {1} ELSE {}
    BY <2>1, <2>2
  <2>. QED
    BY <1>2, <2>3 DEF New, Top1
<1>4. Spots(stack', X) = (Spots(stack, X) \ {Top1(a)}) \cup New(a, fs, X)
  BY <1>1, SpotsMoved DEF fs
<1>5. Top1(a) \in Spots(stack, X) <=> Top(a) \in X
  BY SpotOfTop
<1>. QED
  BY <1>3, <1>4, <1>5

(* The top frame goes and nothing of its kind comes.                       *)
LEMMA Left ==
  ASSUME Stacks, NEW a \in Actors, stack[a] # <<>>, NEW fs \in Seq(Frames), Moves(a, fs),
         NEW X, Steady(X), Lasting(X),
         Top(a) \in X, \A k \in 1 .. Len(fs) : fs[k] \notin X
  PROVE  Top1(a) \in Spots(stack, X) /\ Spots(stack', X) = Spots(stack, X) \ {Top1(a)}
<1>1. New(a, fs, X) = {}
  BY DEF New
<1>. QED
  BY <1>1, SpotsMoved, SpotOfTop

(* One frame of the kind comes.                                            *)
LEMMA Gained ==
  ASSUME Stacks, NEW a \in Actors, NEW fs \in Seq(Frames), Moves(a, fs),
         NEW X, Steady(X), Lasting(X), stack[a] # <<>> => Top(a) \notin X,
         NEW j \in 1 .. Len(fs), \A k \in 1 .. Len(fs) : fs[k] \in X <=> k = j
  PROVE  \E x : Spots(stack', X) = Spots(stack, X) \cup {x}
<1>1. {k \in 1 .. Len(fs) : fs[k] \in X} = {j}
  OBVIOUS
<1>2. New(a, fs, X) = {<<a, Base(a) + j>>}
  BY <1>1 DEF New
<1>3. Top1(a) \notin Spots(stack, X)
  BY SpotOfTop, NoTop
<1>4. Spots(stack', X) = (Spots(stack, X) \ {Top1(a)}) \cup New(a, fs, X)
  BY SpotsMoved
<1>5. Spots(stack', X) = Spots(stack, X) \cup {<<a, Base(a) + j>>}
  BY <1>2, <1>3, <1>4
<1>. QED
  BY <1>5

LEMMA HeldByTop ==
  ASSUME Stacks, NEW a \in Actors, stack[a] # <<>>, NEW X, Top(a) \in X,
         NEW c \in BOOLEAN, Held(c, Spots(stack, X))
  PROVE  c /\ Spots(stack, X) = {Top1(a)}
<1>1. Top1(a) \in Spots(stack, X)
  BY SpotOfTop
<1>. QED
  BY <1>1 DEF Held

-----------------------------------------------------------------------------
(* The operations of the registry: types.                                  *)

Entry  == [delivery : Dispatches \cup {NoDispatch}, claimed : BOOLEAN, accepted : BOOLEAN,
           pending : Dispatches \cup {NoDispatch}]
Record == [phase : {"absent", "pending", "serviced", "cancelling"}, epoch : 0 .. Epochs - 1,
           publications : Int, references : Int, accepted : BOOLEAN, acceptedFailure : BOOLEAN]

LEMMA RegistryParts ==
  /\ Registry = [drivers : SUBSET Hosts, order : [Hosts -> Nat], entry : [Hosts -> Entry],
                 dispatch : [Dispatches -> Record]]
  /\ FreeEntry \in Entry /\ Absent \in Record /\ FreshDispatch \in Record
  /\ NoDispatch \notin Dispatches
<1>1. 0 \in 0 .. Epochs - 1
  BY EpochsAssumption
<1>2. NoDispatch \notin Dispatches
  BY DispatchesAssumption DEF NoDispatch
<1>3. Registry = [drivers : SUBSET Hosts, order : [Hosts -> Nat], entry : [Hosts -> Entry],
                  dispatch : [Dispatches -> Record]]
  BY DEF Registry, Entry, Record
<1>4. FreeEntry \in Entry
  BY DEF FreeEntry, Entry
<1>5. Absent \in Record
  BY <1>1 DEF Absent, Record
<1>6. FreshDispatch \in Record
  BY <1>5 DEF FreshDispatch, Record
<1>. QED
  BY <1>2, <1>3, <1>4, <1>5, <1>6

LEMMA RecordFields ==
  ASSUME NEW e \in Record
  PROVE  /\ e.references \in Int /\ e.publications \in Int /\ e.accepted \in BOOLEAN
         /\ e.acceptedFailure \in BOOLEAN /\ e.epoch \in 0 .. Epochs - 1
         /\ e.phase \in {"absent", "pending", "serviced", "cancelling"}
         /\ [e EXCEPT !.phase = "cancelling"] \in Record
  BY DEF Record

LEMMA RecordWith ==
  ASSUME NEW e \in Record, NEW n \in Int, NEW a \in BOOLEAN, NEW b \in BOOLEAN
  PROVE  [e EXCEPT !.references = n, !.accepted = a, !.acceptedFailure = b] \in Record
  BY DEF Record

LEMMA RecordCounted ==
  ASSUME NEW e \in Record, NEW n \in Int, NEW a \in BOOLEAN
  PROVE  /\ [e EXCEPT !.references = n, !.accepted = a] \in Record
         /\ [e EXCEPT !.publications = n] \in Record
         /\ [e EXCEPT !.phase = "serviced", !.references = n] \in Record
  BY DEF Record

LEMMA RecordAccepted ==
  ASSUME NEW e \in Record, NEW b \in BOOLEAN
  PROVE  /\ [e EXCEPT !.accepted = TRUE] \in Record
         /\ [e EXCEPT !.accepted = TRUE, !.acceptedFailure = b] \in Record
  BY DEF Record

LEMMA EntryWith ==
  ASSUME NEW e \in Entry, NEW a \in BOOLEAN, NEW x \in Dispatches \cup {NoDispatch}
  PROVE  /\ [e EXCEPT !.pending = x] \in Entry
         /\ [e EXCEPT !.accepted = a] \in Entry
         /\ [e EXCEPT !.delivery = x, !.accepted = a] \in Entry
         /\ [e EXCEPT !.claimed = a, !.accepted = a] \in Entry
  BY DEF Entry

LEMMA EntryFields ==
  ASSUME NEW e \in Entry
  PROVE  /\ e.delivery \in Dispatches \cup {NoDispatch}
         /\ e.pending \in Dispatches \cup {NoDispatch}
         /\ e.accepted \in BOOLEAN /\ e.claimed \in BOOLEAN
         /\ [e EXCEPT !.accepted = TRUE] \in Entry
         /\ [e EXCEPT !.claimed = TRUE, !.accepted = TRUE] \in Entry
  BY DEF Entry

LEMMA HoldersFinite ==
  ASSUME NEW r \in Registry, NEW d
  PROVE  /\ IsFiniteSet(Holders(r, d)) /\ Cardinality(Holders(r, d)) \in Nat
         /\ Holders(r, d) \in SUBSET Hosts
<1>1. Holders(r, d) \in SUBSET Hosts
  BY RegistryParts DEF Holders
<1>. QED
  BY <1>1, HostsAssumption, FS_Subset, FS_CardinalityType

LEMMA HostsFinite ==
  ASSUME NEW S \in SUBSET Hosts
  PROVE  IsFiniteSet(S) /\ Cardinality(S) \in Nat
  BY HostsAssumption, FS_Subset, FS_CardinalityType

LEMMA RetireType ==
  ASSUME NEW r \in Registry, NEW ds
  PROVE  RetireUnreferenced(r, ds) \in Registry
<1>. DEFINE retired(d) == /\ d \in ds /\ Present(r, d)
                          /\ r.dispatch[d].references = 0 /\ r.dispatch[d].publications = 0
                          /\ r.dispatch[d].phase # "cancelling"
                          /\ r.dispatch[d].phase = "serviced" \/ ~ r.dispatch[d].acceptedFailure
            g == [d \in Dispatches |-> IF retired(d) THEN Absent ELSE r.dispatch[d]]
<1>1. RetireUnreferenced(r, ds) = [r EXCEPT !.dispatch = g]
  BY DEF RetireUnreferenced
<1>2. g \in [Dispatches -> Record]
  <2>. HIDE DEF retired
  <2>. QED
    BY RegistryParts
<1>. HIDE DEF g
<1>. QED
  BY <1>1, <1>2, RegistryParts

(* Finishing references decides the dispatches that lose their last one.   *)
LEMMA FinishReferencesType ==
  ASSUME NEW r \in Registry, NEW lost \in [Dispatches -> Nat],
         NEW accepted \in SUBSET Dispatches, NEW failed \in SUBSET Dispatches
  PROVE  /\ FinishReferences(r, lost, accepted, failed).reg \in Registry
         /\ FinishReferences(r, lost, accepted, failed).failures \in
              SUBSET [dispatch : Dispatches \cup {NoDispatch}, epoch : 0 .. Epochs - 1]
<1>. DEFINE s(d) == [r.dispatch[d] EXCEPT
                       !.references = @ - lost[d],
                       !.accepted = @ \/ d \in accepted,
                       !.acceptedFailure = @ \/ d \in accepted \cap failed]
            finished == {d \in Dispatches : Present(r, d) /\ lost[d] > 0}
            last == {d \in finished : s(d).references = 0 /\ s(d).publications = 0}
            fails == {d \in last : s(d).acceptedFailure /\ s(d).phase = "pending"}
            gone == {d \in last \ fails : s(d).phase # "cancelling"}
            g == [d \in Dispatches |->
                    IF d \in fails THEN [s(d) EXCEPT !.phase = "cancelling"]
                    ELSE IF d \in gone THEN Absent
                    ELSE IF d \in finished THEN s(d)
                    ELSE r.dispatch[d]]
<1>1. /\ FinishReferences(r, lost, accepted, failed).reg = [r EXCEPT !.dispatch = g]
      /\ FinishReferences(r, lost, accepted, failed).failures =
           {Failure(d, r.dispatch[d].epoch) : d \in fails}
  BY DEF FinishReferences
<1>2. \A d \in Dispatches : r.dispatch[d] \in Record /\ lost[d] \in Nat
  BY RegistryParts
<1>3. ASSUME NEW d \in Dispatches
      PROVE  s(d) \in Record /\ [s(d) EXCEPT !.phase = "cancelling"] \in Record
  <2>. DEFINE e == r.dispatch[d]
              n == e.references - lost[d]
              a == e.accepted \/ d \in accepted
              b == e.acceptedFailure \/ d \in accepted \cap failed
  <2>1. e \in Record /\ e.references \in Int
    BY <1>2, RecordFields
  <2>2. n \in Int /\ a \in BOOLEAN /\ b \in BOOLEAN
    BY <1>2, <2>1
  <2>3. s(d) = [e EXCEPT !.references = n, !.accepted = a, !.acceptedFailure = b]
    BY <2>1 DEF Record
  <2>. HIDE DEF e, n, a, b, s
  <2>5. [e EXCEPT !.references = n, !.accepted = a, !.acceptedFailure = b] \in Record
    BY <2>1, <2>2, RecordWith
  <2>4. s(d) \in Record
    BY <2>3, <2>5
  <2>. QED
    BY <2>4, RecordFields
<1>4. fails \subseteq Dispatches
  OBVIOUS
<1>. HIDE DEF s, finished, last, fails, gone
<1>5. g \in [Dispatches -> Record]
  BY <1>2, <1>3, RegistryParts
<1>6. \A d \in fails : r.dispatch[d].epoch \in 0 .. Epochs - 1
  BY <1>2, <1>4 DEF Record
<1>. HIDE DEF g
<1>7. [r EXCEPT !.dispatch = g] \in Registry
  BY <1>5, RegistryParts
<1>. QED
  BY <1>1, <1>4, <1>6, <1>7 DEF Failure

LEMMA RegisterType ==
  ASSUME NEW r \in Registry, NEW h \in Hosts
  PROVE  Register(r, h) \in Registry
<1>1. Cardinality({g \in Hosts : r.order[g] # 0}) + 1 \in Nat
  BY HostsFinite
<1>. QED
  BY <1>1, RegistryParts DEF Register

LEMMA RemoveDriversType ==
  ASSUME NEW r \in Registry, NEW hs \in SUBSET Hosts
  PROVE  /\ RemoveDrivers(r, hs).reg \in Registry
         /\ RemoveDrivers(r, hs).failures \in
              SUBSET [dispatch : Dispatches \cup {NoDispatch}, epoch : 0 .. Epochs - 1]
<1>. DEFINE left == [r EXCEPT !.drivers = @ \ hs,
                              !.entry = [h \in Hosts |-> IF h \in hs THEN FreeEntry ELSE @[h]]]
            accepted == {d \in Dispatches :
                           \E h \in hs : \/ r.entry[h].delivery = d /\ r.entry[h].accepted
                                         \/ r.entry[h].pending = d}
            lost == [d \in Dispatches |-> Cardinality(Holders(r, d) \cap hs)]
<1>1. RemoveDrivers(r, hs) = FinishReferences(left, lost, accepted, accepted)
  BY DEF RemoveDrivers
<1>2. left \in Registry
  BY RegistryParts
<1>3. lost \in [Dispatches -> Nat]
  <2>1. \A d \in Dispatches : Holders(r, d) \cap hs \in SUBSET Hosts
    OBVIOUS
  <2>. QED
    BY <2>1, HostsFinite
<1>4. accepted \in SUBSET Dispatches
  OBVIOUS
<1>. HIDE DEF left, lost, accepted
<1>. QED
  BY <1>1, <1>2, <1>3, <1>4, FinishReferencesType

LEMMA BeginPublicationType ==
  ASSUME NEW r \in Registry, NEW d \in Dispatches
  PROVE  BeginPublication(r, d) \in Registry
<1>. DEFINE e == IF Present(r, d) THEN r.dispatch[d] ELSE FreshDispatch
<1>1. e \in Record
  BY RegistryParts
<1>. HIDE DEF e
<1>. DEFINE q == [e EXCEPT !.publications = @ + 1]
<1>2. q \in Record
  BY <1>1 DEF Record
<1>3. BeginPublication(r, d) = [r EXCEPT !.dispatch[d] = q]
  BY DEF BeginPublication, e
<1>. HIDE DEF q
<1>. QED
  BY <1>2, <1>3, RegistryParts

LEMMA PlanType ==
  ASSUME NEW r \in Registry, NEW d \in Dispatches, NEW live \in SUBSET Hosts
  PROVE  Plan(r, d, live).reg \in Registry /\ Plan(r, d, live).planned \in SUBSET Hosts
<1>. DEFINE offered == {h \in live \cap r.drivers : r.entry[h].delivery # d}
            busy == {h \in offered : r.entry[h].delivery # NoDispatch}
            owing == {h \in offered : r.entry[h].pending = d}
            swapped(x) == {h \in offered \ owing : r.entry[h].pending = x}
            accepted == \/ busy \cup owing # {}
                        \/ \E h \in (live \cap r.drivers) \ offered : r.entry[h].accepted
            entry == [h \in Hosts |->
                        IF h \in busy THEN [r.entry[h] EXCEPT !.pending = d]
                        ELSE IF h \in offered
                        THEN [FreeEntry EXCEPT !.delivery = d, !.accepted = (h \in owing)]
                        ELSE r.entry[h]]
            dispatch == [x \in Dispatches |->
                           IF x = d
                           THEN [r.dispatch[d] EXCEPT
                                   !.references = @ + Cardinality(offered \ owing),
                                   !.accepted = @ \/ accepted]
                           ELSE IF Present(r, x)
                           THEN [r.dispatch[x] EXCEPT !.references = @ - Cardinality(swapped(x))]
                           ELSE r.dispatch[x]]
            q == [r EXCEPT !.entry = entry, !.dispatch = dispatch]
<1>1. /\ Plan(r, d, live).reg = RetireUnreferenced(q, {r.entry[h].pending : h \in offered})
      /\ Plan(r, d, live).planned = offered \ busy
  BY DEF Plan
<1>2. /\ \A h \in Hosts : r.entry[h] \in Entry
      /\ \A x \in Dispatches : r.dispatch[x] \in Record
  BY RegistryParts
<1>3. offered \subseteq Hosts
  OBVIOUS
<1>4. /\ Cardinality(offered \ owing) \in Nat
      /\ \A x : Cardinality(swapped(x)) \in Nat
  <2>1. offered \ owing \in SUBSET Hosts /\ \A x : swapped(x) \in SUBSET Hosts
    BY <1>3
  <2>. HIDE DEF swapped, offered, owing
  <2>. QED
    BY <2>1, HostsFinite
<1>5. accepted \in BOOLEAN
  OBVIOUS
<1>6. entry \in [Hosts -> Entry]
  <2>1. \A h : [FreeEntry EXCEPT !.delivery = d, !.accepted = (h \in owing)] \in Entry
    <3>1. ASSUME NEW h PROVE [FreeEntry EXCEPT !.delivery = d, !.accepted = (h \in owing)] \in Entry
      <4>. DEFINE b == h \in owing
      <4>1. b \in BOOLEAN
        OBVIOUS
      <4>. HIDE DEF b
      <4>2. [FreeEntry EXCEPT !.delivery = d, !.accepted = b] \in Entry
        BY <4>1, RegistryParts, EntryWith
      <4>. QED
        BY <4>2 DEF b
    <3>. QED
      BY <3>1
  <2>2. \A h \in Hosts : [r.entry[h] EXCEPT !.pending = d] \in Entry
    BY <1>2 DEF Entry
  <2>. HIDE DEF busy, offered, owing
  <2>. QED
    BY <1>2, <2>1, <2>2
<1>. HIDE DEF offered, busy, owing, swapped, accepted, entry
<1>7. dispatch \in [Dispatches -> Record]
  <2>1. [r.dispatch[d] EXCEPT !.references = @ + Cardinality(offered \ owing),
                              !.accepted = @ \/ accepted] \in Record
    <3>. DEFINE e == r.dispatch[d]
                n == e.references + Cardinality(offered \ owing)
                b == e.accepted \/ accepted
    <3>1. e \in Record /\ e.references \in Int
      BY <1>2, RecordFields
    <3>2. n \in Int /\ b \in BOOLEAN
      BY <1>4, <3>1
    <3>3. [e EXCEPT !.references = n, !.accepted = b] \in Record
      <4>. HIDE DEF e, n, b
      <4>. QED
        BY <3>1, <3>2, RecordCounted
    <3>4. [e EXCEPT !.references = @ + Cardinality(offered \ owing), !.accepted = @ \/ accepted]
            = [e EXCEPT !.references = n, !.accepted = b]
      <4>. HIDE DEF e
      <4>. QED
        BY <3>1 DEF Record
    <3>. QED
      BY <3>3, <3>4
  <2>2. \A x \in Dispatches :
          [r.dispatch[x] EXCEPT !.references = @ - Cardinality(swapped(x))] \in Record
    BY <1>2, <1>4 DEF Record
  <2>. QED
    BY <1>2, <2>1, <2>2
<1>. HIDE DEF dispatch
<1>8. q \in Registry
  BY <1>6, <1>7, RegistryParts
<1>. HIDE DEF q
<1>. QED
  BY <1>1, <1>3, <1>8, RetireType

LEMMA AnswerTypes ==
  ASSUME NEW r \in Registry, NEW h \in Hosts, NEW d \in Dispatches
  PROVE  /\ AcceptDelivery(r, h, d) \in Registry
         /\ Present(r, d) => ClaimDelivery(r, h, d) \in Registry
         /\ RetireForShutdown(r) \in Registry
<1>1. /\ \A g \in Hosts : r.entry[g] \in Entry
      /\ \A x \in Dispatches : r.dispatch[x] \in Record
  BY RegistryParts
<1>2. AcceptDelivery(r, h, d) \in Registry
  <2>. DEFINE remains == r.entry[h].delivery = d
              b == r.dispatch[d].acceptedFailure \/ (~ remains /\ r.dispatch[d].phase # "serviced")
              e == [r.entry[h] EXCEPT !.accepted = TRUE]
              q == [r.dispatch[d] EXCEPT !.accepted = TRUE, !.acceptedFailure = b]
              entered == IF remains THEN [r EXCEPT !.entry[h] = e] ELSE r
  <2>1. e \in Entry
    BY <1>1, EntryFields
  <2>2. q \in Record
    <3>1. b \in BOOLEAN
      OBVIOUS
    <3>. HIDE DEF b
    <3>. QED
      BY <1>1, <3>1, RecordAccepted
  <2>3. entered \in Registry /\ entered.dispatch = r.dispatch
    <3>. HIDE DEF e
    <3>. QED
      BY <2>1, RegistryParts
  <2>4. AcceptDelivery(r, h, d) = IF ~ Present(r, d) THEN entered
                                  ELSE [entered EXCEPT !.dispatch[d] = q]
    <3>1. entered.dispatch[d] = r.dispatch[d]
      BY <2>3
    <3>2. AcceptDelivery(r, h, d) =
            IF ~ Present(r, d) THEN entered
            ELSE [entered EXCEPT !.dispatch[d].accepted = TRUE,
                    !.dispatch[d].acceptedFailure =
                      @ \/ (~ remains /\ r.dispatch[d].phase # "serviced")]
      BY DEF AcceptDelivery
    <3>3. entered.dispatch \in [Dispatches -> Record]
      BY <2>3, RegistryParts
    <3>. DEFINE k == ~ remains /\ r.dispatch[d].phase # "serviced"
                c == entered.dispatch[d]
    <3>4. [entered EXCEPT !.dispatch[d].accepted = TRUE, !.dispatch[d].acceptedFailure = @ \/ k]
            = [entered EXCEPT !.dispatch[d] =
                 [entered.dispatch[d] EXCEPT !.accepted = TRUE, !.acceptedFailure = @ \/ k]]
      <4>1. entered \in Registry /\ entered.dispatch[d] \in Record
        BY <2>3, <3>3
      <4>. HIDE DEF entered, k
      <4>. QED
        BY <4>1, <3>3, RegistryParts, ZenonT(40) DEF Record
    <3>5. [entered.dispatch[d] EXCEPT !.accepted = TRUE, !.acceptedFailure = @ \/ k] = q
      <4>1. r.dispatch[d] \in Record
        BY <1>1
      <4>2. [r.dispatch[d] EXCEPT !.accepted = TRUE, !.acceptedFailure = @ \/ k] = q
        BY <4>1 DEF Record
      <4>. HIDE DEF entered, k, q
      <4>. QED
        BY <3>1, <4>2
    <3>. HIDE DEF entered, q, k
    <3>. QED
      BY <3>2, <3>4, <3>5 DEF k
  <2>. HIDE DEF e, q, entered, remains, b
  <2>. QED
    BY <2>2, <2>3, <2>4, RegistryParts
<1>3. ClaimDelivery(r, h, d) \in Registry
  <2>. DEFINE e == [r.entry[h] EXCEPT !.claimed = TRUE, !.accepted = TRUE]
              q == [r.dispatch[d] EXCEPT !.accepted = TRUE]
  <2>1. e \in Entry
    BY <1>1, EntryFields
  <2>2. q \in Record
    <3>1. r.dispatch[d] \in Record
      BY <1>1
    <3>. QED
      BY <3>1 DEF Record
  <2>3. ClaimDelivery(r, h, d) = [r EXCEPT !.entry[h] = e, !.dispatch[d] = q]
    BY RegistryParts DEF ClaimDelivery
  <2>. HIDE DEF e, q
  <2>4. /\ r.entry \in [Hosts -> Entry] /\ r.dispatch \in [Dispatches -> Record]
    BY RegistryParts
  <2>. DEFINE E == [r.entry EXCEPT ![h] = e]
              Q == [r.dispatch EXCEPT ![d] = q]
  <2>5. E \in [Hosts -> Entry] /\ Q \in [Dispatches -> Record]
    BY <2>1, <2>2, <2>4
  <2>6. ClaimDelivery(r, h, d) = [r EXCEPT !.entry = E, !.dispatch = Q]
    BY <2>3, RegistryParts
  <2>. HIDE DEF E, Q
  <2>. QED
    BY <2>5, <2>6, RegistryParts
<1>4. RetireForShutdown(r) \in Registry
  <2>. DEFINE e == [g \in Hosts |-> [r.entry[g] EXCEPT !.pending = NoDispatch]]
              q == [x \in Dispatches |-> Absent]
  <2>1. e \in [Hosts -> Entry] /\ q \in [Dispatches -> Record]
    BY <1>1, RegistryParts DEF Entry
  <2>2. RetireForShutdown(r) = [r EXCEPT !.dispatch = q, !.entry = e]
    BY DEF RetireForShutdown
  <2>. HIDE DEF e, q
  <2>. QED
    BY <2>1, <2>2, RegistryParts
<1>. QED
  BY <1>2, <1>3, <1>4

LEMMA FinishPublicationType ==
  ASSUME NEW r \in Registry, NEW d \in Dispatches
  PROVE  /\ FinishPublication(r, d).reg \in Registry
         /\ FinishPublication(r, d).result \in {"accepted", "failed", "unavailable"}
         /\ FinishPublication(r, d).failure \in
              [dispatch : Dispatches \cup {NoDispatch}, epoch : 0 .. Epochs - 1]
<1>. DEFINE s == [r.dispatch[d] EXCEPT !.publications = @ - 1]
            o == FinishPublication(r, d)
            counted == [r EXCEPT !.dispatch[d] = s]
            failed  == [r EXCEPT !.dispatch[d] = [s EXCEPT !.phase = "cancelling"]]
            gone    == [r EXCEPT !.dispatch[d] = Absent]
<1>1. r.dispatch[d] \in Record /\ 0 \in 0 .. Epochs - 1
  BY RegistryParts, EpochsAssumption
<1>2. s \in Record /\ [s EXCEPT !.phase = "cancelling"] \in Record /\ s.epoch \in 0 .. Epochs - 1
  <2>1. r.dispatch[d].publications - 1 \in Int
    <3>1. r.dispatch[d].publications \in Int
      BY <1>1, RecordFields
    <3>. QED
      BY <3>1
  <2>2. s = [r.dispatch[d] EXCEPT !.publications = r.dispatch[d].publications - 1]
    OBVIOUS
  <2>. HIDE DEF s
  <2>3. s \in Record
    <3>1. TRUE \in BOOLEAN
      OBVIOUS
    <3>. QED
      BY <1>1, <2>1, <2>2, <3>1, RecordCounted
  <2>. QED
    BY <2>3, RecordFields
<1>3. counted \in Registry /\ failed \in Registry /\ gone \in Registry
  <2>. HIDE DEF s
  <2>. QED
    BY <1>2, RegistryParts
<1>4. /\ o.reg \in {r, counted, failed, gone}
      /\ o.result \in {"accepted", "failed", "unavailable"}
      /\ o.failure \in {Failure(NoDispatch, 0), Failure(d, s.epoch)}
  <2>. HIDE DEF s, counted, failed, gone
  <2>1. o = IF ~ Present(r, d)
            THEN [reg |-> r, result |-> "unavailable", failure |-> Failure(NoDispatch, 0)]
            ELSE IF s.references # 0 \/ s.publications # 0
            THEN [reg |-> counted, result |-> "accepted", failure |-> Failure(d, s.epoch)]
            ELSE IF s.phase = "cancelling" \/ (s.acceptedFailure /\ s.phase # "serviced")
            THEN [reg |-> failed, result |-> "failed", failure |-> Failure(d, s.epoch)]
            ELSE [reg |-> gone, failure |-> Failure(d, s.epoch),
                  result |-> IF s.accepted \/ s.phase = "serviced"
                             THEN "accepted" ELSE "unavailable"]
    BY DEF FinishPublication, s, counted, failed, gone
  <2>. HIDE DEF o
  <2>. QED
    BY <2>1
<1>. HIDE DEF s, counted, failed, gone
<1>. QED
  BY <1>1, <1>2, <1>3, <1>4 DEF Failure

LEMMA MarkServicedType ==
  ASSUME NEW r \in Registry, NEW d \in Dispatches
  PROVE  MarkServiced(r, d) \in Registry
<1>. DEFINE owing == {h \in r.drivers : r.entry[h].pending = d}
            freed == [h \in Hosts |-> IF h \in owing
                                      THEN [r.entry[h] EXCEPT !.pending = NoDispatch]
                                      ELSE r.entry[h]]
            s == [r.dispatch[d] EXCEPT !.phase = "serviced",
                                       !.references = @ - Cardinality(owing)]
            q == [r EXCEPT !.entry = freed, !.dispatch[d] = s]
<1>1. /\ \A g \in Hosts : r.entry[g] \in Entry
      /\ \A x \in Dispatches : r.dispatch[x] \in Record
  BY RegistryParts
<1>2. MarkServiced(r, d) = IF Present(r, d) THEN RetireUnreferenced(q, {d}) ELSE r
  BY DEF MarkServiced
<1>3. Cardinality(owing) \in Nat
  <2>1. owing \in SUBSET Hosts
    BY RegistryParts
  <2>. HIDE DEF owing
  <2>. QED
    BY <2>1, HostsFinite
<1>. HIDE DEF owing
<1>4. freed \in [Hosts -> Entry]
  BY <1>1 DEF Entry
<1>5. s \in Record
  <2>1. r.dispatch[d].references - Cardinality(owing) \in Int
    <3>1. r.dispatch[d] \in Record
      BY <1>1
    <3>2. r.dispatch[d].references \in Int
      BY <3>1, RecordFields
    <3>. QED
      BY <1>3, <3>2
  <2>2. s = [r.dispatch[d] EXCEPT !.phase = "serviced",
                                  !.references = r.dispatch[d].references - Cardinality(owing)]
    BY <1>1 DEF Record
  <2>. HIDE DEF s
  <2>. QED
    BY <1>1, <2>1, <2>2, RecordCounted
<1>. HIDE DEF freed, s
<1>6. q \in Registry
  BY <1>4, <1>5, RegistryParts
<1>. HIDE DEF q
<1>. QED
  BY <1>2, <1>6, RetireType

LEMMA FinishDeliveryType ==
  ASSUME NEW r \in Registry, NEW h \in Hosts, NEW d \in Dispatches, NEW failed \in BOOLEAN
  PROVE  /\ FinishDelivery(r, h, d, failed).reg \in Registry
         /\ FinishDelivery(r, h, d, failed).failures \in
              SUBSET [dispatch : Dispatches \cup {NoDispatch}, epoch : 0 .. Epochs - 1]
         /\ FinishDelivery(r, h, d, failed).redispatch \in BOOLEAN
<1>. DEFINE e == r.entry[h]
            f == [FreeEntry EXCEPT !.pending = e.pending]
            freed == [r EXCEPT !.entry[h] = f]
            one == [x \in Dispatches |-> IF x = d THEN 1 ELSE 0]
            fs == IF failed \/ ~ e.claimed THEN {d} ELSE {}
            o == FinishReferences(freed, one, {d}, fs)
            t == FinishDelivery(r, h, d, failed)
<1>1. t = IF r.entry[h].delivery # d \/ d = NoDispatch
          THEN [reg |-> r, failures |-> {}, redispatch |-> FALSE]
          ELSE [reg |-> o.reg, failures |-> o.failures,
                redispatch |-> Present(r, e.pending)
                               /\ r.dispatch[e.pending].phase = "pending"]
  BY DEF FinishDelivery
<1>2. f \in Entry
  BY RegistryParts DEF Entry
<1>. HIDE DEF f
<1>3. freed \in Registry
  BY <1>2, RegistryParts
<1>4. one \in [Dispatches -> Nat] /\ {d} \in SUBSET Dispatches /\ fs \in SUBSET Dispatches
  OBVIOUS
<1>. HIDE DEF freed, one, fs
<1>5. /\ o.reg \in Registry
      /\ o.failures \in SUBSET [dispatch : Dispatches \cup {NoDispatch}, epoch : 0 .. Epochs - 1]
  BY <1>3, <1>4, FinishReferencesType
<1>6. (Present(r, e.pending) /\ r.dispatch[e.pending].phase = "pending") \in BOOLEAN
  OBVIOUS
<1>. HIDE DEF o, t, e
<1>7. t.reg \in {r, o.reg} /\ t.failures \in {{}, o.failures} /\ t.redispatch \in BOOLEAN
  BY <1>1, <1>6
<1>8. r \in Registry
  OBVIOUS
<1>. QED
  BY <1>5, <1>7, <1>8 DEF t

LEMMA FailureTypes ==
  ASSUME NEW r \in Registry,
         NEW f \in [dispatch : Dispatches \cup {NoDispatch}, epoch : 0 .. Epochs - 1]
  PROVE  /\ RearmFailedPublication(r, f) \in Registry
         /\ FinishCancellation(r, f) \in Registry
         /\ IsCurrentFailure(r, f) => f.dispatch \in Dispatches
<1>1. IsCurrentFailure(r, f) => f.dispatch \in Dispatches
  BY DEF IsCurrentFailure, Present
<1>2. (f.epoch + 1) % Epochs \in 0 .. Epochs - 1
  BY EpochsAssumption
<1>3. [FreshDispatch EXCEPT !.epoch = (f.epoch + 1) % Epochs] \in Record
  BY <1>2, RegistryParts DEF Record
<1>4. RearmFailedPublication(r, f) \in
        {r, [r EXCEPT !.dispatch[f.dispatch] = [FreshDispatch EXCEPT !.epoch = (f.epoch + 1) % Epochs]]}
  BY DEF RearmFailedPublication
<1>5. RearmFailedPublication(r, f) \in Registry
  <2>1. CASE f.dispatch \in Dispatches
    BY <1>3, <1>4, <2>1, RegistryParts
  <2>2. CASE f.dispatch \notin Dispatches
    BY <1>1, <2>2 DEF RearmFailedPublication
  <2>. QED
    BY <2>1, <2>2
<1>6. FinishCancellation(r, f) \in Registry
  BY <1>1, RegistryParts DEF FinishCancellation
<1>. QED
  BY <1>1, <1>5, <1>6

-----------------------------------------------------------------------------
(* The operations of the registry: the counters of the dispatches.         *)

(* Who has the dispatch, registered or not.                                *)
Holding(r, d) == {h \in Hosts : r.entry[h].delivery = d \/ r.entry[h].pending = d}

(* An unregistered host holds nothing, and no host owes the dispatch it    *)
(* delivers.                                                               *)
Entries(r) ==
  \A h \in Hosts :
    /\ h \notin r.drivers =>
         r.entry[h].delivery = NoDispatch /\ r.entry[h].pending = NoDispatch
    /\ r.entry[h].delivery = r.entry[h].pending => r.entry[h].delivery = NoDispatch

(* The counters are exact, and a forgotten or failed dispatch has none.    *)
Exact(r) ==
  \A d \in Dispatches :
    /\ r.dispatch[d].references = Cardinality(Holding(r, d))
    /\ r.dispatch[d].phase \in {"absent", "cancelling"} => r.dispatch[d].references = 0

Sound(r) == Entries(r) /\ Exact(r)

LEMMA HoldersHolding ==
  ASSUME NEW r \in Registry, Entries(r), NEW d \in Dispatches
  PROVE  Holders(r, d) = Holding(r, d)
<1>1. d # NoDispatch /\ r.drivers \subseteq Hosts
  BY RegistryParts
<1>. QED
  BY <1>1 DEF Holders, Holding, Entries

LEMMA HoldingFinite ==
  ASSUME NEW r, NEW d
  PROVE  IsFiniteSet(Holding(r, d)) /\ Cardinality(Holding(r, d)) \in Nat
<1>1. Holding(r, d) \in SUBSET Hosts
  BY DEF Holding
<1>. QED
  BY <1>1, HostsFinite

LEMMA SoundCounts ==
  ASSUME NEW r \in Registry, Sound(r)
  PROVE  ReferencesAreExact(r)
  BY HoldersHolding DEF Sound, Exact, ReferencesAreExact

(* An operation that leaves the deliveries alone and counts nothing new.   *)
LEMMA SoundKept ==
  ASSUME NEW r, Sound(r), NEW q, q.drivers = r.drivers,
         \A h \in Hosts : /\ q.entry[h].delivery = r.entry[h].delivery
                          /\ q.entry[h].pending = r.entry[h].pending,
         \A d \in Dispatches :
           \/ /\ q.dispatch[d].references = r.dispatch[d].references
              /\ q.dispatch[d].phase = r.dispatch[d].phase
           \/ q.dispatch[d].references = 0 /\ r.dispatch[d].references = 0
  PROVE  Sound(q) /\ q.drivers \subseteq r.drivers
<1>1. \A d : Holding(q, d) = Holding(r, d)
  BY DEF Holding
<1>2. Exact(q)
  BY <1>1 DEF Sound, Exact
<1>3. Entries(q)
  BY DEF Sound, Entries
<1>. QED
  BY <1>2, <1>3 DEF Sound

LEMMA RetireSound ==
  ASSUME NEW r, Sound(r), NEW ds,
         {"drivers", "entry", "dispatch"} \subseteq DOMAIN r
  PROVE  /\ Sound(RetireUnreferenced(r, ds))
         /\ RetireUnreferenced(r, ds).drivers \subseteq r.drivers
<1>. DEFINE retired(d) == /\ d \in ds /\ Present(r, d)
                          /\ r.dispatch[d].references = 0 /\ r.dispatch[d].publications = 0
                          /\ r.dispatch[d].phase # "cancelling"
                          /\ r.dispatch[d].phase = "serviced" \/ ~ r.dispatch[d].acceptedFailure
            g == [d \in Dispatches |-> IF retired(d) THEN Absent ELSE r.dispatch[d]]
            q == RetireUnreferenced(r, ds)
<1>1. q = [r EXCEPT !.dispatch = g]
  BY DEF RetireUnreferenced
<1>2. \A d \in Dispatches : g[d] = r.dispatch[d] \/ (g[d] = Absent /\ r.dispatch[d].references = 0)
  OBVIOUS
<1>. HIDE DEF g, q
<1>3. q.drivers = r.drivers /\ q.entry = r.entry /\ q.dispatch = g
  BY <1>1
<1>4. \A d \in Dispatches :
        \/ /\ q.dispatch[d].references = r.dispatch[d].references
           /\ q.dispatch[d].phase = r.dispatch[d].phase
        \/ q.dispatch[d].references = 0 /\ r.dispatch[d].references = 0
  BY <1>2, <1>3 DEF Absent
<1>5. Sound(q) /\ q.drivers \subseteq r.drivers
  BY <1>3, <1>4, SoundKept
<1>. QED
  BY <1>5 DEF q

(* What is lost brings the counters back to the deliveries.                *)
LEMMA FinishReferencesSound ==
  ASSUME NEW r \in Registry, NEW lost \in [Dispatches -> Nat], Entries(r),
         NEW accepted \in SUBSET Dispatches, NEW failed \in SUBSET Dispatches,
         \A d \in Dispatches :
           /\ r.dispatch[d].references - lost[d] = Cardinality(Holding(r, d))
           /\ r.dispatch[d].phase \in {"absent", "cancelling"} => r.dispatch[d].references = 0
  PROVE  /\ Sound(FinishReferences(r, lost, accepted, failed).reg)
         /\ FinishReferences(r, lost, accepted, failed).reg.drivers = r.drivers
<1>. DEFINE s(d) == [r.dispatch[d] EXCEPT
                       !.references = @ - lost[d],
                       !.accepted = @ \/ d \in accepted,
                       !.acceptedFailure = @ \/ d \in accepted \cap failed]
            finished == {d \in Dispatches : Present(r, d) /\ lost[d] > 0}
            last == {d \in finished : s(d).references = 0 /\ s(d).publications = 0}
            fails == {d \in last : s(d).acceptedFailure /\ s(d).phase = "pending"}
            gone == {d \in last \ fails : s(d).phase # "cancelling"}
            g == [d \in Dispatches |->
                    IF d \in fails THEN [s(d) EXCEPT !.phase = "cancelling"]
                    ELSE IF d \in gone THEN Absent
                    ELSE IF d \in finished THEN s(d)
                    ELSE r.dispatch[d]]
            q == FinishReferences(r, lost, accepted, failed).reg
<1>1. q = [r EXCEPT !.dispatch = g]
  BY DEF FinishReferences
<1>2. \A d \in Dispatches : /\ r.dispatch[d] \in Record /\ lost[d] \in Nat
                            /\ r.dispatch[d].references \in Int
                            /\ Cardinality(Holding(r, d)) \in Nat
  BY RegistryParts, RecordFields, HoldingFinite
<1>3. \A d \in Dispatches : /\ s(d).references = r.dispatch[d].references - lost[d]
                            /\ s(d).phase = r.dispatch[d].phase
                            /\ [s(d) EXCEPT !.phase = "cancelling"].references = s(d).references
  BY <1>2 DEF Record
<1>4. \A d \in Dispatches : \/ d \in fails /\ g[d] = [s(d) EXCEPT !.phase = "cancelling"]
                            \/ d \in gone /\ g[d] = Absent
                            \/ d \in finished /\ g[d] = s(d)
                            \/ d \notin finished /\ g[d] = r.dispatch[d]
  OBVIOUS
<1>5. /\ \A d \in fails : d \in finished /\ s(d).references = 0
      /\ \A d \in gone : d \in finished /\ s(d).references = 0
      /\ \A d \in Dispatches : d \in finished <=> r.dispatch[d].phase # "absent" /\ lost[d] > 0
  BY DEF Present
<1>. HIDE DEF g, q, s, fails, gone, finished
<1>6. q.drivers = r.drivers /\ q.entry = r.entry /\ q.dispatch = g
  BY <1>1, RegistryParts
<1>7. \A d : Holding(q, d) = Holding(r, d)
  BY <1>6 DEF Holding
<1>8. ASSUME NEW d \in Dispatches
      PROVE  /\ g[d].references = Cardinality(Holding(r, d))
             /\ g[d].phase \in {"absent", "cancelling"} => g[d].references = 0
  <2>. DEFINE n == Cardinality(Holding(r, d))
              e == r.dispatch[d]
  <2>1. /\ n \in Nat /\ lost[d] \in Nat /\ e.references \in Int /\ e.references - lost[d] = n
        /\ e.phase \in {"absent", "cancelling"} => e.references = 0
        /\ s(d).references = n /\ s(d).phase = e.phase
    BY <1>2, <1>3
  <2>2. e.phase \in {"absent", "cancelling"} => lost[d] = 0 /\ n = 0
    <3>. HIDE DEF n, e
    <3>. QED
      BY <2>1
  <2>. HIDE DEF n, e
  <2>3. CASE d \in fails /\ g[d] = [s(d) EXCEPT !.phase = "cancelling"]
    BY <1>3, <1>5, <2>1, <2>3 DEF n
  <2>4. CASE d \in gone /\ g[d] = Absent
    BY <1>5, <2>1, <2>4 DEF Absent, n
  <2>5. CASE d \in finished /\ g[d] = s(d)
    BY <2>1, <2>2, <2>5 DEF n
  <2>6. CASE d \notin finished /\ g[d] = r.dispatch[d]
    <3>1. e.phase = "absent" \/ lost[d] = 0
      BY <1>5, <2>1, <2>6 DEF e
    <3>2. e.references = n
      BY <2>1, <2>2, <3>1
    <3>. QED
      BY <2>1, <2>6, <3>2 DEF e, n
  <2>. QED
    BY <1>4, <2>3, <2>4, <2>5, <2>6
<1>9. Exact(q)
  BY <1>6, <1>7, <1>8 DEF Exact
<1>10. Entries(q)
  BY <1>6 DEF Entries
<1>11. Sound(q) /\ q.drivers = r.drivers
  BY <1>6, <1>9, <1>10 DEF Sound
<1>. QED
  BY <1>11 DEF q

LEMMA RegisterSound ==
  ASSUME NEW r \in Registry, Sound(r), NEW h \in Hosts, h \notin r.drivers
  PROVE  Sound(Register(r, h)) /\ Register(r, h).drivers = r.drivers \cup {h}
<1>. DEFINE q == Register(r, h)
<1>1. /\ q.drivers = r.drivers \cup {h} /\ q.dispatch = r.dispatch
      /\ \A k \in Hosts : q.entry[k] = IF k = h THEN FreeEntry ELSE r.entry[k]
  BY RegistryParts DEF Register
<1>. HIDE DEF q
<1>2. r.entry[h].delivery = NoDispatch /\ r.entry[h].pending = NoDispatch
  BY DEF Sound, Entries
<1>3. \A k \in Hosts : /\ q.entry[k].delivery = r.entry[k].delivery
                       /\ q.entry[k].pending = r.entry[k].pending
  BY <1>1, <1>2 DEF FreeEntry
<1>4. \A d : Holding(q, d) = Holding(r, d)
  BY <1>3 DEF Holding
<1>5. Exact(q)
  BY <1>1, <1>4 DEF Sound, Exact
<1>6. Entries(q)
  BY <1>1, <1>3 DEF Sound, Entries
<1>. QED
  BY <1>1, <1>5, <1>6 DEF Sound, q

LEMMA RemoveDriversSound ==
  ASSUME NEW r \in Registry, Sound(r), NEW hs \in SUBSET Hosts
  PROVE  /\ Sound(RemoveDrivers(r, hs).reg)
         /\ RemoveDrivers(r, hs).reg.drivers \subseteq r.drivers
<1>. DEFINE E == [h \in Hosts |-> IF h \in hs THEN FreeEntry ELSE r.entry[h]]
            left == [r EXCEPT !.drivers = @ \ hs,
                              !.entry = [h \in Hosts |-> IF h \in hs THEN FreeEntry ELSE @[h]]]
            accepted == {d \in Dispatches :
                           \E h \in hs : \/ r.entry[h].delivery = d /\ r.entry[h].accepted
                                         \/ r.entry[h].pending = d}
            lost == [d \in Dispatches |-> Cardinality(Holders(r, d) \cap hs)]
<1>1. RemoveDrivers(r, hs) = FinishReferences(left, lost, accepted, accepted)
  BY DEF RemoveDrivers
<1>2. left \in Registry
  BY RegistryParts
<1>3. lost \in [Dispatches -> Nat]
  <2>1. \A d \in Dispatches : Holders(r, d) \cap hs \in SUBSET Hosts
    OBVIOUS
  <2>. QED
    BY <2>1, HostsFinite
<1>4. accepted \in SUBSET Dispatches
  OBVIOUS
<1>5. /\ left.drivers = r.drivers \ hs /\ left.dispatch = r.dispatch
      /\ \A h \in Hosts : left.entry[h] = IF h \in hs THEN FreeEntry ELSE r.entry[h]
  BY RegistryParts
<1>6. \A d \in Dispatches : lost[d] = Cardinality(Holders(r, d) \cap hs)
  OBVIOUS
<1>. HIDE DEF left, lost, accepted
<1>7. Entries(left)
  BY <1>5 DEF Sound, Entries, FreeEntry
<1>8. ASSUME NEW d \in Dispatches
      PROVE  /\ left.dispatch[d].references - lost[d] = Cardinality(Holding(left, d))
             /\ left.dispatch[d].phase \in {"absent", "cancelling"} => left.dispatch[d].references = 0
  <2>1. Holders(r, d) = Holding(r, d) /\ IsFiniteSet(Holding(r, d))
    BY HoldersHolding, HoldingFinite DEF Sound
  <2>2. Holding(left, d) = Holding(r, d) \ hs
    <3>1. d # NoDispatch
      BY RegistryParts
    <3>. QED
      BY <1>5, <3>1 DEF Holding, FreeEntry
  <2>3. Cardinality(Holding(left, d)) = Cardinality(Holding(r, d)) - lost[d]
    <3>1. Cardinality(Holding(r, d) \ hs)
            = Cardinality(Holding(r, d)) - Cardinality(Holding(r, d) \cap hs)
      BY <2>1, FS_Difference
    <3>2. lost[d] = Cardinality(Holding(r, d) \cap hs)
      BY <1>6, <2>1
    <3>. QED
      BY <2>2, <3>1, <3>2
  <2>4. /\ r.dispatch[d].references = Cardinality(Holding(r, d))
        /\ Cardinality(Holding(r, d)) \in Nat /\ lost[d] \in Nat
    BY <1>3, HoldingFinite DEF Sound, Exact
  <2>. QED
    BY <1>5, <2>3, <2>4 DEF Sound, Exact
<1>. QED
  BY <1>1, <1>2, <1>3, <1>4, <1>5, <1>7, <1>8, FinishReferencesSound

LEMMA BeginPublicationSound ==
  ASSUME NEW r \in Registry, Sound(r), NEW d \in Dispatches
  PROVE  Sound(BeginPublication(r, d)) /\ BeginPublication(r, d).drivers \subseteq r.drivers
<1>. DEFINE e == IF Present(r, d) THEN r.dispatch[d] ELSE FreshDispatch
<1>1. e \in Record /\ (~ Present(r, d) => e.references = 0 /\ r.dispatch[d].references = 0)
  BY RegistryParts DEF Present, Sound, Exact, FreshDispatch, Absent
<1>2. Present(r, d) => e = r.dispatch[d]
  OBVIOUS
<1>. HIDE DEF e
<1>. DEFINE p == [e EXCEPT !.publications = @ + 1]
            q == BeginPublication(r, d)
<1>3. p.references = e.references /\ p.phase = e.phase
  BY <1>1 DEF Record
<1>4. q = [r EXCEPT !.dispatch[d] = p]
  BY DEF BeginPublication, e
<1>. HIDE DEF p, q
<1>5. /\ q.drivers = r.drivers /\ q.entry = r.entry
      /\ \A x \in Dispatches : q.dispatch[x] = IF x = d THEN p ELSE r.dispatch[x]
  BY <1>4, RegistryParts
<1>6. \A x \in Dispatches :
        \/ /\ q.dispatch[x].references = r.dispatch[x].references
           /\ q.dispatch[x].phase = r.dispatch[x].phase
        \/ q.dispatch[x].references = 0 /\ r.dispatch[x].references = 0
  BY <1>1, <1>2, <1>3, <1>5
<1>7. Sound(q) /\ q.drivers \subseteq r.drivers
  BY <1>5, <1>6, SoundKept
<1>. QED
  BY <1>7 DEF q

LEMMA CountParts ==
  ASSUME NEW S \in SUBSET Hosts, NEW T \in SUBSET Hosts
  PROVE  /\ S \cap T = {} => Cardinality(S \cup T) = Cardinality(S) + Cardinality(T)
         /\ T \subseteq S => Cardinality(S \ T) = Cardinality(S) - Cardinality(T)
         /\ Cardinality(S) = 0 => S = {}
<1>1. /\ IsFiniteSet(S) /\ IsFiniteSet(T)
      /\ Cardinality(S) \in Nat /\ Cardinality(T) \in Nat
  BY HostsFinite
<1>2. Cardinality(S \cup T) = Cardinality(S) + Cardinality(T) - Cardinality(S \cap T)
  BY <1>1, FS_Union
<1>3. Cardinality(S \ T) = Cardinality(S) - Cardinality(S \cap T)
  BY <1>1, FS_Difference
<1>4. T \subseteq S => S \cap T = T
  OBVIOUS
<1>5. Cardinality({}) = 0 /\ (Cardinality(S) = 0 => S = {})
  BY <1>1, FS_EmptySet
<1>6. S \cap T = {} => Cardinality(S \cup T) = Cardinality(S) + Cardinality(T)
  <2>. SUFFICES ASSUME S \cap T = {} PROVE Cardinality(S \cup T) = Cardinality(S) + Cardinality(T)
    OBVIOUS
  <2>1. Cardinality(S \cap T) = 0
    BY <1>5
  <2>. QED
    BY <1>1, <1>2, <2>1
<1>. QED
  BY <1>3, <1>4, <1>5, <1>6

(* What the plan of a publication changes about the one entry of h.        *)
LEMMA PlannedEntry ==
  ASSUME NEW e \in Entry, NEW d \in Dispatches, NEW b \in BOOLEAN
  PROVE  /\ [e EXCEPT !.pending = d].delivery = e.delivery
         /\ [e EXCEPT !.pending = d].pending = d
         /\ [FreeEntry EXCEPT !.delivery = d, !.accepted = b].delivery = d
         /\ [FreeEntry EXCEPT !.delivery = d, !.accepted = b].pending = NoDispatch
  BY DEF Entry, FreeEntry

LEMMA PlanSound ==
  ASSUME NEW r \in Registry, Sound(r), NEW d \in Dispatches, NEW live \in SUBSET Hosts,
         r.dispatch[d].phase = "pending"
  PROVE  Sound(Plan(r, d, live).reg) /\ Plan(r, d, live).reg.drivers \subseteq r.drivers
<1>. DEFINE offered == {h \in live \cap r.drivers : r.entry[h].delivery # d}
            busy == {h \in offered : r.entry[h].delivery # NoDispatch}
            owing == {h \in offered : r.entry[h].pending = d}
            swapped(x) == {h \in offered \ owing : r.entry[h].pending = x}
            accepted == \/ busy \cup owing # {}
                        \/ \E h \in (live \cap r.drivers) \ offered : r.entry[h].accepted
            entry == [h \in Hosts |->
                        IF h \in busy THEN [r.entry[h] EXCEPT !.pending = d]
                        ELSE IF h \in offered
                        THEN [FreeEntry EXCEPT !.delivery = d, !.accepted = (h \in owing)]
                        ELSE r.entry[h]]
            dispatch == [x \in Dispatches |->
                           IF x = d
                           THEN [r.dispatch[d] EXCEPT
                                   !.references = @ + Cardinality(offered \ owing),
                                   !.accepted = @ \/ accepted]
                           ELSE IF Present(r, x)
                           THEN [r.dispatch[x] EXCEPT !.references = @ - Cardinality(swapped(x))]
                           ELSE r.dispatch[x]]
            q == [r EXCEPT !.entry = entry, !.dispatch = dispatch]
<1>1. Plan(r, d, live).reg = RetireUnreferenced(q, {r.entry[h].pending : h \in offered})
  BY DEF Plan
<1>2. /\ \A h \in Hosts : r.entry[h] \in Entry
      /\ \A x \in Dispatches : r.dispatch[x] \in Record
      /\ NoDispatch \notin Dispatches
      /\ r.drivers \in SUBSET Hosts
  BY RegistryParts
<1>3. /\ q.drivers = r.drivers /\ q.entry = entry /\ q.dispatch = dispatch
      /\ {"drivers", "entry", "dispatch"} \subseteq DOMAIN q
  <2>. HIDE DEF entry, dispatch
  <2>. QED
    BY RegistryParts
<1>5. /\ \A h \in Hosts : h \in offered <=> h \in live /\ h \in r.drivers /\ r.entry[h].delivery # d
      /\ \A h \in Hosts : h \in busy <=> h \in offered /\ r.entry[h].delivery # NoDispatch
      /\ \A h \in Hosts : h \in owing <=> h \in offered /\ r.entry[h].pending = d
      /\ \A x : \A h \in Hosts : h \in swapped(x) <=>
                  h \in offered /\ h \notin owing /\ r.entry[h].pending = x
      /\ offered \in SUBSET Hosts /\ owing \in SUBSET Hosts /\ \A x : swapped(x) \in SUBSET Hosts
  OBVIOUS
<1>6. ASSUME NEW h \in Hosts
      PROVE  \/ /\ h \in busy
                /\ q.entry[h].delivery = r.entry[h].delivery /\ q.entry[h].pending = d
             \/ /\ h \in offered /\ h \notin busy
                /\ q.entry[h].delivery = d /\ q.entry[h].pending = NoDispatch
             \/ h \notin offered /\ h \notin busy /\ q.entry[h] = r.entry[h]
  <2>. DEFINE b == h \in owing
  <2>1. b \in BOOLEAN
    OBVIOUS
  <2>2. entry[h] = IF h \in busy THEN [r.entry[h] EXCEPT !.pending = d]
                   ELSE IF h \in offered
                   THEN [FreeEntry EXCEPT !.delivery = d, !.accepted = b]
                   ELSE r.entry[h]
    OBVIOUS
  <2>. HIDE DEF b
  <2>3. /\ [r.entry[h] EXCEPT !.pending = d].delivery = r.entry[h].delivery
        /\ [r.entry[h] EXCEPT !.pending = d].pending = d
        /\ [FreeEntry EXCEPT !.delivery = d, !.accepted = b].delivery = d
        /\ [FreeEntry EXCEPT !.delivery = d, !.accepted = b].pending = NoDispatch
    BY <1>2, <2>1, PlannedEntry
  <2>4. h \in busy => h \in offered
    BY <1>5
  <2>. HIDE DEF entry, q, busy, offered
  <2>. QED
    BY <1>3, <2>2, <2>3, <2>4
<1>7. dispatch[d].phase = "pending"
      /\ dispatch[d].references = r.dispatch[d].references + Cardinality(offered \ owing)
  <2>1. r.dispatch[d] \in Record
    BY <1>2
  <2>. HIDE DEF offered, owing, accepted
  <2>. QED
    BY <2>1 DEF Record
<1>8. \A x \in Dispatches \ {d} :
        IF Present(r, x)
        THEN /\ dispatch[x].phase = r.dispatch[x].phase
             /\ dispatch[x].references = r.dispatch[x].references - Cardinality(swapped(x))
        ELSE dispatch[x] = r.dispatch[x]
  <2>. HIDE DEF swapped, accepted
  <2>. QED
    BY <1>2 DEF Record
<1>. HIDE DEF offered, busy, owing, swapped, accepted, entry, dispatch, q
<1>9. /\ \A h \in Hosts : h \notin r.drivers =>
           r.entry[h].delivery = NoDispatch /\ r.entry[h].pending = NoDispatch
      /\ \A h \in Hosts : r.entry[h].delivery = r.entry[h].pending => r.entry[h].delivery = NoDispatch
  BY DEF Sound, Entries
<1>10. Entries(q)
  BY <1>2, <1>3, <1>5, <1>6, <1>9 DEF Entries
<1>11. /\ Holding(q, d) = Holding(r, d) \cup (offered \ owing)
       /\ Holding(r, d) \cap (offered \ owing) = {}
  BY <1>2, <1>5, <1>6 DEF Holding
<1>12. ASSUME NEW x \in Dispatches \ {d}
       PROVE  Holding(q, x) = Holding(r, x) \ swapped(x) /\ swapped(x) \subseteq Holding(r, x)
  <2>1. ASSUME NEW h \in Hosts
        PROVE  /\ h \in Holding(q, x) <=> h \in Holding(r, x) /\ h \notin swapped(x)
               /\ h \in swapped(x) => h \in Holding(r, x)
    <3>1. /\ h \in Holding(q, x) <=> q.entry[h].delivery = x \/ q.entry[h].pending = x
          /\ h \in Holding(r, x) <=> r.entry[h].delivery = x \/ r.entry[h].pending = x
          /\ h \in swapped(x) <=> h \in offered /\ r.entry[h].pending = x
      BY <1>5 DEF Holding
    <3>. QED
      BY <1>2, <1>5, <1>6, <1>9, <3>1
  <2>2. Holding(q, x) \subseteq Hosts /\ Holding(r, x) \subseteq Hosts /\ swapped(x) \subseteq Hosts
    BY <1>5 DEF Holding
  <2>. QED
    BY <2>1, <2>2
<1>13. \A x \in Dispatches : /\ r.dispatch[x].references = Cardinality(Holding(r, x))
                             /\ Holding(r, x) \in SUBSET Hosts
                             /\ Cardinality(Holding(r, x)) \in Nat
  <2>1. \A x \in Dispatches : r.dispatch[x].references = Cardinality(Holding(r, x))
    BY DEF Sound, Exact
  <2>2. \A x \in Dispatches : Holding(r, x) \in SUBSET Hosts
    BY DEF Holding
  <2>. QED
    BY <2>1, <2>2, HoldingFinite
<1>14. q.dispatch[d].references = Cardinality(Holding(q, d)) /\ q.dispatch[d].phase = "pending"
  <2>1. Cardinality(Holding(q, d)) = Cardinality(Holding(r, d)) + Cardinality(offered \ owing)
    <3>1. offered \ owing \in SUBSET Hosts
      BY <1>5
    <3>2. Cardinality(Holding(r, d) \cup (offered \ owing))
            = Cardinality(Holding(r, d)) + Cardinality(offered \ owing)
      BY <1>11, <1>13, <3>1, CountParts
    <3>. QED
      BY <1>11, <3>2
  <2>. QED
    BY <1>3, <1>7, <1>13, <2>1
<1>15. ASSUME NEW x \in Dispatches \ {d}
       PROVE  /\ q.dispatch[x].references = Cardinality(Holding(q, x))
              /\ q.dispatch[x].phase \in {"absent", "cancelling"} => q.dispatch[x].references = 0
  <2>1. Cardinality(Holding(q, x)) = Cardinality(Holding(r, x)) - Cardinality(swapped(x))
    <3>1. Cardinality(Holding(r, x) \ swapped(x))
            = Cardinality(Holding(r, x)) - Cardinality(swapped(x))
      BY <1>5, <1>12, <1>13, CountParts
    <3>. QED
      BY <1>12, <3>1
  <2>2. r.dispatch[x].phase \in {"absent", "cancelling"} => r.dispatch[x].references = 0
    BY DEF Sound, Exact
  <2>3. r.dispatch[x].references = 0 => Cardinality(swapped(x)) = 0
    <3>1. Cardinality(Holding(r, x)) = 0 => Holding(r, x) = {}
      BY <1>13, CountParts
    <3>2. Cardinality({}) = 0
      BY FS_EmptySet
    <3>3. Holding(r, x) = {} => swapped(x) = {}
      BY <1>12
    <3>. QED
      BY <1>13, <3>1, <3>2, <3>3
  <2>4. r.dispatch[x].references = Cardinality(Holding(r, x)) /\ Cardinality(Holding(r, x)) \in Nat
    BY <1>13
  <2>5. CASE Present(r, x)
    <3>1. /\ q.dispatch[x].phase = r.dispatch[x].phase
          /\ q.dispatch[x].references = r.dispatch[x].references - Cardinality(swapped(x))
      BY <1>3, <1>8, <2>5
    <3>. QED
      BY <2>1, <2>2, <2>3, <2>4, <3>1
  <2>6. CASE ~ Present(r, x)
    <3>1. q.dispatch[x] = r.dispatch[x] /\ r.dispatch[x].phase = "absent"
      BY <1>3, <1>8, <2>6 DEF Present
    <3>. QED
      BY <2>1, <2>2, <2>3, <2>4, <3>1
  <2>. QED
    BY <2>5, <2>6
<1>16. Exact(q)
  BY <1>14, <1>15 DEF Exact
<1>17. /\ Sound(RetireUnreferenced(q, {r.entry[h].pending : h \in offered}))
       /\ RetireUnreferenced(q, {r.entry[h].pending : h \in offered}).drivers \subseteq q.drivers
  BY <1>3, <1>10, <1>16, RetireSound DEF Sound
<1>. QED
  BY <1>1, <1>3, <1>17

LEMMA AcceptDeliverySound ==
  ASSUME NEW r \in Registry, Sound(r), NEW h \in Hosts, NEW d \in Dispatches
  PROVE  /\ Sound(AcceptDelivery(r, h, d))
         /\ AcceptDelivery(r, h, d).drivers \subseteq r.drivers
<1>. DEFINE remains == r.entry[h].delivery = d
            m == [r EXCEPT !.entry[h].accepted = TRUE]
            n == IF remains THEN m ELSE r
            b == r.dispatch[d].acceptedFailure \/ (~ remains /\ r.dispatch[d].phase # "serviced")
            q == AcceptDelivery(r, h, d)
<1>1. /\ r.entry[h] \in Entry /\ r.dispatch[d] \in Record
      /\ r.dispatch \in [Dispatches -> Record] /\ r.entry \in [Hosts -> Entry]
  BY RegistryParts
<1>2. /\ m.drivers = r.drivers /\ m.dispatch = r.dispatch
      /\ \A k \in Hosts : m.entry[k] = IF k = h THEN [r.entry[h] EXCEPT !.accepted = TRUE]
                                       ELSE r.entry[k]
  BY RegistryParts
<1>3. m \in Registry
  <2>1. [r.entry[h] EXCEPT !.accepted = TRUE] \in Entry
    BY <1>1, EntryFields
  <2>2. m = [r EXCEPT !.entry[h] = [r.entry[h] EXCEPT !.accepted = TRUE]]
    BY RegistryParts
  <2>. QED
    BY <2>1, <2>2, RegistryParts
<1>4. \A k \in Hosts : /\ m.entry[k].delivery = r.entry[k].delivery
                       /\ m.entry[k].pending = r.entry[k].pending
  BY <1>1, <1>2 DEF Entry
<1>. HIDE DEF m, remains
<1>5. /\ n.drivers = r.drivers /\ n.dispatch = r.dispatch /\ n \in Registry
      /\ \A k \in Hosts : /\ n.entry[k].delivery = r.entry[k].delivery
                          /\ n.entry[k].pending = r.entry[k].pending
  BY <1>2, <1>3, <1>4
<1>6. q = IF ~ Present(r, d) THEN n
          ELSE [n EXCEPT !.dispatch[d].accepted = TRUE,
                         !.dispatch[d].acceptedFailure =
                           @ \/ (~ remains /\ r.dispatch[d].phase # "serviced")]
  BY DEF AcceptDelivery, m, remains
<1>. HIDE DEF n, q
<1>7. /\ q.drivers = n.drivers /\ q.entry = n.entry
      /\ \A x \in Dispatches : /\ q.dispatch[x].references = n.dispatch[x].references
                               /\ q.dispatch[x].phase = n.dispatch[x].phase
  <2>1. CASE Present(r, d)
    <3>. DEFINE p == [n EXCEPT !.dispatch[d].accepted = TRUE,
                         !.dispatch[d].acceptedFailure =
                           @ \/ (~ remains /\ r.dispatch[d].phase # "serviced")]
    <3>1. /\ p.drivers = n.drivers /\ p.entry = n.entry
          /\ \A x \in Dispatches \ {d} : p.dispatch[x] = n.dispatch[x]
      BY <1>5, RegistryParts
    <3>2. n.dispatch[d] \in Record
      BY <1>1, <1>5
    <3>3. p.dispatch[d].references = n.dispatch[d].references /\ p.dispatch[d].phase = n.dispatch[d].phase
      BY <1>5, <3>2, RegistryParts DEF Record
    <3>. HIDE DEF p
    <3>4. q = p
      BY <1>6, <2>1 DEF p
    <3>. QED
      BY <3>1, <3>3, <3>4
  <2>. QED
    BY <1>6, <2>1
<1>8. Sound(q) /\ q.drivers \subseteq r.drivers
  BY <1>5, <1>7, SoundKept
<1>. QED
  BY <1>8 DEF q

LEMMA RejectDeliverySound ==
  ASSUME NEW r \in Registry, Sound(r), NEW h \in Hosts, NEW d
  PROVE  /\ Sound(RejectDelivery(r, h, d).reg)
         /\ RejectDelivery(r, h, d).reg.drivers \subseteq r.drivers
         /\ Sound(Unregister(r, h).reg) /\ Unregister(r, h).reg.drivers \subseteq r.drivers
<1>1. r.drivers \cap {h} \in SUBSET Hosts
  OBVIOUS
<1>2. Sound(Unregister(r, h).reg) /\ Unregister(r, h).reg.drivers \subseteq r.drivers
  BY <1>1, RemoveDriversSound DEF Unregister
<1>3. RejectDelivery(r, h, d).reg \in {r, Unregister(r, h).reg}
  BY DEF RejectDelivery
<1>. QED
  BY <1>2, <1>3

(* An operation on one dispatch that keeps its counter and its phase, or   *)
(* that no host holds.                                                     *)
LEMMA OneDispatchSound ==
  ASSUME NEW r \in Registry, Sound(r), NEW d \in Dispatches, NEW s,
         \/ s.references = r.dispatch[d].references /\ s.phase = r.dispatch[d].phase
         \/ s.references = 0 /\ r.dispatch[d].references = 0
  PROVE  /\ Sound([r EXCEPT !.dispatch[d] = s])
         /\ [r EXCEPT !.dispatch[d] = s].drivers \subseteq r.drivers
<1>. DEFINE q == [r EXCEPT !.dispatch[d] = s]
<1>1. /\ q.drivers = r.drivers /\ q.entry = r.entry
      /\ \A x \in Dispatches : q.dispatch[x] = IF x = d THEN s ELSE r.dispatch[x]
  BY RegistryParts
<1>. HIDE DEF q
<1>2. \A x \in Dispatches :
        \/ /\ q.dispatch[x].references = r.dispatch[x].references
           /\ q.dispatch[x].phase = r.dispatch[x].phase
        \/ q.dispatch[x].references = 0 /\ r.dispatch[x].references = 0
  BY <1>1
<1>3. Sound(q) /\ q.drivers \subseteq r.drivers
  BY <1>1, <1>2, SoundKept
<1>. QED
  BY <1>3 DEF q

LEMMA FinishPublicationSound ==
  ASSUME NEW r \in Registry, Sound(r), NEW d \in Dispatches
  PROVE  /\ Sound(FinishPublication(r, d).reg)
         /\ FinishPublication(r, d).reg.drivers \subseteq r.drivers
<1>. DEFINE s == [r.dispatch[d] EXCEPT !.publications = @ - 1]
            c == [s EXCEPT !.phase = "cancelling"]
            q == FinishPublication(r, d).reg
<1>1. /\ s.references = r.dispatch[d].references /\ s.phase = r.dispatch[d].phase
      /\ c.references = s.references
  BY RegistryParts DEF Record
<1>. HIDE DEF s, c
<1>2. \/ q = r
      \/ q = [r EXCEPT !.dispatch[d] = s]
      \/ s.references = 0 /\ q = [r EXCEPT !.dispatch[d] = c]
      \/ s.references = 0 /\ q = [r EXCEPT !.dispatch[d] = Absent]
  BY DEF FinishPublication, s, c
<1>3. Absent.references = 0
  BY DEF Absent
<1>. HIDE DEF q
<1>8. Sound(q) /\ q.drivers \subseteq r.drivers
  <2>1. CASE q = r
    BY <2>1
  <2>2. CASE q = [r EXCEPT !.dispatch[d] = s]
    BY <1>1, <2>2, OneDispatchSound
  <2>3. CASE s.references = 0 /\ q = [r EXCEPT !.dispatch[d] = c]
    BY <1>1, <2>3, OneDispatchSound
  <2>4. CASE s.references = 0 /\ q = [r EXCEPT !.dispatch[d] = Absent]
    BY <1>1, <1>3, <2>4, OneDispatchSound
  <2>. QED
    BY <1>2, <2>1, <2>2, <2>3, <2>4
<1>. QED
  BY <1>8 DEF q

LEMMA FailureSound ==
  ASSUME NEW r \in Registry, Sound(r), NEW f
  PROVE  /\ Sound(RearmFailedPublication(r, f)) /\ Sound(FinishCancellation(r, f))
         /\ RearmFailedPublication(r, f).drivers \subseteq r.drivers
         /\ FinishCancellation(r, f).drivers \subseteq r.drivers
<1>1. CASE IsCurrentFailure(r, f)
  <2>. DEFINE d == f.dispatch
              s == [FreshDispatch EXCEPT !.epoch = (f.epoch + 1) % Epochs]
  <2>1. d \in Dispatches /\ r.dispatch[d].references = 0
    BY <1>1 DEF IsCurrentFailure, Present, Sound, Exact
  <2>2. Absent.references = 0 /\ s.references = 0
    BY DEF Absent, FreshDispatch
  <2>3. /\ RearmFailedPublication(r, f) \in {r, [r EXCEPT !.dispatch[d] = s]}
        /\ FinishCancellation(r, f) = [r EXCEPT !.dispatch[d] = Absent]
    BY <1>1 DEF RearmFailedPublication, FinishCancellation
  <2>. HIDE DEF d, s
  <2>4. /\ Sound([r EXCEPT !.dispatch[d] = s]) /\ Sound([r EXCEPT !.dispatch[d] = Absent])
        /\ [r EXCEPT !.dispatch[d] = s].drivers \subseteq r.drivers
        /\ [r EXCEPT !.dispatch[d] = Absent].drivers \subseteq r.drivers
    BY <2>1, <2>2, OneDispatchSound
  <2>. QED
    BY <2>3, <2>4
<1>2. CASE ~ IsCurrentFailure(r, f)
  BY <1>2 DEF RearmFailedPublication, FinishCancellation
<1>. QED
  BY <1>1, <1>2

LEMMA ClaimDeliverySound ==
  ASSUME NEW r \in Registry, Sound(r), NEW h \in Hosts, NEW d \in Dispatches
  PROVE  /\ Sound(ClaimDelivery(r, h, d)) /\ ClaimDelivery(r, h, d).drivers \subseteq r.drivers
<1>. DEFINE q == ClaimDelivery(r, h, d)
<1>1. /\ r.entry \in [Hosts -> Entry] /\ r.dispatch \in [Dispatches -> Record]
  BY RegistryParts
<1>2. /\ q.drivers = r.drivers
      /\ \A k \in Hosts : q.entry[k] = IF k = h THEN [r.entry[h] EXCEPT !.claimed = TRUE, !.accepted = TRUE]
                                       ELSE r.entry[k]
      /\ \A x \in Dispatches : q.dispatch[x] = IF x = d THEN [r.dispatch[d] EXCEPT !.accepted = TRUE]
                                               ELSE r.dispatch[x]
  BY <1>1, RegistryParts DEF ClaimDelivery
<1>. HIDE DEF q
<1>3. \A k \in Hosts : /\ q.entry[k].delivery = r.entry[k].delivery
                       /\ q.entry[k].pending = r.entry[k].pending
  <2>1. /\ [r.entry[h] EXCEPT !.claimed = TRUE, !.accepted = TRUE].delivery = r.entry[h].delivery
        /\ [r.entry[h] EXCEPT !.claimed = TRUE, !.accepted = TRUE].pending = r.entry[h].pending
    BY <1>1 DEF Entry
  <2>. QED
    BY <1>2, <2>1
<1>4. \A x \in Dispatches : /\ q.dispatch[x].references = r.dispatch[x].references
                            /\ q.dispatch[x].phase = r.dispatch[x].phase
  <2>1. /\ [r.dispatch[d] EXCEPT !.accepted = TRUE].references = r.dispatch[d].references
        /\ [r.dispatch[d] EXCEPT !.accepted = TRUE].phase = r.dispatch[d].phase
    BY <1>1 DEF Record
  <2>. QED
    BY <1>2, <2>1
<1>5. Sound(q) /\ q.drivers \subseteq r.drivers
  BY <1>2, <1>3, <1>4, SoundKept
<1>. QED
  BY <1>5 DEF q

LEMMA MarkServicedSound ==
  ASSUME NEW r \in Registry, Sound(r), NEW d \in Dispatches
  PROVE  Sound(MarkServiced(r, d)) /\ MarkServiced(r, d).drivers \subseteq r.drivers
<1>. DEFINE owing == {h \in r.drivers : r.entry[h].pending = d}
            freed == [h \in Hosts |-> IF h \in owing
                                      THEN [r.entry[h] EXCEPT !.pending = NoDispatch]
                                      ELSE r.entry[h]]
            s == [r.dispatch[d] EXCEPT !.phase = "serviced",
                                       !.references = @ - Cardinality(owing)]
            q == [r EXCEPT !.entry = freed, !.dispatch[d] = s]
<1>1. /\ \A g \in Hosts : r.entry[g] \in Entry
      /\ r.dispatch[d] \in Record /\ NoDispatch \notin Dispatches /\ r.drivers \in SUBSET Hosts
  BY RegistryParts
<1>2. MarkServiced(r, d) = IF Present(r, d) THEN RetireUnreferenced(q, {d}) ELSE r
  BY DEF MarkServiced
<1>3. owing \in SUBSET Hosts /\ \A h \in Hosts : h \in owing <=> h \in r.drivers /\ r.entry[h].pending = d
  BY <1>1
<1>4. s.phase = "serviced" /\ s.references = r.dispatch[d].references - Cardinality(owing)
  <2>. HIDE DEF owing
  <2>. QED
    BY <1>1 DEF Record
<1>5. \A h \in Hosts : freed[h] = IF h \in owing THEN [r.entry[h] EXCEPT !.pending = NoDispatch]
                                  ELSE r.entry[h]
  OBVIOUS
<1>6. /\ q.drivers = r.drivers /\ q.entry = freed
      /\ {"drivers", "entry", "dispatch"} \subseteq DOMAIN q
      /\ \A x \in Dispatches : q.dispatch[x] = IF x = d THEN s ELSE r.dispatch[x]
  <2>. HIDE DEF freed, s
  <2>. QED
    BY RegistryParts
<1>. HIDE DEF owing, freed, s, q
<1>7. \A h \in Hosts : /\ q.entry[h].delivery = r.entry[h].delivery
                       /\ q.entry[h].pending = IF h \in owing THEN NoDispatch ELSE r.entry[h].pending
  BY <1>1, <1>5, <1>6 DEF Entry
<1>8. /\ \A h \in Hosts : h \notin r.drivers =>
           r.entry[h].delivery = NoDispatch /\ r.entry[h].pending = NoDispatch
      /\ \A h \in Hosts : r.entry[h].delivery = r.entry[h].pending => r.entry[h].delivery = NoDispatch
  BY DEF Sound, Entries
<1>9. Entries(q)
  BY <1>6, <1>7, <1>8 DEF Entries
<1>10. /\ Holding(q, d) = Holding(r, d) \ owing /\ owing \subseteq Holding(r, d)
       /\ \A x \in Dispatches \ {d} : Holding(q, x) = Holding(r, x)
  <2>1. \A h \in Hosts : /\ h \in Holding(q, d) <=> h \in Holding(r, d) /\ h \notin owing
                         /\ h \in owing => h \in Holding(r, d)
    BY <1>1, <1>3, <1>7, <1>8 DEF Holding
  <2>2. \A x \in Dispatches \ {d} : \A h \in Hosts : h \in Holding(q, x) <=> h \in Holding(r, x)
    BY <1>1, <1>3, <1>7 DEF Holding
  <2>3. \A x : Holding(q, x) \subseteq Hosts /\ Holding(r, x) \subseteq Hosts
    BY DEF Holding
  <2>. QED
    BY <1>3, <2>1, <2>2, <2>3
<1>11. Exact(q)
  <2>1. /\ r.dispatch[d].references = Cardinality(Holding(r, d))
        /\ \A x \in Dispatches : /\ r.dispatch[x].references = Cardinality(Holding(r, x))
                                 /\ r.dispatch[x].phase \in {"absent", "cancelling"}
                                      => r.dispatch[x].references = 0
        /\ Holding(r, d) \in SUBSET Hosts
    BY DEF Sound, Exact, Holding
  <2>2. Cardinality(Holding(q, d)) = Cardinality(Holding(r, d)) - Cardinality(owing)
    BY <1>3, <1>10, <2>1, CountParts
  <2>. QED
    BY <1>4, <1>6, <1>10, <2>1, <2>2 DEF Exact
<1>12. /\ Sound(RetireUnreferenced(q, {d}))
       /\ RetireUnreferenced(q, {d}).drivers \subseteq q.drivers
  BY <1>6, <1>9, <1>11, RetireSound DEF Sound
<1>. QED
  BY <1>2, <1>6, <1>12

LEMMA FinishDeliverySound ==
  ASSUME NEW r \in Registry, Sound(r), NEW h \in Hosts, NEW d \in Dispatches, NEW failed \in BOOLEAN
  PROVE  /\ Sound(FinishDelivery(r, h, d, failed).reg)
         /\ FinishDelivery(r, h, d, failed).reg.drivers \subseteq r.drivers
<1>. DEFINE e == r.entry[h]
            f == [FreeEntry EXCEPT !.pending = e.pending]
            freed == [r EXCEPT !.entry[h] = f]
            one == [x \in Dispatches |-> IF x = d THEN 1 ELSE 0]
            fs == IF failed \/ ~ e.claimed THEN {d} ELSE {}
            o == FinishReferences(freed, one, {d}, fs)
            t == FinishDelivery(r, h, d, failed).reg
<1>1. t = r \/ (e.delivery = d /\ t = o.reg)
  BY DEF FinishDelivery
<1>2. f \in Entry /\ f.delivery = NoDispatch /\ f.pending = e.pending /\ NoDispatch \notin Dispatches
  BY RegistryParts DEF Entry, FreeEntry
<1>. HIDE DEF f
<1>3. freed \in Registry
  BY <1>2, RegistryParts
<1>4. one \in [Dispatches -> Nat] /\ {d} \in SUBSET Dispatches /\ fs \in SUBSET Dispatches
  OBVIOUS
<1>5. \A x \in Dispatches : one[x] = IF x = d THEN 1 ELSE 0
  OBVIOUS
<1>6. /\ freed.drivers = r.drivers /\ freed.dispatch = r.dispatch
      /\ \A k \in Hosts : freed.entry[k] = IF k = h THEN f ELSE r.entry[k]
  BY RegistryParts
<1>. HIDE DEF freed, one, fs, o, t
<1>7. /\ \A k \in Hosts : k \notin r.drivers =>
           r.entry[k].delivery = NoDispatch /\ r.entry[k].pending = NoDispatch
      /\ \A k \in Hosts : r.entry[k].delivery = r.entry[k].pending => r.entry[k].delivery = NoDispatch
      /\ \A x \in Dispatches : /\ r.dispatch[x].references = Cardinality(Holding(r, x))
                               /\ r.dispatch[x].phase \in {"absent", "cancelling"}
                                    => r.dispatch[x].references = 0
  BY DEF Sound, Entries, Exact
<1>8. CASE e.delivery = d /\ t = o.reg
  <2>1. Entries(freed)
    BY <1>2, <1>6, <1>7 DEF Entries
  <2>2. /\ Holding(freed, d) = Holding(r, d) \ {h} /\ h \in Holding(r, d)
        /\ \A x \in Dispatches \ {d} : Holding(freed, x) = Holding(r, x)
    <3>1. \A k \in Hosts : k \in Holding(freed, d) <=> k \in Holding(r, d) /\ k # h
      BY <1>2, <1>6, <1>7, <1>8 DEF Holding
    <3>2. \A x \in Dispatches \ {d} : \A k \in Hosts : k \in Holding(freed, x) <=> k \in Holding(r, x)
      BY <1>2, <1>6, <1>7, <1>8 DEF Holding
    <3>3. \A x : Holding(freed, x) \subseteq Hosts /\ Holding(r, x) \subseteq Hosts
      BY DEF Holding
    <3>4. h \in Holding(r, d)
      BY <1>8 DEF Holding
    <3>. QED
      BY <3>1, <3>2, <3>3, <3>4
  <2>3. /\ IsFiniteSet(Holding(r, d)) /\ Cardinality(Holding(r, d)) \in Nat
        /\ \A x : Cardinality(Holding(r, x)) \in Nat
    BY HoldingFinite
  <2>4. Cardinality(Holding(freed, d)) = Cardinality(Holding(r, d)) - 1
    BY <2>2, <2>3, FS_RemoveElement, ZenonT(40)
  <2>5. \A x \in Dispatches :
          /\ freed.dispatch[x].references - one[x] = Cardinality(Holding(freed, x))
          /\ freed.dispatch[x].phase \in {"absent", "cancelling"} => freed.dispatch[x].references = 0
    <3>1. ASSUME NEW x \in Dispatches
          PROVE  freed.dispatch[x].references - one[x] = Cardinality(Holding(freed, x))
      <4>1. CASE x = d
        BY <1>5, <1>6, <1>7, <2>3, <2>4, <4>1
      <4>2. CASE x # d
        <5>1. /\ freed.dispatch[x].references = Cardinality(Holding(r, x)) /\ one[x] = 0
              /\ Holding(freed, x) = Holding(r, x) /\ Cardinality(Holding(r, x)) \in Nat
          BY <1>5, <1>6, <1>7, <2>2, <2>3, <4>2
        <5>. QED
          BY <5>1
      <4>. QED
        BY <4>1, <4>2
    <3>. QED
      BY <1>6, <1>7, <3>1
  <2>6. Sound(o.reg) /\ o.reg.drivers = freed.drivers
    BY <1>3, <1>4, <2>1, <2>5, FinishReferencesSound DEF o
  <2>. QED
    BY <1>6, <1>8, <2>6 DEF t
<1>9. CASE t = r
  BY <1>9 DEF t
<1>. QED
  BY <1>1, <1>8, <1>9

-----------------------------------------------------------------------------
(* The frames the actions make.                                            *)

LEMMA FrameKinds ==
  ASSUME NEW f \in Frames
  PROVE  /\ f.pc \in {"push", "offer"} => f \in SchedFrames
         /\ f.pc \in PublishPcs => f \in PublishFrames
         /\ f.pc \in {"drop", "forget", "forgetHosts"} => f \in DropFrames
         /\ f.pc = "complete" => f \in CompleteFrames
         /\ f.pc \in {"cancel", "uncancel"} => f \in CancelFrames
         /\ f.pc = "attempt" => f \in AttemptFrames
         /\ f.pc \in {"reopen", "last"} => f \in ResFrames
         /\ f.pc \in {"admit", "mark", "fail"} => f \in AdmitFrames
         /\ f.pc \in {"turn", "release", "again", "ack"} => f \in TurnFrames
         /\ f.pc = "poll" => f \in PollFrames
         /\ f.pc \in PlainPcs \ {"return"} => f \in PlainFrames
<1>. USE DEF SchedFrames, PlainFrames, PublishFrames, DropFrames, CompleteFrames,
             CancelFrames, AdmitFrames, TurnFrames, PollFrames, AttemptFrames, ResFrames,
             PlainPcs, PublishPcs
<1>1. CASE f \in SchedFrames
  BY <1>1
<1>2. CASE f \in PlainFrames
  BY <1>2
<1>3. CASE f \in PublishFrames
  BY <1>3
<1>4. CASE f \in DropFrames
  BY <1>4
<1>5. CASE f \in CompleteFrames
  BY <1>5
<1>6. CASE f \in CancelFrames
  BY <1>6
<1>7. CASE f \in AttemptFrames
  BY <1>7
<1>8. CASE f \in ResFrames
  BY <1>8
<1>9. CASE f \in AdmitFrames
  BY <1>9
<1>10. CASE f \in TurnFrames
  BY <1>10
<1>11. CASE f \in PollFrames
  BY <1>11
<1>. QED
  <2>. HIDE DEF SchedFrames, PlainFrames, PublishFrames, DropFrames, CompleteFrames,
             CancelFrames, AdmitFrames, TurnFrames, PollFrames, AttemptFrames, ResFrames,
             PlainPcs, PublishPcs
  <2>. QED
    BY <1>1, <1>2, <1>3, <1>4, <1>5, <1>6, <1>7, <1>8, <1>9, <1>10, <1>11 DEF Frames

LEMMA FrameUnion ==
  /\ SchedFrames \subseteq Frames /\ PlainFrames \subseteq Frames
  /\ PublishFrames \subseteq Frames /\ DropFrames \subseteq Frames
  /\ CompleteFrames \subseteq Frames /\ CancelFrames \subseteq Frames
  /\ AttemptFrames \subseteq Frames /\ ResFrames \subseteq Frames
  /\ AdmitFrames \subseteq Frames /\ TurnFrames \subseteq Frames /\ PollFrames \subseteq Frames
  BY DEF Frames

LEMMA NoFailureType == NoFailure \in Failures
<1>1. 0 \in 0 .. Epochs - 1
  BY EpochsAssumption
<1>. QED
  BY <1>1 DEF NoFailure, Failure, Failures

LEMMA MadeFrames ==
  /\ \A p \in PlainPcs : Frame(p) \in Frames /\ Frame(p).pc = p
  /\ \A t \in Tasks : \A w \in BOOLEAN : SchedFrame(t, w) \in Frames /\ SchedFrame(t, w).pc = "push"
  /\ \A d \in Dispatches : PublishFrame(d) \in Frames /\ PublishFrame(d).pc = "enter"
  /\ \A ts \in SUBSET Tasks : DropFrame(ts) \in Frames /\ DropFrame(ts).pc = "drop"
  /\ \A fs \in SUBSET Failures : \A re \in BOOLEAN :
       CompleteFrame(fs, re) \in Frames /\ CompleteFrame(fs, re).pc = "complete"
  /\ \A x \in Failures : [pc |-> "cancel", failure |-> x] \in Frames
  /\ \A r \in Results : [pc |-> "reopen", res |-> r] \in Frames
  /\ \A r \in Results : \A n \in Nat : [pc |-> "attempt", n |-> n, res |-> r] \in Frames
  /\ \A d \in Dispatches : /\ \A p \in {"admit", "fail"} : [pc |-> p, dispatch |-> d] \in Frames
                           /\ \A n \in Nat : [pc |-> "turn", dispatch |-> d, n |-> n] \in Frames
  /\ \A t \in Tasks : [pc |-> "poll", task |-> t] \in Frames
  /\ \A ts \in SUBSET Tasks : [pc |-> "forget", tasks |-> ts] \in Frames
<1>1. \A p \in PlainPcs : Frame(p) \in Frames /\ Frame(p).pc = p
  BY FrameUnion DEF Frame, PlainFrames
<1>2. \A t \in Tasks : \A w \in BOOLEAN : SchedFrame(t, w) \in Frames /\ SchedFrame(t, w).pc = "push"
  BY FrameUnion DEF SchedFrame, SchedFrames
<1>3. ASSUME NEW d \in Dispatches PROVE PublishFrame(d) \in Frames /\ PublishFrame(d).pc = "enter"
  <2>1. PublishFrame(d) \in PublishFrames /\ PublishFrame(d).pc = "enter"
    BY NoFailureType DEF PublishFrame, PublishFrames, PublishPcs, Results
  <2>. QED
    BY <2>1, FrameUnion
<1>4. \A ts \in SUBSET Tasks : DropFrame(ts) \in Frames /\ DropFrame(ts).pc = "drop"
  BY FrameUnion DEF DropFrame, DropFrames
<1>5. \A fs \in SUBSET Failures : \A re \in BOOLEAN :
       CompleteFrame(fs, re) \in Frames /\ CompleteFrame(fs, re).pc = "complete"
  BY FrameUnion DEF CompleteFrame, CompleteFrames
<1>6. \A x \in Failures : [pc |-> "cancel", failure |-> x] \in Frames
  BY FrameUnion DEF CancelFrames
<1>7. /\ \A r \in Results : [pc |-> "reopen", res |-> r] \in Frames
      /\ \A r \in Results : \A n \in Nat : [pc |-> "attempt", n |-> n, res |-> r] \in Frames
  BY FrameUnion DEF ResFrames, AttemptFrames
<1>8. \A d \in Dispatches : /\ \A p \in {"admit", "fail"} : [pc |-> p, dispatch |-> d] \in Frames
                           /\ \A n \in Nat : [pc |-> "turn", dispatch |-> d, n |-> n] \in Frames
  BY FrameUnion DEF AdmitFrames, TurnFrames
<1>9. /\ \A t \in Tasks : [pc |-> "poll", task |-> t] \in Frames
      /\ \A ts \in SUBSET Tasks : [pc |-> "forget", tasks |-> ts] \in Frames
  BY FrameUnion DEF PollFrames, DropFrames
<1>. QED
  BY <1>1, <1>2, <1>3, <1>4, <1>5, <1>6, <1>7, <1>8, <1>9

LEMMA WakersShape ==
  ASSUME NEW S \in SUBSET Tasks
  PROVE  /\ WakerFrames(SetToSeq(S)) \in Seq(Frames)
         /\ WakerFrames(SetToSeq(S)) \in Seq(SchedFrames)
         /\ \A k \in 1 .. Len(WakerFrames(SetToSeq(S))) :
              /\ WakerFrames(SetToSeq(S))[k].pc = "push"
              /\ WakerFrames(SetToSeq(S))[k].task \in S
         /\ \A t \in S : \E j \in 1 .. Len(WakerFrames(SetToSeq(S))) :
              \A k \in 1 .. Len(WakerFrames(SetToSeq(S))) :
                WakerFrames(SetToSeq(S))[k].task = t <=> k = j
         /\ SetToSeq(S) = <<>> => S = {}
<1>1. IsFiniteSet(S)
  BY TasksAssumption, FS_Subset
<1>. DEFINE q == SetToSeq(S)
            w == WakerFrames(q)
<1>2. /\ q \in Seq(S)
      /\ \A x \in S : \E i \in DOMAIN q : q[i] = x
      /\ \A i, j \in DOMAIN q : q[i] = q[j] => i = j
      /\ q = <<>> => S = {}
  BY <1>1, SetToSeqShape
<1>. HIDE DEF q
<1>3. Len(q) \in Nat /\ DOMAIN q = 1 .. Len(q) /\ \A i \in 1 .. Len(q) : q[i] \in S
  BY <1>2
<1>4. w = [i \in 1 .. Len(q) |-> SchedFrame(q[i], TRUE)]
  BY <1>3 DEF WakerFrames
<1>5. \A i \in 1 .. Len(q) : /\ SchedFrame(q[i], TRUE) \in Frames /\ SchedFrame(q[i], TRUE) \in SchedFrames
                            /\ SchedFrame(q[i], TRUE).pc = "push"
                            /\ SchedFrame(q[i], TRUE).task = q[i]
  BY <1>3, FrameUnion DEF SchedFrame, SchedFrames
<1>6. w \in Seq(Frames) /\ w \in Seq(SchedFrames) /\ Len(w) = Len(q) /\ DOMAIN w = 1 .. Len(q)
  <2>. HIDE DEF w
  <2>1. w \in [1 .. Len(q) -> Frames] /\ w \in [1 .. Len(q) -> SchedFrames]
    BY <1>4, <1>5
  <2>. QED
    BY <1>3, <2>1
<1>. HIDE DEF w
<1>7. \A i \in 1 .. Len(q) : w[i].pc = "push" /\ w[i].task = q[i]
  BY <1>4, <1>5
<1>8. ASSUME NEW t \in S
      PROVE  \E j \in 1 .. Len(w) : \A k \in 1 .. Len(w) : w[k].task = t <=> k = j
  <2>1. PICK j \in 1 .. Len(q) : q[j] = t
    BY <1>2, <1>3
  <2>2. ASSUME NEW k \in 1 .. Len(q) PROVE w[k].task = t <=> k = j
    BY <1>2, <1>3, <1>7, <2>1
  <2>. QED
    BY <1>6, <2>1, <2>2
<1>. QED
  BY <1>2, <1>3, <1>6, <1>7, <1>8 DEF w, q

-----------------------------------------------------------------------------
(* The traces of the steps.                                                *)

LEMMA TraceStacks ==
  ASSUME Stacks, NEW a \in Actors, NEW P, Trace(a, P)
  PROVE  Stacks'
<1>1. PICK fs \in Seq(Frames) : Moves(a, fs)
  BY DEF Trace
<1>2. Steady({})
  BY DEF Steady
<1>. QED
  BY <1>1, <1>2, SpotsMoved

LEMMA TraceNone ==
  ASSUME NEW a \in Actors, NEW P, Moves(a, <<>>), stack[a] # <<>> => Top(a).pc \in P
  PROVE  Trace(a, P)
<1>1. <<>> \in Seq(Frames) /\ \A k \in 1 .. Len(<<>>) : FALSE
  OBVIOUS
<1>. QED
  BY <1>1 DEF Trace

LEMMA TraceOne ==
  ASSUME NEW a \in Actors, NEW P, NEW f \in Frames, Moves(a, <<f>>), f.pc \in P,
         stack[a] # <<>> => Top(a).pc \in P
  PROVE  Trace(a, P)
<1>1. <<f>> \in Seq(Frames) /\ \A k \in 1 .. Len(<<f>>) : <<f>>[k] = f
  OBVIOUS
<1>. QED
  BY <1>1 DEF Trace

LEMMA TraceMany ==
  ASSUME NEW a \in Actors, NEW P, NEW f \in Frames, NEW gs \in Seq(Frames),
         Moves(a, <<f>> \o gs), f.pc \in P, \A k \in 1 .. Len(gs) : gs[k].pc \in P,
         stack[a] # <<>> => Top(a).pc \in P
  PROVE  Trace(a, P)
<1>. DEFINE p == <<f>>
            fs == p \o gs
<1>1. p \in Seq(Frames) /\ Len(p) = 1 /\ p[1] = f /\ Len(gs) \in Nat
  OBVIOUS
<1>. HIDE DEF p
<1>2. /\ fs \in Seq(Frames) /\ Len(fs) = Len(p) + Len(gs)
      /\ \A i \in 1 .. Len(p) + Len(gs) : fs[i] = IF i <= Len(p) THEN p[i] ELSE gs[i - Len(p)]
  BY <1>1, ConcatProperties
<1>3. Moves(a, fs)
  BY DEF p
<1>. HIDE DEF fs
<1>4. \A k \in 1 .. Len(fs) : fs[k].pc \in P
  <2>. SUFFICES ASSUME NEW k \in 1 .. Len(fs) PROVE fs[k].pc \in P
    OBVIOUS
  <2>1. CASE k = 1
    BY <1>1, <1>2, <2>1
  <2>2. CASE k # 1
    <3>1. k - 1 \in 1 .. Len(gs) /\ fs[k] = gs[k - 1]
      BY <1>1, <1>2, <2>2
    <3>. QED
      BY <3>1
  <2>. QED
    BY <2>1, <2>2
<1>. QED
  BY <1>2, <1>3, <1>4 DEF Trace

LEMMA TraceTwo ==
  ASSUME NEW a \in Actors, NEW P, NEW f \in Frames, NEW g \in Frames,
         Moves(a, <<f, g>>), f.pc \in P, g.pc \in P, stack[a] # <<>> => Top(a).pc \in P
  PROVE  Trace(a, P)
<1>1. <<f, g>> \in Seq(Frames) /\ \A k \in 1 .. Len(<<f, g>>) : <<f, g>>[k] \in {f, g}
  OBVIOUS
<1>. QED
  BY <1>1 DEF Trace

LEMMA GotoTrace ==
  ASSUME Stacks, NEW a \in Actors, stack[a] # <<>>, NEW P, Top(a).pc \in P,
         NEW f \in Frames, f.pc \in P, Goto(a, f)
  PROVE  Trace(a, P)
  BY GotoMoves, TraceOne

LEMMA CallTrace ==
  ASSUME Stacks, NEW a \in Actors, stack[a] # <<>>, NEW P, Top(a).pc \in P,
         NEW f \in Frames, f.pc \in P, NEW g \in Frames, g.pc \in P, Call(a, f, g)
  PROVE  Trace(a, P)
  BY CallMoves, TraceTwo

LEMMA ReturnTrace ==
  ASSUME Stacks, NEW a \in Actors, stack[a] # <<>>, NEW P, Top(a).pc \in P,
         Return(a) \/ \E res \in Results : ReturnWith(a, res)
  PROVE  Trace(a, P)
<1>1. "done" \in Results
  BY DEF Results
<1>2. \E res \in Results : ReturnWith(a, res)
  BY <1>1 DEF Return, ReturnWith
<1>. QED
  BY <1>2, ReturnMoves, TraceNone

LEMMA FreshDispatchId ==
  ASSUME UnusedDispatches # {}
  PROVE  /\ NextDispatch \in Dispatches /\ NextDispatch # NoDispatch
         /\ publication[NextDispatch] = "none" /\ NextDispatch \notin HeldDispatches
<1>1. UnusedDispatches \in SUBSET Nat
  BY DispatchesAssumption DEF UnusedDispatches
<1>2. NextDispatch \in UnusedDispatches
  BY <1>1, MinOf DEF NextDispatch
<1>3. NextDispatch \in Dispatches /\ NextDispatch \notin HeldDispatches
  BY <1>2 DEF UnusedDispatches
<1>4. publication[NextDispatch] = "none"
  BY <1>3 DEF HeldDispatches
<1>. QED
  BY <1>3, <1>4, RegistryParts

(* What a request for a dispatch does.                                     *)
LEMMA Requested ==
  ASSUME Stacks, NEW a \in Actors, stack[a] # <<>>, NEW f \in Frames, RequestDrain(a, f)
  PROVE  \/ /\ UNCHANGED <<pending, publication>>
            /\ \/ \E g \in Frames : Same(f, g) /\ Moves(a, <<g>>)
               \/ f.pc \in {"return", "lease"} /\ Moves(a, <<>>)
         \/ /\ ~ stopping /\ ~ cancelling /\ ~ draining
            /\ \E d \in Dispatches :
                 /\ publication[d] = "none" /\ pending' = d
                 /\ publication' = [publication EXCEPT ![d] = "armed"]
                 /\ PublishFrame(d) \in Frames /\ PublishFrame(d).pc = "enter"
                 /\ Moves(a, <<f, PublishFrame(d)>>)
<1>1. CASE stopping \/ cancelling \/ draining \/ pending # NoDispatch
  <2>. DEFINE res == IF stopping \/ cancelling THEN "unavailable" ELSE "coalesced"
  <2>1. res \in Results
    BY DEF Results
  <2>2. /\ stack' = [stack EXCEPT ![a] = Unwound(Become(a, f) \o <<Frame("drain")>>, res)]
        /\ UNCHANGED <<pending, publication>>
    BY <1>1 DEF RequestDrain
  <2>. HIDE DEF res
  <2>3. \/ \E g \in Frames : Same(f, g) /\ Moves(a, <<g>>)
        \/ f.pc \in {"return", "lease"} /\ Moves(a, <<>>)
    BY <2>1, <2>2, CoalescedMoves
  <2>. QED
    BY <2>2, <2>3
<1>2. CASE ~ (stopping \/ cancelling \/ draining \/ pending # NoDispatch)
  <2>1. /\ UnusedDispatches # {} /\ pending' = NextDispatch
        /\ publication' = [publication EXCEPT ![NextDispatch] = "armed"]
        /\ Call(a, f, PublishFrame(NextDispatch))
    BY <1>2 DEF RequestDrain
  <2>2. NextDispatch \in Dispatches /\ publication[NextDispatch] = "none"
    BY <2>1, FreshDispatchId
  <2>3. PublishFrame(NextDispatch) \in Frames /\ PublishFrame(NextDispatch).pc = "enter"
    BY <2>2, MadeFrames
  <2>4. Moves(a, <<f, PublishFrame(NextDispatch)>>)
    BY <2>1, <2>3, CallMoves
  <2>. QED
    BY <1>2, <2>1, <2>2, <2>3, <2>4
<1>. QED
  BY <1>1, <1>2

LEMMA RequestTrace ==
  ASSUME Stacks, NEW a \in Actors, stack[a] # <<>>, NEW P, Top(a).pc \in P, "enter" \in P,
         NEW f \in Frames, f.pc \in P, RequestDrain(a, f)
  PROVE  Trace(a, P)
<1>1. CASE \E g \in Frames : Same(f, g) /\ Moves(a, <<g>>)
  <2>1. PICK g \in Frames : Same(f, g) /\ Moves(a, <<g>>)
    BY <1>1
  <2>2. g.pc \in P
    BY <2>1, SameFrame
  <2>. QED
    BY <2>1, <2>2, TraceOne
<1>2. CASE Moves(a, <<>>)
  BY <1>2, TraceNone
<1>3. CASE \E d \in Dispatches : /\ PublishFrame(d) \in Frames /\ PublishFrame(d).pc = "enter"
                                 /\ Moves(a, <<f, PublishFrame(d)>>)
  BY <1>3, TraceTwo
<1>. QED
  BY <1>1, <1>2, <1>3, Requested

-----------------------------------------------------------------------------
(* Every step keeps the types and leaves a trace on one stack.             *)

TypeInv == TypeOK /\ Stacks

LEMMA InTop ==
  ASSUME TypeInv, NEW a \in Actors, NEW p, In(a, p)
  PROVE  stack[a] # <<>> /\ Top(a).pc = p /\ Top(a) \in Frames
  BY TopShape DEF TypeInv, In, Top

LEMMA CompletingShape ==
  ASSUME NEW a \in Actors, NEW fs \in SUBSET Failures, NEW re \in BOOLEAN
  PROVE  /\ Completing(a, fs, re) \in Seq(Frames)
         /\ \A k \in 1 .. Len(Completing(a, fs, re)) : Completing(a, fs, re)[k].pc = "complete"
<1>. DEFINE c == CompleteFrame(fs, re)
<1>1. c \in Frames /\ c.pc = "complete"
  BY MadeFrames
<1>2. Completing(a, fs, re) \in {<<>>, <<c>>}
  BY DEF Completing
<1>. HIDE DEF c
<1>3. /\ <<c>> \in Seq(Frames) /\ <<>> \in Seq(Frames)
      /\ \A k \in 1 .. Len(<<>>) : FALSE
      /\ \A k \in 1 .. Len(<<c>>) : <<c>>[k] = c
  BY <1>1
<1>. QED
  BY <1>1, <1>2, <1>3

(* The end of a publication.                                               *)
LEMMA AnsweredMoves ==
  ASSUME TypeInv, NEW a \in Actors, stack[a] # <<>>, Top(a) \in PublishFrames,
         NEW fs \in SUBSET Failures, NEW result \in Results, NEW failure \in Failures,
         Answered(a, fs, result, failure)
  PROVE  \E f \in PublishFrames, gs \in Seq(Frames) :
           /\ f.pc = "settle" /\ f.dispatch = Top(a).dispatch
           /\ \A k \in 1 .. Len(gs) : gs[k].pc = "complete"
           /\ Moves(a, <<f>> \o gs)
<1>. DEFINE f == [At(a, "settle") EXCEPT !.failures = {}, !.live = {},
                    !.result = result, !.failure = failure]
            gs == Completing(a, fs, FALSE)
<1>1. f \in PublishFrames /\ f.pc = "settle" /\ f.dispatch = Top(a).dispatch
  BY DEF At, PublishFrames, PublishPcs
<1>2. gs \in Seq(Frames) /\ \A k \in 1 .. Len(gs) : gs[k].pc = "complete"
  BY CompletingShape
<1>3. stack' = [stack EXCEPT ![a] = Become(a, f) \o gs]
  BY DEF Answered
<1>. HIDE DEF f, gs
<1>4. Moves(a, <<f>> \o gs)
  BY <1>1, <1>2, <1>3, FrameUnion, SpawnMoves DEF TypeInv
<1>. QED
  BY <1>1, <1>2, <1>4

LEMMA AnsweredTrace ==
  ASSUME TypeInv, NEW a \in Actors, stack[a] # <<>>, Top(a) \in PublishFrames,
         NEW fs \in SUBSET Failures, NEW result \in Results, NEW failure \in Failures,
         Answered(a, fs, result, failure),
         NEW P, Top(a).pc \in P, "settle" \in P, "complete" \in P
  PROVE  Trace(a, P)
<1>1. PICK f \in PublishFrames, gs \in Seq(Frames) :
           /\ f.pc = "settle"
           /\ \A k \in 1 .. Len(gs) : gs[k].pc = "complete"
           /\ Moves(a, <<f>> \o gs)
  BY AnsweredMoves
<1>. QED
  BY <1>1, TraceMany, FrameUnion

(* A frame of a publication that goes on.                                  *)
LEMMA CallingMoves ==
  ASSUME TypeInv, NEW a \in Actors, stack[a] # <<>>, Top(a) \in PublishFrames,
         NEW hs \in SUBSET Hosts, NEW fs \in SUBSET Failures, Calling(a, hs, fs)
  PROVE  \E f \in PublishFrames : /\ f.pc \in {"finish", "send"} /\ f.dispatch = Top(a).dispatch
                                  /\ Moves(a, <<f>>)
<1>. DEFINE p == IF hs = {} THEN "finish" ELSE "send"
            f == [At(a, p) EXCEPT !.live = hs, !.failures = @ \cup fs]
<1>1. p \in {"finish", "send"}
  OBVIOUS
<1>. HIDE DEF p
<1>2. f \in PublishFrames /\ f.pc = p /\ f.dispatch = Top(a).dispatch
  BY <1>1 DEF At, PublishFrames, PublishPcs
<1>3. Goto(a, f)
  BY DEF Calling, p
<1>. HIDE DEF f
<1>4. Moves(a, <<f>>)
  BY <1>2, <1>3, FrameUnion, GotoMoves DEF TypeInv
<1>. QED
  BY <1>1, <1>2, <1>4

LEMMA CallingTrace ==
  ASSUME TypeInv, NEW a \in Actors, stack[a] # <<>>, Top(a) \in PublishFrames,
         NEW hs \in SUBSET Hosts, NEW fs \in SUBSET Failures, Calling(a, hs, fs),
         NEW P, Top(a).pc \in P, "finish" \in P, "send" \in P
  PROVE  Trace(a, P)
<1>1. PICK f \in PublishFrames : f.pc \in {"finish", "send"} /\ Moves(a, <<f>>)
  BY CallingMoves
<1>. QED
  BY <1>1, TraceOne, FrameUnion

(* A publication goes on, possibly below the completion of other failures. *)
Carries(a) ==
  \E f \in PublishFrames, gs \in Seq(Frames) :
    /\ f.pc \notin {"settled", "uncancelPublish"} /\ f.dispatch = Top(a).dispatch
    /\ \A k \in 1 .. Len(gs) : gs[k].pc = "complete"
    /\ Moves(a, <<f>> \o gs)

LEMMA CarriesOne ==
  ASSUME NEW a \in Actors, NEW f \in PublishFrames, f.pc \notin {"settled", "uncancelPublish"},
         f.dispatch = Top(a).dispatch, Moves(a, <<f>>)
  PROVE  Carries(a)
<1>. DEFINE gs == <<>>
<1>1. f \in Frames
  BY FrameUnion
<1>2. gs \in Seq(Frames) /\ <<f>> \o gs = <<f>> /\ \A k \in 1 .. Len(gs) : gs[k].pc = "complete"
  BY <1>1
<1>3. Moves(a, <<f>> \o gs)
  BY <1>2
<1>. HIDE DEF gs
<1>. QED
  BY <1>2, <1>3 DEF Carries

LEMMA AnsweredCarries ==
  ASSUME TypeInv, NEW a \in Actors, stack[a] # <<>>, Top(a) \in PublishFrames,
         NEW fs \in SUBSET Failures, NEW result \in Results, NEW failure \in Failures,
         Answered(a, fs, result, failure)
  PROVE  Carries(a)
<1>1. PICK f \in PublishFrames, gs \in Seq(Frames) :
         /\ f.pc = "settle" /\ f.dispatch = Top(a).dispatch
         /\ \A k \in 1 .. Len(gs) : gs[k].pc = "complete"
         /\ Moves(a, <<f>> \o gs)
  BY AnsweredMoves
<1>2. f.pc \notin {"settled", "uncancelPublish"}
  BY <1>1
<1>. QED
  BY <1>1, <1>2 DEF Carries

LEMMA CallingCarries ==
  ASSUME TypeInv, NEW a \in Actors, stack[a] # <<>>, Top(a) \in PublishFrames,
         NEW hs \in SUBSET Hosts, NEW fs \in SUBSET Failures, Calling(a, hs, fs)
  PROVE  Carries(a)
<1>1. PICK f \in PublishFrames : /\ f.pc \in {"finish", "send"} /\ f.dispatch = Top(a).dispatch
                                 /\ Moves(a, <<f>>)
  BY CallingMoves
<1>2. f.pc \notin {"settled", "uncancelPublish"}
  BY <1>1
<1>. QED
  BY <1>1, <1>2, CarriesOne

LEMMA GotoCarries ==
  ASSUME TypeInv, NEW a \in Actors, stack[a] # <<>>, NEW f \in PublishFrames,
         f.pc \notin {"settled", "uncancelPublish"}, f.dispatch = Top(a).dispatch, Goto(a, f)
  PROVE  Carries(a)
<1>1. Moves(a, <<f>>)
  BY GotoMoves, FrameUnion DEF TypeInv
<1>. QED
  BY <1>1, CarriesOne

(* A loop that cancels what was rejected.                                  *)
LEMMA RetireTrace ==
  ASSUME TypeInv, NEW a \in Actors, stack[a] # <<>>, RetireRejected(a),
         NEW P, Top(a).pc \in P, "retire" \in P, "drop" \in P
  PROVE  Trace(a, P) /\ rejected' \subseteq rejected
<1>1. CASE OnWakerStack(a) \/ rejected = {}
  BY <1>1, ReturnTrace DEF RetireRejected, TypeInv
<1>2. CASE ~ (OnWakerStack(a) \/ rejected = {})
  <2>1. /\ rejected' = {} /\ Call(a, Frame("retire"), DropFrame(rejected))
    BY <1>2 DEF RetireRejected
  <2>2. rejected \in SUBSET Tasks /\ "retire" \in PlainPcs
    BY DEF TypeInv, TypeOK, PlainPcs
  <2>3. /\ Frame("retire") \in Frames /\ Frame("retire").pc = "retire"
        /\ DropFrame(rejected) \in Frames /\ DropFrame(rejected).pc = "drop"
    BY <2>2, MadeFrames
  <2>. QED
    BY <2>1, <2>3, CallTrace DEF TypeInv
<1>. QED
  BY <1>1, <1>2

LEMMA EndOfType ==
  ASSUME TypeInv, NEW t \in Tasks
  PROVE  EndOf(t) \in [Tasks -> {"fresh", "scheduled", "running", "woken", "waiting", "done"}]
  BY DEF EndOf, TypeInv, TypeOK

LEMMA QueueTypes ==
  ASSUME TypeInv
  PROVE  /\ \A t \in Tasks : Append(queue, t) \in Seq(Tasks)
         /\ queue # <<>> => Head(queue) \in Tasks /\ Tail(queue) \in Seq(Tasks)
         /\ ToSet(queue) \in SUBSET Tasks /\ rejected \in SUBSET Tasks
<1>1. queue \in Seq(Tasks) /\ rejected \subseteq Tasks
  BY DEF TypeInv, TypeOK
<1>2. ToSet(queue) \in SUBSET Tasks
  BY <1>1 DEF ToSet
<1>3. queue # <<>> => Head(queue) \in Tasks /\ Tail(queue) \in Seq(Tasks)
  BY <1>1, HeadTailProperties
<1>. QED
  BY <1>1, <1>2, <1>3

LEMMA ActorKinds ==
  /\ \A p \in Threads : p \in Actors
  /\ \A h \in Hosts : h \in Actors
  /\ Stopper \in Actors
  BY DEF Actors

(* The task is pushed.                                                     *)
LEMMA SubmitType ==
  ASSUME TypeInv, NEW p \in Threads, NEW t \in Tasks, Submit(p, t)
  PROVE  Trace(p, {"push"}) /\ TypeInv'
<1>. p \in Actors
  BY ActorKinds
<1>1. /\ stack[p] = <<>> /\ stack' = [stack EXCEPT ![p] = <<SchedFrame(t, FALSE)>>]
      /\ SchedFrame(t, FALSE) \in Frames /\ SchedFrame(t, FALSE).pc = "push"
  BY MadeFrames DEF Submit
<1>2. Moves(p, <<SchedFrame(t, FALSE)>>)
  BY <1>1, OpenOne DEF TypeInv
<1>3. Trace(p, {"push"})
  BY <1>1, <1>2, TraceOne
<1>4. Stacks'
  BY <1>3, TraceStacks DEF TypeInv
<1>5. TypeOK'
  BY <1>4 DEF Submit, TypeInv, TypeOK, Stacks, queueVars, dispatchVars, hostVars, stopVars
<1>. QED
  BY <1>3, <1>4, <1>5 DEF TypeInv

LEMMA WakeType ==
  ASSUME TypeInv, NEW p \in Threads, NEW t \in Tasks, Wake(p, t)
  PROVE  (Trace(p, {"push"}) \/ UNCHANGED stack) /\ TypeInv'
<1>. p \in Actors
  BY ActorKinds
<1>3. wakes' \in 0 .. MaxWakes
  BY ActorsAssumption DEF Wake, TypeInv, TypeOK
<1>4. task' \in [Tasks -> {"fresh", "scheduled", "running", "woken", "waiting", "done"}]
  BY DEF Wake, TypeInv, TypeOK
<1>1. CASE UNCHANGED stack
  <2>1. TypeOK'
    BY <1>1, <1>3, <1>4 DEF Wake, TypeInv, TypeOK, Stacks, queueVars, dispatchVars, hostVars, stopVars
  <2>. QED
    BY <1>1, <2>1 DEF TypeInv, Stacks
<1>2. CASE stack' = [stack EXCEPT ![p] = <<SchedFrame(t, TRUE)>>]
  <2>1. SchedFrame(t, TRUE) \in Frames /\ SchedFrame(t, TRUE).pc = "push" /\ stack[p] = <<>>
    BY MadeFrames DEF Wake
  <2>2. Moves(p, <<SchedFrame(t, TRUE)>>)
    BY <1>2, <2>1, OpenOne DEF TypeInv
  <2>3. Trace(p, {"push"})
    BY <2>1, <2>2, TraceOne
  <2>4. Stacks'
    BY <2>3, TraceStacks DEF TypeInv
  <2>5. TypeOK'
    BY <2>4, <1>3, <1>4 DEF Wake, TypeInv, TypeOK, Stacks, queueVars, dispatchVars, hostVars, stopVars
  <2>. QED
    BY <2>3, <2>4, <2>5 DEF TypeInv
<1>. QED
  BY <1>1, <1>2 DEF Wake

LEMMA PushType ==
  ASSUME TypeInv, NEW a \in Actors, Push(a)
  PROVE  Trace(a, {"push", "offer"}) /\ TypeInv'
<1>1. stack[a] # <<>> /\ Top(a).pc = "push" /\ Top(a) \in SchedFrames
  BY InTop, FrameKinds DEF Push
<1>2. At(a, "offer") \in Frames /\ At(a, "offer").pc = "offer"
  BY <1>1, FrameUnion DEF At, SchedFrames
<1>3. Trace(a, {"push", "offer"})
  <2>1. CASE Return(a)
    BY <1>1, <2>1, ReturnTrace DEF TypeInv
  <2>2. CASE Goto(a, At(a, "offer"))
    BY <1>1, <1>2, <2>2, GotoTrace DEF TypeInv
  <2>. QED
    BY <2>1, <2>2 DEF Push
<1>4. Stacks'
  BY <1>3, TraceStacks DEF TypeInv
<1>5. Top(a).task \in Tasks
  BY <1>1 DEF SchedFrames
<1>6. queue' \in Seq(Tasks) /\ rejected' \subseteq Tasks
  BY <1>5, QueueTypes DEF Push, TypeInv, TypeOK
<1>7. TypeOK'
  BY <1>4, <1>6 DEF Push, TypeInv, TypeOK, Stacks, taskVars, dispatchVars, hostVars, stopVars
<1>. QED
  BY <1>3, <1>4, <1>7 DEF TypeInv

LEMMA PublicationArmed ==
  ASSUME TypeInv, NEW d \in Dispatches
  PROVE  \A p \in {"none", "armed", "again"} :
           [publication EXCEPT ![d] = p] \in [Dispatches -> {"none", "armed", "again"}]
  BY DEF TypeInv, TypeOK

LEMMA RequestTypes ==
  ASSUME TypeInv, NEW a \in Actors, stack[a] # <<>>, NEW f \in Frames, RequestDrain(a, f)
  PROVE  /\ pending' \in Dispatches \cup {NoDispatch}
         /\ publication' \in [Dispatches -> {"none", "armed", "again"}]
<1>1. \/ UNCHANGED <<pending, publication>>
      \/ \E d \in Dispatches : pending' = d /\ publication' = [publication EXCEPT ![d] = "armed"]
  BY Requested DEF TypeInv
<1>. QED
  BY <1>1, PublicationArmed DEF TypeInv, TypeOK

LEMMA OfferedType ==
  ASSUME TypeInv, NEW a \in Actors, Offered(a)
  PROVE  Trace(a, {"offer", "return", "enter"}) /\ TypeInv'
<1>. DEFINE f == At(a, "return")
<1>1. stack[a] # <<>> /\ Top(a).pc = "offer" /\ Top(a) \in SchedFrames
  BY InTop, FrameKinds DEF Offered
<1>2. f \in Frames /\ f.pc = "return"
  BY <1>1, FrameUnion DEF At, SchedFrames
<1>3. \/ Return(a) /\ UNCHANGED <<pending, publication>>
      \/ RequestDrain(a, f)
  BY DEF Offered
<1>. HIDE DEF f
<1>4. Trace(a, {"offer", "return", "enter"})
  BY <1>1, <1>2, <1>3, ReturnTrace, RequestTrace DEF TypeInv
<1>5. /\ pending' \in Dispatches \cup {NoDispatch}
      /\ publication' \in [Dispatches -> {"none", "armed", "again"}]
  BY <1>1, <1>2, <1>3, RequestTypes DEF TypeInv, TypeOK
<1>6. Stacks'
  BY <1>4, TraceStacks DEF TypeInv
<1>7. TypeOK'
  BY <1>5, <1>6 DEF Offered, TypeInv, TypeOK, Stacks, queueVars, taskVars, hostVars, stopVars
<1>. QED
  BY <1>4, <1>6, <1>7 DEF TypeInv

(* The publication of a dispatch.                                          *)
LEMMA EnterType ==
  ASSUME TypeInv, NEW a \in Actors, Enter(a)
  PROVE  Trace(a, {"enter", "settle", "complete", "plan"}) /\ TypeInv' /\ Carries(a)
<1>. DEFINE P == {"enter", "settle", "complete", "plan"}
            d == Top(a).dispatch
            dead == {h \in Hosts : host[h] # "live"}
            o == Sweep(BeginPublication(reg, d), dead)
            g == [At(a, "plan") EXCEPT !.live = o.reg.drivers, !.failures = o.failures]
<1>1. stack[a] # <<>> /\ Top(a).pc = "enter" /\ Top(a) \in PublishFrames
  BY InTop, FrameKinds DEF Enter, PublishPcs
<1>2. d \in Dispatches /\ reg \in Registry /\ dead \in SUBSET Hosts
  BY <1>1 DEF PublishFrames, TypeInv, TypeOK
<1>3. o.reg \in Registry /\ o.failures \in SUBSET Failures /\ o.reg.drivers \in SUBSET Hosts
  <2>. DEFINE b == BeginPublication(reg, d)
  <2>1. b \in Registry
    BY <1>2, BeginPublicationType
  <2>. HIDE DEF b, dead
  <2>2. b.drivers \cap dead \in SUBSET Hosts
    BY <1>2
  <2>3. Sweep(b, dead) = RemoveDrivers(b, b.drivers \cap dead)
    BY DEF Sweep
  <2>4. Sweep(b, dead).reg \in Registry /\ Sweep(b, dead).failures \in SUBSET Failures
    BY <2>1, <2>2, <2>3, RemoveDriversType DEF Failures
  <2>5. Sweep(b, dead).reg.drivers \in SUBSET Hosts
    BY <2>4, RegistryParts
  <2>. QED
    BY <2>4, <2>5 DEF b
<1>4. g \in PublishFrames /\ g.pc = "plan" /\ g.dispatch = Top(a).dispatch
  <2>. HIDE DEF o
  <2>. QED
    BY <1>1, <1>3 DEF At, PublishFrames, PublishPcs
<1>5. /\ \/ Answered(a, {}, "accepted", NoFailure) /\ UNCHANGED reg
         \/ /\ Answered(a, {}, "failed", Failure(d, reg.dispatch[d].epoch))
            /\ UNCHANGED reg
         \/ reg' = o.reg /\ Goto(a, g)
      /\ UNCHANGED <<queueVars, taskVars, dispatchVars, hostVars, stopVars>>
  <2>1. CASE Present(reg, d) /\ reg.dispatch[d].phase = "serviced"
    BY <2>1 DEF Enter
  <2>2. CASE Present(reg, d) /\ reg.dispatch[d].phase = "cancelling"
    BY <2>2 DEF Enter
  <2>3. CASE ~ (Present(reg, d) /\ reg.dispatch[d].phase \in {"serviced", "cancelling"})
    BY <2>3 DEF Enter
  <2>. QED
    BY <2>1, <2>2, <2>3
<1>6. /\ "accepted" \in Results /\ "failed" \in Results /\ NoFailure \in Failures
      /\ {} \in SUBSET Failures /\ Failure(d, reg.dispatch[d].epoch) \in Failures
  <2>1. reg.dispatch[d].epoch \in 0 .. Epochs - 1
    BY <1>2, RegistryParts, RecordFields
  <2>. QED
    BY <1>2, <2>1, NoFailureType DEF Results, Failure, Failures
<1>. HIDE DEF d, dead, o, g
<1>7. Trace(a, P)
  <2>1. CASE Answered(a, {}, "accepted", NoFailure)
    BY <1>1, <1>6, <2>1, AnsweredTrace
  <2>2. CASE Answered(a, {}, "failed", Failure(d, reg.dispatch[d].epoch))
    BY <1>1, <1>6, <2>2, AnsweredTrace
  <2>3. CASE Goto(a, g)
    BY <1>1, <1>4, <2>3, GotoTrace, FrameUnion DEF TypeInv
  <2>. QED
    BY <1>5, <2>1, <2>2, <2>3
<1>10. Carries(a)
  <2>1. CASE Answered(a, {}, "accepted", NoFailure)
    BY <1>1, <1>6, <2>1, AnsweredCarries
  <2>2. CASE Answered(a, {}, "failed", Failure(d, reg.dispatch[d].epoch))
    BY <1>1, <1>6, <2>2, AnsweredCarries
  <2>3. CASE Goto(a, g)
    BY <1>1, <1>4, <2>3, GotoCarries
  <2>. QED
    BY <1>5, <2>1, <2>2, <2>3
<1>8. Stacks'
  BY <1>7, TraceStacks DEF TypeInv
<1>9. TypeOK'
  BY <1>2, <1>3, <1>5, <1>8 DEF TypeInv, TypeOK, Stacks, queueVars, taskVars, dispatchVars, hostVars, stopVars
<1>. QED
  BY <1>7, <1>8, <1>9, <1>10 DEF TypeInv

LEMMA PlanDeliveriesType ==
  ASSUME TypeInv, NEW a \in Actors, PlanDeliveries(a)
  PROVE  Trace(a, {"plan", "settle", "complete", "finish", "send"}) /\ TypeInv' /\ Carries(a)
<1>. DEFINE P == {"plan", "settle", "complete", "finish", "send"}
            d == Top(a).dispatch
            p == Plan(reg, d, Top(a).live)
<1>1. stack[a] # <<>> /\ Top(a).pc = "plan" /\ Top(a) \in PublishFrames
  BY InTop, FrameKinds DEF PlanDeliveries, PublishPcs
<1>2. /\ d \in Dispatches /\ reg \in Registry /\ Top(a).live \in SUBSET Hosts
      /\ Top(a).failures \in SUBSET Failures
  BY <1>1 DEF PublishFrames, TypeInv, TypeOK
<1>3. p.reg \in Registry /\ p.planned \in SUBSET Hosts
  BY <1>2, PlanType
<1>4. /\ "unavailable" \in Results /\ NoFailure \in Failures
      /\ {} \in SUBSET Failures /\ {} \in SUBSET Hosts
  BY NoFailureType DEF Results
<1>5. /\ \/ Answered(a, Top(a).failures, "unavailable", NoFailure) /\ UNCHANGED reg
         \/ Calling(a, {}, {}) /\ UNCHANGED reg
         \/ reg' = p.reg /\ Calling(a, p.planned, {})
      /\ UNCHANGED <<queueVars, taskVars, dispatchVars, hostVars, stopVars>>
  BY DEF PlanDeliveries
<1>. HIDE DEF d, p
<1>7. Trace(a, P)
  <2>1. CASE Answered(a, Top(a).failures, "unavailable", NoFailure)
    BY <1>1, <1>2, <1>4, <2>1, AnsweredTrace
  <2>2. CASE Calling(a, {}, {})
    BY <1>1, <1>4, <2>2, CallingTrace
  <2>3. CASE Calling(a, p.planned, {})
    BY <1>1, <1>3, <1>4, <2>3, CallingTrace
  <2>. QED
    BY <1>5, <2>1, <2>2, <2>3
<1>10. Carries(a)
  <2>1. CASE Answered(a, Top(a).failures, "unavailable", NoFailure)
    BY <1>1, <1>2, <1>4, <2>1, AnsweredCarries
  <2>2. CASE Calling(a, {}, {})
    BY <1>1, <1>4, <2>2, CallingCarries
  <2>3. CASE Calling(a, p.planned, {})
    BY <1>1, <1>3, <1>4, <2>3, CallingCarries
  <2>. QED
    BY <1>5, <2>1, <2>2, <2>3
<1>8. Stacks'
  BY <1>7, TraceStacks DEF TypeInv
<1>9. TypeOK'
  BY <1>2, <1>3, <1>5, <1>8 DEF TypeInv, TypeOK, Stacks, queueVars, taskVars, dispatchVars, hostVars, stopVars
<1>. QED
  BY <1>7, <1>8, <1>9, <1>10 DEF TypeInv

LEMMA SendType ==
  ASSUME TypeInv, NEW a \in Actors, Send(a)
  PROVE  Trace(a, {"send", "accept", "reject"}) /\ TypeInv' /\ Carries(a)
<1>1. stack[a] # <<>> /\ Top(a).pc = "send" /\ Top(a) \in PublishFrames
  BY InTop, FrameKinds DEF Send, PublishPcs
<1>2. Top(a).dispatch \in Dispatches /\ Top(a).live \in SUBSET Hosts
  BY <1>1 DEF PublishFrames
<1>3. /\ At(a, "accept") \in Frames /\ At(a, "accept").pc = "accept"
      /\ At(a, "reject") \in Frames /\ At(a, "reject").pc = "reject"
  <2>1. /\ At(a, "accept") \in PublishFrames /\ At(a, "accept").pc = "accept"
        /\ At(a, "reject") \in PublishFrames /\ At(a, "reject").pc = "reject"
    BY <1>1 DEF At, PublishFrames, PublishPcs
  <2>. QED
    BY <2>1, FrameUnion
<1>4. PICK h \in Top(a).live :
        IF host[h] = "live"
        THEN mail' = [mail EXCEPT ![h] = Top(a).dispatch] /\ Goto(a, At(a, "accept"))
        ELSE Goto(a, At(a, "reject")) /\ UNCHANGED mail
  BY DEF Send
<1>5. mail' \in [Hosts -> Dispatches \cup {NoDispatch}]
  BY <1>2, <1>4 DEF TypeInv, TypeOK
<1>7. Trace(a, {"send", "accept", "reject"})
  BY <1>1, <1>3, <1>4, GotoTrace DEF TypeInv
<1>10. Carries(a)
  <2>1. \A p \in {"accept", "reject"} : /\ At(a, p) \in PublishFrames /\ At(a, p).pc = p
                                         /\ At(a, p).dispatch = Top(a).dispatch
    BY <1>1 DEF At, PublishFrames, PublishPcs
  <2>. QED
    BY <1>1, <1>4, <2>1, GotoCarries
<1>8. Stacks'
  BY <1>7, TraceStacks DEF TypeInv
<1>9. TypeOK'
  BY <1>5, <1>8 DEF Send, TypeInv, TypeOK, Stacks, queueVars, taskVars, dispatchVars, hostVars, stopVars
<1>. QED
  BY <1>7, <1>8, <1>9, <1>10 DEF TypeInv

LEMMA AcceptType ==
  ASSUME TypeInv, NEW a \in Actors, Accept(a)
  PROVE  Trace(a, {"accept", "finish", "send"}) /\ TypeInv' /\ Carries(a)
<1>1. stack[a] # <<>> /\ Top(a).pc = "accept" /\ Top(a) \in PublishFrames
  BY InTop, FrameKinds DEF Accept, PublishPcs
<1>2. Top(a).dispatch \in Dispatches /\ Top(a).live \in SUBSET Hosts /\ reg \in Registry
  BY <1>1 DEF PublishFrames, TypeInv, TypeOK
<1>3. PICK h \in Top(a).live : /\ reg' = AcceptDelivery(reg, h, Top(a).dispatch)
                               /\ Calling(a, Top(a).live \ {h}, {})
  BY DEF Accept
<1>4. reg' \in Registry
  BY <1>2, <1>3, AnswerTypes
<1>7. Trace(a, {"accept", "finish", "send"})
  <2>1. Top(a).live \ {h} \in SUBSET Hosts /\ {} \in SUBSET Failures
    BY <1>2
  <2>. QED
    BY <1>1, <1>3, <2>1, CallingTrace
<1>10. Carries(a)
  <2>1. Top(a).live \ {h} \in SUBSET Hosts /\ {} \in SUBSET Failures
    BY <1>2
  <2>. QED
    BY <1>1, <1>3, <2>1, CallingCarries
<1>8. Stacks'
  BY <1>7, TraceStacks DEF TypeInv
<1>9. TypeOK'
  BY <1>4, <1>8 DEF Accept, TypeInv, TypeOK, Stacks, queueVars, taskVars, dispatchVars, hostVars, stopVars
<1>. QED
  BY <1>7, <1>8, <1>9, <1>10 DEF TypeInv

LEMMA RejectDeliveryType ==
  ASSUME NEW r \in Registry, NEW h \in Hosts, NEW d
  PROVE  /\ RejectDelivery(r, h, d).reg \in Registry
         /\ RejectDelivery(r, h, d).failures \in SUBSET Failures
         /\ Unregister(r, h).reg \in Registry /\ Unregister(r, h).failures \in SUBSET Failures
<1>1. r.drivers \cap {h} \in SUBSET Hosts
  OBVIOUS
<1>2. Unregister(r, h) = RemoveDrivers(r, r.drivers \cap {h})
  BY DEF Unregister
<1>3. Unregister(r, h).reg \in Registry /\ Unregister(r, h).failures \in SUBSET Failures
  BY <1>1, <1>2, RemoveDriversType DEF Failures
<1>4. RejectDelivery(r, h, d) \in {Unregister(r, h), [reg |-> r, failures |-> {}]}
  BY DEF RejectDelivery
<1>. QED
  BY <1>3, <1>4

LEMMA RejectType ==
  ASSUME TypeInv, NEW a \in Actors, Reject(a)
  PROVE  Trace(a, {"reject", "finish", "send"}) /\ TypeInv' /\ Carries(a)
<1>1. stack[a] # <<>> /\ Top(a).pc = "reject" /\ Top(a) \in PublishFrames
  BY InTop, FrameKinds DEF Reject, PublishPcs
<1>2. Top(a).dispatch \in Dispatches /\ Top(a).live \in SUBSET Hosts /\ reg \in Registry
  BY <1>1 DEF PublishFrames, TypeInv, TypeOK
<1>3. PICK h \in Top(a).live :
        /\ reg' = RejectDelivery(reg, h, Top(a).dispatch).reg
        /\ Calling(a, Top(a).live \ {h}, RejectDelivery(reg, h, Top(a).dispatch).failures)
  BY DEF Reject
<1>4. reg' \in Registry /\ RejectDelivery(reg, h, Top(a).dispatch).failures \in SUBSET Failures
  BY <1>2, <1>3, RejectDeliveryType
<1>7. Trace(a, {"reject", "finish", "send"})
  <2>1. Top(a).live \ {h} \in SUBSET Hosts
    BY <1>2
  <2>. QED
    BY <1>1, <1>3, <1>4, <2>1, CallingTrace
<1>10. Carries(a)
  <2>1. Top(a).live \ {h} \in SUBSET Hosts
    BY <1>2
  <2>. QED
    BY <1>1, <1>3, <1>4, <2>1, CallingCarries
<1>8. Stacks'
  BY <1>7, TraceStacks DEF TypeInv
<1>9. TypeOK'
  BY <1>4, <1>8 DEF Reject, TypeInv, TypeOK, Stacks, queueVars, taskVars, dispatchVars, hostVars, stopVars
<1>. QED
  BY <1>7, <1>8, <1>9, <1>10 DEF TypeInv

LEMMA FinishType ==
  ASSUME TypeInv, NEW a \in Actors, Finish(a)
  PROVE  Trace(a, {"finish", "settle", "complete"}) /\ TypeInv' /\ Carries(a)
<1>. DEFINE o == FinishPublication(reg, Top(a).dispatch)
<1>1. stack[a] # <<>> /\ Top(a).pc = "finish" /\ Top(a) \in PublishFrames
  BY InTop, FrameKinds DEF Finish, PublishPcs
<1>2. /\ Top(a).dispatch \in Dispatches /\ Top(a).failures \in SUBSET Failures /\ reg \in Registry
  BY <1>1 DEF PublishFrames, TypeInv, TypeOK
<1>3. /\ o.reg \in Registry /\ o.result \in Results /\ o.failure \in Failures
  BY <1>2, FinishPublicationType DEF Results, Failures
<1>4. reg' = o.reg /\ Answered(a, Top(a).failures, o.result, o.failure)
  BY DEF Finish
<1>. HIDE DEF o
<1>7. Trace(a, {"finish", "settle", "complete"})
  BY <1>1, <1>2, <1>3, <1>4, AnsweredTrace
<1>10. Carries(a)
  BY <1>1, <1>2, <1>3, <1>4, AnsweredCarries
<1>8. Stacks'
  BY <1>7, TraceStacks DEF TypeInv
<1>9. TypeOK'
  BY <1>3, <1>4, <1>8 DEF Finish, TypeInv, TypeOK, Stacks, queueVars, taskVars, dispatchVars, hostVars, stopVars
<1>. QED
  BY <1>7, <1>8, <1>9, <1>10 DEF TypeInv

(* What a failed dispatch leads to.                                        *)
LEMMA FailureMoves ==
  ASSUME TypeInv, NEW a \in Actors, stack[a] # <<>>, NEW d, NEW p, NEW next \in Frames,
         FailureAction(a, d, p, next)
  PROVE  \/ /\ Moves(a, <<next>>) /\ publication' = p
            /\ cancelling' = cancelling
            /\ pending' \in {pending, NoDispatch} /\ recovery' \in {recovery, NoDispatch}
         \/ /\ ~ cancelling /\ cancelling' = TRUE /\ publication' = p
            /\ pending' = NoDispatch /\ recovery' = NoDispatch
            /\ Frame("move") \in Frames /\ Frame("move").pc = "move"
            /\ Moves(a, <<next, Frame("move")>>)
         \/ /\ ~ stopping /\ cancelling' = cancelling
            /\ \E r \in Dispatches :
                 /\ publication[r] = "none" /\ publication' = [p EXCEPT ![r] = "armed"]
                 /\ pending' = r /\ recovery' = r
                 /\ PublishFrame(r) \in Frames /\ PublishFrame(r).pc = "enter"
                 /\ Moves(a, <<next, PublishFrame(r)>>)
<1>0. Stacks /\ cancelling \in BOOLEAN
  BY DEF TypeInv, TypeOK
<1>1. CASE /\ Goto(a, next) /\ publication' = p /\ cancelling' = cancelling
           /\ pending' \in {pending, NoDispatch} /\ recovery' \in {recovery, NoDispatch}
  <2>1. Moves(a, <<next>>)
    BY <1>0, <1>1, GotoMoves
  <2>. QED
    BY <1>1, <2>1
<1>2. CASE /\ pending = d /\ recovery = d /\ ~ cancelling
  <2>1. /\ cancelling' = TRUE /\ publication' = p /\ pending' = NoDispatch
        /\ recovery' = NoDispatch /\ Call(a, next, Frame("move"))
    BY <1>2 DEF FailureAction
  <2>2. Frame("move") \in Frames /\ Frame("move").pc = "move"
    BY MadeFrames DEF PlainPcs
  <2>3. Moves(a, <<next, Frame("move")>>)
    BY <1>0, <2>1, <2>2, CallMoves
  <2>. QED
    BY <1>2, <2>1, <2>2, <2>3
<1>3. CASE /\ pending = d /\ recovery # d
           /\ ~ (stopping \/ cancelling \/ draining \/ ~ HasServiceableWork)
  <2>1. /\ UnusedDispatches # {} /\ pending' = NextDispatch /\ recovery' = NextDispatch
        /\ publication' = [p EXCEPT ![NextDispatch] = "armed"]
        /\ Call(a, next, PublishFrame(NextDispatch)) /\ cancelling' = cancelling
    BY <1>3 DEF FailureAction
  <2>2. NextDispatch \in Dispatches /\ publication[NextDispatch] = "none"
    BY <2>1, FreshDispatchId
  <2>3. PublishFrame(NextDispatch) \in Frames /\ PublishFrame(NextDispatch).pc = "enter"
    BY <2>2, MadeFrames
  <2>4. Moves(a, <<next, PublishFrame(NextDispatch)>>)
    BY <1>0, <2>1, <2>3, CallMoves
  <2>. QED
    BY <1>3, <2>1, <2>2, <2>3, <2>4
<1>4. (/\ Goto(a, next) /\ publication' = p /\ cancelling' = cancelling
       /\ pending' \in {pending, NoDispatch} /\ recovery' \in {recovery, NoDispatch})
      \/ (pending = d /\ recovery = d /\ ~ cancelling)
      \/ (/\ pending = d /\ recovery # d
          /\ ~ (stopping \/ cancelling \/ draining \/ ~ HasServiceableWork))
  <2>1. CASE pending # d
    BY <2>1 DEF FailureAction
  <2>2. CASE pending = d /\ recovery = d /\ cancelling
    BY <1>0, <2>2 DEF FailureAction
  <2>3. CASE /\ pending = d /\ recovery # d
             /\ stopping \/ cancelling \/ draining \/ ~ HasServiceableWork
    BY <2>3 DEF FailureAction
  <2>. QED
    BY <2>1, <2>2, <2>3
<1>. QED
  BY <1>1, <1>2, <1>3, <1>4

LEMMA FailureTrace ==
  ASSUME TypeInv, NEW a \in Actors, stack[a] # <<>>, NEW d,
         NEW p \in [Dispatches -> {"none", "armed", "again"}], NEW next \in Frames,
         FailureAction(a, d, p, next),
         NEW P, Top(a).pc \in P, next.pc \in P, "move" \in P, "enter" \in P
  PROVE  /\ Trace(a, P)
         /\ publication' \in [Dispatches -> {"none", "armed", "again"}]
         /\ cancelling' \in BOOLEAN
         /\ pending' \in Dispatches \cup {NoDispatch} /\ recovery' \in Dispatches \cup {NoDispatch}
<1>0. /\ cancelling \in BOOLEAN
      /\ pending \in Dispatches \cup {NoDispatch} /\ recovery \in Dispatches \cup {NoDispatch}
  BY DEF TypeInv, TypeOK
<1>1. CASE /\ Moves(a, <<next>>) /\ publication' = p /\ cancelling' = cancelling
           /\ pending' \in {pending, NoDispatch} /\ recovery' \in {recovery, NoDispatch}
  BY <1>0, <1>1, TraceOne
<1>2. CASE /\ ~ cancelling /\ cancelling' = TRUE /\ publication' = p
           /\ pending' = NoDispatch /\ recovery' = NoDispatch
           /\ Frame("move") \in Frames /\ Frame("move").pc = "move"
           /\ Moves(a, <<next, Frame("move")>>)
  BY <1>2, TraceTwo
<1>3. CASE /\ ~ stopping /\ cancelling' = cancelling
           /\ \E r \in Dispatches :
                 /\ publication[r] = "none" /\ publication' = [p EXCEPT ![r] = "armed"]
                 /\ pending' = r /\ recovery' = r
                 /\ PublishFrame(r) \in Frames /\ PublishFrame(r).pc = "enter"
                 /\ Moves(a, <<next, PublishFrame(r)>>)
  BY <1>0, <1>3, TraceTwo
<1>. QED
  BY <1>1, <1>2, <1>3, FailureMoves

LEMMA SettleType ==
  ASSUME TypeInv, NEW a \in Actors, Settle(a)
  PROVE  Trace(a, {"settle", "enter", "uncancelPublish", "move", "settled"}) /\ TypeInv'
<1>. DEFINE P == {"settle", "enter", "uncancelPublish", "move", "settled"}
            d == Top(a).dispatch
            result == Top(a).result
            done == [publication EXCEPT ![d] = "none"]
<1>1. stack[a] # <<>> /\ Top(a).pc = "settle" /\ Top(a) \in PublishFrames
  BY InTop, FrameKinds DEF Settle, PublishPcs
<1>2. /\ d \in Dispatches /\ Top(a).failure \in Failures /\ result \in Results /\ reg \in Registry
      /\ publication \in [Dispatches -> {"none", "armed", "again"}]
      /\ pending \in Dispatches \cup {NoDispatch} /\ recovery \in Dispatches \cup {NoDispatch}
      /\ cancelling \in BOOLEAN /\ Stacks
  BY <1>1 DEF PublishFrames, TypeInv, TypeOK
<1>3. /\ done \in [Dispatches -> {"none", "armed", "again"}]
      /\ [publication EXCEPT ![d] = "armed"] \in [Dispatches -> {"none", "armed", "again"}]
  BY <1>2
<1>4. RearmFailedPublication(reg, Top(a).failure) \in Registry
  BY <1>2, FailureTypes DEF Failures
<1>5. /\ At(a, "uncancelPublish") \in Frames /\ At(a, "uncancelPublish").pc = "uncancelPublish"
      /\ At(a, "settled") \in Frames /\ At(a, "settled").pc = "settled"
      /\ PublishFrame(d) \in Frames /\ PublishFrame(d).pc = "enter"
      /\ Frame("move") \in Frames /\ Frame("move").pc = "move"
  <2>1. /\ At(a, "uncancelPublish") \in PublishFrames /\ At(a, "uncancelPublish").pc = "uncancelPublish"
        /\ At(a, "settled") \in PublishFrames /\ At(a, "settled").pc = "settled"
    BY <1>1 DEF At, PublishFrames, PublishPcs
  <2>2. "move" \in PlainPcs
    BY DEF PlainPcs
  <2>. QED
    BY <1>2, <2>1, <2>2, FrameUnion, MadeFrames
<1>6. /\ UNCHANGED <<queueVars, taskVars, draining, hostVars, stopVars>>
      /\ \/ /\ reg' \in {reg, RearmFailedPublication(reg, Top(a).failure)}
            /\ publication' = [publication EXCEPT ![d] = "armed"]
            /\ Goto(a, PublishFrame(d))
            /\ UNCHANGED <<pending, recovery, cancelling>>
         \/ FailureAction(a, d, done, At(a, "uncancelPublish")) /\ UNCHANGED reg
         \/ /\ pending' = NoDispatch /\ publication' = done /\ UNCHANGED reg
            /\ recovery' \in {recovery, NoDispatch}
            /\ cancelling' = (cancelling \/ recovery = d)
            /\ Call(a, At(a, "settled"), Frame("move")) \/ ReturnWith(a, result)
         \/ /\ publication' = done
            /\ \E res \in Results : ReturnWith(a, res)
            /\ UNCHANGED <<reg, pending, recovery, cancelling>>
  <2>. DEFINE again == pending = d /\ ~ stopping /\ ~ cancelling /\ publication[d] = "again"
              fails == result = "failed" /\ IsCurrentFailure(reg, Top(a).failure)
              none == result = "unavailable" /\ pending = d
  <2>0. UNCHANGED <<queueVars, taskVars, draining, hostVars, stopVars>>
    BY DEF Settle
  <2>1. CASE again
    <3>1. /\ reg' = IF result = "failed"
                    THEN RearmFailedPublication(reg, Top(a).failure) ELSE reg
          /\ publication' = [publication EXCEPT ![d] = "armed"]
          /\ Goto(a, PublishFrame(d))
          /\ UNCHANGED <<pending, recovery, cancelling>>
      BY <2>1 DEF Settle
    <3>. QED
      BY <2>0, <3>1
  <2>2. CASE ~ again /\ fails
    <3>1. FailureAction(a, d, done, At(a, "uncancelPublish")) /\ UNCHANGED reg
      BY <2>2 DEF Settle
    <3>. QED
      BY <2>0, <3>1
  <2>3. CASE ~ again /\ ~ fails /\ none
    <3>1. /\ pending' = NoDispatch /\ publication' = done /\ UNCHANGED reg
          /\ recovery' = (IF recovery = d THEN NoDispatch ELSE recovery)
          /\ cancelling' = (cancelling \/ recovery = d)
          /\ IF recovery = d /\ ~ cancelling
             THEN Call(a, At(a, "settled"), Frame("move"))
             ELSE ReturnWith(a, result)
      BY <2>3 DEF Settle
    <3>. QED
      BY <2>0, <3>1
  <2>4. CASE ~ again /\ ~ fails /\ ~ none
    <3>1. /\ publication' = done
          /\ ReturnWith(a, IF result = "unavailable" THEN "accepted" ELSE result)
          /\ UNCHANGED <<reg, pending, recovery, cancelling>>
      BY <2>4 DEF Settle
    <3>2. (IF result = "unavailable" THEN "accepted" ELSE result) \in Results
      BY <1>2 DEF Results
    <3>. QED
      BY <2>0, <3>1, <3>2
  <2>. QED
    BY <2>1, <2>2, <2>3, <2>4
<1>. HIDE DEF d, done, result
<1>7. /\ Trace(a, P) /\ reg' \in Registry
      /\ publication' \in [Dispatches -> {"none", "armed", "again"}] /\ cancelling' \in BOOLEAN
      /\ pending' \in Dispatches \cup {NoDispatch} /\ recovery' \in Dispatches \cup {NoDispatch}
  <2>1. CASE /\ reg' \in {reg, RearmFailedPublication(reg, Top(a).failure)}
             /\ publication' = [publication EXCEPT ![d] = "armed"]
             /\ Goto(a, PublishFrame(d))
             /\ UNCHANGED <<pending, recovery, cancelling>>
    <3>1. Trace(a, P)
      BY <1>1, <1>2, <1>5, <2>1, GotoTrace
    <3>. QED
      BY <1>2, <1>3, <1>4, <2>1, <3>1
  <2>2. CASE FailureAction(a, d, done, At(a, "uncancelPublish")) /\ UNCHANGED reg
    <3>1. /\ At(a, "uncancelPublish").pc \in P /\ "move" \in P /\ "enter" \in P /\ Top(a).pc \in P
          /\ At(a, "uncancelPublish") \in Frames
      BY <1>1, <1>5
    <3>2. reg' \in Registry /\ FailureAction(a, d, done, At(a, "uncancelPublish"))
      BY <1>2, <2>2
    <3>3. done \in [Dispatches -> {"none", "armed", "again"}] /\ stack[a] # <<>>
      BY <1>1, <1>3
    <3>. HIDE DEF P
    <3>4. /\ Trace(a, P)
          /\ publication' \in [Dispatches -> {"none", "armed", "again"}]
          /\ cancelling' \in BOOLEAN
          /\ pending' \in Dispatches \cup {NoDispatch} /\ recovery' \in Dispatches \cup {NoDispatch}
      BY <3>1, <3>2, <3>3, FailureTrace
    <3>. QED
      BY <3>2, <3>4
  <2>3. CASE /\ pending' = NoDispatch /\ publication' = done /\ UNCHANGED reg
             /\ recovery' \in {recovery, NoDispatch}
             /\ cancelling' = (cancelling \/ recovery = d)
             /\ Call(a, At(a, "settled"), Frame("move")) \/ ReturnWith(a, result)
    <3>1. CASE Call(a, At(a, "settled"), Frame("move"))
      BY <1>1, <1>2, <1>3, <1>5, <2>3, <3>1, CallTrace
    <3>2. CASE ReturnWith(a, result)
      BY <1>1, <1>2, <1>3, <2>3, <3>2, ReturnTrace
    <3>. QED
      BY <2>3, <3>1, <3>2
  <2>4. CASE /\ publication' = done
             /\ \E res \in Results : ReturnWith(a, res)
             /\ UNCHANGED <<reg, pending, recovery, cancelling>>
    <3>1. Trace(a, P)
      BY <1>1, <1>2, <2>4, ReturnTrace
    <3>. QED
      BY <1>2, <1>3, <2>4, <3>1
  <2>. QED
    BY <1>6, <2>1, <2>2, <2>3, <2>4
<1>8. Stacks'
  BY <1>7, TraceStacks DEF TypeInv
<1>9. TypeOK'
  BY <1>6, <1>7, <1>8 DEF TypeInv, TypeOK, Stacks, queueVars, taskVars, hostVars, stopVars
<1>. QED
  BY <1>7, <1>8, <1>9 DEF TypeInv

LEMMA UncancelPublishType ==
  ASSUME TypeInv, NEW a \in Actors, UncancelPublish(a)
  PROVE  Trace(a, {"uncancelPublish", "settled"}) /\ TypeInv'
<1>1. stack[a] # <<>> /\ Top(a).pc \in {"uncancelPublish", "settled"} /\ Top(a) \in PublishFrames
  BY InTop, FrameKinds DEF UncancelPublish, PublishPcs
<1>2. Top(a).failure \in Failures /\ Top(a).result \in Results /\ reg \in Registry
  BY <1>1 DEF PublishFrames, TypeInv, TypeOK
<1>3. reg' \in Registry
  BY <1>2, FailureTypes DEF UncancelPublish, Failures
<1>4. ReturnWith(a, Top(a).result)
  BY DEF UncancelPublish
<1>7. Trace(a, {"uncancelPublish", "settled"})
  BY <1>1, <1>2, <1>4, ReturnTrace DEF TypeInv
<1>8. Stacks'
  BY <1>7, TraceStacks DEF TypeInv
<1>9. TypeOK'
  BY <1>3, <1>8 DEF UncancelPublish, TypeInv, TypeOK, Stacks, queueVars, taskVars, dispatchVars, hostVars, stopVars
<1>. QED
  BY <1>7, <1>8, <1>9 DEF TypeInv

-----------------------------------------------------------------------------
(* Cancelling work.                                                        *)

LEMMA WokenTasks ==
  ASSUME TypeInv, NEW t \in Tasks
  PROVE  {u \in AwaitedBy[t] \ {t} : task[u] = "waiting"} \in SUBSET Tasks
  BY TasksAssumption

LEMMA DropType ==
  ASSUME TypeInv, NEW a \in Actors, Drop(a)
  PROVE  Trace(a, {"drop", "push"}) /\ TypeInv'
<1>1. stack[a] # <<>> /\ Top(a).pc = "drop" /\ Top(a) \in DropFrames
  BY InTop, FrameKinds DEF Drop
<1>2. Top(a).tasks \in SUBSET Tasks
  BY <1>1 DEF DropFrames
<1>3. CASE Top(a).tasks = {}
  <2>1. Return(a) /\ UNCHANGED task
    BY <1>3 DEF Drop
  <2>7. Trace(a, {"drop", "push"})
    BY <1>1, <2>1, ReturnTrace DEF TypeInv
  <2>8. Stacks'
    BY <2>7, TraceStacks DEF TypeInv
  <2>9. TypeOK'
    BY <2>1, <2>8 DEF Drop, TypeInv, TypeOK, Stacks, queueVars, taskVars, dispatchVars, hostVars, stopVars
  <2>. QED
    BY <2>7, <2>8, <2>9 DEF TypeInv
<1>4. CASE Top(a).tasks # {}
  <2>1. PICK t \in Top(a).tasks :
          /\ task' = EndOf(t)
          /\ stack' = [stack EXCEPT ![a] =
               Become(a, DropFrame(Top(a).tasks \ {t})) \o WakerFrames(WokenBy(t))]
    BY <1>4 DEF Drop
  <2>. DEFINE f == DropFrame(Top(a).tasks \ {t})
              gs == WakerFrames(WokenBy(t))
  <2>2. f \in Frames /\ f.pc = "drop"
    <3>1. Top(a).tasks \ {t} \in SUBSET Tasks
      BY <1>2
    <3>. QED
      BY <3>1, MadeFrames
  <2>3. gs \in Seq(Frames) /\ \A k \in 1 .. Len(gs) : gs[k].pc = "push"
    BY <1>2, WokenTasks, WakersShape DEF WokenBy
  <2>. HIDE DEF f, gs
  <2>4. Moves(a, <<f>> \o gs)
    BY <1>1, <2>1, <2>2, <2>3, SpawnMoves DEF TypeInv, f, gs
  <2>7. Trace(a, {"drop", "push"})
    BY <1>1, <2>2, <2>3, <2>4, TraceMany
  <2>8. Stacks'
    BY <2>7, TraceStacks DEF TypeInv
  <2>9. TypeOK'
    BY <1>2, <2>1, <2>8, EndOfType DEF Drop, TypeInv, TypeOK, Stacks, queueVars, dispatchVars, hostVars, stopVars
  <2>. QED
    BY <2>7, <2>8, <2>9 DEF TypeInv
<1>. QED
  BY <1>3, <1>4

LEMMA RetireStepType ==
  ASSUME TypeInv, NEW a \in Actors, Retire(a)
  PROVE  Trace(a, {"retire", "drop"}) /\ TypeInv'
<1>1. stack[a] # <<>> /\ Top(a).pc = "retire" /\ RetireRejected(a)
  BY InTop DEF Retire
<1>7. Trace(a, {"retire", "drop"}) /\ rejected' \subseteq rejected
  BY <1>1, RetireTrace
<1>8. Stacks'
  BY <1>7, TraceStacks DEF TypeInv
<1>9. TypeOK'
  BY <1>7, <1>8 DEF Retire, TypeInv, TypeOK, Stacks, taskVars, dispatchVars, hostVars, stopVars
<1>. QED
  BY <1>7, <1>8, <1>9 DEF TypeInv

LEMMA MoveType ==
  ASSUME TypeInv, NEW a \in Actors, Move(a)
  PROVE  Trace(a, {"move", "attempt", "purge"}) /\ TypeInv'
<1>. DEFINE f == [pc |-> "attempt", n |-> 0, res |-> "none"]
<1>1. stack[a] # <<>> /\ Top(a).pc = "move"
  BY InTop DEF Move
<1>2. f \in Frames /\ f.pc = "attempt" /\ Frame("purge") \in Frames /\ Frame("purge").pc = "purge"
  BY MadeFrames DEF Results, PlainPcs
<1>3. Goto(a, f) \/ Goto(a, Frame("purge"))
  BY DEF Move
<1>. HIDE DEF f
<1>4. rejected' \subseteq Tasks /\ queue' \in Seq(Tasks) /\ cancelling' \in BOOLEAN
  <2>1. rejected' = rejected \cup ToSet(queue) /\ queue' = <<>> /\ cancelling' \in {cancelling, FALSE}
    BY DEF Move
  <2>2. /\ rejected \in SUBSET Tasks /\ ToSet(queue) \in SUBSET Tasks
        /\ cancelling \in BOOLEAN /\ <<>> \in Seq(Tasks)
    BY QueueTypes DEF TypeInv, TypeOK
  <2>. HIDE DEF f
  <2>3. queue' \in Seq(Tasks) /\ rejected' \subseteq Tasks
    BY <2>1, <2>2
  <2>4. cancelling' \in BOOLEAN
    BY <2>1, <2>2
  <2>. QED
    BY <2>3, <2>4
<1>7. Trace(a, {"move", "attempt", "purge"})
  BY <1>1, <1>2, <1>3, GotoTrace DEF TypeInv
<1>8. Stacks'
  BY <1>7, TraceStacks DEF TypeInv
<1>9. TypeOK'
  BY <1>4, <1>8 DEF Move, TypeInv, TypeOK, Stacks, taskVars, dispatchVars, hostVars, stopVars
<1>. QED
  BY <1>7, <1>8, <1>9 DEF TypeInv

LEMMA PurgeType ==
  ASSUME TypeInv, NEW a \in Actors, Purge(a)
  PROVE  Trace(a, {"purge", "drop"}) /\ TypeInv'
<1>1. stack[a] # <<>> /\ Top(a).pc = "purge" /\ Top(a) \in Frames
  BY InTop DEF Purge
<1>2. DropFrame(rejected) \in Frames /\ DropFrame(rejected).pc = "drop"
  BY MadeFrames, QueueTypes
<1>3. Return(a) \/ Call(a, Top(a), DropFrame(rejected))
  BY DEF Purge
<1>4. rejected' \subseteq Tasks /\ cancelling' \in BOOLEAN
  BY DEF Purge, TypeInv, TypeOK
<1>7. Trace(a, {"purge", "drop"})
  BY <1>1, <1>2, <1>3, CallTrace, ReturnTrace DEF TypeInv
<1>8. Stacks'
  BY <1>7, TraceStacks DEF TypeInv
<1>9. TypeOK'
  BY <1>4, <1>8 DEF Purge, TypeInv, TypeOK, Stacks, taskVars, dispatchVars, hostVars, stopVars
<1>. QED
  BY <1>7, <1>8, <1>9 DEF TypeInv

(* The three things an attempt does.                                       *)
LEMMA AttemptMoves ==
  ASSUME TypeInv, NEW a \in Actors, Attempt(a)
  PROVE  /\ stack[a] # <<>> /\ Top(a).pc = "attempt" /\ Top(a) \in AttemptFrames
         /\ \/ Return(a) /\ UNCHANGED <<pending, recovery, cancelling, publication>>
            \/ /\ pending = NoDispatch /\ rejected # {} /\ UNCHANGED <<recovery, cancelling>>
               /\ \E f \in Frames : f.pc = "attempt" /\ RequestDrain(a, f)
            \/ /\ rejected # {} /\ ~ cancelling /\ cancelling' = TRUE /\ recovery' = NoDispatch
               /\ \E d \in Dispatches, f \in Frames :
                    /\ publication[d] = "none" /\ pending' = d /\ f.pc = "reopen"
                    /\ publication' = [publication EXCEPT ![d] = "armed"]
                    /\ PublishFrame(d) \in Frames /\ PublishFrame(d).pc = "enter"
                    /\ Moves(a, <<f, PublishFrame(d)>>)
<1>1. stack[a] # <<>> /\ Top(a).pc = "attempt" /\ Top(a) \in AttemptFrames
  BY InTop, FrameKinds DEF Attempt
<1>. DEFINE stays == Nested(a) \/ ~ NeedsRetirementDispatch \/ Top(a).res = "unavailable"
<1>2. CASE stays
  BY <1>1, <1>2 DEF Attempt
<1>3. CASE ~ stays /\ Top(a).n < Attempts
  <2>. DEFINE f == [Top(a) EXCEPT !.n = @ + 1, !.res = "none"]
  <2>1. RequestDrain(a, f) /\ UNCHANGED <<recovery, cancelling>>
    BY <1>3 DEF Attempt
  <2>2. pending = NoDispatch /\ rejected # {}
    BY <1>3 DEF NeedsRetirementDispatch
  <2>3. f \in AttemptFrames /\ f.pc = "attempt"
    <3>. DEFINE f0 == Top(a)
    <3>1. f0 \in AttemptFrames
      BY <1>1
    <3>2. f = [f0 EXCEPT !.n = @ + 1, !.res = "none"]
      OBVIOUS
    <3>3. f0.n \in Nat /\ f0.pc = "attempt" /\ f0.res \in Results /\ f0.n + 1 \in Nat
      BY <3>1 DEF AttemptFrames
    <3>. HIDE DEF f, f0
    <3>4. f.pc = "attempt" /\ f.n = f0.n + 1 /\ f.res = "none"
         /\ f = [pc |-> "attempt", n |-> f0.n + 1, res |-> "none"]
      BY <3>1, <3>2 DEF AttemptFrames
    <3>. QED
      BY <3>3, <3>4 DEF AttemptFrames, Results
  <2>4. f \in Frames
    BY <2>3, FrameUnion
  <2>. HIDE DEF f
  <2>. QED
    BY <1>1, <2>1, <2>2, <2>3, <2>4
<1>4. CASE ~ stays /\ ~ (Top(a).n < Attempts) /\ cancelling
  BY <1>1, <1>4 DEF Attempt
<1>5. CASE ~ stays /\ ~ (Top(a).n < Attempts) /\ ~ cancelling
  <2>. DEFINE f == [pc |-> "reopen", res |-> "none"]
  <2>1. /\ UnusedDispatches # {} /\ cancelling' = TRUE /\ recovery' = NoDispatch
        /\ pending' = NextDispatch
        /\ publication' = [publication EXCEPT ![NextDispatch] = "armed"]
        /\ Call(a, f, PublishFrame(NextDispatch))
    BY <1>5 DEF Attempt
  <2>2. NextDispatch \in Dispatches /\ publication[NextDispatch] = "none"
    BY <2>1, FreshDispatchId
  <2>3. /\ PublishFrame(NextDispatch) \in Frames /\ PublishFrame(NextDispatch).pc = "enter"
        /\ f \in Frames /\ f.pc = "reopen"
    BY <2>2, MadeFrames DEF Results
  <2>4. Moves(a, <<f, PublishFrame(NextDispatch)>>)
    <3>. HIDE DEF f
    <3>. QED
      BY <1>1, <2>1, <2>3, CallMoves DEF TypeInv
  <2>5. rejected # {}
    BY <1>5 DEF NeedsRetirementDispatch
  <2>. HIDE DEF f
  <2>. QED
    BY <1>1, <1>5, <2>1, <2>2, <2>3, <2>4, <2>5
<1>. QED
  BY <1>2, <1>3, <1>4, <1>5

LEMMA AttemptType ==
  ASSUME TypeInv, NEW a \in Actors, Attempt(a)
  PROVE  Trace(a, {"attempt", "enter", "reopen"}) /\ TypeInv'
<1>. DEFINE P == {"attempt", "enter", "reopen"}
<1>0. stack[a] # <<>> /\ Top(a).pc = "attempt" /\ Stacks
  BY AttemptMoves DEF TypeInv
<1>7. /\ Trace(a, P)
      /\ publication' \in [Dispatches -> {"none", "armed", "again"}] /\ cancelling' \in BOOLEAN
      /\ pending' \in Dispatches \cup {NoDispatch} /\ recovery' \in Dispatches \cup {NoDispatch}
  <2>1. CASE Return(a) /\ UNCHANGED <<pending, recovery, cancelling, publication>>
    <3>1. Trace(a, P)
      BY <1>0, <2>1, ReturnTrace
    <3>. QED
      BY <2>1, <3>1 DEF TypeInv, TypeOK
  <2>2. CASE /\ UNCHANGED <<recovery, cancelling>>
             /\ \E f \in Frames : f.pc = "attempt" /\ RequestDrain(a, f)
    <3>1. PICK f \in Frames : f.pc = "attempt" /\ RequestDrain(a, f)
      BY <2>2
    <3>2. Trace(a, P)
      BY <1>0, <3>1, RequestTrace
    <3>3. /\ pending' \in Dispatches \cup {NoDispatch}
          /\ publication' \in [Dispatches -> {"none", "armed", "again"}]
      BY <1>0, <3>1, RequestTypes
    <3>. QED
      BY <2>2, <3>2, <3>3 DEF TypeInv, TypeOK
  <2>3. CASE /\ cancelling' = TRUE /\ recovery' = NoDispatch
             /\ \E d \in Dispatches, f \in Frames :
                    /\ publication[d] = "none" /\ pending' = d /\ f.pc = "reopen"
                    /\ publication' = [publication EXCEPT ![d] = "armed"]
                    /\ PublishFrame(d) \in Frames /\ PublishFrame(d).pc = "enter"
                    /\ Moves(a, <<f, PublishFrame(d)>>)
    <3>1. PICK d \in Dispatches, f \in Frames :
                    /\ pending' = d /\ f.pc = "reopen"
                    /\ publication' = [publication EXCEPT ![d] = "armed"]
                    /\ PublishFrame(d) \in Frames /\ PublishFrame(d).pc = "enter"
                    /\ Moves(a, <<f, PublishFrame(d)>>)
      BY <2>3
    <3>2. Trace(a, P)
      BY <1>0, <3>1, TraceTwo
    <3>. QED
      BY <2>3, <3>1, <3>2, PublicationArmed
  <2>. QED
    BY <2>1, <2>2, <2>3, AttemptMoves
<1>8. Stacks'
  BY <1>7, TraceStacks DEF TypeInv
<1>9. TypeOK'
  BY <1>7, <1>8 DEF Attempt, TypeInv, TypeOK, Stacks, queueVars, taskVars, hostVars, stopVars
<1>. QED
  BY <1>7, <1>8, <1>9 DEF TypeInv

LEMMA ReopenType ==
  ASSUME TypeInv, NEW a \in Actors, Reopen(a)
  PROVE  Trace(a, {"reopen", "last"}) /\ TypeInv'
<1>1. stack[a] # <<>> /\ Top(a).pc = "reopen" /\ Top(a) \in ResFrames
  BY InTop, FrameKinds DEF Reopen
<1>2. At(a, "last") \in Frames /\ At(a, "last").pc = "last"
  <2>1. At(a, "last") \in ResFrames /\ At(a, "last").pc = "last"
    BY <1>1 DEF At, ResFrames
  <2>. QED
    BY <2>1, FrameUnion
<1>3. Goto(a, At(a, "last")) \/ Return(a)
  BY DEF Reopen
<1>7. Trace(a, {"reopen", "last"})
  BY <1>1, <1>2, <1>3, GotoTrace, ReturnTrace DEF TypeInv
<1>8. Stacks'
  BY <1>7, TraceStacks DEF TypeInv
<1>9. TypeOK'
  BY <1>8 DEF Reopen, TypeInv, TypeOK, Stacks, queueVars, taskVars, hostVars, stopVars
<1>. QED
  BY <1>7, <1>8, <1>9 DEF TypeInv

LEMMA LastOfferType ==
  ASSUME TypeInv, NEW a \in Actors, LastOffer(a)
  PROVE  Trace(a, {"last", "return", "enter"}) /\ TypeInv'
<1>. DEFINE f == [At(a, "return") EXCEPT !.res = "none"]
<1>1. stack[a] # <<>> /\ Top(a).pc = "last" /\ Top(a) \in ResFrames
  BY InTop, FrameKinds DEF LastOffer
<1>2. f \in Frames /\ f.pc = "return"
  <2>1. At(a, "return") \in ResFrames /\ At(a, "return").pc = "return"
    BY <1>1 DEF At, ResFrames
  <2>2. f \in ResFrames /\ f.pc = "return"
    BY <2>1 DEF ResFrames, Results
  <2>. QED
    BY <2>2, FrameUnion
<1>3. \/ Return(a) /\ UNCHANGED <<pending, publication>>
      \/ RequestDrain(a, f)
  BY DEF LastOffer
<1>. HIDE DEF f
<1>4. Trace(a, {"last", "return", "enter"})
  BY <1>1, <1>2, <1>3, ReturnTrace, RequestTrace DEF TypeInv
<1>5. /\ pending' \in Dispatches \cup {NoDispatch}
      /\ publication' \in [Dispatches -> {"none", "armed", "again"}]
  BY <1>1, <1>2, <1>3, RequestTypes DEF TypeInv, TypeOK
<1>8. Stacks'
  BY <1>4, TraceStacks DEF TypeInv
<1>9. TypeOK'
  BY <1>5, <1>8 DEF LastOffer, TypeInv, TypeOK, Stacks, queueVars, taskVars, hostVars, stopVars
<1>. QED
  BY <1>4, <1>8, <1>9 DEF TypeInv

-----------------------------------------------------------------------------
(* Completing deliveries.                                                  *)

LEMMA CompleteType ==
  ASSUME TypeInv, NEW a \in Actors, Complete(a)
  PROVE  Trace(a, {"complete", "cancel", "rdq", "retire", "drop"}) /\ TypeInv'
<1>. DEFINE P == {"complete", "cancel", "rdq", "retire", "drop"}
            f == Top(a)
<1>1. stack[a] # <<>> /\ f.pc = "complete" /\ f \in CompleteFrames
  BY InTop, FrameKinds DEF Complete
<1>2. \/ Return(a) /\ UNCHANGED rejected
      \/ /\ \E x \in f.failures :
              Call(a, [f EXCEPT !.failures = @ \ {x}], [pc |-> "cancel", failure |-> x])
         /\ UNCHANGED rejected
      \/ /\ Call(a, [f EXCEPT !.redispatch = FALSE], Frame("rdq"))
         /\ UNCHANGED rejected
      \/ RetireRejected(a)
  BY DEF Complete
<1>. HIDE DEF f
<1>3. ASSUME NEW x \in f.failures
      PROVE  /\ [f EXCEPT !.failures = @ \ {x}] \in Frames /\ [f EXCEPT !.failures = @ \ {x}].pc = "complete"
             /\ [pc |-> "cancel", failure |-> x] \in Frames
  <2>1. [f EXCEPT !.failures = @ \ {x}] \in CompleteFrames /\ [f EXCEPT !.failures = @ \ {x}].pc = "complete"
    BY <1>1 DEF CompleteFrames
  <2>2. x \in Failures
    BY <1>1 DEF CompleteFrames
  <2>. QED
    BY <2>1, <2>2, FrameUnion, MadeFrames
<1>4. /\ [f EXCEPT !.redispatch = FALSE] \in Frames /\ [f EXCEPT !.redispatch = FALSE].pc = "complete"
      /\ Frame("rdq") \in Frames /\ Frame("rdq").pc = "rdq"
  <2>1. [f EXCEPT !.redispatch = FALSE] \in CompleteFrames /\ [f EXCEPT !.redispatch = FALSE].pc = "complete"
    BY <1>1 DEF CompleteFrames
  <2>2. "rdq" \in PlainPcs
    BY DEF PlainPcs
  <2>. QED
    BY <2>1, <2>2, FrameUnion, MadeFrames
<1>5. Top(a).pc \in P /\ stack[a] # <<>> /\ Stacks
  BY <1>1 DEF f, TypeInv
<1>7. Trace(a, P) /\ rejected' \subseteq rejected
  <2>1. CASE Return(a) /\ UNCHANGED rejected
    BY <1>5, <2>1, ReturnTrace
  <2>2. ASSUME NEW x \in f.failures,
               Call(a, [f EXCEPT !.failures = @ \ {x}], [pc |-> "cancel", failure |-> x]),
               UNCHANGED rejected
        PROVE  Trace(a, P) /\ rejected' \subseteq rejected
    <3>. DEFINE k == [f EXCEPT !.failures = @ \ {x}]
                c == [pc |-> "cancel", failure |-> x]
    <3>1. k \in Frames /\ k.pc \in P /\ c \in Frames /\ c.pc \in P
      BY <1>3
    <3>. HIDE DEF k, c, P
    <3>2. Trace(a, P)
      BY <1>5, <2>2, <3>1, CallTrace DEF k, c
    <3>. QED
      BY <2>2, <3>2
  <2>3. CASE Call(a, [f EXCEPT !.redispatch = FALSE], Frame("rdq")) /\ UNCHANGED rejected
    <3>. DEFINE k == [f EXCEPT !.redispatch = FALSE]
    <3>1. k \in Frames /\ k.pc \in P /\ Frame("rdq") \in Frames /\ Frame("rdq").pc \in P
      BY <1>4
    <3>. HIDE DEF k, P
    <3>2. Trace(a, P)
      BY <1>5, <2>3, <3>1, CallTrace DEF k
    <3>. QED
      BY <2>3, <3>2
  <2>4. CASE RetireRejected(a)
    BY <1>5, <2>4, RetireTrace
  <2>. QED
    BY <1>2, <2>1, <2>2, <2>3, <2>4
<1>8. Stacks'
  BY <1>7, TraceStacks DEF TypeInv
<1>9. TypeOK'
  BY <1>7, <1>8 DEF Complete, TypeInv, TypeOK, Stacks, taskVars, dispatchVars, hostVars, stopVars
<1>. QED
  BY <1>7, <1>8, <1>9 DEF TypeInv

LEMMA CancelDispatchType ==
  ASSUME TypeInv, NEW a \in Actors, CancelDispatch(a)
  PROVE  Trace(a, {"cancel", "uncancel", "move", "enter", "retire"}) /\ TypeInv'
<1>. DEFINE P == {"cancel", "uncancel", "move", "enter", "retire"}
            next == At(a, "uncancel")
<1>1. stack[a] # <<>> /\ Top(a).pc = "cancel" /\ Top(a) \in CancelFrames /\ Stacks
  BY InTop, FrameKinds DEF CancelDispatch, TypeInv
<1>2. /\ next \in Frames /\ next.pc \in P
      /\ Frame("retire") \in Frames /\ Frame("retire").pc \in P
  <2>1. next \in CancelFrames /\ next.pc = "uncancel"
    BY <1>1 DEF At, CancelFrames
  <2>2. "retire" \in PlainPcs
    BY DEF PlainPcs
  <2>. QED
    BY <2>1, <2>2, FrameUnion, MadeFrames
<1>3. \/ FailureAction(a, Top(a).failure.dispatch, publication, next)
      \/ /\ Goto(a, Frame("retire"))
         /\ UNCHANGED <<pending, recovery, cancelling, publication>>
  BY DEF CancelDispatch
<1>4. /\ Top(a).pc \in P /\ "move" \in P /\ "enter" \in P
      /\ publication \in [Dispatches -> {"none", "armed", "again"}]
  BY <1>1 DEF TypeInv, TypeOK
<1>. HIDE DEF next, P
<1>7. /\ Trace(a, P)
      /\ publication' \in [Dispatches -> {"none", "armed", "again"}]
      /\ cancelling' \in BOOLEAN
      /\ pending' \in Dispatches \cup {NoDispatch} /\ recovery' \in Dispatches \cup {NoDispatch}
  <2>1. CASE FailureAction(a, Top(a).failure.dispatch, publication, next)
    BY <1>1, <1>2, <1>4, <2>1, FailureTrace
  <2>2. CASE Goto(a, Frame("retire")) /\ UNCHANGED <<pending, recovery, cancelling, publication>>
    <3>1. Trace(a, P)
      BY <1>1, <1>2, <1>4, <2>2, GotoTrace
    <3>. QED
      BY <2>2, <3>1 DEF TypeInv, TypeOK
  <2>. QED
    BY <1>3, <2>1, <2>2
<1>8. Stacks'
  BY <1>1, <1>7, TraceStacks
<1>9. TypeOK'
  BY <1>7, <1>8 DEF CancelDispatch, TypeInv, TypeOK, Stacks, queueVars, taskVars, hostVars, stopVars
<1>. QED
  BY <1>7, <1>8, <1>9 DEF TypeInv, P

LEMMA UncancelType ==
  ASSUME TypeInv, NEW a \in Actors, Uncancel(a)
  PROVE  Trace(a, {"uncancel", "retire"}) /\ TypeInv'
<1>1. stack[a] # <<>> /\ Top(a).pc = "uncancel" /\ Top(a) \in CancelFrames
  BY InTop, FrameKinds DEF Uncancel
<1>2. Frame("retire") \in Frames /\ Frame("retire").pc = "retire" /\ Goto(a, Frame("retire"))
  BY MadeFrames DEF PlainPcs, Uncancel
<1>3. reg' \in Registry
  <2>1. Top(a).failure \in Failures /\ reg \in Registry
    BY <1>1 DEF CancelFrames, TypeInv, TypeOK
  <2>. QED
    BY <2>1, FailureTypes DEF Uncancel, Failures
<1>7. Trace(a, {"uncancel", "retire"})
  BY <1>1, <1>2, GotoTrace DEF TypeInv
<1>8. Stacks'
  BY <1>7, TraceStacks DEF TypeInv
<1>9. TypeOK'
  BY <1>3, <1>8 DEF Uncancel, TypeInv, TypeOK, Stacks, queueVars, taskVars, dispatchVars, hostVars, stopVars
<1>. QED
  BY <1>7, <1>8, <1>9 DEF TypeInv

LEMMA RequestQueuedType ==
  ASSUME TypeInv, NEW a \in Actors, RequestQueued(a)
  PROVE  Trace(a, {"rdq", "drop", "rdqJoin"}) /\ TypeInv'
<1>1. stack[a] # <<>> /\ Top(a).pc = "rdq" /\ Top(a) \in Frames
  BY InTop DEF RequestQueued
<1>2. /\ Frame("rdqJoin") \in Frames /\ Frame("rdqJoin").pc = "rdqJoin"
      /\ DropFrame(rejected) \in Frames /\ DropFrame(rejected).pc = "drop"
  BY MadeFrames, QueueTypes DEF PlainPcs
<1>3. \/ Return(a) \/ Goto(a, Frame("rdqJoin"))
      \/ Call(a, Top(a), DropFrame(rejected))
  BY DEF RequestQueued
<1>4. rejected' \subseteq Tasks
  BY DEF RequestQueued, TypeInv, TypeOK
<1>7. Trace(a, {"rdq", "drop", "rdqJoin"})
  BY <1>1, <1>2, <1>3, GotoTrace, CallTrace, ReturnTrace DEF TypeInv
<1>8. Stacks'
  BY <1>7, TraceStacks DEF TypeInv
<1>9. TypeOK'
  BY <1>4, <1>8 DEF RequestQueued, TypeInv, TypeOK, Stacks, taskVars, dispatchVars, hostVars, stopVars
<1>. QED
  BY <1>7, <1>8, <1>9 DEF TypeInv

LEMMA JoinDispatchMoves ==
  ASSUME TypeInv, NEW a \in Actors, JoinDispatch(a)
  PROVE  /\ stack[a] # <<>> /\ Top(a).pc = "rdqJoin" /\ Frame("return") \in Frames
         /\ \/ Return(a) /\ UNCHANGED <<pending, publication>>
            \/ RequestDrain(a, Frame("return")) /\ pending = NoDispatch
            \/ /\ \E d \in Dispatches : /\ publication[d] # "none"
                                        /\ publication' = [publication EXCEPT ![d] = "again"]
               /\ Return(a) /\ UNCHANGED pending
            \/ /\ ~ stopping /\ ~ cancelling /\ UNCHANGED pending
               /\ \E d \in Dispatches : /\ publication[d] = "none"
                                        /\ publication' = [publication EXCEPT ![d] = "armed"]
                                        /\ PublishFrame(d) \in Frames /\ PublishFrame(d).pc = "enter"
                                        /\ Call(a, Frame("return"), PublishFrame(d))
<1>1. stack[a] # <<>> /\ Top(a).pc = "rdqJoin" /\ Frame("return") \in Frames
  BY InTop, MadeFrames DEF JoinDispatch, PlainPcs
<1>2. pending \in Dispatches \cup {NoDispatch}
  BY DEF TypeInv, TypeOK
<1>3. CASE stopping \/ cancelling \/ draining \/ (pending = NoDispatch /\ ~ HasServiceableWork)
  BY <1>1, <1>3 DEF JoinDispatch
<1>4. CASE ~ (stopping \/ cancelling \/ draining \/ (pending = NoDispatch /\ ~ HasServiceableWork))
           /\ pending = NoDispatch
  BY <1>1, <1>4 DEF JoinDispatch
<1>5. CASE ~ (stopping \/ cancelling \/ draining) /\ pending # NoDispatch
  <2>1. /\ pending \in Dispatches
        /\ PublishFrame(pending) \in Frames /\ PublishFrame(pending).pc = "enter"
    BY <1>2, <1>5, MadeFrames
  <2>2. UNCHANGED pending
    BY <1>5 DEF JoinDispatch
  <2>3. CASE publication[pending] # "none"
    <3>1. publication' = [publication EXCEPT ![pending] = "again"] /\ Return(a)
      BY <1>5, <2>3 DEF JoinDispatch
    <3>. QED
      BY <1>1, <2>1, <2>2, <2>3, <3>1
  <2>4. CASE publication[pending] = "none"
    <3>1. /\ publication' = [publication EXCEPT ![pending] = "armed"]
          /\ Call(a, Frame("return"), PublishFrame(pending))
      BY <1>5, <2>4 DEF JoinDispatch
    <3>. QED
      BY <1>1, <1>5, <2>1, <2>2, <2>4, <3>1
  <2>. QED
    BY <2>3, <2>4
<1>. QED
  BY <1>3, <1>4, <1>5

LEMMA JoinDispatchType ==
  ASSUME TypeInv, NEW a \in Actors, JoinDispatch(a)
  PROVE  Trace(a, {"rdqJoin", "return", "enter"}) /\ TypeInv'
<1>. DEFINE P == {"rdqJoin", "return", "enter"}
<1>0. /\ stack[a] # <<>> /\ Top(a).pc \in P /\ Stacks /\ "enter" \in P
      /\ Frame("return") \in Frames /\ Frame("return").pc \in P
  BY JoinDispatchMoves DEF TypeInv, Frame
<1>7. /\ Trace(a, P) /\ pending' \in Dispatches \cup {NoDispatch}
      /\ publication' \in [Dispatches -> {"none", "armed", "again"}]
  <2>. HIDE DEF P
  <2>0. pending \in Dispatches \cup {NoDispatch}
        /\ publication \in [Dispatches -> {"none", "armed", "again"}]
    BY DEF TypeInv, TypeOK
  <2>1. CASE Return(a) /\ UNCHANGED <<pending, publication>>
    <3>1. Trace(a, P)
      BY <1>0, <2>1, ReturnTrace
    <3>. QED
      BY <2>0, <2>1, <3>1
  <2>2. CASE RequestDrain(a, Frame("return"))
    <3>1. Trace(a, P)
      BY <1>0, <2>2, RequestTrace
    <3>2. /\ pending' \in Dispatches \cup {NoDispatch}
          /\ publication' \in [Dispatches -> {"none", "armed", "again"}]
      BY <1>0, <2>2, RequestTypes
    <3>. QED
      BY <3>1, <3>2
  <2>3. CASE /\ \E d \in Dispatches : publication' = [publication EXCEPT ![d] = "again"]
             /\ Return(a) /\ UNCHANGED pending
    <3>1. Trace(a, P)
      BY <1>0, <2>3, ReturnTrace
    <3>. QED
      BY <2>0, <2>3, <3>1, PublicationArmed
  <2>4. CASE /\ UNCHANGED pending
             /\ \E d \in Dispatches : /\ publication' = [publication EXCEPT ![d] = "armed"]
                                      /\ PublishFrame(d) \in Frames /\ PublishFrame(d).pc = "enter"
                                      /\ Call(a, Frame("return"), PublishFrame(d))
    <3>1. Trace(a, P)
      BY <1>0, <2>4, CallTrace
    <3>. QED
      BY <2>0, <2>4, <3>1, PublicationArmed
  <2>. QED
    BY <2>1, <2>2, <2>3, <2>4, JoinDispatchMoves
<1>8. Stacks'
  BY <1>0, <1>7, TraceStacks
<1>9. TypeOK'
  BY <1>7, <1>8 DEF JoinDispatch, TypeInv, TypeOK, Stacks, queueVars, taskVars, hostVars, stopVars
<1>. QED
  BY <1>7, <1>8, <1>9 DEF TypeInv

-----------------------------------------------------------------------------
(* The calls that are never made from inside another one.                  *)

BottomPcs == {"abort", "evict", "admit", "mark", "fail", "turn", "release", "again", "ack"}

(* They are at the bottom of their stack.                                  *)
AtBottom == \A x \in Spots(stack, Kind(BottomPcs)) : x[2] = 1

(* A host that is not registered yet runs nothing and owes nothing, and    *)
(* the stop has not begun as long as the runtime runs.                     *)
Idle == /\ \A h \in Hosts : host[h] = "absent" => stack[h] = <<>> /\ mail[h] = NoDispatch
        /\ Running => stack[Stopper] = <<>>
        /\ Running <=> ~ stopping

ShapeInv == AtBottom /\ Idle

LEMMA OnlyFrame ==
  ASSUME TypeInv, ShapeInv, NEW a \in Actors, stack[a] # <<>>, Top(a).pc \in BottomPcs
  PROVE  Len(stack[a]) = 1
<1>1. Top(a) \in Frames /\ Len(stack[a]) \in Nat
  BY TopShape DEF TypeInv
<1>2. <<a, Len(stack[a])>> \in Spots(stack, Kind(BottomPcs))
  BY <1>1, SpotOfTop DEF Kind, Top1, TypeInv
<1>. QED
  BY <1>2 DEF ShapeInv, AtBottom

LEMMA RegisterHostType ==
  ASSUME TypeInv, ShapeInv, NEW h \in Hosts, RegisterHost(h)
  PROVE  Trace(h, {"rdq"}) /\ TypeInv'
<1>. h \in Actors
  BY ActorKinds
<1>1. /\ stack[h] = <<>> /\ stack' = [stack EXCEPT ![h] = <<Frame("rdq")>>]
      /\ Frame("rdq") \in Frames /\ Frame("rdq").pc = "rdq"
  BY MadeFrames DEF RegisterHost, PlainPcs, ShapeInv, Idle
<1>2. Moves(h, <<Frame("rdq")>>)
  BY <1>1, OpenOne DEF TypeInv
<1>3. Trace(h, {"rdq"})
  BY <1>1, <1>2, TraceOne
<1>4. Stacks'
  BY <1>3, TraceStacks DEF TypeInv
<1>5. reg' \in Registry
  BY RegisterType DEF RegisterHost, TypeInv, TypeOK
<1>6. TypeOK'
  BY <1>4, <1>5 DEF RegisterHost, TypeInv, TypeOK, Stacks, queueVars, taskVars, dispatchVars, stopVars
<1>. QED
  BY <1>3, <1>4, <1>6 DEF TypeInv

LEMMA CallbackType ==
  ASSUME TypeInv, NEW h \in Hosts, Callback(h)
  PROVE  (Trace(h, {"admit", "fail"}) \/ UNCHANGED stack) /\ TypeInv'
<1>. DEFINE d == mail[h]
            claims == host[h] = "live" /\ CanClaim(reg, h, d)
            f == [pc |-> IF claims THEN "admit" ELSE "fail", dispatch |-> d]
<1>. h \in Actors
  BY ActorKinds
<1>1. d \in Dispatches /\ stack[h] = <<>> /\ reg \in Registry
  BY DEF Callback, TypeInv, TypeOK
<1>2. f \in Frames /\ f.pc \in {"admit", "fail"}
  BY <1>1, MadeFrames
<1>3. reg' \in Registry /\ (stack' = [stack EXCEPT ![h] = <<f>>] \/ UNCHANGED stack)
  <2>1. claims => ClaimDelivery(reg, h, d) \in Registry
    BY <1>1, AnswerTypes DEF CanClaim
  <2>2. reg' \in {reg, ClaimDelivery(reg, h, d)} /\ (reg' # reg => claims)
        /\ (stack' = [stack EXCEPT ![h] = <<f>>] \/ UNCHANGED stack)
    BY DEF Callback
  <2>. HIDE DEF claims, d, f
  <2>. QED
    BY <1>1, <2>1, <2>2
<1>. HIDE DEF f, claims, d
<1>4. mail' \in [Hosts -> Dispatches \cup {NoDispatch}]
  BY DEF Callback, TypeInv, TypeOK
<1>5. Trace(h, {"admit", "fail"}) \/ UNCHANGED stack
  <2>1. CASE stack' = [stack EXCEPT ![h] = <<f>>]
    <3>1. Moves(h, <<f>>)
      BY <1>1, <1>2, <2>1, OpenOne DEF TypeInv
    <3>. QED
      BY <1>1, <1>2, <3>1, TraceOne
  <2>. QED
    BY <1>3, <2>1
<1>8. Stacks'
  BY <1>5, TraceStacks DEF TypeInv, Stacks
<1>9. TypeOK'
  BY <1>3, <1>4, <1>8 DEF Callback, TypeInv, TypeOK, Stacks, queueVars, taskVars, dispatchVars, stopVars
<1>. QED
  BY <1>5, <1>8, <1>9 DEF TypeInv

LEMMA AdmitType ==
  ASSUME TypeInv, NEW h \in Hosts, Admit(h)
  PROVE  Trace(h, {"admit", "mark", "fail"}) /\ TypeInv'
<1>. h \in Actors
  BY ActorKinds
<1>1. stack[h] # <<>> /\ Top(h).pc = "admit" /\ Top(h) \in AdmitFrames
  BY InTop, FrameKinds DEF Admit
<1>2. /\ At(h, "mark") \in Frames /\ At(h, "mark").pc = "mark"
      /\ At(h, "fail") \in Frames /\ At(h, "fail").pc = "fail"
  <2>1. /\ At(h, "mark") \in AdmitFrames /\ At(h, "mark").pc = "mark"
        /\ At(h, "fail") \in AdmitFrames /\ At(h, "fail").pc = "fail"
    BY <1>1 DEF At, AdmitFrames
  <2>. QED
    BY <2>1, FrameUnion
<1>3. Goto(h, At(h, "mark")) \/ Goto(h, At(h, "fail"))
  BY DEF Admit
<1>4. /\ pending' \in {pending, NoDispatch} /\ recovery' \in {recovery, NoDispatch}
      /\ draining' \in {draining, TRUE}
  BY DEF Admit
<1>7. Trace(h, {"admit", "mark", "fail"})
  BY <1>1, <1>2, <1>3, GotoTrace DEF TypeInv
<1>8. Stacks'
  BY <1>7, TraceStacks DEF TypeInv
<1>9. TypeOK'
  BY <1>4, <1>8 DEF Admit, TypeInv, TypeOK, Stacks, queueVars, taskVars, hostVars, stopVars
<1>. QED
  BY <1>7, <1>8, <1>9 DEF TypeInv

LEMMA MarkMoves ==
  ASSUME TypeInv, NEW h \in Hosts, Mark(h)
  PROVE  /\ stack[h] # <<>> /\ Top(h).pc = "mark" /\ Top(h) \in AdmitFrames
         /\ Frame("retire") \in Frames /\ Frame("retire").pc = "retire"
         /\ \E f \in Frames : f.pc = "turn" /\ Call(h, f, Frame("retire"))
<1>. h \in Actors
  BY ActorKinds
<1>1. stack[h] # <<>> /\ Top(h).pc = "mark" /\ Top(h) \in AdmitFrames
  BY InTop, FrameKinds DEF Mark
<1>2. Top(h).dispatch \in Dispatches
  BY <1>1 DEF AdmitFrames
<1>3. /\ [pc |-> "turn", dispatch |-> Top(h).dispatch, n |-> 0] \in Frames
      /\ Frame("retire") \in Frames /\ Frame("retire").pc = "retire"
  BY <1>2, MadeFrames DEF PlainPcs
<1>4. Call(h, [pc |-> "turn", dispatch |-> Top(h).dispatch, n |-> 0], Frame("retire"))
  BY DEF Mark
<1>. DEFINE f == [pc |-> "turn", dispatch |-> Top(h).dispatch, n |-> 0]
<1>5. f.pc = "turn" /\ f \in Frames /\ Call(h, f, Frame("retire"))
  BY <1>3, <1>4
<1>. HIDE DEF f
<1>. QED
  BY <1>1, <1>3, <1>5

LEMMA MarkType ==
  ASSUME TypeInv, NEW h \in Hosts, Mark(h)
  PROVE  Trace(h, {"mark", "turn", "retire"}) /\ TypeInv'
<1>. h \in Actors
  BY ActorKinds
<1>1. /\ stack[h] # <<>> /\ Top(h).pc = "mark" /\ Top(h).dispatch \in Dispatches
      /\ Frame("retire") \in Frames /\ Frame("retire").pc = "retire"
  BY MarkMoves DEF AdmitFrames
<1>2. PICK f \in Frames : f.pc = "turn" /\ Call(h, f, Frame("retire"))
  BY MarkMoves
<1>3. reg' \in Registry
  BY <1>1, MarkServicedType DEF Mark, TypeInv, TypeOK
<1>7. Trace(h, {"mark", "turn", "retire"})
  BY <1>1, <1>2, CallTrace DEF TypeInv
<1>8. Stacks'
  BY <1>7, TraceStacks DEF TypeInv
<1>9. TypeOK'
  BY <1>3, <1>8 DEF Mark, TypeInv, TypeOK, Stacks, queueVars, taskVars, dispatchVars, hostVars, stopVars
<1>. QED
  BY <1>7, <1>8, <1>9 DEF TypeInv

(* Taking a runnable to poll it.                                           *)
LEMMA TakeTypes ==
  ASSUME TypeInv, NEW a \in Actors, stack[a] # <<>>, NEW f \in Frames, TakeRunnable(a, f),
         NEW P, Top(a).pc \in P, f.pc \in P, "poll" \in P
  PROVE  /\ Trace(a, P) /\ queue' \in Seq(Tasks)
         /\ task' \in [Tasks -> {"fresh", "scheduled", "running", "woken", "waiting", "done"}]
         /\ queue # <<>> /\ Head(queue) \in Tasks
         /\ [pc |-> "poll", task |-> Head(queue)] \in Frames
<1>1. queue # <<>> /\ Head(queue) \in Tasks /\ Tail(queue) \in Seq(Tasks)
  BY QueueTypes DEF TakeRunnable, CanTake
<1>2. [pc |-> "poll", task |-> Head(queue)] \in Frames
  BY <1>1, MadeFrames
<1>3. Trace(a, P)
  <2>. DEFINE g == [pc |-> "poll", task |-> Head(queue)]
  <2>1. g \in Frames /\ g.pc \in P /\ Call(a, f, g)
    BY <1>2 DEF TakeRunnable
  <2>. HIDE DEF g
  <2>. QED
    BY <2>1, CallTrace DEF TypeInv
<1>. QED
  BY <1>1, <1>2, <1>3 DEF TakeRunnable, TypeInv, TypeOK

LEMMA DriveTurnMoves ==
  ASSUME TypeInv, NEW h \in Hosts, DriveTurn(h)
  PROVE  /\ stack[h] # <<>> /\ Top(h).pc = "turn"
         /\ \/ \E f \in Frames : f.pc = "turn" /\ TakeRunnable(h, f)
            \/ /\ At(h, "release") \in Frames /\ At(h, "release").pc = "release"
               /\ Goto(h, At(h, "release")) /\ UNCHANGED <<queue, task>>
<1>. h \in Actors
  BY ActorKinds
<1>1. stack[h] # <<>> /\ Top(h).pc = "turn" /\ Top(h) \in TurnFrames
  BY InTop, FrameKinds DEF DriveTurn
<1>2. At(h, "release") \in Frames /\ At(h, "release").pc = "release"
  <2>1. At(h, "release") \in TurnFrames /\ At(h, "release").pc = "release"
    BY <1>1 DEF At, TurnFrames
  <2>. QED
    BY <2>1, FrameUnion
<1>. DEFINE f == [Top(h) EXCEPT !.n = @ + 1]
<1>3. f \in Frames /\ f.pc = "turn"
  <2>. DEFINE f0 == Top(h)
  <2>1. f0 \in TurnFrames /\ f = [f0 EXCEPT !.n = @ + 1] /\ f0.pc = "turn"
    BY <1>1
  <2>2. f0.n \in Nat /\ f0.n + 1 \in Nat
    BY <2>1 DEF TurnFrames
  <2>. HIDE DEF f0, f
  <2>3. f \in TurnFrames /\ f.pc = "turn"
    BY <2>1, <2>2 DEF TurnFrames
  <2>. QED
    BY <2>3, FrameUnion
<1>4. TakeRunnable(h, f) \/ (Goto(h, At(h, "release")) /\ UNCHANGED <<queue, task>>)
  BY DEF DriveTurn
<1>. HIDE DEF f
<1>. QED
  BY <1>1, <1>2, <1>3, <1>4

LEMMA DriveTurnType ==
  ASSUME TypeInv, NEW h \in Hosts, DriveTurn(h)
  PROVE  Trace(h, {"turn", "poll", "release"}) /\ TypeInv'
<1>. DEFINE P == {"turn", "poll", "release"}
<1>. h \in Actors
  BY ActorKinds
<1>1. stack[h] # <<>> /\ Top(h).pc \in P
  BY DriveTurnMoves
<1>7. /\ Trace(h, P) /\ queue' \in Seq(Tasks)
      /\ task' \in [Tasks -> {"fresh", "scheduled", "running", "woken", "waiting", "done"}]
  <2>1. CASE \E f \in Frames : f.pc = "turn" /\ TakeRunnable(h, f)
    BY <1>1, <2>1, TakeTypes
  <2>2. CASE /\ At(h, "release") \in Frames /\ At(h, "release").pc = "release"
             /\ Goto(h, At(h, "release")) /\ UNCHANGED <<queue, task>>
    <3>1. Trace(h, P)
      BY <1>1, <2>2, GotoTrace DEF TypeInv
    <3>. QED
      BY <2>2, <3>1 DEF TypeInv, TypeOK
  <2>. QED
    BY <2>1, <2>2, DriveTurnMoves
<1>8. Stacks'
  BY <1>7, TraceStacks DEF TypeInv
<1>9. TypeOK'
  BY <1>7, <1>8 DEF DriveTurn, TypeInv, TypeOK, Stacks, dispatchVars, hostVars, stopVars
<1>. QED
  BY <1>7, <1>8, <1>9 DEF TypeInv

LEMMA DriveOneType ==
  ASSUME TypeInv, NEW p \in Threads, DriveOne(p)
  PROVE  Trace(p, {"drive", "poll"}) /\ TypeInv'
<1>. p \in Actors
  BY ActorKinds
<1>1. stack[p] # <<>> /\ Top(p).pc = "drive" /\ Top(p) \in Frames
  BY InTop DEF DriveOne
<1>2. TakeRunnable(p, Top(p))
  BY DEF DriveOne
<1>7. /\ Trace(p, {"drive", "poll"}) /\ queue' \in Seq(Tasks)
      /\ task' \in [Tasks -> {"fresh", "scheduled", "running", "woken", "waiting", "done"}]
  BY <1>1, <1>2, TakeTypes
<1>8. Stacks'
  BY <1>7, TraceStacks DEF TypeInv
<1>9. TypeOK'
  BY <1>7, <1>8 DEF DriveOne, TypeInv, TypeOK, Stacks, dispatchVars, hostVars, stopVars
<1>. QED
  BY <1>7, <1>8, <1>9 DEF TypeInv

LEMMA BeginDriveType ==
  ASSUME TypeInv, NEW p \in Threads, BeginDrive(p)
  PROVE  Trace(p, {"drive"}) /\ TypeInv'
<1>. p \in Actors
  BY ActorKinds
<1>1. /\ stack[p] = <<>> /\ stack' = [stack EXCEPT ![p] = <<Frame("drive")>>]
      /\ Frame("drive") \in Frames /\ Frame("drive").pc = "drive"
  BY MadeFrames DEF BeginDrive, PlainPcs
<1>2. Moves(p, <<Frame("drive")>>)
  BY <1>1, OpenOne DEF TypeInv
<1>7. Trace(p, {"drive"})
  BY <1>1, <1>2, TraceOne
<1>8. Stacks'
  BY <1>7, TraceStacks DEF TypeInv
<1>9. TypeOK'
  BY <1>8 DEF BeginDrive, TypeInv, TypeOK, Stacks, queueVars, taskVars, dispatchVars, hostVars, stopVars
<1>. QED
  BY <1>7, <1>8, <1>9 DEF TypeInv

LEMMA EndDriveType ==
  ASSUME TypeInv, NEW p \in Threads, EndDrive(p)
  PROVE  Trace(p, {"drive"}) /\ TypeInv'
<1>. p \in Actors
  BY ActorKinds
<1>1. stack[p] # <<>> /\ Top(p).pc = "drive" /\ Return(p)
  BY InTop DEF EndDrive
<1>7. Trace(p, {"drive"})
  BY <1>1, ReturnTrace DEF TypeInv
<1>8. Stacks'
  BY <1>7, TraceStacks DEF TypeInv
<1>9. TypeOK'
  BY <1>8 DEF EndDrive, TypeInv, TypeOK, Stacks, queueVars, taskVars, dispatchVars, hostVars, stopVars
<1>. QED
  BY <1>7, <1>8, <1>9 DEF TypeInv

LEMMA PollMoves ==
  ASSUME TypeInv, NEW a \in Actors, Poll(a)
  PROVE  /\ stack[a] # <<>> /\ Top(a).pc = "poll" /\ Top(a) \in PollFrames
         /\ Top(a).task \in Tasks
         /\ Frame("return") \in Frames /\ Frame("return").pc = "return"
         /\ \/ /\ task' = EndOf(Top(a).task)
               /\ \/ Return(a) /\ WokenBy(Top(a).task) = <<>>
                  \/ Moves(a, <<Frame("return")>> \o WakerFrames(WokenBy(Top(a).task)))
            \/ /\ task[Top(a).task] = "running"
               /\ task' = [task EXCEPT ![Top(a).task] = "waiting"] /\ Return(a)
            \/ /\ task[Top(a).task] = "woken"
               /\ task' = [task EXCEPT ![Top(a).task] = "scheduled"]
               /\ SchedFrame(Top(a).task, TRUE) \in Frames
               /\ Goto(a, SchedFrame(Top(a).task, TRUE))
<1>. DEFINE t == Top(a).task
            gs == WakerFrames(WokenBy(t))
<1>1. stack[a] # <<>> /\ Top(a).pc = "poll" /\ Top(a) \in PollFrames
  BY InTop, FrameKinds DEF Poll
<1>2. t \in Tasks
  BY <1>1 DEF PollFrames
<1>3. Frame("return") \in Frames /\ Frame("return").pc = "return"
  BY MadeFrames DEF PlainPcs
<1>4. gs \in Seq(Frames)
  BY <1>2, WokenTasks, WakersShape DEF WokenBy
<1>5. SchedFrame(t, TRUE) \in Frames
  BY <1>2, MadeFrames
<1>. HIDE DEF t, gs
<1>6. CASE /\ task' = EndOf(t)
           /\ stack' = [stack EXCEPT ![a] =
                          IF WokenBy(t) = <<>> THEN Unwound(@, "done")
                          ELSE Become(a, Frame("return")) \o gs]
  <2>1. CASE WokenBy(t) = <<>>
    <3>1. Return(a)
      BY <1>6, <2>1 DEF Return
    <3>. QED
      BY <1>1, <1>2, <1>3, <1>6, <2>1, <3>1 DEF t
  <2>2. CASE WokenBy(t) # <<>>
    <3>1. Moves(a, <<Frame("return")>> \o gs)
      BY <1>1, <1>3, <1>4, <1>6, <2>2, SpawnMoves DEF TypeInv
    <3>. QED
      BY <1>1, <1>2, <1>3, <1>6, <3>1 DEF t, gs
  <2>. QED
    BY <2>1, <2>2
<1>7. CASE task[t] = "running" /\ task' = [task EXCEPT ![t] = "waiting"] /\ Return(a)
  BY <1>1, <1>2, <1>3, <1>7 DEF t
<1>8. CASE task[t] = "woken" /\ task' = [task EXCEPT ![t] = "scheduled"] /\ Goto(a, SchedFrame(t, TRUE))
  BY <1>1, <1>2, <1>3, <1>5, <1>8 DEF t
<1>. QED
  BY <1>6, <1>7, <1>8 DEF Poll, t, gs

LEMMA PollType ==
  ASSUME TypeInv, NEW a \in Actors, Poll(a)
  PROVE  Trace(a, {"poll", "return", "push"}) /\ TypeInv'
<1>. DEFINE P == {"poll", "return", "push"}
            t == Top(a).task
            gs == WakerFrames(WokenBy(t))
<1>0. /\ stack[a] # <<>> /\ Top(a).pc \in P /\ t \in Tasks /\ Stacks
      /\ Frame("return") \in Frames /\ Frame("return").pc \in P
      /\ SchedFrame(t, TRUE).pc \in P
  BY PollMoves DEF TypeInv, SchedFrame
<1>1. gs \in Seq(Frames) /\ \A k \in 1 .. Len(gs) : gs[k].pc \in P
  BY <1>0, WokenTasks, WakersShape DEF WokenBy
<1>2. EndOf(t) \in [Tasks -> {"fresh", "scheduled", "running", "woken", "waiting", "done"}]
  BY <1>0, EndOfType
<1>3. \/ /\ task' = EndOf(t)
         /\ \/ Return(a)
            \/ Moves(a, <<Frame("return")>> \o gs)
      \/ task' = [task EXCEPT ![t] = "waiting"] /\ Return(a)
      \/ /\ task' = [task EXCEPT ![t] = "scheduled"]
         /\ SchedFrame(t, TRUE) \in Frames
         /\ Goto(a, SchedFrame(t, TRUE))
  BY PollMoves
<1>. HIDE DEF P, t, gs
<1>4. Trace(a, P)
  <2>1. CASE Return(a)
    BY <1>0, <2>1, ReturnTrace
  <2>2. CASE Moves(a, <<Frame("return")>> \o gs)
    BY <1>0, <1>1, <2>2, TraceMany
  <2>3. CASE SchedFrame(t, TRUE) \in Frames /\ Goto(a, SchedFrame(t, TRUE))
    BY <1>0, <2>3, GotoTrace
  <2>. QED
    BY <1>3, <2>1, <2>2, <2>3
<1>5. task' \in [Tasks -> {"fresh", "scheduled", "running", "woken", "waiting", "done"}]
  BY <1>0, <1>2, <1>3 DEF TypeInv, TypeOK
<1>8. Stacks'
  BY <1>0, <1>4, TraceStacks
<1>9. TypeOK'
  BY <1>5, <1>8 DEF Poll, TypeInv, TypeOK, Stacks, queueVars, dispatchVars, hostVars, stopVars
<1>. QED
  BY <1>4, <1>8, <1>9 DEF TypeInv, P

LEMMA TurnEnds ==
  ASSUME TypeInv, NEW h \in Hosts, In(h, "release") \/ In(h, "again")
  PROVE  /\ stack[h] # <<>> /\ Top(h).pc \in {"release", "again"} /\ Top(h) \in TurnFrames
         /\ At(h, "again") \in Frames /\ At(h, "again").pc = "again"
         /\ At(h, "ack") \in Frames /\ At(h, "ack").pc = "ack"
<1>. h \in Actors
  BY ActorKinds
<1>1. stack[h] # <<>> /\ Top(h).pc \in {"release", "again"} /\ Top(h) \in TurnFrames
  BY InTop, FrameKinds
<1>2. /\ At(h, "again") \in TurnFrames /\ At(h, "again").pc = "again"
      /\ At(h, "ack") \in TurnFrames /\ At(h, "ack").pc = "ack"
  BY <1>1 DEF At, TurnFrames
<1>. QED
  BY <1>1, <1>2, FrameUnion

LEMMA ReleaseDrainingType ==
  ASSUME TypeInv, NEW h \in Hosts, ReleaseDraining(h)
  PROVE  Trace(h, {"release", "again"}) /\ TypeInv'
<1>. h \in Actors
  BY ActorKinds
<1>1. stack[h] # <<>> /\ Top(h).pc = "release" /\ At(h, "again") \in Frames /\ At(h, "again").pc = "again"
  BY InTop, TurnEnds DEF ReleaseDraining
<1>2. Goto(h, At(h, "again"))
  BY DEF ReleaseDraining
<1>7. Trace(h, {"release", "again"})
  BY <1>1, <1>2, GotoTrace DEF TypeInv
<1>8. Stacks'
  BY <1>7, TraceStacks DEF TypeInv
<1>9. TypeOK'
  BY <1>8 DEF ReleaseDraining, TypeInv, TypeOK, Stacks, queueVars, taskVars, hostVars, stopVars
<1>. QED
  BY <1>7, <1>8, <1>9 DEF TypeInv

LEMMA ContinueType ==
  ASSUME TypeInv, NEW h \in Hosts, Continue(h)
  PROVE  Trace(h, {"again", "ack", "enter"}) /\ TypeInv'
<1>. h \in Actors
  BY ActorKinds
<1>1. stack[h] # <<>> /\ Top(h).pc = "again" /\ At(h, "ack") \in Frames /\ At(h, "ack").pc = "ack"
  BY InTop, TurnEnds DEF Continue
<1>2. \/ RequestDrain(h, At(h, "ack"))
      \/ Goto(h, At(h, "ack")) /\ UNCHANGED <<pending, publication>>
  BY DEF Continue
<1>3. /\ pending' \in Dispatches \cup {NoDispatch}
      /\ publication' \in [Dispatches -> {"none", "armed", "again"}]
  BY <1>1, <1>2, RequestTypes DEF TypeInv, TypeOK
<1>7. Trace(h, {"again", "ack", "enter"})
  BY <1>1, <1>2, GotoTrace, RequestTrace DEF TypeInv
<1>8. Stacks'
  BY <1>7, TraceStacks DEF TypeInv
<1>9. TypeOK'
  BY <1>3, <1>8 DEF Continue, TypeInv, TypeOK, Stacks, queueVars, taskVars, hostVars, stopVars
<1>. QED
  BY <1>7, <1>8, <1>9 DEF TypeInv

(* A callback ends: only what it owes the executor is left on its stack.   *)
LEMMA AcknowledgeMoves ==
  ASSUME TypeInv, ShapeInv, NEW h \in Hosts, Acknowledge(h)
  PROVE  /\ stack[h] # <<>> /\ Top(h).pc \in {"ack", "fail"} /\ Top(h).dispatch \in Dispatches
         /\ Len(stack[h]) = 1
         /\ reg' = FinishDelivery(reg, h, Top(h).dispatch, In(h, "fail")).reg
         /\ reg' \in Registry
         /\ \/ Moves(h, <<>>)
            \/ \E f \in Frames, gs \in Seq(Frames) :
                 /\ f.pc \in {"lease", "return"} /\ Moves(h, <<f>> \o gs)
                 /\ f \in PlainFrames
                 /\ \A k \in 1 .. Len(gs) : gs[k].pc = "complete"
<1>. h \in Actors
  BY ActorKinds
<1>. DEFINE d == Top(h).dispatch
            o == FinishDelivery(reg, h, d, In(h, "fail"))
            f == Frame(IF In(h, "ack") THEN "lease" ELSE "return")
            c == Completing(h, o.failures, o.redispatch)
<1>1. stack[h] # <<>> /\ Top(h).pc \in {"ack", "fail"} /\ Top(h) \in AdmitFrames \cup TurnFrames
  BY InTop, FrameKinds DEF Acknowledge
<1>2. d \in Dispatches /\ reg \in Registry /\ In(h, "fail") \in BOOLEAN
  BY <1>1 DEF AdmitFrames, TurnFrames, TypeInv, TypeOK, In
<1>3. Len(stack[h]) = 1
  BY <1>1, OnlyFrame DEF BottomPcs
<1>4. o.reg \in Registry /\ o.failures \in SUBSET Failures /\ o.redispatch \in BOOLEAN
  BY <1>2, FinishDeliveryType DEF Failures
<1>5. f \in Frames /\ f.pc \in {"lease", "return"} /\ f \in PlainFrames
  BY MadeFrames DEF PlainPcs, PlainFrames, Frame
<1>6. c \in Seq(Frames) /\ \A k \in 1 .. Len(c) : c[k].pc = "complete"
  BY <1>4, CompletingShape
<1>7. reg' = o.reg /\ stack' = [stack EXCEPT ![h] = IF c = <<>> THEN <<>> ELSE <<f>> \o c]
  BY DEF Acknowledge
<1>. HIDE DEF f, c
<1>8. CASE c = <<>>
  <2>1. <<>> \in Seq(Frames)
    OBVIOUS
  <2>2. Moves(h, <<>>)
    BY <1>3, <1>7, <1>8, <2>1, SoleMoves DEF TypeInv
  <2>. QED
    BY <1>1, <1>2, <1>3, <1>4, <1>7, <2>2
<1>9. CASE c # <<>>
  <2>1. <<f>> \o c \in Seq(Frames)
    BY <1>5, <1>6, ConcatProperties
  <2>2. Moves(h, <<f>> \o c)
    BY <1>3, <1>7, <1>9, <2>1, SoleMoves DEF TypeInv
  <2>. QED
    BY <1>1, <1>2, <1>3, <1>4, <1>5, <1>6, <1>7, <2>2
<1>. QED
  BY <1>8, <1>9

LEMMA AcknowledgeType ==
  ASSUME TypeInv, ShapeInv, NEW h \in Hosts, Acknowledge(h)
  PROVE  Trace(h, {"ack", "fail", "lease", "return", "complete"}) /\ TypeInv'
<1>. DEFINE P == {"ack", "fail", "lease", "return", "complete"}
<1>. h \in Actors
  BY ActorKinds
<1>1. stack[h] # <<>> /\ Top(h).pc \in P /\ reg' \in Registry
  BY AcknowledgeMoves
<1>7. Trace(h, P)
  <2>1. CASE Moves(h, <<>>)
    BY <1>1, <2>1, TraceNone
  <2>2. ASSUME NEW f \in Frames, NEW gs \in Seq(Frames),
               f.pc \in {"lease", "return"}, Moves(h, <<f>> \o gs),
               \A k \in 1 .. Len(gs) : gs[k].pc = "complete"
        PROVE  Trace(h, P)
    BY <1>1, <2>2, TraceMany
  <2>. QED
    BY <2>1, <2>2, AcknowledgeMoves
<1>8. Stacks'
  BY <1>7, TraceStacks DEF TypeInv
<1>9. TypeOK'
  BY <1>1, <1>8 DEF Acknowledge, TypeInv, TypeOK, Stacks, queueVars, taskVars, dispatchVars, hostVars, stopVars
<1>. QED
  BY <1>7, <1>8, <1>9 DEF TypeInv

LEMMA LeaveType ==
  ASSUME TypeInv, NEW h \in Hosts, Leave(h)
  PROVE  Trace(h, {"evict"}) /\ TypeInv' /\ Moves(h, <<Frame("evict")>>)
<1>. h \in Actors
  BY ActorKinds
<1>1. /\ stack[h] = <<>> /\ stack' = [stack EXCEPT ![h] = <<Frame("evict")>>]
      /\ Frame("evict") \in Frames /\ Frame("evict").pc = "evict"
  BY MadeFrames DEF Leave, PlainPcs
<1>2. Moves(h, <<Frame("evict")>>)
  BY <1>1, OpenOne DEF TypeInv
<1>7. Trace(h, {"evict"})
  BY <1>1, <1>2, TraceOne
<1>8. Stacks'
  BY <1>7, TraceStacks DEF TypeInv
<1>9. TypeOK'
  BY <1>8 DEF Leave, TypeInv, TypeOK, Stacks, queueVars, taskVars, dispatchVars, stopVars
<1>. QED
  BY <1>2, <1>7, <1>8, <1>9 DEF TypeInv

LEMMA EvictMoves ==
  ASSUME TypeInv, ShapeInv, NEW h \in Hosts, Evict(h)
  PROVE  /\ stack[h] # <<>> /\ Top(h).pc \in {"evict", "gone"} /\ reg' \in Registry
         /\ \/ Return(h) /\ UNCHANGED reg /\ host' = [host EXCEPT ![h] = "gone"]
            \/ /\ Len(stack[h]) = 1 /\ UNCHANGED host /\ Top(h).pc = "evict"
               /\ reg' = Unregister(reg, h).reg
               /\ \E fs \in Seq(Frames) :
                    /\ Moves(h, fs)
                    /\ \A k \in 1 .. Len(fs) : fs[k].pc \in {"gone", "rdq", "complete"}
<1>. h \in Actors
  BY ActorKinds
<1>1. stack[h] # <<>> /\ Top(h).pc \in {"evict", "gone"}
  BY InTop DEF Evict
<1>2. CASE /\ In(h, "gone") \/ (In(h, "evict") /\ h \notin reg.drivers)
           /\ host' = [host EXCEPT ![h] = "gone"] /\ Return(h) /\ UNCHANGED reg
  BY <1>1, <1>2 DEF TypeInv, TypeOK
<1>3. CASE /\ In(h, "evict") /\ UNCHANGED host
           /\ LET o == Unregister(reg, h) IN
              /\ reg' = o.reg
              /\ stack' = [stack EXCEPT ![h] = <<Frame("gone"), Frame("rdq")>>
                                                 \o Completing(h, o.failures, FALSE)]
  <2>. DEFINE o == Unregister(reg, h)
              c == Completing(h, o.failures, FALSE)
              p == <<Frame("gone"), Frame("rdq")>>
              fs == p \o c
  <2>1. Top(h).pc = "evict" /\ Len(stack[h]) = 1
    BY <1>1, <1>3, InTop, OnlyFrame DEF BottomPcs
  <2>2. o.reg \in Registry /\ o.failures \in SUBSET Failures
    BY RejectDeliveryType DEF TypeInv, TypeOK
  <2>3. c \in Seq(Frames) /\ \A k \in 1 .. Len(c) : c[k].pc = "complete"
    BY <2>2, CompletingShape
  <2>4. /\ Frame("gone") \in Frames /\ Frame("gone").pc = "gone"
        /\ Frame("rdq") \in Frames /\ Frame("rdq").pc = "rdq"
    BY MadeFrames DEF PlainPcs
  <2>5. p \in Seq(Frames) /\ Len(p) = 2 /\ \A k \in 1 .. 2 : p[k].pc \in {"gone", "rdq"}
    BY <2>4
  <2>6. stack' = [stack EXCEPT ![h] = fs] /\ reg' = o.reg
    BY <1>3
  <2>. HIDE DEF c, p
  <2>7. /\ p \o c \in Seq(Frames) /\ Len(p \o c) = Len(p) + Len(c)
        /\ \A i \in 1 .. Len(p) + Len(c) : (p \o c)[i] = IF i <= Len(p) THEN p[i] ELSE c[i - Len(p)]
    BY <2>3, <2>5, ConcatProperties, ZenonT(60)
  <2>8. \A k \in 1 .. Len(fs) : fs[k].pc \in {"gone", "rdq", "complete"}
    <3>. SUFFICES ASSUME NEW k \in 1 .. Len(fs) PROVE fs[k].pc \in {"gone", "rdq", "complete"}
      OBVIOUS
    <3>0. Len(c) \in Nat
      BY <2>3
    <3>1. CASE k <= 2
      BY <2>5, <2>7, <3>0, <3>1
    <3>2. CASE ~ (k <= 2)
      <4>1. k - 2 \in 1 .. Len(c) /\ fs[k] = c[k - 2]
        BY <2>5, <2>7, <3>0, <3>2
      <4>. QED
        BY <2>3, <4>1
    <3>. QED
      BY <3>1, <3>2
  <2>. HIDE DEF fs
  <2>9. Moves(h, fs)
    <3>1. fs \in Seq(Frames)
      BY <2>7 DEF fs
    <3>. QED
      BY <2>1, <2>6, <3>1, SoleMoves DEF TypeInv
  <2>10. fs \in Seq(Frames)
    BY <2>7 DEF fs
  <2>. QED
    BY <1>1, <1>3, <2>1, <2>2, <2>6, <2>8, <2>9, <2>10
<1>. QED
  BY <1>2, <1>3 DEF Evict

LEMMA EvictType ==
  ASSUME TypeInv, ShapeInv, NEW h \in Hosts, Evict(h)
  PROVE  Trace(h, {"evict", "gone", "rdq", "complete"}) /\ TypeInv'
<1>. DEFINE P == {"evict", "gone", "rdq", "complete"}
<1>. h \in Actors
  BY ActorKinds
<1>1. stack[h] # <<>> /\ Top(h).pc \in P /\ reg' \in Registry
  BY EvictMoves
<1>2. host' \in [Hosts -> {"absent", "live", "closing", "gone"}]
  BY EvictMoves DEF TypeInv, TypeOK
<1>7. Trace(h, P)
  <2>1. CASE Return(h)
    BY <1>1, <2>1, ReturnTrace DEF TypeInv
  <2>2. CASE \E fs \in Seq(Frames) :
               /\ Moves(h, fs)
               /\ \A k \in 1 .. Len(fs) : fs[k].pc \in {"gone", "rdq", "complete"}
    BY <1>1, <2>2 DEF Trace
  <2>. QED
    BY <2>1, <2>2, EvictMoves
<1>8. Stacks'
  BY <1>7, TraceStacks DEF TypeInv
<1>9. TypeOK'
  BY <1>1, <1>2, <1>8 DEF Evict, TypeInv, TypeOK, Stacks, queueVars, taskVars, dispatchVars, stopVars
<1>. QED
  BY <1>7, <1>8, <1>9 DEF TypeInv

-----------------------------------------------------------------------------
(* The steps of the stop.                                                  *)

LEMMA BeginStopType ==
  ASSUME TypeInv, ShapeInv, BeginStop
  PROVE  /\ Trace(Stopper, {"abort"}) /\ TypeInv' /\ stack[Stopper] = <<>>
         /\ Moves(Stopper, <<Frame("abort")>>) /\ Frame("abort") \in Frames
         /\ Frame("abort").pc = "abort"
<1>. Stopper \in Actors
  BY ActorKinds
<1>1. /\ stack[Stopper] = <<>> /\ stack' = [stack EXCEPT ![Stopper] = <<Frame("abort")>>]
      /\ Frame("abort") \in Frames /\ Frame("abort").pc = "abort"
  BY MadeFrames DEF BeginStop, PlainPcs, ShapeInv, Idle
<1>2. Moves(Stopper, <<Frame("abort")>>)
  BY <1>1, OpenOne DEF TypeInv
<1>7. Trace(Stopper, {"abort"})
  BY <1>1, <1>2, TraceOne
<1>8. Stacks'
  BY <1>7, TraceStacks DEF TypeInv
<1>9. TypeOK'
  BY <1>8 DEF BeginStop, TypeInv, TypeOK, Stacks, queueVars, taskVars, dispatchVars, hostVars
<1>. QED
  BY <1>1, <1>2, <1>7, <1>8, <1>9 DEF TypeInv

LEMMA AbortTasksMoves ==
  ASSUME TypeInv, ShapeInv, AbortTasks
  PROVE  /\ stack[Stopper] # <<>> /\ Top(Stopper).pc = "abort" /\ Len(stack[Stopper]) = 1
         /\ Frame("close") \in Frames /\ Frame("close").pc = "close"
         /\ {t \in Tasks : task[t] = "waiting"} \in SUBSET Tasks
         /\ WakerFrames(SetToSeq({t \in Tasks : task[t] = "waiting"})) \in Seq(Frames)
         /\ \A k \in 1 .. Len(WakerFrames(SetToSeq({t \in Tasks : task[t] = "waiting"}))) :
              WakerFrames(SetToSeq({t \in Tasks : task[t] = "waiting"}))[k].pc = "push"
         /\ Moves(Stopper, <<Frame("close")>>
                             \o WakerFrames(SetToSeq({t \in Tasks : task[t] = "waiting"})))
<1>. Stopper \in Actors
  BY ActorKinds
<1>. DEFINE S == {t \in Tasks : task[t] = "waiting"}
            w == WakerFrames(SetToSeq(S))
            p == <<Frame("close")>>
<1>1. stack[Stopper] # <<>> /\ Top(Stopper).pc = "abort"
  BY InTop DEF AbortTasks
<1>2. Len(stack[Stopper]) = 1
  BY <1>1, OnlyFrame DEF BottomPcs
<1>3. Frame("close") \in Frames /\ Frame("close").pc = "close"
  BY MadeFrames DEF PlainPcs
<1>4. S \in SUBSET Tasks
  OBVIOUS
<1>5. stack' = [stack EXCEPT ![Stopper] = p \o w]
  BY DEF AbortTasks
<1>. HIDE DEF S
<1>6. w \in Seq(Frames) /\ \A k \in 1 .. Len(w) : w[k].pc = "push"
  BY <1>4, WakersShape
<1>. HIDE DEF w
<1>7. p \in Seq(Frames)
  BY <1>3
<1>. HIDE DEF p
<1>8. p \o w \in Seq(Frames)
  BY <1>6, <1>7, ConcatProperties
<1>9. Moves(Stopper, p \o w)
  BY <1>2, <1>5, <1>8, SoleMoves DEF TypeInv
<1>. QED
  BY <1>1, <1>2, <1>3, <1>4, <1>6, <1>9 DEF p, w, S

LEMMA AbortTasksType ==
  ASSUME TypeInv, ShapeInv, AbortTasks
  PROVE  Trace(Stopper, {"abort", "close", "push"}) /\ TypeInv'
<1>. Stopper \in Actors
  BY ActorKinds
<1>. DEFINE w == WakerFrames(SetToSeq({t \in Tasks : task[t] = "waiting"}))
<1>1. /\ stack[Stopper] # <<>> /\ Top(Stopper).pc = "abort"
      /\ Frame("close") \in Frames /\ Frame("close").pc = "close"
      /\ w \in Seq(Frames) /\ \A k \in 1 .. Len(w) : w[k].pc = "push"
      /\ Moves(Stopper, <<Frame("close")>> \o w)
  BY AbortTasksMoves
<1>. HIDE DEF w
<1>7. Trace(Stopper, {"abort", "close", "push"})
  BY <1>1, TraceMany
<1>8. Stacks'
  BY <1>7, TraceStacks DEF TypeInv
<1>9. TypeOK'
  <2>1. task' \in [Tasks -> {"fresh", "scheduled", "running", "woken", "waiting", "done"}]
    BY DEF AbortTasks, TypeInv, TypeOK
  <2>. QED
    BY <1>8, <2>1 DEF AbortTasks, TypeInv, TypeOK, Stacks, queueVars, dispatchVars, hostVars, stopVars
<1>. QED
  BY <1>7, <1>8, <1>9 DEF TypeInv

LEMMA CloseQueueType ==
  ASSUME TypeInv, CloseQueue
  PROVE  Trace(Stopper, {"close", "forget"}) /\ TypeInv'
<1>. Stopper \in Actors
  BY ActorKinds
<1>. DEFINE ts == ToSet(queue) \cup rejected
            f == [pc |-> "forget", tasks |-> ts]
<1>1. stack[Stopper] # <<>> /\ Top(Stopper).pc = "close"
  BY InTop DEF CloseQueue
<1>2. ts \in SUBSET Tasks
  BY QueueTypes
<1>3. f \in Frames /\ f.pc = "forget" /\ Goto(Stopper, f)
  BY <1>2, MadeFrames DEF CloseQueue
<1>. HIDE DEF f
<1>7. Trace(Stopper, {"close", "forget"})
  BY <1>1, <1>3, GotoTrace DEF TypeInv
<1>8. Stacks'
  BY <1>7, TraceStacks DEF TypeInv
<1>9. TypeOK'
  <2>1. queue' = <<>> /\ rejected' = {} /\ closed' = TRUE /\ <<>> \in Seq(Tasks)
    BY DEF CloseQueue
  <2>2. queue' \in Seq(Tasks) /\ rejected' \subseteq Tasks /\ closed' \in BOOLEAN
    BY <2>1
  <2>. QED
    BY <1>8, <2>2 DEF CloseQueue, TypeInv, TypeOK, Stacks, taskVars, dispatchVars, hostVars, stopVars
<1>. QED
  BY <1>7, <1>8, <1>9 DEF TypeInv

LEMMA ForgetDispatchesType ==
  ASSUME TypeInv, ForgetDispatches
  PROVE  Trace(Stopper, {"forget", "forgetHosts"}) /\ TypeInv'
<1>. Stopper \in Actors
  BY ActorKinds
<1>. DEFINE f == At(Stopper, "forgetHosts")
<1>1. stack[Stopper] # <<>> /\ Top(Stopper).pc = "forget" /\ Top(Stopper) \in DropFrames
  BY InTop, FrameKinds DEF ForgetDispatches
<1>3. f \in Frames /\ f.pc = "forgetHosts" /\ Goto(Stopper, f)
  <2>1. f \in DropFrames /\ f.pc = "forgetHosts"
    BY <1>1 DEF At, DropFrames
  <2>. QED
    BY <2>1, FrameUnion DEF ForgetDispatches
<1>. HIDE DEF f
<1>7. Trace(Stopper, {"forget", "forgetHosts"})
  BY <1>1, <1>3, GotoTrace DEF TypeInv
<1>8. Stacks'
  BY <1>7, TraceStacks DEF TypeInv
<1>9. TypeOK'
  BY <1>8 DEF ForgetDispatches, TypeInv, TypeOK, Stacks, queueVars, taskVars, hostVars, stopVars
<1>. QED
  BY <1>7, <1>8, <1>9 DEF TypeInv

LEMMA ForgetHostsType ==
  ASSUME TypeInv, ForgetHosts
  PROVE  Trace(Stopper, {"forgetHosts", "wait", "drop"}) /\ TypeInv'
<1>. Stopper \in Actors
  BY ActorKinds
<1>1. stack[Stopper] # <<>> /\ Top(Stopper).pc = "forgetHosts" /\ Top(Stopper) \in DropFrames
  BY InTop, FrameKinds DEF ForgetHosts
<1>2. Top(Stopper).tasks \in SUBSET Tasks
  BY <1>1 DEF DropFrames
<1>3. /\ Frame("wait") \in Frames /\ Frame("wait").pc = "wait"
      /\ DropFrame(Top(Stopper).tasks) \in Frames /\ DropFrame(Top(Stopper).tasks).pc = "drop"
      /\ Call(Stopper, Frame("wait"), DropFrame(Top(Stopper).tasks))
  BY <1>2, MadeFrames DEF PlainPcs, ForgetHosts
<1>4. reg' \in Registry
  <2>1. reg' = RetireForShutdown(reg) /\ reg \in Registry
    BY DEF ForgetHosts, TypeInv, TypeOK
  <2>2. ASSUME NEW r \in Registry PROVE RetireForShutdown(r) \in Registry
    BY RegistryParts DEF RetireForShutdown, Entry
  <2>. QED
    BY <2>1, <2>2
<1>7. Trace(Stopper, {"forgetHosts", "wait", "drop"})
  BY <1>1, <1>3, CallTrace DEF TypeInv
<1>8. Stacks'
  BY <1>7, TraceStacks DEF TypeInv
<1>9. TypeOK'
  BY <1>4, <1>8 DEF ForgetHosts, TypeInv, TypeOK, Stacks, queueVars, taskVars, dispatchVars, hostVars, stopVars
<1>. QED
  BY <1>7, <1>8, <1>9 DEF TypeInv

LEMMA WaitIdleType ==
  ASSUME TypeInv, WaitIdle
  PROVE  Trace(Stopper, {"wait", "drop"}) /\ TypeInv'
<1>. Stopper \in Actors
  BY ActorKinds
<1>1. stack[Stopper] # <<>> /\ Top(Stopper).pc = "wait" /\ Top(Stopper) \in Frames
  BY InTop DEF WaitIdle
<1>2. DropFrame(rejected) \in Frames /\ DropFrame(rejected).pc = "drop"
  BY MadeFrames, QueueTypes
<1>3. Return(Stopper) \/ Call(Stopper, Top(Stopper), DropFrame(rejected))
  BY DEF WaitIdle
<1>4. rejected' \subseteq Tasks /\ lifecycle' \in {"running", "stopping", "stopped"}
  BY DEF WaitIdle, TypeInv, TypeOK
<1>7. Trace(Stopper, {"wait", "drop"})
  BY <1>1, <1>2, <1>3, CallTrace, ReturnTrace DEF TypeInv
<1>8. Stacks'
  BY <1>7, TraceStacks DEF TypeInv
<1>9. TypeOK'
  BY <1>4, <1>8 DEF WaitIdle, TypeInv, TypeOK, Stacks, taskVars, dispatchVars, hostVars, stopVars
<1>. QED
  BY <1>7, <1>8, <1>9 DEF TypeInv

-----------------------------------------------------------------------------
(* The bottom of the stacks.                                               *)

LEMMA Elsewhere ==
  ASSUME Stacks, NEW a \in Actors, NEW fs, Moves(a, fs)
  PROVE  \A b \in Actors \ {a} : stack'[b] = stack[b]
  BY DEF Moves, Stacks

LEMMA BottomSteady == Steady(Kind(BottomPcs)) /\ Lasting(Kind(BottomPcs))
<1>1. "return" \notin BottomPcs /\ "lease" \notin BottomPcs
  BY DEF BottomPcs
<1>. QED
  BY <1>1, SteadyKind

LEMMA BottomKept ==
  ASSUME Stacks, AtBottom, NEW a \in Actors, NEW P, Trace(a, P), \A p \in P : p \notin BottomPcs
  PROVE  AtBottom'
<1>1. Spots(stack', Kind(BottomPcs)) = Spots(stack, Kind(BottomPcs))
  <2>1. \A f \in Kind(BottomPcs) : f.pc \notin P
    BY DEF Kind
  <2>. QED
    BY <2>1, BottomSteady, Untouched
<1>. QED
  BY <1>1 DEF AtBottom

LEMMA BottomMoved ==
  ASSUME Stacks, AtBottom, NEW a \in Actors, NEW fs \in Seq(Frames), Moves(a, fs),
         stack[a] = <<>> \/ Len(stack[a]) = 1,
         \A k \in 2 .. Len(fs) : fs[k].pc \notin BottomPcs
  PROVE  AtBottom'
<1>. DEFINE X == Kind(BottomPcs)
<1>1. Spots(stack', X) = (Spots(stack, X) \ {Top1(a)}) \cup New(a, fs, X)
  BY BottomSteady, SpotsMoved
<1>2. Base(a) = 0
  BY DEF Base
<1>3. ASSUME NEW x \in New(a, fs, X) PROVE x[2] = 1
  <2>1. PICK k \in 1 .. Len(fs) : fs[k] \in X /\ x = <<a, 0 + k>>
    BY <1>2 DEF New
  <2>2. fs[k].pc \in BottomPcs
    BY <2>1 DEF Kind
  <2>3. k = 1
    <3>1. k \notin 2 .. Len(fs)
      BY <2>2
    <3>. QED
      BY <3>1
  <2>. QED
    BY <2>1, <2>3
<1>. HIDE DEF X
<1>4. \A x \in Spots(stack', X) : x[2] = 1
  BY <1>1, <1>3 DEF AtBottom, X
<1>. QED
  BY <1>4 DEF AtBottom, X

LEMMA BottomOne ==
  ASSUME Stacks, AtBottom, NEW a \in Actors, stack[a] = <<>> \/ Len(stack[a]) = 1,
         NEW f \in Frames, Moves(a, <<f>>)
  PROVE  AtBottom'
<1>1. <<f>> \in Seq(Frames) /\ \A k \in 2 .. Len(<<f>>) : FALSE
  OBVIOUS
<1>. QED
  BY <1>1, BottomMoved

LEMMA BottomNone ==
  ASSUME Stacks, AtBottom, NEW a \in Actors, Moves(a, <<>>)
  PROVE  AtBottom'
<1>1. Steady(Kind(BottomPcs)) /\ Lasting(Kind(BottomPcs)) /\ <<>> \in Seq(Frames)
  BY BottomSteady
<1>2. New(a, <<>>, Kind(BottomPcs)) = {}
  BY DEF New
<1>3. Spots(stack', Kind(BottomPcs)) \subseteq Spots(stack, Kind(BottomPcs))
  BY <1>1, <1>2, SpotsMoved
<1>. QED
  BY <1>3 DEF AtBottom

LEMMA BottomTwo ==
  ASSUME Stacks, AtBottom, NEW a \in Actors, stack[a] = <<>> \/ Len(stack[a]) = 1,
         NEW f \in Frames, NEW g \in Frames, Moves(a, <<f, g>>), g.pc \notin BottomPcs
  PROVE  AtBottom'
<1>1. <<f, g>> \in Seq(Frames) /\ \A k \in 2 .. Len(<<f, g>>) : <<f, g>>[k] = g
  OBVIOUS
<1>. QED
  BY <1>1, BottomMoved

LEMMA BottomMany ==
  ASSUME Stacks, AtBottom, NEW a \in Actors, stack[a] = <<>> \/ Len(stack[a]) = 1,
         NEW f \in Frames, NEW gs \in Seq(Frames), Moves(a, <<f>> \o gs),
         \A k \in 1 .. Len(gs) : gs[k].pc \notin BottomPcs
  PROVE  AtBottom'
<1>. DEFINE p == <<f>>
            fs == p \o gs
<1>1. p \in Seq(Frames) /\ Len(p) = 1 /\ p[1] = f /\ Len(gs) \in Nat
  OBVIOUS
<1>. HIDE DEF p
<1>2. /\ fs \in Seq(Frames) /\ Len(fs) = Len(p) + Len(gs)
      /\ \A i \in 1 .. Len(p) + Len(gs) : fs[i] = IF i <= Len(p) THEN p[i] ELSE gs[i - Len(p)]
  BY <1>1, ConcatProperties
<1>3. Moves(a, fs)
  BY DEF p
<1>. HIDE DEF fs
<1>4. ASSUME NEW k \in 2 .. Len(fs) PROVE fs[k].pc \notin BottomPcs
  <2>1. k - 1 \in 1 .. Len(gs) /\ fs[k] = gs[k - 1]
    BY <1>1, <1>2
  <2>. QED
    BY <2>1
<1>. QED
  BY <1>2, <1>3, <1>4, BottomMoved

-----------------------------------------------------------------------------
(* The shape of the stacks is kept.                                        *)

LEMMA IdleKept ==
  ASSUME Idle, NEW a \in Actors, \A b \in Actors \ {a} : stack'[b] = stack[b],
         stack[a] # <<>> \/ a \in Threads, UNCHANGED <<host, mail, lifecycle, stopping>>
  PROVE  Idle'
<1>1. /\ Running' <=> Running
      /\ \A h \in Hosts : h \in Actors /\ h \notin Threads
      /\ Stopper \in Actors /\ Stopper \notin Threads
  BY ActorKinds, ActorsAssumption DEF Running
<1>2. ASSUME NEW h \in Hosts, host[h] = "absent" PROVE stack'[h] = <<>> /\ mail'[h] = NoDispatch
  BY <1>1, <1>2 DEF Idle
<1>3. ASSUME Running PROVE stack'[Stopper] = <<>>
  BY <1>1, <1>3 DEF Idle
<1>. QED
  BY <1>1, <1>2, <1>3 DEF Idle

LEMMA TraceElsewhere ==
  ASSUME Stacks, NEW a \in Actors, NEW P, Trace(a, P)
  PROVE  \A b \in Actors \ {a} : stack'[b] = stack[b]
  BY Elsewhere DEF Trace

LEMMA QuietShape ==
  ASSUME TypeInv, ShapeInv, NEW a \in Actors, NEW P, Trace(a, P), stack[a] # <<>>,
         \A p \in P : p \notin BottomPcs, UNCHANGED <<host, mail, lifecycle, stopping>>
  PROVE  ShapeInv'
  BY BottomKept, IdleKept, TraceElsewhere DEF ShapeInv, TypeInv

LEMMA SubmitShape ==
  ASSUME TypeInv, ShapeInv, NEW p \in Threads, NEW t \in Tasks, Submit(p, t)
  PROVE  ShapeInv'
<1>. p \in Actors
  BY ActorKinds
<1>1. Trace(p, {"push"}) /\ \A q \in {"push"} : q \notin BottomPcs
  BY SubmitType DEF BottomPcs
<1>2. UNCHANGED <<host, mail, lifecycle, stopping>>
  BY DEF Submit, hostVars, stopVars
<1>. QED
  BY <1>1, <1>2, BottomKept, IdleKept, TraceElsewhere DEF ShapeInv, TypeInv

LEMMA WakeShape ==
  ASSUME TypeInv, ShapeInv, NEW p \in Threads, NEW t \in Tasks, Wake(p, t)
  PROVE  ShapeInv'
<1>. p \in Actors
  BY ActorKinds
<1>1. Trace(p, {"push"}) \/ UNCHANGED stack
  BY WakeType
<1>2. UNCHANGED <<host, mail, lifecycle, stopping>> /\ \A q \in {"push"} : q \notin BottomPcs
  BY DEF Wake, hostVars, stopVars, BottomPcs
<1>3. CASE Trace(p, {"push"})
  BY <1>2, <1>3, BottomKept, IdleKept, TraceElsewhere DEF ShapeInv, TypeInv
<1>4. CASE UNCHANGED stack
  BY <1>2, <1>4, IdleKept DEF ShapeInv, AtBottom
<1>. QED
  BY <1>1, <1>3, <1>4

LEMMA BeginDriveShape ==
  ASSUME TypeInv, ShapeInv, NEW p \in Threads, BeginDrive(p)
  PROVE  ShapeInv'
<1>. p \in Actors
  BY ActorKinds
<1>1. Trace(p, {"drive"}) /\ \A q \in {"drive"} : q \notin BottomPcs
  BY BeginDriveType DEF BottomPcs
<1>2. UNCHANGED <<host, mail, lifecycle, stopping>>
  BY DEF BeginDrive, hostVars, stopVars
<1>. QED
  BY <1>1, <1>2, BottomKept, IdleKept, TraceElsewhere DEF ShapeInv, TypeInv

LEMMA SendShape ==
  ASSUME TypeInv, ShapeInv, NEW a \in Actors, Send(a)
  PROVE  ShapeInv'
<1>1. /\ Trace(a, {"send", "accept", "reject"}) /\ stack[a] # <<>>
      /\ \A p \in {"send", "accept", "reject"} : p \notin BottomPcs
  BY SendType, InTop DEF Send, BottomPcs
<1>2. /\ \A b \in Actors \ {a} : stack'[b] = stack[b]
      /\ AtBottom'
  BY <1>1, BottomKept, TraceElsewhere DEF ShapeInv, TypeInv
<1>3. /\ UNCHANGED <<host, lifecycle, stopping>>
      /\ \A h \in Hosts : host[h] = "absent" => mail'[h] = mail[h]
  <2>1. UNCHANGED <<host, lifecycle, stopping>>
    BY DEF Send, stopVars
  <2>2. \E h : \/ host[h] = "live" /\ mail' = [mail EXCEPT ![h] = Top(a).dispatch]
               \/ UNCHANGED mail
    BY DEF Send
  <2>3. mail \in [Hosts -> Dispatches \cup {NoDispatch}]
    BY DEF TypeInv, TypeOK
  <2>. QED
    BY <2>1, <2>2, <2>3
<1>4. \A h \in Hosts : h \in Actors
  BY ActorKinds
<1>5. Stopper \in Actors /\ (Running' <=> Running)
  BY <1>3, ActorKinds DEF Running
<1>6. Idle'
  <2>1. ASSUME NEW h \in Hosts, host'[h] = "absent" PROVE stack'[h] = <<>> /\ mail'[h] = NoDispatch
    BY <1>1, <1>2, <1>3, <1>4, <2>1 DEF ShapeInv, Idle
  <2>2. ASSUME Running PROVE stack'[Stopper] = <<>>
    BY <1>1, <1>2, <1>5, <2>2 DEF ShapeInv, Idle
  <2>3. Running' <=> ~ stopping'
    BY <1>3, <1>5 DEF ShapeInv, Idle
  <2>. QED
    BY <1>5, <2>1, <2>2, <2>3 DEF Idle
<1>. QED
  BY <1>2, <1>6 DEF ShapeInv

(* A host enters or leaves; hosts are not the one that stops the runtime.  *)
LEMMA IdleOfHost ==
  ASSUME TypeInv, Idle, NEW h \in Hosts, NEW P, Trace(h, P) \/ UNCHANGED stack,
         UNCHANGED <<lifecycle, stopping>>, host'[h] # "absent",
         \A g \in Hosts \ {h} : host'[g] = host[g] /\ mail'[g] = mail[g]
  PROVE  Idle'
<1>1. \A b \in Actors \ {h} : stack'[b] = stack[b]
  BY ActorKinds, TraceElsewhere DEF TypeInv
<1>2. Stopper \in Actors \ {h} /\ (Running' <=> Running) /\ \A g \in Hosts : g \in Actors
  BY ActorKinds, ActorsAssumption DEF Running
<1>. QED
  BY <1>1, <1>2 DEF Idle

LEMMA RegisterHostShape ==
  ASSUME TypeInv, ShapeInv, NEW h \in Hosts, RegisterHost(h)
  PROVE  ShapeInv'
<1>1. Trace(h, {"rdq"}) /\ \A q \in {"rdq"} : q \notin BottomPcs
  BY RegisterHostType DEF BottomPcs
<1>2. /\ UNCHANGED <<lifecycle, stopping>> /\ host'[h] # "absent"
      /\ \A g \in Hosts \ {h} : host'[g] = host[g] /\ mail'[g] = mail[g]
  BY DEF RegisterHost, stopVars, TypeInv, TypeOK
<1>3. AtBottom'
  BY <1>1, BottomKept, ActorKinds DEF ShapeInv, TypeInv
<1>4. Idle'
  BY <1>1, <1>2, IdleOfHost DEF ShapeInv
<1>. QED
  BY <1>3, <1>4 DEF ShapeInv

LEMMA LeaveShape ==
  ASSUME TypeInv, ShapeInv, NEW h \in Hosts, Leave(h)
  PROVE  ShapeInv'
<1>1. Trace(h, {"evict"}) /\ Moves(h, <<Frame("evict")>>)
  BY LeaveType
<1>2. /\ UNCHANGED <<lifecycle, stopping>> /\ host'[h] # "absent"
      /\ \A g \in Hosts \ {h} : host'[g] = host[g] /\ mail'[g] = mail[g]
  BY DEF Leave, stopVars, TypeInv, TypeOK
<1>3. stack[h] = <<>> /\ Frame("evict") \in Frames
  BY MadeFrames DEF Leave, PlainPcs
<1>4. AtBottom'
  BY <1>1, <1>3, BottomOne, ActorKinds DEF ShapeInv, TypeInv
<1>5. Idle'
  BY <1>1, <1>2, IdleOfHost DEF ShapeInv
<1>. QED
  BY <1>4, <1>5 DEF ShapeInv

LEMMA CallbackShape ==
  ASSUME TypeInv, ShapeInv, NEW h \in Hosts, Callback(h)
  PROVE  ShapeInv'
<1>. h \in Actors
  BY ActorKinds
<1>1. (Trace(h, {"admit", "fail"}) \/ UNCHANGED stack) /\ stack[h] = <<>>
  BY CallbackType DEF Callback
<1>2. host[h] # "absent"
  BY DEF Callback, ShapeInv, Idle
<1>3. /\ UNCHANGED <<lifecycle, stopping>> /\ host'[h] # "absent"
      /\ \A g \in Hosts \ {h} : host'[g] = host[g] /\ mail'[g] = mail[g]
  BY <1>2 DEF Callback, stopVars, TypeInv, TypeOK
<1>4. Idle'
  BY <1>1, <1>3, IdleOfHost DEF ShapeInv
<1>5. AtBottom'
  <2>1. CASE UNCHANGED stack
    BY <2>1 DEF ShapeInv, AtBottom
  <2>2. CASE ~ UNCHANGED stack
    <3>. DEFINE d == mail[h]
                claims == host[h] = "live" /\ CanClaim(reg, h, d)
                f == [pc |-> IF claims THEN "admit" ELSE "fail", dispatch |-> d]
    <3>1. stack' = [stack EXCEPT ![h] = <<f>>]
      BY <2>2 DEF Callback
    <3>2. d \in Dispatches
      BY DEF Callback, TypeInv, TypeOK
    <3>3. f \in Frames
      BY <3>2, MadeFrames
    <3>. HIDE DEF f
    <3>4. Moves(h, <<f>>)
      BY <1>1, <3>1, <3>3, OpenOne DEF TypeInv
    <3>. QED
      BY <1>1, <3>3, <3>4, BottomOne DEF ShapeInv, TypeInv
  <2>. QED
    BY <2>1, <2>2
<1>. QED
  BY <1>4, <1>5 DEF ShapeInv

(* The steps of a host turn.                                               *)
LEMMA HostShape ==
  ASSUME TypeInv, ShapeInv, NEW h \in Hosts, NEW P, Trace(h, P), stack[h] # <<>>,
         UNCHANGED <<host, mail, lifecycle, stopping>>, AtBottom'
  PROVE  ShapeInv'
  BY ActorKinds, IdleKept, TraceElsewhere DEF ShapeInv, TypeInv

LEMMA AdmitShape ==
  ASSUME TypeInv, ShapeInv, NEW h \in Hosts, Admit(h)
  PROVE  ShapeInv'
<1>. h \in Actors
  BY ActorKinds
<1>1. stack[h] # <<>> /\ Top(h).pc = "admit" /\ Top(h) \in AdmitFrames
  BY InTop, FrameKinds DEF Admit
<1>2. /\ At(h, "mark") \in Frames /\ At(h, "fail") \in Frames
  <2>1. At(h, "mark") \in AdmitFrames /\ At(h, "fail") \in AdmitFrames
    BY <1>1 DEF At, AdmitFrames
  <2>. QED
    BY <2>1, FrameUnion
<1>3. Goto(h, At(h, "mark")) \/ Goto(h, At(h, "fail"))
  BY DEF Admit
<1>4. Moves(h, <<At(h, "mark")>>) \/ Moves(h, <<At(h, "fail")>>)
  BY <1>1, <1>2, <1>3, GotoMoves DEF TypeInv
<1>5. Len(stack[h]) = 1
  BY <1>1, OnlyFrame DEF BottomPcs
<1>6. AtBottom'
  BY <1>2, <1>4, <1>5, BottomOne DEF ShapeInv, TypeInv
<1>7. UNCHANGED <<host, mail, lifecycle, stopping>>
  BY DEF Admit, hostVars, stopVars
<1>. QED
  BY <1>1, <1>6, <1>7, AdmitType, HostShape

LEMMA MarkShape ==
  ASSUME TypeInv, ShapeInv, NEW h \in Hosts, Mark(h)
  PROVE  ShapeInv'
<1>. h \in Actors
  BY ActorKinds
<1>1. /\ stack[h] # <<>> /\ Top(h).pc = "mark"
      /\ Frame("retire") \in Frames /\ Frame("retire").pc = "retire"
  BY MarkMoves
<1>2. PICK f \in Frames : f.pc = "turn" /\ Call(h, f, Frame("retire"))
  BY MarkMoves
<1>3. Moves(h, <<f, Frame("retire")>>)
  BY <1>1, <1>2, CallMoves DEF TypeInv
<1>5. Len(stack[h]) = 1 /\ "retire" \notin BottomPcs
  BY <1>1, OnlyFrame DEF BottomPcs
<1>6. AtBottom'
  BY <1>1, <1>3, <1>5, BottomTwo DEF ShapeInv, TypeInv
<1>7. UNCHANGED <<host, mail, lifecycle, stopping>>
  BY DEF Mark, hostVars, stopVars
<1>. QED
  BY <1>1, <1>6, <1>7, MarkType, HostShape

LEMMA DriveTurnShape ==
  ASSUME TypeInv, ShapeInv, NEW h \in Hosts, DriveTurn(h)
  PROVE  ShapeInv'
<1>. h \in Actors
  BY ActorKinds
<1>1. stack[h] # <<>> /\ Top(h).pc = "turn"
  BY DriveTurnMoves
<1>5. Len(stack[h]) = 1 /\ "poll" \notin BottomPcs
  BY <1>1, OnlyFrame DEF BottomPcs
<1>6. AtBottom'
  <2>1. ASSUME NEW f \in Frames, f.pc = "turn", TakeRunnable(h, f) PROVE AtBottom'
    <3>. DEFINE g == [pc |-> "poll", task |-> Head(queue)]
    <3>1. g \in Frames /\ g.pc = "poll" /\ Call(h, f, g)
      <4>1. queue # <<>> /\ Head(queue) \in Tasks
        BY <2>1, QueueTypes DEF TakeRunnable, CanTake
      <4>. QED
        BY <2>1, <4>1, MadeFrames DEF TakeRunnable
    <3>. HIDE DEF g
    <3>2. Moves(h, <<f, g>>)
      BY <1>1, <2>1, <3>1, CallMoves DEF TypeInv
    <3>. QED
      BY <1>5, <3>1, <3>2, BottomTwo DEF ShapeInv, TypeInv
  <2>2. CASE At(h, "release") \in Frames /\ Goto(h, At(h, "release"))
    <3>1. Moves(h, <<At(h, "release")>>)
      BY <1>1, <2>2, GotoMoves DEF TypeInv
    <3>. QED
      BY <1>5, <2>2, <3>1, BottomOne DEF ShapeInv, TypeInv
  <2>. QED
    BY <2>1, <2>2, DriveTurnMoves
<1>7. UNCHANGED <<host, mail, lifecycle, stopping>>
  BY DEF DriveTurn, hostVars, stopVars
<1>. QED
  BY <1>1, <1>6, <1>7, DriveTurnType, HostShape

LEMMA ReleaseDrainingShape ==
  ASSUME TypeInv, ShapeInv, NEW h \in Hosts, ReleaseDraining(h)
  PROVE  ShapeInv'
<1>. h \in Actors
  BY ActorKinds
<1>1. /\ stack[h] # <<>> /\ Top(h).pc = "release" /\ At(h, "again") \in Frames
      /\ Goto(h, At(h, "again"))
  BY InTop, TurnEnds DEF ReleaseDraining
<1>2. Moves(h, <<At(h, "again")>>)
  BY <1>1, GotoMoves DEF TypeInv
<1>5. Len(stack[h]) = 1
  BY <1>1, OnlyFrame DEF BottomPcs
<1>6. AtBottom'
  BY <1>1, <1>2, <1>5, BottomOne DEF ShapeInv, TypeInv
<1>7. UNCHANGED <<host, mail, lifecycle, stopping>>
  BY DEF ReleaseDraining, hostVars, stopVars
<1>. QED
  BY <1>1, <1>6, <1>7, ReleaseDrainingType, HostShape

LEMMA ContinueShape ==
  ASSUME TypeInv, ShapeInv, NEW h \in Hosts, Continue(h)
  PROVE  ShapeInv'
<1>. h \in Actors
  BY ActorKinds
<1>1. /\ stack[h] # <<>> /\ Top(h).pc = "again" /\ At(h, "ack") \in Frames /\ Stacks
  BY InTop, TurnEnds DEF Continue, TypeInv
<1>2. RequestDrain(h, At(h, "ack")) \/ Goto(h, At(h, "ack"))
  BY DEF Continue
<1>5. Len(stack[h]) = 1 /\ "enter" \notin BottomPcs /\ AtBottom
  BY <1>1, OnlyFrame DEF BottomPcs, ShapeInv
<1>6. AtBottom'
  <2>1. CASE Goto(h, At(h, "ack"))
    BY <1>1, <1>5, <2>1, GotoMoves, BottomOne
  <2>2. CASE \E g \in Frames : Moves(h, <<g>>)
    BY <1>1, <1>5, <2>2, BottomOne
  <2>3. CASE Moves(h, <<>>)
    BY <1>1, <1>5, <2>3, BottomNone
  <2>4. CASE \E d \in Dispatches :
                 /\ PublishFrame(d) \in Frames /\ PublishFrame(d).pc = "enter"
                 /\ Moves(h, <<At(h, "ack"), PublishFrame(d)>>)
    BY <1>1, <1>5, <2>4, BottomTwo
  <2>5. CASE RequestDrain(h, At(h, "ack"))
    BY <1>1, <2>2, <2>3, <2>4, <2>5, Requested
  <2>. QED
    BY <1>2, <2>1, <2>5
<1>7. UNCHANGED <<host, mail, lifecycle, stopping>>
  BY DEF Continue, hostVars, stopVars
<1>. QED
  BY <1>1, <1>6, <1>7, ContinueType, HostShape

LEMMA AcknowledgeShape ==
  ASSUME TypeInv, ShapeInv, NEW h \in Hosts, Acknowledge(h)
  PROVE  ShapeInv'
<1>. h \in Actors
  BY ActorKinds
<1>1. stack[h] # <<>> /\ Len(stack[h]) = 1 /\ "complete" \notin BottomPcs /\ AtBottom /\ Stacks
  BY AcknowledgeMoves DEF BottomPcs, ShapeInv, TypeInv
<1>6. AtBottom'
  <2>1. CASE Moves(h, <<>>)
    BY <1>1, <2>1, BottomNone
  <2>2. ASSUME NEW f \in Frames, NEW gs \in Seq(Frames),
                 Moves(h, <<f>> \o gs), \A k \in 1 .. Len(gs) : gs[k].pc = "complete"
        PROVE AtBottom'
    BY <1>1, <2>2, BottomMany
  <2>. QED
    BY <2>1, <2>2, AcknowledgeMoves
<1>7. UNCHANGED <<host, mail, lifecycle, stopping>>
  BY DEF Acknowledge, hostVars, stopVars
<1>. QED
  BY <1>1, <1>6, <1>7, AcknowledgeType, HostShape

LEMMA EvictShape ==
  ASSUME TypeInv, ShapeInv, NEW h \in Hosts, Evict(h)
  PROVE  ShapeInv'
<1>. h \in Actors
  BY ActorKinds
<1>1. stack[h] # <<>> /\ AtBottom /\ Stacks /\ Trace(h, {"evict", "gone", "rdq", "complete"})
  BY EvictMoves, EvictType DEF ShapeInv, TypeInv
<1>2. AtBottom'
  <2>1. CASE Return(h)
    <3>1. "done" \in Results /\ ReturnWith(h, "done")
      BY <2>1 DEF Results, Return, ReturnWith
    <3>. QED
      BY <1>1, <3>1, ReturnMoves, BottomNone
  <2>2. CASE /\ Len(stack[h]) = 1
             /\ \E fs \in Seq(Frames) :
                    /\ Moves(h, fs)
                    /\ \A k \in 1 .. Len(fs) : fs[k].pc \in {"gone", "rdq", "complete"}
    <3>1. PICK fs \in Seq(Frames) :
                    /\ Moves(h, fs)
                    /\ \A k \in 1 .. Len(fs) : fs[k].pc \in {"gone", "rdq", "complete"}
      BY <2>2
    <3>2. \A k \in 2 .. Len(fs) : fs[k].pc \notin BottomPcs
      BY <3>1 DEF BottomPcs
    <3>. QED
      BY <1>1, <2>2, <3>1, <3>2, BottomMoved
  <2>. QED
    BY <2>1, <2>2, EvictMoves
<1>3. host[h] # "absent" /\ host \in [Hosts -> {"absent", "live", "closing", "gone"}]
  BY <1>1 DEF ShapeInv, Idle, TypeInv, TypeOK
<1>4. /\ UNCHANGED <<lifecycle, stopping>> /\ host'[h] # "absent"
      /\ \A g \in Hosts \ {h} : host'[g] = host[g] /\ mail'[g] = mail[g]
  BY <1>3, EvictMoves DEF Evict, stopVars
<1>5. Idle'
  BY <1>1, <1>4, IdleOfHost DEF ShapeInv
<1>. QED
  BY <1>2, <1>5 DEF ShapeInv

LEMMA BeginStopShape ==
  ASSUME TypeInv, ShapeInv, BeginStop
  PROVE  ShapeInv'
<1>. Stopper \in Actors
  BY ActorKinds
<1>1. /\ Trace(Stopper, {"abort"}) /\ stack[Stopper] = <<>>
      /\ Moves(Stopper, <<Frame("abort")>>) /\ Frame("abort") \in Frames
      /\ AtBottom /\ Stacks
  BY BeginStopType DEF ShapeInv, TypeInv
<1>2. AtBottom'
  BY <1>1, BottomOne
<1>3. Idle'
  <2>1. \A b \in Actors \ {Stopper} : stack'[b] = stack[b]
    BY <1>1, TraceElsewhere
  <2>2. \A h \in Hosts : h \in Actors \ {Stopper}
    BY ActorKinds, ActorsAssumption
  <2>3. ~ Running' /\ stopping' /\ UNCHANGED <<host, mail>>
    BY DEF BeginStop, Running, hostVars
  <2>. QED
    BY <2>1, <2>2, <2>3 DEF ShapeInv, Idle
<1>. QED
  BY <1>2, <1>3 DEF ShapeInv

LEMMA AbortTasksShape ==
  ASSUME TypeInv, ShapeInv, AbortTasks
  PROVE  ShapeInv'
<1>. Stopper \in Actors
  BY ActorKinds
<1>. DEFINE w == WakerFrames(SetToSeq({t \in Tasks : task[t] = "waiting"}))
<1>1. /\ stack[Stopper] # <<>> /\ Len(stack[Stopper]) = 1 /\ Frame("close") \in Frames
      /\ w \in Seq(Frames) /\ \A k \in 1 .. Len(w) : w[k].pc = "push"
      /\ Moves(Stopper, <<Frame("close")>> \o w) /\ AtBottom /\ Stacks
  BY AbortTasksMoves DEF ShapeInv, TypeInv
<1>. HIDE DEF w
<1>2. AtBottom'
  <2>1. "push" \notin BottomPcs
    BY DEF BottomPcs
  <2>. QED
    BY <1>1, <2>1, BottomMany
<1>3. \A b \in Actors \ {Stopper} : stack'[b] = stack[b]
  BY AbortTasksType, TraceElsewhere DEF TypeInv
<1>4. UNCHANGED <<host, mail, lifecycle, stopping>>
  BY DEF AbortTasks, hostVars, stopVars
<1>. QED
  BY <1>1, <1>2, <1>3, <1>4, IdleKept DEF ShapeInv

LEMMA WaitIdleShape ==
  ASSUME TypeInv, ShapeInv, WaitIdle
  PROVE  ShapeInv'
<1>. Stopper \in Actors
  BY ActorKinds
<1>1. /\ Trace(Stopper, {"wait", "drop"}) /\ stack[Stopper] # <<>>
      /\ \A p \in {"wait", "drop"} : p \notin BottomPcs
  BY WaitIdleType, InTop DEF WaitIdle, BottomPcs
<1>2. AtBottom'
  BY <1>1, BottomKept DEF ShapeInv, TypeInv
<1>3. Idle'
  <2>1. \A b \in Actors \ {Stopper} : stack'[b] = stack[b]
    BY <1>1, TraceElsewhere DEF TypeInv
  <2>2. \A h \in Hosts : h \in Actors \ {Stopper}
    BY ActorKinds, ActorsAssumption
  <2>3. ~ Running
    BY <1>1 DEF ShapeInv, Idle
  <2>4. ~ Running' /\ UNCHANGED <<host, mail, stopping>>
    BY <2>3 DEF WaitIdle, Running, hostVars
  <2>. QED
    BY <2>1, <2>2, <2>3, <2>4 DEF ShapeInv, Idle
<1>. QED
  BY <1>2, <1>3 DEF ShapeInv

-----------------------------------------------------------------------------
(* What a step may disturb: a claim, the calls under way, the destroyers   *)
(* of futures, the tasks, the registry, or the bottom of a stack.          *)

TurnClaim == {"mark", "turn", "release"}
CancelClaim == {"move", "purge", "reopen"}
CallPcs == PublishPcs \ {"settled", "uncancelPublish"}
GuardedPcs == {"purge", "abort", "close", "forget", "forgetHosts", "wait"}
TaskPcs == {"push", "drop", "forget", "forgetHosts", "poll"}
BusyPcs == TurnPcs \cup PublishPcs

TurnMoves == \E h \in Hosts : Admit(h) \/ Mark(h) \/ DriveTurn(h) \/ ReleaseDraining(h)
CancelMoves == \E a \in Actors : \/ Settle(a) \/ Move(a) \/ Purge(a) \/ Attempt(a)
                                 \/ Reopen(a) \/ CancelDispatch(a)
PubMoves == \/ \E a \in Actors : \/ Offered(a) \/ Enter(a) \/ PlanDeliveries(a) \/ Send(a)
                                 \/ Accept(a) \/ Reject(a) \/ Finish(a) \/ Settle(a)
                                 \/ Attempt(a) \/ LastOffer(a) \/ CancelDispatch(a)
                                 \/ JoinDispatch(a)
            \/ \E h \in Hosts : Continue(h)
DropMoves == \/ \E a \in Actors : \/ Drop(a) \/ Retire(a) \/ Move(a) \/ Purge(a)
                                  \/ Complete(a) \/ RequestQueued(a)
             \/ BeginStop \/ StopStep
TaskMoves == \/ \E p \in Threads : DriveOne(p) \/ \E t \in Tasks : Submit(p, t) \/ Wake(p, t)
             \/ \E a \in Actors : \/ Push(a) \/ Drop(a) \/ Retire(a) \/ Move(a) \/ Purge(a)
                                  \/ Complete(a) \/ RequestQueued(a) \/ Poll(a)
             \/ (\E h \in Hosts : DriveTurn(h)) \/ StopStep
RegMoves == \/ \E a \in Actors : \/ Enter(a) \/ PlanDeliveries(a) \/ Accept(a) \/ Reject(a)
                                 \/ Finish(a) \/ Settle(a) \/ UncancelPublish(a) \/ Uncancel(a)
            \/ \E h \in Hosts : \/ RegisterHost(h) \/ Leave(h) \/ Callback(h) \/ Mark(h)
                                \/ Acknowledge(h) \/ Evict(h)
            \/ BeginStop \/ ForgetHosts \/ WaitIdle
BusyMoves == \/ \E a \in Actors : \/ Offered(a) \/ Publication(a) \/ Attempt(a) \/ LastOffer(a)
                                  \/ CancelDispatch(a) \/ JoinDispatch(a)
             \/ \E h \in Hosts : \/ Admit(h) \/ Mark(h) \/ DriveTurn(h) \/ ReleaseDraining(h)
                                 \/ Continue(h) \/ Acknowledge(h)
ShapeMoves == \/ \E p \in Threads : BeginDrive(p) \/ \E t \in Tasks : Submit(p, t) \/ Wake(p, t)
              \/ \E a \in Actors : Send(a)
              \/ \E h \in Hosts : RegisterHost(h) \/ Leave(h) \/ HostStep(h)
              \/ BeginStop \/ AbortTasks \/ WaitIdle

Spares(P, S) == \A p \in P : p \notin S

(* A step of a, through frames of P.                                       *)
Footprint(a, P) ==
  /\ Trace(a, P) \/ UNCHANGED stack
  /\ TypeInv'
  /\ TurnMoves \/ (Spares(P, TurnClaim) /\ UNCHANGED draining)
  /\ CancelMoves \/ (Spares(P, CancelClaim) /\ UNCHANGED cancelling)
  /\ PubMoves \/ (Spares(P, CallPcs) /\ UNCHANGED publication)
  /\ DropMoves \/ Spares(P, GuardedPcs \cup {"drop"})
  /\ TaskMoves \/ (Spares(P, TaskPcs) /\ UNCHANGED <<queue, rejected, task>>)
  /\ RegMoves \/ UNCHANGED <<reg, host, lifecycle>>
  /\ BusyMoves \/ Spares(P, BusyPcs)
  /\ BeginStop \/ WaitIdle \/ UNCHANGED lifecycle
  /\ ShapeMoves \/ (/\ Trace(a, P) /\ Spares(P, BottomPcs) /\ stack[a] # <<>>
                    /\ UNCHANGED <<host, mail, lifecycle, stopping>>)
Foot == \E a \in Actors : \E P : Footprint(a, P)

LEMMA Footprints ==
  ASSUME TypeInv, ShapeInv, Next
  PROVE  Foot
<1>. USE DEF Spares, TurnClaim, CancelClaim, CallPcs, PublishPcs, GuardedPcs, TaskPcs, BusyPcs, TurnPcs, BottomPcs,
     Publication, BusyMoves, TurnMoves, CancelMoves, PubMoves, DropMoves, TaskMoves, RegMoves,
     ShapeMoves, StopStep, HostStep,
     queueVars, taskVars, dispatchVars, hostVars, stopVars
<1>1. ASSUME NEW p \in Threads, NEW t \in Tasks, Submit(p, t) PROVE Foot
  <2>1. Footprint(p, {"push"})
    BY <1>1, SubmitType, ActorKinds, InTop DEF Footprint, Submit
  <2>. QED
    BY <2>1, ActorKinds DEF Foot
<1>2. ASSUME NEW p \in Threads, NEW t \in Tasks, Wake(p, t) PROVE Foot
  <2>1. Footprint(p, {"push"})
    BY <1>2, WakeType, ActorKinds, InTop DEF Footprint, Wake
  <2>. QED
    BY <2>1, ActorKinds DEF Foot
<1>3. ASSUME NEW p \in Threads, BeginDrive(p) PROVE Foot
  <2>1. Footprint(p, {"drive"})
    BY <1>3, BeginDriveType, ActorKinds, InTop DEF Footprint, BeginDrive
  <2>. QED
    BY <2>1, ActorKinds DEF Foot
<1>4. ASSUME NEW p \in Threads, DriveOne(p) PROVE Foot
  <2>1. Footprint(p, {"drive", "poll"})
    BY <1>4, DriveOneType, ActorKinds, InTop DEF Footprint, DriveOne
  <2>. QED
    BY <2>1, ActorKinds DEF Foot
<1>5. ASSUME NEW p \in Threads, EndDrive(p) PROVE Foot
  <2>1. Footprint(p, {"drive"})
    BY <1>5, EndDriveType, ActorKinds, InTop DEF Footprint, EndDrive
  <2>. QED
    BY <2>1, ActorKinds DEF Foot
<1>6. ASSUME NEW a \in Actors, Push(a) PROVE Foot
  <2>1. Footprint(a, {"push", "offer"})
    BY <1>6, PushType, InTop DEF Footprint, Push
  <2>. QED
    BY <2>1 DEF Foot
<1>7. ASSUME NEW a \in Actors, Offered(a) PROVE Foot
  <2>1. Footprint(a, {"offer", "return", "enter"})
    BY <1>7, OfferedType, InTop DEF Footprint, Offered
  <2>. QED
    BY <2>1 DEF Foot
<1>8. ASSUME NEW a \in Actors, Enter(a) PROVE Foot
  <2>1. Footprint(a, {"enter", "settle", "complete", "plan"})
    BY <1>8, EnterType, InTop DEF Footprint, Enter
  <2>. QED
    BY <2>1 DEF Foot
<1>9. ASSUME NEW a \in Actors, PlanDeliveries(a) PROVE Foot
  <2>1. Footprint(a, {"plan", "settle", "complete", "finish", "send"})
    BY <1>9, PlanDeliveriesType, InTop DEF Footprint, PlanDeliveries
  <2>. QED
    BY <2>1 DEF Foot
<1>10. ASSUME NEW a \in Actors, Send(a) PROVE Foot
  <2>1. Footprint(a, {"send", "accept", "reject"})
    BY <1>10, SendType, InTop DEF Footprint, Send
  <2>. QED
    BY <2>1 DEF Foot
<1>11. ASSUME NEW a \in Actors, Accept(a) PROVE Foot
  <2>1. Footprint(a, {"accept", "finish", "send"})
    BY <1>11, AcceptType, InTop DEF Footprint, Accept
  <2>. QED
    BY <2>1 DEF Foot
<1>12. ASSUME NEW a \in Actors, Reject(a) PROVE Foot
  <2>1. Footprint(a, {"reject", "finish", "send"})
    BY <1>12, RejectType, InTop DEF Footprint, Reject
  <2>. QED
    BY <2>1 DEF Foot
<1>13. ASSUME NEW a \in Actors, Finish(a) PROVE Foot
  <2>1. Footprint(a, {"finish", "settle", "complete"})
    BY <1>13, FinishType, InTop DEF Footprint, Finish
  <2>. QED
    BY <2>1 DEF Foot
<1>14. ASSUME NEW a \in Actors, Settle(a) PROVE Foot
  <2>1. Footprint(a, {"settle", "enter", "uncancelPublish", "move", "settled"})
    BY <1>14, SettleType, InTop DEF Footprint, Settle
  <2>. QED
    BY <2>1 DEF Foot
<1>15. ASSUME NEW a \in Actors, UncancelPublish(a) PROVE Foot
  <2>1. Footprint(a, {"uncancelPublish", "settled"})
    BY <1>15, UncancelPublishType, InTop DEF Footprint, UncancelPublish
  <2>. QED
    BY <2>1 DEF Foot
<1>16. ASSUME NEW a \in Actors, Drop(a) PROVE Foot
  <2>1. Footprint(a, {"drop", "push"})
    BY <1>16, DropType, InTop DEF Footprint, Drop
  <2>. QED
    BY <2>1 DEF Foot
<1>17. ASSUME NEW a \in Actors, Retire(a) PROVE Foot
  <2>1. Footprint(a, {"retire", "drop"})
    BY <1>17, RetireStepType, InTop DEF Footprint, Retire
  <2>. QED
    BY <2>1 DEF Foot
<1>18. ASSUME NEW a \in Actors, Move(a) PROVE Foot
  <2>1. Footprint(a, {"move", "attempt", "purge"})
    BY <1>18, MoveType, InTop DEF Footprint, Move
  <2>. QED
    BY <2>1 DEF Foot
<1>19. ASSUME NEW a \in Actors, Purge(a) PROVE Foot
  <2>1. Footprint(a, {"purge", "drop"})
    BY <1>19, PurgeType, InTop DEF Footprint, Purge
  <2>. QED
    BY <2>1 DEF Foot
<1>20. ASSUME NEW a \in Actors, Attempt(a) PROVE Foot
  <2>1. Footprint(a, {"attempt", "enter", "reopen"})
    BY <1>20, AttemptType, InTop DEF Footprint, Attempt
  <2>. QED
    BY <2>1 DEF Foot
<1>21. ASSUME NEW a \in Actors, Reopen(a) PROVE Foot
  <2>1. Footprint(a, {"reopen", "last"})
    BY <1>21, ReopenType, InTop DEF Footprint, Reopen
  <2>. QED
    BY <2>1 DEF Foot
<1>22. ASSUME NEW a \in Actors, LastOffer(a) PROVE Foot
  <2>1. Footprint(a, {"last", "return", "enter"})
    BY <1>22, LastOfferType, InTop DEF Footprint, LastOffer
  <2>. QED
    BY <2>1 DEF Foot
<1>23. ASSUME NEW a \in Actors, Complete(a) PROVE Foot
  <2>1. Footprint(a, {"complete", "cancel", "rdq", "retire", "drop"})
    BY <1>23, CompleteType, InTop DEF Footprint, Complete
  <2>. QED
    BY <2>1 DEF Foot
<1>24. ASSUME NEW a \in Actors, CancelDispatch(a) PROVE Foot
  <2>1. Footprint(a, {"cancel", "uncancel", "move", "enter", "retire"})
    BY <1>24, CancelDispatchType, InTop DEF Footprint, CancelDispatch
  <2>. QED
    BY <2>1 DEF Foot
<1>25. ASSUME NEW a \in Actors, Uncancel(a) PROVE Foot
  <2>1. Footprint(a, {"uncancel", "retire"})
    BY <1>25, UncancelType, InTop DEF Footprint, Uncancel
  <2>. QED
    BY <2>1 DEF Foot
<1>26. ASSUME NEW a \in Actors, RequestQueued(a) PROVE Foot
  <2>1. Footprint(a, {"rdq", "drop", "rdqJoin"})
    BY <1>26, RequestQueuedType, InTop DEF Footprint, RequestQueued
  <2>. QED
    BY <2>1 DEF Foot
<1>27. ASSUME NEW a \in Actors, JoinDispatch(a) PROVE Foot
  <2>1. Footprint(a, {"rdqJoin", "return", "enter"})
    BY <1>27, JoinDispatchType, InTop DEF Footprint, JoinDispatch
  <2>. QED
    BY <2>1 DEF Foot
<1>28. ASSUME NEW a \in Actors, Poll(a) PROVE Foot
  <2>1. Footprint(a, {"poll", "return", "push"})
    BY <1>28, PollType, InTop DEF Footprint, Poll
  <2>. QED
    BY <2>1 DEF Foot
<1>29. ASSUME NEW h \in Hosts, RegisterHost(h) PROVE Foot
  <2>1. Footprint(h, {"rdq"})
    BY <1>29, RegisterHostType, ActorKinds, InTop DEF Footprint, RegisterHost
  <2>. QED
    BY <2>1, ActorKinds DEF Foot
<1>30. ASSUME NEW h \in Hosts, Leave(h) PROVE Foot
  <2>1. Footprint(h, {"evict"})
    BY <1>30, LeaveType, ActorKinds, InTop DEF Footprint, Leave
  <2>. QED
    BY <2>1, ActorKinds DEF Foot
<1>31. ASSUME NEW h \in Hosts, Callback(h) PROVE Foot
  <2>1. Footprint(h, {"admit", "fail"})
    BY <1>31, CallbackType, ActorKinds, InTop DEF Footprint, Callback
  <2>. QED
    BY <2>1, ActorKinds DEF Foot
<1>32. ASSUME NEW h \in Hosts, Admit(h) PROVE Foot
  <2>1. Footprint(h, {"admit", "mark", "fail"})
    BY <1>32, AdmitType, ActorKinds, InTop DEF Footprint, Admit
  <2>. QED
    BY <2>1, ActorKinds DEF Foot
<1>33. ASSUME NEW h \in Hosts, Mark(h) PROVE Foot
  <2>1. Footprint(h, {"mark", "turn", "retire"})
    BY <1>33, MarkType, ActorKinds, InTop DEF Footprint, Mark
  <2>. QED
    BY <2>1, ActorKinds DEF Foot
<1>34. ASSUME NEW h \in Hosts, DriveTurn(h) PROVE Foot
  <2>1. Footprint(h, {"turn", "poll", "release"})
    BY <1>34, DriveTurnType, ActorKinds, InTop DEF Footprint, DriveTurn
  <2>. QED
    BY <2>1, ActorKinds DEF Foot
<1>35. ASSUME NEW h \in Hosts, ReleaseDraining(h) PROVE Foot
  <2>1. Footprint(h, {"release", "again"})
    BY <1>35, ReleaseDrainingType, ActorKinds, InTop DEF Footprint, ReleaseDraining
  <2>. QED
    BY <2>1, ActorKinds DEF Foot
<1>36. ASSUME NEW h \in Hosts, Continue(h) PROVE Foot
  <2>1. Footprint(h, {"again", "ack", "enter"})
    BY <1>36, ContinueType, ActorKinds, InTop DEF Footprint, Continue
  <2>. QED
    BY <2>1, ActorKinds DEF Foot
<1>37. ASSUME NEW h \in Hosts, Acknowledge(h) PROVE Foot
  <2>1. Footprint(h, {"ack", "fail", "lease", "return", "complete"})
    BY <1>37, AcknowledgeType, ActorKinds, InTop DEF Footprint, Acknowledge
  <2>. QED
    BY <2>1, ActorKinds DEF Foot
<1>38. ASSUME NEW h \in Hosts, Evict(h) PROVE Foot
  <2>1. Footprint(h, {"evict", "gone", "rdq", "complete"})
    BY <1>38, EvictType, ActorKinds, InTop DEF Footprint, Evict
  <2>. QED
    BY <2>1, ActorKinds DEF Foot
<1>39. CASE BeginStop
  <2>1. Footprint(Stopper, {"abort"})
    BY <1>39, BeginStopType, ActorKinds, InTop DEF Footprint, BeginStop
  <2>. QED
    BY <2>1, ActorKinds DEF Foot
<1>40. CASE AbortTasks
  <2>1. Footprint(Stopper, {"abort", "close", "push"})
    BY <1>40, AbortTasksType, ActorKinds, InTop DEF Footprint, AbortTasks
  <2>. QED
    BY <2>1, ActorKinds DEF Foot
<1>41. CASE CloseQueue
  <2>1. Footprint(Stopper, {"close", "forget"})
    BY <1>41, CloseQueueType, ActorKinds, InTop DEF Footprint, CloseQueue
  <2>. QED
    BY <2>1, ActorKinds DEF Foot
<1>42. CASE ForgetDispatches
  <2>1. Footprint(Stopper, {"forget", "forgetHosts"})
    BY <1>42, ForgetDispatchesType, ActorKinds, InTop DEF Footprint, ForgetDispatches
  <2>. QED
    BY <2>1, ActorKinds DEF Foot
<1>43. CASE ForgetHosts
  <2>1. Footprint(Stopper, {"forgetHosts", "wait", "drop"})
    BY <1>43, ForgetHostsType, ActorKinds, InTop DEF Footprint, ForgetHosts
  <2>. QED
    BY <2>1, ActorKinds DEF Foot
<1>44. CASE WaitIdle
  <2>1. Footprint(Stopper, {"wait", "drop"})
    BY <1>44, WaitIdleType, ActorKinds, InTop DEF Footprint, WaitIdle
  <2>. QED
    BY <2>1, ActorKinds DEF Foot
<1>. QED
  BY <1>1, <1>2, <1>3, <1>4, <1>5, <1>6, <1>7, <1>8, <1>9, <1>10, <1>11, <1>12, <1>13, <1>14, <1>15,
     <1>16, <1>17, <1>18, <1>19, <1>20, <1>21, <1>22, <1>23, <1>24, <1>25, <1>26, <1>27, <1>28, <1>29,
     <1>30, <1>31, <1>32, <1>33, <1>34, <1>35, <1>36, <1>37, <1>38, <1>39, <1>40, <1>41, <1>42, <1>43,
     <1>44
  DEF Next, Step, Publication, Cancellation, HostStep, StopStep

LEMMA ShapeStep ==
  ASSUME TypeInv, ShapeInv, Next
  PROVE  ShapeInv'
<1>0. PICK a \in Actors : \E P : Footprint(a, P)
  BY Footprints DEF Foot
<1>1. PICK P : Footprint(a, P)
  BY <1>0
<1>2. ASSUME NEW p \in Threads, NEW t \in Tasks, Submit(p, t) PROVE ShapeInv'
  BY <1>2, SubmitShape
<1>3. ASSUME NEW p \in Threads, NEW t \in Tasks, Wake(p, t) PROVE ShapeInv'
  BY <1>3, WakeShape
<1>4. ASSUME NEW p \in Threads, BeginDrive(p) PROVE ShapeInv'
  BY <1>4, BeginDriveShape
<1>5. ASSUME NEW b \in Actors, Send(b) PROVE ShapeInv'
  BY <1>5, SendShape
<1>6. ASSUME NEW h \in Hosts, RegisterHost(h) PROVE ShapeInv'
  BY <1>6, RegisterHostShape
<1>7. ASSUME NEW h \in Hosts, Leave(h) PROVE ShapeInv'
  BY <1>7, LeaveShape
<1>8. ASSUME NEW h \in Hosts, Callback(h) PROVE ShapeInv'
  BY <1>8, CallbackShape
<1>9. ASSUME NEW h \in Hosts, Admit(h) PROVE ShapeInv'
  BY <1>9, AdmitShape
<1>10. ASSUME NEW h \in Hosts, Mark(h) PROVE ShapeInv'
  BY <1>10, MarkShape
<1>11. ASSUME NEW h \in Hosts, DriveTurn(h) PROVE ShapeInv'
  BY <1>11, DriveTurnShape
<1>12. ASSUME NEW h \in Hosts, ReleaseDraining(h) PROVE ShapeInv'
  BY <1>12, ReleaseDrainingShape
<1>13. ASSUME NEW h \in Hosts, Continue(h) PROVE ShapeInv'
  BY <1>13, ContinueShape
<1>14. ASSUME NEW h \in Hosts, Acknowledge(h) PROVE ShapeInv'
  BY <1>14, AcknowledgeShape
<1>15. ASSUME NEW h \in Hosts, Evict(h) PROVE ShapeInv'
  BY <1>15, EvictShape
<1>16. CASE BeginStop
  BY <1>16, BeginStopShape
<1>17. CASE AbortTasks
  BY <1>17, AbortTasksShape
<1>18. CASE WaitIdle
  BY <1>18, WaitIdleShape
<1>19. CASE ~ ShapeMoves
  BY <1>1, <1>19, QuietShape DEF Footprint, Spares
<1>. QED
  BY <1>2, <1>3, <1>4, <1>5, <1>6, <1>7, <1>8, <1>9, <1>10, <1>11, <1>12, <1>13, <1>14, <1>15, <1>16,
     <1>17, <1>18, <1>19 DEF ShapeMoves, HostStep

LEMMA TypeStep ==
  ASSUME TypeInv, ShapeInv, Next
  PROVE  TypeInv'
  BY Footprints DEF Foot, Footprint

-----------------------------------------------------------------------------
(* The initial states, and the type invariant.                             *)

LEMMA EmptyStacks ==
  ASSUME Init
  PROVE  /\ Stacks /\ \A a \in Actors : stack[a] = <<>> /\ DOMAIN stack[a] = {}
         /\ \A X : Spots(stack, X) = {}
<1>1. \A a \in Actors : stack[a] = <<>> /\ DOMAIN stack[a] = {} /\ Len(stack[a]) = 0
  BY EmptySeq DEF Init
<1>2. Stacks
  BY EmptySeq DEF Init, Stacks
<1>3. ASSUME NEW X PROVE Spots(stack, X) = {}
  <2>1. \A b \in Actors : \A i : ~ (i \in 1 .. Len(stack[b]))
    BY <1>1
  <2>. QED
    BY <2>1, SpotsAt
<1>. QED
  BY <1>1, <1>2, <1>3

LEMMA InitTypes ==
  ASSUME Init
  PROVE  TypeInv /\ ShapeInv
<1>1. PICK rank \in Bijection(EarlyHosts, 1 .. Cardinality(EarlyHosts)) :
        reg = [EmptyRegistry EXCEPT
                 !.drivers = EarlyHosts,
                 !.order = [h \in Hosts |-> IF h \in EarlyHosts THEN rank[h] ELSE 0]]
  BY DEF Init
<1>2. rank \in [EarlyHosts -> 1 .. Cardinality(EarlyHosts)]
  BY DEF Bijection, Injection, Surjection
<1>3. [h \in Hosts |-> IF h \in EarlyHosts THEN rank[h] ELSE 0] \in [Hosts -> Nat]
  BY <1>2
<1>4. reg \in Registry
  BY <1>1, <1>3, RegistryParts, ActorsAssumption DEF EmptyRegistry
<1>5. queue \in Seq(Tasks)
  BY EmptySeq DEF Init
<1>6. DOMAIN stack = Actors
  BY EmptyStacks DEF Stacks
<1>9. TypeOK
  <2>1. /\ queue = <<>> /\ rejected = {} /\ closed = FALSE
        /\ task = [t \in Tasks |-> IF t \in EarlyTasks THEN "waiting" ELSE "fresh"]
        /\ wakes = MaxWakes
        /\ pending = NoDispatch /\ recovery = NoDispatch
        /\ cancelling = FALSE /\ draining = FALSE
        /\ publication = [d \in Dispatches |-> "none"]
        /\ host = [h \in Hosts |-> IF h \in EarlyHosts THEN "live" ELSE "absent"]
        /\ mail = [h \in Hosts |-> NoDispatch]
        /\ lifecycle = "running" /\ stopping = FALSE
    BY DEF Init
  <2>2. closed \in BOOLEAN /\ cancelling \in BOOLEAN /\ draining \in BOOLEAN /\ stopping \in BOOLEAN
    BY <2>1
  <2>3. /\ task \in [Tasks -> {"fresh", "scheduled", "running", "woken", "waiting", "done"}]
        /\ wakes \in 0 .. MaxWakes
    BY <2>1, ActorsAssumption
  <2>4. /\ publication \in [Dispatches -> {"none", "armed", "again"}]
        /\ host \in [Hosts -> {"absent", "live", "closing", "gone"}]
        /\ mail \in [Hosts -> Dispatches \cup {NoDispatch}]
    BY <2>1
  <2>. QED
    BY <1>4, <1>5, <1>6, <2>1, <2>2, <2>3, <2>4 DEF TypeOK
<1>7. Stopper \in Actors /\ Hosts \subseteq Actors
  BY DEF Actors
<1>8. Idle
  BY <1>7, EmptyStacks DEF Idle, Init, Running
<1>10. AtBottom
  BY EmptyStacks DEF AtBottom
<1>. QED
  BY <1>8, <1>9, <1>10, EmptyStacks DEF TypeInv, ShapeInv

LEMMA StutterTypes ==
  ASSUME TypeInv, ShapeInv, UNCHANGED vars
  PROVE  TypeInv' /\ ShapeInv'
<1>. USE DEF vars, queueVars, taskVars, dispatchVars, hostVars, stopVars
<1>1. TypeInv'
  BY DEF TypeInv, TypeOK, Stacks
<1>2. Spots(stack', Kind(BottomPcs)) = Spots(stack, Kind(BottomPcs))
  OBVIOUS
<1>3. ShapeInv'
  BY <1>2 DEF ShapeInv, AtBottom, Idle, Running
<1>. QED
  BY <1>1, <1>3

(* Every step keeps the shape of the executor: its queues, registry, calls *)
(* and the frames of its threads.                                          *)
THEOREM TypeCorrect == Spec => []TypeOK
<1>1. Init => TypeInv /\ ShapeInv
  BY InitTypes
<1>2. TypeInv /\ ShapeInv /\ [Next]_vars => (TypeInv /\ ShapeInv)'
  BY TypeStep, ShapeStep, StutterTypes
<1>3. TypeInv => TypeOK
  BY DEF TypeInv
<1>. QED
  BY <1>1, <1>2, <1>3, PTL DEF Spec

-----------------------------------------------------------------------------
(* The claims and the frames that hold them.                               *)

LEMMA Passed ==
  ASSUME Stacks, NEW a \in Actors, NEW fs \in Seq(Frames), Moves(a, fs),
         NEW X, Steady(X), Lasting(X), stack[a] # <<>> => Top(a) \notin X,
         \A k \in 1 .. Len(fs) : fs[k] \notin X
  PROVE  Spots(stack', X) = Spots(stack, X)
<1>1. New(a, fs, X) = {}
  BY DEF New
<1>2. Top1(a) \notin Spots(stack, X)
  BY SpotOfTop, NoTop
<1>3. Spots(stack', X) = (Spots(stack, X) \ {Top1(a)}) \cup New(a, fs, X)
  BY SpotsMoved
<1>. QED
  BY <1>1, <1>2, <1>3

LEMMA Single ==
  ASSUME NEW S, NEW f \in S
  PROVE  <<f>> \in Seq(S) /\ Len(<<f>>) = 1 /\ <<f>>[1] = f /\ <<f>> \o <<>> = <<f>>
         /\ <<>> \in Seq(S) /\ Len(<<>>) = 0
  OBVIOUS

LEMMA Pair ==
  ASSUME NEW S, NEW f \in S, NEW g \in S
  PROVE  <<f, g>> \in Seq(S) /\ Len(<<f, g>>) = 2 /\ <<f, g>>[1] = f /\ <<f, g>>[2] = g
  OBVIOUS

LEMMA KeptOne ==
  ASSUME Stacks, NEW a \in Actors, stack[a] # <<>>, NEW f \in Frames, Moves(a, <<f>>),
         NEW X, Steady(X), Lasting(X), f \in X <=> Top(a) \in X
  PROVE  Spots(stack', X) = Spots(stack, X)
<1>. DEFINE gs == <<>>
<1>1. gs \in Seq(Frames) /\ Len(gs) = 0 /\ <<f>> \o gs = <<f>>
  BY Single
<1>2. Moves(a, <<f>> \o gs)
  BY <1>1
<1>3. \A k \in 1 .. Len(gs) : gs[k] \notin X
  BY <1>1
<1>. HIDE DEF gs
<1>. QED
  BY <1>1, <1>2, <1>3, Kept

LEMMA KeptTwo ==
  ASSUME Stacks, NEW a \in Actors, stack[a] # <<>>, NEW f \in Frames, NEW g \in Frames,
         Moves(a, <<f, g>>), NEW X, Steady(X), Lasting(X), f \in X <=> Top(a) \in X, g \notin X
  PROVE  Spots(stack', X) = Spots(stack, X)
<1>. DEFINE gs == <<g>>
<1>1. gs \in Seq(Frames) /\ Len(gs) = 1 /\ gs[1] = g
  BY Single
<1>2. Moves(a, <<f>> \o gs)
  BY PairConcat
<1>3. \A k \in 1 .. Len(gs) : gs[k] \notin X
  BY <1>1
<1>. HIDE DEF gs
<1>. QED
  BY <1>1, <1>2, <1>3, Kept

LEMMA GainedOne ==
  ASSUME Stacks, NEW a \in Actors, NEW f \in Frames, Moves(a, <<f>>),
         NEW X, Steady(X), Lasting(X), stack[a] # <<>> => Top(a) \notin X, f \in X
  PROVE  \E x : Spots(stack', X) = Spots(stack, X) \cup {x}
<1>. DEFINE fs == <<f>>
<1>1. fs \in Seq(Frames) /\ Len(fs) = 1 /\ fs[1] = f
  BY Single
<1>2. 1 \in 1 .. Len(fs) /\ \A k \in 1 .. Len(fs) : fs[k] \in X <=> k = 1
  BY <1>1
<1>3. Moves(a, fs)
  OBVIOUS
<1>. HIDE DEF fs
<1>. QED
  BY <1>1, <1>2, <1>3, Gained, ZenonT(60)

(* The claim goes from the frame to the call above it, or comes with it.   *)
LEMMA GainedTwo ==
  ASSUME Stacks, NEW a \in Actors, NEW f \in Frames, NEW g \in Frames, Moves(a, <<f, g>>),
         NEW X, Steady(X), Lasting(X), stack[a] # <<>> => Top(a) \notin X,
         (f \in X /\ g \notin X) \/ (f \notin X /\ g \in X)
  PROVE  \E x : Spots(stack', X) = Spots(stack, X) \cup {x}
<1>. DEFINE fs == <<f, g>>
<1>1. fs \in Seq(Frames) /\ Len(fs) = 2 /\ fs[1] = f /\ fs[2] = g
  BY Pair
<1>2. Moves(a, fs)
  OBVIOUS
<1>. HIDE DEF fs
<1>3. CASE f \in X
  <2>1. 1 \in 1 .. Len(fs) /\ \A k \in 1 .. Len(fs) : fs[k] \in X <=> k = 1
    BY <1>1, <1>3
  <2>. QED
    BY <1>1, <1>2, <2>1, Gained
<1>4. CASE g \in X
  <2>1. 2 \in 1 .. Len(fs) /\ \A k \in 1 .. Len(fs) : fs[k] \in X <=> k = 2
    BY <1>1, <1>4
  <2>. QED
    BY <1>1, <1>2, <2>1, Gained, ZenonT(40)
<1>. QED
  BY <1>3, <1>4

LEMMA HeldGained ==
  ASSUME NEW S, NEW T, NEW x, T = S \cup {x}, Held(FALSE, S)
  PROVE  Held(TRUE, T)
  BY DEF Held

LEMMA KindOf ==
  ASSUME NEW P, NEW f \in Frames
  PROVE  f \in Kind(P) <=> f.pc \in P
  BY DEF Kind

-----------------------------------------------------------------------------
(* The turn that drains.                                                   *)

DrainHeld == Held(draining, Spots(stack, Kind(TurnClaim)))

LEMMA TurnSteady == Steady(Kind(TurnClaim)) /\ Lasting(Kind(TurnClaim))
  BY SteadyKind DEF TurnClaim

LEMMA DrainKept ==
  ASSUME DrainHeld, Spots(stack', Kind(TurnClaim)) = Spots(stack, Kind(TurnClaim)),
         UNCHANGED draining
  PROVE  DrainHeld'
<1>. DEFINE S == Spots(stack, Kind(TurnClaim))
            T == Spots(stack', Kind(TurnClaim))
<1>1. Held(draining, S) /\ T = S /\ draining' = draining
  BY DEF DrainHeld
<1>2. Held(draining', T)
  BY <1>1, Zenon
<1>. QED
  BY <1>2 DEF DrainHeld

LEMMA DrainQuiet ==
  ASSUME TypeInv, DrainHeld, NEW a \in Actors, NEW P, Trace(a, P) \/ UNCHANGED stack,
         \A p \in P : p \notin TurnClaim, UNCHANGED draining
  PROVE  DrainHeld'
<1>1. \A f \in Kind(TurnClaim) : f.pc \notin P
  BY DEF Kind
<1>2. CASE Trace(a, P)
  BY <1>1, <1>2, Untouched, TurnSteady, DrainKept DEF TypeInv
<1>3. CASE UNCHANGED stack
  BY <1>3, DrainKept
<1>. QED
  BY <1>2, <1>3

LEMMA AdmitDrains ==
  ASSUME TypeInv, DrainHeld, NEW h \in Hosts, Admit(h)
  PROVE  DrainHeld'
<1>1. h \in Actors /\ stack[h] # <<>> /\ Top(h).pc = "admit" /\ Top(h) \in Frames
  BY ActorKinds, InTop DEF Admit
<1>2. Top(h) \in AdmitFrames
  BY <1>1, FrameKinds
<1>3. \A p \in {"mark", "fail"} : At(h, p) \in Frames /\ At(h, p).pc = p
  BY <1>2, FrameUnion DEF At, AdmitFrames
<1>4. CASE Running /\ ~ stopping /\ ~ draining /\ pending = Top(h).dispatch
  <2>1. Goto(h, At(h, "mark")) /\ draining' = TRUE /\ draining = FALSE
    BY <1>4 DEF Admit, TypeInv, TypeOK
  <2>2. Moves(h, <<At(h, "mark")>>)
    BY <1>1, <1>3, <2>1, GotoMoves DEF TypeInv
  <2>3. Top(h) \notin Kind(TurnClaim) /\ At(h, "mark") \in Kind(TurnClaim)
    BY <1>1, <1>3, KindOf DEF TurnClaim
  <2>4. PICK x : Spots(stack', Kind(TurnClaim)) = Spots(stack, Kind(TurnClaim)) \cup {x}
    BY <1>1, <1>3, <2>2, <2>3, GainedOne, TurnSteady DEF TypeInv
  <2>. QED
    BY <2>1, <2>4, HeldGained DEF DrainHeld
<1>5. CASE ~ (Running /\ ~ stopping /\ ~ draining /\ pending = Top(h).dispatch)
  <2>1. Goto(h, At(h, "fail")) /\ UNCHANGED draining
    BY <1>5 DEF Admit
  <2>2. Trace(h, {"admit", "fail"})
    BY <1>1, <1>3, <2>1, GotoTrace DEF TypeInv
  <2>3. \A p \in {"admit", "fail"} : p \notin TurnClaim
    BY DEF TurnClaim
  <2>. QED
    BY <1>1, <2>1, <2>2, <2>3, DrainQuiet
<1>. QED
  BY <1>4, <1>5

LEMMA MarkDrains ==
  ASSUME TypeInv, DrainHeld, NEW h \in Hosts, Mark(h)
  PROVE  DrainHeld'
<1>1. /\ h \in Actors /\ stack[h] # <<>> /\ Top(h).pc = "mark" /\ Top(h) \in Frames
      /\ Frame("retire") \in Frames /\ Frame("retire").pc = "retire"
  BY ActorKinds, MarkMoves, TopShape DEF TypeInv
<1>2. PICK f \in Frames : f.pc = "turn" /\ Call(h, f, Frame("retire"))
  BY MarkMoves
<1>3. Moves(h, <<f, Frame("retire")>>)
  BY <1>1, <1>2, CallMoves DEF TypeInv
<1>4. f \in Kind(TurnClaim) /\ Top(h) \in Kind(TurnClaim) /\ Frame("retire") \notin Kind(TurnClaim)
  BY <1>1, <1>2, KindOf DEF TurnClaim
<1>5. Spots(stack', Kind(TurnClaim)) = Spots(stack, Kind(TurnClaim))
  BY <1>1, <1>3, <1>4, KeptTwo, TurnSteady DEF TypeInv
<1>6. UNCHANGED draining
  BY DEF Mark, dispatchVars
<1>. QED
  BY <1>5, <1>6, DrainKept

LEMMA DriveTurnDrains ==
  ASSUME TypeInv, DrainHeld, NEW h \in Hosts, DriveTurn(h)
  PROVE  DrainHeld'
<1>1. h \in Actors /\ stack[h] # <<>> /\ Top(h).pc = "turn" /\ Top(h) \in Frames
  BY ActorKinds, DriveTurnMoves, TopShape DEF TypeInv
<1>2. Top(h) \in Kind(TurnClaim)
  BY <1>1, KindOf DEF TurnClaim
<1>3. UNCHANGED draining
  BY DEF DriveTurn, dispatchVars
<1>4. ASSUME NEW f \in Frames, f.pc = "turn", TakeRunnable(h, f)
      PROVE  Spots(stack', Kind(TurnClaim)) = Spots(stack, Kind(TurnClaim))
  <2>. DEFINE g == [pc |-> "poll", task |-> Head(queue)]
  <2>1. Call(h, f, g) /\ queue # <<>>
    BY <1>4 DEF TakeRunnable, CanTake
  <2>2. g \in Frames /\ g.pc = "poll"
    BY <2>1, QueueTypes, MadeFrames
  <2>. HIDE DEF g
  <2>3. Moves(h, <<f, g>>)
    BY <1>1, <2>1, <2>2, CallMoves DEF TypeInv
  <2>4. f \in Kind(TurnClaim) /\ g \notin Kind(TurnClaim)
    BY <1>4, <2>2, KindOf DEF TurnClaim
  <2>. QED
    BY <1>1, <1>2, <2>2, <2>3, <2>4, KeptTwo, TurnSteady DEF TypeInv
<1>5. ASSUME At(h, "release") \in Frames, At(h, "release").pc = "release", Goto(h, At(h, "release"))
      PROVE  Spots(stack', Kind(TurnClaim)) = Spots(stack, Kind(TurnClaim))
  <2>1. Moves(h, <<At(h, "release")>>)
    BY <1>1, <1>5, GotoMoves DEF TypeInv
  <2>2. At(h, "release") \in Kind(TurnClaim)
    BY <1>5, KindOf DEF TurnClaim
  <2>. QED
    BY <1>1, <1>2, <1>5, <2>1, <2>2, KeptOne, TurnSteady DEF TypeInv
<1>. QED
  BY <1>3, <1>4, <1>5, DriveTurnMoves, DrainKept

LEMMA ReleaseDrainingDrains ==
  ASSUME TypeInv, DrainHeld, NEW h \in Hosts, ReleaseDraining(h)
  PROVE  DrainHeld'
<1>1. h \in Actors /\ In(h, "release") /\ Goto(h, At(h, "again")) /\ draining' = FALSE
  BY ActorKinds DEF ReleaseDraining
<1>2. /\ stack[h] # <<>> /\ Top(h).pc = "release" /\ Top(h) \in Frames
      /\ At(h, "again") \in Frames /\ At(h, "again").pc = "again"
  BY <1>1, InTop, TurnEnds
<1>3. Top(h) \in Kind(TurnClaim) /\ At(h, "again") \notin Kind(TurnClaim)
  BY <1>2, KindOf DEF TurnClaim
<1>4. draining \in BOOLEAN
  BY DEF TypeInv, TypeOK
<1>5. Spots(stack, Kind(TurnClaim)) = {Top1(h)}
  BY <1>1, <1>2, <1>3, <1>4, HeldByTop DEF DrainHeld, TypeInv
<1>. DEFINE fs == <<At(h, "again")>>
<1>6. fs \in Seq(Frames) /\ Moves(h, fs) /\ \A k \in 1 .. Len(fs) : fs[k] \notin Kind(TurnClaim)
  BY <1>1, <1>2, <1>3, GotoMoves, Single DEF TypeInv
<1>. HIDE DEF fs
<1>7. Spots(stack', Kind(TurnClaim)) = Spots(stack, Kind(TurnClaim)) \ {Top1(h)}
  BY <1>1, <1>2, <1>3, <1>6, Left, TurnSteady DEF TypeInv
<1>. QED
  BY <1>1, <1>5, <1>7 DEF Held, DrainHeld

LEMMA DrainStep ==
  ASSUME TypeInv, ShapeInv, DrainHeld, Next
  PROVE  DrainHeld'
<1>0. PICK a \in Actors : \E P : Footprint(a, P)
  BY Footprints DEF Foot
<1>1. PICK P : Footprint(a, P)
  BY <1>0
<1>2. ASSUME NEW h \in Hosts, Admit(h) PROVE DrainHeld'
  BY <1>2, AdmitDrains
<1>3. ASSUME NEW h \in Hosts, Mark(h) PROVE DrainHeld'
  BY <1>3, MarkDrains
<1>4. ASSUME NEW h \in Hosts, DriveTurn(h) PROVE DrainHeld'
  BY <1>4, DriveTurnDrains
<1>5. ASSUME NEW h \in Hosts, ReleaseDraining(h) PROVE DrainHeld'
  BY <1>5, ReleaseDrainingDrains
<1>6. CASE ~ TurnMoves
  BY <1>1, <1>6, DrainQuiet DEF Footprint, Spares
<1>. QED
  BY <1>2, <1>3, <1>4, <1>5, <1>6 DEF TurnMoves

LEMMA Nothing ==
  ASSUME NEW S
  PROVE  <<>> \in Seq(S) /\ Len(<<>>) = 0 /\ \A k : k \notin 1 .. Len(<<>>)
  OBVIOUS

LEMMA Returned ==
  ASSUME Stacks, NEW a \in Actors, stack[a] # <<>>, Return(a)
  PROVE  Moves(a, <<>>)
<1>1. "done" \in Results /\ ReturnWith(a, "done")
  BY DEF Results, Return, ReturnWith
<1>. QED
  BY <1>1, ReturnMoves

LEMMA PassedNone ==
  ASSUME Stacks, NEW a \in Actors, Moves(a, <<>>),
         NEW X, Steady(X), Lasting(X), stack[a] # <<>> => Top(a) \notin X
  PROVE  Spots(stack', X) = Spots(stack, X)
<1>. DEFINE fs == <<>>
<1>1. fs \in Seq(Frames) /\ Moves(a, fs) /\ \A k \in 1 .. Len(fs) : fs[k] \notin X
  BY Nothing
<1>. HIDE DEF fs
<1>. QED
  BY <1>1, Passed

LEMMA LeftNone ==
  ASSUME Stacks, NEW a \in Actors, stack[a] # <<>>, Moves(a, <<>>),
         NEW X, Steady(X), Lasting(X), Top(a) \in X
  PROVE  Spots(stack', X) = Spots(stack, X) \ {Top1(a)}
<1>. DEFINE fs == <<>>
<1>1. fs \in Seq(Frames) /\ Moves(a, fs) /\ \A k \in 1 .. Len(fs) : fs[k] \notin X
  BY Nothing
<1>. HIDE DEF fs
<1>. QED
  BY <1>1, Left

LEMMA LeftOne ==
  ASSUME Stacks, NEW a \in Actors, stack[a] # <<>>, NEW f \in Frames, Moves(a, <<f>>),
         NEW X, Steady(X), Lasting(X), Top(a) \in X, f \notin X
  PROVE  Spots(stack', X) = Spots(stack, X) \ {Top1(a)}
<1>. DEFINE fs == <<f>>
<1>1. fs \in Seq(Frames) /\ Len(fs) = 1 /\ fs[1] = f
  BY Single
<1>2. Moves(a, fs) /\ \A k \in 1 .. Len(fs) : fs[k] \notin X
  BY <1>1
<1>. HIDE DEF fs
<1>. QED
  BY <1>1, <1>2, Left

LEMMA LeftTwo ==
  ASSUME Stacks, NEW a \in Actors, stack[a] # <<>>, NEW f \in Frames, NEW g \in Frames,
         Moves(a, <<f, g>>), NEW X, Steady(X), Lasting(X), Top(a) \in X, f \notin X, g \notin X
  PROVE  Spots(stack', X) = Spots(stack, X) \ {Top1(a)}
<1>. DEFINE fs == <<f, g>>
<1>1. fs \in Seq(Frames) /\ Len(fs) = 2 /\ fs[1] = f /\ fs[2] = g
  BY Pair
<1>2. Moves(a, fs) /\ \A k \in 1 .. Len(fs) : fs[k] \notin X
  BY <1>1
<1>. HIDE DEF fs
<1>. QED
  BY <1>1, <1>2, Left

(* What settling a publication leads to.                                   *)
LEMMA SettleMoves ==
  ASSUME TypeInv, NEW a \in Actors, Settle(a)
  PROVE  /\ stack[a] # <<>> /\ Top(a).pc = "settle" /\ Top(a) \in PublishFrames
         /\ Top(a).dispatch \in Dispatches
         /\ \/ /\ publication[Top(a).dispatch] = "again"
               /\ publication' = [publication EXCEPT ![Top(a).dispatch] = "armed"]
               /\ PublishFrame(Top(a).dispatch) \in Frames
               /\ Moves(a, <<PublishFrame(Top(a).dispatch)>>) /\ UNCHANGED cancelling
            \/ \E next \in Frames :
                 /\ next.pc = "uncancelPublish"
                 /\ FailureAction(a, Top(a).dispatch,
                                  [publication EXCEPT ![Top(a).dispatch] = "none"], next)
            \/ /\ publication' = [publication EXCEPT ![Top(a).dispatch] = "none"]
               /\ Moves(a, <<>>) /\ cancelling' = cancelling
            \/ /\ publication' = [publication EXCEPT ![Top(a).dispatch] = "none"]
               /\ ~ cancelling /\ cancelling' = TRUE
               /\ Frame("move") \in Frames /\ Frame("move").pc = "move"
               /\ \E f \in Frames : f.pc = "settled" /\ Moves(a, <<f, Frame("move")>>)
<1>. DEFINE d == Top(a).dispatch
            result == Top(a).result
            done == [publication EXCEPT ![d] = "none"]
<1>1. stack[a] # <<>> /\ Top(a).pc = "settle" /\ Top(a) \in PublishFrames
  BY InTop, FrameKinds DEF Settle, PublishPcs
<1>2. d \in Dispatches /\ result \in Results /\ cancelling \in BOOLEAN /\ Stacks
  BY <1>1 DEF PublishFrames, TypeInv, TypeOK
<1>5. /\ At(a, "uncancelPublish") \in Frames /\ At(a, "uncancelPublish").pc = "uncancelPublish"
      /\ At(a, "settled") \in Frames /\ At(a, "settled").pc = "settled"
      /\ PublishFrame(d) \in Frames
      /\ Frame("move") \in Frames /\ Frame("move").pc = "move"
  <2>1. /\ At(a, "uncancelPublish") \in PublishFrames /\ At(a, "uncancelPublish").pc = "uncancelPublish"
        /\ At(a, "settled") \in PublishFrames /\ At(a, "settled").pc = "settled"
    BY <1>1 DEF At, PublishFrames, PublishPcs
  <2>2. "move" \in PlainPcs
    BY DEF PlainPcs
  <2>. QED
    BY <1>2, <2>1, <2>2, FrameUnion, MadeFrames
<1>. DEFINE again == pending = d /\ ~ stopping /\ ~ cancelling /\ publication[d] = "again"
            fails == result = "failed" /\ IsCurrentFailure(reg, Top(a).failure)
            none == result = "unavailable" /\ pending = d
<1>6. CASE again
  <2>1. /\ publication' = [publication EXCEPT ![d] = "armed"]
        /\ Goto(a, PublishFrame(d)) /\ UNCHANGED cancelling
    BY <1>6 DEF Settle
  <2>2. Moves(a, <<PublishFrame(d)>>)
    BY <1>1, <1>2, <1>5, <2>1, GotoMoves
  <2>. QED
    BY <1>1, <1>2, <1>5, <1>6, <2>1, <2>2
<1>7. CASE ~ again /\ fails
  <2>1. FailureAction(a, d, done, At(a, "uncancelPublish"))
    BY <1>7 DEF Settle
  <2>. QED
    BY <1>1, <1>2, <1>5, <2>1
<1>8. CASE ~ again /\ ~ fails /\ none
  <2>1. /\ publication' = done
        /\ cancelling' = (cancelling \/ recovery = d)
        /\ IF recovery = d /\ ~ cancelling
           THEN Call(a, At(a, "settled"), Frame("move"))
           ELSE ReturnWith(a, result)
    BY <1>8 DEF Settle
  <2>2. CASE recovery = d /\ ~ cancelling
    <3>1. Moves(a, <<At(a, "settled"), Frame("move")>>)
      BY <1>1, <1>2, <1>5, <2>1, <2>2, CallMoves
    <3>2. cancelling' = TRUE /\ ~ cancelling
      BY <1>2, <2>1, <2>2
    <3>. QED
      BY <1>1, <1>2, <1>5, <2>1, <3>1, <3>2
  <2>3. CASE ~ (recovery = d /\ ~ cancelling)
    <3>1. Moves(a, <<>>)
      BY <1>1, <1>2, <2>1, <2>3, ReturnMoves
    <3>2. cancelling' = cancelling
      BY <1>2, <2>1, <2>3
    <3>. QED
      BY <1>1, <1>2, <2>1, <3>1, <3>2
  <2>. QED
    BY <2>2, <2>3
<1>9. CASE ~ again /\ ~ fails /\ ~ none
  <2>1. /\ publication' = done
        /\ ReturnWith(a, IF result = "unavailable" THEN "accepted" ELSE result)
        /\ UNCHANGED cancelling
    BY <1>9 DEF Settle
  <2>2. (IF result = "unavailable" THEN "accepted" ELSE result) \in Results
    BY <1>2 DEF Results
  <2>3. Moves(a, <<>>)
    BY <1>1, <1>2, <2>1, <2>2, ReturnMoves
  <2>. QED
    BY <1>1, <1>2, <2>1, <2>3
<1>. QED
  BY <1>6, <1>7, <1>8, <1>9

LEMMA CancelDispatchMoves ==
  ASSUME TypeInv, NEW a \in Actors, CancelDispatch(a)
  PROVE  /\ stack[a] # <<>> /\ Top(a).pc = "cancel" /\ Top(a) \in Frames
         /\ \/ \E next \in Frames :
                 /\ next.pc = "uncancel"
                 /\ FailureAction(a, Top(a).failure.dispatch, publication, next)
            \/ /\ Frame("retire") \in Frames /\ Frame("retire").pc = "retire"
               /\ Moves(a, <<Frame("retire")>>)
               /\ cancelling' = cancelling /\ publication' = publication
<1>1. stack[a] # <<>> /\ Top(a).pc = "cancel" /\ Top(a) \in CancelFrames /\ Stacks /\ Top(a) \in Frames
  BY InTop, FrameKinds DEF CancelDispatch, TypeInv
<1>2. At(a, "uncancel") \in Frames /\ At(a, "uncancel").pc = "uncancel"
  <2>1. At(a, "uncancel") \in CancelFrames /\ At(a, "uncancel").pc = "uncancel"
    BY <1>1 DEF At, CancelFrames
  <2>. QED
    BY <2>1, FrameUnion
<1>3. Frame("retire") \in Frames /\ Frame("retire").pc = "retire"
  BY MadeFrames DEF PlainPcs
<1>4. \/ FailureAction(a, Top(a).failure.dispatch, publication, At(a, "uncancel"))
      \/ Goto(a, Frame("retire")) /\ UNCHANGED <<pending, recovery, cancelling, publication>>
  BY DEF CancelDispatch
<1>5. ASSUME Goto(a, Frame("retire")) PROVE Moves(a, <<Frame("retire")>>)
  BY <1>1, <1>3, <1>5, GotoMoves
<1>. QED
  BY <1>1, <1>2, <1>3, <1>4, <1>5

-----------------------------------------------------------------------------
(* The cancellation that is to reopen the executor.                        *)

CancelHeld == Held(cancelling, Spots(stack, Kind(CancelClaim)))

LEMMA CancelSteady == Steady(Kind(CancelClaim)) /\ Lasting(Kind(CancelClaim))
  BY SteadyKind DEF CancelClaim

LEMMA CancelKept ==
  ASSUME CancelHeld, Spots(stack', Kind(CancelClaim)) = Spots(stack, Kind(CancelClaim)),
         cancelling' = cancelling
  PROVE  CancelHeld'
<1>. DEFINE S == Spots(stack, Kind(CancelClaim))
            T == Spots(stack', Kind(CancelClaim))
<1>1. Held(cancelling, S) /\ T = S /\ cancelling' = cancelling
  BY DEF CancelHeld
<1>2. Held(cancelling', T)
  BY <1>1, Zenon
<1>. QED
  BY <1>2 DEF CancelHeld

LEMMA CancelQuiet ==
  ASSUME TypeInv, CancelHeld, NEW a \in Actors, NEW P, Trace(a, P) \/ UNCHANGED stack,
         \A p \in P : p \notin CancelClaim, cancelling' = cancelling
  PROVE  CancelHeld'
<1>1. \A f \in Kind(CancelClaim) : f.pc \notin P
  BY DEF Kind
<1>2. CASE Trace(a, P)
  BY <1>1, <1>2, Untouched, CancelSteady, CancelKept DEF TypeInv
<1>3. CASE UNCHANGED stack
  BY <1>3, CancelKept
<1>. QED
  BY <1>2, <1>3

(* The claim is taken with the frame that holds it.                        *)
LEMMA CancelTaken ==
  ASSUME TypeInv, CancelHeld, NEW a \in Actors, stack[a] # <<>>, Top(a) \notin Kind(CancelClaim),
         NEW f \in Frames, NEW g \in Frames, Moves(a, <<f, g>>),
         \/ f \in Kind(CancelClaim) /\ g \notin Kind(CancelClaim)
         \/ f \notin Kind(CancelClaim) /\ g \in Kind(CancelClaim),
         ~ cancelling, cancelling' = TRUE
  PROVE  CancelHeld'
<1>1. PICK x : Spots(stack', Kind(CancelClaim)) = Spots(stack, Kind(CancelClaim)) \cup {x}
  <2>. DEFINE X == Kind(CancelClaim)
  <2>1. /\ Steady(X) /\ Lasting(X) /\ Stacks /\ Top(a) \notin X
        /\ (f \in X /\ g \notin X) \/ (f \notin X /\ g \in X)
    BY CancelSteady DEF TypeInv
  <2>. HIDE DEF X
  <2>2. \E x : Spots(stack', X) = Spots(stack, X) \cup {x}
    BY <2>1, GainedTwo, ZenonT(40)
  <2>. QED
    BY <2>2 DEF X
<1>2. cancelling = FALSE
  BY DEF TypeInv, TypeOK
<1>. QED
  BY <1>1, <1>2, HeldGained DEF CancelHeld

(* It is given up with that frame.                                         *)
LEMMA CancelGiven ==
  ASSUME TypeInv, CancelHeld, NEW a \in Actors, stack[a] # <<>>, Top(a) \in Kind(CancelClaim),
         Spots(stack', Kind(CancelClaim)) = Spots(stack, Kind(CancelClaim)) \ {Top1(a)},
         cancelling' = FALSE
  PROVE  CancelHeld'
<1>1. cancelling \in BOOLEAN
  BY DEF TypeInv, TypeOK
<1>2. Spots(stack, Kind(CancelClaim)) = {Top1(a)}
  BY <1>1, HeldByTop DEF CancelHeld, TypeInv
<1>. QED
  BY <1>2 DEF Held, CancelHeld

LEMMA FailureCancels ==
  ASSUME TypeInv, CancelHeld, NEW a \in Actors, stack[a] # <<>>, Top(a) \in Frames,
         Top(a).pc \notin CancelClaim, NEW d, NEW p, NEW next \in Frames,
         next.pc \notin CancelClaim, FailureAction(a, d, p, next)
  PROVE  CancelHeld'
<1>1. Top(a) \notin Kind(CancelClaim) /\ next \notin Kind(CancelClaim)
  BY KindOf
<1>2. CASE Moves(a, <<next>>) /\ cancelling' = cancelling
  BY <1>1, <1>2, KeptOne, CancelSteady, CancelKept DEF TypeInv
<1>3. CASE /\ ~ cancelling /\ cancelling' = TRUE
           /\ Frame("move") \in Frames /\ Frame("move").pc = "move"
           /\ Moves(a, <<next, Frame("move")>>)
  <2>1. Frame("move") \in Kind(CancelClaim)
    BY <1>3, KindOf DEF CancelClaim
  <2>. QED
    BY <1>1, <1>3, <2>1, CancelTaken
<1>4. ASSUME cancelling' = cancelling, NEW r,
             PublishFrame(r) \in Frames, PublishFrame(r).pc = "enter",
             Moves(a, <<next, PublishFrame(r)>>)
      PROVE  CancelHeld'
  <2>1. PublishFrame(r) \notin Kind(CancelClaim)
    BY <1>4, KindOf DEF CancelClaim
  <2>. QED
    BY <1>1, <1>4, <2>1, KeptTwo, CancelSteady, CancelKept DEF TypeInv
<1>. QED
  BY <1>2, <1>3, <1>4, FailureMoves

LEMMA SettleCancels ==
  ASSUME TypeInv, CancelHeld, NEW a \in Actors, Settle(a)
  PROVE  CancelHeld'
<1>1. stack[a] # <<>> /\ Top(a).pc = "settle" /\ Top(a) \in Frames /\ Top(a).pc \notin CancelClaim
  BY SettleMoves, TopShape DEF TypeInv, CancelClaim
<1>2. Top(a) \notin Kind(CancelClaim)
  BY <1>1, KindOf
<1>3. ASSUME NEW d \in Dispatches, PublishFrame(d) \in Frames, Moves(a, <<PublishFrame(d)>>),
             cancelling' = cancelling
      PROVE  CancelHeld'
  <2>1. PublishFrame(d) \notin Kind(CancelClaim)
    BY <1>3, MadeFrames, KindOf DEF CancelClaim
  <2>. QED
    BY <1>1, <1>2, <1>3, <2>1, KeptOne, CancelSteady, CancelKept DEF TypeInv
<1>4. ASSUME NEW next \in Frames, next.pc = "uncancelPublish", NEW d, NEW p, FailureAction(a, d, p, next)
      PROVE  CancelHeld'
  BY <1>1, <1>4, FailureCancels DEF CancelClaim
<1>5. CASE Moves(a, <<>>) /\ cancelling' = cancelling
  BY <1>1, <1>2, <1>5, PassedNone, CancelSteady, CancelKept DEF TypeInv
<1>6. ASSUME ~ cancelling, cancelling' = TRUE, Frame("move") \in Frames, Frame("move").pc = "move",
             NEW f \in Frames, f.pc = "settled", Moves(a, <<f, Frame("move")>>)
      PROVE  CancelHeld'
  <2>1. Frame("move") \in Kind(CancelClaim) /\ f \notin Kind(CancelClaim)
    BY <1>6, KindOf DEF CancelClaim
  <2>. QED
    BY <1>1, <1>2, <1>6, <2>1, CancelTaken
<1>. QED
  BY <1>3, <1>4, <1>5, <1>6, SettleMoves

LEMMA CancelDispatchCancels ==
  ASSUME TypeInv, CancelHeld, NEW a \in Actors, CancelDispatch(a)
  PROVE  CancelHeld'
<1>1. stack[a] # <<>> /\ Top(a).pc = "cancel" /\ Top(a) \in Frames /\ Top(a).pc \notin CancelClaim
  BY CancelDispatchMoves DEF CancelClaim
<1>2. ASSUME NEW next \in Frames, next.pc = "uncancel", NEW d, FailureAction(a, d, publication, next)
      PROVE  CancelHeld'
  BY <1>1, <1>2, FailureCancels DEF CancelClaim
<1>3. CASE /\ Frame("retire") \in Frames /\ Frame("retire").pc = "retire"
           /\ Moves(a, <<Frame("retire")>>) /\ cancelling' = cancelling
  <2>1. Frame("retire") \notin Kind(CancelClaim) /\ Top(a) \notin Kind(CancelClaim)
    BY <1>1, <1>3, KindOf DEF CancelClaim
  <2>. QED
    BY <1>1, <1>3, <2>1, KeptOne, CancelSteady, CancelKept DEF TypeInv
<1>. QED
  BY <1>2, <1>3, CancelDispatchMoves

LEMMA MoveCancels ==
  ASSUME TypeInv, CancelHeld, NEW a \in Actors, Move(a)
  PROVE  CancelHeld'
<1>. DEFINE f == [pc |-> "attempt", n |-> 0, res |-> "none"]
<1>1. stack[a] # <<>> /\ Top(a).pc = "move" /\ Top(a) \in Frames /\ Stacks
  BY InTop DEF Move, TypeInv
<1>2. f \in Frames /\ f.pc = "attempt" /\ Frame("purge") \in Frames /\ Frame("purge").pc = "purge"
  BY MadeFrames DEF Results, PlainPcs
<1>3. (cancelling' = FALSE /\ Goto(a, f)) \/ (Goto(a, Frame("purge")) /\ cancelling' = cancelling)
  BY DEF Move
<1>. HIDE DEF f
<1>4. Top(a) \in Kind(CancelClaim) /\ f \notin Kind(CancelClaim) /\ Frame("purge") \in Kind(CancelClaim)
  BY <1>1, <1>2, KindOf DEF CancelClaim
<1>5. CASE cancelling' = FALSE /\ Goto(a, f)
  <2>1. Moves(a, <<f>>)
    BY <1>1, <1>2, <1>5, GotoMoves
  <2>2. Spots(stack', Kind(CancelClaim)) = Spots(stack, Kind(CancelClaim)) \ {Top1(a)}
    BY <1>1, <1>2, <1>4, <2>1, LeftOne, CancelSteady
  <2>. QED
    BY <1>1, <1>4, <1>5, <2>2, CancelGiven
<1>6. CASE Goto(a, Frame("purge")) /\ cancelling' = cancelling
  <2>1. Moves(a, <<Frame("purge")>>)
    BY <1>1, <1>2, <1>6, GotoMoves
  <2>. QED
    BY <1>1, <1>2, <1>4, <1>6, <2>1, KeptOne, CancelSteady, CancelKept
<1>. QED
  BY <1>3, <1>5, <1>6

LEMMA PurgeCancels ==
  ASSUME TypeInv, CancelHeld, NEW a \in Actors, Purge(a)
  PROVE  CancelHeld'
<1>1. stack[a] # <<>> /\ Top(a).pc = "purge" /\ Top(a) \in Frames /\ Stacks
  BY InTop DEF Purge, TypeInv
<1>2. DropFrame(rejected) \in Frames /\ DropFrame(rejected).pc = "drop"
  BY MadeFrames, QueueTypes
<1>3. \/ cancelling' = FALSE /\ Return(a)
      \/ Call(a, Top(a), DropFrame(rejected)) /\ cancelling' = cancelling
  BY DEF Purge
<1>4. Top(a) \in Kind(CancelClaim) /\ DropFrame(rejected) \notin Kind(CancelClaim)
  BY <1>1, <1>2, KindOf DEF CancelClaim
<1>5. CASE cancelling' = FALSE /\ Return(a)
  <2>1. Moves(a, <<>>)
    BY <1>1, <1>5, Returned
  <2>2. Spots(stack', Kind(CancelClaim)) = Spots(stack, Kind(CancelClaim)) \ {Top1(a)}
    BY <1>1, <1>4, <2>1, LeftNone, CancelSteady
  <2>. QED
    BY <1>1, <1>4, <1>5, <2>2, CancelGiven
<1>6. CASE Call(a, Top(a), DropFrame(rejected)) /\ cancelling' = cancelling
  <2>1. Moves(a, <<Top(a), DropFrame(rejected)>>)
    BY <1>1, <1>2, <1>6, CallMoves
  <2>. QED
    BY <1>1, <1>2, <1>4, <1>6, <2>1, KeptTwo, CancelSteady, CancelKept
<1>. QED
  BY <1>3, <1>5, <1>6

LEMMA AttemptCancels ==
  ASSUME TypeInv, CancelHeld, NEW a \in Actors, Attempt(a)
  PROVE  CancelHeld'
<1>1. stack[a] # <<>> /\ Top(a).pc = "attempt" /\ Top(a) \in Frames /\ Stacks
  BY AttemptMoves, TopShape DEF TypeInv
<1>2. Top(a) \notin Kind(CancelClaim)
  BY <1>1, KindOf DEF CancelClaim
<1>3. CASE Return(a) /\ UNCHANGED cancelling
  BY <1>1, <1>2, <1>3, Returned, PassedNone, CancelSteady, CancelKept
<1>4. ASSUME UNCHANGED cancelling, NEW f \in Frames, f.pc = "attempt", RequestDrain(a, f)
      PROVE  CancelHeld'
  <2>1. Trace(a, {"attempt", "enter"})
    BY <1>1, <1>4, RequestTrace
  <2>2. \A p \in {"attempt", "enter"} : p \notin CancelClaim
    BY DEF CancelClaim
  <2>. QED
    BY <1>4, <2>1, <2>2, CancelQuiet
<1>5. ASSUME ~ cancelling, cancelling' = TRUE, NEW d \in Dispatches, NEW f \in Frames, f.pc = "reopen",
             PublishFrame(d) \in Frames, PublishFrame(d).pc = "enter", Moves(a, <<f, PublishFrame(d)>>)
      PROVE  CancelHeld'
  <2>1. f \in Kind(CancelClaim) /\ PublishFrame(d) \notin Kind(CancelClaim)
    BY <1>5, KindOf DEF CancelClaim
  <2>. QED
    BY <1>1, <1>2, <1>5, <2>1, CancelTaken
<1>. QED
  BY <1>3, <1>4, <1>5, AttemptMoves

LEMMA ReopenCancels ==
  ASSUME TypeInv, CancelHeld, NEW a \in Actors, Reopen(a)
  PROVE  CancelHeld'
<1>1. stack[a] # <<>> /\ Top(a).pc = "reopen" /\ Top(a) \in Frames /\ Stacks /\ Top(a) \in ResFrames
  BY InTop, FrameKinds DEF Reopen, TypeInv
<1>2. At(a, "last") \in Frames /\ At(a, "last").pc = "last"
  <2>1. At(a, "last") \in ResFrames /\ At(a, "last").pc = "last"
    BY <1>1 DEF At, ResFrames
  <2>. QED
    BY <2>1, FrameUnion
<1>3. cancelling' = FALSE /\ (Goto(a, At(a, "last")) \/ Return(a))
  BY DEF Reopen
<1>4. Top(a) \in Kind(CancelClaim) /\ At(a, "last") \notin Kind(CancelClaim)
  BY <1>1, <1>2, KindOf DEF CancelClaim
<1>5. Moves(a, <<At(a, "last")>>) \/ Moves(a, <<>>)
  BY <1>1, <1>2, <1>3, GotoMoves, Returned
<1>6. Spots(stack', Kind(CancelClaim)) = Spots(stack, Kind(CancelClaim)) \ {Top1(a)}
  BY <1>1, <1>2, <1>4, <1>5, LeftOne, LeftNone, CancelSteady
<1>. QED
  BY <1>1, <1>3, <1>4, <1>6, CancelGiven

LEMMA CancelStep ==
  ASSUME TypeInv, ShapeInv, CancelHeld, Next
  PROVE  CancelHeld'
<1>0. PICK a \in Actors : \E P : Footprint(a, P)
  BY Footprints DEF Foot
<1>1. PICK P : Footprint(a, P)
  BY <1>0
<1>2. ASSUME NEW b \in Actors, Settle(b) PROVE CancelHeld'
  BY <1>2, SettleCancels
<1>3. ASSUME NEW b \in Actors, Move(b) PROVE CancelHeld'
  BY <1>3, MoveCancels
<1>4. ASSUME NEW b \in Actors, Purge(b) PROVE CancelHeld'
  BY <1>4, PurgeCancels
<1>5. ASSUME NEW b \in Actors, Attempt(b) PROVE CancelHeld'
  BY <1>5, AttemptCancels
<1>6. ASSUME NEW b \in Actors, Reopen(b) PROVE CancelHeld'
  BY <1>6, ReopenCancels
<1>7. ASSUME NEW b \in Actors, CancelDispatch(b) PROVE CancelHeld'
  BY <1>7, CancelDispatchCancels
<1>8. CASE ~ CancelMoves
  BY <1>1, <1>8, CancelQuiet DEF Footprint, Spares
<1>. QED
  BY <1>2, <1>3, <1>4, <1>5, <1>6, <1>7, <1>8 DEF CancelMoves

-----------------------------------------------------------------------------
(* The publication of a dispatch.                                          *)

CallsOf(d) == {f \in Frames : f.pc \in CallPcs /\ f.dispatch = d}
CallsHeld == \A d \in Dispatches : Held(publication[d] # "none", Spots(stack, CallsOf(d)))

LEMMA CallSteady ==
  ASSUME NEW d
  PROVE  Steady(CallsOf(d)) /\ Lasting(CallsOf(d))
<1>1. \A f \in CallsOf(d) : f.pc \notin {"attempt", "reopen", "last", "return", "lease"}
  BY DEF CallsOf, CallPcs, PublishPcs
<1>2. CallsOf(d) \in SUBSET Frames
  BY DEF CallsOf
<1>. QED
  BY <1>1, <1>2, SteadyFields

LEMMA OtherPcs ==
  ASSUME NEW f, f.pc \notin CallPcs
  PROVE  \A d : f \notin CallsOf(d)
  BY DEF CallsOf

LEMMA HeldKept ==
  ASSUME NEW b \in BOOLEAN, NEW c \in BOOLEAN, NEW S, NEW T, Held(b, S), T = S, b <=> c
  PROVE  Held(c, T)
  BY DEF Held

LEMMA CallsKept ==
  ASSUME CallsHeld, \A d \in Dispatches : Spots(stack', CallsOf(d)) = Spots(stack, CallsOf(d)),
         \A d \in Dispatches : publication'[d] = "none" <=> publication[d] = "none"
  PROVE  CallsHeld'
<1>1. ASSUME NEW d \in Dispatches
      PROVE  Held(publication'[d] # "none", Spots(stack', CallsOf(d)))
  <2>1. /\ Held(publication[d] # "none", Spots(stack, CallsOf(d)))
        /\ Spots(stack', CallsOf(d)) = Spots(stack, CallsOf(d))
        /\ publication[d] # "none" <=> publication'[d] # "none"
    BY DEF CallsHeld
  <2>. QED
    BY <2>1, HeldKept
<1>. QED
  BY <1>1 DEF CallsHeld

LEMMA CallsQuiet ==
  ASSUME TypeInv, CallsHeld, NEW a \in Actors, NEW P, Trace(a, P) \/ UNCHANGED stack,
         \A p \in P : p \notin CallPcs, publication' = publication
  PROVE  CallsHeld'
<1>1. \A d : \A f \in CallsOf(d) : f.pc \notin P
  BY DEF CallsOf
<1>2. ASSUME NEW d \in Dispatches PROVE Spots(stack', CallsOf(d)) = Spots(stack, CallsOf(d))
  <2>1. CASE Trace(a, P)
    BY <1>1, <2>1, Untouched, CallSteady DEF TypeInv
  <2>2. CASE UNCHANGED stack
    BY <2>2
  <2>. QED
    BY <2>1, <2>2
<1>. QED
  BY <1>2, CallsKept

LEMMA CallCarried ==
  ASSUME TypeInv, CallsHeld, NEW a \in Actors, stack[a] # <<>>, Top(a) \in Frames,
         Top(a).pc \in CallPcs, Carries(a), publication' = publication
  PROVE  CallsHeld'
<1>1. PICK f \in PublishFrames, gs \in Seq(Frames) :
        /\ f.pc \notin {"settled", "uncancelPublish"} /\ f.dispatch = Top(a).dispatch
        /\ \A k \in 1 .. Len(gs) : gs[k].pc = "complete"
        /\ Moves(a, <<f>> \o gs)
  BY DEF Carries
<1>2. f \in Frames /\ f.pc \in CallPcs
  BY <1>1, FrameUnion DEF PublishFrames, CallPcs
<1>3. \A k \in 1 .. Len(gs) : gs[k].pc \notin CallPcs
  BY <1>1 DEF CallPcs, PublishPcs
<1>4. ASSUME NEW d \in Dispatches PROVE Spots(stack', CallsOf(d)) = Spots(stack, CallsOf(d))
  <2>1. f \in CallsOf(d) <=> Top(a) \in CallsOf(d)
    BY <1>1, <1>2 DEF CallsOf
  <2>2. \A k \in 1 .. Len(gs) : gs[k] \notin CallsOf(d)
    BY <1>3 DEF CallsOf
  <2>. QED
    BY <1>1, <1>2, <2>1, <2>2, Kept, CallSteady DEF TypeInv
<1>. QED
  BY <1>4, CallsKept

LEMMA GainedCall ==
  ASSUME Stacks, NEW a \in Actors, NEW f \in Frames, NEW g \in Frames, Moves(a, <<f, g>>),
         NEW X, Steady(X), Lasting(X), Top(a) \notin X, f \notin X, g \in X
  PROVE  \E x : Spots(stack', X) = Spots(stack, X) \cup {x}
<1>1. stack[a] # <<>> => Top(a) \notin X
  OBVIOUS
<1>2. (f \in X /\ g \notin X) \/ (f \notin X /\ g \in X)
  OBVIOUS
<1>. QED
  BY <1>1, <1>2, GainedTwo, ZenonT(40)

LEMMA CallComes ==
  ASSUME Stacks, NEW a \in Actors, stack[a] # <<>>, NEW next \in Frames, NEW g \in Frames,
         Moves(a, <<next, g>>), Top(a).pc \notin CallPcs, next.pc \notin CallPcs, g.pc \in CallPcs
  PROVE  /\ \E x : Spots(stack', CallsOf(g.dispatch)) = Spots(stack, CallsOf(g.dispatch)) \cup {x}
         /\ \A e : e # g.dispatch => Spots(stack', CallsOf(e)) = Spots(stack, CallsOf(e))
<1>1. \A e : Steady(CallsOf(e)) /\ Lasting(CallsOf(e)) /\ Top(a) \notin CallsOf(e) /\ next \notin CallsOf(e)
  BY CallSteady, OtherPcs
<1>2. \A e : g \in CallsOf(e) <=> e = g.dispatch
  BY DEF CallsOf
<1>3. \E x : Spots(stack', CallsOf(g.dispatch)) = Spots(stack, CallsOf(g.dispatch)) \cup {x}
  <2>. DEFINE X == CallsOf(g.dispatch)
  <2>1. Steady(X) /\ Lasting(X) /\ Top(a) \notin X /\ next \notin X /\ g \in X
    BY <1>1, <1>2
  <2>. HIDE DEF X
  <2>2. \E x : Spots(stack', X) = Spots(stack, X) \cup {x}
    BY <2>1, GainedCall, ZenonT(40)
  <2>. QED
    BY <2>2 DEF X
<1>4. ASSUME NEW e, e # g.dispatch PROVE Spots(stack', CallsOf(e)) = Spots(stack, CallsOf(e))
  <2>. DEFINE X == CallsOf(e)
  <2>1. Steady(X) /\ Lasting(X) /\ Top(a) \notin X /\ next \notin X /\ g \notin X
    BY <1>1, <1>2, <1>4
  <2>. HIDE DEF X
  <2>2. Spots(stack', X) = Spots(stack, X)
    BY <2>1, KeptTwo
  <2>. QED
    BY <2>2 DEF X
<1>. QED
  BY <1>3, <1>4

LEMMA CallArmed ==
  ASSUME TypeInv, CallsHeld, NEW a \in Actors, stack[a] # <<>>, Top(a) \in Frames,
         Top(a).pc \notin CallPcs, NEW next \in Frames, next.pc \notin CallPcs,
         NEW d \in Dispatches, publication[d] = "none",
         publication' = [publication EXCEPT ![d] = "armed"],
         PublishFrame(d) \in Frames, Moves(a, <<next, PublishFrame(d)>>)
  PROVE  CallsHeld'
<1>. DEFINE g == PublishFrame(d)
<1>1. g \in Frames /\ g.pc \in CallPcs /\ g.dispatch = d /\ Moves(a, <<next, g>>) /\ Stacks
  BY DEF PublishFrame, CallPcs, PublishPcs, TypeInv
<1>. HIDE DEF g
<1>2. /\ \E x : Spots(stack', CallsOf(d)) = Spots(stack, CallsOf(d)) \cup {x}
      /\ \A e : e # d => Spots(stack', CallsOf(e)) = Spots(stack, CallsOf(e))
  BY <1>1, CallComes, ZenonT(40)
<1>3. ASSUME NEW e \in Dispatches PROVE Held(publication'[e] # "none", Spots(stack', CallsOf(e)))
  <2>1. Held(publication[e] # "none", Spots(stack, CallsOf(e)))
    BY DEF CallsHeld
  <2>2. publication'[e] = IF e = d THEN "armed" ELSE publication[e]
    BY DEF TypeInv, TypeOK
  <2>3. CASE e = d
    <3>1. Spots(stack, CallsOf(d)) = {}
      BY <2>1, <2>3 DEF Held
    <3>2. publication'[d] # "none" /\ \E x : Spots(stack', CallsOf(d)) = {x}
      BY <1>2, <2>2, <2>3, <3>1
    <3>. QED
      BY <2>3, <3>2 DEF Held
  <2>4. CASE e # d
    BY <1>2, <2>1, <2>2, <2>4, HeldKept
  <2>. QED
    BY <2>3, <2>4
<1>. QED
  BY <1>3 DEF CallsHeld

(* A request, made from a frame that publishes nothing.                    *)
LEMMA RequestCalls ==
  ASSUME TypeInv, CallsHeld, NEW a \in Actors, stack[a] # <<>>, Top(a).pc \notin CallPcs,
         NEW f \in Frames, f.pc \notin CallPcs, RequestDrain(a, f)
  PROVE  CallsHeld'
<1>1. Top(a) \in Frames /\ Stacks
  BY TopShape DEF TypeInv
<1>2. ASSUME UNCHANGED publication, NEW g \in Frames, Same(f, g), Moves(a, <<g>>) PROVE CallsHeld'
  <2>1. g.pc \notin CallPcs
    BY <1>2, SameFrame
  <2>2. ASSUME NEW d \in Dispatches PROVE Spots(stack', CallsOf(d)) = Spots(stack, CallsOf(d))
    <3>1. g \notin CallsOf(d) /\ Top(a) \notin CallsOf(d)
      BY <2>1, OtherPcs
    <3>. QED
      BY <1>1, <1>2, <3>1, KeptOne, CallSteady
  <2>. QED
    BY <1>2, <2>2, CallsKept
<1>3. ASSUME UNCHANGED publication, Moves(a, <<>>) PROVE CallsHeld'
  <2>2. ASSUME NEW d \in Dispatches PROVE Spots(stack', CallsOf(d)) = Spots(stack, CallsOf(d))
    <3>1. Top(a) \notin CallsOf(d)
      BY OtherPcs
    <3>. QED
      BY <1>1, <1>3, <3>1, PassedNone, CallSteady
  <2>. QED
    BY <1>3, <2>2, CallsKept
<1>4. ASSUME NEW d \in Dispatches, publication[d] = "none",
             publication' = [publication EXCEPT ![d] = "armed"],
             PublishFrame(d) \in Frames, Moves(a, <<f, PublishFrame(d)>>)
      PROVE  CallsHeld'
  BY <1>1, <1>4, CallArmed
<1>. QED
  BY <1>1, <1>2, <1>3, <1>4, Requested

(* A publication that is over: nothing, or another call, goes on.          *)
LEMMA CallEnded ==
  ASSUME TypeInv, CallsHeld, NEW a \in Actors, stack[a] # <<>>, Top(a) \in Frames,
         Top(a).pc \in CallPcs, Top(a).dispatch \in Dispatches,
         publication' = [publication EXCEPT ![Top(a).dispatch] = "none"],
         \A e \in Dispatches :
           Spots(stack', CallsOf(e)) = Spots(stack, CallsOf(e)) \ {Top1(a)}
  PROVE  CallsHeld'
<1>. DEFINE d == Top(a).dispatch
<1>1. ASSUME NEW e \in Dispatches PROVE Held(publication'[e] # "none", Spots(stack', CallsOf(e)))
  <2>. DEFINE X == CallsOf(e)
              b == publication[e] # "none"
  <2>1. Held(b, Spots(stack, X)) /\ Spots(stack', X) = Spots(stack, X) \ {Top1(a)} /\ b \in BOOLEAN
    BY DEF CallsHeld
  <2>2. Top(a) \in X <=> e = d
    BY DEF CallsOf
  <2>3. publication'[e] = IF e = d THEN "none" ELSE publication[e]
    BY DEF TypeInv, TypeOK
  <2>4. CASE e = d
    <3>. HIDE DEF X, b
    <3>1. Spots(stack, X) = {Top1(a)}
      BY <2>1, <2>2, <2>4, HeldByTop DEF TypeInv
    <3>2. Spots(stack', X) = {}
      BY <2>1, <3>1
    <3>. QED
      BY <2>3, <2>4, <3>2 DEF Held, X
  <2>5. CASE e # d
    <3>1. Top1(a) \notin Spots(stack, X)
      BY <2>2, <2>5, SpotOfTop DEF TypeInv
    <3>2. Spots(stack', X) = Spots(stack, X)
      BY <2>1, <3>1
    <3>. QED
      BY <2>1, <2>3, <2>5, <3>2, HeldKept
  <2>. QED
    BY <2>4, <2>5
<1>. QED
  BY <1>1 DEF CallsHeld

LEMMA NoSpot ==
  ASSUME Stacks, NEW a \in Actors, stack[a] # <<>>, NEW X, Top(a) \notin X
  PROVE  Spots(stack, X) = Spots(stack, X) \ {Top1(a)}
<1>1. Top1(a) \notin Spots(stack, X)
  BY SpotOfTop
<1>. QED
  BY <1>1

LEMMA CallReturns ==
  ASSUME TypeInv, CallsHeld, NEW a \in Actors, stack[a] # <<>>, Top(a) \in Frames,
         Top(a).pc \in CallPcs, Top(a).dispatch \in Dispatches,
         publication' = [publication EXCEPT ![Top(a).dispatch] = "none"],
         \/ Moves(a, <<>>)
         \/ \E f \in Frames : f.pc \notin CallPcs /\ Moves(a, <<f>>)
         \/ \E f \in Frames, g \in Frames : f.pc \notin CallPcs /\ g.pc \notin CallPcs /\ Moves(a, <<f, g>>)
  PROVE  CallsHeld'
<1>1. ASSUME NEW e \in Dispatches
      PROVE  Spots(stack', CallsOf(e)) = Spots(stack, CallsOf(e)) \ {Top1(a)}
  <2>. DEFINE X == CallsOf(e)
  <2>1. Steady(X) /\ Lasting(X) /\ \A f : f.pc \notin CallPcs => f \notin X
    BY CallSteady, OtherPcs
  <2>. HIDE DEF X
  <2>2. Spots(stack', X) = Spots(stack, X) \ {Top1(a)}
    <3>1. CASE Moves(a, <<>>)
      BY <2>1, <3>1, NoSpot, LeftNone, PassedNone DEF TypeInv
    <3>2. ASSUME NEW f \in Frames, f.pc \notin CallPcs, Moves(a, <<f>>)
          PROVE Spots(stack', X) = Spots(stack, X) \ {Top1(a)}
      BY <2>1, <3>2, NoSpot, LeftOne, KeptOne DEF TypeInv
    <3>3. ASSUME NEW f \in Frames, NEW g \in Frames, f.pc \notin CallPcs, g.pc \notin CallPcs, Moves(a, <<f, g>>)
          PROVE Spots(stack', X) = Spots(stack, X) \ {Top1(a)}
      BY <2>1, <3>3, NoSpot, LeftTwo, KeptTwo DEF TypeInv
    <3>. QED
      BY <3>1, <3>2, <3>3
  <2>. QED
    BY <2>2 DEF X
<1>. QED
  BY <1>1, CallEnded

(* The publication of d is over and that of its replacement begins.        *)
LEMMA CallReplaced ==
  ASSUME TypeInv, CallsHeld, NEW a \in Actors, stack[a] # <<>>, Top(a) \in Frames,
         Top(a).pc \in CallPcs, Top(a).dispatch \in Dispatches,
         NEW next \in Frames, next.pc \notin CallPcs,
         NEW r \in Dispatches, publication[r] = "none", PublishFrame(r) \in Frames,
         publication' = [[publication EXCEPT ![Top(a).dispatch] = "none"] EXCEPT ![r] = "armed"],
         Moves(a, <<next, PublishFrame(r)>>)
  PROVE  CallsHeld'
<1>. DEFINE d == Top(a).dispatch
            g == PublishFrame(r)
<1>1. g \in Frames /\ g.pc \in CallPcs /\ g.dispatch = r /\ Moves(a, <<next, g>>) /\ Stacks
  BY DEF PublishFrame, CallPcs, PublishPcs, TypeInv
<1>. HIDE DEF g
<1>2. Top(a) \in CallsOf(d) /\ Held(publication[d] # "none", Spots(stack, CallsOf(d)))
  BY DEF CallsOf, CallsHeld
<1>3. publication[d] # "none" /\ Spots(stack, CallsOf(d)) = {Top1(a)}
  <2>. DEFINE b == publication[d] # "none"
  <2>1. b \in BOOLEAN /\ Held(b, Spots(stack, CallsOf(d)))
    BY <1>2
  <2>. HIDE DEF b
  <2>2. b /\ Spots(stack, CallsOf(d)) = {Top1(a)}
    BY <1>1, <1>2, <2>1, HeldByTop
  <2>. QED
    BY <2>2 DEF b
<1>4. r # d
  BY <1>3
<1>5. ASSUME NEW e \in Dispatches PROVE Held(publication'[e] # "none", Spots(stack', CallsOf(e)))
  <2>. DEFINE X == CallsOf(e)
  <2>1. next \notin X /\ Steady(X) /\ Lasting(X)
    BY OtherPcs, CallSteady
  <2>2. (g \in X <=> e = r) /\ (Top(a) \in X <=> e = d)
    BY <1>1 DEF CallsOf
  <2>3. Held(publication[e] # "none", Spots(stack, X))
    BY DEF CallsHeld
  <2>4. publication'[e] = IF e = r THEN "armed" ELSE IF e = d THEN "none" ELSE publication[e]
    BY DEF TypeInv, TypeOK
  <2>5. CASE e = r
    <3>1. next \notin X /\ g \in X /\ Top(a) \notin X
      BY <1>4, <2>1, <2>2, <2>5
    <3>. HIDE DEF X
    <3>2. PICK x : Spots(stack', X) = Spots(stack, X) \cup {x}
      BY <1>1, <2>1, <3>1, GainedCall
    <3>3. Spots(stack, X) = {}
      BY <2>3, <2>5 DEF Held
    <3>4. Spots(stack', X) = {x}
      BY <3>2, <3>3
    <3>5. publication'[e] # "none"
      BY <2>4, <2>5
    <3>. QED
      BY <3>4, <3>5 DEF Held, X
  <2>6. CASE e = d
    <3>1. next \notin X /\ g \notin X /\ Top(a) \in X
      BY <1>4, <2>1, <2>2, <2>6
    <3>2. Spots(stack, X) = {Top1(a)}
      BY <1>3, <2>6
    <3>3. publication'[e] = "none"
      BY <1>4, <2>4, <2>6
    <3>. HIDE DEF X
    <3>4. Spots(stack', X) = Spots(stack, X) \ {Top1(a)}
      BY <1>1, <2>1, <3>1, LeftTwo
    <3>5. Spots(stack', X) = {}
      BY <3>2, <3>4
    <3>. QED
      BY <3>3, <3>5 DEF Held, X
  <2>7. CASE e # r /\ e # d
    <3>1. next \notin X /\ g \notin X /\ Top(a) \notin X
      BY <2>1, <2>2, <2>7
    <3>. HIDE DEF X
    <3>2. Spots(stack', X) = Spots(stack, X)
      BY <1>1, <2>1, <3>1, KeptTwo
    <3>3. publication'[e] = publication[e]
      BY <2>4, <2>7
    <3>. QED
      BY <2>3, <3>2, <3>3, HeldKept DEF X
  <2>. QED
    BY <2>5, <2>6, <2>7
<1>. QED
  BY <1>5 DEF CallsHeld

LEMMA OfferedCalls ==
  ASSUME TypeInv, CallsHeld, NEW a \in Actors, Offered(a)
  PROVE  CallsHeld'
<1>. DEFINE f == At(a, "return")
<1>1. stack[a] # <<>> /\ Top(a).pc = "offer" /\ Top(a) \in SchedFrames /\ Stacks
  BY InTop, FrameKinds DEF Offered, TypeInv
<1>2. f \in Frames /\ f.pc = "return"
  BY <1>1, FrameUnion DEF At, SchedFrames
<1>3. \/ Return(a) /\ publication' = publication
      \/ RequestDrain(a, f)
  BY DEF Offered
<1>4. Top(a).pc \notin CallPcs /\ f.pc \notin CallPcs
  BY <1>1, <1>2 DEF CallPcs, PublishPcs
<1>. HIDE DEF f
<1>5. CASE Return(a) /\ publication' = publication
  <2>1. Trace(a, {"offer"}) /\ \A p \in {"offer"} : p \notin CallPcs
    BY <1>1, <1>5, ReturnTrace DEF CallPcs, PublishPcs
  <2>. QED
    BY <1>5, <2>1, CallsQuiet
<1>6. CASE RequestDrain(a, f)
  BY <1>1, <1>2, <1>4, <1>6, RequestCalls
<1>. QED
  BY <1>3, <1>5, <1>6

LEMMA LastOfferCalls ==
  ASSUME TypeInv, CallsHeld, NEW a \in Actors, LastOffer(a)
  PROVE  CallsHeld'
<1>. DEFINE f == [At(a, "return") EXCEPT !.res = "none"]
<1>1. stack[a] # <<>> /\ Top(a).pc = "last" /\ Top(a) \in ResFrames /\ Stacks
  BY InTop, FrameKinds DEF LastOffer, TypeInv
<1>2. f \in Frames /\ f.pc = "return"
  <2>1. At(a, "return") \in ResFrames /\ At(a, "return").pc = "return"
    BY <1>1 DEF At, ResFrames
  <2>2. f \in ResFrames /\ f.pc = "return"
    BY <2>1 DEF ResFrames, Results
  <2>. QED
    BY <2>2, FrameUnion
<1>3. \/ Return(a) /\ publication' = publication
      \/ RequestDrain(a, f)
  BY DEF LastOffer
<1>. HIDE DEF f
<1>4. Top(a).pc \notin CallPcs /\ f.pc \notin CallPcs
  BY <1>1, <1>2 DEF CallPcs, PublishPcs
<1>5. CASE Return(a) /\ publication' = publication
  <2>1. Trace(a, {"last"}) /\ \A p \in {"last"} : p \notin CallPcs
    BY <1>1, <1>5, ReturnTrace DEF CallPcs, PublishPcs
  <2>. QED
    BY <1>5, <2>1, CallsQuiet
<1>6. CASE RequestDrain(a, f)
  BY <1>1, <1>2, <1>4, <1>6, RequestCalls
<1>. QED
  BY <1>3, <1>5, <1>6

LEMMA ContinueCalls ==
  ASSUME TypeInv, CallsHeld, NEW h \in Hosts, Continue(h)
  PROVE  CallsHeld'
<1>1. /\ h \in Actors /\ stack[h] # <<>> /\ Top(h).pc = "again" /\ Stacks
      /\ At(h, "ack") \in Frames /\ At(h, "ack").pc = "ack"
  BY ActorKinds, InTop, TurnEnds DEF Continue, TypeInv
<1>2. \/ RequestDrain(h, At(h, "ack"))
      \/ Goto(h, At(h, "ack")) /\ publication' = publication
  BY DEF Continue
<1>3. Top(h).pc \notin CallPcs /\ At(h, "ack").pc \notin CallPcs
  BY <1>1 DEF CallPcs, PublishPcs
<1>4. CASE RequestDrain(h, At(h, "ack"))
  BY <1>1, <1>3, <1>4, RequestCalls
<1>5. CASE Goto(h, At(h, "ack")) /\ publication' = publication
  <2>1. Trace(h, {"again", "ack"}) /\ \A p \in {"again", "ack"} : p \notin CallPcs
    BY <1>1, <1>5, GotoTrace DEF CallPcs, PublishPcs
  <2>. QED
    BY <1>1, <1>5, <2>1, CallsQuiet
<1>. QED
  BY <1>2, <1>4, <1>5

LEMMA AttemptCalls ==
  ASSUME TypeInv, CallsHeld, NEW a \in Actors, Attempt(a)
  PROVE  CallsHeld'
<1>1. stack[a] # <<>> /\ Top(a).pc = "attempt" /\ Top(a) \in Frames /\ Stacks
  BY AttemptMoves, TopShape DEF TypeInv
<1>2. Top(a).pc \notin CallPcs
  BY <1>1 DEF CallPcs, PublishPcs
<1>3. CASE Return(a) /\ publication' = publication
  <2>1. Trace(a, {"attempt"}) /\ \A p \in {"attempt"} : p \notin CallPcs
    BY <1>1, <1>3, ReturnTrace DEF CallPcs, PublishPcs
  <2>. QED
    BY <1>3, <2>1, CallsQuiet
<1>4. ASSUME NEW f \in Frames, f.pc = "attempt", RequestDrain(a, f)
      PROVE  CallsHeld'
  <2>1. f.pc \notin CallPcs
    BY <1>1, <1>2, <1>4
  <2>. QED
    BY <1>1, <1>2, <1>4, <2>1, RequestCalls
<1>5. ASSUME NEW d \in Dispatches, publication[d] = "none", NEW f \in Frames, f.pc = "reopen",
             publication' = [publication EXCEPT ![d] = "armed"],
             PublishFrame(d) \in Frames, Moves(a, <<f, PublishFrame(d)>>)
      PROVE  CallsHeld'
  <2>1. f.pc \notin CallPcs
    BY <1>5 DEF CallPcs, PublishPcs
  <2>. QED
    BY <1>1, <1>2, <1>5, <2>1, CallArmed
<1>. QED
  BY <1>3, <1>4, <1>5, AttemptMoves

LEMMA JoinDispatchCalls ==
  ASSUME TypeInv, CallsHeld, NEW a \in Actors, JoinDispatch(a)
  PROVE  CallsHeld'
<1>1. /\ stack[a] # <<>> /\ Top(a).pc = "rdqJoin" /\ Frame("return") \in Frames /\ Stacks
      /\ Frame("return").pc = "return" /\ Top(a) \in Frames
  BY JoinDispatchMoves, TopShape DEF TypeInv, Frame
<1>2. /\ Top(a).pc \notin CallPcs /\ Frame("return").pc \notin CallPcs
      /\ \A d : Top(a) \notin CallsOf(d)
  BY <1>1, OtherPcs DEF CallPcs, PublishPcs
<1>3. CASE Return(a) /\ publication' = publication
  <2>1. Trace(a, {"rdqJoin"}) /\ \A p \in {"rdqJoin"} : p \notin CallPcs
    BY <1>1, <1>3, ReturnTrace DEF CallPcs, PublishPcs
  <2>. QED
    BY <1>3, <2>1, CallsQuiet
<1>4. CASE RequestDrain(a, Frame("return"))
  BY <1>1, <1>2, <1>4, RequestCalls
<1>5. ASSUME Return(a), NEW d \in Dispatches, publication[d] # "none",
             publication' = [publication EXCEPT ![d] = "again"]
      PROVE  CallsHeld'
  <2>1. Moves(a, <<>>)
    BY <1>1, <1>5, Returned
  <2>2. \A e \in Dispatches : Spots(stack', CallsOf(e)) = Spots(stack, CallsOf(e))
    BY <1>1, <1>2, <2>1, PassedNone, CallSteady
  <2>3. \A e \in Dispatches : publication'[e] = "none" <=> publication[e] = "none"
    BY <1>5 DEF TypeInv, TypeOK
  <2>. QED
    BY <2>2, <2>3, CallsKept
<1>6. ASSUME NEW d \in Dispatches, publication[d] = "none",
             publication' = [publication EXCEPT ![d] = "armed"],
             PublishFrame(d) \in Frames, Call(a, Frame("return"), PublishFrame(d))
      PROVE  CallsHeld'
  <2>1. Moves(a, <<Frame("return"), PublishFrame(d)>>)
    BY <1>1, <1>6, CallMoves
  <2>. QED
    BY <1>1, <1>2, <1>6, <2>1, CallArmed
<1>. QED
  BY <1>3, <1>4, <1>5, <1>6, JoinDispatchMoves

LEMMA SettleCalls ==
  ASSUME TypeInv, CallsHeld, NEW a \in Actors, Settle(a)
  PROVE  CallsHeld'
<1>. DEFINE d == Top(a).dispatch
            done == [publication EXCEPT ![d] = "none"]
<1>1. /\ stack[a] # <<>> /\ Top(a).pc \in CallPcs /\ Top(a) \in Frames /\ d \in Dispatches /\ Stacks
  BY SettleMoves, TopShape DEF TypeInv, CallPcs, PublishPcs
<1>2. ASSUME publication[d] = "again", publication' = [publication EXCEPT ![d] = "armed"],
             PublishFrame(d) \in Frames, Moves(a, <<PublishFrame(d)>>)
      PROVE  CallsHeld'
  <2>1. PublishFrame(d).pc \in CallPcs /\ PublishFrame(d).dispatch = d
    BY DEF PublishFrame, CallPcs, PublishPcs
  <2>2. ASSUME NEW e \in Dispatches PROVE Spots(stack', CallsOf(e)) = Spots(stack, CallsOf(e))
    <3>1. PublishFrame(d) \in CallsOf(e) <=> Top(a) \in CallsOf(e)
      BY <1>1, <1>2, <2>1 DEF CallsOf
    <3>. QED
      BY <1>1, <1>2, <3>1, KeptOne, CallSteady
  <2>3. \A e \in Dispatches : publication'[e] = "none" <=> publication[e] = "none"
    BY <1>2 DEF TypeInv, TypeOK
  <2>. QED
    BY <2>2, <2>3, CallsKept
<1>3. ASSUME NEW next \in Frames, next.pc = "uncancelPublish", FailureAction(a, d, done, next)
      PROVE  CallsHeld'
  <2>1. next.pc \notin CallPcs
    BY <1>3 DEF CallPcs
  <2>2. CASE Moves(a, <<next>>) /\ publication' = done
    BY <1>1, <2>1, <2>2, CallReturns
  <2>3. CASE /\ publication' = done /\ Frame("move") \in Frames /\ Frame("move").pc = "move"
             /\ Moves(a, <<next, Frame("move")>>)
    <3>1. Frame("move").pc \notin CallPcs
      BY <2>3 DEF CallPcs, PublishPcs
    <3>. QED
      BY <1>1, <2>1, <2>3, <3>1, CallReturns
  <2>4. ASSUME NEW r \in Dispatches, publication[r] = "none", publication' = [done EXCEPT ![r] = "armed"],
               PublishFrame(r) \in Frames, Moves(a, <<next, PublishFrame(r)>>)
        PROVE  CallsHeld'
    BY <1>1, <2>1, <2>4, CallReplaced
  <2>. HIDE DEF done, d
  <2>. QED
    BY <1>1, <1>3, <2>2, <2>3, <2>4, FailureMoves
<1>4. CASE publication' = done /\ Moves(a, <<>>)
  BY <1>1, <1>4, CallReturns
<1>5. ASSUME publication' = done, Frame("move") \in Frames, Frame("move").pc = "move",
             NEW f \in Frames, f.pc = "settled", Moves(a, <<f, Frame("move")>>)
      PROVE  CallsHeld'
  <2>1. f.pc \notin CallPcs /\ Frame("move").pc \notin CallPcs
    BY <1>5 DEF CallPcs, PublishPcs
  <2>. QED
    BY <1>1, <1>5, <2>1, CallReturns
<1>. QED
  BY <1>2, <1>3, <1>4, <1>5, SettleMoves

LEMMA CancelDispatchCalls ==
  ASSUME TypeInv, CallsHeld, NEW a \in Actors, CancelDispatch(a)
  PROVE  CallsHeld'
<1>1. stack[a] # <<>> /\ Top(a).pc = "cancel" /\ Top(a) \in Frames /\ Stacks
  BY CancelDispatchMoves DEF TypeInv
<1>2. Top(a).pc \notin CallPcs
  BY <1>1 DEF CallPcs, PublishPcs
<1>3. ASSUME publication' = publication, NEW f \in Frames, f.pc \notin CallPcs, Moves(a, <<f>>)
      PROVE  CallsHeld'
  <2>1. \A e \in Dispatches : f \notin CallsOf(e) /\ Top(a) \notin CallsOf(e)
    BY <1>2, <1>3, OtherPcs
  <2>2. \A e \in Dispatches : Spots(stack', CallsOf(e)) = Spots(stack, CallsOf(e))
    BY <1>1, <1>3, <2>1, KeptOne, CallSteady
  <2>. QED
    BY <1>3, <2>2, CallsKept
<1>4. ASSUME NEW next \in Frames, next.pc = "uncancel", NEW d, FailureAction(a, d, publication, next)
      PROVE  CallsHeld'
  <2>1. next.pc \notin CallPcs
    BY <1>4 DEF CallPcs, PublishPcs
  <2>2. CASE Moves(a, <<next>>) /\ publication' = publication
    BY <1>3, <2>1, <2>2
  <2>3. CASE /\ publication' = publication /\ Frame("move") \in Frames /\ Frame("move").pc = "move"
             /\ Moves(a, <<next, Frame("move")>>)
    <3>1. Frame("move").pc \notin CallPcs
      BY <2>3 DEF CallPcs, PublishPcs
    <3>2. \A e \in Dispatches : /\ next \notin CallsOf(e) /\ Top(a) \notin CallsOf(e)
                                /\ Frame("move") \notin CallsOf(e)
      BY <1>2, <2>1, <3>1, OtherPcs
    <3>3. \A e \in Dispatches : Spots(stack', CallsOf(e)) = Spots(stack, CallsOf(e))
      BY <1>1, <2>3, <3>2, KeptTwo, CallSteady
    <3>. QED
      BY <2>3, <3>3, CallsKept
  <2>4. ASSUME NEW r \in Dispatches, publication[r] = "none",
               publication' = [publication EXCEPT ![r] = "armed"],
               PublishFrame(r) \in Frames, Moves(a, <<next, PublishFrame(r)>>)
        PROVE  CallsHeld'
    BY <1>1, <1>2, <2>1, <2>4, CallArmed
  <2>. QED
    BY <1>1, <1>4, <2>2, <2>3, <2>4, FailureMoves
<1>5. CASE /\ Frame("retire") \in Frames /\ Frame("retire").pc = "retire"
           /\ Moves(a, <<Frame("retire")>>) /\ publication' = publication
  <2>1. Frame("retire").pc \notin CallPcs
    BY <1>5 DEF CallPcs, PublishPcs
  <2>. QED
    BY <1>3, <1>5, <2>1
<1>. QED
  BY <1>4, <1>5, CancelDispatchMoves

LEMMA CarriedCalls ==
  ASSUME TypeInv, CallsHeld, NEW a \in Actors,
         Enter(a) \/ PlanDeliveries(a) \/ Send(a) \/ Accept(a) \/ Reject(a) \/ Finish(a)
  PROVE  CallsHeld'
<1>1. stack[a] # <<>> /\ Top(a) \in Frames /\ Top(a).pc \in CallPcs
  BY InTop DEF Enter, PlanDeliveries, Send, Accept, Reject, Finish, CallPcs, PublishPcs
<1>2. Carries(a)
  BY EnterType, PlanDeliveriesType, SendType, AcceptType, RejectType, FinishType
<1>3. publication' = publication
  BY DEF Enter, PlanDeliveries, Send, Accept, Reject, Finish, dispatchVars
<1>. QED
  BY <1>1, <1>2, <1>3, CallCarried

LEMMA CallsStep ==
  ASSUME TypeInv, ShapeInv, CallsHeld, Next
  PROVE  CallsHeld'
<1>0. PICK a \in Actors : \E P : Footprint(a, P)
  BY Footprints DEF Foot
<1>1. PICK P : Footprint(a, P)
  BY <1>0
<1>2. ASSUME NEW b \in Actors, Offered(b) PROVE CallsHeld'
  BY <1>2, OfferedCalls
<1>3. ASSUME NEW b \in Actors, Settle(b) PROVE CallsHeld'
  BY <1>3, SettleCalls
<1>4. ASSUME NEW b \in Actors, Attempt(b) PROVE CallsHeld'
  BY <1>4, AttemptCalls
<1>5. ASSUME NEW b \in Actors, LastOffer(b) PROVE CallsHeld'
  BY <1>5, LastOfferCalls
<1>6. ASSUME NEW b \in Actors, CancelDispatch(b) PROVE CallsHeld'
  BY <1>6, CancelDispatchCalls
<1>7. ASSUME NEW b \in Actors, JoinDispatch(b) PROVE CallsHeld'
  BY <1>7, JoinDispatchCalls
<1>8. ASSUME NEW h \in Hosts, Continue(h) PROVE CallsHeld'
  BY <1>8, ContinueCalls
<1>9. ASSUME NEW b \in Actors, Enter(b) \/ PlanDeliveries(b) \/ Send(b) \/ Accept(b) \/ Reject(b) \/ Finish(b) PROVE CallsHeld'
  BY <1>9, CarriedCalls
<1>10. CASE ~ PubMoves
  BY <1>1, <1>10, CallsQuiet DEF Footprint, Spares
<1>. QED
  BY <1>2, <1>3, <1>4, <1>5, <1>6, <1>7, <1>8, <1>9, <1>10 DEF PubMoves

-----------------------------------------------------------------------------
(* Together.                                                               *)

ClaimsInv == DrainHeld /\ CancelHeld /\ CallsHeld

LEMMA InitClaims ==
  ASSUME Init
  PROVE  ClaimsInv
<1>1. draining = FALSE /\ cancelling = FALSE /\ \A d \in Dispatches : publication[d] = "none"
  BY DEF Init
<1>2. DrainHeld /\ CancelHeld
  BY <1>1, EmptyStacks DEF Held, DrainHeld, CancelHeld
<1>3. CallsHeld
  BY <1>1, EmptyStacks DEF Held, CallsHeld
<1>. QED
  BY <1>2, <1>3 DEF ClaimsInv

LEMMA StutterClaims ==
  ASSUME ClaimsInv, UNCHANGED vars
  PROVE  ClaimsInv'
<1>1. stack' = stack /\ draining' = draining /\ cancelling' = cancelling /\ publication' = publication
  BY DEF vars, dispatchVars
<1>2. DrainHeld' /\ CancelHeld'
  BY <1>1, DrainKept, CancelKept DEF ClaimsInv
<1>3. CallsHeld'
  BY <1>1, CallsKept DEF ClaimsInv
<1>. QED
  BY <1>2, <1>3 DEF ClaimsInv

LEMMA PositionShape ==
  ASSUME Stacks
  PROVE  /\ \A x : x \in Positions <=> \E b \in Actors : \E i \in 1 .. Len(stack[b]) : x = <<b, i>>
         /\ \A b, i : FrameAt(<<b, i>>) = stack[b][i]
         /\ \A b \in Actors : \A i \in 1 .. Len(stack[b]) : stack[b][i] \in Frames
<1>1. \A b \in Actors : /\ DOMAIN stack[b] = 1 .. Len(stack[b])
                        /\ \A i \in 1 .. Len(stack[b]) : stack[b][i] \in Frames
  BY ElementOfSeq DEF Stacks
<1>2. \A x : x \in Positions <=> \E b \in Actors : \E i \in DOMAIN stack[b] : x = <<b, i>>
  BY DEF Positions
<1>3. \A b, i : FrameAt(<<b, i>>) = stack[b][i]
  BY DEF FrameAt
<1>. QED
  BY <1>1, <1>2, <1>3

LEMMA FramesSpots ==
  ASSUME Stacks, NEW ps
  PROVE  FramesAt(ps) = Spots(stack, Kind(ps))
<1>1. ASSUME NEW x PROVE x \in FramesAt(ps) <=> x \in Spots(stack, Kind(ps))
  <2>1. x \in FramesAt(ps) <=> x \in Positions /\ FrameAt(x).pc \in ps
    BY DEF FramesAt
  <2>2. x \in Spots(stack, Kind(ps)) <=>
          \E b \in Actors : \E i \in 1 .. Len(stack[b]) : x = <<b, i>> /\ stack[b][i] \in Kind(ps)
    BY SpotsAt
  <2>3. \A b \in Actors : \A i \in 1 .. Len(stack[b]) : stack[b][i] \in Kind(ps) <=> stack[b][i].pc \in ps
    BY PositionShape DEF Kind
  <2>. QED
    BY PositionShape, <2>1, <2>2, <2>3
<1>. QED
  BY <1>1

LEMMA CallSpots ==
  ASSUME Stacks, NEW d
  PROVE  {x \in FramesAt(CallPcs) : FrameAt(x).dispatch = d} = Spots(stack, CallsOf(d))
<1>. DEFINE L == {x \in FramesAt(CallPcs) : FrameAt(x).dispatch = d}
<1>1. ASSUME NEW x PROVE x \in L <=> x \in Spots(stack, CallsOf(d))
  <2>1. x \in L <=> x \in Positions /\ FrameAt(x).pc \in CallPcs /\ FrameAt(x).dispatch = d
    BY DEF FramesAt
  <2>2. x \in Spots(stack, CallsOf(d)) <=>
          \E b \in Actors : \E i \in 1 .. Len(stack[b]) : x = <<b, i>> /\ stack[b][i] \in CallsOf(d)
    BY SpotsAt
  <2>3. \A b \in Actors : \A i \in 1 .. Len(stack[b]) :
          stack[b][i] \in CallsOf(d) <=> stack[b][i].pc \in CallPcs /\ stack[b][i].dispatch = d
    BY PositionShape DEF CallsOf
  <2>. HIDE DEF L
  <2>. QED
    BY PositionShape, <2>1, <2>2, <2>3
<1>. HIDE DEF L
<1>2. L = Spots(stack, CallsOf(d))
  BY <1>1
<1>. QED
  BY <1>2 DEF L

LEMMA HeldCounts ==
  ASSUME NEW c \in BOOLEAN, NEW S, Held(c, S)
  PROVE  Cardinality(S) = IF c THEN 1 ELSE 0
<1>1. CASE c
  BY <1>1, FS_Singleton DEF Held
<1>2. CASE ~ c
  BY <1>2, FS_EmptySet DEF Held
<1>. QED
  BY <1>1, <1>2

LEMMA ClaimsCount ==
  ASSUME TypeInv, ClaimsInv
  PROVE  ClaimsAreHeld
<1>1. Cardinality(FramesAt({"mark", "turn", "release"})) = (IF draining THEN 1 ELSE 0)
  <2>1. FramesAt({"mark", "turn", "release"}) = Spots(stack, Kind(TurnClaim)) /\ draining \in BOOLEAN
    BY FramesSpots DEF TypeInv, TypeOK, TurnClaim
  <2>. QED
    BY <2>1, HeldCounts DEF ClaimsInv, DrainHeld
<1>2. Cardinality(FramesAt({"move", "purge", "reopen"})) = (IF cancelling THEN 1 ELSE 0)
  <2>1. FramesAt({"move", "purge", "reopen"}) = Spots(stack, Kind(CancelClaim)) /\ cancelling \in BOOLEAN
    BY FramesSpots DEF TypeInv, TypeOK, CancelClaim
  <2>. QED
    BY <2>1, HeldCounts DEF ClaimsInv, CancelHeld
<1>3. ASSUME NEW d \in Dispatches
      PROVE  Cardinality({x \in FramesAt(PublishPcs \ {"settled", "uncancelPublish"}) : FrameAt(x).dispatch = d})
               = (IF publication[d] = "none" THEN 0 ELSE 1)
  <2>. DEFINE S == {x \in FramesAt(PublishPcs \ {"settled", "uncancelPublish"}) : FrameAt(x).dispatch = d}
              c == publication[d] # "none"
  <2>1. S = Spots(stack, CallsOf(d))
    BY CallSpots DEF TypeInv, CallPcs
  <2>2. Held(c, S) /\ c \in BOOLEAN
    BY <2>1 DEF ClaimsInv, CallsHeld
  <2>. HIDE DEF S, c
  <2>3. Cardinality(S) = IF c THEN 1 ELSE 0
    BY <2>2, HeldCounts
  <2>. QED
    BY <2>3 DEF S, c
<1>. QED
  BY <1>1, <1>2, <1>3 DEF ClaimsAreHeld

(* A claim on the executor is held by exactly one call under way, and is    *)
(* dropped with it: the claims of async_runtime.rs and their guards.       *)
THEOREM ClaimsCorrect == Spec => []ClaimsAreHeld
<1>. DEFINE Inv == TypeInv /\ ShapeInv /\ ClaimsInv
<1>1. Init => Inv
  BY InitTypes, InitClaims
<1>2. Inv /\ [Next]_vars => Inv'
  <2>1. ASSUME Inv, Next PROVE Inv'
    BY <2>1, TypeStep, ShapeStep, DrainStep, CancelStep, CallsStep DEF ClaimsInv
  <2>2. ASSUME Inv, UNCHANGED vars PROVE Inv'
    BY <2>2, StutterTypes, StutterClaims
  <2>. QED
    BY <2>1, <2>2
<1>3. Inv => ClaimsAreHeld
  BY ClaimsCount
<1>. HIDE DEF Inv
<1>. QED
  BY <1>1, <1>2, <1>3, PTL DEF Spec

-----------------------------------------------------------------------------
(* Where futures are destroyed, and where a waker may have been entered.   *)

Guarded == {f \in Frames : f.pc \in GuardedPcs \/ (f.pc = "drop" /\ f.tasks # {})}
Wakers == {f \in Frames : "waker" \in DOMAIN f /\ f.waker}

(* Whoever destroys futures does it above no waker; the wakers it enters   *)
(* itself are above it.                                                    *)
OffWaker == \A x \in Spots(stack, Guarded) : \A y \in Spots(stack, Wakers) :
              x[1] = y[1] => x[2] < y[2]

LEMMA GuardedSteady == Steady(Guarded) /\ Lasting(Guarded)
<1>1. \A f \in Guarded : f.pc \notin {"attempt", "reopen", "last", "return", "lease"}
  BY DEF Guarded, GuardedPcs
<1>2. Guarded \in SUBSET Frames
  BY DEF Guarded
<1>. QED
  BY <1>1, <1>2, SteadyFields

LEMMA WakersSteady == Steady(Wakers)
<1>1. ASSUME NEW f \in Frames, NEW g \in Frames, Same(f, g)
      PROVE  f \in Wakers <=> g \in Wakers
  <2>1. DOMAIN g = DOMAIN f
    BY <1>1, SameFrame
  <2>2. CASE g = f
    BY <2>2
  <2>3. ASSUME NEW r \in Results, "res" \in DOMAIN f, g = [f EXCEPT !.res = r]
        PROVE  f \in Wakers <=> g \in Wakers
    <3>1. f \in AttemptFrames \cup ResFrames
      BY <2>3 DEF Frames, SchedFrames, PlainFrames, PublishFrames, DropFrames, CompleteFrames,
         CancelFrames, AdmitFrames, TurnFrames, PollFrames, AttemptFrames, ResFrames
    <3>2. "waker" \notin DOMAIN f
      BY <3>1 DEF AttemptFrames, ResFrames
    <3>. QED
      BY <2>1, <3>2 DEF Wakers
  <2>. QED
    BY <1>1, <2>2, <2>3 DEF Same
<1>. QED
  BY <1>1 DEF Steady, Wakers

LEMMA NotGuarded ==
  ASSUME NEW f, f.pc \notin GuardedPcs \cup {"drop"}
  PROVE  f \notin Guarded
  BY DEF Guarded

LEMMA NotWaker ==
  ASSUME NEW f \in Frames, f.pc \notin {"push", "offer", "return"}
  PROVE  f \notin Wakers
<1>1. f \notin SchedFrames
  BY DEF SchedFrames
<1>2. "waker" \notin DOMAIN f
  BY <1>1 DEF Frames, SchedFrames, PlainFrames, PublishFrames, DropFrames, CompleteFrames,
     CancelFrames, AdmitFrames, TurnFrames, PollFrames, AttemptFrames, ResFrames
<1>. QED
  BY <1>2 DEF Wakers

LEMMA WakerStack ==
  ASSUME Stacks, NEW a \in Actors
  PROVE  OnWakerStack(a) <=> \E i \in 1 .. Len(stack[a]) : stack[a][i] \in Wakers
<1>1. DOMAIN stack[a] = 1 .. Len(stack[a]) /\ \A i \in 1 .. Len(stack[a]) : stack[a][i] \in Frames
  BY ElementOfSeq DEF Stacks
<1>. QED
  BY <1>1 DEF OnWakerStack, Wakers

(* A step keeps it when what it adds is added by a guarded frame, or where *)
(* no waker is.                                                            *)
LEMMA OffMoved ==
  ASSUME TypeInv, OffWaker, NEW a \in Actors, NEW fs \in Seq(Frames), Moves(a, fs),
         \A k \in 1 .. Len(fs) : fs[k] \in Guarded =>
            /\ (stack[a] # <<>> /\ Top(a) \in Guarded) \/ ~ OnWakerStack(a)
            /\ \A l \in 1 .. Len(fs) : fs[l] \in Wakers => k < l
  PROVE  OffWaker'
<1>1. /\ Stacks /\ Base(a) \in Nat /\ Len(stack[a]) \in Nat /\ Len(fs) \in Nat
      /\ stack[a] # <<>> => Base(a) = Len(stack[a]) - 1
      /\ stack[a] = <<>> => Len(stack[a]) = 0
  <2>1. Stacks /\ stack[a] \in Seq(Frames)
    BY DEF TypeInv, Stacks
  <2>. QED
    BY <2>1, EmptySeq DEF Base
<1>2. /\ Spots(stack', Guarded) \subseteq (Spots(stack, Guarded) \ {Top1(a)}) \cup New(a, fs, Guarded)
      /\ Spots(stack', Wakers) \subseteq (Spots(stack, Wakers) \ {Top1(a)}) \cup New(a, fs, Wakers)
  BY <1>1, SpotsMoved, GuardedSteady, WakersSteady
<1>3. ASSUME NEW X, NEW x \in New(a, fs, X)
      PROVE  \E k \in 1 .. Len(fs) : fs[k] \in X /\ x = <<a, Base(a) + k>>
  BY <1>3 DEF New
<1>4. ASSUME NEW X, NEW x \in Spots(stack, X) \ {Top1(a)}, x[1] = a
      PROVE  /\ x[2] \in 1 .. Len(stack[a]) /\ x[2] <= Base(a) /\ stack[a][x[2]] \in X
             /\ stack[a] # <<>>
  <2>4. PICK b \in Actors : \E i \in 1 .. Len(stack[b]) : x = <<b, i>> /\ stack[b][i] \in X
    BY <1>4, SpotsAt
  <2>1. PICK i \in 1 .. Len(stack[b]) : x = <<b, i>> /\ stack[b][i] \in X
    BY <2>4
  <2>2. b = a /\ x[2] = i /\ x = <<a, i>>
    BY <1>4, <2>1
  <2>3. i # Len(stack[a])
    BY <1>4, <2>2 DEF Top1
  <2>. QED
    BY <1>1, <2>1, <2>2, <2>3
<1>5. SUFFICES ASSUME NEW x \in Spots(stack', Guarded), NEW y \in Spots(stack', Wakers), x[1] = y[1]
               PROVE  x[2] < y[2]
  BY DEF OffWaker
<1>6. CASE x \in Spots(stack, Guarded) /\ y \in Spots(stack, Wakers)
  BY <1>5, <1>6 DEF OffWaker
<1>7. CASE x \in Spots(stack, Guarded) \ {Top1(a)} /\ y \in New(a, fs, Wakers)
  <2>1. PICK l \in 1 .. Len(fs) : y = <<a, Base(a) + l>>
    BY <1>3, <1>7
  <2>2. x[2] \in Nat /\ x[2] <= Base(a)
    BY <1>4, <1>5, <1>7, <2>1
  <2>. QED
    BY <1>1, <2>1, <2>2
<1>8. CASE x \in New(a, fs, Guarded) /\ y \in Spots(stack, Wakers) \ {Top1(a)}
  <2>1. PICK k \in 1 .. Len(fs) : fs[k] \in Guarded /\ x = <<a, Base(a) + k>>
    BY <1>3, <1>8
  <2>2. y[1] = a
    BY <1>5, <2>1
  <2>3. /\ y[2] \in 1 .. Len(stack[a]) /\ y[2] <= Base(a) /\ stack[a][y[2]] \in Wakers
        /\ stack[a] # <<>>
    BY <1>4, <1>8, <2>2
  <2>4. Top(a) \in Guarded
    BY <1>1, <2>1, <2>3, WakerStack
  <2>5. Top1(a) \in Spots(stack, Guarded)
    BY <1>1, <2>3, <2>4, SpotOfTop
  <2>6. Top1(a)[1] = y[1] /\ Top1(a)[2] = Len(stack[a])
    BY <2>2 DEF Top1
  <2>7. Len(stack[a]) < y[2]
    BY <1>8, <2>5, <2>6 DEF OffWaker
  <2>. QED
    BY <1>1, <2>3, <2>7
<1>9. CASE x \in New(a, fs, Guarded) /\ y \in New(a, fs, Wakers)
  <2>1. PICK k \in 1 .. Len(fs) : fs[k] \in Guarded /\ x = <<a, Base(a) + k>>
    BY <1>3, <1>9
  <2>2. PICK l \in 1 .. Len(fs) : fs[l] \in Wakers /\ y = <<a, Base(a) + l>>
    BY <1>3, <1>9
  <2>3. k < l
    BY <2>1, <2>2
  <2>. QED
    BY <1>1, <2>1, <2>2, <2>3
<1>. QED
  BY <1>2, <1>5, <1>6, <1>7, <1>8, <1>9

LEMMA OffQuiet ==
  ASSUME TypeInv, OffWaker, NEW a \in Actors, NEW P, Trace(a, P) \/ UNCHANGED stack,
         \A p \in P : p \notin GuardedPcs \cup {"drop"}
  PROVE  OffWaker'
<1>1. CASE UNCHANGED stack
  BY <1>1 DEF OffWaker
<1>2. CASE Trace(a, P)
  <2>1. PICK fs \in Seq(Frames) : Moves(a, fs) /\ \A k \in 1 .. Len(fs) : fs[k].pc \in P
    BY <1>2 DEF Trace
  <2>2. \A k \in 1 .. Len(fs) : fs[k] \notin Guarded
    BY <2>1, NotGuarded
  <2>. QED
    BY <2>1, <2>2, OffMoved
<1>. QED
  BY <1>1, <1>2

LEMMA OffNone ==
  ASSUME TypeInv, OffWaker, NEW a \in Actors, Moves(a, <<>>)
  PROVE  OffWaker'
  BY Nothing, OffMoved

LEMMA OffOne ==
  ASSUME TypeInv, OffWaker, NEW a \in Actors, NEW f \in Frames, Moves(a, <<f>>), f \notin Wakers,
         (stack[a] # <<>> /\ Top(a) \in Guarded) \/ ~ OnWakerStack(a) \/ f \notin Guarded
  PROVE  OffWaker'
<1>1. <<f>> \in Seq(Frames) /\ \A k \in 1 .. Len(<<f>>) : <<f>>[k] = f
  BY Single
<1>. QED
  BY <1>1, OffMoved

LEMMA OffTwo ==
  ASSUME TypeInv, OffWaker, NEW a \in Actors, NEW f \in Frames, NEW g \in Frames,
         Moves(a, <<f, g>>), f \notin Wakers, g \notin Wakers,
         (stack[a] # <<>> /\ Top(a) \in Guarded) \/ ~ OnWakerStack(a)
  PROVE  OffWaker'
<1>1. <<f, g>> \in Seq(Frames) /\ \A k \in 1 .. Len(<<f, g>>) : <<f, g>>[k] \in {f, g}
  BY Pair
<1>. QED
  BY <1>1, OffMoved

LEMMA OffMany ==
  ASSUME TypeInv, OffWaker, NEW a \in Actors, stack[a] # <<>>, Top(a) \in Guarded,
         NEW f \in Frames, f \notin Wakers, NEW gs \in Seq(Frames), Moves(a, <<f>> \o gs),
         \A k \in 1 .. Len(gs) : gs[k].pc = "push"
  PROVE  OffWaker'
<1>. DEFINE fs == <<f>> \o gs
<1>1. /\ fs \in Seq(Frames) /\ Len(fs) = 1 + Len(gs) /\ Len(gs) \in Nat /\ fs[1] = f
      /\ \A k \in 2 .. Len(fs) : fs[k] = gs[k - 1] /\ k - 1 \in 1 .. Len(gs)
  OBVIOUS
<1>2. \A k \in 2 .. Len(fs) : fs[k] \notin Guarded
  <2>1. \A k \in 2 .. Len(fs) : fs[k].pc = "push"
    BY <1>1
  <2>. QED
    BY <2>1 DEF Guarded, GuardedPcs
<1>. HIDE DEF fs
<1>3. \A k \in 1 .. Len(fs) : fs[k] \in Guarded => k = 1
  BY <1>1, <1>2
<1>4. \A l \in 1 .. Len(fs) : fs[l] \in Wakers => 1 < l
  BY <1>1
<1>5. Moves(a, fs)
  BY DEF fs
<1>. QED
  BY <1>1, <1>3, <1>4, <1>5, OffMoved

(* The calls that destroy futures.                                         *)
LEMMA DropFrames2 ==
  ASSUME NEW ts \in SUBSET Tasks
  PROVE  DropFrame(ts) \in Frames /\ DropFrame(ts) \notin Wakers /\ DropFrame(ts).pc = "drop"
<1>1. DropFrame(ts) \in Frames /\ DropFrame(ts).pc = "drop"
  BY MadeFrames
<1>. QED
  BY <1>1, NotWaker

LEMMA PlainGuards ==
  ASSUME NEW p \in PlainPcs \ {"return"}
  PROVE  Frame(p) \in Frames /\ Frame(p).pc = p /\ Frame(p) \notin Wakers
<1>1. Frame(p) \in Frames /\ Frame(p).pc = p
  BY MadeFrames
<1>2. p \notin {"push", "offer", "return"}
  BY DEF PlainPcs
<1>. QED
  BY <1>1, <1>2, NotWaker

LEMMA RetireOff ==
  ASSUME TypeInv, OffWaker, NEW a \in Actors, stack[a] # <<>>, RetireRejected(a)
  PROVE  OffWaker'
<1>1. CASE Return(a)
  BY <1>1, Returned, OffNone DEF TypeInv
<1>2. CASE ~ OnWakerStack(a) /\ Call(a, Frame("retire"), DropFrame(rejected))
  <2>1. /\ Frame("retire") \in Frames /\ DropFrame(rejected) \in Frames
        /\ Frame("retire") \notin Wakers /\ DropFrame(rejected) \notin Wakers /\ Stacks
    BY PlainGuards, DropFrames2 DEF TypeInv, TypeOK, PlainPcs
  <2>2. Moves(a, <<Frame("retire"), DropFrame(rejected)>>)
    BY <1>2, <2>1, CallMoves
  <2>. QED
    BY <1>2, <2>1, <2>2, OffTwo
<1>. QED
  BY <1>1, <1>2 DEF RetireRejected

LEMMA OffGoto ==
  ASSUME TypeInv, OffWaker, NEW a \in Actors, stack[a] # <<>>, NEW f \in Frames, Goto(a, f),
         f \notin Wakers, Top(a) \in Guarded \/ ~ OnWakerStack(a) \/ f \notin Guarded
  PROVE  OffWaker'
<1>1. Moves(a, <<f>>)
  BY GotoMoves DEF TypeInv
<1>. QED
  BY <1>1, OffOne

LEMMA OffCall ==
  ASSUME TypeInv, OffWaker, NEW a \in Actors, stack[a] # <<>>, NEW f \in Frames, NEW g \in Frames,
         Call(a, f, g), f \notin Wakers, g \notin Wakers, Top(a) \in Guarded \/ ~ OnWakerStack(a)
  PROVE  OffWaker'
<1>1. Moves(a, <<f, g>>)
  BY CallMoves DEF TypeInv
<1>. QED
  BY <1>1, OffTwo

LEMMA GuardedPc ==
  ASSUME NEW f \in Frames, f.pc \in GuardedPcs
  PROVE  f \in Guarded /\ f \notin Wakers
<1>1. f \notin Wakers
  BY NotWaker DEF GuardedPcs
<1>. QED
  BY <1>1 DEF Guarded

LEMMA DropOff ==
  ASSUME TypeInv, OffWaker, NEW a \in Actors, Drop(a)
  PROVE  OffWaker'
<1>1. stack[a] # <<>> /\ Top(a).pc = "drop" /\ Top(a) \in DropFrames /\ Top(a) \in Frames
  BY InTop, FrameKinds DEF Drop
<1>2. Top(a).tasks \in SUBSET Tasks
  BY <1>1 DEF DropFrames
<1>3. CASE Top(a).tasks = {}
  <2>1. Return(a)
    BY <1>3 DEF Drop
  <2>. QED
    BY <1>1, <2>1, Returned, OffNone DEF TypeInv
<1>4. CASE Top(a).tasks # {}
  <2>1. PICK t \in Top(a).tasks :
          stack' = [stack EXCEPT ![a] =
               Become(a, DropFrame(Top(a).tasks \ {t})) \o WakerFrames(WokenBy(t))]
    BY <1>4 DEF Drop
  <2>. DEFINE f == DropFrame(Top(a).tasks \ {t})
              gs == WakerFrames(WokenBy(t))
  <2>2. f \in Frames /\ f \notin Wakers
    <3>1. Top(a).tasks \ {t} \in SUBSET Tasks
      BY <1>2
    <3>. QED
      BY <3>1, DropFrames2
  <2>3. gs \in Seq(Frames) /\ \A k \in 1 .. Len(gs) : gs[k].pc = "push"
    BY <1>2, WokenTasks, WakersShape DEF WokenBy
  <2>. HIDE DEF f, gs
  <2>4. Moves(a, <<f>> \o gs)
    BY <1>1, <2>1, <2>2, <2>3, SpawnMoves DEF TypeInv, f, gs
  <2>5. Top(a) \in Guarded
    BY <1>1, <1>4 DEF Guarded
  <2>. QED
    BY <1>1, <2>2, <2>3, <2>4, <2>5, OffMany
<1>. QED
  BY <1>3, <1>4

LEMMA MoveOff ==
  ASSUME TypeInv, OffWaker, NEW a \in Actors, Move(a)
  PROVE  OffWaker'
<1>1. stack[a] # <<>> /\ Top(a).pc = "move" /\ Top(a) \in Frames
  BY InTop DEF Move
<1>2. CASE OnWakerStack(a)
  <2>. DEFINE f == [pc |-> "attempt", n |-> 0, res |-> "none"]
  <2>1. f \in Frames /\ f.pc = "attempt" /\ Goto(a, f)
    BY <1>2, MadeFrames DEF Move, Results
  <2>. HIDE DEF f
  <2>2. f \notin Wakers /\ f \notin Guarded
    BY <2>1, NotWaker, NotGuarded DEF GuardedPcs
  <2>. QED
    BY <1>1, <2>1, <2>2, OffGoto
<1>3. CASE ~ OnWakerStack(a)
  <2>1. Goto(a, Frame("purge")) /\ Frame("purge") \in Frames /\ Frame("purge") \notin Wakers
    BY <1>3, PlainGuards DEF Move, PlainPcs
  <2>. QED
    BY <1>1, <1>3, <2>1, OffGoto
<1>. QED
  BY <1>2, <1>3

LEMMA PurgeOff ==
  ASSUME TypeInv, OffWaker, NEW a \in Actors, Purge(a)
  PROVE  OffWaker'
<1>1. stack[a] # <<>> /\ Top(a).pc = "purge" /\ Top(a) \in Frames
  BY InTop DEF Purge
<1>2. Top(a) \in Guarded /\ Top(a) \notin Wakers
  BY <1>1, GuardedPc DEF GuardedPcs
<1>3. DropFrame(rejected) \in Frames /\ DropFrame(rejected) \notin Wakers
  BY DropFrames2 DEF TypeInv, TypeOK
<1>4. CASE Return(a)
  BY <1>1, <1>4, Returned, OffNone DEF TypeInv
<1>5. CASE Call(a, Top(a), DropFrame(rejected))
  BY <1>1, <1>2, <1>3, <1>5, OffCall
<1>. QED
  BY <1>4, <1>5 DEF Purge

LEMMA CompleteOff ==
  ASSUME TypeInv, OffWaker, NEW a \in Actors, Complete(a)
  PROVE  OffWaker'
<1>. DEFINE f == Top(a)
<1>1. stack[a] # <<>> /\ f.pc = "complete" /\ f \in CompleteFrames /\ Stacks
  BY InTop, FrameKinds DEF Complete, TypeInv
<1>2. \/ Return(a)
      \/ \E x \in f.failures :
           Call(a, [f EXCEPT !.failures = @ \ {x}], [pc |-> "cancel", failure |-> x])
      \/ Call(a, [f EXCEPT !.redispatch = FALSE], Frame("rdq"))
      \/ RetireRejected(a)
  BY DEF Complete
<1>. HIDE DEF f
<1>3. ASSUME NEW k \in Frames, NEW g \in Frames, k.pc = "complete", g.pc \in {"cancel", "rdq"},
             Call(a, k, g)
      PROVE  OffWaker'
  <2>1. Trace(a, {"complete", "cancel", "rdq"})
    BY <1>1, <1>3, CallTrace DEF f
  <2>2. \A p \in {"complete", "cancel", "rdq"} : p \notin GuardedPcs \cup {"drop"}
    BY DEF GuardedPcs
  <2>. QED
    BY <2>1, <2>2, OffQuiet
<1>4. ASSUME NEW x \in f.failures,
             Call(a, [f EXCEPT !.failures = @ \ {x}], [pc |-> "cancel", failure |-> x])
      PROVE  OffWaker'
  <2>. DEFINE k == [f EXCEPT !.failures = @ \ {x}]
              g == [pc |-> "cancel", failure |-> x]
  <2>1. k \in CompleteFrames /\ x \in Failures
    BY <1>1 DEF CompleteFrames
  <2>2. k \in Frames /\ k.pc = "complete" /\ g \in Frames /\ g.pc = "cancel"
    BY <2>1, FrameUnion, MadeFrames DEF CompleteFrames
  <2>. HIDE DEF k, g
  <2>. QED
    BY <1>3, <1>4, <2>2 DEF k, g
<1>5. CASE Call(a, [f EXCEPT !.redispatch = FALSE], Frame("rdq"))
  <2>. DEFINE k == [f EXCEPT !.redispatch = FALSE]
  <2>1. k \in CompleteFrames
    BY <1>1 DEF CompleteFrames
  <2>2. k \in Frames /\ k.pc = "complete" /\ Frame("rdq") \in Frames /\ Frame("rdq").pc = "rdq"
    BY <2>1, FrameUnion, MadeFrames DEF CompleteFrames, PlainPcs
  <2>. HIDE DEF k
  <2>. QED
    BY <1>3, <1>5, <2>2 DEF k
<1>6. CASE Return(a)
  BY <1>1, <1>6, Returned, OffNone
<1>7. CASE RetireRejected(a)
  BY <1>1, <1>7, RetireOff
<1>. QED
  BY <1>2, <1>4, <1>5, <1>6, <1>7

LEMMA RequestQueuedOff ==
  ASSUME TypeInv, OffWaker, NEW a \in Actors, RequestQueued(a)
  PROVE  OffWaker'
<1>1. stack[a] # <<>> /\ Top(a).pc = "rdq" /\ Top(a) \in Frames
  BY InTop DEF RequestQueued
<1>2. /\ Frame("rdqJoin") \in Frames /\ Frame("rdqJoin") \notin Wakers /\ Frame("rdqJoin").pc = "rdqJoin"
      /\ DropFrame(rejected) \in Frames /\ DropFrame(rejected) \notin Wakers /\ Top(a) \notin Wakers
  BY <1>1, PlainGuards, DropFrames2, NotWaker DEF PlainPcs, TypeInv, TypeOK
<1>3. Frame("rdqJoin") \notin Guarded
  BY <1>2, NotGuarded DEF GuardedPcs
<1>4. \/ Return(a) \/ Goto(a, Frame("rdqJoin"))
      \/ ~ OnWakerStack(a) /\ Call(a, Top(a), DropFrame(rejected))
  BY DEF RequestQueued
<1>5. CASE Return(a)
  BY <1>1, <1>5, Returned, OffNone DEF TypeInv
<1>6. CASE Goto(a, Frame("rdqJoin"))
  BY <1>1, <1>2, <1>3, <1>6, OffGoto
<1>7. CASE ~ OnWakerStack(a) /\ Call(a, Top(a), DropFrame(rejected))
  BY <1>1, <1>2, <1>7, OffCall
<1>. QED
  BY <1>4, <1>5, <1>6, <1>7

LEMMA StopperOff ==
  ASSUME TypeInv, ShapeInv, OffWaker, BeginStop \/ AbortTasks \/ CloseQueue \/ ForgetDispatches
  PROVE  OffWaker'
<1>. Stopper \in Actors
  BY ActorKinds
<1>1. CASE BeginStop
  <2>1. /\ stack[Stopper] = <<>> /\ Moves(Stopper, <<Frame("abort")>>)
        /\ Frame("abort") \in Frames /\ Frame("abort") \notin Wakers /\ Stacks
    BY <1>1, BeginStopType, PlainGuards DEF TypeInv, PlainPcs
  <2>2. ~ OnWakerStack(Stopper)
    BY <2>1, WakerStack
  <2>. QED
    BY <2>1, <2>2, OffOne
<1>2. CASE AbortTasks
  <2>. DEFINE w == WakerFrames(SetToSeq({t \in Tasks : task[t] = "waiting"}))
  <2>1. /\ stack[Stopper] # <<>> /\ Top(Stopper).pc = "abort"
        /\ Frame("close") \in Frames /\ Frame("close") \notin Wakers
        /\ w \in Seq(Frames) /\ \A k \in 1 .. Len(w) : w[k].pc = "push"
        /\ Moves(Stopper, <<Frame("close")>> \o w)
    BY <1>2, AbortTasksMoves, PlainGuards DEF PlainPcs
  <2>. HIDE DEF w
  <2>2. Top(Stopper) \in Guarded
    BY <2>1, TopShape, GuardedPc DEF TypeInv, GuardedPcs
  <2>. QED
    BY <2>1, <2>2, OffMany
<1>3. CASE CloseQueue
  <2>. DEFINE ts == ToSet(queue) \cup rejected
              f == [pc |-> "forget", tasks |-> ts]
  <2>1. stack[Stopper] # <<>> /\ Top(Stopper).pc = "close" /\ Top(Stopper) \in Frames
    BY <1>3, InTop DEF CloseQueue
  <2>2. ts \in SUBSET Tasks
    BY QueueTypes
  <2>3. f \in Frames /\ f.pc = "forget" /\ Goto(Stopper, f)
    BY <1>3, <2>2, MadeFrames DEF CloseQueue
  <2>. HIDE DEF f
  <2>4. f \notin Wakers /\ Top(Stopper) \in Guarded
    BY <2>1, <2>3, GuardedPc DEF GuardedPcs
  <2>. QED
    BY <2>1, <2>3, <2>4, OffGoto
<1>4. CASE ForgetDispatches
  <2>. DEFINE f == At(Stopper, "forgetHosts")
  <2>1. stack[Stopper] # <<>> /\ Top(Stopper).pc = "forget" /\ Top(Stopper) \in Frames
    BY <1>4, InTop DEF ForgetDispatches
  <2>2. f \in DropFrames /\ f.pc = "forgetHosts" /\ Goto(Stopper, f)
    BY <1>4, <2>1, FrameKinds DEF ForgetDispatches, At, DropFrames
  <2>3. f \in Frames
    BY <2>2, FrameUnion
  <2>. HIDE DEF f
  <2>4. f \notin Wakers /\ Top(Stopper) \in Guarded
    BY <2>1, <2>2, <2>3, GuardedPc DEF GuardedPcs
  <2>. QED
    BY <2>1, <2>2, <2>3, <2>4, OffGoto
<1>. QED
  BY <1>1, <1>2, <1>3, <1>4

LEMMA ForgetHostsOff ==
  ASSUME TypeInv, OffWaker, ForgetHosts
  PROVE  OffWaker'
<1>. Stopper \in Actors
  BY ActorKinds
<1>1. stack[Stopper] # <<>> /\ Top(Stopper).pc = "forgetHosts" /\ Top(Stopper) \in Frames
  BY InTop DEF ForgetHosts
<1>2. Top(Stopper).tasks \in SUBSET Tasks
  BY <1>1, FrameKinds DEF DropFrames
<1>3. /\ Call(Stopper, Frame("wait"), DropFrame(Top(Stopper).tasks))
      /\ Frame("wait") \in Frames /\ Frame("wait") \notin Wakers
      /\ DropFrame(Top(Stopper).tasks) \in Frames /\ DropFrame(Top(Stopper).tasks) \notin Wakers
  BY <1>2, PlainGuards, DropFrames2 DEF ForgetHosts, PlainPcs
<1>4. Top(Stopper) \in Guarded
  BY <1>1, GuardedPc DEF GuardedPcs
<1>. QED
  BY <1>1, <1>3, <1>4, OffCall

LEMMA WaitIdleOff ==
  ASSUME TypeInv, OffWaker, WaitIdle
  PROVE  OffWaker'
<1>. Stopper \in Actors
  BY ActorKinds
<1>1. stack[Stopper] # <<>> /\ Top(Stopper).pc = "wait" /\ Top(Stopper) \in Frames
  BY InTop DEF WaitIdle
<1>2. /\ DropFrame(rejected) \in Frames /\ DropFrame(rejected) \notin Wakers
      /\ Top(Stopper) \in Guarded /\ Top(Stopper) \notin Wakers
  BY <1>1, DropFrames2, GuardedPc DEF GuardedPcs, TypeInv, TypeOK
<1>3. CASE Return(Stopper)
  BY <1>1, <1>3, Returned, OffNone DEF TypeInv
<1>4. CASE Call(Stopper, Top(Stopper), DropFrame(rejected))
  BY <1>1, <1>2, <1>4, OffCall
<1>. QED
  BY <1>3, <1>4 DEF WaitIdle

LEMMA RetireStepOff ==
  ASSUME TypeInv, ShapeInv, OffWaker, NEW a \in Actors, Retire(a)
  PROVE  OffWaker'
<1>1. stack[a] # <<>> /\ RetireRejected(a)
  BY InTop DEF Retire
<1>. QED
  BY <1>1, RetireOff

LEMMA OffStep ==
  ASSUME TypeInv, ShapeInv, OffWaker, Next
  PROVE  OffWaker'
<1>0. PICK a \in Actors : \E P : Footprint(a, P)
  BY Footprints DEF Foot
<1>1. PICK P : Footprint(a, P)
  BY <1>0
<1>2. ASSUME NEW b \in Actors, Drop(b) PROVE OffWaker'
  BY <1>2, DropOff
<1>3. ASSUME NEW b \in Actors, Retire(b) PROVE OffWaker'
  BY <1>3, RetireStepOff
<1>4. ASSUME NEW b \in Actors, Move(b) PROVE OffWaker'
  BY <1>4, MoveOff
<1>5. ASSUME NEW b \in Actors, Purge(b) PROVE OffWaker'
  BY <1>5, PurgeOff
<1>6. ASSUME NEW b \in Actors, Complete(b) PROVE OffWaker'
  BY <1>6, CompleteOff
<1>7. ASSUME NEW b \in Actors, RequestQueued(b) PROVE OffWaker'
  BY <1>7, RequestQueuedOff
<1>8. CASE BeginStop \/ AbortTasks \/ CloseQueue \/ ForgetDispatches
  BY <1>8, StopperOff
<1>9. CASE ForgetHosts
  BY <1>9, ForgetHostsOff
<1>10. CASE WaitIdle
  BY <1>10, WaitIdleOff
<1>11. CASE ~ DropMoves
  BY <1>1, <1>11, OffQuiet DEF Footprint, Spares
<1>. QED
  BY <1>2, <1>3, <1>4, <1>5, <1>6, <1>7, <1>8, <1>9, <1>10, <1>11 DEF DropMoves, StopStep

LEMMA InitOff ==
  ASSUME Init
  PROVE  OffWaker
  BY EmptyStacks DEF OffWaker

LEMMA OffDrops ==
  ASSUME TypeInv, OffWaker
  PROVE  NoDropOnWakerStack
<1>. SUFFICES ASSUME NEW a \in Actors, In(a, "drop"), Top(a).tasks # {}, OnWakerStack(a)
              PROVE  FALSE
  BY DEF NoDropOnWakerStack
<1>1. stack[a] # <<>> /\ Top(a).pc = "drop" /\ Top(a) \in Frames /\ Stacks /\ Len(stack[a]) \in Nat
  BY InTop, TopShape DEF TypeInv
<1>2. Top1(a) \in Spots(stack, Guarded)
  BY <1>1, SpotOfTop DEF Guarded
<1>3. PICK i \in 1 .. Len(stack[a]) : stack[a][i] \in Wakers
  BY <1>1, WakerStack
<1>4. <<a, i>> \in Spots(stack, Wakers)
  BY <1>3, SpotAt
<1>5. Top1(a)[1] = <<a, i>>[1] /\ Top1(a)[2] = Len(stack[a]) /\ <<a, i>>[2] = i
  BY DEF Top1
<1>6. Len(stack[a]) < i
  BY <1>2, <1>4, <1>5 DEF OffWaker
<1>. QED
  BY <1>1, <1>3, <1>6

(* User futures are never destroyed where a waker may have been entered:   *)
(* CurrentThreadScheduleScope and the retirements that look at it.         *)
THEOREM DropsOffWakerStacks == Spec => []NoDropOnWakerStack
<1>. DEFINE Inv == TypeInv /\ ShapeInv /\ OffWaker
<1>1. Init => Inv
  BY InitTypes, InitOff
<1>2. Inv /\ [Next]_vars => Inv'
  <2>1. ASSUME Inv, Next PROVE Inv'
    BY <2>1, TypeStep, ShapeStep, OffStep
  <2>2. ASSUME Inv, UNCHANGED vars PROVE Inv'
    <3>1. stack' = stack
      BY <2>2 DEF vars
    <3>2. OffWaker'
      BY <2>2, <3>1 DEF OffWaker
    <3>. QED
      BY <2>2, <3>2, StutterTypes
  <2>. QED
    BY <2>1, <2>2
<1>3. Inv => NoDropOnWakerStack
  BY OffDrops
<1>. HIDE DEF Inv
<1>. QED
  BY <1>1, <1>2, <1>3, PTL DEF Spec

-----------------------------------------------------------------------------
(* The counters of the registry, until the stop forgets every dispatch.    *)

RegInv == Running => /\ Sound(reg)
                     /\ \A h \in reg.drivers : host[h] # "absent"

LEMMA RegSame ==
  ASSUME RegInv, UNCHANGED <<reg, host, lifecycle>>
  PROVE  RegInv'
  BY DEF RegInv, Running

LEMMA RegKept ==
  ASSUME RegInv, Running => Sound(reg') /\ reg'.drivers \subseteq reg.drivers,
         UNCHANGED <<host, lifecycle>>
  PROVE  RegInv'
  BY DEF RegInv, Running

LEMMA RegOver ==
  ASSUME ~ Running'
  PROVE  RegInv'
  BY DEF RegInv

LEMMA EnterCounts ==
  ASSUME TypeInv, RegInv, NEW a \in Actors, Enter(a)
  PROVE  RegInv'
<1>. DEFINE d == Top(a).dispatch
            dead == {h \in Hosts : host[h] # "live"}
            b == BeginPublication(reg, d)
            o == Sweep(b, dead)
<1>1. d \in Dispatches /\ reg \in Registry /\ dead \in SUBSET Hosts
  BY InTop, FrameKinds DEF Enter, PublishPcs, PublishFrames, TypeInv, TypeOK
<1>2. /\ reg' = reg \/ reg' = o.reg
      /\ UNCHANGED <<host, lifecycle>>
  BY DEF Enter, hostVars, stopVars
<1>. HIDE DEF d, dead
<1>3. ASSUME Running PROVE Sound(o.reg) /\ o.reg.drivers \subseteq reg.drivers
  <2>1. Sound(b) /\ b.drivers \subseteq reg.drivers /\ b \in Registry
    BY <1>1, <1>3, BeginPublicationSound, BeginPublicationType DEF RegInv
  <2>. HIDE DEF b
  <2>2. b.drivers \cap dead \in SUBSET Hosts
    BY <1>1
  <2>3. o = RemoveDrivers(b, b.drivers \cap dead)
    BY DEF Sweep
  <2>. HIDE DEF o
  <2>4. Sound(o.reg) /\ o.reg.drivers \subseteq b.drivers
    BY <2>1, <2>2, <2>3, RemoveDriversSound
  <2>. QED
    BY <2>1, <2>4
<1>. HIDE DEF o
<1>4. Running => Sound(reg') /\ reg'.drivers \subseteq reg.drivers
  BY <1>2, <1>3 DEF RegInv
<1>. QED
  BY <1>2, <1>4, RegKept

LEMMA PlanCounts ==
  ASSUME TypeInv, RegInv, NEW a \in Actors, PlanDeliveries(a)
  PROVE  RegInv'
<1>. DEFINE d == Top(a).dispatch
            live == Top(a).live
<1>1. d \in Dispatches /\ live \in SUBSET Hosts /\ reg \in Registry
  BY InTop, FrameKinds DEF PlanDeliveries, PublishPcs, PublishFrames, TypeInv, TypeOK
<1>2. /\ reg' = reg \/ (reg.dispatch[d].phase = "pending" /\ reg' = Plan(reg, d, live).reg)
      /\ UNCHANGED <<host, lifecycle>>
  BY DEF PlanDeliveries, hostVars, stopVars
<1>. HIDE DEF d, live
<1>3. Running => Sound(reg') /\ reg'.drivers \subseteq reg.drivers
  BY <1>1, <1>2, PlanSound DEF RegInv
<1>. QED
  BY <1>2, <1>3, RegKept

LEMMA AnswerCounts ==
  ASSUME TypeInv, RegInv, NEW a \in Actors, Accept(a) \/ Reject(a) \/ Finish(a)
  PROVE  RegInv'
<1>. DEFINE d == Top(a).dispatch
<1>1. d \in Dispatches /\ Top(a).live \in SUBSET Hosts /\ reg \in Registry
  BY InTop, FrameKinds DEF Accept, Reject, Finish, PublishPcs, PublishFrames, TypeInv, TypeOK
<1>2. /\ \/ \E h \in Top(a).live : reg' = AcceptDelivery(reg, h, d)
         \/ \E h \in Top(a).live : reg' = RejectDelivery(reg, h, d).reg
         \/ reg' = FinishPublication(reg, d).reg
      /\ UNCHANGED <<host, lifecycle>>
  BY DEF Accept, Reject, Finish, hostVars, stopVars
<1>. HIDE DEF d
<1>3. Running => Sound(reg') /\ reg'.drivers \subseteq reg.drivers
  <2>. SUFFICES ASSUME Running PROVE Sound(reg') /\ reg'.drivers \subseteq reg.drivers
    OBVIOUS
  <2>1. Sound(reg)
    BY DEF RegInv
  <2>2. CASE \E h \in Top(a).live : reg' = AcceptDelivery(reg, h, d)
    BY <1>1, <2>1, <2>2, AcceptDeliverySound
  <2>3. CASE \E h \in Top(a).live : reg' = RejectDelivery(reg, h, d).reg
    BY <1>1, <2>1, <2>3, RejectDeliverySound
  <2>4. CASE reg' = FinishPublication(reg, d).reg
    BY <1>1, <2>1, <2>4, FinishPublicationSound
  <2>. QED
    BY <1>2, <2>2, <2>3, <2>4
<1>. QED
  BY <1>2, <1>3, RegKept

LEMMA FailureCounts ==
  ASSUME TypeInv, RegInv, NEW a \in Actors, Settle(a) \/ UncancelPublish(a) \/ Uncancel(a)
  PROVE  RegInv'
<1>. DEFINE f == Top(a).failure
<1>1. reg \in Registry
  BY DEF TypeInv, TypeOK
<1>2. /\ reg' \in {reg, RearmFailedPublication(reg, f), FinishCancellation(reg, f)}
      /\ UNCHANGED <<host, lifecycle>>
  BY DEF Settle, UncancelPublish, Uncancel, hostVars, stopVars
<1>. HIDE DEF f
<1>3. Running => Sound(reg') /\ reg'.drivers \subseteq reg.drivers
  BY <1>1, <1>2, FailureSound DEF RegInv
<1>. QED
  BY <1>2, <1>3, RegKept

LEMMA RegisterHostCounts ==
  ASSUME TypeInv, RegInv, NEW h \in Hosts, RegisterHost(h)
  PROVE  RegInv'
<1>1. /\ Running /\ host[h] = "absent" /\ host' = [host EXCEPT ![h] = "live"]
      /\ reg' = Register(reg, h)
  BY DEF RegisterHost
<1>2. reg \in Registry /\ DOMAIN host = Hosts
  BY DEF TypeInv, TypeOK
<1>3. Sound(reg) /\ h \notin reg.drivers /\ \A g \in reg.drivers : host[g] # "absent"
  BY <1>1 DEF RegInv
<1>4. Sound(reg') /\ reg'.drivers = reg.drivers \cup {h}
  BY <1>1, <1>2, <1>3, RegisterSound
<1>5. \A g \in reg'.drivers : host'[g] # "absent"
  BY <1>1, <1>2, <1>3, <1>4, RegistryParts
<1>. QED
  BY <1>4, <1>5 DEF RegInv

LEMMA CallbackCounts ==
  ASSUME TypeInv, RegInv, NEW h \in Hosts, Callback(h)
  PROVE  RegInv'
<1>. DEFINE d == mail[h]
<1>1. d \in Dispatches /\ reg \in Registry
  BY DEF Callback, TypeInv, TypeOK
<1>2. /\ reg' \in {reg, ClaimDelivery(reg, h, d)}
      /\ UNCHANGED <<host, lifecycle>>
  BY DEF Callback, stopVars
<1>. HIDE DEF d
<1>3. Running => Sound(reg') /\ reg'.drivers \subseteq reg.drivers
  BY <1>1, <1>2, ClaimDeliverySound DEF RegInv
<1>. QED
  BY <1>2, <1>3, RegKept

LEMMA MarkCounts ==
  ASSUME TypeInv, RegInv, NEW h \in Hosts, Mark(h)
  PROVE  RegInv'
<1>. DEFINE d == Top(h).dispatch
<1>1. d \in Dispatches /\ reg \in Registry
  BY MarkMoves, ActorKinds DEF AdmitFrames, TypeInv, TypeOK
<1>2. reg' = MarkServiced(reg, d) /\ UNCHANGED <<host, lifecycle>>
  BY DEF Mark, hostVars, stopVars
<1>. HIDE DEF d
<1>3. Running => Sound(reg') /\ reg'.drivers \subseteq reg.drivers
  BY <1>1, <1>2, MarkServicedSound DEF RegInv
<1>. QED
  BY <1>2, <1>3, RegKept

LEMMA AcknowledgeCounts ==
  ASSUME TypeInv, ShapeInv, RegInv, NEW h \in Hosts, Acknowledge(h)
  PROVE  RegInv'
<1>. DEFINE d == Top(h).dispatch
            b == In(h, "fail")
<1>1. d \in Dispatches /\ reg \in Registry /\ reg' = FinishDelivery(reg, h, d, b).reg
  BY AcknowledgeMoves DEF TypeInv, TypeOK
<1>2. UNCHANGED <<host, lifecycle>>
  BY DEF Acknowledge, hostVars, stopVars
<1>3. b \in BOOLEAN
  BY DEF In
<1>. HIDE DEF d, b
<1>4. Running => Sound(reg') /\ reg'.drivers \subseteq reg.drivers
  BY <1>1, <1>3, FinishDeliverySound DEF RegInv
<1>. QED
  BY <1>2, <1>4, RegKept

LEMMA EvictCounts ==
  ASSUME TypeInv, ShapeInv, RegInv, NEW h \in Hosts, Evict(h)
  PROVE  RegInv'
<1>1. reg \in Registry /\ host \in [Hosts -> {"absent", "live", "closing", "gone"}]
  BY DEF TypeInv, TypeOK
<1>2. UNCHANGED lifecycle
  BY DEF Evict, stopVars
<1>3. \/ UNCHANGED reg /\ host' = [host EXCEPT ![h] = "gone"]
      \/ reg' = Unregister(reg, h).reg /\ UNCHANGED host
  BY EvictMoves
<1>4. CASE UNCHANGED reg /\ host' = [host EXCEPT ![h] = "gone"]
  <2>1. \A g \in Hosts : host[g] # "absent" => host'[g] # "absent"
    BY <1>1, <1>4
  <2>. QED
    BY <1>1, <1>2, <1>4, <2>1, RegistryParts DEF RegInv, Running
<1>5. CASE reg' = Unregister(reg, h).reg /\ UNCHANGED host
  <2>1. Running => Sound(reg') /\ reg'.drivers \subseteq reg.drivers
    BY <1>1, <1>5, RejectDeliverySound DEF RegInv
  <2>. QED
    BY <1>2, <1>5, <2>1, RegKept
<1>. QED
  BY <1>3, <1>4, <1>5

LEMMA LeaveCounts ==
  ASSUME TypeInv, RegInv, NEW h \in Hosts, Leave(h)
  PROVE  RegInv'
<1>1. /\ host' = [host EXCEPT ![h] = "closing"] /\ UNCHANGED <<reg, lifecycle>>
      /\ reg \in Registry /\ host \in [Hosts -> {"absent", "live", "closing", "gone"}]
  BY DEF Leave, stopVars, TypeInv, TypeOK
<1>2. \A g \in Hosts : host[g] # "absent" => host'[g] # "absent"
  BY <1>1
<1>. QED
  BY <1>1, <1>2, RegistryParts DEF RegInv, Running

LEMMA StoppedCounts ==
  ASSUME TypeInv, ShapeInv, RegInv, BeginStop \/ ForgetHosts \/ WaitIdle
  PROVE  RegInv'
<1>1. ~ Running'
  <2>1. CASE BeginStop
    BY <2>1 DEF BeginStop, Running
  <2>2. CASE ForgetHosts \/ WaitIdle
    <3>1. stack[Stopper] # <<>>
      BY <2>2, InTop, ActorKinds DEF ForgetHosts, WaitIdle
    <3>2. lifecycle # "running"
      BY <3>1 DEF ShapeInv, Idle, Running
    <3>3. lifecycle' \in {lifecycle, "stopped"}
      BY <2>2 DEF ForgetHosts, WaitIdle, stopVars
    <3>. QED
      BY <3>2, <3>3 DEF Running
  <2>. QED
    BY <2>1, <2>2
<1>. QED
  BY <1>1, RegOver

LEMMA RegStep ==
  ASSUME TypeInv, ShapeInv, RegInv, Next
  PROVE  RegInv'
<1>0. PICK a \in Actors : \E P : Footprint(a, P)
  BY Footprints DEF Foot
<1>1. PICK P : Footprint(a, P)
  BY <1>0
<1>2. ASSUME NEW b \in Actors, Enter(b) PROVE RegInv'
  BY <1>2, EnterCounts
<1>3. ASSUME NEW b \in Actors, PlanDeliveries(b) PROVE RegInv'
  BY <1>3, PlanCounts
<1>4. ASSUME NEW b \in Actors, Accept(b) \/ Reject(b) \/ Finish(b) PROVE RegInv'
  BY <1>4, AnswerCounts
<1>5. ASSUME NEW b \in Actors, Settle(b) \/ UncancelPublish(b) \/ Uncancel(b) PROVE RegInv'
  BY <1>5, FailureCounts
<1>6. ASSUME NEW h \in Hosts, RegisterHost(h) PROVE RegInv'
  BY <1>6, RegisterHostCounts
<1>7. ASSUME NEW h \in Hosts, Leave(h) PROVE RegInv'
  BY <1>7, LeaveCounts
<1>8. ASSUME NEW h \in Hosts, Callback(h) PROVE RegInv'
  BY <1>8, CallbackCounts
<1>9. ASSUME NEW h \in Hosts, Mark(h) PROVE RegInv'
  BY <1>9, MarkCounts
<1>10. ASSUME NEW h \in Hosts, Acknowledge(h) PROVE RegInv'
  BY <1>10, AcknowledgeCounts
<1>11. ASSUME NEW h \in Hosts, Evict(h) PROVE RegInv'
  BY <1>11, EvictCounts
<1>12. CASE BeginStop \/ ForgetHosts \/ WaitIdle
  BY <1>12, StoppedCounts
<1>13. CASE ~ RegMoves
  BY <1>1, <1>13, RegSame DEF Footprint, Spares
<1>. QED
  BY <1>2, <1>3, <1>4, <1>5, <1>6, <1>7, <1>8, <1>9, <1>10, <1>11, <1>12, <1>13 DEF RegMoves

LEMMA InitCounts ==
  ASSUME Init
  PROVE  RegInv
<1>1. PICK rank \in Bijection(EarlyHosts, 1 .. Cardinality(EarlyHosts)) :
        reg = [EmptyRegistry EXCEPT
                 !.drivers = EarlyHosts,
                 !.order = [h \in Hosts |-> IF h \in EarlyHosts THEN rank[h] ELSE 0]]
  BY DEF Init
<1>2. /\ reg.drivers = EarlyHosts
      /\ \A h \in Hosts : reg.entry[h] = FreeEntry
      /\ \A d \in Dispatches : reg.dispatch[d] = Absent
  BY <1>1 DEF EmptyRegistry
<1>3. Entries(reg)
  BY <1>2 DEF Entries, FreeEntry
<1>4. \A d \in Dispatches : Holding(reg, d) = {}
  BY <1>2, RegistryParts DEF Holding, FreeEntry
<1>5. Cardinality({}) = 0 /\ Absent.references = 0
  BY FS_EmptySet DEF Absent
<1>6. Exact(reg)
  <2>1. ASSUME NEW d \in Dispatches
        PROVE  reg.dispatch[d].references = 0 /\ Cardinality(Holding(reg, d)) = 0
    BY <1>2, <1>4, <1>5
  <2>. QED
    BY <2>1 DEF Exact
<1>7. \A h \in EarlyHosts : host[h] # "absent"
  BY ActorsAssumption DEF Init
<1>. QED
  BY <1>2, <1>3, <1>6, <1>7 DEF RegInv, Sound

(* The counter by which the registry lets a dispatch fail agrees with the  *)
(* deliveries and the owed dispatches of the hosts, whatever publications, *)
(* answers, sweeps and cleanups came in between.                           *)
THEOREM CountsCorrect == Spec => []DispatchesAreCounted
<1>. DEFINE Inv == TypeInv /\ ShapeInv /\ RegInv
<1>1. Init => Inv
  BY InitTypes, InitCounts
<1>2. Inv /\ [Next]_vars => Inv'
  <2>1. ASSUME Inv, Next PROVE Inv'
    BY <2>1, TypeStep, ShapeStep, RegStep
  <2>2. ASSUME Inv, UNCHANGED vars PROVE Inv'
    <3>1. UNCHANGED <<reg, host, lifecycle>>
      BY <2>2 DEF vars, hostVars, stopVars
    <3>. QED
      BY <2>2, <3>1, StutterTypes, RegSame
  <2>. QED
    BY <2>1, <2>2
<1>3. Inv => DispatchesAreCounted
  <2>. SUFFICES ASSUME Inv, Running PROVE ReferencesAreExact(reg)
    BY DEF DispatchesAreCounted
  <2>2. reg \in Registry /\ Sound(reg)
    BY DEF RegInv, TypeInv, TypeOK
  <2>. QED
    BY <2>2, SoundCounts
<1>. HIDE DEF Inv
<1>. QED
  BY <1>1, <1>2, <1>3, PTL DEF Spec

-----------------------------------------------------------------------------
(* The tasks.  A frame has tasks in its hands, or polls one.               *)

HandOf(f) == IF f.pc = "push" THEN {f.task}
             ELSE IF f.pc \in {"drop", "forget", "forgetHosts"} THEN f.tasks ELSE {}
PollOf(f) == IF f.pc = "poll" THEN {f.task} ELSE {}
Hands == [t \in Tasks |-> {f \in Frames : t \in HandOf(f)}]
Polls == [t \in Tasks |-> {f \in Frames : t \in PollOf(f)}]
HandTop(a) == IF stack[a] = <<>> THEN {} ELSE HandOf(Top(a))
PollTop(a) == IF stack[a] = <<>> THEN {} ELSE PollOf(Top(a))

(* Each task of B, and no other, has one frame of its kind.                *)
HeldBy(F, B) == \A t \in Tasks : Held(t \in B, Spots(stack, F[t]))
Deals(F, fs, S) ==
  \A t \in Tasks :
    IF t \in S THEN \E j \in 1 .. Len(fs) : \A k \in 1 .. Len(fs) : fs[k] \in F[t] <=> k = j
    ELSE \A k \in 1 .. Len(fs) : fs[k] \notin F[t]

Lasts(F) == \A t \in Tasks : Steady(F[t]) /\ Lasting(F[t])
TopHas(a, F, O) == \A t \in Tasks : t \in O <=> stack[a] # <<>> /\ Top(a) \in F[t]
(* B becomes C, by losing O to gain S.                                     *)
Turns(B, C, O, S) ==
  \A t \in Tasks : /\ t \in S /\ t \in B => t \in O
                  /\ t \in C <=> t \in S \/ (t \in B /\ t \notin O)

InHand == {t \in Tasks : task[t] = "scheduled" /\ t \notin ToSet(queue) /\ t \notin rejected}
Polled == {t \in Tasks : task[t] \in {"running", "woken"}}
QueuedOnce ==
  /\ \A i, j \in 1 .. Len(queue) : queue[i] = queue[j] => i = j
  /\ \A t \in ToSet(queue) : task[t] = "scheduled" /\ t \notin rejected
  /\ \A t \in rejected : task[t] = "scheduled"
TaskInv == QueuedOnce /\ HeldBy(Hands, InHand) /\ HeldBy(Polls, Polled)

LEMMA FamiliesLast ==
  \A t \in Tasks : /\ Steady(Hands[t]) /\ Lasting(Hands[t]) /\ Steady(Polls[t]) /\ Lasting(Polls[t])
                   /\ \A f \in Frames : /\ f \in Hands[t] <=> t \in HandOf(f)
                                        /\ f \in Polls[t] <=> t \in PollOf(f)
<1>. SUFFICES ASSUME NEW t \in Tasks
              PROVE  /\ Steady(Hands[t]) /\ Lasting(Hands[t]) /\ Steady(Polls[t]) /\ Lasting(Polls[t])
                     /\ \A f \in Frames : /\ f \in Hands[t] <=> t \in HandOf(f)
                                          /\ f \in Polls[t] <=> t \in PollOf(f)
  OBVIOUS
<1>1. /\ \A f : f \in Hands[t] <=> f \in Frames /\ t \in HandOf(f)
      /\ \A f : f \in Polls[t] <=> f \in Frames /\ t \in PollOf(f)
  BY DEF Hands, Polls
<1>2. \A f \in Hands[t] : f.pc \notin {"attempt", "reopen", "last", "return", "lease"}
  BY <1>1 DEF HandOf
<1>3. \A f \in Polls[t] : f.pc \notin {"attempt", "reopen", "last", "return", "lease"}
  BY <1>1 DEF PollOf
<1>4. Hands[t] \in SUBSET Frames /\ Polls[t] \in SUBSET Frames
  BY <1>1
<1>. QED
  BY <1>1, <1>2, <1>3, <1>4, SteadyFields

LEMMA HeldNow ==
  ASSUME Stacks, NEW a \in Actors, NEW fs \in Seq(Frames), Moves(a, fs),
         NEW X, Steady(X), Lasting(X), NEW b \in BOOLEAN, Held(b, Spots(stack, X)),
         b => stack[a] # <<>> /\ Top(a) \in X,
         NEW j \in 1 .. Len(fs), \A k \in 1 .. Len(fs) : fs[k] \in X <=> k = j
  PROVE  \E x : Spots(stack', X) = {x}
<1>1. {k \in 1 .. Len(fs) : fs[k] \in X} = {j}
  OBVIOUS
<1>2. New(a, fs, X) = {<<a, Base(a) + j>>}
  BY <1>1 DEF New
<1>3. Spots(stack, X) \ {Top1(a)} = {}
  <2>1. CASE b
    BY <2>1, HeldByTop
  <2>2. CASE ~ b
    BY <2>2 DEF Held
  <2>. QED
    BY <2>1, <2>2
<1>4. Spots(stack', X) = (Spots(stack, X) \ {Top1(a)}) \cup New(a, fs, X)
  BY SpotsMoved
<1>. QED
  BY <1>2, <1>3, <1>4

LEMMA HeldElse ==
  ASSUME Stacks, NEW a \in Actors, NEW fs \in Seq(Frames), Moves(a, fs),
         NEW X, Steady(X), Lasting(X), NEW b \in BOOLEAN, Held(b, Spots(stack, X)),
         \A k \in 1 .. Len(fs) : fs[k] \notin X
  PROVE  /\ stack[a] # <<>> /\ Top(a) \in X => b /\ Spots(stack', X) = {}
         /\ ~ (stack[a] # <<>> /\ Top(a) \in X) => Spots(stack', X) = Spots(stack, X)
<1>1. ASSUME stack[a] # <<>>, Top(a) \in X PROVE b /\ Spots(stack', X) = {}
  BY <1>1, Left, HeldByTop
<1>2. ASSUME ~ (stack[a] # <<>> /\ Top(a) \in X) PROVE Spots(stack', X) = Spots(stack, X)
  <2>1. stack[a] # <<>> => Top(a) \notin X
    BY <1>2
  <2>. QED
    BY <2>1, Passed
<1>. QED
  BY <1>1, <1>2

(* The top had the tasks of O, its frames have those of S.                 *)
LEMMA FamilyMoved ==
  ASSUME Stacks, NEW a \in Actors, NEW fs \in Seq(Frames), Moves(a, fs),
         NEW F, Lasts(F), NEW B, HeldBy(F, B), NEW S, Deals(F, fs, S),
         NEW O, TopHas(a, F, O), NEW C, Turns(B, C, O, S)
  PROVE  \A t \in Tasks : Held(t \in C, Spots(stack', F[t]))
<1>. SUFFICES ASSUME NEW t \in Tasks PROVE Held(t \in C, Spots(stack', F[t]))
  OBVIOUS
<1>. DEFINE X == F[t]
            b == t \in B
<1>1. /\ Steady(X) /\ Lasting(X) /\ Held(b, Spots(stack, X)) /\ b \in BOOLEAN
      /\ t \in O <=> stack[a] # <<>> /\ Top(a) \in X
      /\ t \in S /\ b => t \in O
      /\ t \in C <=> t \in S \/ (b /\ t \notin O)
  BY DEF HeldBy, Lasts, TopHas, Turns
<1>2. CASE t \in S
  <2>1. PICK j \in 1 .. Len(fs) : \A k \in 1 .. Len(fs) : fs[k] \in X <=> k = j
    BY <1>2 DEF Deals
  <2>. HIDE DEF X, b
  <2>. b => stack[a] # <<>> /\ Top(a) \in X
    BY <1>1, <1>2
  <2>2. \E x : Spots(stack', X) = {x}
    BY <1>1, <2>1, HeldNow
  <2>3. t \in C
    BY <1>1, <1>2
  <2>. QED
    BY <2>2, <2>3 DEF Held, X
<1>3. CASE t \notin S
  <2>1. \A k \in 1 .. Len(fs) : fs[k] \notin X
    BY <1>3 DEF Deals
  <2>. HIDE DEF X, b
  <2>2. /\ t \in O => b /\ Spots(stack', X) = {}
        /\ t \notin O => Spots(stack', X) = Spots(stack, X)
    BY <1>1, <2>1, HeldElse
  <2>. QED
    BY <1>1, <1>3, <2>2 DEF Held, X
<1>. QED
  BY <1>2, <1>3

LEMMA TopHolds ==
  ASSUME TypeInv, TaskInv, NEW a \in Actors
  PROVE  /\ \A t \in Tasks : t \in HandTop(a) <=> stack[a] # <<>> /\ Top(a) \in Hands[t]
         /\ \A t \in Tasks : t \in PollTop(a) <=> stack[a] # <<>> /\ Top(a) \in Polls[t]
         /\ \A t \in Tasks : t \in HandTop(a) => t \in InHand
         /\ \A t \in Tasks : t \in PollTop(a) => t \in Polled
<1>. SUFFICES ASSUME NEW t \in Tasks
              PROVE  /\ t \in HandTop(a) <=> stack[a] # <<>> /\ Top(a) \in Hands[t]
                     /\ t \in PollTop(a) <=> stack[a] # <<>> /\ Top(a) \in Polls[t]
                     /\ t \in HandTop(a) => t \in InHand
                     /\ t \in PollTop(a) => t \in Polled
  OBVIOUS
<1>1. Stacks /\ Held(t \in InHand, Spots(stack, Hands[t])) /\ Held(t \in Polled, Spots(stack, Polls[t]))
  BY DEF TypeInv, TaskInv, HeldBy
<1>2. /\ t \in HandTop(a) <=> stack[a] # <<>> /\ Top(a) \in Hands[t]
      /\ t \in PollTop(a) <=> stack[a] # <<>> /\ Top(a) \in Polls[t]
  BY <1>1, TopShape, FamiliesLast DEF HandTop, PollTop
<1>. DEFINE b == t \in InHand
            c == t \in Polled
            X == Hands[t]
            Y == Polls[t]
<1>3. b \in BOOLEAN /\ c \in BOOLEAN /\ Held(b, Spots(stack, X)) /\ Held(c, Spots(stack, Y))
  BY <1>1
<1>4. ASSUME t \in HandTop(a) PROVE b
  <2>1. stack[a] # <<>> /\ Top(a) \in X
    BY <1>2, <1>4
  <2>. HIDE DEF b, X
  <2>. QED
    BY <1>1, <1>3, <2>1, HeldByTop
<1>5. ASSUME t \in PollTop(a) PROVE c
  <2>1. stack[a] # <<>> /\ Top(a) \in Y
    BY <1>2, <1>5
  <2>. HIDE DEF c, Y
  <2>. QED
    BY <1>1, <1>3, <2>1, HeldByTop
<1>. QED
  BY <1>2, <1>4, <1>5

(* A step that deals H and P for what the top had.                         *)
LEMMA TasksMoved ==
  ASSUME TypeInv, TaskInv, NEW a \in Actors, NEW fs \in Seq(Frames), Moves(a, fs), QueuedOnce',
         NEW H, NEW P, Deals(Hands, fs, H), Deals(Polls, fs, P),
         Turns(InHand, InHand', HandTop(a), H), Turns(Polled, Polled', PollTop(a), P)
  PROVE  TaskInv'
<1>1. /\ Stacks /\ HeldBy(Hands, InHand) /\ HeldBy(Polls, Polled) /\ Lasts(Hands) /\ Lasts(Polls)
      /\ TopHas(a, Hands, HandTop(a)) /\ TopHas(a, Polls, PollTop(a))
  BY FamiliesLast, TopHolds DEF TypeInv, TaskInv, Lasts, TopHas
<1>. DEFINE C == InHand'
            D == Polled'
<1>2. Turns(InHand, C, HandTop(a), H) /\ Turns(Polled, D, PollTop(a), P)
  OBVIOUS
<1>. HIDE DEF C, D
<1>3. \A t \in Tasks : Held(t \in C, Spots(stack', Hands[t]))
  BY <1>1, <1>2, FamilyMoved
<1>4. \A t \in Tasks : Held(t \in D, Spots(stack', Polls[t]))
  BY <1>1, <1>2, FamilyMoved
<1>5. Hands' = Hands /\ Polls' = Polls
  BY DEF Hands, Polls
<1>. QED
  BY <1>3, <1>4, <1>5 DEF TaskInv, HeldBy, C, D

(* A step that deals H and P for what the top had.                         *)
Passes(a, H, P) ==
  QueuedOnce' /\ Turns(InHand, InHand', HandTop(a), H) /\ Turns(Polled, Polled', PollTop(a), P)

LEMMA PassNone ==
  ASSUME TypeInv, TaskInv, NEW a \in Actors, Moves(a, <<>>), Passes(a, {}, {})
  PROVE  TaskInv'
<1>1. <<>> \in Seq(Frames) /\ \A F : Deals(F, <<>>, {})
  BY Nothing DEF Deals
<1>. QED
  BY <1>1, TasksMoved DEF Passes

LEMMA PassOne ==
  ASSUME TypeInv, TaskInv, NEW a \in Actors, NEW f \in Frames, Moves(a, <<f>>),
         Passes(a, HandOf(f), PollOf(f))
  PROVE  TaskInv'
<1>. DEFINE fs == <<f>>
<1>1. fs \in Seq(Frames) /\ Len(fs) = 1 /\ fs[1] = f /\ Moves(a, fs)
  BY Single
<1>. HIDE DEF fs
<1>2. \A k \in 1 .. Len(fs) : fs[k] = f /\ k = 1
  BY <1>1
<1>3. Deals(Hands, fs, HandOf(f)) /\ Deals(Polls, fs, PollOf(f))
  BY <1>1, <1>2, FamiliesLast DEF Deals
<1>. QED
  BY <1>1, <1>3, TasksMoved DEF Passes

LEMMA PassTwo ==
  ASSUME TypeInv, TaskInv, NEW a \in Actors, NEW f \in Frames, NEW g \in Frames,
         Moves(a, <<f, g>>), HandOf(f) = {}, PollOf(f) = {}, Passes(a, HandOf(g), PollOf(g))
  PROVE  TaskInv'
<1>. DEFINE fs == <<f, g>>
<1>1. fs \in Seq(Frames) /\ Len(fs) = 2 /\ fs[1] = f /\ fs[2] = g /\ Moves(a, fs)
  BY Pair
<1>. HIDE DEF fs
<1>2. 2 \in 1 .. Len(fs) /\ \A k \in 1 .. Len(fs) : fs[k] = (IF k = 2 THEN g ELSE f)
  BY <1>1
<1>3. \A t \in Tasks : /\ f \notin Hands[t] /\ f \notin Polls[t]
                       /\ g \in Hands[t] <=> t \in HandOf(g)
                       /\ g \in Polls[t] <=> t \in PollOf(g)
  BY FamiliesLast
<1>4. Deals(Hands, fs, HandOf(g)) /\ Deals(Polls, fs, PollOf(g))
  BY <1>2, <1>3 DEF Deals
<1>. QED
  BY <1>1, <1>4, TasksMoved DEF Passes

LEMMA PassWakers ==
  ASSUME TypeInv, TaskInv, NEW a \in Actors, NEW f \in Frames, NEW W \in SUBSET Tasks,
         Moves(a, <<f>> \o WakerFrames(SetToSeq(W))), HandOf(f) \cap W = {},
         Passes(a, HandOf(f) \cup W, PollOf(f))
  PROVE  TaskInv'
<1>. DEFINE gs == WakerFrames(SetToSeq(W))
            fs == <<f>> \o gs
            n == Len(gs)
<1>1. /\ gs \in Seq(Frames) /\ n \in Nat
      /\ \A k \in 1 .. n : gs[k] \in Frames /\ gs[k].pc = "push" /\ gs[k].task \in W
      /\ \A t \in W : \E j \in 1 .. n : \A k \in 1 .. n : gs[k].task = t <=> k = j
  BY WakersShape, ElementOfSeq
<1>. HIDE DEF gs
<1>2. /\ fs \in Seq(Frames) /\ Len(fs) = n + 1 /\ fs[1] = f /\ Moves(a, fs)
      /\ \A k \in 1 .. n : fs[k + 1] = gs[k]
      /\ \A k \in 2 .. n + 1 : fs[k] = gs[k - 1]
  BY <1>1, Single, ConcatProperties DEF gs
<1>. HIDE DEF fs, n
<1>3. ASSUME NEW k \in 2 .. n + 1
      PROVE  /\ k - 1 \in 1 .. n /\ fs[k] = gs[k - 1] /\ fs[k] \in Frames
             /\ \A t : t \in HandOf(fs[k]) <=> gs[k - 1].task = t
             /\ gs[k - 1].task \in W /\ PollOf(fs[k]) = {}
  BY <1>1, <1>2 DEF HandOf, PollOf
<1>a. \A k \in 2 .. n + 1 : \A t : t \in HandOf(fs[k]) => t \in W
  BY <1>3
<1>4. ASSUME NEW k \in 1 .. Len(fs) PROVE k = 1 \/ k \in 2 .. n + 1
  BY <1>1, <1>2
<1>5. \A t \in Tasks : \A k \in 1 .. Len(fs) : /\ fs[k] \in Hands[t] <=> t \in HandOf(fs[k])
                                               /\ fs[k] \in Polls[t] <=> t \in PollOf(fs[k])
  BY <1>2, <1>3, <1>4, FamiliesLast
<1>6. ASSUME NEW t \in Tasks, t \in HandOf(f) \cup W
      PROVE  \E j \in 1 .. Len(fs) : \A k \in 1 .. Len(fs) : t \in HandOf(fs[k]) <=> k = j
  <2>1. CASE t \in W
    <3>1. PICK j \in 1 .. n : \A k \in 1 .. n : gs[k].task = t <=> k = j
      BY <1>1, <2>1
    <3>2. j + 1 \in 1 .. Len(fs)
      BY <1>1, <1>2
    <3>3. ASSUME NEW k \in 1 .. Len(fs) PROVE t \in HandOf(fs[k]) <=> k = j + 1
      <4>1. CASE k = 1
        BY <1>2, <2>1, <4>1
      <4>2. CASE k \in 2 .. n + 1
        <5>1. k - 1 = j <=> k = j + 1
          BY <1>1, <4>2
        <5>. QED
          BY <1>3, <3>1, <4>2, <5>1
      <4>. QED
        BY <1>4, <4>1, <4>2
    <3>. QED
      BY <3>2, <3>3
  <2>2. CASE t \notin W
    <3>1. 1 \in 1 .. Len(fs) /\ t \in HandOf(fs[1])
      BY <1>1, <1>2, <1>6, <2>2
    <3>2. ASSUME NEW k \in 2 .. n + 1 PROVE t \notin HandOf(fs[k]) /\ k # 1
      BY <1>1, <1>a, <2>2
    <3>. QED
      BY <1>4, <3>1, <3>2
  <2>. QED
    BY <2>1, <2>2
<1>7. ASSUME NEW t \in Tasks, t \notin HandOf(f) \cup W
      PROVE  \A k \in 1 .. Len(fs) : t \notin HandOf(fs[k])
  BY <1>2, <1>4, <1>7, <1>a
<1>8. ASSUME NEW t \in Tasks, NEW k \in 1 .. Len(fs) PROVE t \in PollOf(fs[k]) <=> k = 1 /\ t \in PollOf(f)
  BY <1>1, <1>2, <1>3, <1>4
<1>9. 1 \in 1 .. Len(fs)
  BY <1>1, <1>2
<1>10. Deals(Hands, fs, HandOf(f) \cup W)
  BY <1>5, <1>6, <1>7 DEF Deals
<1>11. Deals(Polls, fs, PollOf(f))
  BY <1>5, <1>8, <1>9 DEF Deals
<1>. QED
  BY <1>2, <1>10, <1>11, TasksMoved DEF Passes

LEMMA TasksQuiet ==
  ASSUME TypeInv, TaskInv, NEW a \in Actors, NEW P, Trace(a, P) \/ UNCHANGED stack,
         \A p \in P : p \notin TaskPcs, UNCHANGED <<queue, rejected, task>>
  PROVE  TaskInv'
<1>1. QueuedOnce' /\ InHand' = InHand /\ Polled' = Polled /\ Hands' = Hands /\ Polls' = Polls
  BY DEF TaskInv, QueuedOnce, InHand, Polled, Hands, Polls
<1>2. \A t \in Tasks : /\ Spots(stack', Hands[t]) = Spots(stack, Hands[t])
                       /\ Spots(stack', Polls[t]) = Spots(stack, Polls[t])
  <2>1. CASE Trace(a, P)
    <3>1. \A t \in Tasks : /\ \A f \in Hands[t] : f.pc \notin P
                           /\ \A f \in Polls[t] : f.pc \notin P
      BY DEF Hands, Polls, HandOf, PollOf, TaskPcs
    <3>. QED
      BY <2>1, <3>1, Untouched, FamiliesLast DEF TypeInv
  <2>2. CASE UNCHANGED stack
    BY <2>2
  <2>. QED
    BY <2>1, <2>2
<1>. QED
  BY <1>1, <1>2 DEF TaskInv, HeldBy

-----------------------------------------------------------------------------
(* The queue and the tasks it has.                                         *)

Once(q) == \A i, j \in 1 .. Len(q) : q[i] = q[j] => i = j

LEMMA InQueue ==
  ASSUME NEW q \in Seq(Tasks)
  PROVE  \A t : t \in ToSet(q) <=> \E i \in 1 .. Len(q) : q[i] = t
<1>1. DOMAIN q = 1 .. Len(q)
  OBVIOUS
<1>. QED
  BY <1>1 DEF ToSet

LEMMA QueueGrows ==
  ASSUME NEW q \in Seq(Tasks), Once(q), NEW t \in Tasks, t \notin ToSet(q)
  PROVE  /\ \A u : u \in ToSet(Append(q, t)) <=> u \in ToSet(q) \/ u = t
         /\ Once(Append(q, t))
<1>. DEFINE r == Append(q, t)
<1>1. /\ r \in Seq(Tasks) /\ Len(q) \in Nat /\ Len(r) = Len(q) + 1
      /\ r[Len(q) + 1] = t /\ \A i \in 1 .. Len(q) : r[i] = q[i]
  OBVIOUS
<1>2. \A i \in 1 .. Len(q) : q[i] # t
  BY InQueue
<1>. HIDE DEF r
<1>3. \A i \in 1 .. Len(r) : i = Len(q) + 1 \/ i \in 1 .. Len(q)
  BY <1>1
<1>4. \A i \in 1 .. Len(q) : i \in 1 .. Len(r) /\ i # Len(q) + 1
  BY <1>1
<1>5. Len(q) + 1 \in 1 .. Len(r)
  BY <1>1
<1>6. Once(r)
  BY <1>1, <1>2, <1>3 DEF Once
<1>7. \A u : u \in ToSet(r) <=> u \in ToSet(q) \/ u = t
  BY <1>1, <1>3, <1>4, <1>5, InQueue
<1>. QED
  BY <1>6, <1>7 DEF r

LEMMA QueueShrinks ==
  ASSUME NEW q \in Seq(Tasks), Once(q), q # <<>>
  PROVE  /\ \A u : u \in ToSet(Tail(q)) <=> u \in ToSet(q) /\ u # Head(q)
         /\ Once(Tail(q)) /\ Head(q) \in ToSet(q) /\ Head(q) \in Tasks
<1>. DEFINE r == Tail(q)
<1>1. /\ r \in Seq(Tasks) /\ Len(q) \in Nat \ {0} /\ Len(r) = Len(q) - 1 /\ Head(q) = q[1]
      /\ \A i \in 1 .. Len(r) : r[i] = q[i + 1]
  OBVIOUS
<1>. HIDE DEF r
<1>2. \A i \in 1 .. Len(r) : i + 1 \in 1 .. Len(q) /\ i + 1 # 1
  BY <1>1
<1>3. \A i \in 1 .. Len(q) : i # 1 => i - 1 \in 1 .. Len(r) /\ r[i - 1] = q[i]
  BY <1>1
<1>4. 1 \in 1 .. Len(q) /\ q[1] \in Tasks
  BY <1>1
<1>5. Once(r)
  <2>. SUFFICES ASSUME NEW i \in 1 .. Len(r), NEW j \in 1 .. Len(r), r[i] = r[j] PROVE i = j
    BY DEF Once
  <2>1. i + 1 = j + 1
    BY <1>1, <1>2 DEF Once
  <2>. QED
    BY <1>1, <2>1
<1>6. ASSUME NEW u, u \in ToSet(r) PROVE u \in ToSet(q) /\ u # Head(q)
  <2>1. PICK i \in 1 .. Len(r) : r[i] = u
    BY <1>1, <1>6, InQueue
  <2>. QED
    BY <1>1, <1>2, <1>4, <2>1, InQueue DEF Once
<1>7. ASSUME NEW u, u \in ToSet(q), u # Head(q) PROVE u \in ToSet(r)
  BY <1>1, <1>3, <1>7, InQueue
<1>8. Head(q) \in ToSet(q) /\ Head(q) \in Tasks
  BY <1>1, <1>4, InQueue
<1>. QED
  BY <1>5, <1>6, <1>7, <1>8 DEF r

LEMMA NoQueue == \A u : u \notin ToSet(<<>>)
  BY DEF ToSet

LEMMA Queued ==
  ASSUME TypeInv, QueuedOnce
  PROVE  /\ queue \in Seq(Tasks) /\ Once(queue) /\ rejected \subseteq Tasks
         /\ \A u \in ToSet(queue) : u \in Tasks /\ task[u] = "scheduled" /\ u \notin rejected
         /\ \A u \in rejected : u \in Tasks /\ task[u] = "scheduled"
  BY QueueTypes DEF QueuedOnce, Once, TypeInv, TypeOK

LEMMA QueueKept ==
  ASSUME TypeInv, QueuedOnce, UNCHANGED <<queue, rejected>>,
         \A u \in Tasks : (u \in ToSet(queue) \/ u \in rejected) => task'[u] = "scheduled"
  PROVE  QueuedOnce'
  BY Queued DEF QueuedOnce

LEMMA TopCase ==
  ASSUME TypeInv, NEW a \in Actors
  PROVE  /\ stack[a] = <<>> => HandTop(a) = {} /\ PollTop(a) = {}
         /\ stack[a] # <<>> => HandTop(a) = HandOf(Top(a)) /\ PollTop(a) = PollOf(Top(a))
         /\ stack[a] # <<>> /\ Top(a).pc \notin TaskPcs => HandTop(a) = {} /\ PollTop(a) = {}
  BY DEF HandTop, PollTop, HandOf, PollOf, TaskPcs

LEMMA SubmitTasks ==
  ASSUME TypeInv, TaskInv, NEW p \in Threads, NEW t \in Tasks, Submit(p, t)
  PROVE  TaskInv'
<1>. DEFINE f == SchedFrame(t, FALSE)
<1>1. /\ p \in Actors /\ stack[p] = <<>> /\ f \in Frames /\ task[t] = "fresh"
      /\ task' = [task EXCEPT ![t] = "scheduled"] /\ UNCHANGED <<queue, rejected>>
      /\ HandOf(f) = {t} /\ PollOf(f) = {}
  BY ActorKinds, MadeFrames DEF Submit, queueVars, SchedFrame, HandOf, PollOf
<1>2. Moves(p, <<f>>)
  BY <1>1, OpenOne DEF Submit, TypeInv
<1>. HIDE DEF f
<1>3. /\ \A u \in Tasks : task'[u] = IF u = t THEN "scheduled" ELSE task[u]
      /\ QueuedOnce /\ t \notin ToSet(queue) /\ t \notin rejected
  BY <1>1, Queued DEF TypeInv, TypeOK, TaskInv
<1>4. QueuedOnce'
  BY <1>1, <1>3, Queued, QueueKept
<1>5. HandTop(p) = {} /\ PollTop(p) = {}
  BY <1>1, TopCase
<1>6. Passes(p, HandOf(f), PollOf(f))
  BY <1>1, <1>3, <1>4, <1>5 DEF Passes, Turns, InHand, Polled
<1>. QED
  BY <1>1, <1>2, <1>6, PassOne

LEMMA WakeTasks ==
  ASSUME TypeInv, TaskInv, NEW p \in Threads, NEW t \in Tasks, Wake(p, t)
  PROVE  TaskInv'
<1>. DEFINE f == SchedFrame(t, TRUE)
<1>1. /\ p \in Actors /\ stack[p] = <<>> /\ f \in Frames /\ UNCHANGED <<queue, rejected>>
      /\ HandOf(f) = {t} /\ PollOf(f) = {}
      /\ \/ /\ task[t] = "waiting" /\ task' = [task EXCEPT ![t] = "scheduled"]
            /\ stack' = [stack EXCEPT ![p] = <<f>>]
         \/ /\ task[t] = "running" /\ task' = [task EXCEPT ![t] = "woken"] /\ UNCHANGED stack
  BY ActorKinds, MadeFrames DEF Wake, queueVars, SchedFrame, HandOf, PollOf
<1>. HIDE DEF f
<1>2. QueuedOnce /\ (t \in ToSet(queue) \/ t \in rejected => task[t] = "scheduled")
  BY Queued DEF TaskInv
<1>3. QueuedOnce' /\ \A u \in Tasks : task'[u] = IF u = t THEN task'[t] ELSE task[u]
  BY <1>1, <1>2, Queued, QueueKept DEF TypeInv, TypeOK
<1>4. CASE task[t] = "waiting"
  <2>1. task'[t] = "scheduled" /\ Moves(p, <<f>>)
    BY <1>1, <1>4, OpenOne DEF TypeInv, TypeOK
  <2>2. HandTop(p) = {} /\ PollTop(p) = {}
    BY <1>1, TopCase
  <2>3. Passes(p, HandOf(f), PollOf(f))
    BY <1>1, <1>2, <1>3, <1>4, <2>1, <2>2 DEF Passes, Turns, InHand, Polled
  <2>. QED
    BY <1>1, <2>1, <2>3, PassOne
<1>5. CASE task[t] = "running"
  <2>1. task'[t] = "woken" /\ UNCHANGED stack
    BY <1>1, <1>5 DEF TypeInv, TypeOK
  <2>2. \A u \in Tasks : (u \in InHand' <=> u \in InHand) /\ (u \in Polled' <=> u \in Polled)
    BY <1>1, <1>3, <1>5, <2>1 DEF InHand, Polled
  <2>3. InHand' = InHand /\ Polled' = Polled /\ Hands' = Hands /\ Polls' = Polls
    BY <2>2 DEF InHand, Polled, Hands, Polls
  <2>. QED
    BY <1>3, <2>1, <2>3 DEF TaskInv, HeldBy
<1>. QED
  BY <1>1, <1>4, <1>5

LEMMA PushTasks ==
  ASSUME TypeInv, TaskInv, NEW a \in Actors, Push(a)
  PROVE  TaskInv'
<1>. DEFINE t == Top(a).task
            f == At(a, "offer")
<1>1. /\ stack[a] # <<>> /\ Top(a).pc = "push" /\ Top(a) \in SchedFrames /\ UNCHANGED task
  BY InTop, FrameKinds DEF Push, taskVars
<1>2. t \in Tasks /\ f \in Frames /\ HandOf(f) = {} /\ PollOf(f) = {} /\ HandOf(Top(a)) = {t}
  BY <1>1, FrameUnion DEF At, SchedFrames, HandOf, PollOf
<1>3. /\ \/ /\ rejected' = rejected \cup {t} /\ Return(a) /\ UNCHANGED queue
         \/ /\ queue' = Append(queue, t) /\ Goto(a, f) /\ UNCHANGED rejected
  BY DEF Push
<1>4. HandTop(a) = {t} /\ PollTop(a) = {} /\ t \in InHand
  BY <1>1, <1>2, TopCase, TopHolds DEF PollOf
<1>. HIDE DEF t, f
<1>5. task[t] = "scheduled" /\ t \notin ToSet(queue) /\ t \notin rejected
  BY <1>4 DEF InHand
<1>6. QueuedOnce /\ Stacks
  BY DEF TaskInv, TypeInv
<1>7. ASSUME rejected' = rejected \cup {t}, Return(a), UNCHANGED queue PROVE TaskInv'
  <2>1. QueuedOnce'
    BY <1>1, <1>5, <1>6, <1>7, Queued DEF QueuedOnce
  <2>2. Passes(a, {}, {})
    BY <1>1, <1>4, <1>7, <2>1 DEF Passes, Turns, InHand, Polled
  <2>. QED
    BY <1>1, <1>6, <1>7, <2>2, Returned, PassNone
<1>8. ASSUME queue' = Append(queue, t), Goto(a, f), UNCHANGED rejected PROVE TaskInv'
  <2>1. /\ \A u : u \in ToSet(queue') <=> u \in ToSet(queue) \/ u = t
        /\ Once(queue')
    BY <1>2, <1>5, <1>6, <1>8, Queued, QueueGrows
  <2>2. QueuedOnce'
    BY <1>1, <1>5, <1>6, <1>8, <2>1, Queued DEF QueuedOnce, Once
  <2>3. Passes(a, HandOf(f), PollOf(f))
    BY <1>1, <1>2, <1>4, <1>8, <2>1, <2>2 DEF Passes, Turns, InHand, Polled
  <2>. QED
    BY <1>1, <1>2, <1>6, <1>8, <2>3, GotoMoves, PassOne
<1>. QED
  BY <1>3, <1>7, <1>8

LEMMA TakeTasks ==
  ASSUME TypeInv, TaskInv, NEW a \in Actors, stack[a] # <<>>, NEW f \in Frames,
         Top(a).pc \in {"turn", "drive"}, f.pc \in {"turn", "drive"},
         TakeRunnable(a, f), UNCHANGED rejected
  PROVE  TaskInv'
<1>. DEFINE t == Head(queue)
            g == [pc |-> "poll", task |-> t]
<1>1. /\ queue # <<>> /\ queue' = Tail(queue) /\ task' = [task EXCEPT ![t] = "running"]
      /\ Call(a, f, g)
  BY DEF TakeRunnable, CanTake
<1>2. /\ QueuedOnce /\ queue \in Seq(Tasks) /\ Once(queue) /\ Stacks
      /\ \A u : u \in ToSet(queue') <=> u \in ToSet(queue) /\ u # t
      /\ Once(queue') /\ t \in ToSet(queue) /\ t \in Tasks
  BY <1>1, Queued, QueueShrinks DEF TaskInv, TypeInv
<1>3. g \in Frames /\ HandOf(g) = {} /\ PollOf(g) = {t} /\ HandOf(f) = {} /\ PollOf(f) = {}
  BY <1>2, MadeFrames DEF HandOf, PollOf
<1>. HIDE DEF t, g
<1>4. HandTop(a) = {} /\ PollTop(a) = {}
  BY TopCase DEF TaskPcs
<1>5. task[t] = "scheduled" /\ t \notin rejected /\ \A u \in Tasks : task'[u] = IF u = t THEN "running" ELSE task[u]
  BY <1>1, <1>2, Queued DEF TypeInv, TypeOK
<1>6. QueuedOnce'
  BY <1>2, <1>5, Queued DEF QueuedOnce, Once
<1>7. Passes(a, HandOf(g), PollOf(g))
  BY <1>2, <1>3, <1>4, <1>5, <1>6 DEF Passes, Turns, InHand, Polled
<1>. QED
  BY <1>1, <1>2, <1>3, <1>7, CallMoves, PassTwo

(* The end of a task, and the tasks it wakes.                              *)
Ended(t, W) ==
  \A u \in Tasks :
    /\ task'[u] = "scheduled" <=> u # t /\ (task[u] = "scheduled" \/ u \in W)
    /\ task'[u] \in {"running", "woken"} <=> u # t /\ task[u] \in {"running", "woken"}

LEMMA EndOfTasks ==
  ASSUME TypeInv, NEW t \in Tasks, task' = EndOf(t), NEW W,
         W = {u \in AwaitedBy[t] \ {t} : task[u] = "waiting"}
  PROVE  /\ W \in SUBSET Tasks /\ Ended(t, W)
         /\ \A u \in W : u # t /\ task[u] = "waiting"
<1>1. W \in SUBSET Tasks
  BY WokenTasks
<1>2. \A u \in Tasks : task'[u] = IF u = t THEN "done"
                             ELSE IF u \notin AwaitedBy[t] THEN task[u]
                             ELSE IF task[u] = "waiting" THEN "scheduled"
                             ELSE IF task[u] = "running" THEN "woken"
                             ELSE task[u]
  BY DEF EndOf
<1>3. \A u : u \in W <=> u \in AwaitedBy[t] /\ u # t /\ task[u] = "waiting"
  OBVIOUS
<1>4. Ended(t, W)
  BY <1>2, <1>3 DEF Ended
<1>. QED
  BY <1>1, <1>3, <1>4

LEMMA DropTasks ==
  ASSUME TypeInv, TaskInv, NEW a \in Actors, Drop(a)
  PROVE  TaskInv'
<1>1. /\ stack[a] # <<>> /\ Top(a).pc = "drop" /\ Top(a) \in DropFrames /\ Stacks /\ QueuedOnce
      /\ UNCHANGED <<queue, rejected>>
  BY InTop, FrameKinds DEF Drop, queueVars, TypeInv, TaskInv
<1>. DEFINE T == Top(a).tasks
<1>2. T \in SUBSET Tasks /\ HandTop(a) = T /\ PollTop(a) = {}
  BY <1>1, TopCase DEF DropFrames, HandOf, PollOf
<1>3. CASE T = {}
  <2>1. Return(a) /\ UNCHANGED task
    BY <1>3 DEF Drop
  <2>2. QueuedOnce'
    BY <1>1, <2>1, Queued, QueueKept
  <2>3. Passes(a, {}, {})
    BY <1>1, <1>2, <1>3, <2>1, <2>2 DEF Passes, Turns, InHand, Polled
  <2>. QED
    BY <1>1, <2>1, <2>3, Returned, PassNone
<1>4. CASE T # {}
  <2>1. PICK t \in T :
          /\ task' = EndOf(t)
          /\ stack' = [stack EXCEPT ![a] = Become(a, DropFrame(T \ {t})) \o WakerFrames(WokenBy(t))]
    BY <1>4 DEF Drop
  <2>. DEFINE f == DropFrame(T \ {t})
              W == {u \in AwaitedBy[t] \ {t} : task[u] = "waiting"}
  <2>2. f \in Frames /\ HandOf(f) = T \ {t} /\ PollOf(f) = {}
    <3>1. T \ {t} \in SUBSET Tasks
      BY <1>2
    <3>. QED
      BY <3>1, MadeFrames DEF DropFrame, HandOf, PollOf
  <2>3. WokenBy(t) = SetToSeq(W)
    BY DEF WokenBy
  <2>. HIDE DEF T, f, W
  <2>4. t \in Tasks /\ W \in SUBSET Tasks /\ Ended(t, W) /\ \A u \in W : u # t /\ task[u] = "waiting"
    <3>1. t \in Tasks /\ task' = EndOf(t)
      BY <1>2, <2>1
    <3>. QED
      BY <3>1, EndOfTasks DEF W
  <2>5. Moves(a, <<f>> \o WakerFrames(SetToSeq(W)))
    BY <1>1, <2>1, <2>2, <2>3, <2>4, SpawnMoves, WakersShape DEF f
  <2>6. \A u \in T : u \in Tasks /\ task[u] = "scheduled" /\ u \notin ToSet(queue) /\ u \notin rejected
    BY <1>2, TopHolds DEF InHand
  <2>7. QueuedOnce'
    BY <1>1, <2>1, <2>4, <2>6, Queued, QueueKept DEF Ended
  <2>8. HandOf(f) \cap W = {}
    BY <2>2, <2>4, <2>6
  <2>9. \A u \in W : u \notin ToSet(queue) /\ u \notin rejected
    BY <1>1, <2>4, Queued
  <2>10. Passes(a, HandOf(f) \cup W, PollOf(f))
    <3>1. Turns(InHand, InHand', HandTop(a), HandOf(f) \cup W)
      BY <1>1, <1>2, <2>1, <2>2, <2>4, <2>6, <2>9 DEF Turns, InHand, Ended
    <3>2. Turns(Polled, Polled', PollTop(a), PollOf(f))
      BY <1>2, <2>1, <2>2, <2>4, <2>6 DEF Turns, Polled, Ended
    <3>. QED
      BY <2>7, <3>1, <3>2 DEF Passes
  <2>. QED
    BY <2>2, <2>4, <2>5, <2>8, <2>10, PassWakers
<1>. QED
  BY <1>3, <1>4

LEMMA PollTasks ==
  ASSUME TypeInv, TaskInv, NEW a \in Actors, Poll(a)
  PROVE  TaskInv'
<1>. DEFINE t == Top(a).task
            W == {u \in AwaitedBy[t] \ {t} : task[u] = "waiting"}
            r == Frame("return")
            g == SchedFrame(t, TRUE)
<1>1. /\ stack[a] # <<>> /\ Top(a).pc = "poll" /\ t \in Tasks /\ r \in Frames /\ g \in Frames
      /\ \/ /\ task' = EndOf(t)
            /\ (Return(a) /\ WokenBy(t) = <<>>) \/ Moves(a, <<r>> \o WakerFrames(WokenBy(t)))
         \/ task[t] = "running" /\ task' = [task EXCEPT ![t] = "waiting"] /\ Return(a)
         \/ task[t] = "woken" /\ task' = [task EXCEPT ![t] = "scheduled"] /\ Goto(a, g)
  BY PollMoves, MadeFrames
<1>2. /\ Stacks /\ QueuedOnce /\ UNCHANGED <<queue, rejected>> /\ WokenBy(t) = SetToSeq(W)
      /\ HandOf(r) = {} /\ PollOf(r) = {} /\ HandOf(g) = {t} /\ PollOf(g) = {}
      /\ HandTop(a) = {} /\ PollTop(a) = {t}
  BY <1>1, TopCase DEF Poll, queueVars, TypeInv, TaskInv, WokenBy, Frame, SchedFrame, HandOf, PollOf
<1>. HIDE DEF t, W, r, g
<1>3. t \in Polled /\ t \notin ToSet(queue) /\ t \notin rejected
  BY <1>1, <1>2, TopHolds, Queued DEF Polled
<1>4. ASSUME task' = EndOf(t),
             (Return(a) /\ WokenBy(t) = <<>>) \/ Moves(a, <<r>> \o WakerFrames(WokenBy(t)))
      PROVE  TaskInv'
  <2>1. W \in SUBSET Tasks /\ Ended(t, W) /\ \A u \in W : u # t /\ task[u] = "waiting"
    BY <1>1, <1>4, EndOfTasks DEF W
  <2>2. QueuedOnce'
    BY <1>2, <1>3, <2>1, Queued, QueueKept DEF Ended
  <2>3. \A u \in W : u \notin ToSet(queue) /\ u \notin rejected
    BY <1>2, <2>1, Queued
  <2>4. Turns(InHand, InHand', HandTop(a), W) /\ Turns(Polled, Polled', PollTop(a), {})
    BY <1>2, <1>3, <2>1, <2>3 DEF Turns, InHand, Polled, Ended
  <2>5. CASE Return(a) /\ WokenBy(t) = <<>>
    <3>1. W = {}
      BY <1>2, <2>1, <2>5, WakersShape
    <3>. QED
      BY <1>1, <1>2, <2>2, <2>4, <2>5, <3>1, Returned, PassNone DEF Passes
  <2>6. CASE Moves(a, <<r>> \o WakerFrames(WokenBy(t)))
    <3>1. HandOf(r) \cap W = {} /\ HandOf(r) \cup W = W
      BY <1>2
    <3>2. Passes(a, HandOf(r) \cup W, PollOf(r))
      BY <1>2, <2>2, <2>4, <3>1 DEF Passes
    <3>. QED
      BY <1>1, <1>2, <2>1, <2>6, <3>1, <3>2, PassWakers
  <2>. QED
    BY <1>4, <2>5, <2>6
<1>5. ASSUME task[t] = "running", task' = [task EXCEPT ![t] = "waiting"], Return(a) PROVE TaskInv'
  <2>1. \A u \in Tasks : task'[u] = IF u = t THEN "waiting" ELSE task[u]
    BY <1>5 DEF TypeInv, TypeOK
  <2>2. QueuedOnce'
    BY <1>2, <1>3, <2>1, Queued, QueueKept
  <2>3. Passes(a, {}, {})
    BY <1>2, <1>3, <1>5, <2>1, <2>2 DEF Passes, Turns, InHand, Polled
  <2>. QED
    BY <1>1, <1>2, <1>5, <2>3, Returned, PassNone
<1>6. ASSUME task[t] = "woken", task' = [task EXCEPT ![t] = "scheduled"], Goto(a, g) PROVE TaskInv'
  <2>1. \A u \in Tasks : task'[u] = IF u = t THEN "scheduled" ELSE task[u]
    BY <1>6 DEF TypeInv, TypeOK
  <2>2. QueuedOnce'
    BY <1>2, <1>3, <2>1, Queued, QueueKept
  <2>3. Passes(a, HandOf(g), PollOf(g))
    BY <1>1, <1>2, <1>3, <1>6, <2>1, <2>2 DEF Passes, Turns, InHand, Polled
  <2>. QED
    BY <1>1, <1>2, <1>6, <2>3, GotoMoves, PassOne
<1>. QED
  BY <1>1, <1>4, <1>5, <1>6

(* The rejected work becomes a frame that will drop it.                    *)
LEMMA TasksTaken ==
  ASSUME TypeInv, TaskInv, NEW a \in Actors, stack[a] # <<>>, Top(a).pc \notin TaskPcs,
         NEW f \in Frames, f.pc \notin TaskPcs, Call(a, f, DropFrame(rejected)),
         rejected' = {}, UNCHANGED <<queue, task>>
  PROVE  TaskInv'
<1>. DEFINE g == DropFrame(rejected)
<1>1. QueuedOnce /\ Stacks /\ HandTop(a) = {} /\ PollTop(a) = {} /\ HandOf(f) = {} /\ PollOf(f) = {}
  BY TopCase DEF TypeInv, TaskInv, HandOf, PollOf, TaskPcs
<1>2. g \in Frames /\ HandOf(g) = rejected /\ PollOf(g) = {} /\ Call(a, f, g)
  BY <1>1, Queued, MadeFrames DEF DropFrame, HandOf, PollOf
<1>. HIDE DEF g
<1>3. QueuedOnce'
  BY <1>1, Queued DEF QueuedOnce
<1>4. Passes(a, HandOf(g), PollOf(g))
  BY <1>1, <1>2, <1>3, Queued DEF Passes, Turns, InHand, Polled
<1>. QED
  BY <1>1, <1>2, <1>4, CallMoves, PassTwo

LEMMA ReturnQuiet ==
  ASSUME TypeInv, TaskInv, NEW a \in Actors, stack[a] # <<>>, Top(a).pc \notin TaskPcs,
         Return(a), UNCHANGED <<queue, rejected, task>>
  PROVE  TaskInv'
<1>1. Trace(a, {Top(a).pc})
  BY ReturnTrace DEF TypeInv
<1>. QED
  BY <1>1, TasksQuiet

LEMMA RetiredTasks ==
  ASSUME TypeInv, TaskInv, NEW a \in Actors, stack[a] # <<>>, Top(a).pc \notin TaskPcs,
         RetireRejected(a), UNCHANGED <<queue, task>>
  PROVE  TaskInv'
<1>1. Frame("retire") \in Frames /\ Frame("retire").pc \notin TaskPcs
  BY MadeFrames DEF PlainPcs, TaskPcs
<1>2. CASE Return(a) /\ UNCHANGED rejected
  BY <1>2, ReturnQuiet
<1>3. CASE rejected' = {} /\ Call(a, Frame("retire"), DropFrame(rejected))
  BY <1>1, <1>3, TasksTaken
<1>. QED
  BY <1>2, <1>3 DEF RetireRejected

LEMMA RetireTasks ==
  ASSUME TypeInv, TaskInv, NEW a \in Actors, Retire(a)
  PROVE  TaskInv'
  BY InTop, RetiredTasks DEF Retire, taskVars, TaskPcs

LEMMA CallQuiet ==
  ASSUME TypeInv, TaskInv, NEW a \in Actors, stack[a] # <<>>, Top(a).pc \notin TaskPcs,
         NEW f \in Frames, NEW g \in Frames, f.pc \notin TaskPcs, g.pc \notin TaskPcs,
         Goto(a, f) \/ Call(a, f, g), UNCHANGED <<queue, rejected, task>>
  PROVE  TaskInv'
<1>1. Trace(a, {Top(a).pc, f.pc, g.pc})
  BY GotoTrace, CallTrace DEF TypeInv
<1>. QED
  BY <1>1, TasksQuiet

LEMMA CompleteTasks ==
  ASSUME TypeInv, TaskInv, NEW a \in Actors, Complete(a)
  PROVE  TaskInv'
<1>1. /\ stack[a] # <<>> /\ Top(a).pc = "complete" /\ Top(a) \in CompleteFrames
      /\ UNCHANGED <<queue, task>> /\ Top(a).pc \notin TaskPcs
  BY InTop, FrameKinds DEF Complete, taskVars, TaskPcs
<1>2. CASE Return(a) /\ UNCHANGED rejected
  BY <1>1, <1>2, ReturnQuiet
<1>3. CASE \E x \in Top(a).failures :
             /\ Call(a, [Top(a) EXCEPT !.failures = @ \ {x}], [pc |-> "cancel", failure |-> x])
             /\ UNCHANGED rejected
  <2>. PICK x \in Top(a).failures :
           /\ Call(a, [Top(a) EXCEPT !.failures = @ \ {x}], [pc |-> "cancel", failure |-> x])
           /\ UNCHANGED rejected
    BY <1>3
  <2>1. [Top(a) EXCEPT !.failures = @ \ {x}] \in CompleteFrames /\ x \in Failures
    BY <1>1 DEF CompleteFrames
  <2>2. /\ [Top(a) EXCEPT !.failures = @ \ {x}] \in Frames
        /\ [Top(a) EXCEPT !.failures = @ \ {x}].pc \notin TaskPcs
        /\ [pc |-> "cancel", failure |-> x] \in Frames
        /\ [pc |-> "cancel", failure |-> x].pc \notin TaskPcs
    BY <1>1, <2>1, FrameUnion, MadeFrames DEF CompleteFrames, TaskPcs
  <2>. QED
    BY <1>1, <2>2, CallQuiet
<1>4. CASE Call(a, [Top(a) EXCEPT !.redispatch = FALSE], Frame("rdq")) /\ UNCHANGED rejected
  <2>1. /\ [Top(a) EXCEPT !.redispatch = FALSE] \in Frames
        /\ [Top(a) EXCEPT !.redispatch = FALSE].pc \notin TaskPcs
        /\ Frame("rdq") \in Frames /\ Frame("rdq").pc \notin TaskPcs
    BY <1>1, FrameUnion, MadeFrames DEF CompleteFrames, TaskPcs, PlainPcs
  <2>. QED
    BY <1>1, <1>4, <2>1, CallQuiet
<1>5. CASE RetireRejected(a)
  BY <1>1, <1>5, RetiredTasks
<1>. QED
  BY <1>2, <1>3, <1>4, <1>5 DEF Complete

LEMMA PurgeTasks ==
  ASSUME TypeInv, TaskInv, NEW a \in Actors, Purge(a)
  PROVE  TaskInv'
<1>1. /\ stack[a] # <<>> /\ Top(a).pc = "purge" /\ Top(a) \in Frames
      /\ UNCHANGED <<queue, task>> /\ Top(a).pc \notin TaskPcs
  BY InTop DEF Purge, taskVars, TaskPcs
<1>2. CASE Return(a) /\ UNCHANGED rejected
  BY <1>1, <1>2, ReturnQuiet
<1>3. CASE rejected' = {} /\ Call(a, Top(a), DropFrame(rejected))
  BY <1>1, <1>3, TasksTaken
<1>. QED
  BY <1>2, <1>3 DEF Purge

LEMMA RequestQueuedTasks ==
  ASSUME TypeInv, TaskInv, NEW a \in Actors, RequestQueued(a)
  PROVE  TaskInv'
<1>1. /\ stack[a] # <<>> /\ Top(a).pc = "rdq" /\ Top(a) \in Frames
      /\ UNCHANGED <<queue, task>> /\ Top(a).pc \notin TaskPcs
  BY InTop DEF RequestQueued, taskVars, TaskPcs
<1>2. CASE Return(a) /\ UNCHANGED rejected
  BY <1>1, <1>2, ReturnQuiet
<1>3. CASE rejected' = {} /\ Call(a, Top(a), DropFrame(rejected))
  BY <1>1, <1>3, TasksTaken
<1>4. CASE Goto(a, Frame("rdqJoin")) /\ UNCHANGED rejected
  <2>1. Frame("rdqJoin") \in Frames /\ Frame("rdqJoin").pc \notin TaskPcs
    BY MadeFrames DEF PlainPcs, TaskPcs
  <2>. QED
    BY <1>1, <1>4, <2>1, CallQuiet
<1>. QED
  BY <1>2, <1>3, <1>4 DEF RequestQueued

LEMMA WaitIdleTasks ==
  ASSUME TypeInv, TaskInv, WaitIdle
  PROVE  TaskInv'
<1>1. /\ Stopper \in Actors /\ stack[Stopper] # <<>> /\ Top(Stopper).pc = "wait" /\ Top(Stopper) \in Frames
      /\ UNCHANGED <<queue, task>> /\ Top(Stopper).pc \notin TaskPcs
  BY InTop, ActorKinds DEF WaitIdle, taskVars, TaskPcs
<1>2. CASE Return(Stopper) /\ UNCHANGED rejected
  BY <1>1, <1>2, ReturnQuiet
<1>3. CASE rejected' = {} /\ Call(Stopper, Top(Stopper), DropFrame(rejected))
  BY <1>1, <1>3, TasksTaken
<1>. QED
  BY <1>2, <1>3 DEF WaitIdle

(* The queued work is given up: it is rejected, then cancelled.            *)
LEMMA MoveTasks ==
  ASSUME TypeInv, TaskInv, NEW a \in Actors, Move(a)
  PROVE  TaskInv'
<1>. DEFINE f == IF OnWakerStack(a) THEN [pc |-> "attempt", n |-> 0, res |-> "none"] ELSE Frame("purge")
<1>1. /\ stack[a] # <<>> /\ Top(a).pc = "move" /\ Stacks /\ QueuedOnce /\ UNCHANGED task
      /\ rejected' = rejected \cup ToSet(queue) /\ queue' = <<>> /\ Goto(a, f)
  BY InTop DEF Move, TypeInv, TaskInv, taskVars
<1>2. f \in Frames /\ HandOf(f) = {} /\ PollOf(f) = {}
  <2>1. 0 \in Nat /\ "none" \in Results /\ "purge" \in PlainPcs
    BY DEF Results, PlainPcs
  <2>2. f \in Frames /\ f.pc \in {"attempt", "purge"}
    BY <2>1, MadeFrames DEF Frame
  <2>. QED
    BY <2>2 DEF HandOf, PollOf
<1>3. HandTop(a) = {} /\ PollTop(a) = {}
  BY <1>1, TopCase DEF TaskPcs
<1>. HIDE DEF f
<1>4. QueuedOnce'
  BY <1>1, NoQueue, Queued, EmptySeq DEF QueuedOnce
<1>5. Passes(a, HandOf(f), PollOf(f))
  BY <1>1, <1>2, <1>3, <1>4, NoQueue DEF Passes, Turns, InHand, Polled
<1>. QED
  BY <1>1, <1>2, <1>5, GotoMoves, PassOne

(* The stop wakes every task that waits, and takes what the queue has.     *)
LEMMA AbortTasksTasks ==
  ASSUME TypeInv, ShapeInv, TaskInv, AbortTasks
  PROVE  TaskInv'
<1>. Stopper \in Actors
  BY ActorKinds
<1>. DEFINE W == {t \in Tasks : task[t] = "waiting"}
            f == Frame("close")
<1>1. /\ stack[Stopper] # <<>> /\ Top(Stopper).pc = "abort" /\ f \in Frames /\ f.pc = "close"
      /\ W \in SUBSET Tasks /\ Moves(Stopper, <<f>> \o WakerFrames(SetToSeq(W)))
  BY AbortTasksMoves
<1>2. /\ QueuedOnce /\ UNCHANGED <<queue, rejected>>
      /\ \A t \in Tasks : task'[t] = IF task[t] = "waiting" THEN "scheduled"
                                     ELSE IF task[t] = "running" THEN "woken" ELSE task[t]
  BY DEF AbortTasks, queueVars, TaskInv
<1>3. HandOf(f) = {} /\ PollOf(f) = {} /\ HandTop(Stopper) = {} /\ PollTop(Stopper) = {}
  BY <1>1, TopCase DEF HandOf, PollOf, TaskPcs
<1>4. \A t \in Tasks : t \in W <=> task[t] = "waiting"
  OBVIOUS
<1>. HIDE DEF W, f
<1>5. QueuedOnce'
  BY <1>2, Queued, QueueKept
<1>6. \A t \in W : t \notin ToSet(queue) /\ t \notin rejected
  BY <1>1, <1>2, <1>4, Queued
<1>7. HandOf(f) \cap W = {} /\ HandOf(f) \cup W = W
  BY <1>3
<1>8. Turns(InHand, InHand', HandTop(Stopper), W) /\ Turns(Polled, Polled', PollTop(Stopper), PollOf(f))
  BY <1>2, <1>3, <1>4, <1>6 DEF Turns, InHand, Polled
<1>. QED
  BY <1>1, <1>5, <1>7, <1>8, PassWakers DEF Passes

LEMMA CloseQueueTasks ==
  ASSUME TypeInv, TaskInv, CloseQueue
  PROVE  TaskInv'
<1>. Stopper \in Actors
  BY ActorKinds
<1>. DEFINE T == ToSet(queue) \cup rejected
            f == [pc |-> "forget", tasks |-> T]
<1>1. /\ stack[Stopper] # <<>> /\ Top(Stopper).pc = "close" /\ Stacks /\ QueuedOnce /\ UNCHANGED task
      /\ rejected' = {} /\ queue' = <<>> /\ Goto(Stopper, f)
  BY InTop DEF CloseQueue, TypeInv, TaskInv, taskVars
<1>2. T \in SUBSET Tasks /\ f \in DropFrames /\ HandOf(f) = T /\ PollOf(f) = {}
  BY QueueTypes DEF DropFrames, HandOf, PollOf
<1>3. f \in Frames /\ HandTop(Stopper) = {} /\ PollTop(Stopper) = {}
  BY <1>1, <1>2, TopCase, FrameUnion DEF TaskPcs
<1>4. \A t : t \in T <=> t \in ToSet(queue) \/ t \in rejected
  OBVIOUS
<1>. HIDE DEF T, f
<1>5. QueuedOnce'
  BY <1>1, NoQueue, EmptySeq DEF QueuedOnce
<1>6. Passes(Stopper, HandOf(f), PollOf(f))
  BY <1>1, <1>2, <1>3, <1>4, <1>5, NoQueue, Queued DEF Passes, Turns, InHand, Polled
<1>. QED
  BY <1>1, <1>2, <1>3, <1>6, GotoMoves, PassOne

LEMMA ForgetTasks ==
  ASSUME TypeInv, TaskInv, ForgetDispatches \/ ForgetHosts
  PROVE  TaskInv'
<1>. Stopper \in Actors
  BY ActorKinds
<1>. DEFINE T == Top(Stopper).tasks
            f == At(Stopper, "forgetHosts")
            w == Frame("wait")
            g == DropFrame(T)
<1>1. /\ stack[Stopper] # <<>> /\ Top(Stopper).pc \in {"forget", "forgetHosts"} /\ Stacks
      /\ Top(Stopper) \in DropFrames /\ QueuedOnce /\ UNCHANGED <<queue, rejected, task>>
      /\ Goto(Stopper, f) \/ Call(Stopper, w, g)
  BY InTop, FrameKinds DEF ForgetDispatches, ForgetHosts, TypeInv, TaskInv, taskVars, queueVars
<1>2. /\ T \in SUBSET Tasks /\ f \in DropFrames /\ f.pc = "forgetHosts" /\ f.tasks = T
      /\ HandTop(Stopper) = T /\ PollTop(Stopper) = {}
  BY <1>1, TopCase DEF DropFrames, At, HandOf, PollOf
<1>3. /\ f \in Frames /\ g \in Frames /\ w \in Frames /\ HandOf(f) = T /\ PollOf(f) = {}
      /\ HandOf(w) = {} /\ PollOf(w) = {} /\ HandOf(g) = T /\ PollOf(g) = {}
  <2>1. w \in Frames /\ w.pc = "wait" /\ g \in Frames /\ g.pc = "drop" /\ g.tasks = T
    BY <1>2, MadeFrames DEF PlainPcs, DropFrame
  <2>. QED
    BY <1>2, <2>1, FrameUnion DEF HandOf, PollOf
<1>. HIDE DEF T, f, w, g
<1>4. QueuedOnce'
  BY <1>1, Queued, QueueKept
<1>5. \A t \in T : t \in InHand
  BY <1>2, TopHolds
<1>6. Passes(Stopper, T, {})
  BY <1>1, <1>2, <1>4, <1>5 DEF Passes, Turns, InHand, Polled
<1>7. CASE Goto(Stopper, f)
  BY <1>1, <1>3, <1>6, <1>7, GotoMoves, PassOne
<1>8. CASE Call(Stopper, w, g)
  BY <1>1, <1>3, <1>6, <1>8, CallMoves, PassTwo
<1>. QED
  BY <1>1, <1>7, <1>8

LEMMA DriveTasks ==
  ASSUME TypeInv, TaskInv, NEW a \in Actors,
         (a \in Hosts /\ DriveTurn(a)) \/ (a \in Threads /\ DriveOne(a))
  PROVE  TaskInv'
<1>1. CASE a \in Hosts /\ DriveTurn(a)
  <2>1. stack[a] # <<>> /\ Top(a).pc = "turn" /\ UNCHANGED rejected
    BY <1>1, DriveTurnMoves DEF DriveTurn
  <2>2. ASSUME NEW f \in Frames, f.pc = "turn", TakeRunnable(a, f) PROVE TaskInv'
    BY <2>1, <2>2, TakeTasks
  <2>3. ASSUME At(a, "release") \in Frames, At(a, "release").pc = "release",
               Goto(a, At(a, "release")), UNCHANGED <<queue, task>>
        PROVE  TaskInv'
    BY <2>1, <2>3, CallQuiet DEF TaskPcs
  <2>. QED
    BY <1>1, <2>2, <2>3, DriveTurnMoves
<1>2. CASE a \in Threads /\ DriveOne(a)
  <2>1. /\ stack[a] # <<>> /\ Top(a).pc = "drive" /\ Top(a) \in Frames /\ UNCHANGED rejected
        /\ TakeRunnable(a, Top(a))
    BY <1>2, InTop DEF DriveOne
  <2>. QED
    BY <2>1, TakeTasks
<1>. QED
  BY <1>1, <1>2

LEMMA TaskStep ==
  ASSUME TypeInv, ShapeInv, TaskInv, Next
  PROVE  TaskInv'
<1>0. PICK a \in Actors : \E P : Footprint(a, P)
  BY Footprints DEF Foot
<1>1. PICK P : Footprint(a, P)
  BY <1>0
<1>2. ASSUME NEW p \in Threads, NEW t \in Tasks, Submit(p, t) PROVE TaskInv'
  BY <1>2, SubmitTasks
<1>3. ASSUME NEW p \in Threads, NEW t \in Tasks, Wake(p, t) PROVE TaskInv'
  BY <1>3, WakeTasks
<1>4. ASSUME NEW p \in Threads, DriveOne(p) PROVE TaskInv'
  BY <1>4, ActorKinds, DriveTasks
<1>5. ASSUME NEW h \in Hosts, DriveTurn(h) PROVE TaskInv'
  BY <1>5, ActorKinds, DriveTasks
<1>6. ASSUME NEW b \in Actors, Push(b) PROVE TaskInv'
  BY <1>6, PushTasks
<1>7. ASSUME NEW b \in Actors, Drop(b) PROVE TaskInv'
  BY <1>7, DropTasks
<1>8. ASSUME NEW b \in Actors, Retire(b) PROVE TaskInv'
  BY <1>8, RetireTasks
<1>9. ASSUME NEW b \in Actors, Move(b) PROVE TaskInv'
  BY <1>9, MoveTasks
<1>10. ASSUME NEW b \in Actors, Purge(b) PROVE TaskInv'
  BY <1>10, PurgeTasks
<1>11. ASSUME NEW b \in Actors, Complete(b) PROVE TaskInv'
  BY <1>11, CompleteTasks
<1>12. ASSUME NEW b \in Actors, RequestQueued(b) PROVE TaskInv'
  BY <1>12, RequestQueuedTasks
<1>13. ASSUME NEW b \in Actors, Poll(b) PROVE TaskInv'
  BY <1>13, PollTasks
<1>14. CASE AbortTasks
  BY <1>14, AbortTasksTasks
<1>15. CASE CloseQueue
  BY <1>15, CloseQueueTasks
<1>16. CASE ForgetDispatches \/ ForgetHosts
  BY <1>16, ForgetTasks
<1>17. CASE WaitIdle
  BY <1>17, WaitIdleTasks
<1>18. CASE ~ TaskMoves
  BY <1>1, <1>18, TasksQuiet DEF Footprint, Spares
<1>. QED
  BY <1>2, <1>3, <1>4, <1>5, <1>6, <1>7, <1>8, <1>9, <1>10, <1>11, <1>12, <1>13, <1>14, <1>15,
     <1>16, <1>17, <1>18 DEF TaskMoves, StopStep

LEMMA InitTasks ==
  ASSUME Init
  PROVE  TaskInv
<1>1. /\ queue = <<>> /\ rejected = {} /\ \A t \in Tasks : task[t] \in {"waiting", "fresh"}
      /\ \A X : Spots(stack, X) = {}
  BY EmptyStacks DEF Init
<1>2. QueuedOnce
  BY <1>1, NoQueue, EmptySeq DEF QueuedOnce
<1>3. \A t \in Tasks : t \notin InHand /\ t \notin Polled
  BY <1>1 DEF InHand, Polled
<1>. QED
  BY <1>1, <1>2, <1>3 DEF TaskInv, HeldBy, Held

LEMMA StutterTasks ==
  ASSUME TaskInv, UNCHANGED vars
  PROVE  TaskInv'
<1>1. UNCHANGED <<queue, rejected, task, stack>>
  BY DEF vars, queueVars, taskVars
<1>2. QueuedOnce' /\ InHand' = InHand /\ Polled' = Polled /\ Hands' = Hands /\ Polls' = Polls
  BY <1>1 DEF TaskInv, QueuedOnce, InHand, Polled, Hands, Polls
<1>. QED
  BY <1>1, <1>2 DEF TaskInv, HeldBy

LEMMA QueueCounts ==
  ASSUME NEW q \in Seq(Tasks), Once(q), NEW t
  PROVE  Cardinality({i \in DOMAIN q : q[i] = t}) = IF t \in ToSet(q) THEN 1 ELSE 0
<1>. DEFINE S == {i \in DOMAIN q : q[i] = t}
<1>1. \A i : i \in S <=> i \in 1 .. Len(q) /\ q[i] = t
  OBVIOUS
<1>. HIDE DEF S
<1>2. CASE t \in ToSet(q)
  <2>1. PICK i \in 1 .. Len(q) : q[i] = t
    BY <1>2, InQueue
  <2>2. S = {i}
    BY <1>1, <2>1 DEF Once
  <2>. QED
    BY <1>2, <2>2, FS_Singleton DEF S
<1>3. CASE t \notin ToSet(q)
  <2>1. S = {}
    BY <1>1, <1>3, InQueue
  <2>. QED
    BY <1>3, <2>1, FS_EmptySet DEF S
<1>. QED
  BY <1>2, <1>3

LEMMA HandSpots ==
  ASSUME Stacks, NEW t \in Tasks
  PROVE  \A x : /\ x \in {y \in FramesAt({"push"}) : FrameAt(y).task = t} <=>
                     x \in Spots(stack, Hands[t]) /\ FrameAt(x).pc = "push"
                /\ x \in {y \in FramesAt({"drop", "forget", "forgetHosts"}) : t \in FrameAt(y).tasks} <=>
                     x \in Spots(stack, Hands[t]) /\ FrameAt(x).pc # "push"
<1>. SUFFICES ASSUME NEW x
              PROVE  /\ x \in FramesAt({"push"}) /\ FrameAt(x).task = t <=>
                          x \in Spots(stack, Hands[t]) /\ FrameAt(x).pc = "push"
                     /\ (x \in FramesAt({"drop", "forget", "forgetHosts"}) /\ t \in FrameAt(x).tasks) <=>
                          x \in Spots(stack, Hands[t]) /\ FrameAt(x).pc # "push"
  OBVIOUS
<1>1. \A ps : x \in FramesAt(ps) <=> x \in Positions /\ FrameAt(x).pc \in ps
  BY DEF FramesAt
<1>2. x \in Spots(stack, Hands[t]) <=>
        \E b \in Actors : \E i \in 1 .. Len(stack[b]) : x = <<b, i>> /\ stack[b][i] \in Hands[t]
  BY SpotsAt
<1>3. \A f \in Frames : f \in Hands[t] <=> t \in HandOf(f)
  BY FamiliesLast
<1>4. x \in Spots(stack, Hands[t]) <=> x \in Positions /\ t \in HandOf(FrameAt(x))
  BY <1>2, <1>3, PositionShape
<1>5. /\ FrameAt(x).pc = "push" => HandOf(FrameAt(x)) = {FrameAt(x).task}
      /\ FrameAt(x).pc \in {"drop", "forget", "forgetHosts"} => HandOf(FrameAt(x)) = FrameAt(x).tasks
      /\ FrameAt(x).pc \notin {"push", "drop", "forget", "forgetHosts"} => HandOf(FrameAt(x)) = {}
  BY DEF HandOf
<1>. QED
  BY <1>1, <1>4, <1>5

LEMMA TasksCount ==
  ASSUME TypeInv, TaskInv
  PROVE  NoLostRunnable
<1>. SUFFICES ASSUME NEW t \in Tasks PROVE Places(t) = IF task[t] = "scheduled" THEN 1 ELSE 0
  BY DEF NoLostRunnable
<1>. DEFINE A == {x \in FramesAt({"push"}) : FrameAt(x).task = t}
            B == {x \in FramesAt({"drop", "forget", "forgetHosts"}) : t \in FrameAt(x).tasks}
            X == Spots(stack, Hands[t])
            b == t \in InHand
<1>1. \A x : /\ x \in A <=> x \in X /\ FrameAt(x).pc = "push"
             /\ x \in B <=> x \in X /\ FrameAt(x).pc # "push"
  BY HandSpots DEF TypeInv
<1>2. Held(b, X) /\ b \in BOOLEAN
  BY DEF TaskInv, HeldBy
<1>3. /\ queue \in Seq(Tasks) /\ Once(queue)
      /\ t \in ToSet(queue) => task[t] = "scheduled" /\ t \notin rejected
      /\ t \in rejected => task[t] = "scheduled"
  BY Queued DEF TaskInv
<1>4. b <=> task[t] = "scheduled" /\ t \notin ToSet(queue) /\ t \notin rejected
  BY DEF InHand
<1>5. Places(t) = (IF t \in ToSet(queue) THEN 1 ELSE 0) + (IF t \in rejected THEN 1 ELSE 0)
                  + Cardinality(A) + Cardinality(B)
  <2>1. Cardinality({i \in DOMAIN queue : queue[i] = t}) = IF t \in ToSet(queue) THEN 1 ELSE 0
    BY <1>3, QueueCounts
  <2>. QED
    BY <2>1 DEF Places
<1>. HIDE DEF A, B, X, b
<1>6. Cardinality({}) = 0 /\ \A x : Cardinality({x}) = 1
  BY FS_EmptySet, FS_Singleton
<1>7. CASE b
  <2>1. PICK x : X = {x}
    BY <1>2, <1>7 DEF Held
  <2>. DEFINE push == FrameAt(x).pc = "push"
  <2>a. /\ \A y : y \in A <=> y = x /\ push
        /\ \A y : y \in B <=> y = x /\ ~ push
    BY <1>1, <2>1
  <2>. HIDE DEF push
  <2>2. (A = {x} /\ B = {}) \/ (A = {} /\ B = {x})
    <3>1. CASE push
      BY <2>a, <3>1
    <3>2. CASE ~ push
      BY <2>a, <3>2
    <3>. QED
      BY <3>1, <3>2
  <2>3. (Cardinality(A) = 1 /\ Cardinality(B) = 0) \/ (Cardinality(A) = 0 /\ Cardinality(B) = 1)
    <3>1. ASSUME NEW S PROVE (S = {x} => Cardinality(S) = 1) /\ (S = {} => Cardinality(S) = 0)
      BY <1>6
    <3>. QED
      BY <2>2, <3>1
  <2>. QED
    BY <1>4, <1>5, <1>7, <2>3
<1>8. CASE ~ b
  <2>1. A = {} /\ B = {}
    BY <1>1, <1>2, <1>8 DEF Held
  <2>2. Cardinality(A) = 0 /\ Cardinality(B) = 0
    BY <1>6, <2>1
  <2>. QED
    BY <1>3, <1>4, <1>5, <1>8, <2>2
<1>. QED
  BY <1>7, <1>8

(* A scheduled runnable is in exactly one place, and nothing else is: the  *)
(* queue, the rejected work, or the hands of one call.  Wakes that race a  *)
(* poll, a cancellation or the stop neither lose it nor poll it twice.     *)
THEOREM RunnablesCorrect == Spec => []NoLostRunnable
<1>. DEFINE Inv == TypeInv /\ ShapeInv /\ TaskInv
<1>1. Init => Inv
  BY InitTypes, InitTasks
<1>2. Inv /\ [Next]_vars => Inv'
  <2>1. ASSUME Inv, Next PROVE Inv'
    BY <2>1, TypeStep, ShapeStep, TaskStep
  <2>2. ASSUME Inv, UNCHANGED vars PROVE Inv'
    BY <2>2, StutterTypes, StutterTasks
  <2>. QED
    BY <2>1, <2>2
<1>3. Inv => NoLostRunnable
  BY TasksCount
<1>. HIDE DEF Inv
<1>. QED
  BY <1>1, <1>2, <1>3, PTL DEF Spec

-----------------------------------------------------------------------------
(* The stop.                                                               *)

AllEnded == \A t \in Tasks : task[t] \in {"fresh", "done"}
StopInv == lifecycle = "stopped" =>
             rejected = {} /\ AllEnded /\ Spots(stack, Kind(BusyPcs)) = {}
Stopped == TypeInv /\ ShapeInv /\ TaskInv /\ StopInv /\ lifecycle = "stopped"

LEMMA StoppedState ==
  ASSUME Stopped
  PROVE  /\ ~ Running /\ stopping /\ rejected = {} /\ queue = <<>> /\ AllEnded /\ Stacks
         /\ Spots(stack, Kind(BusyPcs)) = {}
         /\ \A a \in Actors : stack[a] # <<>> =>
              /\ Top(a) \in Frames /\ Top(a).pc \notin BusyPcs \cup {"push", "poll"}
              /\ Top(a).pc = "drop" => Top(a).tasks = {}
<1>1. /\ ~ Running /\ stopping /\ rejected = {} /\ AllEnded /\ Stacks /\ QueuedOnce
      /\ Spots(stack, Kind(BusyPcs)) = {} /\ stopping \in BOOLEAN
  BY DEF Stopped, Running, ShapeInv, Idle, StopInv, TypeInv, TypeOK, TaskInv
<1>2. queue = <<>>
  <2>1. \A t : t \notin ToSet(queue)
    BY <1>1, Queued DEF Stopped, AllEnded
  <2>2. queue \in Seq(Tasks) /\ (queue # <<>> => Head(queue) \in ToSet(queue))
    BY <1>1, Queued, QueueShrinks DEF Stopped
  <2>. QED
    BY <2>1, <2>2
<1>3. ASSUME NEW a \in Actors, stack[a] # <<>>
      PROVE  /\ Top(a) \in Frames /\ Top(a).pc \notin BusyPcs \cup {"push", "poll"}
             /\ Top(a).pc = "drop" => Top(a).tasks = {}
  <2>1. Top(a) \in Frames /\ Top(a).pc \notin BusyPcs
    BY <1>1, <1>3, TopShape, SpotOfTop, KindOf
  <2>2. HandTop(a) = HandOf(Top(a)) /\ PollTop(a) = PollOf(Top(a))
    BY <1>3 DEF HandTop, PollTop
  <2>3. \A t \in Tasks : t \notin HandOf(Top(a)) /\ t \notin PollOf(Top(a))
    BY <1>1, <2>2, TopHolds DEF Stopped, AllEnded, InHand, Polled
  <2>4. /\ Top(a).pc = "push" => Top(a).task \in Tasks
        /\ Top(a).pc = "poll" => Top(a).task \in Tasks
        /\ Top(a).pc = "drop" => Top(a).tasks \in SUBSET Tasks
    BY <2>1, FrameKinds DEF SchedFrames, PollFrames, DropFrames
  <2>. QED
    BY <2>1, <2>3, <2>4 DEF HandOf, PollOf
<1>. QED
  BY <1>1, <1>2, <1>3

(* Nothing is rejected after the stop, and no task begins.                 *)
LEMMA StoppedTasks ==
  ASSUME Stopped, Next
  PROVE  rejected' = {} /\ AllEnded'
<1>. DEFINE Ends == rejected' = {} /\ AllEnded'
<1>0. /\ TypeInv /\ ~ Running /\ stopping /\ rejected = {} /\ queue = <<>> /\ AllEnded
      /\ \A a \in Actors : stack[a] # <<>> =>
           /\ Top(a).pc \notin BusyPcs \cup {"push", "poll"}
           /\ Top(a).pc = "drop" => Top(a).tasks = {}
  BY StoppedState DEF Stopped
<1>1. ASSUME rejected' = {}, UNCHANGED task PROVE Ends
  BY <1>0, <1>1 DEF AllEnded
<1>2. ASSUME NEW p \in Threads, DriveOne(p) \/ \E t \in Tasks : Submit(p, t) \/ Wake(p, t) PROVE Ends
  BY <1>0, <1>2 DEF DriveOne, TakeRunnable, CanTake, Submit, Wake, AllEnded
<1>3. ASSUME NEW a \in Actors, Push(a) \/ Poll(a) PROVE Ends
  BY <1>0, <1>3, InTop DEF Push, Poll
<1>4. ASSUME NEW a \in Actors, Drop(a) PROVE Ends
  BY <1>0, <1>1, <1>4, InTop DEF Drop, queueVars
<1>5. ASSUME NEW a \in Actors, Retire(a) \/ Complete(a) \/ Purge(a) \/ RequestQueued(a) PROVE Ends
  BY <1>0, <1>1, <1>5 DEF Retire, Complete, RetireRejected, Purge, RequestQueued, taskVars
<1>6. ASSUME NEW a \in Actors, Move(a) PROVE Ends
  <2>1. ToSet(queue) = {}
    BY <1>0, NoQueue
  <2>. QED
    BY <1>0, <1>1, <1>6, <2>1 DEF Move, taskVars
<1>7. ASSUME NEW h \in Hosts, DriveTurn(h) PROVE Ends
  BY <1>0, <1>7, InTop, ActorKinds DEF DriveTurn, BusyPcs, TurnPcs
<1>8. CASE AbortTasks
  BY <1>0, <1>8 DEF AbortTasks, queueVars, AllEnded
<1>9. CASE CloseQueue \/ ForgetDispatches \/ ForgetHosts \/ WaitIdle
  BY <1>0, <1>1, <1>9 DEF CloseQueue, ForgetDispatches, ForgetHosts, WaitIdle, taskVars, queueVars
<1>10. CASE ~ TaskMoves
  <2>1. UNCHANGED <<rejected, task>>
    BY <1>10, Footprints DEF Stopped, Foot, Footprint
  <2>. QED
    BY <1>0, <1>1, <2>1
<1>. QED
  BY <1>2, <1>3, <1>4, <1>5, <1>6, <1>7, <1>8, <1>9, <1>10 DEF TaskMoves, StopStep

LEMMA NotBusy ==
  ASSUME Stopped, NEW a \in Actors, NEW P, Trace(a, P), Spares(P, BusyPcs)
  PROVE  Spots(stack', Kind(BusyPcs)) = {}
<1>1. \A f \in Kind(BusyPcs) : f.pc \notin P
  BY DEF Kind, Spares
<1>2. Spots(stack', Kind(BusyPcs)) \subseteq Spots(stack, Kind(BusyPcs))
  BY <1>1, StoppedState, SteadyKind, Untouched
<1>. QED
  BY <1>2, StoppedState

(* No turn and no publication begins after the stop.                       *)
LEMMA StoppedCalls ==
  ASSUME Stopped, Next
  PROVE  Spots(stack', Kind(BusyPcs)) = {}
<1>. DEFINE Quiet == Spots(stack', Kind(BusyPcs)) = {}
<1>0. /\ TypeInv /\ Stacks /\ ~ Running /\ stopping /\ rejected = {}
      /\ \A a \in Actors : stack[a] # <<>> => Top(a) \in Frames /\ Top(a).pc \notin BusyPcs
      /\ Spots(stack, Kind(BusyPcs)) = {}
  BY StoppedState DEF Stopped
<1>1. ASSUME NEW a \in Actors, stack[a] # <<>>, Return(a) PROVE Quiet
  BY <1>0, <1>1, ReturnTrace, NotBusy DEF Spares
<1>2. ASSUME NEW a \in Actors, stack[a] # <<>>, NEW f \in Frames, f.pc \notin BusyPcs, Goto(a, f) PROVE Quiet
  <2>1. Trace(a, {Top(a).pc, f.pc})
    BY <1>0, <1>2, GotoTrace
  <2>. QED
    BY <1>0, <1>2, <2>1, NotBusy DEF Spares
<1>3. ASSUME NEW a \in Actors, Offered(a) PROVE Quiet
  <2>1. stack[a] # <<>> /\ Top(a).pc = "offer" /\ Top(a) \in SchedFrames
    BY <1>0, <1>3, InTop, FrameKinds DEF Offered
  <2>2. At(a, "return") \in Frames /\ At(a, "return").pc = "return"
    BY <2>1, FrameUnion DEF At, SchedFrames
  <2>3. CASE Return(a)
    BY <1>1, <2>1, <2>3
  <2>4. CASE RequestDrain(a, At(a, "return"))
    <3>1. \/ \E g \in Frames : Same(At(a, "return"), g) /\ Moves(a, <<g>>)
          \/ Moves(a, <<>>)
      BY <1>0, <2>1, <2>2, <2>4, Requested
    <3>2. Trace(a, {"offer", "return"})
      BY <1>0, <2>1, <2>2, <3>1, TraceOne, TraceNone, SameFrame
    <3>. QED
      BY <3>2, NotBusy DEF Spares, BusyPcs, TurnPcs, PublishPcs
  <2>. QED
    BY <1>3, <2>3, <2>4 DEF Offered
<1>4. ASSUME NEW a \in Actors, Publication(a) PROVE Quiet
  <2>1. stack[a] # <<>> /\ Top(a).pc \in PublishPcs
    BY <1>0, <1>4, InTop DEF Publication, Enter, PlanDeliveries, Send, Accept, Reject, Finish,
       Settle, UncancelPublish, PublishPcs
  <2>. QED
    BY <1>0, <2>1 DEF BusyPcs
<1>5. ASSUME NEW a \in Actors, Attempt(a) \/ LastOffer(a) \/ JoinDispatch(a) PROVE Quiet
  <2>1. stack[a] # <<>> /\ Return(a)
    BY <1>0, <1>5, InTop DEF Attempt, LastOffer, JoinDispatch, NeedsRetirementDispatch
  <2>. QED
    BY <1>1, <2>1
<1>6. ASSUME NEW a \in Actors, CancelDispatch(a) PROVE Quiet
  <2>1. stack[a] # <<>> /\ Goto(a, Frame("retire"))
    BY <1>0, <1>6, InTop DEF CancelDispatch
  <2>2. Frame("retire") \in Frames /\ Frame("retire").pc = "retire"
    BY MadeFrames DEF PlainPcs
  <2>. QED
    BY <1>2, <2>1, <2>2 DEF BusyPcs, TurnPcs, PublishPcs
<1>7. ASSUME NEW h \in Hosts, Admit(h) PROVE Quiet
  <2>1. h \in Actors /\ stack[h] # <<>> /\ Top(h) \in AdmitFrames /\ Goto(h, At(h, "fail"))
    BY <1>0, <1>7, InTop, FrameKinds, ActorKinds DEF Admit
  <2>2. At(h, "fail") \in Frames /\ At(h, "fail").pc = "fail"
    BY <2>1, FrameUnion DEF At, AdmitFrames
  <2>. QED
    BY <1>2, <2>1, <2>2 DEF BusyPcs, TurnPcs, PublishPcs
<1>8. ASSUME NEW h \in Hosts, Mark(h) \/ DriveTurn(h) \/ ReleaseDraining(h) \/ Continue(h) PROVE Quiet
  <2>1. h \in Actors /\ stack[h] # <<>> /\ Top(h).pc \in TurnPcs
    BY <1>0, <1>8, InTop, ActorKinds DEF Mark, DriveTurn, ReleaseDraining, Continue, TurnPcs
  <2>. QED
    BY <1>0, <2>1 DEF BusyPcs
<1>9. ASSUME NEW h \in Hosts, Acknowledge(h) PROVE Quiet
  <2>1. stack' = [stack EXCEPT ![h] = <<>>]
    BY <1>0, <1>9 DEF Acknowledge, Completing
  <2>2. h \in Actors /\ DOMAIN stack = Actors /\ Len(<<>>) = 0
    BY <1>0, ActorKinds, EmptySeq DEF Stacks
  <2>3. \A b \in Actors : \A i \in 1 .. Len(stack'[b]) : i \in 1 .. Len(stack[b]) /\ stack'[b][i] = stack[b][i]
    BY <2>1, <2>2
  <2>4. \A x : x \in Spots(stack', Kind(BusyPcs)) => x \in Spots(stack, Kind(BusyPcs))
    BY <2>3, SpotsAt
  <2>. QED
    BY <1>0, <2>4
<1>10. CASE ~ BusyMoves
  <2>0. PICK a \in Actors : \E P : Footprint(a, P)
    BY Footprints DEF Stopped, Foot
  <2>1. PICK P : Footprint(a, P)
    BY <2>0
  <2>2. (Trace(a, P) \/ UNCHANGED stack) /\ Spares(P, BusyPcs)
    BY <1>10, <2>1 DEF Footprint
  <2>. QED
    BY <1>0, <2>2, NotBusy
<1>. QED
  BY <1>3, <1>4, <1>5, <1>6, <1>7, <1>8, <1>9, <1>10 DEF BusyMoves

(* The stop completes when nothing is under way.                           *)
LEMMA StopCompleted ==
  ASSUME TypeInv, lifecycle # "stopped", lifecycle' = "stopped", WaitIdle
  PROVE  rejected' = {} /\ AllEnded' /\ Spots(stack', Kind(BusyPcs)) = {}
<1>1. /\ Stopper \in Actors /\ stack[Stopper] # <<>> /\ Top(Stopper).pc = "wait" /\ Stacks
      /\ Return(Stopper) /\ rejected = {} /\ UNCHANGED <<rejected, task>> /\ AllEnded
      /\ ActiveTurns = {} /\ ActiveCalls = {}
  BY InTop, ActorKinds DEF WaitIdle, taskVars, AllEnded, TypeInv
<1>2. \A a \in Actors : \A i \in DOMAIN stack[a] : stack[a][i].pc \notin BusyPcs
  BY <1>1 DEF ActiveTurns, ActiveCalls, BusyPcs
<1>3. Spots(stack, Kind(BusyPcs)) = {}
  <2>1. \A b \in Actors : \A i \in 1 .. Len(stack[b]) : stack[b][i] \notin Kind(BusyPcs)
    BY <1>1, <1>2, ElementOfSeq DEF Kind, Stacks
  <2>2. \A x : x \notin Spots(stack, Kind(BusyPcs))
    BY <2>1, SpotsAt
  <2>. QED
    BY <2>2
<1>4. Trace(Stopper, {"wait"})
  BY <1>1, ReturnTrace
<1>5. \A f \in Kind(BusyPcs) : f.pc \notin {"wait"}
  BY DEF Kind, BusyPcs, TurnPcs, PublishPcs
<1>6. Spots(stack', Kind(BusyPcs)) \subseteq Spots(stack, Kind(BusyPcs))
  BY <1>1, <1>4, <1>5, SteadyKind, Untouched
<1>. QED
  BY <1>1, <1>3, <1>6 DEF AllEnded

LEMMA StopInvStep ==
  ASSUME TypeInv, ShapeInv, TaskInv, StopInv, Next
  PROVE  StopInv'
<1>1. CASE lifecycle = "stopped"
  BY <1>1, StoppedTasks, StoppedCalls DEF Stopped, StopInv
<1>2. CASE lifecycle # "stopped"
  <2>1. BeginStop \/ WaitIdle \/ UNCHANGED lifecycle
    BY Footprints DEF Foot, Footprint
  <2>2. BeginStop => lifecycle' = "stopping"
    BY DEF BeginStop
  <2>. QED
    BY <1>2, <2>1, <2>2, StopCompleted DEF StopInv
<1>. QED
  BY <1>1, <1>2

LEMMA StoppedIdles ==
  ASSUME TypeInv, ShapeInv, TaskInv, StopInv
  PROVE  StoppedIsIdle
<1>. SUFFICES ASSUME lifecycle = "stopped"
              PROVE  /\ queue = <<>> /\ rejected = {} /\ ActiveTurns = {} /\ ActiveCalls = {}
                     /\ \A t \in Tasks : task[t] \in {"fresh", "done"}
  BY DEF StoppedIsIdle
<1>1. /\ Stacks /\ queue = <<>> /\ rejected = {} /\ AllEnded
      /\ Spots(stack, Kind(BusyPcs)) = {}
  BY StoppedState DEF Stopped
<1>2. \A b \in Actors : \A i \in DOMAIN stack[b] : stack[b][i].pc \notin BusyPcs
  <2>1. \A b \in Actors : \A i \in DOMAIN stack[b] : i \in 1 .. Len(stack[b]) /\ stack[b][i] \in Frames
    BY <1>1, ElementOfSeq DEF Stacks
  <2>2. \A b \in Actors : \A i \in 1 .. Len(stack[b]) : stack[b][i] \notin Kind(BusyPcs)
    BY <1>1, SpotsAt
  <2>. QED
    BY <2>1, <2>2, KindOf
<1>3. ActiveTurns = {} /\ ActiveCalls = {}
  BY <1>2 DEF ActiveTurns, ActiveCalls, BusyPcs
<1>. QED
  BY <1>1, <1>3 DEF AllEnded

(* Nothing outlives the stop, and nothing begins after it: wakes, host     *)
(* turns and publications that raced it were cancelled before it completed.*)
THEOREM StopCorrect == Spec => []StoppedIsIdle
<1>. DEFINE Inv == TypeInv /\ ShapeInv /\ TaskInv /\ StopInv
<1>1. Init => Inv
  <2>1. Init => lifecycle = "running"
    BY DEF Init
  <2>. QED
    BY <2>1, InitTypes, InitTasks DEF StopInv
<1>2. Inv /\ [Next]_vars => Inv'
  <2>1. ASSUME Inv, Next PROVE Inv'
    BY <2>1, TypeStep, ShapeStep, TaskStep, StopInvStep
  <2>2. ASSUME Inv, UNCHANGED vars PROVE Inv'
    <3>1. StopInv'
      BY <2>2 DEF StopInv, AllEnded, vars, queueVars, taskVars, stopVars
    <3>. QED
      BY <2>2, <3>1, StutterTypes, StutterTasks
  <2>. QED
    BY <2>1, <2>2
<1>3. Inv => StoppedIsIdle
  BY StoppedIdles
<1>. HIDE DEF Inv
<1>. QED
  BY <1>1, <1>2, <1>3, PTL DEF Spec
=============================================================================
