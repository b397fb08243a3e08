-------------------------- MODULE GenerationBarrier --------------------------
(***************************************************************************)
(* What the RuntimeController promises about generations, without locks,   *)
(* mirrors, handoffs or call stacks: submissions are admitted to the one   *)
(* generation that is open or closing; a stop is announced, and published  *)
(* only once nothing admitted is alive; a new generation opens only then.  *)
(***************************************************************************)
EXTENDS Naturals

CONSTANTS Works

VARIABLES
  phase,  \* "none", "open" or "closing"
  gen,    \* the generations opened so far
  live    \* the generation each live submission was admitted to, 0 for none

vars == <<phase, gen, live>>

Quiescent == \A w \in Works : live[w] = 0

Init ==
  /\ phase = "none"
  /\ gen = 0
  /\ live = [w \in Works |-> 0]

\* A generation opens, possibly for the very submission that called for it.
Open ==
  /\ phase = "none" /\ Quiescent
  /\ phase' = "open"
  /\ gen' = gen + 1
  /\ \/ live' = live
     \/ \E w \in Works : live' = [live EXCEPT ![w] = gen']

Admit ==
  /\ phase # "none"
  /\ \E w \in Works : live[w] = 0 /\ live' = [live EXCEPT ![w] = gen]
  /\ UNCHANGED <<phase, gen>>

Retire ==
  /\ \E w \in Works : live[w] # 0 /\ live' = [live EXCEPT ![w] = 0]
  /\ UNCHANGED <<phase, gen>>

Announce == phase = "open" /\ phase' = "closing" /\ UNCHANGED <<gen, live>>
Publish  == phase = "closing" /\ Quiescent /\ phase' = "none" /\ UNCHANGED <<gen, live>>

Next == Open \/ Admit \/ Retire \/ Announce \/ Publish

Spec == Init /\ [][Next]_vars

=============================================================================
