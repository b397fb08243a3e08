----------------------------- MODULE WakePermit -----------------------------
(***************************************************************************)
(* What a DriverParker promises its driver: one saturating wake permit.    *)
(* A wake delivered while the driver runs is kept for its next park, wakes *)
(* that arrive before the permit is taken coalesce into it, and the driver *)
(* is told that it timed out only while no permit is there.                *)
(***************************************************************************)
EXTENDS Naturals

VARIABLES
  permit,  \* 1 when a wake has been delivered and not been taken
  driver,  \* "out" of every park, or in a "park" or a "timed" park
  answer   \* what the last park or consume_permit told: a permit was taken

vars == <<permit, driver, answer>>

Init == permit = 0 /\ driver = "out" /\ answer = FALSE

Grant == permit' = 1 /\ UNCHANGED <<driver, answer>>
Enter(how) == driver = "out" /\ driver' = how /\ UNCHANGED <<permit, answer>>
Take ==
  /\ driver # "out" /\ permit = 1
  /\ permit' = 0 /\ driver' = "out" /\ answer' = TRUE
GiveUp ==
  /\ driver = "timed" /\ permit = 0
  /\ driver' = "out" /\ answer' = FALSE /\ UNCHANGED permit
Consume ==
  /\ driver = "out"
  /\ permit' = 0 /\ answer' = (permit = 1) /\ UNCHANGED driver

Next ==
  \/ Grant \/ Take \/ GiveUp \/ Consume
  \/ \E how \in {"park", "timed"} : Enter(how)

Spec == Init /\ [][Next]_vars
\* A stored permit is taken by a driver that parks, a bounded park ends anyway.
FairSpec == Spec /\ WF_vars(Take) /\ WF_vars(GiveUp)

=============================================================================
