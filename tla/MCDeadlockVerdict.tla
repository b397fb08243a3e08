------------------------ MODULE MCDeadlockVerdict ------------------------
(* Instances of DeadlockVerdict for TLC. *)
EXTENDS DeadlockVerdict, TLC

(* MaxOps bounds every counter: the runs have no further constraint. *)
AllOps == {"schedule", "claim", "arm", "fire", "cancel", "stop", "reset", "wake"}
=============================================================================
