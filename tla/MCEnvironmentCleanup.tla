------------------------ MODULE MCEnvironmentCleanup ------------------------
(* Instances of EnvironmentCleanup for TLC. *)
EXTENDS EnvironmentCleanup, TLC

CONSTANTS e1, e2, p1, p2

TwoEnvs == {e1, e2}
BothTargets == {"native", "wasm"}

TwoPromises == {p1, p2}
FirstNeedsTurn == {p1}
=============================================================================
