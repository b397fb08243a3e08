------------------------- MODULE MCRuntimeLifecycle -------------------------
(***************************************************************************)
(* Instances of RuntimeLifecycle for TLC.                                  *)
(***************************************************************************)
EXTENDS RuntimeLifecycle

CONSTANTS t1, t2, w1, w2

TwoThreads   == {t1, t2}
OneWork      == {w1}
TwoWorks     == {w1, w2}
JustT1       == {t1}
T1T2W        == {t1, t2, w1}
Everybody    == Actors
Nobody       == {}

EveryKind    == {"task", "blocking", "block_on"}
=============================================================================
