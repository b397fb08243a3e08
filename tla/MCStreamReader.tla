--------------------------- MODULE MCStreamReader ---------------------------
(* Instances of StreamReader for TLC. *)
EXTENDS StreamReader, TLC

CONSTANTS c1, c2
TwoCancels == {c1, c2}
=============================================================================
