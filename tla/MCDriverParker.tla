--------------------------- MODULE MCDriverParker ---------------------------
(* DriverParker with named wakers.                                          *)
EXTENDS DriverParker

CONSTANTS u1, u2, u3
ThreeWakers == {u1, u2, u3}
=============================================================================
