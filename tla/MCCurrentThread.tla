--------------------------- MODULE MCCurrentThread ---------------------------
EXTENDS CurrentThread
CONSTANTS t1, t2, h1, h2, p1, p2
MCNobody == [t \in Tasks |-> {}]
MCFirstAwaitsSecond == [t \in Tasks |-> IF t = t2 THEN {t1} ELSE {}]
MCDispatches == 1 .. 6
=============================================================================
