---------------------------- MODULE MCAsyncTask ----------------------------
(* AsyncTask with a value borrowed by two callbacks, one AbortSignal shared  *)
(* by the two tasks that one of them returns, and a spawned task.            *)
EXTENDS AsyncTask, TLC

CONSTANTS c1, c2, t1, t2, t3

TwoCalls   == {c1, c2}
ThreeTasks == {t1, t2, t3}

\* c1 returns a Vec or a tuple of two tasks, the other a plain value.
TasksOf == [c \in TwoCalls |-> IF c = c1 THEN <<t1, t2>> ELSE <<>>]
Borrows == [c \in TwoCalls |-> IF c = c2 THEN "shared" ELSE "exclusive"]
SignalsOf == [c \in TwoCalls |-> IF c = c1 THEN <<t1, t2>> ELSE <<>>]
=============================================================================
