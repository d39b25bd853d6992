---------------------------- MODULE MCScheduler ----------------------------
(* Small instances of Scheduler for TLC. *)
EXTENDS Scheduler

CONSTANTS w1, w2, main, f1, f2, f3

Twice == [f \in Fibers |-> 2]
Once == [f \in Fibers |-> 1]
Never == [f \in Fibers |-> 0]

Unpinned == [f \in Fibers |-> AnyThread]

\* f2 may only run on the first worker.
PinF2 == [f \in Fibers |-> IF f = f2 THEN w1 ELSE AnyThread]

OnlyF1Once == [f \in Fibers |-> IF f = f1 THEN 1 ELSE 0]

F1Twice == [f \in Fibers |-> IF f = f1 THEN 2 ELSE 1]
=============================================================================
