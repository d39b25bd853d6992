------------------------------ MODULE MCTimer ------------------------------
(* Small instances of Timer for TLC. *)
EXTENDS Timer, TLC

CONSTANTS t1, t2, a, b

\* Timers and threads are interchangeable (used by the runs without liveness).
Symmetric == Permutations({t1, t2}) \cup Permutations({a, b})
=============================================================================
