--------------------------- MODULE MCL4Semaphore ---------------------------
(* Instances of L4Semaphore for TLC.                                       *)
EXTENDS L4Semaphore

CONSTANTS t1, t2, t3, s1, s2

\* Every semaphore starts with one unit.
OneEach == [s \in Sems |-> 1]

\* Every semaphore is declared with L4SEMAPHORE_LOCKED_INITIALIZER.
Locked == [s \in Sems |-> 0]

\* All threads have one priority; or t1, which may be a timed waiter, a low one
\* and the others a high one.
OnePrio == [t \in Threads |-> {1}]
LowHigh == [t \in Threads |-> IF t = t1 THEN {1} ELSE {2}]
=============================================================================
