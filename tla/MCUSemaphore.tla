---------------------------- MODULE MCUSemaphore ----------------------------
(* Instances of USemaphore for TLC.                                        *)
EXTENDS USemaphore

CONSTANTS t1, t2, t3

\* t3 has the highest priority, t1 and t2 share one.
TwoLevels == [t \in Threads |-> IF t = t3 THEN 2 ELSE 1]
=============================================================================
