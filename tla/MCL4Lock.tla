------------------------------ MODULE MCL4Lock ------------------------------
(* Instances of L4Lock for TLC.                                            *)
EXTENDS L4Lock

CONSTANTS t1, t2, t3, l1, l2

\* l1 is declared with L4LOCK_UNLOCKED, l2 with L4LOCK_LOCKED(t1).
OneFreeOneOwned == [l \in Locks |-> IF l = l1 THEN None ELSE t1]
=============================================================================
