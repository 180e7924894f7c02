------------------------- MODULE CountingSemaphore -------------------------
(***************************************************************************)
(* What a set of counting semaphores promises to the threads of a task,    *)
(* as the interface comments of l4/pkg/semaphore/include/semaphore.h put   *)
(* it: l4semaphore_up makes one more unit available, l4semaphore_down and  *)
(* l4semaphore_try_down take one, l4semaphore_down waits for one when      *)
(* there is none.  How threads are put to sleep and woken is no concern    *)
(* of this module: L4Semaphore implements it, L4Lock is built upon it.     *)
(***************************************************************************)
EXTENDS Integers

CONSTANTS
    Threads,   \* the threads of the task
    Sems,      \* the semaphores
    InitCount, \* the initial value of each semaphore
    None       \* "waits for no semaphore"

VARIABLES
    value,  \* value[s]: units of s that are available
    want    \* want[t]: the semaphore t sleeps on, or None

vars == <<value, want>>

TypeOK ==
    /\ value \in [Sems -> Nat]
    /\ want \in [Threads -> Sems \cup {None}]

Init ==
    /\ value = InitCount
    /\ want = [t \in Threads |-> None]

\* l4semaphore_up: one more unit.
Up(s) ==
    /\ value' = [value EXCEPT ![s] = @ + 1]
    /\ UNCHANGED want

\* l4semaphore_down or l4semaphore_try_down that finds a unit.
Take(t, s) ==
    /\ want[t] = None
    /\ value[s] > 0
    /\ value' = [value EXCEPT ![s] = @ - 1]
    /\ UNCHANGED want

\* l4semaphore_down that has to wait.
Ask(t, s) ==
    /\ want[t] = None
    /\ want' = [want EXCEPT ![t] = s]
    /\ UNCHANGED value

\* A waiting thread is given a unit.
Acquire(t, s) ==
    /\ want[t] = s
    /\ value[s] > 0
    /\ value' = [value EXCEPT ![s] = @ - 1]
    /\ want' = [want EXCEPT ![t] = None]

Next ==
    \E s \in Sems :
        \/ Up(s)
        \/ \E t \in Threads : Take(t, s) \/ Ask(t, s) \/ Acquire(t, s)

\* A unit that stays available while somebody waits is handed over.
Fairness ==
    \A s \in Sems : WF_vars(\E t \in Threads : Acquire(t, s))

SafeSpec == Init /\ [][Next]_vars

Spec == SafeSpec /\ Fairness
=============================================================================
