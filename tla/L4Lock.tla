------------------------------- MODULE L4Lock -------------------------------
(***************************************************************************)
(* The L4Env lock, l4/pkg/lock: a lock that its owner may enter again,     *)
(* made of a semaphore, an owner and a reference counter.  The owner is    *)
(* read without any synchronisation by threads that do not hold the lock,  *)
(* and owner, ref_count and semaphore are changed one after the other, so  *)
(* every assignment that follows or precedes a semaphore operation is a    *)
(* step of its own.  The semaphore is the one L4Semaphore is shown to      *)
(* implement.                                                              *)
(***************************************************************************)
EXTENDS Integers

CONSTANTS
    Threads,   \* the threads of the task
    Locks,     \* the locks
    InitOwner, \* t for L4LOCK_LOCKED(t), None for L4LOCK_UNLOCKED, per lock
    MaxDepth,  \* bound: a lock is not entered more often than this
    None       \* L4THREAD_INVALID_ID

ASSUME OwnerAssumption == InitOwner \in [Locks -> Threads \cup {None}]
ASSUME DepthAssumption == MaxDepth \in Nat \ {0}
ASSUME NoneAssumption == None \notin Threads \cup Locks

VARIABLES
    owner,      \* owner[l]: l4lock_t.owner
    ref_count,  \* ref_count[l]: l4lock_t.ref_count
    value,      \* value[l]: units available of l4lock_t.sem
    want,       \* want[t]: the lock whose semaphore t sleeps on, or None
    pc,         \* pc[t]: where t is in an operation of the library
    lock,       \* lock[t]: the argument of that operation
    depth       \* history: depth[t][l], calls of lock minus calls of unlock

vars == <<owner, ref_count, value, want, pc, lock, depth>>

\* L4SEMAPHORE_LOCKED_INITIALIZER or L4SEMAPHORE_UNLOCKED_INITIALIZER.
InitValue == [l \in Locks |-> IF InitOwner[l] = None THEN 1 ELSE 0]

Sem == INSTANCE CountingSemaphore WITH Sems <- Locks, InitCount <- InitValue

(***************************************************************************)
(* pc[t]                                                                   *)
(*   idle       outside the library                                        *)
(*   down       asleep in l4semaphore_down                                 *)
(*   setowner   got the semaphore, about to assign owner                   *)
(*   setref     about to assign ref_count                                  *)
(*   clearowner unlock: ref_count is zero, about to reset owner            *)
(*   up         unlock: about to call l4semaphore_up                       *)
(***************************************************************************)
Pcs == {"idle", "down", "setowner", "setref", "clearowner", "up"}

\* Every variable keeps to its type, and a thread inside the library works on
\* a lock, the one it sleeps on while it sleeps.
TypeOK ==
    /\ owner \in [Locks -> Threads \cup {None}]
    /\ ref_count \in [Locks -> Int]
    /\ Sem!TypeOK
    /\ pc \in [Threads -> Pcs]
    /\ lock \in [Threads -> Locks \cup {None}]
    /\ depth \in [Threads -> [Locks -> Nat]]
    /\ \A t \in Threads :
          /\ pc[t] # "idle" => lock[t] \in Locks
          /\ want[t] = IF pc[t] = "down" THEN lock[t] ELSE None

Init ==
    /\ owner = InitOwner
    /\ ref_count = [l \in Locks |-> IF InitOwner[l] = None THEN 0 ELSE 1]
    /\ Sem!Init
    /\ pc = [t \in Threads |-> "idle"]
    /\ lock = [t \in Threads |-> None]
    /\ depth = [t \in Threads |-> [l \in Locks |-> IF InitOwner[l] = t THEN 1 ELSE 0]]

Goto(t, p) == pc' = [pc EXCEPT ![t] = p] /\ UNCHANGED lock
Enter(t, l, p) == pc' = [pc EXCEPT ![t] = p] /\ lock' = [lock EXCEPT ![t] = l]

\* Mutation of Reenter: the new reference is not counted.
ReenterUncounted(t, l) ==
    /\ owner[l] = t
    /\ ref_count[l] < MaxDepth
    /\ depth[t][l] < MaxDepth
    /\ depth' = [depth EXCEPT ![t][l] = @ + 1]
    /\ UNCHANGED <<owner, ref_count, value, want, pc, lock>>

\* lock or try_lock by the owner.
Reenter(t, l) ==
    /\ owner[l] = t
    /\ ref_count[l] < MaxDepth
    /\ ref_count' = [ref_count EXCEPT ![l] = @ + 1]
    /\ depth' = [depth EXCEPT ![t][l] = @ + 1]
    /\ UNCHANGED <<owner, value, want, pc, lock>>

\* lock or try_lock finds the semaphore free.
TakeSem(t, l) ==
    /\ owner[l] # t
    /\ Sem!Take(t, l)
    /\ Enter(t, l, "setowner")
    /\ UNCHANGED <<owner, ref_count, depth>>

Lock(t, l) ==
    /\ pc[t] = "idle"
    /\ \/ Reenter(t, l)
       \/ TakeSem(t, l)
       \/ /\ owner[l] # t
          /\ Sem!Ask(t, l)
          /\ Enter(t, l, "down")
          /\ UNCHANGED <<owner, ref_count, depth>>

\* l4semaphore_down returns.
Woken(t) ==
    /\ pc[t] = "down"
    /\ Sem!Acquire(t, lock[t])
    /\ Goto(t, "setowner")
    /\ UNCHANGED <<owner, ref_count, depth>>

\* A try_lock that fails changes nothing.
TryLock(t, l) ==
    /\ pc[t] = "idle"
    /\ Reenter(t, l) \/ TakeSem(t, l)

SetOwner(t) ==
    /\ pc[t] = "setowner"
    /\ owner' = [owner EXCEPT ![lock[t]] = t]
    /\ Goto(t, "setref")
    /\ UNCHANGED <<ref_count, value, want, depth>>

\* The last assignment of lock and try_lock, which then return.
SetRefCount(t) ==
    /\ pc[t] = "setref"
    /\ ref_count' = [ref_count EXCEPT ![lock[t]] = 1]
    /\ depth' = [depth EXCEPT ![t][lock[t]] = 1]
    /\ Goto(t, "idle")
    /\ UNCHANGED <<owner, value, want>>

\* Mutation of Unlock: the caller need not be the owner.
UnlockUnchecked(t, l) ==
    /\ pc[t] = "idle"
    /\ ref_count' = [ref_count EXCEPT ![l] = @ - 1]
    /\ depth' = [depth EXCEPT ![t][l] = @ - 1]
    /\ IF ref_count[l] - 1 <= 0
       THEN Enter(t, l, "clearowner")
       ELSE UNCHANGED <<pc, lock>>
    /\ UNCHANGED <<owner, value, want>>

\* Mutation of Unlock: the test of the reference counter is off by one.
UnlockOffByOne(t, l) ==
    /\ pc[t] = "idle"
    /\ owner[l] = t
    /\ ref_count' = [ref_count EXCEPT ![l] = @ - 1]
    /\ depth' = [depth EXCEPT ![t][l] = @ - 1]
    /\ IF ref_count[l] - 1 < 0
       THEN Enter(t, l, "clearowner")
       ELSE UNCHANGED <<pc, lock>>
    /\ UNCHANGED <<owner, value, want>>

\* An unlock by somebody who is not the owner changes nothing.
Unlock(t, l) ==
    /\ pc[t] = "idle"
    /\ owner[l] = t
    /\ ref_count' = [ref_count EXCEPT ![l] = @ - 1]
    /\ depth' = [depth EXCEPT ![t][l] = @ - 1]
    /\ IF ref_count[l] - 1 <= 0
       THEN Enter(t, l, "clearowner")
       ELSE UNCHANGED <<pc, lock>>
    /\ UNCHANGED <<owner, value, want>>

\* Mutation of ClearOwner: owner is not reset before the semaphore is freed.
ClearOwnerForgotten(t) ==
    /\ pc[t] = "clearowner"
    /\ Goto(t, "up")
    /\ UNCHANGED <<owner, ref_count, value, want, depth>>

ClearOwner(t) ==
    /\ pc[t] = "clearowner"
    /\ owner' = [owner EXCEPT ![lock[t]] = None]
    /\ Goto(t, "up")
    /\ UNCHANGED <<ref_count, value, want, depth>>

\* Mutation of UpSem: the semaphore is not freed.
UpSemForgotten(t) ==
    /\ pc[t] = "up"
    /\ Goto(t, "idle")
    /\ UNCHANGED <<owner, ref_count, value, want, depth>>

UpSem(t) ==
    /\ pc[t] = "up"
    /\ Sem!Up(lock[t])
    /\ Goto(t, "idle")
    /\ UNCHANGED <<owner, ref_count, depth>>

Next ==
    \E t \in Threads :
        \/ \E l \in Locks : Lock(t, l) \/ TryLock(t, l) \/ Unlock(t, l)
        \/ Woken(t) \/ SetOwner(t) \/ SetRefCount(t) \/ ClearOwner(t) \/ UpSem(t)

\* Threads inside the library run, and the semaphore hands over a unit that
\* stays available (CountingSemaphore).  Nobody has to lock or to unlock.
Fairness ==
    /\ \A l \in Locks : WF_vars(\E t \in Threads : lock[t] = l /\ Woken(t))
    /\ \A t \in Threads :
          /\ WF_vars(SetOwner(t)) /\ WF_vars(SetRefCount(t))
          /\ WF_vars(ClearOwner(t)) /\ WF_vars(UpSem(t))

SafeSpec == Init /\ [][Next]_vars

Spec == SafeSpec /\ Fairness

-----------------------------------------------------------------------------
(* Properties.                                                             *)

\* Mutual exclusion as the callers see it: between the return of lock and the
\* matching unlock no other thread is between its own lock and unlock.
MutualExclusion ==
    \A l \in Locks : \A t1, t2 \in Threads :
        depth[t1][l] > 0 /\ depth[t2][l] > 0 => t1 = t2

\* A thread outside the library that reads owner without holding the
\* semaphore gets the answer that matters to it: it sees itself exactly when
\* it holds the lock, with as many references as it has calls to undo.
OwnerReadCorrect ==
    \A l \in Locks : \A t \in Threads :
        pc[t] = "idle" =>
            /\ owner[l] = t <=> depth[t][l] > 0
            /\ owner[l] = t => ref_count[l] = depth[t][l]

\* t has taken the unit of l's semaphore and not given it back.
HasUnit(t, l) ==
    \/ depth[t][l] > 0
    \/ lock[t] = l /\ pc[t] \in {"setowner", "setref", "clearowner", "up"}

\* The semaphore of a lock stays binary: its one unit is either available or
\* with exactly one thread, through every intermediate step.
OneUnit ==
    \A l \in Locks :
        \/ value[l] = 1 /\ \A t \in Threads : ~HasUnit(t, l)
        \/ /\ value[l] = 0
           /\ \E t \in Threads : \A u \in Threads : HasUnit(u, l) <=> u = t

\* A lock that somebody waits for does not stay without an owner.
WaitedForIsTaken ==
    \A l \in Locks :
        (\E t \in Threads : want[t] = l) ~> (\E t \in Threads : depth[t][l] > 0)
=============================================================================
