----------------------------- MODULE SwitchLock -----------------------------
(***************************************************************************)
(* The locks of the Fiasco kernel that lend the CPU to their owner:        *)
(* Switch_lock, Thread_lock and the parts of Context and Thread they rest  *)
(* on (switch_exec_locked, schedule, kill, destroy).  One CPU.             *)
(*                                                                         *)
(* A context that wants a lock that is taken switches to the owner and     *)
(* becomes its helper; the owner switches back when it clears the lock.    *)
(* A thread lock belongs to a context and makes its owner the donatee of   *)
(* that context: whoever would run the locked context runs the donatee.    *)
(*                                                                         *)
(* What a context does with interrupts off (the CPU lock) is not           *)
(* preempted: waiting for a lock ("help") and clearing one ("switch",      *)
(* "tail").  irq_chance() in lock_dirty() is two nops with interrupts off  *)
(* and lets nothing in.                                                    *)
(***************************************************************************)
EXTENDS Integers, FiniteSets

CONSTANTS
    Contexts,
    Plain,      \* locks that always exist: Helping_lock and the like
    Idle,       \* the idle context, always ready, takes no lock
    None,
    Prio,       \* Prio[c]: priority of a context
    Kills       \* <<c, k, t>>: c may kill t, whose task has the chief k

(* A thread lock has the name of its context.                              *)
Locks == Plain \cup Contexts

ASSUME FiniteAssumption == IsFiniteSet(Contexts) /\ IsFiniteSet(Plain)
ASSUME LockAssumption ==
    /\ Idle \in Contexts
    /\ None \notin Locks
    /\ Plain \cap Contexts = {}
    /\ Prio \in [Contexts -> Nat]
    /\ \A c \in Contexts : c # Idle => Prio[c] > Prio[Idle]
    /\ Kills \subseteq Contexts \X Contexts \X Contexts
    /\ \A k \in Kills : k[3] \notin {k[1], k[2]} /\ Idle \notin {k[1], k[2], k[3]}

VARIABLES
    current,    \* the context that runs
    owner,      \* owner[l]: _lock_owner
    lock_cnt,   \* locks a context owns; it is not deleted before it is 0
    donatee, helper,
    state,      \* "ready", "blocked"; "dead" once killed, "invalid" once deleted
    mapped,     \* is_tcb_mapped(): the context's thread lock exists
    pc, arg     \* where a context is in the kernel, and with which lock

vars == <<current, owner, lock_cnt, donatee, helper, state, mapped, pc, arg>>

Init ==
    /\ current = Idle
    /\ owner = [l \in Locks |-> None]
    /\ lock_cnt = [c \in Contexts |-> 0]
    /\ donatee = [c \in Contexts |-> None]
    /\ helper = [c \in Contexts |-> c]
    /\ state = [c \in Contexts |-> "ready"]
    /\ mapped = [c \in Contexts |-> TRUE]
    /\ pc = [c \in Contexts |-> "run"]
    /\ arg = [c \in Contexts |-> None]

Goto(c, where, l) ==
    /\ pc' = [pc EXCEPT ![c] = where]
    /\ arg' = [arg EXCEPT ![c] = l]

Held(c) == {l \in Locks : owner[l] = c}

valid(l) == l \in Plain \/ mapped[l]

(* The context exists and was not killed.                                  *)
Live(c) == state[c] \in {"ready", "blocked"}

-----------------------------------------------------------------------------
(* Context::switch_exec_locked.                                            *)

(* What is read in the TCB of a context: zeros once it is unmapped.        *)
donateeOf(t) == IF mapped[t] THEN donatee[t] ELSE None

(* Where the loop of switch_exec_locked ends: at a context that nobody      *)
(* locks, or itself or the current context.                                *)
Stop(x) == donateeOf(x) \in {None, x, current}

(* The contexts the loop visits, from t on: the smallest set that has t and *)
(* the donatee of each of its contexts at which the loop does not end.      *)
Chain(t) ==
    {x \in Contexts : \A S \in SUBSET Contexts :
        (t \in S /\ \A y \in S : Stop(y) \/ donateeOf(y) \in S) => x \in S}

(* Mutation: a context locked by the current one is never switched to.      *)
SwitchesNotMine(x) ==
    /\ donateeOf(x) = current => x = current
    /\ state[x] = "ready"

(* The switch goes to x, unless x is locked by the current context and      *)
(* owns no locks itself, or is not ready.                                  *)
Switches(x) ==
    /\ donateeOf(x) = current /\ x # current => lock_cnt[x] > 0
    /\ state[x] = "ready"

(* Contexts that lock each other in a circle keep the loop going for good,  *)
(* with interrupts off: then no step is possible any more.                 *)
switch_exec_locked(t, mode) ==
    \E x \in Chain(t) :
      /\ Stop(x)
      /\ IF Switches(x)
           THEN /\ current' = x
                /\ helper' = [helper EXCEPT ![x] =
                                CASE mode = "Helping" -> current
                                  [] mode = "Not_Helping" -> x
                                  [] mode = "Ignore_Helping" -> @]
           ELSE UNCHANGED <<current, helper>>

(* Context::schedule: the ready list gives a ready context of the highest   *)
(* priority; switch_to_locked does not switch from a context to itself.     *)
Highest == {c \in Contexts : /\ state[c] = "ready"
                             /\ \A d \in Contexts : state[d] = "ready" => Prio[d] <= Prio[c]}

schedule ==
    \E t \in Highest : IF t = current THEN UNCHANGED <<current, helper>>
                       ELSE switch_exec_locked(t, "Not_Helping")

(* A timer or device interrupt, when interrupts are on.                    *)
Preempt ==
    /\ pc[current] \in {"run", "kill"}
    /\ schedule
    /\ UNCHANGED <<owner, lock_cnt, donatee, state, mapped, pc, arg>>

(* The current context waits for something other than a lock.  In general   *)
(* it owns no lock then.  But handle_lldt reads user memory with the thread *)
(* lock of t, and if the read faults the context sleeps in the IPC to its   *)
(* pager with the lock of t, unless its own thread lock is taken (a panic). *)
(* Which way a context came to its one thread lock is not kept.             *)
Block ==
    /\ current # Idle
    /\ pc[current] = "run"
    /\ \/ Held(current) = {}
       \/ owner[current] = None /\ \E t \in Contexts : Held(current) = {t}
    /\ state' = [state EXCEPT ![current] = "blocked"]
    /\ Goto(current, "wait", None)
    /\ UNCHANGED <<current, owner, lock_cnt, donatee, helper, mapped>>

Wait ==
    /\ pc[current] = "wait"
    /\ IF state[current] = "ready"
         THEN Goto(current, "run", None) /\ UNCHANGED <<current, helper>>
         ELSE schedule /\ UNCHANGED <<pc, arg>>
    /\ UNCHANGED <<owner, lock_cnt, donatee, state, mapped>>

(* Interrupts, timeouts and IPC partners make a context ready; the thread   *)
(* lock does not protect its state.  schedule() turns interrupts on while   *)
(* it looks for a ready context; helping and passing on a donatee do not.   *)
Wake(t) ==
    /\ pc[current] \notin {"help", "tail", "lockee"}
    /\ state[t] = "blocked"
    /\ state' = [state EXCEPT ![t] = "ready"]
    /\ UNCHANGED <<current, owner, lock_cnt, donatee, helper, mapped, pc, arg>>

-----------------------------------------------------------------------------
(* Switch_lock::lock_dirty and Thread_lock::test_and_set_dirty.            *)

(* Mutation: the lock is not counted.                                      *)
TakeUncounted(l) ==
    /\ owner' = [owner EXCEPT ![l] = current]
    /\ donatee' = IF l \in Contexts THEN [donatee EXCEPT ![l] = current]
                                    ELSE donatee
    /\ Goto(current, "run", None)
    /\ UNCHANGED <<current, helper, lock_cnt>>

(* The lock is free: take it.                                              *)
Take(l) ==
    /\ owner' = [owner EXCEPT ![l] = current]
    /\ lock_cnt' = [lock_cnt EXCEPT ![current] = @ + 1]
    /\ donatee' = IF l \in Contexts THEN [donatee EXCEPT ![l] = current]
                                    ELSE donatee
    /\ Goto(current, "run", None)
    /\ UNCHANGED <<current, helper>>

(* The loop of lock_dirty: take the lock, help its owner, or find that it   *)
(* has gone.                                                               *)
TakeOrHelp(l) ==
    /\ IF ~valid(l)
         THEN Goto(current, "run", None)
              /\ UNCHANGED <<current, helper, owner, lock_cnt, donatee>>
         ELSE IF owner[l] = None
         THEN Take(l)
         ELSE /\ switch_exec_locked(owner[l], "Helping")
              /\ Goto(current, "help", l)
              /\ UNCHANGED <<owner, lock_cnt, donatee>>
    /\ UNCHANGED <<state, mapped>>

(* Any locks may nest: thread locks in the lock of the TCB area             *)
(* (maybe_create), the thread lock of a thread in that of thread 0 of its   *)
(* task (ex_regs), those of a task in that of its chief (kill_task), and    *)
(* plain locks in all of them and in each other.                           *)
Lock(l) ==
    /\ current # Idle /\ l # Idle
    /\ pc[current] = "run"
    /\ owner[l] # current
    /\ TakeOrHelp(l)

Help == pc[current] = "help" /\ TakeOrHelp(arg[current])

-----------------------------------------------------------------------------
(* Switch_lock::clear and Thread_lock::clear.                              *)

(* clear_no_switch_dirty and the first half of switch_dirty: give the CPU   *)
(* back to the helper.                                                     *)
clear_and_switch(l, next) ==
    /\ owner' = [owner EXCEPT ![l] = None]
    /\ lock_cnt' = [lock_cnt EXCEPT ![current] = @ - 1]
    /\ IF helper[current] # current
         THEN switch_exec_locked(helper[current], "Ignore_Helping")
         ELSE UNCHANGED <<current, helper>>
    /\ Goto(current, "switch", next)

(* A killer does not clear the lock of its victim: Destroy does.            *)
Clear(l) ==
    /\ pc[current] = "run"
    /\ owner[l] = current
    /\ l \in Contexts => state[l] # "dead"
    /\ clear_and_switch(l, IF l \in Contexts THEN l ELSE None)
    /\ UNCHANGED <<donatee, state, mapped>>

(* The second half of switch_dirty: if somebody tries to delete us, let the *)
(* scheduler pick the next context.                                        *)
Switch ==
    /\ pc[current] = "switch"
    /\ IF lock_cnt[current] = 0 /\ donatee[current] # None
         THEN schedule ELSE UNCHANGED <<current, helper>>
    /\ Goto(current, IF arg[current] = None THEN "run" ELSE "tail", arg[current])
    /\ UNCHANGED <<owner, lock_cnt, donatee, state, mapped>>

(* Mutation: clear does not pass the donatee on.                           *)
TailKeepDonatee ==
    /\ pc[current] = "tail"
    /\ Goto(current, "lockee", arg[current])
    /\ UNCHANGED <<current, owner, lock_cnt, donatee, helper, state, mapped>>

(* The rest of Thread_lock::clear: pass the donatee on and perhaps switch   *)
(* to the context that was locked (the switch hint, or its priority).       *)
Tail ==
    /\ pc[current] = "tail"
    /\ LET t == arg[current] IN
         donatee' = IF mapped[t] THEN [donatee EXCEPT ![t] = owner[t]] ELSE donatee
    /\ Goto(current, "lockee", arg[current])
    /\ UNCHANGED <<current, owner, lock_cnt, helper, state, mapped>>

Lockee ==
    /\ pc[current] = "lockee"
    /\ LET t == arg[current] IN
         \/ /\ t # current
            /\ state[t] = "ready"
            /\ switch_exec_locked(t, "Not_Helping")
         \/ UNCHANGED <<current, helper>>
    /\ Goto(current, "run", None)
    /\ UNCHANGED <<owner, lock_cnt, donatee, state, mapped>>

-----------------------------------------------------------------------------
(* Thread::kill, called with the thread lock of the victim, and             *)
(* Thread::destroy.                                                        *)

Kill(t) ==
    /\ pc[current] = "run"
    /\ \E k \in Held(current) : <<current, k, t>> \in Kills
    /\ Held(current) \cap Plain = {}
    /\ owner[t] = current
    /\ Live(t)
    /\ Goto(current, "kill", t)
    /\ UNCHANGED <<current, owner, lock_cnt, donatee, helper, state, mapped>>

(* Mutation: the victim is stopped after it was let run once.              *)
KillLoopOnce ==
    /\ pc[current] = "kill"
    /\ LET t == arg[current] IN
         IF lock_cnt[t] > 0 /\ helper[t] # current
           THEN /\ switch_exec_locked(t, "Helping")
                /\ UNCHANGED <<state, pc, arg>>
           ELSE /\ state' = [state EXCEPT ![t] = "dead"]
                /\ Goto(current, "run", None)
                /\ UNCHANGED <<current, helper>>
    /\ UNCHANGED <<owner, lock_cnt, donatee, mapped>>

(* Let the victim run until it owns no lock any more, then stop it.  The    *)
(* rest of kill takes and clears plain locks (fpage_unmap, delete _task).   *)
KillLoop ==
    /\ pc[current] = "kill"
    /\ LET t == arg[current] IN
         IF lock_cnt[t] > 0
           THEN /\ switch_exec_locked(t, "Helping")
                /\ UNCHANGED <<state, pc, arg>>
           ELSE /\ state' = [state EXCEPT ![t] = "dead"]
                /\ Goto(current, "run", None)
                /\ UNCHANGED <<current, helper>>
    /\ UNCHANGED <<owner, lock_cnt, donatee, mapped>>

(* ~Thread and destroy: clear the victim's thread lock and unmap its TCB,   *)
(* unless another thread on the same page still exists; Switch_lock::clear, *)
(* so that the victim's donatee stays as it is.                            *)
Destroy(t) ==
    /\ pc[current] = "run"
    /\ owner[t] = current
    /\ state[t] = "dead"
    /\ clear_and_switch(t, None)
    /\ state' = [state EXCEPT ![t] = "invalid"]
    /\ \E still \in BOOLEAN : mapped' = [mapped EXCEPT ![t] = still]
    /\ UNCHANGED donatee

-----------------------------------------------------------------------------
Next ==
    \/ Preempt \/ Block \/ Wait \/ Help \/ Switch \/ Tail \/ Lockee
    \/ KillLoop
    \/ \E t \in Contexts : Wake(t) \/ Kill(t) \/ Destroy(t)
    \/ \E l \in Locks : Lock(l) \/ Clear(l)

Spec == Init /\ [][Next]_vars

-----------------------------------------------------------------------------
(* Properties.                                                             *)

(* Every variable of the contexts and locks has its type.                  *)
TypeOK ==
    /\ current \in Contexts
    /\ owner \in [Locks -> Contexts \cup {None}]
    /\ lock_cnt \in [Contexts -> Nat]
    /\ donatee \in [Contexts -> Contexts \cup {None}]
    /\ helper \in [Contexts -> Contexts]
    /\ state \in [Contexts -> {"ready", "blocked", "dead", "invalid"}]
    /\ mapped \in [Contexts -> BOOLEAN]
    /\ pc \in [Contexts -> {"run", "wait", "help", "switch", "tail", "lockee", "kill"}]
    /\ arg \in [Contexts -> Locks \cup {None}]

(* lock_cnt is the number of locks a context owns, whatever helps, kills,   *)
(* sleeps and preemptions happen, and no lock is lost with its owner: none  *)
(* is killed with one (Thread::kill waits for lock_cnt 0).                  *)
LocksCounted ==
    \A c \in Contexts : /\ lock_cnt[c] = Cardinality(Held(c))
                        /\ Held(c) # {} => Live(c)

(* c is in Thread_lock::clear for t, between releasing the lock and (STAR)  *)
(* in its comment, or was killed there.                                    *)
InClear(c, t) == pc[c] \in {"switch", "tail"} /\ arg[c] = t

(* What the comment in Thread_lock::clear is after: the donatee of a live   *)
(* context is the owner of its thread lock.  The only exception is that     *)
(* nobody owns the lock and the donatee is inside clear.                    *)
DonateeIsOwner ==
    \A t \in Contexts :
       (Live(t) /\ donatee[t] # owner[t])
          => owner[t] = None /\ InClear(donatee[t], t)

(* What switch_exec_locked(t) can come to: the CPU passes to a context; the *)
(* contexts on the way lock each other in a circle, so that the loop never  *)
(* ends; the loop ends at a context that sleeps with a lock; or it passes a *)
(* donatee that Thread_lock::clear has yet to take back.                    *)
Reaches(t) == \E x \in Chain(t) : Stop(x) /\ Switches(x)
Circle(t) == \A x \in Chain(t) : owner[x] \in Chain(t) \ {x}
Sleeper(t) == \E x \in Chain(t) : Stop(x) /\ state[x] = "blocked" /\ Held(x) # {}
Unsettled(t) ==
    \E x \in Chain(t) : owner[x] = None /\ donatee[x] # None /\ InClear(donatee[x], x)

(* Helping is never in vain: a context that waits for a lock in lock_dirty  *)
(* (with interrupts off) passes the CPU to another one, and one that kills  *)
(* passes it to a victim that owns locks.  The only exceptions: contexts    *)
(* that lock each other in a circle, a lock owner that sleeps (handle_lldt) *)
(* and a donatee that Thread_lock::clear has not yet passed on.             *)
HelpReaches ==
    /\ pc[current] = "help" /\ valid(arg[current]) /\ owner[arg[current]] # None
          => LET t == owner[arg[current]]
             IN  Reaches(t) \/ Circle(t) \/ Sleeper(t) \/ Unsettled(t)
    /\ pc[current] = "kill" /\ lock_cnt[arg[current]] > 0
          => Reaches(arg[current]) \/ state[arg[current]] = "blocked"
=============================================================================
