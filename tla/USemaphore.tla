----------------------------- MODULE USemaphore -----------------------------
(***************************************************************************)
(* The Fiasco user-level semaphore: l4_usem_down_to and l4_usem_up in      *)
(* l4/pkg/l4sys, and U_semaphore in the kernel.  The counter and the flag  *)
(* "threads are queued" are in user memory.  down and up change the        *)
(* counter with one instruction and enter the kernel only if they have to; *)
(* a thread may be preempted between any two of its user instructions.     *)
(* The system calls Sem_sleep and Sem_wakeup run under the CPU lock, up to *)
(* the call of schedule() in block_locked, and are one step each.  The     *)
(* thread that unmaps the last capability deletes the kernel object: it    *)
(* runs with interrupts on and may be preempted between any two lines of   *)
(* ~U_semaphore.  One semaphore is modelled, from l4_usem_new on.          *)
(***************************************************************************)
EXTENDS Integers, FiniteSets, SequencesExt

CONSTANTS
    Threads,     \* the threads that use the semaphore
    Cancellable, \* those of them whose system calls l4_thread_ex_regs cancels
    Timeouts,    \* the timeouts they use: "never", "finite", "zero"
    Prio,        \* the scheduling priority of each thread
    Count,       \* the count argument of l4_usem_new
    MaxCount,    \* bound: no up is called when this many units are available
    MaxDebt      \* bound: no down is called at the counter -MaxDebt

ASSUME ThreadsAssumption == IsFiniteSet(Threads) /\ Cancellable \subseteq Threads
ASSUME TimeoutsAssumption == Timeouts \subseteq {"never", "finite", "zero"}
ASSUME PrioAssumption == Prio \in [Threads -> Nat]
ASSUME CountAssumption == Count \in Nat /\ MaxCount \in Nat /\ MaxDebt \in Nat

VARIABLES
    counter, \* l4_u_semaphore_t.counter
    queued,  \* bit 0 of l4_u_semaphore_t.flags
    valid,   \* U_semaphore::_valid
    queue,   \* U_semaphore::_queue
    timer,   \* threads whose IPC_timeout is in the timeout queue
    hit,     \* threads in block_locked whose IPC_timeout has hit
    pc,      \* pc[t]: where t is in down or up
    to,      \* to[t]: the timeout of t's down
    dpc,     \* where the thread that deletes the kernel object is
    dw,      \* the thread w of its loop, in a set
    tokens   \* history: Count + ups - downs that returned L4_USEM_OK

userVars == <<counter, queued>>
kernVars == <<valid, queue, timer, hit>>
delVars == <<dpc, dw>>
vars == <<counter, queued, valid, queue, timer, hit, pc, to, dpc, dw, tokens>>

(***************************************************************************)
(* pc[t]                                                                   *)
(*   idle   outside down and up                                            *)
(*   sleep  down: the counter went below zero, Sem_sleep not yet called    *)
(*   asleep down: in block_locked, not ready                               *)
(*   ready  down: in block_locked, ready again, not yet back from schedule *)
(*   retry  down: Sem_sleep returned Retry                                 *)
(*   test   up: counter incremented, flag not yet tested                   *)
(*   wakeup up: flag was set, Sem_wakeup not yet called                    *)
(***************************************************************************)
Pcs == {"idle", "sleep", "asleep", "ready", "retry", "test", "wakeup"}

\* In block_locked: the IPC_timeout on the kernel stack exists.
InBlock(t) == pc[t] \in {"asleep", "ready"}

(***************************************************************************)
(* dpc                                                                     *)
(*   mapped      the capability is in the object space                     *)
(*   invalidate  it was unmapped, ~U_semaphore not yet entered             *)
(*   head        about to look at the head of the queue                    *)
(*   dequeue, ready, reset                                                 *)
(*               in the loop, about to dequeue w, to make it ready, and to *)
(*               reset its timeout                                         *)
(*   free        about to call schedule() and to free the object           *)
(*   freed       the memory belongs to the allocator, or another semaphore *)
(***************************************************************************)
DeletePcs == {"mapped", "invalidate", "head", "dequeue", "ready", "reset",
              "free", "freed"}

Mapped == dpc = "mapped"

\* Every variable keeps to its type; a thread whose timeout hit can run.
TypeOK ==
    /\ counter \in Int
    /\ queued \in BOOLEAN
    /\ valid \in BOOLEAN
    /\ queue \in Seq(Threads)
    /\ timer \subseteq Threads
    /\ hit \subseteq {t \in Threads : pc[t] = "ready"}
    /\ pc \in [Threads -> Pcs]
    /\ to \in [Threads -> {"never", "finite", "zero"}]
    /\ dpc \in DeletePcs
    /\ dw \subseteq Threads
    /\ tokens \in Int

Init ==
    /\ counter = Count
    /\ queued = FALSE
    /\ valid = TRUE
    /\ queue = << >>
    /\ timer = {}
    /\ hit = {}
    /\ pc = [t \in Threads |-> "idle"]
    /\ to = [t \in Threads |-> "never"]
    /\ dpc = "mapped"
    /\ dw = {}
    /\ tokens = Count

Goto(t, p) == pc' = [pc EXCEPT ![t] = p] /\ UNCHANGED to
Return(t) == pc' = [pc EXCEPT ![t] = "idle"] /\ to' = [to EXCEPT ![t] = "never"]

-----------------------------------------------------------------------------
(* User mode.                                                              *)

\* decl; jge: the loop head of l4_usem_down_to.
Decrement(t, timeout) ==
    /\ counter' = counter - 1
    /\ IF counter - 1 >= 0
       THEN Return(t) /\ tokens' = tokens - 1
       ELSE /\ pc' = [pc EXCEPT ![t] = "sleep"]
            /\ to' = [to EXCEPT ![t] = timeout]
            /\ UNCHANGED tokens
    /\ UNCHANGED <<queued, kernVars, delVars>>

Down(t, timeout) ==
    /\ pc[t] = "idle"
    /\ counter > -MaxDebt
    /\ Decrement(t, timeout)

RetryDown(t) == pc[t] = "retry" /\ Decrement(t, to[t])

\* incl
Up(t) ==
    /\ pc[t] = "idle"
    /\ tokens < MaxCount
    /\ counter' = counter + 1
    /\ tokens' = tokens + 1
    /\ Goto(t, "test")
    /\ UNCHANGED <<queued, kernVars, delVars>>

\* testb $1; jz
TestQueued(t) ==
    /\ pc[t] = "test"
    /\ Goto(t, IF queued THEN "wakeup" ELSE "idle")
    /\ UNCHANGED <<userVars, kernVars, delVars, tokens>>

-----------------------------------------------------------------------------
(* The kernel.                                                             *)

InQueue(t) == t \in Range(queue)

\* add_counter(sem, 1) > 0.  The result of add_counter is a bool.
CounterPositive == counter + 1 # 0

\* Prio_list::insert: behind the threads of the same or a higher priority.
Enqueue(t) ==
    LET n == Cardinality({i \in DOMAIN queue : Prio[queue[i]] >= Prio[t]})
    IN  queue' = InsertAt(queue, n + 1, t)

\* Mutation of SleepFails: the caller sleeps on a semaphore that is gone.
SleepUnchecked(t) ==
    /\ pc[t] = "sleep"
    /\ ~Mapped
    /\ Goto(t, "asleep")
    /\ UNCHANGED <<userVars, kernVars, delVars, tokens>>

\* Sem_sleep returns at once: the capability is gone, or a unit was found.
SleepFails(t) ==
    /\ pc[t] = "sleep"
    /\ ~Mapped
    /\ Return(t)
    /\ UNCHANGED <<userVars, kernVars, delVars, tokens>>

\* Mutation of SleepOk: the counter is not put back.
SleepOkUncounted(t) ==
    /\ pc[t] = "sleep"
    /\ Mapped
    /\ CounterPositive
    /\ counter' = counter + 1
    /\ queued' = (queue # << >>)
    /\ tokens' = tokens - 1
    /\ Return(t)
    /\ UNCHANGED <<kernVars, delVars>>

SleepOk(t) ==
    /\ pc[t] = "sleep"
    /\ Mapped
    /\ CounterPositive
    /\ queued' = (queue # << >>)
    /\ tokens' = tokens - 1
    /\ Return(t)
    /\ UNCHANGED <<counter, kernVars, delVars>>

\* Mutation of SleepBlocks: the flag is not set.
SleepBlocksUnseen(t) ==
    /\ pc[t] = "sleep"
    /\ Mapped
    /\ ~CounterPositive
    /\ counter' = counter + 1
    /\ Enqueue(t)
    /\ timer' = IF to[t] = "finite" THEN timer \cup {t} ELSE timer
    /\ IF to[t] = "zero" THEN Return(t) ELSE Goto(t, "asleep")
    /\ UNCHANGED <<queued, valid, hit, delVars, tokens>>

\* Sem_sleep enqueues its caller.  With a timeout of zero it returns Timeout
\* without taking the caller off the queue.
SleepBlocks(t) ==
    /\ pc[t] = "sleep"
    /\ Mapped
    /\ ~CounterPositive
    /\ counter' = counter + 1
    /\ queued' = TRUE
    /\ Enqueue(t)
    /\ timer' = IF to[t] = "finite" THEN timer \cup {t} ELSE timer
    /\ IF to[t] = "zero" THEN Return(t) ELSE Goto(t, "asleep")
    /\ UNCHANGED <<valid, hit, delVars, tokens>>

\* Mutation of TimeoutHit: the thread is not made ready.
TimeoutHitUnready(t) ==
    /\ t \in timer
    /\ timer' = timer \ {t}
    /\ hit' = hit \cup {t}
    /\ UNCHANGED <<userVars, valid, queue, pc, to, delVars, tokens>>

\* t's IPC_timeout expires.  When t has left block_locked with its timeout set
\* the object is a piece of t's stack by now: it leaves the timeout queue, and
\* what it does to the stack is beyond the model.
TimeoutHit(t) ==
    /\ t \in timer
    /\ timer' = timer \ {t}
    /\ hit' = IF InBlock(t) THEN hit \cup {t} ELSE hit
    /\ pc' = [pc EXCEPT ![t] = IF @ = "asleep" THEN "ready" ELSE @]
    /\ UNCHANGED <<userVars, valid, queue, to, delVars, tokens>>

\* l4_thread_ex_regs makes t ready and leaves the queue alone.
Cancel(t) ==
    /\ pc[t] = "asleep"
    /\ Goto(t, "ready")
    /\ UNCHANGED <<userVars, kernVars, delVars, tokens>>

\* block_locked after schedule(): Timeout.
ResumeTimeout(t) ==
    /\ pc[t] = "ready"
    /\ valid /\ InQueue(t) /\ t \in hit
    /\ queue' = RemoveFirst(queue, t)
    /\ hit' = hit \ {t}
    /\ Return(t)
    /\ UNCHANGED <<userVars, valid, timer, delVars, tokens>>

\* block_locked after schedule(): Retry.  Once the object is freed the memory of
\* _valid may belong to another semaphore and read as true.
ResumeRetry(t) ==
    /\ pc[t] = "ready"
    /\ valid \/ dpc = "freed"
    /\ ~(InQueue(t) /\ t \in hit)
    /\ hit' = hit \ {t}
    /\ Goto(t, "retry")
    /\ UNCHANGED <<userVars, valid, queue, timer, delVars, tokens>>

\* block_locked after schedule(): Invalid.  Neither the queue nor the timeout is
\* looked at.
ResumeInvalid(t) ==
    /\ pc[t] = "ready"
    /\ ~valid
    /\ hit' = hit \ {t}
    /\ Return(t)
    /\ UNCHANGED <<userVars, valid, queue, timer, delVars, tokens>>

\* Mutation of Wakeup: the flag is cleared although threads are queued.
WakeupClearsFlag(t) ==
    /\ pc[t] = "wakeup"
    /\ \/ /\ Mapped /\ queue # << >>
          /\ LET w == Head(queue) IN
             /\ queue' = Tail(queue)
             /\ timer' = timer \ {w}
             /\ pc' = [pc EXCEPT ![t] = "idle",
                                 ![w] = IF @ = "asleep" THEN "ready" ELSE @]
          /\ queued' = FALSE
          /\ UNCHANGED to
       \/ /\ ~(Mapped /\ queue # << >>)
          /\ Goto(t, "idle")
          /\ UNCHANGED <<queued, queue, timer>>
    /\ UNCHANGED <<counter, valid, hit, delVars, tokens>>

\* Mutation of Wakeup: the timeout of the woken thread stays set.
WakeupKeepsTimer(t) ==
    /\ pc[t] = "wakeup"
    /\ \/ /\ Mapped /\ queue # << >>
          /\ LET w == Head(queue) IN
             /\ queue' = Tail(queue)
             /\ pc' = [pc EXCEPT ![t] = "idle",
                                 ![w] = IF @ = "asleep" THEN "ready" ELSE @]
          /\ queued' = (Tail(queue) # << >>)
          /\ UNCHANGED to
       \/ /\ ~(Mapped /\ queue # << >>)
          /\ queued' = FALSE
          /\ Goto(t, "idle")
          /\ UNCHANGED queue
    /\ UNCHANGED <<counter, valid, timer, hit, delVars, tokens>>

\* Mutation of Wakeup: nobody is woken.
WakeupNobody(t) ==
    /\ pc[t] = "wakeup"
    /\ Goto(t, "idle")
    /\ UNCHANGED <<userVars, kernVars, delVars, tokens>>

\* Sem_wakeup.  The caller returns; a thread that already became ready by
\* itself is taken off the queue all the same.
Wakeup(t) ==
    /\ pc[t] = "wakeup"
    /\ \/ /\ Mapped /\ queue # << >>
          /\ LET w == Head(queue) IN
             /\ queue' = Tail(queue)
             /\ timer' = timer \ {w}
             /\ pc' = [pc EXCEPT ![t] = "idle",
                                 ![w] = IF @ = "asleep" THEN "ready" ELSE @]
          /\ queued' = (Tail(queue) # << >>)
          /\ UNCHANGED to
       \/ /\ Mapped /\ queue = << >>
          /\ queued' = FALSE
          /\ Goto(t, "idle")
          /\ UNCHANGED <<queue, timer>>
       \/ /\ ~Mapped
          /\ Goto(t, "idle")
          /\ UNCHANGED <<queued, queue, timer>>
    /\ UNCHANGED <<counter, valid, hit, delVars, tokens>>

-----------------------------------------------------------------------------
(* l4_fpage_unmap of the last capability, and ~U_semaphore.                *)

\* v_delete: from now on nobody finds the semaphore any more.
Unmap ==
    /\ dpc = "mapped"
    /\ dpc' = "invalidate"
    /\ UNCHANGED <<userVars, kernVars, pc, to, dw, tokens>>

\* _valid = false
Invalidate ==
    /\ dpc = "invalidate"
    /\ valid' = FALSE
    /\ dpc' = "head"
    /\ UNCHANGED <<userVars, queue, timer, hit, pc, to, dw, tokens>>

\* while (h = _queue.head())
DeleteHead ==
    /\ dpc = "head"
    /\ \/ queue = << >> /\ dpc' = "free" /\ UNCHANGED dw
       \/ queue # << >> /\ dpc' = "dequeue" /\ dw' = {Head(queue)}
    /\ UNCHANGED <<userVars, kernVars, pc, to, tokens>>

\* w->sender_dequeue
DeleteDequeue ==
    /\ dpc = "dequeue"
    /\ \E w \in dw : queue' = RemoveFirst(queue, w)
    /\ dpc' = "ready"
    /\ UNCHANGED <<userVars, valid, timer, hit, pc, to, dw, tokens>>

\* Mutation of DeleteReady: w is not made ready.
DeleteUnready ==
    /\ dpc = "ready"
    /\ dpc' = "reset"
    /\ UNCHANGED <<userVars, kernVars, pc, to, dw, tokens>>

\* w->state_add, w->ready_enqueue: w may run from now on.
DeleteReady ==
    /\ dpc = "ready"
    /\ \E w \in dw : pc' = [pc EXCEPT ![w] = IF @ = "asleep" THEN "ready" ELSE @]
    /\ dpc' = "reset"
    /\ UNCHANGED <<userVars, kernVars, to, dw, tokens>>

\* w->reset_timeout: the pointer to the timeout is gone once w has left
\* block_locked, the timeout is not.
DeleteReset ==
    /\ dpc = "reset"
    /\ timer' = timer \ {w \in dw : InBlock(w)}
    /\ dpc' = "head"
    /\ dw' = {}
    /\ UNCHANGED <<userVars, valid, queue, hit, pc, to, tokens>>

\* schedule(), and the object is freed.
DeleteFree ==
    /\ dpc = "free"
    /\ dpc' = "freed"
    /\ UNCHANGED <<userVars, kernVars, pc, to, dw, tokens>>

Delete ==
    \/ Invalidate \/ DeleteHead \/ DeleteDequeue \/ DeleteReady \/ DeleteReset
    \/ DeleteFree

Next ==
    \/ \E t \in Threads :
          \/ \E timeout \in Timeouts : Down(t, timeout)
          \/ RetryDown(t) \/ Up(t) \/ TestQueued(t)
          \/ SleepFails(t) \/ SleepOk(t) \/ SleepBlocks(t)
          \/ TimeoutHit(t)
          \/ ResumeTimeout(t) \/ ResumeRetry(t) \/ ResumeInvalid(t) \/ Wakeup(t)
    \/ Unmap \/ Delete

\* With l4_thread_ex_regs.  A thread that Cancel left in the queue may enter
\* it again: Prio_list::insert then breaks the list, so that nothing after
\* the first such state is meant to be explored.
NextCancel == Next \/ \E t \in Cancellable : Cancel(t)

\* A thread that is ready inside down or up.
Proceed(t) ==
    \/ RetryDown(t) \/ TestQueued(t) \/ Wakeup(t)
    \/ SleepFails(t) \/ SleepOk(t) \/ SleepBlocks(t)
    \/ ResumeTimeout(t) \/ ResumeRetry(t) \/ ResumeInvalid(t)

\* The scheduler runs every ready thread.  No timeout has to hit, nobody has
\* to be cancelled and no operation has to be called.
Fairness == WF_vars(Delete) /\ \A t \in Threads : WF_vars(Proceed(t))

SafeSpec == Init /\ [][Next]_vars

CancelSpec == Init /\ [][NextCancel]_vars

Spec == SafeSpec /\ Fairness

-----------------------------------------------------------------------------
(* Properties.                                                             *)

\* Threads in down whose decrement of the counter is still to be undone.
Transient == {t \in Threads : pc[t] = "sleep"}

\* The Promela model below U_semaphore asserts in_critical <= MAX: never more
\* downs succeed than the initial count and the ups allow.
NoOvergrant == Mapped => tokens >= 0

\* The counter is the number of units minus the decrements still to be undone,
\* whichever way a down ended: kernel and user instructions, retries and
\* timeouts together neither lose nor invent a unit in the counter.
CounterExact == Mapped => counter = tokens - Cardinality(Transient)

\* up decides by the flag whether to call the kernel, so the flag must be set
\* as long as somebody is in the queue.
FlagCoversQueue == queue # << >> => queued

\* Threads that will look for a unit or wake somebody who does: an up that
\* has yet to test the flag or to call Sem_wakeup, and a woken thread that has
\* yet to retry.
OnTheWay ==
    {t \in Threads : \/ pc[t] \in {"test", "wakeup", "retry"}
                     \/ pc[t] = "ready" /\ ~InQueue(t)}

\* While threads sleep in the queue there are no more units in the counter than
\* threads on the way to find them: no wakeup is lost between the increment and
\* the test of the flag, the wakeup and the retry, and none is used up by a
\* timeout.
NoLostWakeup ==
    Mapped /\ queue # << >> => counter <= Cardinality(OnTheWay)

\* The comment in block_locked after schedule(): "Two cases: 1. c is not in
\* the queue, then the wakeup already occured 2. c is in the sender list an the
\* timeout has hit".  A thread that went on with Retry is not in the queue.
RetryNotQueued ==
    \A t \in Threads : pc[t] = "retry" => ~InQueue(t)

\* Nobody is in the queue twice.  Up to ~U_semaphore whoever is in the queue is
\* in block_locked, and a timer that is set belongs to such a thread: the kernel
\* stack it is on is in use.  (Afterwards a thread that wakes up returns Invalid
\* and leaves both behind.)
QueuedSleep ==
    /\ \A i, j \in DOMAIN queue : queue[i] = queue[j] => i = j
    /\ valid => /\ \A i \in DOMAIN queue : InBlock(queue[i])
                /\ timer \subseteq Range(queue)

\* Nobody sleeps where nobody will find him: a sleeping thread is in the queue
\* and ~U_semaphore has not yet found the queue empty, or it is the thread
\* ~U_semaphore has just dequeued and will make ready.  No thread is left behind
\* by a wakeup, a timeout or the deletion of the semaphore.
AsleepIsQueued ==
    \A t \in Threads : pc[t] = "asleep" =>
        \/ InQueue(t) /\ dpc \notin {"free", "freed"}
        \/ dpc = "ready" /\ t \in dw

\* Sleeping threads and an available unit do not stay together, unless there
\* is at every moment some thread between its decrement and its Sem_sleep: its
\* transient decrement hides the unit from those that enter the kernel.
UnitsFound ==
    []<>(Transient = {}) =>
        ((Mapped /\ queue # << >> /\ tokens > 0)
            ~> (~Mapped \/ queue = << >> \/ tokens <= 0))

\* up never keeps its caller for good, and a thread whose semaphore was unmapped
\* returns, wherever ~U_semaphore is overtaken by a timeout or by the threads it
\* wakes.
CallsReturn ==
    \A t \in Threads :
        (pc[t] \in {"test", "wakeup"} \/ ~Mapped) ~> (pc[t] = "idle")
=============================================================================
