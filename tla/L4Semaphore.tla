---------------------------- MODULE L4Semaphore ----------------------------
(***************************************************************************)
(* The L4Env semaphore library, l4/pkg/semaphore.                          *)
(*                                                                         *)
(* A semaphore is a counter that threads change with one atomic            *)
(* instruction, plus a wait queue and a count of stored wakeups that only  *)
(* the semaphore thread of the task touches.  A thread that finds no unit  *)
(* calls the semaphore thread (BLOCK, or BLOCKTIMED with a receive         *)
(* timeout) and sleeps in the receive phase of that IPC call; a thread     *)
(* whose up leaves the counter at or below zero calls it with RELEASE; a   *)
(* timed waiter that gave up sends RELEASETIMED.  IPC is synchronous: a    *)
(* message is delivered when one side waits in the send phase and the      *)
(* other is ready to receive, and a call enters its receive phase in the   *)
(* same step.  A blocked IPC of a thread may be cancelled at any moment    *)
(* (l4_thread_ex_regs); the library is built with L4SEMAPHORE_RESTART_IPC  *)
(* and restarts the cancelled phase, except in l4semaphore_down_timed.     *)
(***************************************************************************)
EXTENDS Integers, FiniteSets, SequencesExt

CONSTANTS
    Threads,      \* the threads of the task that use semaphores
    TimedThreads, \* those of them that call l4semaphore_down_timed
    Sems,         \* the semaphores
    InitCount,    \* the argument of L4SEMAPHORE_INITIALIZER, per semaphore
    MaxWqEntries, \* L4SEMAPHORE_MAX_WQ_ENTRIES
    Prios,        \* Prios[t]: the priorities thread t may have
    MaxCount,     \* bound: ups stop when counter or pending has this value
    None          \* L4_INVALID_ID, the null pointer

\* The commands of the messages to the semaphore thread.
Ops == {"BLOCK", "BLOCKTIMED", "RELEASE", "RELEASETIMED"}

ASSUME ThreadsAssumption ==
    IsFiniteSet(Threads) /\ TimedThreads \subseteq Threads
ASSUME CountAssumption == InitCount \in [Sems -> Nat]
ASSUME WqAssumption == MaxWqEntries \in Nat \ {0}
ASSUME PrioAssumption == Prios \in [Threads -> SUBSET Nat]
ASSUME MaxAssumption == MaxCount \in Nat
ASSUME NoneAssumption ==
    None \notin Threads \cup Sems \cup Nat \cup Ops

VARIABLES
    counter,    \* counter[s]: l4semaphore_t.counter
    pending,    \* pending[s]: l4semaphore_t.pending, wakeups stored
    queue,      \* queue[s]: l4semaphore_t.queue, the list as wq_entries indices
    wqThread,   \* wq_entries[i].thread, None when the entry is free
    wqPrio,     \* wq_entries[i].prio
    next_entry, \* where __alloc_entry starts to search
    data,       \* data[t]: thread data of t under datakey, an entry or None
    pc,         \* pc[t]: where thread t is in an operation of the library
    op,         \* op[t]: dw0 of t's message, None outside the library
    sem,        \* sem[t]: dw1 of t's message, None outside the library
    stPc,       \* where the semaphore thread is in its loop
    stSrc,      \* the thread it serves or wakes
    stSem,      \* the semaphore of the request
    tokens      \* history: initial count + ups - downs granted, per semaphore

semVars == <<counter, pending, tokens>>
wqVars == <<queue, wqThread, wqPrio, next_entry, data>>
thrVars == <<pc, op, sem>>
stVars == <<stPc, stSrc, stSem>>
vars == <<counter, pending, queue, wqThread, wqPrio, next_entry, data,
          pc, op, sem, stPc, stSrc, stSem, tokens>>

Slots == 0 .. (MaxWqEntries - 1)

(***************************************************************************)
(* pc[t]                                                                   *)
(*   idle         outside the library                                      *)
(*   call         send phase of l4_ipc_call to the semaphore thread        *)
(*   recv         receive phase of that call, or l4_ipc_receive            *)
(*   rerecv       receive phase was cancelled, about to receive again      *)
(*   timedout     down_timed: receive phase failed, counter not restored   *)
(*   sendcanceled down_timed: send phase failed, counter not restored      *)
(*   release      down_timed: l4_ipc_send of RELEASETIMED                  *)
(* stPc                                                                    *)
(*   wait, BLOCK, BLOCKTIMED, RELEASETIMED: l4_ipc_wait and the cases of   *)
(*   the switch; reply, release, scan: the reply to the caller of RELEASE, *)
(*   the test for an empty queue and the loop over the queue; wakeup:      *)
(*   __wakeup_thread(.., WAKEUP_WAIT); panic: Panic() in __alloc_entry.    *)
(***************************************************************************)
ThreadPcs == {"idle", "call", "recv", "rerecv", "timedout", "sendcanceled",
              "release"}
StPcs == {"wait", "BLOCK", "BLOCKTIMED", "RELEASETIMED", "reply", "release",
          "scan", "wakeup", "panic"}

\* Which message a thread can have under way at each place of the library.
PcTypeOK(t) ==
    /\ pc[t] = "idle" => op[t] = None
    /\ pc[t] # "idle" => sem[t] \in Sems
    /\ pc[t] \in {"call", "recv"} => op[t] \in {"BLOCK", "BLOCKTIMED", "RELEASE"}
    /\ pc[t] = "rerecv" => op[t] \in {"BLOCK", "RELEASE"}
    /\ pc[t] \in {"timedout", "sendcanceled"} => op[t] = "BLOCKTIMED"
    /\ pc[t] = "release" => op[t] = "RELEASETIMED"

\* Every variable keeps to the values its declaration in the C code allows.
TypeOK ==
    /\ counter \in [Sems -> Int]
    /\ pending \in [Sems -> Nat]
    /\ queue \in [Sems -> Seq(Slots)]
    /\ wqThread \in [Slots -> Threads \cup {None}]
    /\ wqPrio \in [Slots -> Nat]
    /\ next_entry \in Slots
    /\ data \in [Threads -> Slots \cup {None}]
    /\ pc \in [Threads -> ThreadPcs]
    /\ op \in [Threads -> Ops \cup {None}]
    /\ sem \in [Threads -> Sems \cup {None}]
    /\ stPc \in StPcs
    /\ stSrc \in Threads \cup {None}
    /\ stSem \in Sems \cup {None}
    /\ tokens \in [Sems -> Int]
    /\ \A t \in Threads : PcTypeOK(t)
    /\ stPc # "wait" => stSrc \in Threads /\ stSem \in Sems

\* The task after l4semaphore_init, with initialised semaphores.
Init ==
    /\ counter = InitCount
    /\ pending = [s \in Sems |-> 0]
    /\ queue = [s \in Sems |-> << >>]
    /\ wqThread = [i \in Slots |-> None]
    /\ wqPrio = [i \in Slots |-> 0]
    /\ next_entry = 0
    /\ data = [t \in Threads |-> None]
    /\ pc = [t \in Threads |-> "idle"]
    /\ op = [t \in Threads |-> None]
    /\ sem = [t \in Threads |-> None]
    /\ stPc = "wait" /\ stSrc = None /\ stSem = None
    /\ tokens = InitCount

-----------------------------------------------------------------------------
(* Operations of the threads.                                              *)

\* Enter the send phase of a call to the semaphore thread.
CallSemThread(t, o, s) ==
    /\ pc' = [pc EXCEPT ![t] = "call"]
    /\ op' = [op EXCEPT ![t] = o]
    /\ sem' = [sem EXCEPT ![t] = s]

\* Return to the caller.
Return(t) ==
    /\ pc' = [pc EXCEPT ![t] = "idle"]
    /\ op' = [op EXCEPT ![t] = None]
    /\ sem' = [sem EXCEPT ![t] = None]

\* The unit of s that an operation was granted leaves the account.
Grant(s) == tokens' = [tokens EXCEPT ![s] = @ - 1]

\* The decrement shared by l4semaphore_down and l4semaphore_down_timed.
Decrement(t, s, o) ==
    /\ pc[t] = "idle"
    /\ counter' = [counter EXCEPT ![s] = @ - 1]
    /\ IF counter[s] - 1 < 0
       THEN CallSemThread(t, o, s) /\ UNCHANGED tokens
       ELSE Grant(s) /\ UNCHANGED thrVars
    /\ UNCHANGED <<pending, wqVars, stVars>>

Down(t, s) == Decrement(t, s, "BLOCK")

\* timeout > 0; a timeout of 0 is l4semaphore_try_down.
DownTimed(t, s) == t \in TimedThreads /\ Decrement(t, s, "BLOCKTIMED")

\* Mutation of TryDown: the test for a unit is off by one.
TryDownOffByOne(t, s) ==
    /\ pc[t] = "idle"
    /\ counter[s] >= 0
    /\ counter' = [counter EXCEPT ![s] = @ - 1]
    /\ Grant(s)
    /\ UNCHANGED <<pending, wqVars, thrVars, stVars>>

\* A try_down that fails changes nothing.
TryDown(t, s) ==
    /\ pc[t] = "idle"
    /\ counter[s] > 0
    /\ counter' = [counter EXCEPT ![s] = @ - 1]
    /\ Grant(s)
    /\ UNCHANGED <<pending, wqVars, thrVars, stVars>>

\* Mutation of Up: the last of several waiters is not released.
UpMissesLast(t, s) ==
    /\ pc[t] = "idle"
    /\ counter[s] < MaxCount /\ pending[s] < MaxCount
    /\ counter' = [counter EXCEPT ![s] = @ + 1]
    /\ tokens' = [tokens EXCEPT ![s] = @ + 1]
    /\ IF counter[s] + 1 < 0
       THEN CallSemThread(t, "RELEASE", s)
       ELSE UNCHANGED thrVars
    /\ UNCHANGED <<pending, wqVars, stVars>>

Up(t, s) ==
    /\ pc[t] = "idle"
    /\ counter[s] < MaxCount /\ pending[s] < MaxCount
    /\ counter' = [counter EXCEPT ![s] = @ + 1]
    /\ tokens' = [tokens EXCEPT ![s] = @ + 1]
    /\ IF counter[s] + 1 <= 0
       THEN CallSemThread(t, "RELEASE", s)
       ELSE UNCHANGED thrVars
    /\ UNCHANGED <<pending, wqVars, stVars>>

\* Mutation of CancelReceive: a timed receive is restarted as well.
CancelReceiveAny(t) ==
    /\ pc[t] = "recv"
    /\ pc' = [pc EXCEPT ![t] = "rerecv"]
    /\ UNCHANGED <<semVars, wqVars, op, sem, stVars>>

\* l4_thread_ex_regs hits the receive phase of down or up.  A cancelled send
\* phase is entered again at once, which leaves pc[t] = "call".
CancelReceive(t) ==
    /\ pc[t] = "recv" /\ op[t] # "BLOCKTIMED"
    /\ pc' = [pc EXCEPT ![t] = "rerecv"]
    /\ UNCHANGED <<semVars, wqVars, op, sem, stVars>>

RestartReceive(t) ==
    /\ pc[t] = "rerecv"
    /\ pc' = [pc EXCEPT ![t] = "recv"]
    /\ UNCHANGED <<semVars, wqVars, op, sem, stVars>>

\* Mutation of TimeOut: the receive is repeated whatever ended it.
TimeOutIgnored(t) ==
    /\ pc[t] = "recv" /\ op[t] = "BLOCKTIMED"
    /\ UNCHANGED <<semVars, wqVars, thrVars, stVars>>

\* down_timed: the receive timeout is over, or the receive phase was cancelled.
TimeOut(t) ==
    /\ pc[t] = "recv" /\ op[t] = "BLOCKTIMED"
    /\ pc' = [pc EXCEPT ![t] = "timedout"]
    /\ UNCHANGED <<semVars, wqVars, op, sem, stVars>>

\* down_timed: the send phase was cancelled, nobody knows of the thread.
CancelTimedSend(t) ==
    /\ pc[t] = "call" /\ op[t] = "BLOCKTIMED"
    /\ pc' = [pc EXCEPT ![t] = "sendcanceled"]
    /\ UNCHANGED <<semVars, wqVars, op, sem, stVars>>

\* Mutation of TakeBack: the decrement is not taken back.
TakeBackForgotten(t) ==
    /\ pc[t] \in {"timedout", "sendcanceled"}
    /\ IF pc[t] = "timedout"
       THEN /\ pc' = [pc EXCEPT ![t] = "release"]
            /\ op' = [op EXCEPT ![t] = "RELEASETIMED"]
            /\ UNCHANGED sem
       ELSE Return(t)
    /\ UNCHANGED <<semVars, wqVars, stVars>>

\* down_timed takes its decrement back; only a thread that the semaphore
\* thread may have enqueued goes on to send RELEASETIMED.
TakeBack(t) ==
    /\ pc[t] \in {"timedout", "sendcanceled"}
    /\ counter' = [counter EXCEPT ![sem[t]] = @ + 1]
    /\ IF pc[t] = "timedout"
       THEN /\ pc' = [pc EXCEPT ![t] = "release"]
            /\ op' = [op EXCEPT ![t] = "RELEASETIMED"]
            /\ UNCHANGED sem
       ELSE Return(t)
    /\ UNCHANGED <<pending, tokens, wqVars, stVars>>

-----------------------------------------------------------------------------
(* The semaphore thread.                                                   *)

Free(i) == wqThread[i] = None

\* __alloc_entry: the first free entry, searched cyclically from next_entry.
AllocEntry ==
    LET At(k) == (next_entry + k) % MaxWqEntries
    IN  At(CHOOSE k \in Slots : Free(At(k)) /\ \A j \in 0 .. (k - 1) : ~Free(At(j)))

\* Mutation of InsertPos: the search stops at the first entry.
InsertPosFront(q, p) == IF q # << >> /\ wqPrio[q[1]] >= p THEN 2 ELSE 1

\* Where __enqueue_thread puts a thread of priority p into queue q: behind
\* the longest prefix of entries whose priority is not below p.
InsertPos(q, p) ==
    CHOOSE i \in 1 .. (Len(q) + 1) :
        /\ \A j \in 1 .. (i - 1) : wqPrio[q[j]] >= p
        /\ i <= Len(q) => wqPrio[q[i]] < p

\* __enqueue_thread(sem, t); the priority is asked of the thread library.
EnqueueThread(s, t) ==
    \E p \in Prios[t] :
        LET e == AllocEntry IN
        /\ next_entry' = (e + 1) % MaxWqEntries
        /\ wqThread' = [wqThread EXCEPT ![e] = t]
        /\ wqPrio' = [wqPrio EXCEPT ![e] = p]
        /\ queue' = [queue EXCEPT ![s] = InsertAt(@, InsertPos(@, p), e)]

\* Unlink entry e from the queue of s and free it.
RemoveEntry(s, e) ==
    /\ queue' = [queue EXCEPT ![s] = RemoveAt(@, CHOOSE i \in DOMAIN @ : @[i] = e)]
    /\ wqThread' = [wqThread EXCEPT ![e] = None]
    /\ UNCHANGED <<wqPrio, next_entry>>

StWait == stPc' = "wait" /\ stSrc' = None /\ stSem' = None
StGoto(p) == stPc' = p /\ UNCHANGED <<stSrc, stSem>>
StWake(t) == stPc' = "wakeup" /\ stSrc' = t /\ UNCHANGED stSem

\* l4_ipc_wait returns a message of t.
SemReceive(t) ==
    /\ stPc = "wait"
    /\ pc[t] \in {"call", "release"}
    /\ stPc' = IF op[t] = "RELEASE" THEN "reply" ELSE op[t]
    /\ stSrc' = t /\ stSem' = sem[t]
    /\ IF pc[t] = "call"
       THEN pc' = [pc EXCEPT ![t] = "recv"] /\ UNCHANGED <<op, sem>>
       ELSE Return(t)
    /\ UNCHANGED <<semVars, wqVars>>

\* Put the caller of BLOCK or BLOCKTIMED to sleep, or panic.
StEnqueue ==
    IF \E i \in Slots : Free(i)
    THEN /\ EnqueueThread(stSem, stSrc)
         /\ data' = IF stPc = "BLOCKTIMED"
                    THEN [data EXCEPT ![stSrc] = AllocEntry] ELSE data
         /\ StWait
    ELSE StGoto("panic") /\ UNCHANGED wqVars

\* Mutation of StBlock: a stored wakeup is used more than once.
StBlockKeepsPending ==
    /\ stPc = "BLOCK"
    /\ \/ /\ pending[stSem] > 0
          /\ Grant(stSem)
          /\ StWake(stSrc)
          /\ UNCHANGED wqVars
       \/ /\ pending[stSem] = 0
          /\ StEnqueue
          /\ UNCHANGED tokens
    /\ UNCHANGED <<counter, pending, thrVars>>

StBlock ==
    /\ stPc = "BLOCK"
    /\ \/ /\ pending[stSem] > 0
          /\ pending' = [pending EXCEPT ![stSem] = @ - 1]
          /\ Grant(stSem)
          /\ StWake(stSrc)
          /\ UNCHANGED wqVars
       \/ /\ pending[stSem] = 0
          /\ StEnqueue
          /\ UNCHANGED <<pending, tokens>>
    /\ UNCHANGED <<counter, thrVars>>

\* __wakeup_thread(t, WAKEUP_NOWAIT) succeeds: t receives and returns.
WakeNow(t) == pc[t] = "recv" /\ Return(t)

StBlockTimed ==
    /\ stPc = "BLOCKTIMED"
    /\ \/ /\ pending[stSem] > 0
          /\ \/ /\ WakeNow(stSrc)
                /\ pending' = [pending EXCEPT ![stSem] = @ - 1]
                /\ Grant(stSem)
             \/ /\ pc[stSrc] # "recv"
                /\ UNCHANGED <<pending, tokens, thrVars>>
          /\ StWait
          /\ UNCHANGED wqVars
       \/ /\ pending[stSem] = 0
          /\ StEnqueue
          /\ UNCHANGED <<pending, tokens, thrVars>>
    /\ UNCHANGED counter

\* Mutation of StReply: the caller of up gets no reply.
StReplyForgotten ==
    /\ stPc = "reply"
    /\ StGoto("release")
    /\ UNCHANGED <<semVars, wqVars, thrVars>>

\* The reply to the caller of up, sent before anybody is woken.
StReply ==
    /\ stPc = "reply"
    /\ WakeNow(stSrc)
    /\ StGoto("release")
    /\ UNCHANGED <<semVars, wqVars>>

\* Mutation of StStoreWakeup: the wakeup is not stored.
StStoreWakeupForgotten ==
    /\ stPc = "release"
    /\ queue[stSem] = << >>
    /\ StWait
    /\ UNCHANGED <<semVars, wqVars, thrVars>>

\* RELEASE finds nobody in the queue: store the wakeup.
StStoreWakeup ==
    /\ stPc = "release"
    /\ queue[stSem] = << >>
    /\ pending' = [pending EXCEPT ![stSem] = @ + 1]
    /\ StWait
    /\ UNCHANGED <<counter, tokens, wqVars, thrVars>>

\* Mutation of StPop: timed waiters are woken without a timeout, too.
StPopWaits ==
    /\ stPc \in {"release", "scan"}
    /\ queue[stSem] # << >>
    /\ LET w == wqThread[Head(queue[stSem])] IN
       /\ RemoveEntry(stSem, Head(queue[stSem]))
       /\ data' = [data EXCEPT ![w] = None]
       /\ Grant(stSem)
       /\ StWake(w)
    /\ UNCHANGED <<counter, pending, thrVars>>

\* One round of RELEASE's loop: take the first thread off the queue and wake it.
StPop ==
    /\ stPc \in {"release", "scan"}
    /\ queue[stSem] # << >>
    /\ LET w == wqThread[Head(queue[stSem])] IN
       /\ RemoveEntry(stSem, Head(queue[stSem]))
       /\ \/ /\ data[w] = None
             /\ Grant(stSem)
             /\ StWake(w)
             /\ UNCHANGED <<data, thrVars>>
          \/ /\ data[w] # None
             /\ data' = [data EXCEPT ![w] = None]
             /\ \/ WakeNow(w) /\ Grant(stSem) /\ StWait
                \/ /\ pc[w] # "recv"
                   /\ StGoto("scan")
                   /\ UNCHANGED <<tokens, thrVars>>
    /\ UNCHANGED <<counter, pending>>

\* RELEASE's loop ran out of threads that could be woken.
StScanEnd ==
    /\ stPc = "scan"
    /\ queue[stSem] = << >>
    /\ StWait
    /\ UNCHANGED <<semVars, wqVars, thrVars>>

\* Mutation of StReleaseTimed: the mark of the entry is left behind.
StReleaseTimedKeepsMark ==
    /\ stPc = "RELEASETIMED"
    /\ \/ /\ data[stSrc] # None
          /\ RemoveEntry(stSem, data[stSrc])
       \/ /\ data[stSrc] = None
          /\ UNCHANGED <<queue, wqThread, wqPrio, next_entry>>
    /\ StWait
    /\ UNCHANGED <<semVars, data, thrVars>>

\* Mutation of StReleaseTimed: the entry stays in the queue.
StReleaseTimedLeaks ==
    /\ stPc = "RELEASETIMED"
    /\ StWait
    /\ UNCHANGED <<semVars, wqVars, thrVars>>

StReleaseTimed ==
    /\ stPc = "RELEASETIMED"
    /\ \/ /\ data[stSrc] # None
          /\ RemoveEntry(stSem, data[stSrc])
          /\ data' = [data EXCEPT ![stSrc] = None]
       \/ /\ data[stSrc] = None
          /\ UNCHANGED wqVars
    /\ StWait
    /\ UNCHANGED <<semVars, thrVars>>

\* __wakeup_thread(.., WAKEUP_WAIT) blocks until its target receives.
StWakeup ==
    /\ stPc = "wakeup"
    /\ WakeNow(stSrc)
    /\ StWait
    /\ UNCHANGED <<semVars, wqVars>>

StStep ==
    \/ StBlock \/ StBlockTimed \/ StReply \/ StStoreWakeup \/ StPop
    \/ StScanEnd \/ StReleaseTimed \/ StWakeup

Next ==
    \/ \E t \in Threads, s \in Sems :
          Down(t, s) \/ DownTimed(t, s) \/ TryDown(t, s) \/ Up(t, s)
    \/ \E t \in Threads :
          \/ CancelReceive(t) \/ RestartReceive(t) \/ TimeOut(t)
          \/ CancelTimedSend(t) \/ TakeBack(t) \/ SemReceive(t)
    \/ StStep

\* The scheduler runs every ready thread, timeouts expire, and the kernel
\* serves every thread in the semaphore thread's sender queue (SF: the
\* semaphore thread returns to its wait in between).  A sender blocked on a
\* receiver is served by the receiver's next receive, even if receives are
\* cancelled again and again (SF).  No operation has to be called.
Fairness ==
    /\ \A t \in Threads :
          /\ WF_vars(RestartReceive(t)) /\ WF_vars(TimeOut(t))
          /\ WF_vars(TakeBack(t)) /\ SF_vars(SemReceive(t))
    /\ WF_vars(StStep)
    /\ SF_vars(StReply) /\ SF_vars(StWakeup)

SafeSpec == Init /\ [][Next]_vars

Spec == SafeSpec /\ Fairness

-----------------------------------------------------------------------------
(* Properties.                                                             *)

\* t is inside a down or down_timed that found no unit, and has got none yet.
Sleeping(t) ==
    /\ pc[t] \in {"call", "recv", "rerecv", "timedout", "sendcanceled"}
    /\ op[t] \in {"BLOCK", "BLOCKTIMED"}
    /\ ~(stPc = "wakeup" /\ stSrc = t)

Sleepers(s) == {t \in Threads : Sleeping(t) /\ sem[t] = s}

\* Threads whose up has yet to deliver its RELEASE message.
Releasing(s) ==
    {t \in Threads : pc[t] = "call" /\ op[t] = "RELEASE" /\ sem[t] = s}

\* 1 while the semaphore thread holds a RELEASE of s it has not acted upon.
HeldRelease(s) == IF stPc \in {"reply", "release"} /\ stSem = s THEN 1 ELSE 0

\* Never more downs succeed than the initial count and the ups allow.
NoOvergrant == \A s \in Sems : tokens[s] >= 0

\* Every unit that is available is either visible in the counter, or stored in
\* pending, or on its way in exactly one RELEASE message: wakeups are neither
\* lost nor doubled between l4semaphore_up and the semaphore thread.
TokensAccounted ==
    \A s \in Sems :
        tokens[s] = (IF counter[s] > 0 THEN counter[s] ELSE 0) + pending[s]
                    + Cardinality(Releasing(s)) + HeldRelease(s)

\* The counter is the number of available units minus the number of sleepers,
\* in every state between the atomic decrement and the wakeup, and also while
\* a timed out down_timed takes its decrement back.
SleepersCounted ==
    \A s \in Sems : tokens[s] = counter[s] + Cardinality(Sleepers(s))

\* semaphore.h on l4semaphore_up: "If threads are enqueued in the wait queue,
\* wakeup the first thread."  up calls the semaphore thread only when the
\* counter was negative, so when all operations in progress have come to rest,
\* a thread in the queue must show as a negative counter.
UpReachesSleeper ==
    (stPc = "wait" /\ \A t \in Threads : pc[t] \in {"idle", "recv"})
        => \A s \in Sems : queue[s] # << >> => counter[s] < 0

\* An entry of s's queue is in use for a thread that sleeps on s, marked with
\* the entry iff it is a timed waiter; or for a timed waiter that gave up and
\* whose RELEASETIMED is still to be sent or served.
EntryConsistent(s, e) ==
    LET t == wqThread[e] IN
    /\ t \in Threads
    /\ \/ /\ sem[t] = s
          /\ \/ op[t] = "BLOCK" /\ pc[t] \in {"recv", "rerecv"} /\ data[t] = None
             \/ op[t] = "BLOCKTIMED" /\ pc[t] \in {"recv", "timedout"} /\ data[t] = e
             \/ op[t] = "RELEASETIMED" /\ pc[t] = "release" /\ data[t] = e
       \/ stPc = "RELEASETIMED" /\ stSrc = t /\ stSem = s /\ data[t] = e

EntriesConsistent ==
    \A s \in Sems : \A k \in DOMAIN queue[s] : EntryConsistent(s, queue[s][k])
NoEntryTwice ==
    \A s1, s2 \in Sems : \A k1 \in DOMAIN queue[s1], k2 \in DOMAIN queue[s2] :
        queue[s1][k1] = queue[s2][k2] => s1 = s2 /\ k1 = k2
NoEntryLost ==
    \A e \in Slots : wqThread[e] # None =>
        \E s \in Sems : \E k \in DOMAIN queue[s] : queue[s][k] = e
OneEntryPerThread ==
    \A e1, e2 \in Slots :
        wqThread[e1] = wqThread[e2] /\ wqThread[e1] # None => e1 = e2
MarksValid ==
    \A t \in Threads : data[t] # None => wqThread[data[t]] = t

\* The wait queues and the static array behind them stay consistent: every
\* entry in use is in exactly one place of one queue, for one thread, which
\* waits on that queue's semaphore; no mark points to a freed entry.
QueuesConsistent ==
    /\ EntriesConsistent
    /\ NoEntryTwice
    /\ NoEntryLost
    /\ OneEntryPerThread
    /\ MarksValid

\* The head of a queue is a thread of the highest priority in it, as noted
\* when the threads were enqueued, however entries come and go.
PriorityOrdered ==
    \A s \in Sems : \A i, j \in DOMAIN queue[s] :
        i < j => wqPrio[queue[s][i]] >= wqPrio[queue[s][j]]

\* The comment above __alloc_entry: "each thread can only block on one
\* sempahore at a time" - with an entry per thread allocation never fails,
\* although the entry of a timed out waiter is freed late.
EntryAvailable == MaxWqEntries >= Cardinality(Threads) => stPc # "panic"

\* The semaphore thread acts on requests that are still what their callers
\* wait for: whatever it sends without a timeout goes to a thread that waits
\* for exactly that message, so that the one thread which serves all
\* semaphores does not hang; nobody is enqueued twice or woken while enqueued;
\* a timed waiter that gave up waits on nothing else before it is unlinked.
ServerConsistent ==
    /\ stPc \in {"BLOCK", "wakeup"} =>
          /\ pc[stSrc] \in {"recv", "rerecv"}
          /\ op[stSrc] = "BLOCK" /\ sem[stSrc] = stSem
    /\ stPc = "BLOCKTIMED" =>
          /\ sem[stSrc] = stSem
          /\ \/ pc[stSrc] \in {"recv", "timedout"} /\ op[stSrc] = "BLOCKTIMED"
             \/ pc[stSrc] = "release"
    /\ stPc = "reply" => pc[stSrc] \in {"recv", "rerecv"} /\ op[stSrc] = "RELEASE"
    /\ stPc = "RELEASETIMED" => pc[stSrc] \in {"idle", "call", "sendcanceled"}
    /\ stPc \in {"BLOCK", "BLOCKTIMED", "wakeup"} =>
          \A e \in Slots : wqThread[e] # stSrc

\* Without timed waiters the library implements counting semaphores.
Abstract == INSTANCE CountingSemaphore WITH
    value <- tokens,
    want <- [t \in Threads |-> IF Sleeping(t) THEN sem[t] ELSE None]

\* Every step of the library is a step of a counting semaphore, and a unit that
\* is available while somebody sleeps on the semaphore is handed over.
ImplementsCountingSemaphore == Abstract!Spec

\* up never keeps its caller for good, whatever else the semaphore thread does.
UpReturns ==
    \A t \in Threads : (pc[t] = "call" /\ op[t] = "RELEASE") ~> (pc[t] = "idle")

\* down_timed never keeps its caller for good.
DownTimedReturns ==
    \A t \in Threads : (pc[t] # "idle" /\ op[t] = "BLOCKTIMED") ~> (pc[t] = "idle")
=============================================================================
