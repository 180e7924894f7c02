# TLA+ models of the L4Env synchronisation primitives

L4Env is the programming environment of the L4 microkernel Fiasco: a kernel
(`kernel/fiasco`), libraries that every server and client links
(`l4/pkg/semaphore`, `lock`, `thread`, `l4rm`, `dsi`, ...) and servers
(`dm_phys`, `names`, `events`, `loader`, ...).  This directory holds TLA+
modules of its synchronisation core, TLC configurations that check them on small
instances and proofs that TLAPS checks for every instance.  `PROJECT.json` gives,
for every definition, the source lines it stands for, and lists the runs, the
mutations, the hazards and the theorems.

## 1. Inventory

The repository is large; most of it is vendored or is I/O.  The parts with logic
of their own, and what makes each of them correct:

| part | state | operations | correct when |
|---|---|---|---|
| semaphore library `l4/pkg/semaphore` | per semaphore a counter, a wait queue, a count of stored wakeups; per task an array of queue entries and one semaphore thread | `down`, `down_timed`, `try_down`, `up`; BLOCK, BLOCKTIMED, RELEASE, RELEASETIMED in the semaphore thread | it behaves as a counting semaphore; queues, entries and marks stay consistent; the one server thread never hangs |
| lock library `l4/pkg/lock` | owner, reference counter, a semaphore | `lock`, `try_lock`, `unlock` | mutual exclusion, re-entry by the owner, no waiting for a free lock |
| user-level semaphores (`l4sys/user_locks.h`, Fiasco `U_semaphore`) | counter and flag in user memory; kernel queue, timeouts | `l4_usem_down_to`, `l4_usem_up`, Sem_sleep, Sem_wakeup, destruction | no wakeup lost, no unit invented, nobody left asleep |
| DSI streams `l4/pkg/dsi` | packet ring, packet semaphores, flag words and scatter gather pool in shared memory; socket flags; a synchronisation thread per side | get, add data, commit and abort of packets; COMMITED, WAIT, RELEASE | packets arrive once and in order, a waiting side is woken, lists stay intact; abort ends a wait |
| Fiasco `Switch_lock`, `Thread_lock`, `Helping_lock` | owner, lock counts, helper and donatee of each context | lock with helping, clear, kill and destruction of a locked context | no lock is lost, the CPU is lent to somebody who can use it, no waiting on a lock that is gone |
| Fiasco `U_lock` | a lock word in user memory, a kernel queue | lock, unlock | as the user-level semaphore |
| Fiasco IPC | sender queue, partner, state bits, timeouts | send, receive, cancel | rendezvous or error, never half of it |
| Fiasco mapping database | trees of mappings | insert, flush | a forest, in which flush removes the subtree |
| `thread`, `dm_phys`, `l4rm`, `events`, `omega0`, `names`, task servers, `slab` | tables and lists, mostly behind one thread or one lock | allocate, free, look up | no overlap, no leak |
| `loader`, `log`, `l4vfs`, `l4con`, DOpE, ORe, drivers, DICE, vendored code | - | - | not modelled: I/O, formatting, code generation, third-party |

How the parts interact.  Threads of a task share memory and change semaphore
counters with single instructions; what cannot be done with one instruction goes
by synchronous IPC to the semaphore thread of the task.  The lock is two plain
fields around one semaphore.  DSI has counters of its own in memory shared by two
tasks, with one synchronisation thread on each side in the part of the semaphore
thread.  The kernel's own locks have no queues at all: who finds a lock taken lends
the CPU to the owner.  The user-level
semaphore is a newer kernel primitive with the same split: one instruction in
user memory, a system call for the rest.  A blocked system call can end by its
timeout or by `l4_thread_ex_regs` at any moment.

What is hard: the instruction on the counter and the message or system call
that follows are two steps, so wakeups overtake the sleeps they are for;
timeouts and cancellation race wakeups; `owner` of a lock is read without
synchronisation; kernel objects are destroyed under sleeping threads, with interrupts
on; the flag word of a DSI packet is written by three threads; a kernel lock can be
held by a thread that is being killed, or that sleeps.  No test
in the repository steers these interleavings.  `hazards` in `PROJECT.json`
places each of them at its line.

## 2. Modules

| module | stands for |
|---|---|
| `CountingSemaphore` | the abstract specification: units, and threads that wait for one |
| `L4Semaphore` | `l4/pkg/semaphore`: `generic.h`, `archindep.h`, the x86 `asm.h`, `semaphore.c` |
| `L4Lock` | `l4/pkg/lock`: `lock.h`, `types.h`, `internal.h`, on top of `CountingSemaphore` |
| `USemaphore` | `__user_locks_impl.h`, `user_locks.h`, `u_semaphore.cpp` and the parts of `syscalls.cpp`, `prio_list.cpp`, `ipc_timeout.cpp` it uses |
| `PacketStream` | the abstract specification of a DSI stream: packets in order, each end gets one only after the other end is done with it |
| `DSIStream` | `l4/pkg/dsi`: `packet.c`, `sync.c`, `__sync.h`, the setup in `dataspace.c` |
| `SwitchLock` | Fiasco: `switch_lock.cpp`, `thread_lock.cpp`, the switching and scheduling of `context.cpp`, kill and destroy of `thread.cpp` |
| `MC...` | constants of the instances TLC checks |
| `..._proofs` | theorems, section 5 |
| `SequenceLemmas` | lemmas about sequences that the proofs share |

Composition: `L4Semaphore` implements `CountingSemaphore` (`Abstract`), and
`L4Lock` is built on `CountingSemaphore` by `INSTANCE` (`Sem`), so what is shown
of the lock rests on what is shown of the semaphore library: `L4Lock`'s semaphore
steps are the actions of the specification that `L4Semaphore` refines.
`DSIStream` composes two work threads, two synchronisation threads, a thread that aborts,
one that changes socket flags and the shared control area, and implements
`PacketStream`.

### L4Semaphore

`counter`, `pending` and `queue` are the fields of `l4semaphore_t`; a queue is the
sequence of the `wq_entries` indices on the list.  `wqThread`, `wqPrio` and
`next_entry` are the static array behind the queues, `data` the thread data by
which RELEASETIMED finds an entry.  `pc`, `op` and `sem` say where a thread is
inside the library and which message it has under way, `stPc`, `stSrc` and `stSem`
where the semaphore thread is in its loop.  `tokens` is a history variable: the
initial count plus ups minus granted downs.

Every atomic instruction and every IPC phase is a step: `Down`, `DownTimed`,
`TryDown` and `Up` are the instruction with the branch that follows; a thread then
waits in the send phase (`call`) until `SemReceive`, and in the receive phase
(`recv`) until the semaphore thread answers (`StReply`, `StWakeup`, or the
zero-timeout wakeup `WakeNow` inside `StBlockTimed` and `StPop`).  The semaphore
thread works on a request in one step up to the next IPC it blocks in; a failed
zero-timeout wakeup is a round of RELEASE's loop on its own (`StPop` to `scan`,
ended by `StScanEnd`), because other threads run between the rounds.

Cancellation: `CancelReceive` and `RestartReceive` are the restart loops of
`L4SEMAPHORE_RESTART_IPC`; a cancelled send is entered again without a visible
change.  `down_timed` does not restart: `TimeOut` and `CancelTimedSend` lead to
`TakeBack`, the increment at `archindep.h:87`, and to the send of RELEASETIMED.

Modelled is the default configuration: restart of cancelled IPC, queues sorted by
priority, `l4semaphore_up` as a call with a reply.  The priority of a thread is
a choice from `Prios[t]` at each enqueue: it is asked of the thread library at that
time and may differ from one enqueue to the next.

### L4Lock

Each assignment to `owner` and `ref_count` outside the branch that only the owner
can take is a step.  `depth` is a history variable, the calls of `lock` that a
thread has yet to undo: mutual exclusion is stated on it and not on the fields the
code tests.  Inside the owner's branch `ref_count` is changed in the step that
tests `owner`: nobody else writes either field while the owner is set.

### USemaphore

`counter` and `queued` are the user memory, `queue`, `timer`, `hit` and `valid` the
kernel object.  `Decrement` (`decl; jge`), `Up` (`incl`) and `TestQueued`
(`testb; jz`) are single instructions; a thread can be preempted between any two.
The system calls hold the CPU lock, so `SleepFails`, `SleepOk`, `SleepBlocks` and
`Wakeup` are a step each; `schedule()` inside `block_locked` gives the lock up, so
what follows it is a step again (`ResumeTimeout`, `ResumeRetry`, `ResumeInvalid`).
`add_counter` returns a `bool`, which `CounterPositive` keeps.

The deletion is a thread of its own (`dpc`, `dw`).  `Unmap` takes the capability away;
from then on no system call finds the semaphore.  `~U_semaphore` takes the CPU lock only
at its end, so every line of it is a step: `Invalidate` (`_valid = false`), `DeleteHead`,
`DeleteDequeue`, `DeleteReady` and `DeleteReset` of the loop, `DeleteFree`.  Between them
timeouts hit and the threads that were made ready run.  A thread that resumes after
`_valid = false` returns Invalid whether it is in the queue or not and whether its
timeout is set or not (`ResumeInvalid`): it may leave both behind.  Its `IPC_timeout` is
then a piece of stack that is used for something else; `TimeoutHit` takes it out of
the timeout queue and says nothing about the stack.  Once the object is freed
`block_locked` reads `_valid` of a piece of memory that may belong to another
semaphore: both outcomes are allowed (`ResumeRetry`, `ResumeInvalid`).

### DSIStream

`sem["S"]` and `sem["R"]` are `tx_sem` and `rx_sem`, `flags` the flag words, `sgLen`, `sgList`,
`sgIdx`, `used` and `nxt` the scatter gather lists of the control area; `next`, `blocking`,
`abort` and `nextElem` are fields of the two sockets.  Each thread has a control point
(`wpc`, `spc`, `apc`); what is left of the C code between two of them is one access to
shared memory or one IPC.  `gets` and `done` number the packets as `PacketStream` does;
they are history variables.

`dsi_packet_get` is `GetTry` (the abort test and `dsi_trylock`), `GetBlock`, `GetRecheck`,
`GetDown`, `GetUnblock` and `GetTake`, for the sender also `GetClear`, the store to the flag
word.  The call of a full counter waits in `call` until the other side's synchronisation
thread takes it (`ReceiveWait`) and then in `asleep` until it answers (`Wakeup`, sent with
timeout 0: lost when nobody waits).  The search for a free scatter gather element is a
step per element (`Search`), the release of a list as well (`FreeElem`), since they run
concurrently.

`packet->flags` is a volatile 16-bit word changed by `|=` and `&=`, which gcc compiles to a
load, an operation and a store.  Each update is two steps: `GetTake` loads and `GetClear`
stores, `CommitSend` and `CommitCallback`, `SyncLoad` and `SyncStore`.  `socket->flags` is
changed by single instructions in `dsi_packet_get` and `dsi_packet_get_abort`
(`GetBlock`, `GetUnblock`, `Eeos`, `AbortSet`) but by a load and a store in
`dsi_socket_set_flags` and `dsi_socket_clear_flags`, which any thread may call meanwhile
(`ConfigureLoad`, `ConfigureStore`; the user's flags themselves do not matter, the two
internal ones are in the same word).  When a store puts back a word that was changed
since it was loaded, the history variable `overwritten` notes the kind of the word;
`Intact` says that this has not happened yet.  It restricts nothing in the model: it is
what the properties are relative to, because after such a store nearly all of them fail
(findings 5 and 6).

`header->packets_committed` is changed by both work threads with `++` and `--`.  It is not
volatile and gcc makes one instruction of each, which is one step here.

`reset_socket_flag` does not parenthesise its argument, so the end of an aborted get
clears only the first of the two flags it names: `Eeos` keeps the abort flag set, as the
code does.  `DSI_SOCKET_BLOCK` and the release callback can be switched at any time,
so both outcomes are always possible.

### SwitchLock

One CPU.  `current` is the context that runs, `pc` where each context is when it runs
again.  With interrupts on (`run`, `kill`) a context can be preempted; waiting for
a lock (`help`) and clearing one (`switch`, `tail`, `lockee`) happen under the CPU lock, where
other contexts run only by a switch the code makes itself.  `irq_chance` in the waiting
loop is two `nop`s on x86, so that nothing is let in there.

A clear is cut where it may switch: `Clear` releases the lock and switches to the helper,
`Switch` is the test for a deletion and the scheduler, `Tail` passes the donatee on and
`Lockee` perhaps switches to the context that was locked.  `switch_exec_locked` follows the
donatees; `Chain(t)` is the set of contexts its loop visits, the least set with `t` and the
donatee of each member at which the loop does not stop (`Stop`).  It does not switch when
it stops at a context that the current one locked and that owns no locks, or that is not
ready (`Switches`).  When contexts have locked each other in a circle nothing in the chain
stops the loop; the action is then not enabled.

The ready list is reduced to what it gives the scheduler: some ready context of the
highest priority.  Locks may be taken in any nesting, as the kernel does: thread locks
in the lock of the TCB area (`maybe_create`), in that of thread 0 (inter-task `ex_regs`)
and in that of the chief (`kill_task`), and helping locks in each other (the slab
allocator).  A context that sleeps has in general given its locks back, with one
exception that `Block` models: `handle_lldt` reads user memory with the thread lock of
another thread, and the page fault goes to the pager by IPC; only the faulting thread's
own lock is tested (`thread-ipc.cpp:199`).  `Kill` starts `Thread::kill` with the thread lock of
the victim and that of the chief's thread 0 (`Kills`); after the loop (`KillLoop`) the
killer goes on, taking and clearing plain locks as `fpage_unmap` and the deletion of the
task do, until `Destroy` (`~Thread` and `Thread::destroy`) makes the victim invalid, clears its
lock and unmaps its TCB page if no other thread is on it.

## 3. Runs

| run | instance | states | shows |
|---|---|---|---|
| `l4sem_untimed` | 3 threads on 2 priorities, 2 semaphores with one unit each, no timed waiter | 251 000 | `ImplementsCountingSemaphore` (safety and hand-over), `NoOvergrant`, `TokensAccounted`, `UpReachesSleeper`, `PriorityOrdered` |
| `l4sem_timed` | 3 threads, 1 of them timed, a semaphore that starts locked | 102 000 | `TypeOK`, `QueuesConsistent`, `ServerConsistent`, `SleepersCounted`, `EntryAvailable`, and under fairness `UpReturns`, `DownTimedReturns` |
| `l4sem_overgrant` | 3 threads, 1 timed | - | a violation of `NoOvergrant`, finding 1 |
| `l4sem_lostwakeup` | 3 threads, 1 timed | - | a violation of `UpReachesSleeper`, finding 2 |
| `l4lock` | 3 threads, 2 locks, one owned at the start, nesting up to 2 | 5 800 | `MutualExclusion`, `OwnerReadCorrect`, `OneUnit`, `WaitedForIsTaken` |
| `usem` | 3 threads, 2 priorities, finite and infinite timeouts, deletion in steps | 489 000 | counter, flag, queue and timers agree; `NoLostWakeup`, `AsleepIsQueued`, `UnitsFound`, `CallsReturn` |
| `usem_capacity` | 3 threads | - | a violation of `NoOvergrant`, finding 3 |
| `usem_cancel` | 3 threads, `l4_thread_ex_regs` | - | a violation of `RetryNotQueued`, finding 4 |
| `dsi` | 2 packets, 1 scatter gather element each, 3 packets sent; the receiver may be aborted and its socket flags changed | 5.1 million | up to the first overwritten update: `ImplementsPacketStream`, `CountersBounded`, `WakeupsArrive`, `PendingIsOwed`, `AbortReaches`, `SgListsIntact`, `NoPanic` |
| `dsi_flags` | the same without abort | - | a violation of `NoLostWakeup`, finding 5 |
| `dsi_early` | the same without abort | - | a violation of `NoEarlyPacket`, finding 6 |
| `switch_lock` | 4 contexts on 3 priorities, a plain lock and the thread locks, two killers | 4.9 million | `LocksCounted`, `DonateeIsOwner`, `HelpReaches` |

Bounds.  `MaxCount` stops ups at a positive counter or a stored wakeup: a second
stored unit adds nothing, since the code compares counter and `pending` with zero
only.  `MaxDebt` (user-level semaphore) stops downs at counter -2: two transient
decrements are what it takes to hide a unit from each other.  `MaxDepth = 2` reaches
the unlock that does not free the lock and the one that does.  Three threads let one
thread sleep, one be on its way and one release, which every argument about these
primitives is about; with `MaxWqEntries = 3` the array is exactly as large as the
number of threads, the case in which a late `__free_entry` would make `__alloc_entry`
panic.  Two semaphores are used where their queues and requests could be mixed up.
Three packets in a ring of two let a descriptor be used again by both sides and a
waiter of the second round meet a mark of the first, and the pool has two elements that
both sides work on at different places.  Lists of two elements together with aborts are
too large for TLC; the theorems are for any number of packets and elements.  `dsi`
follows a behaviour up to the first overwritten update (CONSTRAINT `Intact`; the state
in which it happens is still checked): every property but `TypeOK` and `AbortReaches` is an
implication from `Intact`, and `AbortReaches` and the types are proved without the bound.
In `switch_lock` two
contexts of equal priority preempt each other in any order, a third is below them and
is the one that is killed, and the idle context runs when all others sleep: the least
that has a chain of donatees, a helper and a bystander.
`l4sem_timed` has one semaphore and one priority: the proofs of its invariants cover
any number of both.

Deadlock is checked in the runs of the semaphore library.  In `l4lock` threads may
wait for each other's locks, which the library allows; in `usem` the bounds end the
use of a destroyed semaphore.  In `dsi` the bound on packets ends the stream and an
aborted receiver leaves the sender waiting; in `switch_lock` a circle of locked contexts
stops the kernel (see section 4).

Fairness.

- Threads that are ready run (weak fairness of `RestartReceive`, `TakeBack`,
  `StStep`, of the lock's and the user semaphore's own steps): Fiasco schedules by
  priority and round robin, and the programs are assumed not to starve a thread by a
  higher priority one.  The thread that deletes a semaphore is one of them (`Delete`).
- Timeouts of `down_timed` expire (weak fairness of `TimeOut`).  In `USemaphore` no
  timeout is required to hit.
- A thread in the send phase to the semaphore thread stays in its sender queue,
  from which each `l4_ipc_wait` takes one: strong fairness of `SemReceive`, as the
  semaphore thread is between two waits infinitely often and not all the time.
- A reply or wakeup sent without a timeout reaches a thread that keeps receiving,
  even if it is cancelled again and again: strong fairness of `StReply` and
  `StWakeup`.
- No operation has to be called: no down, up, lock, unlock or cancellation is fair.
- `L4Lock` uses the fairness of `CountingSemaphore`, a unit that stays available
  is handed over; `l4sem_untimed` shows that the library provides it.

`DSIStream` and `SwitchLock` are checked for safety only.  `WakeupsArrive` and `HelpReaches` are
the safety core of what one would ask for: nobody sleeps for a packet that is there
unless a thread that will wake it is busy, and no waiter passes the CPU to nobody.
That a waiter for a kernel lock gets it in the end needs more than fair scheduling: a
context that locks the owner's thread again and again takes the lent time each time.

`UnitsFound` holds under a condition the property states: that there are again and
again moments without a thread between its decrement and its Sem_sleep.  Threads
that call `down` in an endless relay keep the counter one too low for everybody who
enters the kernel, and a unit stays hidden.

Each property has a mutation (the `mutants` of `PROJECT.json`; the operators are next
to the definitions they alter, with a comment "Mutation of"): a dropped guard, a
forgotten reset, an off-by-one in the code that the property must notice.

## 4. Findings

1. *One up satisfies two downs* (`l4sem_overgrant`).  `l4semaphore_down_timed` takes
   its decrement back with an increment when its wait fails.  If an up has seen that
   decrement, its RELEASE is on the way: the increment makes a unit of its own, and the
   RELEASE is stored or wakes somebody else.
2. *A sleeper that ups do not reach* (`l4sem_lostwakeup`).  RELEASE that finds only
   timed waiters that gave up is dropped and not stored.  A thread decremented before
   that sends its BLOCK later; it sleeps with the counter at zero or above, and `up`
   calls the semaphore thread only below that.
3. *More downs than units in the user-level semaphore* (`usem_capacity`).
   `add_counter` returns `bool`, so `add_counter(sem, 1) > 0` is true for negative
   counters; the Promela model in the same file tests the number.
4. *A cancelled Sem_sleep leaves its thread in the queue* (`usem_cancel`), which the
   comment after `schedule()` does not foresee.
5. *A receiver sleeps for a committed packet* (`dsi_flags`).  The flag word of a packet is
   changed by `|=` and `&=` in three threads without protection.  The sender, in
   `dsi_packet_get`, loads the word; its synchronisation thread notes that the receiver
   waits; the sender stores the word without the note.  The commit finds no waiter,
   marks a pending wakeup, and the receiver sleeps on.
6. *A receiver gets a packet that is not committed* (`dsi_early`).  The sender's
   synchronisation thread wakes the receiver for RX_PENDING on packet 0 and is preempted
   before it stores the cleared word.  The receiver releases the packet, the sender waits
   for it, and the receiver's synchronisation thread loads the word to set TX_WAITING (or
   the sender gets the packet and loads the word to clear the user flags).  The clear is
   stored, then the stale word: RX_PENDING is back.  The receiver's next wait on
   packet 0 is answered at once, while the sender still fills it.  What follows breaks
   everything the stream promises: the packet is released and its list freed under the
   sender, `packets_committed` falls below zero, and "list too short" panics.  This is why
   `CountersBounded`, `PendingIsOwed`, `SgListsIntact`, `NoPanic` and `ImplementsPacketStream`
   are stated up to the first overwritten update, and the theorems too.

Also seen, and not a run of their own:

- *A locked context runs on* (`switch_lock.cpp:306`).  "Someone apparently tries to delete
  us. Therefore we aren't allowed to continue to run": but `schedule()` may pick the
  same context.  Context m owns a plain lock and is preempted, h of the same priority
  locks m's thread and is preempted, m runs (it owns locks), clears its lock, finds that
  it is locked and calls `schedule()`, which selects m: it returns to its program.  If m
  then locks h, the two donate to each other, and the loop in `switch_exec_locked`
  (`context.cpp:977`) does not end for any third context that switches to them.
- *A circle of locked contexts* (`context.cpp:977`).  h owns a plain lock, as `maybe_create`
  does, and is preempted; l locks h's thread and is preempted in favour of h, which runs,
  though locked, because it owns locks; h now locks l's thread inside the plain lock.
  The two donate to each other, and a third context that waits for either thread lock
  never leaves the loop.
- *A lock owner that sleeps* (`thread-ia32-amd64.cpp:706`).  m sleeps in its pager's IPC with
  l's thread lock; h waits for that lock in `lock_dirty`, with interrupts off: it
  switches to m, which is not ready, and tries again for ever; the pager never runs.  A
  killer of such a context meets `assert (state() & Thread_ready)` (`thread.cpp:553`), which
  does not hold then; without assertions it calls `switch_exec` with interrupts on until
  the victim is woken.
- *A stale donatee* (`thread_lock.cpp:183`).  `Lock::clear` may switch to the helper before
  `set_donatee`.  If the helper holds the clearing context's own thread lock, as a killer
  does, that context does not run again, and the context it had locked keeps a donatee
  that never runs: whoever then waits for a lock this context owns spins with
  interrupts off.  The comment says "it works anyway".  `DonateeIsOwner` shows that this
  window is the only way the donatee is not the owner.

  These three are the exceptions that `HelpReaches` names (`Circle`, `Sleeper`, `Unsettled`);
  TLC reaches each of them, and a state in which the lent CPU reaches nobody and none
  of them holds does not exist.
- *A lost abort* (`socket.c:582`, `socket.c:608`).  `dsi_socket_set_flags` and
  `dsi_socket_clear_flags` may put back a word without BLOCKING_IN_GET or BLOCK_ABORT; an
  abort then misses a work thread that blocks.  `AbortReaches` holds until such a store.
- *An abort that jumps into a dead frame* (`packet.c:808`).  The work thread may leave
  `dsi_packet_get` between the test of BLOCKING_IN_GET and the longjmp; the comment
  "The longjmp-environment is therefore valid" does not hold then.  The model has the
  state `lost` for it.
- `__get_sg_elem` takes the only element of a stream with one packet and `max_sg` 1 for
  none (`packet.c:196`) and panics; `StreamAssumption` excludes that stream.

In the user-level semaphore: Sem_sleep with a timeout of zero returns
Timeout after it enqueued its caller (`u_semaphore.cpp:132`), so `QueuedSleep` fails
if `Timeouts` contains `"zero"`; Sem_sleep on a destroyed semaphore returns 2
(`syscalls.cpp:904`), which `user_locks.h` calls L4_USEM_TIMEOUT and not
L4_USEM_INVALID; a cancelled Sem_sleep leaves its timeout, an object on the kernel
stack, in the timeout queue, since `Receiver::set_timeout` only assigns.  A thread that
returns Invalid during `~U_semaphore` does the same: it may have been woken by
`ready_enqueue` (line 208) before `reset_timeout` (line 209), or by another wakeup
before the loop reached it, and `~IPC_timeout` only clears the receiver's pointer
(`ipc_timeout.cpp:30`).  If that thread meanwhile sleeps elsewhere, `reset_timeout` ends the
timeout of that sleep.  This is why `QueuedSleep` speaks of timers up to `~U_semaphore` only.

## 5. Proofs

All theorems hold for every set of threads (finite where the module assumes it),
semaphores, locks and priorities, every number of entries, packets and elements and
every value of the bounds; the assumptions are the named ASSUMEs of the modules, which
TLC evaluates in the runs.  Where a theorem needs more it says so in its own ASSUME, and
section 4 says what happens without it.

| module | theorems (properties of the runs) | assumed |
|---|---|---|
| `L4Semaphore_proofs` | `Consistency` (`QueuesConsistent`), `TypeCorrect`, `ServerNeverConfused` (`ServerConsistent`), `QueuesOrdered` (`PriorityOrdered`), `NeverPanics` (`EntryAvailable`) | - |
| `L4SemaphoreAccounting_proofs` | `SleepersAccounted` (`SleepersCounted`) | - |
| | `UnitsAccounted` (`TokensAccounted`), `NeverOvergrants` (`NoOvergrant`), `UpsReachSleepers` (`UpReachesSleeper`) | `TimedThreads = {}`; findings 1 and 2 |
| `L4SemaphoreRefinement_proofs` | `ImplementsCountingSemaphores`: the safety part of `ImplementsCountingSemaphore` | `TimedThreads = {}` |
| `L4Lock_proofs` | `LockConsistency` (`OneUnit`), `LockTypes` (`TypeOK`), `LockExcludes` (`MutualExclusion`), `OwnerReads` (`OwnerReadCorrect`) | - |
| `USemaphore_proofs` | `TypeCorrect`, `CounterIsExact` (`CounterExact`) | - |
| | `FlagCovers` (`FlagCoversQueue`), `WakeupsReach` (`NoLostWakeup`), `QueueHoldsSleepers` (`QueuedSleep`), `SleepersQueued` (`AsleepIsQueued`) | `"zero" \notin Timeouts` |
| `SwitchLock_proofs` | `TypeCorrect`, `LocksAreCounted` (`LocksCounted`), `DonateesOwn` (`DonateeIsOwner`), `HelpingReaches` (`HelpReaches`) | finitely many contexts and plain locks |
| `DSIStream_proofs` | `TypeCorrect`, `AbortsReach` (`AbortReaches`), `CountersStayBounded` (`CountersBounded`), `WakeupsReach` (`WakeupsArrive`), `PendingMarksAreOwed` (`PendingIsOwed`), `StreamsPackets` (`ImplementsPacketStream`), `SgListsStayIntact` (`SgListsIntact`), `NeverPanics` (`NoPanic`) | - (the properties say what holds until an update is overwritten; findings 5 and 6) |

`SequenceLemmas` holds what the proofs share: the least element of a set of naturals,
what insertion and removal do to a sequence, and that both keep one without duplicates.

`L4Semaphore_proofs`.  The invariant `TypeOK /\ QueuesConsistent /\ ServerConsistent` is
inductive.  `QueuesConsistent` alone is not: that StEnqueue does not enter a thread twice
needs `ServerConsistent` (the thread served by BLOCK is in no queue), that RELEASETIMED
does not unlink a foreign entry needs the state of a thread that gave up.  The lemmas
below it are about the data structures: what `__alloc_entry` returns, where
`__enqueue_thread` inserts, what insertion and removal do to the five parts of
`QueuesConsistent`.  Then one lemma for the steps of the threads, one for the receive, one
for the enqueueing and one for the other steps of the semaphore thread.
`PriorityOrdered` is inductive on top of it: there are only three things a step does to the
queues (`QueueSteps`), and the insertion goes behind all entries of the same or a
higher priority.  `EntryAvailable` counts: the used entries belong to different
threads, and the thread that is about to be enqueued has none.

`L4SemaphoreAccounting_proofs`.  `SleepersCounted` holds with timed waiters too and needs
only the consistency of the queues: each decrement makes one sleeper, each wakeup and
each increment of a timed waiter that gave up ends one.  Without timed waiters
(`TimedThreads = {}`) the invariant adds `Untimed` (no timed request anywhere) and
`TokensAccounted`; the proof follows one unit from the instruction in `up` through the
RELEASE message to `pending` or to a sleeper.  `UpReachesSleeper` combines the two
accounts with `StoredIsEmpty`: no wakeup is stored for a semaphore somebody sleeps on.

`L4SemaphoreRefinement_proofs`.  `value <- tokens`, and `want` is the semaphore a sleeping
thread waits for.  A thread stops to sleep, in the mapping, when the semaphore thread
decides for it and not when the message arrives; everything else but the
instructions in `down`, `try_down` and `up` is a stutter.

`L4Lock_proofs`.  `OneUnit` (the unit is available or with one thread) gives exclusion but
is not inductive, because `unlock` decides by `owner` and `ref_count`; `FieldsFollow` says
what the two fields are in each state of the thread that has the unit.

`USemaphore_proofs`.  `CounterExact` is inductive with the types, for all timeouts.  The other
four rest on `QueueInv`: the types; `Sound`, by which the queue holds distinct threads, the
flag is set while there is one, every sleeper is in the queue or in the hands of the
deletion, and, while the semaphore is valid, whoever is queued or has a timer is in
`block_locked`; and `NoLostWakeup`.  The last is stated with a number, not with "some
thread is on its way": two units in the counter and one thread on the way is a state
from which one unit is lost, so the weaker form is not inductive and says less.  The
assumption excludes the zero timeout of section 4, with which a thread is in the queue
and does not sleep.

`SwitchLock_proofs`.  `IInv` is `TypeOK`, `LocksCounted` and `DonateeIsOwner` with `Places` (which lock a
context is concerned with at each place in the kernel; who kills owns the lock of the
victim) and `Alive` (the running context is live, unmapped ones are not).  Contexts may
sleep with locks; what a kill must not do is end one that owns some.  `HelpReaches` needs
a fact about `Chain`: what `t` has and the loop keeps, all of the chain has, and whatever
is in the chain and does not stop has its donatee there (`ChainProperties`), both because
the chain is the least such set.  Unless the donatee of one is not yet taken back
(`Unsettled`) the donatees are the owners, so every member of the chain owns a lock and is
live.  If none of them stops the loop, each one's owner is another member: a `Circle`.
If one does, it is switched to when it is ready, and is a `Sleeper` when it is not.

`DSIStream_proofs`.  The theorems are about every behaviour; overwritten updates are not
assumed away.  `Typed` is inductive by itself.  `SocketInv` adds `AbortInv` until a socket
flag is overwritten: the work thread sets the blocking flag before it tests the abort flag
and the aborting thread writes and tests in the opposite order, so one of them sees the
other, whatever happens to the packet flags.  `StreamInv` is `Typed /\ (Intact => IInv)`.  A
store under which `Intact` survives finds the word as it was loaded (`StoreInPlace`,
`SocketStoreInPlace`), so that the update takes effect in one step, and the loads change
nothing but a register (`SilentFrame`).  `IInv` consists of `Typed`, `AbortInv` and
- `UnitInv`: a packet is on one side at a time; a side has it in its hands, in its
  counter or as a unit passed to its waiting work thread.  A negative counter is that of a
  waiting work thread, unless an abort took the thread away;
- `SyncInv`: a unit passed to a waiting work thread is told of in exactly one place (a
  COMMITED message, the synchronisation thread on its way, or a pending mark), and a
  sleeping work thread is known in exactly one place (the WAIT being served or a waiting
  mark); the marks are read as the synchronisation thread will find them when its
  store is done;
- `CountInv`: `packets_committed` is at least the number of packets it counts, and the ring
  has room for the others: two inequalities, since a packet an aborted thread had in its
  hands is in neither set;
- `DueInv`: which packet of the stream a descriptor stands for.  `DueAt(g, p)` is the packet a
  side that has got `g` gets next with descriptor `p`; a descriptor the sender may get is
  due for both sides at the same number, one it has got is a round ahead.
The refinement follows from `DueInv` and `UnitInv`: `GetTake` and the commit functions are the
steps of `PacketStream`, everything else is a stutter.  The arithmetic of the ring
(`ModShift`, `ModNext`, `ModReaches`) is proved once and cited.

The scatter gather lists have an invariant of their own on top of these, `SgInv`.  It says
that there are two functions `P` and `I`, the packet and the place of each used element,
such that no two used elements are at the same place; that the elements of a packet on
either side are linked from `sg_list` on, in the order of their places, and end with LAST
at `sg_len`; that what is left of a list being freed is linked from the element the
receiver has reached; and that an empty packet has none.  The functions are existential
because nothing in the control area holds them: after a list is freed in part, its
head may already be in another list.  Elements of a packet an abort took away are only
required to be at places of their own.  A search needs more than a free element
somewhere: there is one between where it is and where it began (`Seeks`), which the
receiver can only add to.  When the search begins any free element will do, and there
is one because there are as many places as elements and the list being filled has a
place left (`FreeElement`).  `SgListsIntact` follows by walking the list (`ElemAtIs`) with the
least place at which the walk would fail.

All inductive invariants were checked with TLC before they were proved.

Only model-checked: everything temporal with fairness (`UpReturns`,
`DownTimedReturns`, the hand-over in `ImplementsCountingSemaphore`,
`WaitedForIsTaken`, `UnitsFound`, `CallsReturn`), since the prover handles neither
fairness nor ENABLED.  Every other invariant of the passing runs is a theorem.  What a recursive definition computes for every input is out of the prover's reach;
the one recursive function, in `ElemAt`, is a bounded walk.

## 6. Not modelled

In the modelled parts: threads that are killed while they sleep or between the
counter and the system call; `l4semaphore_set_thread_prio` and the creation of the
semaphore thread; `L4SEMAPHORE_SEND_ONLY_IPC` and the build without restart; the
allocation and reference counts of kernel semaphores; the page fault that makes the
user memory writable in `pagein_set_queued`, during which `block_locked` can be preempted; MAP and COPY sockets, `dsi_packet_get_data`,
opening and closing of streams and the death of the other end; time slices,
`try_lock`, the lazy locking of the IPC shortcut and the creation of a thread in a TCB
page that was given back; the width of the counters (the runs
and the guards stay far below it).  The other components are listed in `PROJECT.json`
with the reason.

## 7. Plan

1. Proofs: the step lemmas behind the liveness runs, as action properties where they can be
   stated without fairness; `L4Lock` on `L4Semaphore` itself, by composing the two
   refinements.
2. `PrioList`: the pointer structure of `prio_list.cpp` as the implementation of the
   sorted sequence that `USemaphore` uses; `U_lock`, which shares it.
3. Sequential structures against a reference: `dm_phys` page areas, `l4rm` regions.
4. Opening, connecting and closing DSI streams, with the death of one end.

`omega0` and `events` follow if there is room; the parts called vendored, I/O or
generated above are not planned.
