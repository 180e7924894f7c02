-------------------------- MODULE USemaphore_proofs --------------------------
(***************************************************************************)
(* Proofs about the user-level semaphore: for any threads, priorities and  *)
(* bounds, from l4_usem_new on, without cancelled system calls.  Types and *)
(* the counter do not depend on the timeouts in use; what is said of the   *)
(* queue holds if nobody sleeps with a timeout of zero.                    *)
(***************************************************************************)
EXTENDS USemaphore, SequenceLemmas, FiniteSetTheorems

\* Types, what the deleting thread has in hand, and that a timer is set only
\* while its thread sleeps, as long as the semaphore is valid.
Typed ==
    /\ TypeOK
    /\ valid <=> dpc \in {"mapped", "invalidate"}
    /\ valid => \A t \in timer : pc[t] = "asleep"
    /\ dpc = "dequeue" => queue # << >> /\ dw = {Head(queue)}
    /\ dpc = "ready" => \E w \in Threads : dw = {w}

\* What a priority queue of distinct threads becomes when one enters it.
LEMMA EnqueueProperties ==
    ASSUME TypeOK, NEW t \in Threads, Enqueue(t)
    PROVE  /\ queue' \in Seq(Threads)
           /\ IsInjective(queue) /\ ~InQueue(t) =>
                 IsInjective(queue') /\ Range(queue') = Range(queue) \cup {t}
<1> DEFINE D == {i \in DOMAIN queue : Prio[queue[i]] >= Prio[t]}
           n == Cardinality(D)
<1>1. DOMAIN queue = 1 .. Len(queue) /\ Len(queue) \in Nat /\ queue \in Seq(Threads)
  BY LenProperties DEF TypeOK
<1>2. IsFiniteSet(1 .. Len(queue)) /\ Cardinality(1 .. Len(queue)) = Len(queue)
  BY <1>1, FS_Interval
<1>3. D \in SUBSET (1 .. Len(queue))
  BY <1>1
<1>4. IsFiniteSet(D) /\ n <= Len(queue)
  BY <1>2, <1>3, FS_Subset
<1>5. n \in Nat
  BY <1>4, FS_CardinalityType
<1>6. n + 1 \in 1 .. (Len(queue) + 1)
  BY <1>1, <1>4, <1>5
<1>7. queue' = InsertAt(queue, n + 1, t)
  BY DEF Enqueue
<1> HIDE DEF n
<1> QED
  BY <1>1, <1>6, <1>7, InsertAtProperties, InsertAtInjective DEF InQueue

\* What Sem_wakeup and a timeout leave of the queue.
LEMMA DequeueProperties ==
    ASSUME TypeOK
    PROVE  /\ queue # << >> =>
                 /\ Head(queue) \in Threads /\ InQueue(Head(queue))
                 /\ Tail(queue) \in Seq(Threads)
                 /\ IsInjective(queue) =>
                       /\ IsInjective(Tail(queue))
                       /\ Range(Tail(queue)) = Range(queue) \ {Head(queue)}
           /\ \A t \in Threads : InQueue(t) =>
                 /\ RemoveFirst(queue, t) \in Seq(Threads)
                 /\ IsInjective(queue) =>
                       /\ IsInjective(RemoveFirst(queue, t))
                       /\ Range(RemoveFirst(queue, t)) = Range(queue) \ {t}
<1>1. queue \in Seq(Threads)
  BY DEF TypeOK
<1>2. ASSUME queue # << >>
      PROVE  Head(queue) \in Threads /\ InQueue(Head(queue)) /\ Tail(queue) \in Seq(Threads)
  <2>1. 1 \in DOMAIN queue /\ Head(queue) = queue[1] /\ queue[1] \in Threads
    BY <1>1, <1>2
  <2>2. Tail(queue) \in Seq(Threads)
    BY <1>1, <1>2, HeadTailProperties
  <2> QED
    BY <2>1, <2>2 DEF InQueue, Range
<1>3. ASSUME NEW t \in Threads, InQueue(t)
      PROVE  RemoveFirst(queue, t) \in Seq(Threads)
  BY <1>1, <1>3, RemoveFirstPlace, RemoveAtProperties DEF InQueue
<1> QED
  BY <1>1, <1>2, <1>3, TailInjective, RemoveFirstInjective DEF InQueue

-----------------------------------------------------------------------------
(* Types.                                                                  *)

\* No step leaves the types.
LEMMA TypedStep ==
    ASSUME Typed, [Next]_vars
    PROVE  Typed'
<1> USE DEF Typed, InBlock, Mapped, delVars
<1>1. CASE UNCHANGED vars
  BY <1>1 DEF vars, TypeOK
<1>2. ASSUME NEW t \in Threads, NEW timeout \in {"never", "finite", "zero"},
             pc[t] \in {"idle", "retry"}, Decrement(t, timeout)
      PROVE  Typed'
  BY <1>2 DEF TypeOK, Pcs, Decrement, Return, kernVars
<1>3. ASSUME NEW t \in Threads, Up(t) \/ TestQueued(t)
      PROVE  Typed'
  BY <1>3 DEF TypeOK, Pcs, Up, TestQueued, Goto, kernVars, userVars
<1>4. ASSUME NEW t \in Threads, SleepFails(t) \/ SleepOk(t)
      PROVE  Typed'
  <2>1. CASE SleepFails(t)
    BY <2>1 DEF TypeOK, Pcs, SleepFails, Return, kernVars, userVars
  <2>2. CASE SleepOk(t)
    <3>1. queued' \in BOOLEAN
      BY <2>2 DEF SleepOk
    <3> QED
      BY <2>2, <3>1 DEF TypeOK, Pcs, SleepOk, Return, kernVars
  <2> QED
    BY <1>4, <2>1, <2>2
<1>5. ASSUME NEW t \in Threads, SleepBlocks(t)
      PROVE  Typed'
  <2>1. queue' \in Seq(Threads)
    BY <1>5, EnqueueProperties DEF SleepBlocks
  <2> QED
    BY <1>5, <2>1 DEF TypeOK, Pcs, SleepBlocks, Return, Goto
<1>6. ASSUME NEW t \in Threads, TimeoutHit(t)
      PROVE  Typed'
  BY <1>6 DEF TypeOK, Pcs, TimeoutHit, userVars
<1>7. ASSUME NEW t \in Threads, ResumeTimeout(t)
      PROVE  Typed'
  <2>1. queue' \in Seq(Threads)
    BY <1>7, DequeueProperties DEF ResumeTimeout
  <2> QED
    BY <1>7, <2>1 DEF TypeOK, Pcs, ResumeTimeout, Return, userVars
<1>8. ASSUME NEW t \in Threads, ResumeRetry(t) \/ ResumeInvalid(t)
      PROVE  Typed'
  <2>1. CASE ResumeRetry(t)
    BY <2>1 DEF TypeOK, Pcs, ResumeRetry, Goto, userVars
  <2>2. CASE ResumeInvalid(t)
    BY <2>2 DEF TypeOK, Pcs, ResumeInvalid, Return, userVars
  <2> QED
    BY <1>8, <2>1, <2>2
<1>9. ASSUME NEW t \in Threads, Wakeup(t)
      PROVE  Typed'
  <2>1. CASE Mapped /\ queue # << >>
    <3>1. queue' \in Seq(Threads) /\ Head(queue) \in Threads
      BY <1>9, <2>1, DequeueProperties DEF Wakeup
    <3> QED
      BY <1>9, <2>1, <3>1 DEF TypeOK, Pcs, Wakeup
  <2>2. CASE ~(Mapped /\ queue # << >>)
    BY <1>9, <2>2 DEF TypeOK, Pcs, Wakeup, Goto
  <2> QED
    BY <2>1, <2>2
<1>10. CASE Unmap \/ Delete
  <2> USE DEF kernVars, userVars
  <2>1. CASE Unmap \/ Invalidate \/ DeleteFree
    <3>1. CASE Unmap
      BY <3>1 DEF Unmap, TypeOK, DeletePcs
    <3>2. CASE Invalidate
      BY <3>2 DEF Invalidate, TypeOK, DeletePcs
    <3>3. CASE DeleteFree
      BY <3>3 DEF DeleteFree, TypeOK, DeletePcs
    <3> QED
      BY <2>1, <3>1, <3>2, <3>3
  <2>2. CASE DeleteHead
    <3>1. queue # << >> => Head(queue) \in Threads
      BY DequeueProperties
    <3> QED
      BY <2>2, <3>1 DEF DeleteHead, TypeOK, DeletePcs
  <2>3. CASE DeleteDequeue
    <3>1. Head(queue) \in Threads /\ queue' \in Seq(Threads) /\ dw = {Head(queue)}
      BY <2>3, DequeueProperties DEF DeleteDequeue
    <3> QED
      BY <2>3, <3>1 DEF DeleteDequeue, TypeOK, DeletePcs
  <2>4. CASE DeleteReady
    <3>1. PICK w \in Threads : pc' = [pc EXCEPT ![w] = IF @ = "asleep" THEN "ready" ELSE @]
      BY <2>4 DEF DeleteReady, TypeOK
    <3> QED
      BY <2>4, <3>1 DEF DeleteReady, TypeOK, DeletePcs, Pcs
  <2>5. CASE DeleteReset
    BY <2>5 DEF DeleteReset, TypeOK, DeletePcs
  <2> QED
    BY <1>10, <2>1, <2>2, <2>3, <2>4, <2>5 DEF Delete
<1>11. ASSUME NEW t \in Threads, RetryDown(t) \/ \E timeout \in Timeouts : Down(t, timeout)
       PROVE  Typed'
  <2>1. to[t] \in {"never", "finite", "zero"}
    BY DEF TypeOK
  <2> QED
    BY <1>2, <1>11, <2>1, TimeoutsAssumption DEF Down, RetryDown
<1> QED
  BY <1>1, <1>3, <1>4, <1>5, <1>6, <1>7, <1>8, <1>9, <1>10, <1>11 DEF Next

\* The semaphore starts with its types.
LEMMA TypedInit == Init => Typed
<1> SUFFICES ASSUME Init PROVE Typed
  OBVIOUS
<1>1. counter \in Int /\ tokens \in Int /\ queue \in Seq(Threads)
  BY CountAssumption DEF Init
<1>2. /\ pc \in [Threads -> Pcs] /\ to \in [Threads -> {"never", "finite", "zero"}]
      /\ timer = {} /\ hit = {} /\ queued \in BOOLEAN /\ valid = TRUE
      /\ dpc = "mapped" /\ dw = {}
  BY DEF Init, Pcs
<1> QED
  BY <1>1, <1>2 DEF Typed, TypeOK, DeletePcs

\* The user-level semaphore and its kernel object keep to their types, whatever
\* timeouts the threads use.
THEOREM TypeCorrect == SafeSpec => []TypeOK
<1>1. Typed /\ [Next]_vars => Typed'
  BY TypedStep
<1>2. Typed => TypeOK
  BY DEF Typed
<1> QED
  BY <1>1, <1>2, TypedInit, PTL DEF SafeSpec

-----------------------------------------------------------------------------
(* The counter.                                                            *)

\* The sets that are counted are finite.
LEMMA CountedFinite ==
    /\ IsFiniteSet(Transient) /\ Cardinality(Transient) \in Nat
    /\ IsFiniteSet(OnTheWay) /\ Cardinality(OnTheWay) \in Nat
<1>1. Transient \in SUBSET Threads /\ OnTheWay \in SUBSET Threads
  BY DEF Transient, OnTheWay
<1>2. IsFiniteSet(Transient) /\ IsFiniteSet(OnTheWay)
  BY <1>1, ThreadsAssumption, FS_Subset
<1> QED
  BY <1>2, FS_CardinalityType

\* The three ways in which a step keeps the counter exact.
LEMMA CounterKept ==
    ASSUME Typed, Typed', CounterExact, Mapped' => Mapped,
           \/ Transient' = Transient /\ counter' - counter = tokens' - tokens
           \/ \E t : /\ t \notin Transient /\ Transient' = Transient \cup {t}
                     /\ counter' = counter - 1 /\ tokens' = tokens
           \/ \E t : /\ t \in Transient /\ Transient' = Transient \ {t}
                     /\ counter' - counter = tokens' - tokens + 1
    PROVE  CounterExact'
<1> SUFFICES ASSUME Mapped' PROVE counter' = tokens' - Cardinality(Transient')
  BY DEF CounterExact
<1>1. counter \in Int /\ tokens \in Int /\ counter' \in Int /\ tokens' \in Int
  BY DEF Typed, TypeOK
<1>2. IsFiniteSet(Transient) /\ Cardinality(Transient) \in Nat
  BY CountedFinite
<1>3. counter = tokens - Cardinality(Transient)
  BY DEF CounterExact
<1>4. \A t : /\ t \notin Transient => Cardinality(Transient \cup {t}) = Cardinality(Transient) + 1
             /\ t \in Transient => Cardinality(Transient \ {t}) = Cardinality(Transient) - 1
  BY <1>2, FS_AddElement, FS_RemoveElement
<1> QED
  BY <1>1, <1>2, <1>3, <1>4

\* No step makes the counter inexact.
LEMMA CounterStep ==
    ASSUME Typed, CounterExact, [Next]_vars
    PROVE  CounterExact'
<1> USE DEF Mapped, delVars
<1>1. Typed'
  BY TypedStep
<1>2. counter \in Int /\ tokens \in Int /\ pc \in [Threads -> Pcs]
  BY DEF Typed, TypeOK
<1>3. CASE UNCHANGED vars
  <2>1. Transient' = Transient /\ counter' - counter = tokens' - tokens /\ dpc' = dpc
    BY <1>2, <1>3 DEF vars, Transient
  <2> QED
    BY <1>1, <2>1, CounterKept
<1>4. ASSUME NEW t \in Threads, NEW timeout, pc[t] \in {"idle", "retry"},
             Decrement(t, timeout)
      PROVE  CounterExact'
  <2>1. t \notin Transient /\ dpc' = dpc
    BY <1>4 DEF Transient, Decrement, kernVars
  <2>2. CASE counter - 1 >= 0
    <3>1. Transient' = Transient /\ counter' - counter = tokens' - tokens
      BY <1>2, <1>4, <2>2 DEF Decrement, Return, Transient
    <3> QED
      BY <1>1, <2>1, <3>1, CounterKept
  <2>3. CASE ~(counter - 1 >= 0)
    <3>1. Transient' = Transient \cup {t} /\ counter' = counter - 1 /\ tokens' = tokens
      BY <1>2, <1>4, <2>3 DEF Decrement, Transient
    <3> QED
      BY <1>1, <2>1, <3>1, CounterKept
  <2> QED
    BY <2>2, <2>3
<1>5. ASSUME NEW t \in Threads, Up(t)
      PROVE  CounterExact'
  <2>1. Transient' = Transient /\ counter' - counter = tokens' - tokens /\ dpc' = dpc
    BY <1>2, <1>5 DEF Up, Goto, kernVars, Transient
  <2> QED
    BY <1>1, <2>1, CounterKept
<1>6. ASSUME NEW t \in Threads, SleepFails(t)
      PROVE  CounterExact'
  BY <1>6 DEF SleepFails, kernVars, CounterExact
<1>7. ASSUME NEW t \in Threads, SleepOk(t) \/ SleepBlocks(t)
      PROVE  CounterExact'
  <2>1. t \in Transient /\ dpc' = dpc /\ pc[t] = "sleep"
    BY <1>7 DEF SleepOk, SleepBlocks, kernVars, Transient
  <2>2. Transient' = Transient \ {t}
    <3>1. pc' \in {[pc EXCEPT ![t] = "idle"], [pc EXCEPT ![t] = "asleep"]}
      BY <1>7 DEF SleepOk, SleepBlocks, Return, Goto
    <3> QED
      BY <1>2, <3>1 DEF Transient
  <2>3. counter' - counter = tokens' - tokens + 1
    BY <1>2, <1>7 DEF SleepOk, SleepBlocks
  <2> QED
    BY <1>1, <2>1, <2>2, <2>3, CounterKept
<1>8. ASSUME counter' = counter, tokens' = tokens, Mapped' => Mapped,
             \A t \in Threads : pc'[t] = "sleep" <=> pc[t] = "sleep"
      PROVE  CounterExact'
  <2>1. Transient' = Transient
    BY <1>8 DEF Transient
  <2> QED
    BY <1>1, <1>2, <1>8, <2>1, CounterKept
<1>9. ASSUME NEW t \in Threads, TestQueued(t) \/ TimeoutHit(t)
      PROVE  CounterExact'
  BY <1>2, <1>8, <1>9 DEF TestQueued, TimeoutHit, Goto, kernVars, userVars
<1>10. ASSUME NEW t \in Threads, ResumeTimeout(t) \/ ResumeRetry(t) \/ ResumeInvalid(t)
       PROVE  CounterExact'
  BY <1>2, <1>8, <1>10 DEF ResumeTimeout, ResumeRetry, ResumeInvalid, Return, Goto, userVars
<1>11. ASSUME NEW t \in Threads, Wakeup(t)
       PROVE  CounterExact'
  <2>1. queue # << >> => Head(queue) \in Threads
    BY DequeueProperties DEF Typed
  <2>2. \A u \in Threads : pc'[u] = "sleep" <=> pc[u] = "sleep"
    BY <1>2, <1>11, <2>1 DEF Wakeup, Goto
  <2> QED
    BY <1>8, <1>11, <2>2 DEF Wakeup
<1>12. CASE Unmap \/ Delete
  <2>1. ~Mapped'
    BY <1>12
    DEF Unmap, Delete, Invalidate, DeleteHead, DeleteDequeue, DeleteReady, DeleteReset,
        DeleteFree
  <2> QED
    BY <2>1 DEF CounterExact
<1> QED
  BY <1>3, <1>4, <1>5, <1>6, <1>7, <1>9, <1>10, <1>11, <1>12 DEF Next, Down, RetryDown

\* The counter is the number of units minus the decrements still to be undone,
\* whatever timeouts the threads use.
THEOREM CounterIsExact == SafeSpec => []CounterExact
<1>1. Init => Typed /\ CounterExact
  <2>1. Init => Typed
    BY TypedInit
  <2> SUFFICES ASSUME Init PROVE CounterExact
    BY <2>1
  <2>2. Transient = {}
    BY DEF Init, Transient
  <2>3. Cardinality(Transient) = 0
    BY <2>2, FS_EmptySet
  <2> QED
    BY <2>3, CountAssumption DEF Init, CounterExact
<1>2. Typed /\ CounterExact /\ [Next]_vars => Typed' /\ CounterExact'
  BY TypedStep, CounterStep
<1> QED
  BY <1>1, <1>2, PTL DEF SafeSpec

-----------------------------------------------------------------------------
(* The queue, when no thread sleeps with a timeout of zero.                *)

\* The queue holds distinct threads, and the flag is set while there is one.
\* Whoever is asleep is among them, but the one that ~U_semaphore has just
\* dequeued.  Up to ~U_semaphore the threads in the queue are those asleep and
\* those whose timeout hit before they ran again, and every set timer is of one
\* of them.
Sound ==
    /\ IsInjective(queue)
    /\ valid => timer \subseteq Range(queue)
    /\ dpc \in {"free", "freed"} => queue = << >>
    /\ queue # << >> => queued
    /\ \A t \in Threads :
          /\ pc[t] = "asleep" => InQueue(t) \/ (dpc = "ready" /\ t \in dw)
          /\ valid /\ InQueue(t) => pc[t] = "asleep" \/ t \in hit
          /\ to[t] # "zero"

\* An empty queue, as a fact about its range.
LEMMA EmptyQueue ==
    ASSUME TypeOK
    PROVE  Range(queue) \subseteq Threads /\ (Range(queue) = {} <=> queue = << >>)
BY RangeEmpty DEF TypeOK

\* Whoever calls Sem_wakeup does not wake itself.
LEMMA OtherIsWoken ==
    ASSUME Typed, Sound, Mapped, NEW t \in Threads, pc[t] = "wakeup", queue # << >>
    PROVE  /\ Head(queue) \in Threads /\ Head(queue) # t
           /\ pc[Head(queue)] \in {"asleep", "ready"}
<1>1. Head(queue) \in Threads /\ InQueue(Head(queue))
  BY DequeueProperties DEF Typed
<1> QED
  BY <1>1 DEF Sound, Typed, TypeOK, Mapped

\* No step disturbs the queue.
LEMMA SoundStep ==
    ASSUME "zero" \notin Timeouts, Typed, Sound, [Next]_vars
    PROVE  Sound'
<1> DEFINE R == Range(queue)
<1> USE DEF Mapped, delVars
<1>1. Typed'
  BY TypedStep
<1>2. pc \in [Threads -> Pcs] /\ to \in [Threads -> {"never", "finite", "zero"}]
  BY DEF Typed, TypeOK
<1>3. CASE UNCHANGED vars
  BY <1>3 DEF vars, Sound, InQueue
<1>4. ASSUME NEW t \in Threads, pc[t] \notin {"asleep", "ready"},
             pc' \in {[pc EXCEPT ![t] = p] : p \in Pcs \ {"asleep", "ready"}},
             to' \in {[to EXCEPT ![t] = o] : o \in {"never", "finite"}} \cup {to},
             UNCHANGED <<kernVars, delVars>>, queue # << >> => queued'
      PROVE  Sound'
  <2>1. /\ queue' = queue /\ timer' = timer /\ hit' = hit /\ valid' = valid
        /\ dpc' = dpc /\ dw' = dw
    BY <1>4 DEF kernVars
  <2>2. valid => ~InQueue(t)
    BY <1>4 DEF Sound, Typed, TypeOK
  <2>3. ASSUME NEW u \in Threads
        PROVE  /\ pc'[u] = "asleep" <=> pc[u] = "asleep"
               /\ to'[u] # "zero"
    BY <1>2, <1>4 DEF Sound
  <2> QED
    BY <1>4, <2>1, <2>2, <2>3 DEF Sound, InQueue
<1>5. ASSUME NEW t \in Threads, NEW timeout \in {"never", "finite"},
             pc[t] \in {"idle", "retry"}, Decrement(t, timeout)
      PROVE  Sound'
  BY <1>4, <1>5 DEF Decrement, Return, kernVars, Pcs, Sound
<1>6. ASSUME NEW t \in Threads, Up(t) \/ TestQueued(t)
      PROVE  Sound'
  BY <1>4, <1>6 DEF Up, TestQueued, Goto, kernVars, userVars, Pcs, Sound
<1>7. ASSUME NEW t \in Threads, SleepFails(t) \/ SleepOk(t)
      PROVE  Sound'
  BY <1>4, <1>7 DEF SleepFails, SleepOk, Return, kernVars, userVars, Pcs, Sound
<1>8. ASSUME NEW t \in Threads, SleepBlocks(t)
      PROVE  Sound'
  <2>1. ~InQueue(t) /\ t \notin hit /\ to[t] # "zero"
    BY <1>8 DEF SleepBlocks, Sound, Typed, TypeOK
  <2>2. /\ IsInjective(queue') /\ Range(queue') = R \cup {t}
    BY <1>8, <2>1, EnqueueProperties DEF SleepBlocks, Sound, Typed
  <2>3. /\ pc' = [pc EXCEPT ![t] = "asleep"] /\ to' = to /\ hit' = hit /\ valid' = valid /\ valid
        /\ dpc' = dpc /\ dpc = "mapped"
        /\ queued' = TRUE /\ timer' \subseteq timer \cup {t}
    BY <1>8, <2>1 DEF SleepBlocks, Goto, Typed
  <2> QED
    BY <1>2, <2>1, <2>2, <2>3 DEF Sound, InQueue
<1>9. ASSUME NEW t \in Threads, TimeoutHit(t)
      PROVE  Sound'
  <2>1. /\ queue' = queue /\ valid' = valid /\ queued' = queued /\ to' = to
        /\ timer' = timer \ {t} /\ dpc' = dpc /\ dw' = dw
        /\ hit \subseteq hit' /\ (valid => t \in hit')
        /\ pc' = [pc EXCEPT ![t] = IF @ = "asleep" THEN "ready" ELSE @]
    BY <1>9 DEF TimeoutHit, userVars, Typed, InBlock
  <2> QED
    BY <1>2, <2>1 DEF Sound, InQueue
<1>10. ASSUME NEW t \in Threads, ResumeTimeout(t)
       PROVE  Sound'
  <2>1. /\ IsInjective(queue') /\ Range(queue') = R \ {t}
    BY <1>10, DequeueProperties DEF ResumeTimeout, Sound, Typed
  <2>2. queue # << >>
    BY <1>10, EmptyQueue DEF ResumeTimeout, InQueue, Typed
  <2>3. t \notin timer /\ pc[t] = "ready" /\ dpc \in {"mapped", "invalidate"}
    BY <1>10 DEF ResumeTimeout, Typed
  <2>4. /\ pc' = [pc EXCEPT ![t] = "idle"] /\ to' = [to EXCEPT ![t] = "never"]
        /\ hit' = hit \ {t} /\ valid' = valid /\ valid /\ queued' = queued /\ timer' = timer
        /\ dpc' = dpc /\ dw' = dw
    BY <1>10 DEF ResumeTimeout, Return, userVars
  <2> QED
    BY <1>2, <2>1, <2>2, <2>3, <2>4 DEF Sound, InQueue
<1>11. ASSUME NEW t \in Threads, ResumeRetry(t) \/ ResumeInvalid(t)
       PROVE  Sound'
  <2>1. valid => ~InQueue(t)
    BY <1>11 DEF ResumeRetry, ResumeInvalid, Sound
  <2>2. /\ queue' = queue /\ valid' = valid /\ queued' = queued /\ timer' = timer
        /\ hit' = hit \ {t} /\ pc[t] = "ready" /\ dpc' = dpc /\ dw' = dw
        /\ pc' \in {[pc EXCEPT ![t] = "idle"], [pc EXCEPT ![t] = "retry"]}
        /\ to' \in {to, [to EXCEPT ![t] = "never"]}
    BY <1>11 DEF ResumeRetry, ResumeInvalid, Return, Goto, userVars
  <2> QED
    BY <1>2, <2>1, <2>2 DEF Sound, InQueue
<1>12. ASSUME NEW t \in Threads, Wakeup(t)
       PROVE  Sound'
  <2>1. CASE Mapped /\ queue # << >>
    <3> PICK w : w = Head(queue)
      OBVIOUS
    <3>1. w \in Threads /\ w # t /\ pc[w] \in {"asleep", "ready"}
      BY <1>12, <2>1, OtherIsWoken DEF Wakeup
    <3>2. IsInjective(queue') /\ Range(queue') = R \ {w}
      BY <1>12, <2>1, DequeueProperties DEF Wakeup, Sound, Typed
    <3>3. /\ queued' = (queue' # << >>) /\ valid' = valid /\ hit' = hit /\ to' = to
          /\ timer' = timer \ {w} /\ pc[t] = "wakeup" /\ dpc' = dpc /\ valid
          /\ pc' = [pc EXCEPT ![t] = "idle", ![w] = IF @ = "asleep" THEN "ready" ELSE @]
      BY <1>12, <2>1 DEF Wakeup, Typed
    <3>4. pc'[t] = "idle" /\ pc'[w] = "ready" /\ \A u \in Threads \ {t, w} : pc'[u] = pc[u]
      BY <1>2, <3>1, <3>3
    <3>5. ~InQueue(t)
      BY <3>3 DEF Sound, Typed, TypeOK
    <3> QED
      BY <2>1, <3>1, <3>2, <3>3, <3>4, <3>5 DEF Sound, InQueue
  <2>2. CASE ~(Mapped /\ queue # << >>)
    BY <1>4, <1>12, <2>2 DEF Wakeup, Goto, kernVars, Pcs, Sound
  <2> QED
    BY <2>1, <2>2
<1>13. CASE Unmap \/ Delete
  <2> USE DEF kernVars, userVars
  <2>1. CASE Unmap \/ Invalidate \/ DeleteFree
    BY <2>1 DEF Unmap, Invalidate, DeleteFree, Sound, InQueue, Typed
  <2>2. CASE DeleteHead
    BY <2>2 DEF DeleteHead, Sound, InQueue
  <2>3. CASE DeleteDequeue
    <3> PICK w : w = Head(queue)
      OBVIOUS
    <3>1. queue # << >> /\ dw = {w} /\ dpc = "dequeue" /\ w \in Threads /\ InQueue(w)
      BY <2>3, DequeueProperties DEF DeleteDequeue, Typed
    <3>2. IsInjective(queue') /\ Range(queue') = R \ {w}
      BY <2>3, <3>1, DequeueProperties DEF DeleteDequeue, Sound, Typed
    <3>3. /\ dpc' = "ready" /\ dw' = dw /\ pc' = pc /\ to' = to /\ hit' = hit
          /\ queued' = queued /\ valid' = valid /\ ~valid
      BY <2>3, <3>1 DEF DeleteDequeue, Typed
    <3> QED
      BY <3>1, <3>2, <3>3 DEF Sound, InQueue
  <2>4. CASE DeleteReady
    <3>1. PICK w \in Threads : /\ dw = {w}
                              /\ pc' = [pc EXCEPT ![w] = IF @ = "asleep" THEN "ready" ELSE @]
      BY <2>4 DEF DeleteReady, Typed
    <3>2. /\ dpc' = "reset" /\ queue' = queue /\ to' = to /\ queued' = queued
          /\ valid' = valid /\ ~valid
      BY <2>4 DEF DeleteReady, Typed
    <3>3. \A u \in Threads : pc'[u] = "asleep" => pc[u] = "asleep" /\ u # w
      BY <1>2, <3>1
    <3> QED
      BY <3>1, <3>2, <3>3 DEF Sound, InQueue
  <2>5. CASE DeleteReset
    BY <2>5 DEF DeleteReset, Sound, InQueue, Typed
  <2> QED
    BY <1>13, <2>1, <2>2, <2>3, <2>4, <2>5 DEF Delete
<1>14. ASSUME NEW t \in Threads, RetryDown(t) \/ \E timeout \in Timeouts : Down(t, timeout)
       PROVE  Sound'
  <2>1. to[t] \in {"never", "finite"} /\ Timeouts \subseteq {"never", "finite"}
    BY <1>2, TimeoutsAssumption DEF Sound
  <2> QED
    BY <1>5, <1>14, <2>1 DEF Down, RetryDown
<1> QED
  BY <1>3, <1>6, <1>7, <1>8, <1>9, <1>10, <1>11, <1>12, <1>13, <1>14 DEF Next

\* The ways in which a step leaves enough threads on the way to the units.
LEMMA WayKept ==
    ASSUME Typed, Typed', NoLostWakeup,
           Mapped' => Mapped, queue' # << >> => queue # << >>,
           \/ OnTheWay' = OnTheWay /\ counter' <= counter
           \/ \E t : OnTheWay' = OnTheWay \ {t} /\ counter' = counter - 1
           \/ \E t : /\ t \notin OnTheWay /\ OnTheWay' = OnTheWay \cup {t}
                     /\ counter' = counter + 1
           \/ \E t, w : /\ t \in OnTheWay /\ w \notin OnTheWay
                        /\ OnTheWay' = (OnTheWay \ {t}) \cup {w} /\ counter' = counter
    PROVE  NoLostWakeup'
<1> SUFFICES ASSUME Mapped', queue' # << >> PROVE counter' <= Cardinality(OnTheWay')
  BY DEF NoLostWakeup
<1>1. counter \in Int /\ counter' \in Int
  BY DEF Typed, TypeOK
<1>2. IsFiniteSet(OnTheWay) /\ Cardinality(OnTheWay) \in Nat
  BY CountedFinite
<1>3. counter <= Cardinality(OnTheWay)
  BY DEF NoLostWakeup
<1>4. CASE OnTheWay' = OnTheWay /\ counter' <= counter
  BY <1>1, <1>2, <1>3, <1>4
<1>5. CASE \E t : OnTheWay' = OnTheWay \ {t} /\ counter' = counter - 1
  <2> PICK t : OnTheWay' = OnTheWay \ {t} /\ counter' = counter - 1
    BY <1>5
  <2>1. Cardinality(OnTheWay') = IF t \in OnTheWay THEN Cardinality(OnTheWay) - 1
                                 ELSE Cardinality(OnTheWay)
    BY <1>2, FS_RemoveElement
  <2> QED
    BY <1>1, <1>2, <1>3, <2>1
<1>6. CASE \E t : /\ t \notin OnTheWay /\ OnTheWay' = OnTheWay \cup {t}
                  /\ counter' = counter + 1
  <2> PICK t : /\ t \notin OnTheWay /\ OnTheWay' = OnTheWay \cup {t}
               /\ counter' = counter + 1
    BY <1>6
  <2>1. Cardinality(OnTheWay') = Cardinality(OnTheWay) + 1
    BY <1>2, FS_AddElement
  <2> QED
    BY <1>1, <1>2, <1>3, <2>1
<1>7. CASE \E t, w : /\ t \in OnTheWay /\ w \notin OnTheWay
                     /\ OnTheWay' = (OnTheWay \ {t}) \cup {w} /\ counter' = counter
  <2> PICK t, w : /\ t \in OnTheWay /\ w \notin OnTheWay
                  /\ OnTheWay' = (OnTheWay \ {t}) \cup {w} /\ counter' = counter
    BY <1>7
  <2>1. /\ IsFiniteSet(OnTheWay \ {t}) /\ w \notin OnTheWay \ {t}
        /\ Cardinality(OnTheWay \ {t}) = Cardinality(OnTheWay) - 1
    BY <1>2, FS_RemoveElement
  <2>2. Cardinality(OnTheWay') = Cardinality(OnTheWay \ {t}) + 1
    BY <2>1, FS_AddElement
  <2> QED
    BY <1>1, <1>2, <1>3, <2>1, <2>2
<1> QED
  BY <1>4, <1>5, <1>6, <1>7

\* No step loses a wakeup.
LEMMA WayStep ==
    ASSUME Typed, Sound, Sound', NoLostWakeup, [Next]_vars
    PROVE  NoLostWakeup'
<1> SUFFICES ASSUME Mapped' PROVE NoLostWakeup'
  BY DEF NoLostWakeup
<1> USE DEF Mapped, delVars
<1>0. Mapped /\ valid /\ dpc = "mapped"
  <2>1. Mapped
    BY DEF Next, Down, RetryDown, Decrement, Up, TestQueued, SleepFails, SleepOk,
           SleepBlocks, TimeoutHit, ResumeTimeout, ResumeRetry, ResumeInvalid, Wakeup,
           Unmap, Delete, Invalidate, DeleteHead, DeleteDequeue, DeleteReady,
           DeleteReset, DeleteFree, vars
  <2> QED
    BY <2>1 DEF Typed
<1>1. Typed'
  BY TypedStep
<1>2. counter \in Int /\ pc \in [Threads -> Pcs]
  BY DEF Typed, TypeOK
<1>3. CASE UNCHANGED vars
  BY <1>3 DEF vars, NoLostWakeup, OnTheWay, InQueue
<1>4. ASSUME NEW t \in Threads, pc[t] \in {"idle", "sleep"}, pc'[t] \in {"idle", "sleep"},
             \A u \in Threads \ {t} : pc'[u] = pc[u],
             counter' <= counter, UNCHANGED <<dpc, queue>>
      PROVE  NoLostWakeup'
  <2>1. OnTheWay' = OnTheWay
    BY <1>4 DEF OnTheWay, InQueue
  <2> QED
    BY <1>1, <1>4, <2>1, WayKept
<1>5. ASSUME NEW t \in Threads, NEW timeout, Down(t, timeout)
      PROVE  NoLostWakeup'
  <2>1. pc[t] = "idle" /\ counter' <= counter /\ UNCHANGED <<dpc, queue>>
    BY <1>2, <1>5 DEF Down, Decrement, kernVars
  <2>2. pc' \in {[pc EXCEPT ![t] = "idle"], [pc EXCEPT ![t] = "sleep"]}
    BY <1>5 DEF Down, Decrement, Return
  <2> QED
    BY <1>2, <1>4, <2>1, <2>2
<1>6. ASSUME NEW t \in Threads, RetryDown(t)
      PROVE  NoLostWakeup'
  <2>1. pc[t] = "retry" /\ counter' = counter - 1 /\ UNCHANGED <<dpc, queue>>
    BY <1>6 DEF RetryDown, Decrement, kernVars
  <2>2. pc' \in {[pc EXCEPT ![t] = "idle"], [pc EXCEPT ![t] = "sleep"]}
    BY <1>6 DEF RetryDown, Decrement, Return
  <2>3. OnTheWay' = OnTheWay \ {t}
    BY <1>2, <2>1, <2>2 DEF OnTheWay, InQueue
  <2> QED
    BY <1>1, <2>1, <2>3, WayKept
<1>7. ASSUME NEW t \in Threads, Up(t)
      PROVE  NoLostWakeup'
  <2>1. pc[t] = "idle" /\ counter' = counter + 1 /\ UNCHANGED <<dpc, queue>>
        /\ pc' = [pc EXCEPT ![t] = "test"]
    BY <1>7 DEF Up, Goto, kernVars
  <2>2. t \notin OnTheWay /\ OnTheWay' = OnTheWay \cup {t}
    BY <1>2, <2>1 DEF OnTheWay, InQueue
  <2> QED
    BY <1>1, <2>1, <2>2, WayKept
<1>8. ASSUME NEW t \in Threads, TestQueued(t)
      PROVE  NoLostWakeup'
  <2>1. CASE queue = << >>
    BY <1>8, <2>1 DEF TestQueued, kernVars, NoLostWakeup
  <2>2. CASE queue # << >>
    <3>1. pc[t] = "test" /\ pc' = [pc EXCEPT ![t] = "wakeup"]
          /\ counter' = counter /\ UNCHANGED <<dpc, queue>>
      BY <1>8, <2>2 DEF TestQueued, Goto, userVars, kernVars, Sound
    <3>2. OnTheWay' = OnTheWay
      BY <1>2, <3>1 DEF OnTheWay, InQueue
    <3> QED
      BY <1>1, <1>2, <3>1, <3>2, WayKept
  <2> QED
    BY <2>1, <2>2
<1>9. ASSUME NEW t \in Threads, SleepFails(t) \/ SleepOk(t)
      PROVE  NoLostWakeup'
  <2>1. pc[t] = "sleep" /\ counter' = counter /\ UNCHANGED <<dpc, queue>>
        /\ pc' = [pc EXCEPT ![t] = "idle"]
    BY <1>9 DEF SleepFails, SleepOk, Return, kernVars, userVars
  <2> QED
    BY <1>2, <1>4, <2>1
<1>10. ASSUME NEW t \in Threads, SleepBlocks(t)
       PROVE  NoLostWakeup'
  <2>1. counter' = 0
    BY <1>2, <1>10 DEF SleepBlocks, CounterPositive
  <2>2. Cardinality(OnTheWay') \in Nat
    <3>1. OnTheWay' \in SUBSET Threads
      BY DEF OnTheWay
    <3> QED
      BY <3>1, ThreadsAssumption, FS_Subset, FS_CardinalityType
  <2> QED
    BY <2>1, <2>2 DEF NoLostWakeup
<1>11. ASSUME NEW t \in Threads, TimeoutHit(t)
       PROVE  NoLostWakeup'
  <2>1. pc[t] = "asleep" /\ InQueue(t)
    BY <1>0, <1>11 DEF TimeoutHit, Typed, Sound
  <2>2. pc' = [pc EXCEPT ![t] = "ready"] /\ counter' = counter /\ UNCHANGED <<dpc, queue>>
    BY <1>11, <2>1 DEF TimeoutHit, userVars
  <2>3. OnTheWay' = OnTheWay
    BY <1>2, <2>1, <2>2 DEF OnTheWay, InQueue
  <2> QED
    BY <1>1, <1>2, <2>2, <2>3, WayKept
<1>12. ASSUME NEW t \in Threads, ResumeTimeout(t)
       PROVE  NoLostWakeup'
  <2>1. Range(queue') = Range(queue) \ {t}
    BY <1>12, DequeueProperties DEF ResumeTimeout, Sound, Typed
  <2>2. pc[t] = "ready" /\ InQueue(t) /\ pc' = [pc EXCEPT ![t] = "idle"]
        /\ counter' = counter /\ dpc' = dpc
    BY <1>12 DEF ResumeTimeout, Return, userVars
  <2>3. queue # << >>
    BY <2>2, EmptyQueue DEF InQueue, Typed
  <2>4. OnTheWay' = OnTheWay
    BY <1>2, <2>1, <2>2 DEF OnTheWay, InQueue
  <2> QED
    BY <1>1, <1>2, <2>2, <2>3, <2>4, WayKept
<1>13. ASSUME NEW t \in Threads, ResumeRetry(t)
       PROVE  NoLostWakeup'
  <2>1. ~InQueue(t)
    BY <1>0, <1>13 DEF ResumeRetry, Sound
  <2>2. pc[t] = "ready" /\ pc' = [pc EXCEPT ![t] = "retry"]
        /\ counter' = counter /\ UNCHANGED <<dpc, queue>>
    BY <1>13 DEF ResumeRetry, Goto, userVars
  <2>3. OnTheWay' = OnTheWay
    BY <1>2, <2>1, <2>2 DEF OnTheWay, InQueue
  <2> QED
    BY <1>1, <1>2, <2>2, <2>3, WayKept
<1>14. ASSUME NEW t \in Threads, Wakeup(t)
       PROVE  NoLostWakeup'
  <2>1. CASE Mapped /\ queue # << >>
    <3> PICK w : w = Head(queue)
      OBVIOUS
    <3>1. w \in Threads /\ w # t /\ pc[w] \in {"asleep", "ready"} /\ InQueue(w)
      BY <1>14, <2>1, OtherIsWoken, DequeueProperties DEF Wakeup, Typed
    <3>2. Range(queue') = Range(queue) \ {w}
      BY <1>14, <2>1, DequeueProperties DEF Wakeup, Sound, Typed
    <3>3. /\ dpc' = dpc /\ counter' = counter /\ pc[t] = "wakeup"
          /\ pc' = [pc EXCEPT ![t] = "idle", ![w] = IF @ = "asleep" THEN "ready" ELSE @]
      BY <1>14, <2>1 DEF Wakeup
    <3>4. pc'[t] = "idle" /\ pc'[w] = "ready" /\ \A u \in Threads \ {t, w} : pc'[u] = pc[u]
      BY <1>2, <3>1, <3>3
    <3>5. t \in OnTheWay /\ w \notin OnTheWay /\ OnTheWay' = (OnTheWay \ {t}) \cup {w}
      BY <3>1, <3>2, <3>3, <3>4 DEF OnTheWay, InQueue
    <3> QED
      BY <1>1, <2>1, <3>3, <3>5, WayKept
  <2>2. CASE ~(Mapped /\ queue # << >>)
    BY <1>14, <2>2 DEF Wakeup, NoLostWakeup
  <2> QED
    BY <2>1, <2>2
<1>15. ~Unmap /\ ~Delete /\ \A t \in Threads : ~ResumeInvalid(t)
  BY <1>0 DEF Unmap, Delete, Invalidate, DeleteHead, DeleteDequeue, DeleteReady,
              DeleteReset, DeleteFree, ResumeInvalid
<1> QED
  BY <1>3, <1>5, <1>6, <1>7, <1>8, <1>9, <1>10, <1>11, <1>12, <1>13, <1>14, <1>15 DEF Next

\* What every reachable state satisfies.
QueueInv == Typed /\ Sound /\ NoLostWakeup

\* Sound and NoLostWakeup hold at the start.
LEMMA QueueInit == Init => QueueInv
<1> SUFFICES ASSUME Init PROVE Sound /\ NoLostWakeup
  BY TypedInit DEF QueueInv
<1>1. IsInjective(queue) /\ Range(queue) = {} /\ queue = << >>
  BY DEF Init, IsInjective, Range
<1> QED
  BY <1>1 DEF Init, Sound, NoLostWakeup, InQueue

\* Every step keeps them.
LEMMA QueueStep ==
    ASSUME "zero" \notin Timeouts
    PROVE  QueueInv /\ [Next]_vars => QueueInv'
BY TypedStep, SoundStep, WayStep DEF QueueInv

\* The flag that up tests covers the queue, unless somebody sleeps with a
\* timeout of zero.
THEOREM FlagCovers ==
    ASSUME "zero" \notin Timeouts
    PROVE  SafeSpec => []FlagCoversQueue
<1>1. QueueInv /\ [Next]_vars => QueueInv'
  BY QueueStep
<1>2. QueueInv => FlagCoversQueue
  BY DEF QueueInv, Sound, FlagCoversQueue
<1> QED
  BY <1>1, <1>2, QueueInit, PTL DEF SafeSpec

\* No wakeup is lost: while threads sleep, somebody is on the way for every
\* unit in the counter.
THEOREM WakeupsReach ==
    ASSUME "zero" \notin Timeouts
    PROVE  SafeSpec => []NoLostWakeup
<1>1. QueueInv /\ [Next]_vars => QueueInv'
  BY QueueStep
<1>2. QueueInv => NoLostWakeup
  BY DEF QueueInv
<1> QED
  BY <1>1, <1>2, QueueInit, PTL DEF SafeSpec

\* Nobody is in the queue twice; up to ~U_semaphore whoever is in the queue or
\* has a timer set is in block_locked.
THEOREM QueueHoldsSleepers ==
    ASSUME "zero" \notin Timeouts
    PROVE  SafeSpec => []QueuedSleep
<1>1. QueueInv /\ [Next]_vars => QueueInv'
  BY QueueStep
<1>2. QueueInv => QueuedSleep
  <2> SUFFICES ASSUME Typed, Sound PROVE QueuedSleep
    BY DEF QueueInv
  <2>1. ASSUME valid, NEW i \in DOMAIN queue
        PROVE  InBlock(queue[i])
    <3>1. queue[i] \in Threads /\ InQueue(queue[i])
      BY DEF Typed, TypeOK, InQueue, Range
    <3> QED
      BY <2>1, <3>1 DEF Typed, TypeOK, Sound, InBlock
  <2> QED
    BY <2>1 DEF Sound, IsInjective, QueuedSleep
<1> QED
  BY <1>1, <1>2, QueueInit, PTL DEF SafeSpec

\* No thread sleeps where neither an up nor ~U_semaphore finds it, wherever
\* timeouts and woken threads overtake the deletion.
THEOREM SleepersQueued ==
    ASSUME "zero" \notin Timeouts
    PROVE  SafeSpec => []AsleepIsQueued
<1>1. QueueInv /\ [Next]_vars => QueueInv'
  BY QueueStep
<1>2. QueueInv => AsleepIsQueued
  BY EmptyQueue DEF QueueInv, Typed, Sound, AsleepIsQueued, InQueue
<1> QED
  BY <1>1, <1>2, QueueInit, PTL DEF SafeSpec
=============================================================================
