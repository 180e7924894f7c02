------------------------ MODULE L4Semaphore_proofs ------------------------
(***************************************************************************)
(* Theorems about L4Semaphore for every number of threads, semaphores,     *)
(* wait queue entries and priorities.                                      *)
(***************************************************************************)
EXTENDS L4Semaphore, SequenceLemmas, FiniteSetTheorems

\* __alloc_entry returns an entry of the array that is free, if there is one.
LEMMA AllocEntryFree ==
    ASSUME wqThread \in [Slots -> Threads \cup {None}], next_entry \in Slots,
           NEW i \in Slots, Free(i)
    PROVE  AllocEntry \in Slots /\ Free(AllocEntry)
<1> USE WqAssumption
<1> DEFINE At(k) == (next_entry + k) % MaxWqEntries
           First(k) == Free(At(k)) /\ \A j \in 0 .. (k - 1) : ~Free(At(j))
<1>1. \A k \in Nat : At(k) \in Slots
  BY DEF Slots
<1>2. \E k \in Slots : At(k) = i
  <2> DEFINE d == IF i >= next_entry THEN i - next_entry ELSE i + MaxWqEntries - next_entry
  <2>1. d \in Slots /\ next_entry + d \in {i, i + MaxWqEntries}
    BY DEF Slots
  <2>2. At(d) = i
    BY <2>1 DEF Slots
  <2> QED BY <2>1, <2>2
<1>3. \E k \in Slots : First(k)
  <2> DEFINE T == {k \in Slots : Free(At(k))}
  <2> HIDE DEF At
  <2>1. T \in SUBSET Nat /\ T # {}
    BY <1>2 DEF Slots
  <2>2. PICK k \in T : \A j \in T : k <= j
    BY <2>1, LeastNat
  <2>3. ASSUME NEW j \in 0 .. (k - 1) PROVE ~Free(At(j))
    <3>1. j \in Slots /\ ~(k <= j)
      BY DEF Slots
    <3> QED
      BY <3>1, <2>2
  <2> QED
    BY <2>2, <2>3
<1>4. PICK k \in Slots : First(k) /\ AllocEntry = At(k)
  BY <1>3 DEF AllocEntry
<1> QED
  BY <1>1, <1>4 DEF Slots

\* __enqueue_thread finds a place: behind entries that are not below the new
\* priority, before one that is.
LEMMA InsertPosPlace ==
    ASSUME wqPrio \in [Slots -> Nat], NEW q \in Seq(Slots), NEW p \in Nat
    PROVE  /\ InsertPos(q, p) \in 1 .. (Len(q) + 1)
           /\ \A j \in 1 .. (InsertPos(q, p) - 1) : wqPrio[q[j]] >= p
           /\ InsertPos(q, p) <= Len(q) => wqPrio[q[InsertPos(q, p)]] < p
<1> DEFINE T == {i \in 1 .. (Len(q) + 1) : i <= Len(q) => wqPrio[q[i]] < p}
           Place(i) == /\ \A j \in 1 .. (i - 1) : wqPrio[q[j]] >= p
                       /\ i <= Len(q) => wqPrio[q[i]] < p
<1>1. T \in SUBSET Nat /\ Len(q) + 1 \in T
  OBVIOUS
<1>2. PICK i \in T : \A j \in T : i <= j
  BY <1>1, LeastNat
<1>3. ASSUME NEW j \in 1 .. (i - 1) PROVE wqPrio[q[j]] >= p
  <2>1. j \in 1 .. Len(q) /\ j \notin T
    BY <1>2
  <2>2. q[j] \in Slots
    BY <2>1, ElementOfSeq
  <2> QED
    BY <2>1, <2>2
<1>4. \E k \in 1 .. (Len(q) + 1) : Place(k)
  BY <1>2, <1>3
<1> QED
  BY <1>4 DEF InsertPos

-----------------------------------------------------------------------------
(* The inductive invariant: TypeOK alone is not inductive, because         *)
(* RELEASETIMED unlinks the entry a mark points to, which has to be in the *)
(* queue; that it is depends on what every sleeping thread and the         *)
(* semaphore thread are doing.                                             *)
IInv == TypeOK /\ QueuesConsistent /\ ServerConsistent

\* What a step that leaves the wait queues alone does to them.
LEMMA QueuesUntouched ==
    ASSUME QueuesConsistent, UNCHANGED wqVars, EntriesConsistent'
    PROVE  QueuesConsistent'
<1>1. queue' = queue /\ wqThread' = wqThread /\ data' = data
  BY DEF wqVars
<1>2. NoEntryTwice' /\ NoEntryLost'
  BY <1>1 DEF QueuesConsistent, NoEntryTwice, NoEntryLost
<1>3. OneEntryPerThread' /\ MarksValid'
  BY <1>1 DEF QueuesConsistent, OneEntryPerThread, MarksValid
<1> QED
  BY <1>2, <1>3 DEF QueuesConsistent

\* The effect of freeing entry e.
RemoveEffect(e) ==
    /\ queue' \in [Sems -> Seq(Slots)]
    /\ wqThread' \in [Slots -> Threads \cup {None}]
    /\ wqThread'[e] = None
    /\ \A f \in Slots : f # e => wqThread'[f] = wqThread[f]
    /\ wqPrio' = wqPrio /\ next_entry' = next_entry
    /\ data' \in [Threads -> Slots \cup {None}]
    /\ \A r \in Sems : \A k \in DOMAIN queue'[r] :
          /\ queue'[r][k] # e
          /\ \E j \in DOMAIN queue[r] : queue'[r][k] = queue[r][j]
    /\ NoEntryTwice' /\ NoEntryLost' /\ OneEntryPerThread' /\ MarksValid'

\* What freeing an entry does to the queues, __free_entry and the unmarking.
LEMMA RemoveEntryStep ==
    ASSUME TypeOK, QueuesConsistent,
           NEW s \in Sems, NEW e \in Slots, \E k \in DOMAIN queue[s] : queue[s][k] = e,
           RemoveEntry(s, e), data' = [data EXCEPT ![wqThread[e]] = None]
    PROVE  RemoveEffect(e)
<1> DEFINE i == CHOOSE k \in DOMAIN queue[s] : queue[s][k] = e
           q == queue[s]
<1>1. q \in Seq(Slots) /\ i \in 1 .. Len(q) /\ q[i] = e
  BY SMTT(30) DEF TypeOK
<1>2. queue' = [queue EXCEPT ![s] = RemoveAt(q, i)]
  BY DEF RemoveEntry
<1>3. EntryConsistent(s, e)
  BY <1>1 DEF QueuesConsistent, EntriesConsistent
<1>4. wqThread[e] \in Threads
  BY <1>3 DEF EntryConsistent
<1> HIDE DEF i, q
<1>5. /\ RemoveAt(q, i) \in Seq(Slots)
      /\ Len(RemoveAt(q, i)) = Len(q) - 1
      /\ \A k \in 1 .. (Len(q) - 1) :
            RemoveAt(q, i)[k] = IF k < i THEN q[k] ELSE q[k + 1]
  BY <1>1, RemoveAtProperties
<1>6. queue' \in [Sems -> Seq(Slots)]
  BY <1>2, <1>5 DEF TypeOK
<1>7. wqThread' \in [Slots -> Threads \cup {None}]
  BY DEF RemoveEntry, TypeOK
<1>8. data' \in [Threads -> Slots \cup {None}]
  BY DEF TypeOK
<1>9. /\ wqThread'[e] = None
      /\ \A f \in Slots : f # e => wqThread'[f] = wqThread[f]
  BY DEF RemoveEntry, TypeOK
<1>10. wqPrio' = wqPrio /\ next_entry' = next_entry
  BY DEF RemoveEntry
\* Position k of the new queue of r was position Old(r, k) of the old one.
<1> DEFINE Old(r, k) == IF r = s /\ k >= i THEN k + 1 ELSE k
<1>11. ASSUME NEW r \in Sems, NEW k \in DOMAIN queue'[r]
       PROVE  /\ Old(r, k) \in DOMAIN queue[r]
              /\ queue'[r][k] = queue[r][Old(r, k)]
              /\ ~(r = s /\ Old(r, k) = i)
  <2>1. CASE r = s
    <3>1. queue'[r] = RemoveAt(q, i) /\ queue[r] = q
      BY <2>1, <1>2 DEF q, TypeOK
    <3>2. k \in 1 .. (Len(q) - 1)
      BY <3>1, <1>5, LenProperties
    <3> QED
      BY <2>1, <3>1, <3>2, <1>1, <1>5
  <2>2. CASE r # s
    BY <2>2, <1>2 DEF TypeOK
  <2> QED
    BY <2>1, <2>2
<1>12. ASSUME NEW r \in Sems, NEW k \in DOMAIN queue[r], ~(r = s /\ k = i)
       PROVE  \E j \in DOMAIN queue'[r] : queue'[r][j] = queue[r][k]
  <2>1. CASE r = s
    <3>1. queue'[r] = RemoveAt(q, i) /\ queue[r] = q
      BY <2>1, <1>2 DEF q, TypeOK
    <3>2. DOMAIN queue'[r] = 1 .. (Len(q) - 1) /\ k \in 1 .. Len(q) /\ k # i
      BY <2>1, <3>1, <1>1, <1>5, <1>12, LenProperties
    <3>3. CASE k < i
      <4>1. k \in 1 .. (Len(q) - 1)
        BY <3>2, <3>3, <1>1
      <4> QED
        BY <3>1, <3>2, <3>3, <4>1, <1>5
    <3>4. CASE k > i
      <4>1. k - 1 \in 1 .. (Len(q) - 1) /\ ~(k - 1 < i) /\ (k - 1) + 1 = k
        BY <3>2, <3>4, <1>1
      <4> QED
        BY <3>1, <3>2, <4>1, <1>5
    <3> QED
      BY <3>2, <3>3, <3>4, <1>1
  <2>2. CASE r # s
    BY <2>2, <1>2 DEF TypeOK
  <2> QED
    BY <2>1, <2>2
<1>13. NoEntryTwice'
  <2> SUFFICES ASSUME NEW r1 \in Sems, NEW r2 \in Sems,
                      NEW k1 \in DOMAIN queue'[r1], NEW k2 \in DOMAIN queue'[r2],
                      queue'[r1][k1] = queue'[r2][k2]
               PROVE  r1 = r2 /\ k1 = k2
    BY DEF NoEntryTwice
  <2>1. r1 = r2 /\ Old(r1, k1) = Old(r2, k2)
    BY <1>11 DEF QueuesConsistent, NoEntryTwice
  <2>2. k1 \in Int /\ k2 \in Int
    BY <1>6, LenProperties
  <2> QED
    BY <2>1, <2>2, <1>1
<1>14. \A r \in Sems : \A k \in DOMAIN queue'[r] :
          /\ queue'[r][k] # e
          /\ \E j \in DOMAIN queue[r] : queue'[r][k] = queue[r][j]
  <2> SUFFICES ASSUME NEW r \in Sems, NEW k \in DOMAIN queue'[r]
               PROVE  /\ queue'[r][k] # e
                      /\ \E j \in DOMAIN queue[r] : queue'[r][k] = queue[r][j]
    OBVIOUS
  <2>1. i \in DOMAIN queue[s] /\ queue[s][i] = e
    BY <1>1 DEF q
  <2> QED
    BY <2>1, <1>11 DEF QueuesConsistent, NoEntryTwice
<1>15. NoEntryLost'
  <2> SUFFICES ASSUME NEW f \in Slots, wqThread'[f] # None
               PROVE  \E r \in Sems : \E k \in DOMAIN queue'[r] : queue'[r][k] = f
    BY DEF NoEntryLost
  <2>1. f # e /\ wqThread[f] # None
    BY <1>9
  <2>2. PICK r \in Sems : \E k \in DOMAIN queue[r] : queue[r][k] = f
    BY <2>1 DEF QueuesConsistent, NoEntryLost
  <2>3. PICK k \in DOMAIN queue[r] : queue[r][k] = f
    BY <2>2
  <2>4. ~(r = s /\ k = i)
    BY <2>1, <2>3, <1>1 DEF q
  <2> QED
    BY <2>3, <2>4, <1>12
<1>16. OneEntryPerThread'
  BY <1>9 DEF QueuesConsistent, OneEntryPerThread
<1>17. MarksValid'
  <2> SUFFICES ASSUME NEW t \in Threads, data'[t] # None
               PROVE  wqThread'[data'[t]] = t
    BY DEF MarksValid
  <2>1. t # wqThread[e] /\ data'[t] = data[t]
    BY <1>4 DEF TypeOK
  <2>2. wqThread[data[t]] = t /\ data[t] \in Slots
    BY <2>1 DEF QueuesConsistent, MarksValid, TypeOK
  <2> QED
    BY <2>1, <2>2, <1>9
<1> QED
  BY <1>6, <1>7, <1>8, <1>9, <1>10, <1>13, <1>14, <1>15, <1>16, <1>17
     DEF RemoveEffect

\* The effect of enqueueing thread t into the queue of s with entry e.
EnqueueEffect(s, t, e) ==
    /\ e \in Slots /\ wqThread[e] = None
    /\ queue' \in [Sems -> Seq(Slots)]
    /\ wqThread' \in [Slots -> Threads \cup {None}]
    /\ wqThread'[e] = t
    /\ \A f \in Slots : f # e => wqThread'[f] = wqThread[f]
    /\ wqPrio' \in [Slots -> Nat] /\ next_entry' \in Slots
    /\ data' \in [Threads -> Slots \cup {None}]
    /\ \A r \in Sems : \A k \in DOMAIN queue'[r] :
          \/ r = s /\ queue'[r][k] = e
          \/ \E j \in DOMAIN queue[r] : queue'[r][k] = queue[r][j]
    /\ NoEntryTwice' /\ NoEntryLost' /\ OneEntryPerThread' /\ MarksValid'

\* What __enqueue_thread, and the mark of a timed waiter, do to the queues.
LEMMA EnqueueThreadStep ==
    ASSUME TypeOK, QueuesConsistent, NEW s \in Sems, NEW t \in Threads, NEW e,
           e = AllocEntry, \E i \in Slots : Free(i), EnqueueThread(s, t),
           \A f \in Slots : wqThread[f] # t,
           data' \in {data, [data EXCEPT ![t] = e]}
    PROVE  EnqueueEffect(s, t, e)
<1> USE WqAssumption, NoneAssumption
<1>1. e \in Slots /\ wqThread[e] = None
  BY AllocEntryFree DEF Free, TypeOK
<1>2. PICK p \in Prios[t] :
         /\ next_entry' = (e + 1) % MaxWqEntries
         /\ wqThread' = [wqThread EXCEPT ![e] = t]
         /\ wqPrio' = [wqPrio EXCEPT ![e] = p]
         /\ queue' = [queue EXCEPT ![s] = InsertAt(queue[s], InsertPos(queue[s], p), e)]
  BY DEF EnqueueThread
<1> DEFINE q == queue[s]
           i == InsertPos(q, p)
<1>3. q \in Seq(Slots) /\ p \in Nat
  BY PrioAssumption DEF TypeOK
<1>4. i \in 1 .. (Len(q) + 1)
  BY <1>3, InsertPosPlace DEF TypeOK
<1>5. queue' = [queue EXCEPT ![s] = InsertAt(q, i, e)]
  BY <1>2
<1> HIDE DEF q, i
<1>6. /\ InsertAt(q, i, e) \in Seq(Slots)
      /\ Len(InsertAt(q, i, e)) = Len(q) + 1
      /\ \A k \in 1 .. (Len(q) + 1) :
            InsertAt(q, i, e)[k] = IF k < i THEN q[k] ELSE IF k = i THEN e ELSE q[k - 1]
  <2>1. q \in Seq(Slots) /\ i \in 1 .. (Len(q) + 1) /\ e \in Slots
    BY <1>1, <1>3, <1>4
  <2> QED
    BY ONLY <2>1, InsertAtProperties
<1>7. queue' \in [Sems -> Seq(Slots)]
  BY <1>5, <1>6 DEF TypeOK
<1>8. wqThread' \in [Slots -> Threads \cup {None}] /\ wqPrio' \in [Slots -> Nat]
  BY <1>1, <1>2, <1>3 DEF TypeOK
<1>9. next_entry' \in Slots
  BY <1>1, <1>2 DEF Slots
<1>10. data' \in [Threads -> Slots \cup {None}]
  BY <1>1 DEF TypeOK
<1>11. /\ wqThread'[e] = t
       /\ \A f \in Slots : f # e => wqThread'[f] = wqThread[f]
  BY <1>1, <1>2 DEF TypeOK
<1>12. \A r \in Sems : \A k \in DOMAIN queue[r] : queue[r][k] # e
  <2>1. \A r \in Sems : \A k \in DOMAIN queue[r] : wqThread[queue[r][k]] \in Threads
    BY DEF QueuesConsistent, EntriesConsistent, EntryConsistent
  <2> QED
    BY <2>1, <1>1
\* Position k of the new queue of r was position Old(r, k) of the old one.
<1> DEFINE Old(r, k) == IF r = s /\ k > i THEN k - 1 ELSE k
<1>13. ASSUME NEW r \in Sems, NEW k \in DOMAIN queue'[r], ~(r = s /\ k = i)
       PROVE  Old(r, k) \in DOMAIN queue[r] /\ queue'[r][k] = queue[r][Old(r, k)]
  <2>1. CASE r = s
    <3>1. queue'[r] = InsertAt(q, i, e) /\ queue[r] = q
      BY <2>1, <1>5 DEF q, TypeOK
    <3>2. k \in 1 .. (Len(q) + 1) /\ k # i /\ DOMAIN queue[r] = 1 .. Len(q)
      BY <2>1, <3>1, <1>3, <1>6, <1>13, LenProperties
    <3>3. CASE k < i
      BY <2>1, <3>1, <3>2, <3>3, <1>4, <1>6
    <3>4. CASE k > i
      BY <2>1, <3>1, <3>2, <3>4, <1>4, <1>6
    <3> QED
      BY <3>2, <3>3, <3>4, <1>4
  <2>2. CASE r # s
    BY <2>2, <1>5 DEF TypeOK
  <2> QED
    BY <2>1, <2>2
<1>14. i \in DOMAIN queue'[s] /\ queue'[s][i] = e
  <2>1. queue'[s] = InsertAt(q, i, e)
    BY <1>5 DEF TypeOK
  <2>2. DOMAIN queue'[s] = 1 .. (Len(q) + 1)
    BY <2>1, <1>6, LenProperties
  <2> QED
    BY <2>1, <2>2, <1>4, <1>6
<1>15. ASSUME NEW r \in Sems, NEW k \in DOMAIN queue[r]
       PROVE  \E j \in DOMAIN queue'[r] : queue'[r][j] = queue[r][k]
  <2>1. CASE r = s
    <3>1. queue'[r] = InsertAt(q, i, e) /\ queue[r] = q
      BY <2>1, <1>5 DEF q, TypeOK
    <3>2. DOMAIN queue'[r] = 1 .. (Len(q) + 1) /\ k \in 1 .. Len(q)
      BY <2>1, <3>1, <1>3, <1>6, LenProperties
    <3>3. CASE k < i
      <4>1. k \in 1 .. (Len(q) + 1)
        BY <3>2
      <4> QED
        BY <3>1, <3>2, <3>3, <4>1, <1>6
    <3>4. CASE k >= i
      <4>1. k + 1 \in 1 .. (Len(q) + 1) /\ ~(k + 1 < i) /\ k + 1 # i /\ (k + 1) - 1 = k
        BY <3>2, <3>4, <1>4
      <4> QED
        BY <3>1, <3>2, <4>1, <1>6
    <3> QED
      BY <3>2, <3>3, <3>4, <1>4
  <2>2. CASE r # s
    BY <2>2, <1>5 DEF TypeOK
  <2> QED
    BY <2>1, <2>2
<1>16. \A r \in Sems : \A k \in DOMAIN queue'[r] :
          \/ r = s /\ queue'[r][k] = e
          \/ \E j \in DOMAIN queue[r] : queue'[r][k] = queue[r][j]
  BY <1>13, <1>14
<1>17. NoEntryTwice'
  <2> SUFFICES ASSUME NEW r1 \in Sems, NEW r2 \in Sems,
                      NEW k1 \in DOMAIN queue'[r1], NEW k2 \in DOMAIN queue'[r2],
                      queue'[r1][k1] = queue'[r2][k2]
               PROVE  r1 = r2 /\ k1 = k2
    BY DEF NoEntryTwice
  <2>1. CASE ~(r1 = s /\ k1 = i) /\ ~(r2 = s /\ k2 = i)
    <3>1. r1 = r2 /\ Old(r1, k1) = Old(r2, k2)
      BY <2>1, <1>13 DEF QueuesConsistent, NoEntryTwice
    <3>2. k1 \in Int /\ k2 \in Int
      BY <1>7, LenProperties
    <3> QED
      BY <2>1, <3>1, <3>2, <1>4
  <2>2. CASE r1 = s /\ k1 = i
    <3>1. r2 = s /\ k2 = i
      BY <2>2, <1>12, <1>13, <1>14
    <3> QED
      BY <2>2, <3>1
  <2>3. CASE r2 = s /\ k2 = i
    <3>1. r1 = s /\ k1 = i
      BY <2>3, <1>12, <1>13, <1>14
    <3> QED
      BY <2>3, <3>1
  <2> QED
    BY <2>1, <2>2, <2>3
<1>18. NoEntryLost'
  <2> SUFFICES ASSUME NEW f \in Slots, wqThread'[f] # None
               PROVE  \E r \in Sems : \E k \in DOMAIN queue'[r] : queue'[r][k] = f
    BY DEF NoEntryLost
  <2>1. CASE f = e
    BY <2>1, <1>14
  <2>2. CASE f # e
    <3>1. wqThread[f] # None
      BY <2>2, <1>11
    <3>2. PICK r \in Sems : \E k \in DOMAIN queue[r] : queue[r][k] = f
      BY <3>1 DEF QueuesConsistent, NoEntryLost
    <3> QED
      BY <3>2, <1>15
  <2> QED
    BY <2>1, <2>2
<1>19. OneEntryPerThread'
  BY <1>1, <1>11 DEF QueuesConsistent, OneEntryPerThread
<1>20. MarksValid'
  <2> SUFFICES ASSUME NEW u \in Threads, data'[u] # None
               PROVE  wqThread'[data'[u]] = u
    BY DEF MarksValid
  <2>1. CASE data'[u] = data[u]
    <3>1. wqThread[data[u]] = u /\ data[u] \in Slots
      BY <2>1 DEF QueuesConsistent, MarksValid, TypeOK
    <3>2. data[u] # e
      BY <3>1, <1>1
    <3> QED
      BY <2>1, <3>1, <3>2, <1>11
  <2>2. CASE data'[u] # data[u]
    <3>1. u = t /\ data'[u] = e
      BY <2>2 DEF TypeOK
    <3> QED
      BY <3>1, <1>11
  <2> QED
    BY <2>1, <2>2
<1> QED
  BY <1>1, <1>7, <1>8, <1>9, <1>10, <1>11, <1>16, <1>17, <1>18, <1>19, <1>20
     DEF EnqueueEffect

-----------------------------------------------------------------------------
\* The task after l4semaphore_init satisfies the invariant.
LEMMA InitIInv == Init => IInv
<1> SUFFICES ASSUME Init PROVE IInv
  OBVIOUS
<1> USE NoneAssumption, CountAssumption, WqAssumption
<1>1. TypeOK
  BY DEF Init, TypeOK, PcTypeOK, Slots, ThreadPcs, StPcs
<1>2. QueuesConsistent
  BY DEF Init, QueuesConsistent, EntriesConsistent, NoEntryTwice, NoEntryLost,
         OneEntryPerThread, MarksValid
<1>3. ServerConsistent
  BY DEF Init, ServerConsistent
<1> QED
  BY <1>1, <1>2, <1>3 DEF IInv

\* A thread t moves inside the library; the semaphore thread and the queues
\* stay.  The moves listed are all that leave an enqueued or served thread
\* where the semaphore thread expects it.
LEMMA ThreadMoves ==
    ASSUME IInv, NEW t \in Threads, UNCHANGED <<wqVars, stVars>>,
           \A u \in Threads \ {t} :
              pc'[u] = pc[u] /\ op'[u] = op[u] /\ sem'[u] = sem[u],
           \/ pc[t] = "idle" /\ pc'[t] = "call"
           \/ pc[t] = "call" /\ pc'[t] = "sendcanceled"
           \/ pc[t] = "sendcanceled" /\ pc'[t] = "idle"
           \/ /\ sem'[t] = sem[t]
              /\ \/ /\ pc[t] \in {"recv", "rerecv"} /\ pc'[t] \in {"recv", "rerecv"}
                    /\ op[t] # "BLOCKTIMED" /\ op'[t] = op[t]
                 \/ /\ pc[t] = "recv" /\ pc'[t] = "timedout"
                    /\ op[t] = "BLOCKTIMED" /\ op'[t] = op[t]
                 \/ /\ pc[t] = "timedout" /\ pc'[t] = "release"
                    /\ op'[t] = "RELEASETIMED"
    PROVE  QueuesConsistent' /\ ServerConsistent'
<1>1. /\ queue' = queue /\ wqThread' = wqThread /\ data' = data
      /\ stPc' = stPc /\ stSrc' = stSrc /\ stSem' = stSem
  BY DEF wqVars, stVars
<1>2. PcTypeOK(t)
  BY DEF IInv, TypeOK
<1>3. ASSUME NEW s \in Sems, NEW k \in DOMAIN queue'[s]
      PROVE  EntryConsistent(s, queue[s][k])'
  <2> DEFINE e == queue[s][k]
  <2>1. EntryConsistent(s, e)
    BY <1>1 DEF IInv, QueuesConsistent, EntriesConsistent
  <2>2. CASE wqThread[e] # t
    BY <2>1, <2>2, <1>1 DEF EntryConsistent
  <2>3. CASE wqThread[e] = t
    BY <2>1, <2>3, <1>1, <1>2 DEF EntryConsistent, PcTypeOK
  <2> QED
    BY <2>2, <2>3
<1>4. EntriesConsistent'
  BY <1>3 DEF EntriesConsistent
<1>5. QueuesConsistent'
  BY <1>4, QueuesUntouched DEF IInv
<1>6. ServerConsistent'
  <2>1. CASE stSrc # t
    <3>1. stPc # "wait" => stSrc \in Threads \ {t}
      BY <2>1 DEF IInv, TypeOK
    <3> QED
      BY <3>1, <1>1 DEF IInv, ServerConsistent
  <2>2. CASE stSrc = t
    BY <2>2, <1>1, <1>2 DEF IInv, ServerConsistent, PcTypeOK
  <2> QED
    BY <2>1, <2>2
<1> QED
  BY <1>5, <1>6

\* A thread goes to x with message o, z under way.
LEMMA ThreadTypes ==
    ASSUME TypeOK, NEW t \in Threads, NEW x \in ThreadPcs,
           NEW o \in Ops \cup {None}, NEW z \in Sems \cup {None},
           pc' = [pc EXCEPT ![t] = x], op' = [op EXCEPT ![t] = o],
           sem' = [sem EXCEPT ![t] = z],
           x = "idle" => o = None,
           x # "idle" => z \in Sems,
           x \in {"call", "recv"} => o \in {"BLOCK", "BLOCKTIMED", "RELEASE"},
           x = "rerecv" => o \in {"BLOCK", "RELEASE"},
           x \in {"timedout", "sendcanceled"} => o = "BLOCKTIMED",
           x = "release" => o = "RELEASETIMED"
    PROVE  /\ pc' \in [Threads -> ThreadPcs]
           /\ op' \in [Threads -> Ops \cup {None}]
           /\ sem' \in [Threads -> Sems \cup {None}]
           /\ \A u \in Threads : PcTypeOK(u)'
<1>1. /\ pc' \in [Threads -> ThreadPcs]
      /\ op' \in [Threads -> Ops \cup {None}]
      /\ sem' \in [Threads -> Sems \cup {None}]
  BY DEF TypeOK
<1>2. pc'[t] = x /\ op'[t] = o /\ sem'[t] = z
  BY DEF TypeOK
<1>3. PcTypeOK(t)'
  BY <1>2 DEF PcTypeOK
<1>4. ASSUME NEW u \in Threads, u # t PROVE PcTypeOK(u)'
  <2>1. pc'[u] = pc[u] /\ op'[u] = op[u] /\ sem'[u] = sem[u]
    BY <1>4 DEF TypeOK
  <2>2. PcTypeOK(u)
    BY DEF TypeOK
  <2> QED
    BY <2>1, <2>2 DEF PcTypeOK
<1> QED
  BY <1>1, <1>3, <1>4

\* The operations of the threads preserve the invariant.
LEMMA ThreadSteps ==
    ASSUME IInv, NEW t \in Threads, NEW s \in Sems,
           \/ Down(t, s) \/ DownTimed(t, s) \/ TryDown(t, s) \/ Up(t, s)
           \/ CancelReceive(t) \/ RestartReceive(t) \/ TimeOut(t)
           \/ CancelTimedSend(t) \/ TakeBack(t)
    PROVE  IInv'
<1> USE NoneAssumption DEF IInv
<1>1. ASSUME NEW o \in {"BLOCK", "BLOCKTIMED"}, Decrement(t, s, o)
      PROVE  IInv'
  <2>1. TypeOK'
    <3>1. CASE counter[s] - 1 < 0
      <4>1. /\ pc' \in [Threads -> ThreadPcs]
            /\ op' \in [Threads -> Ops \cup {None}]
            /\ sem' \in [Threads -> Sems \cup {None}]
            /\ \A u \in Threads : PcTypeOK(u)'
        BY <1>1, <3>1, ThreadTypes DEF Decrement, CallSemThread, ThreadPcs, Ops
      <4> QED
        BY <1>1, <3>1, <4>1 DEF Decrement, TypeOK, wqVars, stVars
    <3>2. CASE ~(counter[s] - 1 < 0)
      <4>1. /\ Grant(s) /\ UNCHANGED <<thrVars, pending, wqVars, stVars>>
            /\ counter' = [counter EXCEPT ![s] = @ - 1]
        BY <1>1, <3>2 DEF Decrement
      <4>2. counter' \in [Sems -> Int] /\ tokens' \in [Sems -> Int]
        BY <4>1 DEF Grant, TypeOK
      <4> QED
        BY <4>1, <4>2 DEF TypeOK, PcTypeOK, wqVars, stVars, thrVars
    <3> QED
      BY <3>1, <3>2
  <2>2. QueuesConsistent' /\ ServerConsistent'
    <3>1. CASE counter[s] - 1 < 0
      BY <1>1, <3>1, ThreadMoves DEF Decrement, CallSemThread, TypeOK
    <3>2. CASE ~(counter[s] - 1 < 0)
      <4>1. UNCHANGED <<wqVars, stVars, thrVars>>
        BY <1>1, <3>2 DEF Decrement
      <4>2. EntriesConsistent'
        BY <4>1 DEF wqVars, stVars, thrVars, QueuesConsistent,
                    EntriesConsistent, EntryConsistent
      <4>3. ServerConsistent'
        BY <4>1 DEF wqVars, stVars, thrVars, ServerConsistent
      <4> QED
        BY <4>1, <4>2, <4>3, QueuesUntouched
    <3> QED
      BY <3>1, <3>2
  <2> QED
    BY <2>1, <2>2
<1>2. CASE Down(t, s)
  BY <1>1, <1>2 DEF Down
<1>3. CASE DownTimed(t, s)
  BY <1>1, <1>3 DEF DownTimed
<1>4. CASE TryDown(t, s)
  <2>1. TypeOK'
    BY <1>4, SMTT(30) DEF TryDown, Grant, TypeOK, PcTypeOK, wqVars, stVars, thrVars
  <2>2. UNCHANGED <<wqVars, stVars, thrVars>>
    BY <1>4 DEF TryDown
  <2>3. EntriesConsistent'
    BY <2>2 DEF wqVars, stVars, thrVars, QueuesConsistent, EntriesConsistent,
                EntryConsistent
  <2>4. ServerConsistent'
    BY <2>2 DEF wqVars, stVars, thrVars, ServerConsistent
  <2> QED
    BY <2>1, <2>2, <2>3, <2>4, QueuesUntouched
<1>5. CASE Up(t, s)
  <2>1. TypeOK'
    <3>1. CASE counter[s] + 1 <= 0
      <4>1. /\ pc' \in [Threads -> ThreadPcs]
            /\ op' \in [Threads -> Ops \cup {None}]
            /\ sem' \in [Threads -> Sems \cup {None}]
            /\ \A u \in Threads : PcTypeOK(u)'
        BY <1>5, <3>1, ThreadTypes DEF Up, CallSemThread, ThreadPcs, Ops
      <4> QED
        BY <1>5, <3>1, <4>1, SMTT(30) DEF Up, TypeOK, wqVars, stVars
    <3>2. CASE ~(counter[s] + 1 <= 0)
      BY <1>5, <3>2, SMTT(30) DEF Up, TypeOK, PcTypeOK, wqVars, stVars, thrVars
    <3> QED
      BY <3>1, <3>2
  <2>2. QueuesConsistent' /\ ServerConsistent'
    <3>1. CASE counter[s] + 1 <= 0
      BY <1>5, <3>1, ThreadMoves DEF Up, CallSemThread, TypeOK
    <3>2. CASE ~(counter[s] + 1 <= 0)
      <4>1. UNCHANGED <<wqVars, stVars, thrVars>>
        BY <1>5, <3>2 DEF Up
      <4>2. EntriesConsistent'
        BY <4>1 DEF wqVars, stVars, thrVars, QueuesConsistent,
                    EntriesConsistent, EntryConsistent
      <4>3. ServerConsistent'
        BY <4>1 DEF wqVars, stVars, thrVars, ServerConsistent
      <4> QED
        BY <4>1, <4>2, <4>3, QueuesUntouched
    <3> QED
      BY <3>1, <3>2
  <2> QED
    BY <2>1, <2>2
<1>6. CASE CancelReceive(t)
  <2>1. TypeOK'
    BY <1>6 DEF CancelReceive, TypeOK, PcTypeOK, semVars, wqVars, stVars, ThreadPcs
  <2>2. QueuesConsistent' /\ ServerConsistent'
    BY <1>6, ThreadMoves DEF CancelReceive, TypeOK
  <2> QED
    BY <2>1, <2>2
<1>7. CASE RestartReceive(t)
  <2>1. TypeOK'
    BY <1>7 DEF RestartReceive, TypeOK, PcTypeOK, semVars, wqVars, stVars, ThreadPcs
  <2>2. op[t] # "BLOCKTIMED"
    BY <1>7 DEF RestartReceive, TypeOK, PcTypeOK
  <2>3. QueuesConsistent' /\ ServerConsistent'
    BY <1>7, <2>2, ThreadMoves DEF RestartReceive, TypeOK
  <2> QED
    BY <2>1, <2>3
<1>8. CASE TimeOut(t)
  <2>1. TypeOK'
    BY <1>8 DEF TimeOut, TypeOK, PcTypeOK, semVars, wqVars, stVars, ThreadPcs
  <2>2. QueuesConsistent' /\ ServerConsistent'
    BY <1>8, ThreadMoves DEF TimeOut, TypeOK
  <2> QED
    BY <2>1, <2>2
<1>9. CASE CancelTimedSend(t)
  <2>1. TypeOK'
    BY <1>9 DEF CancelTimedSend, TypeOK, PcTypeOK, semVars, wqVars, stVars, ThreadPcs
  <2>2. QueuesConsistent' /\ ServerConsistent'
    BY <1>9, ThreadMoves DEF CancelTimedSend, TypeOK
  <2> QED
    BY <2>1, <2>2
<1>10. CASE TakeBack(t)
  <2>1. TypeOK'
    <3>1. sem[t] \in Sems
      BY <1>10 DEF TakeBack, TypeOK, PcTypeOK
    <3>2. sem = [sem EXCEPT ![t] = sem[t]]
      BY DEF TypeOK
    <3>3. /\ pc' \in [Threads -> ThreadPcs]
          /\ op' \in [Threads -> Ops \cup {None}]
          /\ sem' \in [Threads -> Sems \cup {None}]
          /\ \A u \in Threads : PcTypeOK(u)'
      <4>1. CASE pc[t] = "timedout"
        BY <1>10, <3>1, <3>2, <4>1, ThreadTypes DEF TakeBack, ThreadPcs, Ops
      <4>2. CASE pc[t] = "sendcanceled"
        BY <1>10, <3>1, <4>2, ThreadTypes DEF TakeBack, Return, ThreadPcs, Ops
      <4> QED
        BY <1>10, <4>1, <4>2 DEF TakeBack
    <3> QED
      BY <1>10, <3>1, <3>3, SMTT(30) DEF TakeBack, TypeOK, wqVars, stVars
  <2>2. QueuesConsistent' /\ ServerConsistent'
    BY <1>10, ThreadMoves DEF TakeBack, Return, TypeOK
  <2> QED
    BY <2>1, <2>2
<1> QED
  BY <1>2, <1>3, <1>4, <1>5, <1>6, <1>7, <1>8, <1>9, <1>10

\* l4_ipc_wait preserves the invariant.
LEMMA SemReceiveStep ==
    ASSUME IInv, NEW t \in Threads, SemReceive(t)
    PROVE  IInv'
<1> USE NoneAssumption DEF IInv
<1>1. /\ stPc = "wait" /\ stSrc' = t /\ stSem' = sem[t] /\ sem[t] \in Sems
      /\ stPc' = IF op[t] = "RELEASE" THEN "reply" ELSE op[t]
      /\ PcTypeOK(t)
  BY DEF SemReceive, TypeOK, PcTypeOK
<1>2. UNCHANGED <<semVars, wqVars>>
  BY DEF SemReceive
<1>3. \/ /\ pc[t] = "call" /\ pc' = [pc EXCEPT ![t] = "recv"]
         /\ op' = op /\ sem' = sem
      \/ /\ pc[t] = "release" /\ Return(t)
  BY DEF SemReceive
<1>4. TypeOK'
  <2>1. /\ pc' \in [Threads -> ThreadPcs]
        /\ op' \in [Threads -> Ops \cup {None}]
        /\ sem' \in [Threads -> Sems \cup {None}]
        /\ \A u \in Threads : PcTypeOK(u)'
    <3>1. op = [op EXCEPT ![t] = op[t]] /\ sem = [sem EXCEPT ![t] = sem[t]]
      BY DEF TypeOK
    <3>2. CASE pc[t] = "call"
      BY <1>1, <1>3, <3>1, <3>2, ThreadTypes DEF PcTypeOK, ThreadPcs, Ops
    <3>3. CASE pc[t] = "release"
      BY <1>3, <3>3, ThreadTypes DEF Return, ThreadPcs
    <3> QED
      BY <1>3, <3>2, <3>3
  <2>2. stPc' \in StPcs
    BY <1>1, <1>3 DEF PcTypeOK, StPcs
  <2> QED
    BY <1>1, <1>2, <2>1, <2>2 DEF TypeOK, semVars, wqVars
<1>5. \A u \in Threads \ {t} :
         pc'[u] = pc[u] /\ op'[u] = op[u] /\ sem'[u] = sem[u]
  BY <1>3 DEF Return, TypeOK
<1>6. queue' = queue /\ wqThread' = wqThread /\ data' = data
  BY <1>2 DEF wqVars
<1>7. ASSUME NEW s \in Sems, NEW k \in DOMAIN queue'[s]
      PROVE  EntryConsistent(s, queue[s][k])'
  <2> DEFINE e == queue[s][k]
  <2>1. EntryConsistent(s, e)
    BY <1>6 DEF QueuesConsistent, EntriesConsistent
  <2>2. CASE wqThread[e] # t
    BY <2>1, <2>2, <1>1, <1>5, <1>6 DEF EntryConsistent
  <2>3. CASE wqThread[e] = t
    BY <2>1, <2>3, <1>1, <1>3, <1>6 DEF EntryConsistent
  <2> QED
    BY <2>2, <2>3
<1>8. EntriesConsistent'
  BY <1>7 DEF EntriesConsistent
<1>9. QueuesConsistent'
  BY <1>2, <1>8, QueuesUntouched
<1>10. ServerConsistent'
  <2>1. CASE pc[t] = "call"
    <3>1. ASSUME NEW e \in Slots, wqThread[e] = t PROVE FALSE
      <4>1. PICK s \in Sems : \E k \in DOMAIN queue[s] : queue[s][k] = e
        BY <3>1 DEF QueuesConsistent, NoEntryLost
      <4>2. EntryConsistent(s, e)
        BY <4>1 DEF QueuesConsistent, EntriesConsistent
      <4> QED
        BY <2>1, <3>1, <4>2, <1>1 DEF EntryConsistent
    <3>2. pc'[t] = "recv" /\ op'[t] = op[t] /\ sem'[t] = sem[t]
      BY <2>1, <1>3 DEF TypeOK
    <3> QED
      BY <2>1, <3>1, <3>2, <1>1, <1>6 DEF ServerConsistent, PcTypeOK
  <2>2. CASE pc[t] = "release"
    <3>1. pc'[t] = "idle" /\ stPc' = "RELEASETIMED"
      BY <2>2, <1>1, <1>3 DEF Return, TypeOK, PcTypeOK
    <3> QED
      BY <3>1, <1>1 DEF ServerConsistent
  <2> QED
    BY <1>3, <2>1, <2>2
<1> QED
  BY <1>4, <1>9, <1>10

\* BLOCK and BLOCKTIMED that put their caller to sleep preserve the invariant.
LEMMA EnqueueStep ==
    ASSUME IInv, stPc \in {"BLOCK", "BLOCKTIMED"}, StEnqueue,
           UNCHANGED <<counter, pending, tokens, thrVars>>
    PROVE  IInv'
<1> USE NoneAssumption DEF IInv
<1>1. stSrc \in Threads /\ stSem \in Sems
  BY DEF TypeOK
<1>2. pc' = pc /\ op' = op /\ sem' = sem
  BY DEF thrVars
<1>3. \A u \in Threads : PcTypeOK(u)'
  BY <1>2 DEF TypeOK, PcTypeOK
<1>4. CASE \E i \in Slots : Free(i)
  \* Constants that name the entry, the semaphore and the thread of this step.
  <2> PICK e : e = AllocEntry
    OBVIOUS
  <2> PICK s \in Sems : s = stSem
    BY <1>1
  <2> PICK t \in Threads : t = stSrc
    BY <1>1
  <2>1. /\ EnqueueThread(s, t) /\ StWait
        /\ data' = IF stPc = "BLOCKTIMED" THEN [data EXCEPT ![t] = e] ELSE data
    BY <1>4 DEF StEnqueue
  <2>2. \A f \in Slots : wqThread[f] # t
    BY DEF ServerConsistent
  <2>3. data' \in {data, [data EXCEPT ![t] = e]}
    BY <2>1
  <2>4. EnqueueEffect(s, t, e)
    BY <1>4, <2>1, <2>2, <2>3, EnqueueThreadStep
  <2>5. stPc' = "wait" /\ stSrc' = None /\ stSem' = None
    BY <2>1 DEF StWait
  <2>6. TypeOK'
    BY <1>2, <1>3, <2>4, <2>5 DEF TypeOK, StPcs, EnqueueEffect
  <2>7. data[t] = None
    <3>1. data[t] \in Slots \cup {None}
      BY DEF TypeOK
    <3> QED
      BY <2>2, <3>1 DEF QueuesConsistent, MarksValid
  <2>8. EntryConsistent(s, e)'
    <3>1. CASE stPc = "BLOCK"
      BY <1>2, <2>1, <2>4, <2>7, <3>1
         DEF EntryConsistent, ServerConsistent, EnqueueEffect
    <3>2. CASE stPc = "BLOCKTIMED"
      <4>1. data'[t] = e
        BY <2>1, <3>2 DEF TypeOK
      <4>2. PcTypeOK(t)
        BY DEF TypeOK
      <4> QED
        BY <1>2, <2>4, <3>2, <4>1, <4>2
           DEF EntryConsistent, ServerConsistent, PcTypeOK, EnqueueEffect
    <3> QED
      BY <3>1, <3>2
  <2>9. ASSUME NEW r \in Sems, NEW f, \E j \in DOMAIN queue[r] : f = queue[r][j]
        PROVE  EntryConsistent(r, f)'
    <3>1. EntryConsistent(r, f)
      BY <2>9 DEF QueuesConsistent, EntriesConsistent
    <3>2. f \in Slots
      BY <2>9 DEF TypeOK
    <3>3. f # e /\ wqThread[f] # t
      BY <2>2, <2>4, <3>1, <3>2 DEF EntryConsistent, EnqueueEffect
    <3>4. wqThread'[f] = wqThread[f] /\ data'[wqThread[f]] = data[wqThread[f]]
      BY <2>1, <2>4, <3>1, <3>2, <3>3 DEF TypeOK, EntryConsistent, EnqueueEffect
    <3> QED
      BY <1>2, <3>1, <3>4 DEF EntryConsistent
  <2>10. EntriesConsistent'
    <3> SUFFICES ASSUME NEW r \in Sems, NEW k \in DOMAIN queue'[r]
                 PROVE  EntryConsistent(r, queue[r][k])'
      BY DEF EntriesConsistent
    <3> PICK f : f = queue'[r][k]
      OBVIOUS
    <3>1. EntryConsistent(r, f)'
      BY <2>4, <2>8, <2>9 DEF EnqueueEffect
    <3> QED
      BY <3>1 DEF EntryConsistent
  <2>11. ServerConsistent'
    BY <2>5 DEF ServerConsistent
  <2> QED
    BY <2>4, <2>6, <2>10, <2>11 DEF QueuesConsistent, EnqueueEffect
<1>5. CASE ~\E i \in Slots : Free(i)
  <2>1. stPc' = "panic" /\ stSrc' = stSrc /\ stSem' = stSem /\ UNCHANGED wqVars
    BY <1>5 DEF StEnqueue, StGoto
  <2>2. TypeOK'
    BY <1>1, <1>2, <1>3, <2>1 DEF TypeOK, StPcs, wqVars
  <2>3. EntriesConsistent'
    BY <1>2, <2>1 DEF wqVars, QueuesConsistent, EntriesConsistent, EntryConsistent
  <2>4. ServerConsistent'
    BY <2>1 DEF ServerConsistent
  <2> QED
    BY <2>1, <2>2, <2>3, <2>4, QueuesUntouched
<1> QED
  BY <1>4, <1>5

\* The semaphore thread wakes thread t, which is in no queue.
LEMMA WakeStep ==
    ASSUME IInv, NEW t \in Threads, WakeNow(t), UNCHANGED wqVars,
           \A e \in Slots : wqThread[e] # t,
           stPc # "RELEASETIMED", stPc' \in {"wait", "release"}
    PROVE  /\ pc' \in [Threads -> ThreadPcs]
           /\ op' \in [Threads -> Ops \cup {None}]
           /\ sem' \in [Threads -> Sems \cup {None}]
           /\ \A u \in Threads : PcTypeOK(u)'
           /\ QueuesConsistent' /\ ServerConsistent'
<1> USE NoneAssumption DEF IInv
<1>1. /\ pc' = [pc EXCEPT ![t] = "idle"] /\ op' = [op EXCEPT ![t] = None]
      /\ sem' = [sem EXCEPT ![t] = None]
  BY DEF WakeNow, Return
<1>2. /\ pc' \in [Threads -> ThreadPcs]
      /\ op' \in [Threads -> Ops \cup {None}]
      /\ sem' \in [Threads -> Sems \cup {None}]
      /\ \A u \in Threads : PcTypeOK(u)'
  BY <1>1, ThreadTypes DEF ThreadPcs
<1>3. queue' = queue /\ wqThread' = wqThread /\ data' = data
  BY DEF wqVars
<1>4. ASSUME NEW s \in Sems, NEW k \in DOMAIN queue'[s]
      PROVE  EntryConsistent(s, queue[s][k])'
  <2>1. EntryConsistent(s, queue[s][k]) /\ queue[s][k] \in Slots
    BY <1>3 DEF QueuesConsistent, EntriesConsistent, TypeOK
  <2>2. wqThread[queue[s][k]] # t
    BY <2>1
  <2> QED
    BY <2>1, <2>2, <1>1, <1>3 DEF EntryConsistent, TypeOK
<1>5. EntriesConsistent'
  BY <1>4 DEF EntriesConsistent
<1> QED
  BY <1>2, <1>5, QueuesUntouched DEF ServerConsistent

\* The semaphore thread moves on without touching queues or threads.
LEMMA ServerMoves ==
    ASSUME IInv, UNCHANGED <<wqVars, thrVars>>,
           stPc = "RELEASETIMED" => data[stSrc] = None
    PROVE  /\ QueuesConsistent'
           /\ \A u \in Threads : PcTypeOK(u)'
<1>1. queue' = queue /\ wqThread' = wqThread /\ data' = data
  BY DEF wqVars
<1>2. pc' = pc /\ op' = op /\ sem' = sem
  BY DEF thrVars
<1>3. ASSUME NEW s \in Sems, NEW k \in DOMAIN queue'[s]
      PROVE  EntryConsistent(s, queue[s][k])'
  <2>1. EntryConsistent(s, queue[s][k]) /\ queue[s][k] \in Slots
    BY <1>1 DEF IInv, QueuesConsistent, EntriesConsistent, TypeOK
  <2> QED
    BY <2>1, <1>1, <1>2, NoneAssumption DEF EntryConsistent, Slots
<1>4. EntriesConsistent'
  BY <1>3 DEF EntriesConsistent
<1> QED
  BY <1>2, <1>4, QueuesUntouched DEF IInv, TypeOK, PcTypeOK

\* A round of RELEASE's loop that takes entry e of thread w off the queue of s,
\* and the unlinking of RELEASETIMED, keep the queues in order.
LEMMA UnlinkStep ==
    ASSUME IInv, NEW s \in Sems, NEW e \in Slots, NEW w, w = wqThread[e],
           \E k \in DOMAIN queue[s] : queue[s][k] = e,
           RemoveEntry(s, e), data' = [data EXCEPT ![w] = None],
           \A u \in Threads \ {w} :
              pc'[u] = pc[u] /\ op'[u] = op[u] /\ sem'[u] = sem[u],
           stPc = "RELEASETIMED" => stSrc = w
    PROVE  RemoveEffect(e) /\ QueuesConsistent'
<1>1. RemoveEffect(e)
  BY RemoveEntryStep DEF IInv
<1>2. ASSUME NEW r \in Sems, NEW f \in Slots, f # e,
             \E j \in DOMAIN queue[r] : f = queue[r][j]
      PROVE  EntryConsistent(r, f)'
  <2>1. EntryConsistent(r, f)
    BY <1>2 DEF IInv, QueuesConsistent, EntriesConsistent
  <2>2. wqThread[f] # w /\ wqThread[f] \in Threads
    BY <1>2, <2>1, NoneAssumption
       DEF IInv, QueuesConsistent, OneEntryPerThread, EntryConsistent
  <2>3. wqThread'[f] = wqThread[f] /\ data'[wqThread[f]] = data[wqThread[f]]
    BY <1>1, <1>2, <2>2 DEF RemoveEffect, IInv, TypeOK
  <2> QED
    BY <2>1, <2>2, <2>3 DEF EntryConsistent
<1>3. EntriesConsistent'
  <2> SUFFICES ASSUME NEW r \in Sems, NEW k \in DOMAIN queue'[r]
               PROVE  EntryConsistent(r, queue[r][k])'
    BY DEF EntriesConsistent
  <2> PICK f : f = queue'[r][k]
    OBVIOUS
  <2>1. f # e /\ f \in Slots /\ \E j \in DOMAIN queue[r] : f = queue[r][j]
    BY <1>1 DEF RemoveEffect
  <2>2. EntryConsistent(r, f)'
    BY <1>2, <2>1
  <2> QED
    BY <2>2 DEF EntryConsistent
<1> QED
  BY <1>1, <1>3 DEF RemoveEffect, QueuesConsistent

\* The steps of the semaphore thread preserve the invariant.
LEMMA StSteps ==
    ASSUME IInv, StStep
    PROVE  IInv'
<1> USE NoneAssumption DEF IInv
<1>1. stPc # "wait" => stSrc \in Threads /\ stSem \in Sems
  BY DEF TypeOK
<1>2. CASE StBlock
  <2>1. stPc = "BLOCK" /\ UNCHANGED <<counter, thrVars>>
    BY <1>2 DEF StBlock
  <2>2. CASE pending[stSem] > 0
    <3>1. /\ pending' = [pending EXCEPT ![stSem] = @ - 1] /\ Grant(stSem)
          /\ StWake(stSrc) /\ UNCHANGED wqVars
      BY <1>1, <1>2, <2>1, <2>2 DEF StBlock, TypeOK
    <3>2. QueuesConsistent' /\ \A u \in Threads : PcTypeOK(u)'
      BY <2>1, <3>1, ServerMoves
    <3>3. ServerConsistent'
      BY <2>1, <3>1 DEF ServerConsistent, StWake, wqVars, thrVars
    <3>4. pending' \in [Sems -> Nat]
      BY <1>1, <2>1, <2>2, <3>1 DEF TypeOK
    <3>5. TypeOK'
      BY <1>1, <2>1, <3>1, <3>2, <3>4 DEF TypeOK, Grant, StWake, wqVars, thrVars, StPcs
    <3> QED
      BY <3>2, <3>3, <3>5
  <2>3. CASE ~(pending[stSem] > 0)
    BY <1>2, <2>1, <2>3, EnqueueStep DEF StBlock
  <2> QED
    BY <2>2, <2>3
<1>3. CASE StBlockTimed
  <2>1. stPc = "BLOCKTIMED" /\ UNCHANGED counter
    BY <1>3 DEF StBlockTimed
  <2>2. CASE pending[stSem] > 0 /\ pc[stSrc] = "recv"
    <3>1. /\ pending' = [pending EXCEPT ![stSem] = @ - 1] /\ Grant(stSem)
          /\ WakeNow(stSrc) /\ StWait /\ UNCHANGED wqVars
      BY <1>1, <1>3, <2>1, <2>2 DEF StBlockTimed, TypeOK
    <3>2. \A e \in Slots : wqThread[e] # stSrc
      BY <2>1 DEF ServerConsistent
    <3>3. /\ pc' \in [Threads -> ThreadPcs]
          /\ op' \in [Threads -> Ops \cup {None}]
          /\ sem' \in [Threads -> Sems \cup {None}]
          /\ \A u \in Threads : PcTypeOK(u)'
          /\ QueuesConsistent' /\ ServerConsistent'
      BY <1>1, <2>1, <3>1, <3>2, WakeStep DEF StWait
    <3>4. pending' \in [Sems -> Nat]
      BY <1>1, <2>1, <2>2, <3>1 DEF TypeOK
    <3>5. TypeOK'
      BY <1>1, <2>1, <3>1, <3>3, <3>4 DEF TypeOK, Grant, StWait, wqVars, StPcs
    <3> QED
      BY <3>3, <3>5
  <2>3. CASE pending[stSem] > 0 /\ pc[stSrc] # "recv"
    <3>1. UNCHANGED <<pending, tokens, thrVars, wqVars>> /\ StWait
      BY <1>1, <1>3, <2>1, <2>3 DEF StBlockTimed, WakeNow, TypeOK
    <3>2. QueuesConsistent' /\ \A u \in Threads : PcTypeOK(u)'
      BY <2>1, <3>1, ServerMoves
    <3>3. ServerConsistent'
      BY <3>1 DEF ServerConsistent, StWait
    <3>4. TypeOK'
      BY <2>1, <3>1, <3>2 DEF TypeOK, StWait, wqVars, thrVars, StPcs
    <3> QED
      BY <3>2, <3>3, <3>4
  <2>4. CASE ~(pending[stSem] > 0)
    BY <1>3, <2>1, <2>4, EnqueueStep DEF StBlockTimed
  <2> QED
    BY <2>2, <2>3, <2>4
<1>4. CASE StReply
  <2>1. /\ stPc = "reply" /\ WakeNow(stSrc) /\ UNCHANGED <<semVars, wqVars>>
        /\ stPc' = "release" /\ stSrc' = stSrc /\ stSem' = stSem
    BY <1>4 DEF StReply, StGoto
  <2>2. ASSUME NEW e \in Slots, wqThread[e] = stSrc PROVE FALSE
    <3>1. PICK s \in Sems : \E k \in DOMAIN queue[s] : queue[s][k] = e
      BY <1>1, <2>1, <2>2 DEF QueuesConsistent, NoEntryLost
    <3>2. EntryConsistent(s, e)
      BY <3>1 DEF QueuesConsistent, EntriesConsistent
    <3> QED
      BY <2>1, <2>2, <3>2 DEF EntryConsistent, ServerConsistent
  <2>3. /\ pc' \in [Threads -> ThreadPcs]
        /\ op' \in [Threads -> Ops \cup {None}]
        /\ sem' \in [Threads -> Sems \cup {None}]
        /\ \A u \in Threads : PcTypeOK(u)'
        /\ QueuesConsistent' /\ ServerConsistent'
    BY <1>1, <2>1, <2>2, WakeStep
  <2>4. TypeOK'
    BY <1>1, <2>1, <2>3 DEF TypeOK, semVars, wqVars, StPcs
  <2> QED
    BY <2>3, <2>4
<1>5. CASE StStoreWakeup
  <2>1. /\ stPc = "release" /\ StWait /\ UNCHANGED <<counter, tokens, wqVars, thrVars>>
        /\ pending' = [pending EXCEPT ![stSem] = @ + 1]
    BY <1>5 DEF StStoreWakeup
  <2>2. QueuesConsistent' /\ \A u \in Threads : PcTypeOK(u)'
    BY <2>1, ServerMoves
  <2>3. ServerConsistent'
    BY <2>1 DEF ServerConsistent, StWait
  <2>4. TypeOK'
    BY <1>1, <2>1, <2>2 DEF TypeOK, StWait, wqVars, thrVars, StPcs
  <2> QED
    BY <2>2, <2>3, <2>4
<1>6. CASE StScanEnd
  <2>1. stPc = "scan" /\ StWait /\ UNCHANGED <<semVars, wqVars, thrVars>>
    BY <1>6 DEF StScanEnd
  <2>2. QueuesConsistent' /\ \A u \in Threads : PcTypeOK(u)'
    BY <2>1, ServerMoves
  <2>3. ServerConsistent'
    BY <2>1 DEF ServerConsistent, StWait
  <2>4. TypeOK'
    BY <2>1, <2>2 DEF TypeOK, StWait, semVars, wqVars, thrVars, StPcs
  <2> QED
    BY <2>2, <2>3, <2>4
<1>7. CASE StWakeup
  <2>1. /\ stPc = "wakeup" /\ WakeNow(stSrc) /\ StWait /\ UNCHANGED <<semVars, wqVars>>
    BY <1>7 DEF StWakeup
  <2>2. \A e \in Slots : wqThread[e] # stSrc
    BY <2>1 DEF ServerConsistent
  <2>3. /\ pc' \in [Threads -> ThreadPcs]
        /\ op' \in [Threads -> Ops \cup {None}]
        /\ sem' \in [Threads -> Sems \cup {None}]
        /\ \A u \in Threads : PcTypeOK(u)'
        /\ QueuesConsistent' /\ ServerConsistent'
    BY <1>1, <2>1, <2>2, WakeStep DEF StWait
  <2>4. TypeOK'
    BY <2>1, <2>3 DEF TypeOK, StWait, semVars, wqVars, StPcs
  <2> QED
    BY <2>3, <2>4
<1>8. CASE StPop
  <2>1. /\ stPc \in {"release", "scan"} /\ queue[stSem] # << >>
        /\ UNCHANGED <<counter, pending>>
    BY <1>8 DEF StPop
  \* Constants that name the semaphore, the entry and the thread of this step.
  <2> PICK s \in Sems : s = stSem
    BY <1>1, <2>1
  <2> PICK e : e = Head(queue[s])
    OBVIOUS
  <2> PICK w : w = wqThread[e]
    OBVIOUS
  <2>2. e \in Slots /\ 1 \in DOMAIN queue[s] /\ queue[s][1] = e
    BY <2>1 DEF TypeOK
  <2>3. EntryConsistent(s, e)
    BY <2>2 DEF QueuesConsistent, EntriesConsistent
  <2>4. w \in Threads
    BY <2>3 DEF EntryConsistent
  <2>5. /\ RemoveEntry(s, e)
        /\ \/ /\ data[w] = None /\ Grant(s) /\ StWake(w)
              /\ UNCHANGED <<data, thrVars>>
           \/ /\ data[w] # None
              /\ data' = [data EXCEPT ![w] = None]
              /\ \/ WakeNow(w) /\ Grant(s) /\ StWait
                 \/ pc[w] # "recv" /\ StGoto("scan") /\ UNCHANGED <<tokens, thrVars>>
    BY <1>8 DEF StPop
  <2>6. data' = [data EXCEPT ![w] = None]
    BY <2>4, <2>5 DEF TypeOK
  <2>7. \A u \in Threads \ {w} :
           pc'[u] = pc[u] /\ op'[u] = op[u] /\ sem'[u] = sem[u]
    BY <2>5 DEF WakeNow, Return, thrVars, TypeOK
  <2>8. RemoveEffect(e) /\ QueuesConsistent'
    BY <2>1, <2>2, <2>5, <2>6, <2>7, UnlinkStep
  <2>9. /\ pc' \in [Threads -> ThreadPcs]
        /\ op' \in [Threads -> Ops \cup {None}]
        /\ sem' \in [Threads -> Sems \cup {None}]
        /\ \A u \in Threads : PcTypeOK(u)'
    <3>1. CASE WakeNow(w)
      BY <2>4, <3>1, ThreadTypes DEF WakeNow, Return, ThreadPcs
    <3>2. CASE UNCHANGED thrVars
      BY <3>2 DEF thrVars, TypeOK, PcTypeOK
    <3> QED
      BY <2>5, <3>1, <3>2, SMTT(30)
  <2>10. /\ stPc' \in StPcs /\ stSrc' \in Threads \cup {None}
         /\ stSem' \in Sems \cup {None}
         /\ stPc' # "wait" => stSrc' \in Threads /\ stSem' \in Sems
         /\ tokens' \in [Sems -> Int]
    BY <1>1, <2>1, <2>4, <2>5 DEF StWake, StWait, StGoto, StPcs, Grant, TypeOK
  <2>11. TypeOK'
    BY <2>1, <2>8, <2>9, <2>10 DEF TypeOK, RemoveEffect
  <2>12. ServerConsistent'
    <3>1. CASE data[w] = None
      <4>1. stPc' = "wakeup" /\ stSrc' = w /\ stSem' = s /\ UNCHANGED thrVars
        BY <2>5, <3>1 DEF StWake
      <4>2. pc[w] \in {"recv", "rerecv"} /\ op[w] = "BLOCK" /\ sem[w] = s
        BY <2>1, <2>2, <2>3, <3>1 DEF EntryConsistent, Slots
      <4>3. \A f \in Slots : wqThread'[f] # w
        BY <2>2, <2>4, <2>8 DEF RemoveEffect, QueuesConsistent, OneEntryPerThread
      <4> QED
        BY <4>1, <4>2, <4>3 DEF ServerConsistent, thrVars
    <3>2. CASE data[w] # None
      <4>1. stPc' \in {"wait", "scan"}
        BY <2>5, <3>2 DEF StWait, StGoto
      <4> QED
        BY <4>1 DEF ServerConsistent
    <3> QED
      BY <3>1, <3>2
  <2> QED
    BY <2>8, <2>11, <2>12
<1>9. CASE StReleaseTimed
  <2>1. stPc = "RELEASETIMED" /\ StWait /\ UNCHANGED <<semVars, thrVars>>
    BY <1>9 DEF StReleaseTimed
  <2>2. ServerConsistent'
    BY <2>1 DEF ServerConsistent, StWait
  <2>3. CASE data[stSrc] = None
    <3>1. UNCHANGED wqVars
      BY <1>9, <2>3 DEF StReleaseTimed
    <3>2. QueuesConsistent' /\ \A u \in Threads : PcTypeOK(u)'
      BY <2>1, <2>3, <3>1, ServerMoves
    <3>3. TypeOK'
      BY <2>1, <3>1, <3>2 DEF TypeOK, StWait, semVars, wqVars, thrVars, StPcs
    <3> QED
      BY <2>2, <3>2, <3>3
  <2>4. CASE data[stSrc] # None
    <3> PICK s \in Sems : s = stSem
      BY <1>1, <2>1
    <3> PICK w \in Threads : w = stSrc
      BY <1>1, <2>1
    <3> PICK e : e = data[w]
      OBVIOUS
    <3>1. /\ RemoveEntry(s, e) /\ data' = [data EXCEPT ![w] = None]
      BY <1>9, <2>4 DEF StReleaseTimed
    <3>2. e \in Slots /\ wqThread[e] = w
      BY <2>4 DEF TypeOK, QueuesConsistent, MarksValid
    <3>3. \E k \in DOMAIN queue[s] : queue[s][k] = e
      <4>1. PICK r \in Sems : \E k \in DOMAIN queue[r] : queue[r][k] = e
        BY <3>2 DEF QueuesConsistent, NoEntryLost
      <4>2. EntryConsistent(r, e)
        BY <4>1 DEF QueuesConsistent, EntriesConsistent
      <4>3. r = s
        BY <2>1, <3>2, <4>2 DEF EntryConsistent, ServerConsistent
      <4> QED
        BY <4>1, <4>3
    <3>4. \A u \in Threads \ {w} :
             pc'[u] = pc[u] /\ op'[u] = op[u] /\ sem'[u] = sem[u]
      BY <2>1 DEF thrVars
    <3>5. RemoveEffect(e) /\ QueuesConsistent'
      BY <3>1, <3>2, <3>3, <3>4, UnlinkStep
    <3>6. TypeOK'
      BY <2>1, <3>5 DEF TypeOK, PcTypeOK, RemoveEffect, StWait, semVars, thrVars, StPcs
    <3> QED
      BY <2>2, <3>5, <3>6
  <2> QED
    BY <2>3, <2>4
<1> QED
  BY <1>2, <1>3, <1>4, <1>5, <1>6, <1>7, <1>8, <1>9 DEF StStep

\* Every step of a thread and of the semaphore thread preserves the invariant.
LEMMA NextIInv == IInv /\ [Next]_vars => IInv'
<1> SUFFICES ASSUME IInv, [Next]_vars PROVE IInv'
  OBVIOUS
<1>1. CASE Next
  <2>1. ASSUME NEW t \in Threads, NEW s \in Sems,
               Down(t, s) \/ DownTimed(t, s) \/ TryDown(t, s) \/ Up(t, s)
        PROVE  IInv'
    BY <2>1, ThreadSteps
  <2>2. ASSUME NEW t \in Threads,
               \/ CancelReceive(t) \/ RestartReceive(t) \/ TimeOut(t)
               \/ CancelTimedSend(t) \/ TakeBack(t)
        PROVE  IInv'
    <3>1. sem[t] \in Sems
      BY <2>2 DEF IInv, TypeOK, PcTypeOK, CancelReceive, RestartReceive,
                  TimeOut, CancelTimedSend, TakeBack
    <3> QED
      BY <2>2, <3>1, ThreadSteps
  <2> QED
    BY <1>1, <2>1, <2>2, SemReceiveStep, StSteps DEF Next
<1>2. CASE UNCHANGED vars
  <2>1. UNCHANGED <<wqVars, thrVars, stVars, semVars>>
    BY <1>2 DEF vars, wqVars, thrVars, stVars, semVars
  <2>2. TypeOK'
    BY <2>1 DEF IInv, TypeOK, PcTypeOK, wqVars, thrVars, stVars, semVars
  <2>3. EntriesConsistent'
    BY <2>1 DEF IInv, QueuesConsistent, EntriesConsistent, EntryConsistent,
                wqVars, thrVars, stVars
  <2>4. ServerConsistent'
    BY <2>1 DEF IInv, ServerConsistent, wqVars, thrVars, stVars
  <2> QED
    BY <2>1, <2>2, <2>3, <2>4, QueuesUntouched DEF IInv
<1> QED
  BY <1>1, <1>2

\* For any number of threads, timed waiters, semaphores, wait queue entries and
\* priorities: every variable keeps its type, the wait queues, the entry array
\* and the marks of timed waiters agree with each other and with what the
\* threads are doing, and the semaphore thread acts on requests that are still
\* what their callers wait for.
THEOREM Consistency == SafeSpec => [](TypeOK /\ QueuesConsistent /\ ServerConsistent)
<1>1. IInv => TypeOK /\ QueuesConsistent /\ ServerConsistent
  BY DEF IInv
<1> QED
  BY <1>1, InitIInv, NextIInv, PTL DEF SafeSpec

\* l4semaphore_thread and the operations keep every variable within its type.
THEOREM TypeCorrect == SafeSpec => []TypeOK
BY Consistency, PTL

\* Whatever the callers do meanwhile (time out, are cancelled, call again), the
\* request l4semaphore_thread works on is one its caller still stands for, and
\* the caller has no entry in a wait queue yet.
THEOREM ServerNeverConfused == SafeSpec => []ServerConsistent
BY Consistency, PTL

-----------------------------------------------------------------------------
(* The order of the queues.                                                *)

\* The entry a mark points to is in the queue RELEASETIMED unlinks it from.
LEMMA MarkedEntryQueued ==
    ASSUME IInv, stPc = "RELEASETIMED", data[stSrc] # None
    PROVE  /\ stSem \in Sems /\ data[stSrc] \in Slots
           /\ \E k \in DOMAIN queue[stSem] : queue[stSem][k] = data[stSrc]
<1> USE NoneAssumption DEF IInv
<1>1. stSrc \in Threads /\ stSem \in Sems /\ data[stSrc] \in Slots
  BY DEF TypeOK
<1>2. wqThread[data[stSrc]] = stSrc
  BY <1>1 DEF QueuesConsistent, MarksValid
<1>3. PICK r \in Sems : \E k \in DOMAIN queue[r] : queue[r][k] = data[stSrc]
  BY <1>1, <1>2 DEF QueuesConsistent, NoEntryLost
<1>4. EntryConsistent(r, data[stSrc])
  BY <1>3 DEF QueuesConsistent, EntriesConsistent
<1>5. r = stSem
  BY <1>2, <1>4 DEF EntryConsistent, ServerConsistent
<1> QED
  BY <1>1, <1>3, <1>5

\* The three things a step can do to the queues: nothing, put the thread that
\* is served to sleep, take an entry out.
LEMMA QueueSteps ==
    ASSUME IInv, [Next]_vars
    PROVE  \/ UNCHANGED <<queue, wqThread, wqPrio>>
           \/ /\ stPc \in {"BLOCK", "BLOCKTIMED"}
              /\ pending[stSem] = 0
              /\ \E i \in Slots : Free(i)
              /\ EnqueueThread(stSem, stSrc)
           \/ \E s \in Sems, e \in Slots :
                 /\ \E k \in DOMAIN queue[s] : queue[s][k] = e
                 /\ RemoveEntry(s, e)
<1> DEFINE Goal == \/ UNCHANGED <<queue, wqThread, wqPrio>>
                   \/ /\ stPc \in {"BLOCK", "BLOCKTIMED"}
                      /\ pending[stSem] = 0
                      /\ \E i \in Slots : Free(i)
                      /\ EnqueueThread(stSem, stSrc)
                   \/ \E s \in Sems, e \in Slots :
                         /\ \E k \in DOMAIN queue[s] : queue[s][k] = e
                         /\ RemoveEntry(s, e)
<1>1. CASE UNCHANGED <<queue, wqThread, wqPrio>>
  BY <1>1
<1>2. CASE UNCHANGED vars
  BY <1>2 DEF vars
<1>3. ASSUME NEW t \in Threads, NEW s \in Sems,
             Down(t, s) \/ DownTimed(t, s) \/ TryDown(t, s) \/ Up(t, s)
      PROVE  UNCHANGED <<queue, wqThread, wqPrio>>
  BY <1>3 DEF Down, DownTimed, Decrement, TryDown, Up, wqVars
<1>4. ASSUME NEW t \in Threads,
             \/ CancelReceive(t) \/ RestartReceive(t) \/ TimeOut(t)
             \/ CancelTimedSend(t) \/ TakeBack(t) \/ SemReceive(t)
      PROVE  UNCHANGED <<queue, wqThread, wqPrio>>
  BY <1>4 DEF CancelReceive, RestartReceive, TimeOut, CancelTimedSend,
              TakeBack, SemReceive, wqVars
<1>5. CASE StReply \/ StStoreWakeup \/ StScanEnd \/ StWakeup
  BY <1>5 DEF StReply, StStoreWakeup, StScanEnd, StWakeup, wqVars
<1>6. CASE StEnqueue /\ stPc \in {"BLOCK", "BLOCKTIMED"} /\ pending[stSem] = 0
  BY <1>6 DEF StEnqueue, wqVars
<1>7. CASE StBlock \/ StBlockTimed
  BY <1>6, <1>7 DEF StBlock, StBlockTimed, wqVars
<1>8. CASE StPop
  <2>1. stSem \in Sems /\ queue[stSem] \in Seq(Slots) /\ queue[stSem] # << >>
    BY <1>8 DEF IInv, TypeOK, StPop
  <2>2. Head(queue[stSem]) = queue[stSem][1] /\ 1 \in DOMAIN queue[stSem]
    BY <2>1
  <2>3. Head(queue[stSem]) \in Slots
    BY <2>1
  <2>4. RemoveEntry(stSem, Head(queue[stSem]))
    BY <1>8 DEF StPop
  <2> QED
    BY <2>1, <2>2, <2>3, <2>4
<1>9. CASE StReleaseTimed
  <2>1. CASE data[stSrc] = None
    BY <1>9, <2>1 DEF StReleaseTimed, wqVars
  <2>2. CASE data[stSrc] # None
    <3>1. RemoveEntry(stSem, data[stSrc]) /\ stPc = "RELEASETIMED"
      BY <1>9, <2>2 DEF StReleaseTimed
    <3> QED
      BY <2>2, <3>1, MarkedEntryQueued
  <2> QED
    BY <2>1, <2>2
<1> HIDE DEF Goal
<1>10. CASE Next
  BY <1>3, <1>4, <1>5, <1>7, <1>8, <1>9, <1>10 DEF Next, StStep, Goal
<1> QED
  BY <1>2, <1>10 DEF Goal

\* Inserting at the place __enqueue_thread searches for, and removing an
\* entry from anywhere, keep a queue in order.
LEMMA PriorityStep ==
    ASSUME IInv, PriorityOrdered, [Next]_vars
    PROVE  PriorityOrdered'
<1> USE NoneAssumption DEF IInv
<1>1. CASE UNCHANGED <<queue, wqThread, wqPrio>>
  BY <1>1 DEF PriorityOrdered
<1>2. CASE /\ stPc \in {"BLOCK", "BLOCKTIMED"}
           /\ \E i \in Slots : Free(i)
           /\ EnqueueThread(stSem, stSrc)
  <2> DEFINE e == AllocEntry
             s == stSem
             q == queue[s]
  <2>1. e \in Slots /\ wqThread[e] = None
    BY <1>2, AllocEntryFree DEF Free, TypeOK
  <2>2. PICK p \in Prios[stSrc] :
           /\ wqPrio' = [wqPrio EXCEPT ![e] = p]
           /\ queue' = [queue EXCEPT ![s] = InsertAt(q, InsertPos(q, p), e)]
    BY <1>2 DEF EnqueueThread
  <2> DEFINE i == InsertPos(q, p)
  <2>3. s \in Sems /\ q \in Seq(Slots) /\ p \in Nat
    BY <1>2, PrioAssumption DEF TypeOK
  <2>4. /\ i \in 1 .. (Len(q) + 1)
        /\ \A j \in 1 .. (i - 1) : wqPrio[q[j]] >= p
        /\ i <= Len(q) => wqPrio[q[i]] < p
    BY <2>3, InsertPosPlace DEF TypeOK
  <2>5. queue' = [queue EXCEPT ![s] = InsertAt(q, i, e)]
    BY <2>2
  <2>6. \A r \in Sems : \A k \in DOMAIN queue[r] : queue[r][k] \in Slots /\ queue[r][k] # e
    <3>1. \A r \in Sems : \A k \in DOMAIN queue[r] :
             wqThread[queue[r][k]] \in Threads /\ queue[r][k] \in Slots
      BY DEF QueuesConsistent, EntriesConsistent, EntryConsistent, TypeOK
    <3> QED
      BY <2>1, <3>1
  <2> HIDE DEF e, s, i, q
  <2>7. /\ InsertAt(q, i, e) \in Seq(Slots)
        /\ Len(InsertAt(q, i, e)) = Len(q) + 1
        /\ \A k \in 1 .. (Len(q) + 1) :
              InsertAt(q, i, e)[k] = IF k < i THEN q[k] ELSE IF k = i THEN e ELSE q[k - 1]
    <3>1. q \in Seq(Slots) /\ i \in 1 .. (Len(q) + 1) /\ e \in Slots
      BY ONLY <2>1, <2>3, <2>4
    <3>2. /\ InsertAt(q, i, e) \in Seq(Slots)
          /\ Len(InsertAt(q, i, e)) = Len(q) + 1
      BY ONLY <3>1, InsertAtProperties
    <3>3. ASSUME NEW k \in 1 .. (Len(q) + 1)
          PROVE  InsertAt(q, i, e)[k] = IF k < i THEN q[k] ELSE IF k = i THEN e ELSE q[k - 1]
      BY ONLY <3>1, <3>3, InsertAtProperties
    <3> QED
      BY ONLY <3>2, <3>3, Zenon
  <2>8. wqPrio'[e] = p /\ \A f \in Slots : f # e => wqPrio'[f] = wqPrio[f]
    BY <2>1, <2>2 DEF TypeOK
  <2>9. wqPrio \in [Slots -> Nat]
    BY DEF TypeOK
  <2>10. \A j, k \in DOMAIN q : j < k => wqPrio[q[j]] >= wqPrio[q[k]]
    BY <2>3 DEF PriorityOrdered, q
  <2>11. DOMAIN q = 1 .. Len(q) /\ Len(q) \in Nat
    BY <2>3, LenProperties
  <2>12. \A k \in 1 .. Len(q) : /\ q[k] \in Slots /\ wqPrio'[q[k]] = wqPrio[q[k]]
                               /\ wqPrio[q[k]] \in Nat
    BY <2>3, <2>6, <2>8, <2>9, <2>11 DEF q
  \* The new thread is behind all of at least its priority, before all others.
  <2>13. /\ \A k \in 1 .. Len(q) : k < i => wqPrio[q[k]] >= p
         /\ \A k \in 1 .. Len(q) : k >= i => p >= wqPrio[q[k]]
    <3>1. ASSUME NEW k \in 1 .. Len(q), k < i PROVE wqPrio[q[k]] >= p
      BY <2>4, <3>1
    <3>2. ASSUME NEW k \in 1 .. Len(q), k >= i PROVE p >= wqPrio[q[k]]
      <4>1. i \in 1 .. Len(q) /\ wqPrio[q[i]] < p
        BY <2>4, <2>11, <3>2
      <4>2. i < k => wqPrio[q[i]] >= wqPrio[q[k]]
        BY <2>10, <2>11, <4>1
      <4> QED
        BY <2>3, <2>11, <2>12, <3>2, <4>1, <4>2
    <3> QED
      BY <3>1, <3>2
  <2> SUFFICES ASSUME NEW r \in Sems, NEW j \in DOMAIN queue'[r],
                      NEW k \in DOMAIN queue'[r], j < k
               PROVE  wqPrio'[queue'[r][j]] >= wqPrio'[queue'[r][k]]
    BY DEF PriorityOrdered
  <2>14. CASE r # s
    <3>1. queue'[r] = queue[r]
      BY <2>5, <2>14 DEF TypeOK
    <3>2. queue[r][j] \in Slots /\ queue[r][k] \in Slots /\ queue[r][j] # e /\ queue[r][k] # e
      BY <2>6, <3>1
    <3> QED
      BY <2>8, <3>1, <3>2 DEF PriorityOrdered
  <2>15. CASE r = s
    <3> DEFINE n == InsertAt(q, i, e)
    <3>1. queue'[r] = n
      BY <2>3, <2>5, <2>15 DEF TypeOK
    <3>2. j \in 1 .. (Len(q) + 1) /\ k \in 1 .. (Len(q) + 1)
      BY <2>7, <3>1, LenProperties
    <3>3. /\ n[j] = IF j < i THEN q[j] ELSE IF j = i THEN e ELSE q[j - 1]
          /\ n[k] = IF k < i THEN q[k] ELSE IF k = i THEN e ELSE q[k - 1]
      BY <2>7, <3>2
    <3> HIDE DEF n
    <3>4. CASE k < i
      <4>1. j \in 1 .. Len(q) /\ k \in 1 .. Len(q) /\ n[j] = q[j] /\ n[k] = q[k]
        BY <2>4, <2>11, <3>2, <3>3, <3>4
      <4> QED
        BY <2>10, <2>11, <2>12, <3>1, <4>1
    <3>5. CASE k = i
      <4>1. j \in 1 .. Len(q) /\ j < i /\ n[j] = q[j] /\ n[k] = e
        BY <2>4, <2>11, <3>2, <3>3, <3>5
      <4> QED
        BY <2>8, <2>12, <2>13, <3>1, <4>1
    <3>6. CASE k > i /\ j = i
      <4>1. k - 1 \in 1 .. Len(q) /\ k - 1 >= i /\ n[j] = e /\ n[k] = q[k - 1]
        BY <2>4, <2>11, <3>2, <3>3, <3>6
      <4> QED
        BY <2>8, <2>12, <2>13, <3>1, <4>1
    <3>7. CASE k > i /\ j # i
      <4> DEFINE a == IF j < i THEN j ELSE j - 1
      <4>1. /\ a \in 1 .. Len(q) /\ k - 1 \in 1 .. Len(q) /\ a < k - 1
            /\ n[j] = q[a] /\ n[k] = q[k - 1]
        BY <2>4, <2>11, <3>2, <3>3, <3>7
      <4> HIDE DEF a
      <4> QED
        BY <2>10, <2>11, <2>12, <3>1, <4>1
    <3> QED
      BY <2>4, <3>2, <3>4, <3>5, <3>6, <3>7
  <2> QED
    BY <2>14, <2>15
<1>3. ASSUME NEW s \in Sems, NEW e \in Slots,
             \E k \in DOMAIN queue[s] : queue[s][k] = e,
             RemoveEntry(s, e)
      PROVE  PriorityOrdered'
  <2> DEFINE q == queue[s]
             i == CHOOSE k \in DOMAIN q : q[k] = e
  <2>1. q \in Seq(Slots) /\ i \in 1 .. Len(q)
    BY <1>3, SMTT(30) DEF TypeOK
  <2>2. queue' = [queue EXCEPT ![s] = RemoveAt(q, i)] /\ wqPrio' = wqPrio
    BY <1>3 DEF RemoveEntry
  <2> HIDE DEF i
  <2>3. /\ RemoveAt(q, i) \in Seq(Slots)
        /\ Len(RemoveAt(q, i)) = Len(q) - 1
        /\ \A k \in 1 .. (Len(q) - 1) :
              RemoveAt(q, i)[k] = IF k < i THEN q[k] ELSE q[k + 1]
    BY <2>1, RemoveAtProperties
  <2>4. \A j, k \in DOMAIN q : j < k => wqPrio[q[j]] >= wqPrio[q[k]]
    BY DEF PriorityOrdered
  <2>5. DOMAIN q = 1 .. Len(q) /\ Len(q) \in Nat
    BY <2>1, LenProperties
  <2> SUFFICES ASSUME NEW r \in Sems, NEW j \in DOMAIN queue'[r],
                      NEW k \in DOMAIN queue'[r], j < k
               PROVE  wqPrio'[queue'[r][j]] >= wqPrio'[queue'[r][k]]
    BY DEF PriorityOrdered
  <2>6. CASE r # s
    BY <2>2, <2>6 DEF PriorityOrdered, TypeOK
  <2>7. CASE r = s
    <3> DEFINE n == RemoveAt(q, i)
    <3>1. queue'[r] = n
      BY <2>2, <2>7 DEF TypeOK
    <3>2. j \in 1 .. (Len(q) - 1) /\ k \in 1 .. (Len(q) - 1)
      BY <2>3, <3>1, LenProperties
    <3>3. /\ n[j] = IF j < i THEN q[j] ELSE q[j + 1]
          /\ n[k] = IF k < i THEN q[k] ELSE q[k + 1]
      BY <2>3, <3>2
    <3> HIDE DEF n, q
    <3> DEFINE a == IF j < i THEN j ELSE j + 1
               b == IF k < i THEN k ELSE k + 1
    <3>4. a \in 1 .. Len(q) /\ b \in 1 .. Len(q) /\ a < b /\ n[j] = q[a] /\ n[k] = q[b]
      BY <2>1, <2>5, <3>2, <3>3
    <3> HIDE DEF a, b
    <3>5. wqPrio[q[a]] >= wqPrio[q[b]]
      BY <2>4, <2>5, <3>4
    <3> QED
      BY <2>2, <3>1, <3>4, <3>5
  <2> QED
    BY <2>6, <2>7
<1> QED
  BY <1>1, <1>2, <1>3, QueueSteps

\* For any priorities and any number of threads and entries the queues are
\* ordered by the priorities noted in __enqueue_thread, so that RELEASE wakes
\* a thread of the highest priority.
THEOREM QueuesOrdered == SafeSpec => []PriorityOrdered
<1>1. Init => PriorityOrdered
  BY DEF Init, PriorityOrdered
<1> QED
  BY <1>1, InitIInv, NextIInv, PriorityStep, PTL DEF SafeSpec

-----------------------------------------------------------------------------
(* The array of entries.                                                   *)

\* While somebody outside the queues asks for an entry, fewer entries are in
\* use than there are threads.
LEMMA EntryFree ==
    ASSUME IInv, MaxWqEntries >= Cardinality(Threads),
           stPc \in {"BLOCK", "BLOCKTIMED"}
    PROVE  \E i \in Slots : Free(i)
<1> SUFFICES ASSUME \A i \in Slots : ~Free(i) PROVE FALSE
  OBVIOUS
<1> USE NoneAssumption DEF IInv
<1> DEFINE T == Threads \ {stSrc}
<1>1. stSrc \in Threads
  BY DEF TypeOK
<1>2. IsFiniteSet(T) /\ Cardinality(T) = Cardinality(Threads) - 1 /\ Cardinality(Threads) \in Nat
  BY <1>1, ThreadsAssumption, FS_RemoveElement, FS_CardinalityType
<1>3. IsFiniteSet(Slots) /\ Cardinality(Slots) = MaxWqEntries
  BY WqAssumption, FS_Interval DEF Slots
<1>4. wqThread \in [Slots -> T]
  <2>1. ASSUME NEW i \in Slots PROVE wqThread[i] \in T
    BY DEF Free, TypeOK, ServerConsistent
  <2> QED
    BY <2>1 DEF TypeOK
<1>5. Cardinality(T) < Cardinality(Slots)
  BY <1>2, <1>3, WqAssumption
<1> HIDE DEF T
<1>6. \E x, y \in Slots : x # y /\ wqThread[x] = wqThread[y]
  BY <1>2, <1>3, <1>4, <1>5, FS_PigeonHole
<1> QED
  BY <1>6 DEF Free, QueuesConsistent, OneEntryPerThread

\* With an entry per thread __alloc_entry does not panic, however late the
\* entries of timed waiters are freed.
THEOREM NeverPanics == SafeSpec => []EntryAvailable
<1>1. Init => EntryAvailable
  BY DEF Init, EntryAvailable
<1>2. IInv /\ EntryAvailable /\ [Next]_vars => EntryAvailable'
  <2> SUFFICES ASSUME IInv, [Next]_vars, MaxWqEntries >= Cardinality(Threads),
                      stPc # "panic"
               PROVE  stPc' # "panic"
    BY DEF EntryAvailable
  <2>1. CASE UNCHANGED vars
    BY <2>1 DEF vars
  <2>2. ASSUME NEW t \in Threads, NEW s \in Sems,
               Down(t, s) \/ DownTimed(t, s) \/ TryDown(t, s) \/ Up(t, s)
        PROVE  stPc' # "panic"
    BY <2>2 DEF Down, DownTimed, Decrement, TryDown, Up, stVars
  <2>3. ASSUME NEW t \in Threads,
               \/ CancelReceive(t) \/ RestartReceive(t) \/ TimeOut(t)
               \/ CancelTimedSend(t) \/ TakeBack(t)
        PROVE  stPc' # "panic"
    BY <2>3 DEF CancelReceive, RestartReceive, TimeOut, CancelTimedSend, TakeBack, stVars
  <2>4. ASSUME NEW t \in Threads, SemReceive(t)
        PROVE  stPc' # "panic"
    BY <2>4, NoneAssumption DEF SemReceive, IInv, TypeOK, PcTypeOK, Ops
  <2>5. CASE StReply \/ StStoreWakeup \/ StPop \/ StScanEnd \/ StReleaseTimed \/ StWakeup
    BY <2>5 DEF StReply, StStoreWakeup, StPop, StScanEnd, StReleaseTimed, StWakeup,
                StWait, StWake, StGoto
  <2>6. CASE StBlock \/ StBlockTimed
    <3>1. \E i \in Slots : Free(i)
      BY <2>6, EntryFree DEF StBlock, StBlockTimed
    <3> QED
      BY <2>6, <3>1 DEF StBlock, StBlockTimed, StEnqueue, StWait, StWake
  <2> QED
    BY <2>1, <2>2, <2>3, <2>4, <2>5, <2>6 DEF Next, StStep
<1> QED
  BY <1>1, <1>2, InitIInv, NextIInv, PTL DEF SafeSpec
=============================================================================
