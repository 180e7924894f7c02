--------------------------- MODULE L4Lock_proofs ---------------------------
(***************************************************************************)
(* Mutual exclusion of the L4Env lock for any set of threads and locks and *)
(* any initial owners.  MutualExclusion is not inductive: a second thread  *)
(* is kept out by the semaphore, so the invariant says where its one unit  *)
(* is in every intermediate state (OneUnit), and what owner and ref_count  *)
(* are worth at each place of the library (FieldsFollow).                  *)
(***************************************************************************)
EXTENDS L4Lock, TLAPS

\* While t has the unit of l's semaphore the fields of l follow t's progress;
\* otherwise t is not l's owner.
FieldsFollow ==
    \A l \in Locks : \A t \in Threads :
        /\ owner[l] = t <=>
              \/ depth[t][l] > 0
              \/ lock[t] = l /\ pc[t] \in {"setref", "clearowner"}
        /\ depth[t][l] > 0 =>
              /\ ref_count[l] = depth[t][l]
              /\ ~(lock[t] = l /\ pc[t] # "idle")

IInv == TypeOK /\ OneUnit /\ FieldsFollow

\* The initial states satisfy the invariant, whoever owns the locks.
LEMMA InitIInv == Init => IInv
<1> SUFFICES ASSUME Init PROVE IInv
  OBVIOUS
<1> USE OwnerAssumption, NoneAssumption DEF Init, Sem!Init, InitValue
<1>1. TypeOK
  BY DEF TypeOK, Sem!TypeOK, Pcs
<1>2. OneUnit
  <2> SUFFICES ASSUME NEW l \in Locks
               PROVE \/ value[l] = 1 /\ \A t \in Threads : ~HasUnit(t, l)
                     \/ /\ value[l] = 0
                        /\ \E t \in Threads : \A u \in Threads : HasUnit(u, l) <=> u = t
    BY DEF OneUnit
  <2>1. \A u \in Threads : HasUnit(u, l) <=> u = InitOwner[l]
    BY DEF HasUnit
  <2> QED  BY <2>1
<1>3. FieldsFollow
  <2> SUFFICES ASSUME NEW l \in Locks, NEW t \in Threads
               PROVE  /\ owner[l] = t <=>
                            \/ depth[t][l] > 0
                            \/ lock[t] = l /\ pc[t] \in {"setref", "clearowner"}
                      /\ depth[t][l] > 0 =>
                            /\ ref_count[l] = depth[t][l]
                            /\ ~(lock[t] = l /\ pc[t] # "idle")
    BY DEF FieldsFollow
  <2>1. depth[t][l] = IF InitOwner[l] = t THEN 1 ELSE 0
    OBVIOUS
  <2>2. ref_count[l] = IF InitOwner[l] = None THEN 0 ELSE 1
    OBVIOUS
  <2>3. owner[l] = InitOwner[l] /\ pc[t] = "idle" /\ t # None
    OBVIOUS
  <2> QED  BY <2>1, <2>2, <2>3
<1> QED  BY <1>1, <1>2, <1>3 DEF IInv

\* Two threads never have the unit of one semaphore, and nobody has a unit
\* that is available.
LEMMA UnitUnique ==
  ASSUME OneUnit, NEW l \in Locks, NEW t \in Threads, HasUnit(t, l)
  PROVE  value[l] = 0 /\ \A u \in Threads : HasUnit(u, l) <=> u = t
BY DEF OneUnit

\* A step in which thread t moves the unit of no lock keeps OneUnit.
LEMMA UnitStays ==
  ASSUME OneUnit, value' = value,
         \A u \in Threads, l \in Locks : HasUnit(u, l)' <=> HasUnit(u, l)
  PROVE  OneUnit'
<1> SUFFICES ASSUME NEW l \in Locks
             PROVE  \/ value'[l] = 1 /\ \A t \in Threads : ~HasUnit(t, l)'
                    \/ /\ value'[l] = 0
                       /\ \E t \in Threads : \A u \in Threads : HasUnit(u, l)' <=> u = t
  BY DEF OneUnit
<1> QED  BY DEF OneUnit

\* A step that hands an available unit of lock k to t keeps OneUnit.
LEMMA UnitTaken ==
  ASSUME OneUnit, NEW t \in Threads, NEW k \in Locks,
         value \in [Locks -> Nat], value[k] > 0, value' = [value EXCEPT ![k] = @ - 1],
         \A u \in Threads, l \in Locks :
             HasUnit(u, l)' <=> HasUnit(u, l) \/ (u = t /\ l = k)
  PROVE  OneUnit'
<1> SUFFICES ASSUME NEW l \in Locks
             PROVE  \/ value'[l] = 1 /\ \A u \in Threads : ~HasUnit(u, l)'
                    \/ /\ value'[l] = 0
                       /\ \E w \in Threads : \A u \in Threads : HasUnit(u, l)' <=> u = w
  BY DEF OneUnit
<1>1. CASE l = k
  BY <1>1 DEF OneUnit
<1>2. CASE l # k
  BY <1>2 DEF OneUnit
<1> QED  BY <1>1, <1>2


\* lock, try_lock: the first step of a thread that is not inside the library.
LEMMA EnterStep ==
  ASSUME IInv, NEW t \in Threads, NEW l \in Locks, pc[t] = "idle",
         Reenter(t, l) \/ TakeSem(t, l)
  PROVE  IInv'
<1> USE NoneAssumption DEF IInv
<1>1. CASE Reenter(t, l)
  <2> USE <1>1 DEF Reenter
  <2>0. depth[t][l] > 0
    BY DEF FieldsFollow, TypeOK
  <2>1. TypeOK'
    BY DEF TypeOK, Sem!TypeOK
  <2>2. \A u \in Threads, k \in Locks : HasUnit(u, k)' <=> HasUnit(u, k)
    BY <2>0 DEF HasUnit, TypeOK
  <2>3. OneUnit'
    BY <2>2, UnitStays
  <2>4. \A u \in Threads : depth[u][l] > 0 => u = t
    BY <2>0, UnitUnique DEF HasUnit
  <2>5. FieldsFollow'
    BY <2>0, <2>4 DEF FieldsFollow, TypeOK
  <2> QED  BY <2>1, <2>3, <2>5
<1>2. CASE TakeSem(t, l)
  <2> USE <1>2 DEF TakeSem, Sem!Take, Enter
  <2>1. TypeOK'
    BY DEF TypeOK, Sem!TypeOK, Pcs
  <2>2. \A u \in Threads, k \in Locks :
            HasUnit(u, k)' <=> HasUnit(u, k) \/ (u = t /\ k = l)
    BY DEF HasUnit, TypeOK
  <2>3. OneUnit'
    <3>1. value \in [Locks -> Nat] /\ value[l] > 0
      BY DEF TypeOK, Sem!TypeOK
    <3>2. value' = [value EXCEPT ![l] = @ - 1]
      OBVIOUS
    <3> HIDE <1>2 DEF TakeSem
    <3> QED  BY <2>2, <3>1, <3>2, UnitTaken
  <2>4. depth[t][l] = 0
    BY DEF FieldsFollow, TypeOK
  <2>5. FieldsFollow'
    <3> SUFFICES ASSUME NEW k \in Locks, NEW u \in Threads
                 PROVE  /\ owner[k] = u <=>
                              \/ depth[u][k] > 0
                              \/ lock'[u] = k /\ pc'[u] \in {"setref", "clearowner"}
                        /\ depth[u][k] > 0 =>
                              /\ ref_count[k] = depth[u][k]
                              /\ ~(lock'[u] = k /\ pc'[u] # "idle")
      BY DEF FieldsFollow
    <3>1. CASE u = t
      BY <2>4, <3>1 DEF FieldsFollow, TypeOK
    <3>2. CASE u # t
      BY <3>2 DEF FieldsFollow, TypeOK
    <3> QED  BY <3>1, <3>2
  <2> QED  BY <2>1, <2>3, <2>5
<1> QED  BY <1>1, <1>2

\* Steps inside the library: every one of them keeps the invariant.
LEMMA ThreadSteps ==
  ASSUME IInv, NEW t \in Threads, NEW l \in Locks, lock[t] = l,
         \/ Woken(t) \/ SetOwner(t) \/ SetRefCount(t) \/ ClearOwner(t) \/ UpSem(t)
  PROVE  IInv'
<1> USE NoneAssumption DEF IInv, Goto
<1>1. CASE Woken(t)
  <2> USE <1>1 DEF Woken, Sem!Acquire
  <2>1. TypeOK'
    BY DEF TypeOK, Sem!TypeOK, Pcs
  <2>2. \A u \in Threads, k \in Locks :
            HasUnit(u, k)' <=> HasUnit(u, k) \/ (u = t /\ k = l)
    BY DEF HasUnit, TypeOK
  <2>3. OneUnit'
    <3>1. value \in [Locks -> Nat] /\ value[l] > 0
      BY DEF TypeOK, Sem!TypeOK
    <3>2. value' = [value EXCEPT ![l] = @ - 1]
      OBVIOUS
    <3> HIDE <1>1 DEF Woken, IInv, Goto, Sem!Acquire
    <3>3. OneUnit
      BY DEF IInv
    <3> HIDE DEF OneUnit, HasUnit, TypeOK
    <3> QED  BY ONLY <2>2, <3>1, <3>2, <3>3, UnitTaken, t \in Threads, l \in Locks
  <2>4. FieldsFollow'
    BY DEF FieldsFollow, TypeOK
  <2> QED  BY <2>1, <2>3, <2>4
<1>2. CASE SetOwner(t)
  <2> USE <1>2 DEF SetOwner
  <2>1. TypeOK'
    BY DEF TypeOK, Sem!TypeOK, Pcs
  <2>2. \A u \in Threads, k \in Locks : HasUnit(u, k)' <=> HasUnit(u, k)
    BY DEF HasUnit, TypeOK
  <2>3. OneUnit'
    BY <2>2, UnitStays
  <2>4. \A u \in Threads : HasUnit(u, l) => u = t
    BY UnitUnique DEF HasUnit
  <2>5. FieldsFollow'
    BY <2>4 DEF FieldsFollow, TypeOK, HasUnit
  <2> QED  BY <2>1, <2>3, <2>5
<1>3. CASE SetRefCount(t)
  <2> USE <1>3 DEF SetRefCount
  <2>1. TypeOK'
    BY DEF TypeOK, Sem!TypeOK, Pcs
  <2>2. \A u \in Threads, k \in Locks : HasUnit(u, k)' <=> HasUnit(u, k)
    BY DEF HasUnit, TypeOK
  <2>3. OneUnit'
    BY <2>2, UnitStays
  <2>4. \A u \in Threads : HasUnit(u, l) => u = t
    BY UnitUnique DEF HasUnit
  <2>5. FieldsFollow'
    BY <2>4 DEF FieldsFollow, TypeOK, HasUnit
  <2> QED  BY <2>1, <2>3, <2>5
<1>4. CASE ClearOwner(t)
  <2> USE <1>4 DEF ClearOwner
  <2>1. TypeOK'
    BY DEF TypeOK, Sem!TypeOK, Pcs
  <2>2. \A u \in Threads, k \in Locks : HasUnit(u, k)' <=> HasUnit(u, k)
    BY DEF HasUnit, TypeOK
  <2>3. OneUnit'
    BY <2>2, UnitStays
  <2>4. \A u \in Threads : HasUnit(u, l) => u = t
    BY UnitUnique DEF HasUnit
  <2>5. FieldsFollow'
    BY <2>4 DEF FieldsFollow, TypeOK, HasUnit
  <2> QED  BY <2>1, <2>3, <2>5
<1>5. CASE UpSem(t)
  <2> USE <1>5 DEF UpSem, Sem!Up
  <2>1. TypeOK'
    BY DEF TypeOK, Sem!TypeOK, Pcs
  <2>2. HasUnit(t, l)
    BY DEF HasUnit
  <2>3. value[l] = 0 /\ \A u \in Threads : HasUnit(u, l) => u = t
    BY <2>2, UnitUnique
  <2>4. depth[t][l] = 0
    BY DEF FieldsFollow, TypeOK
  <2>5. \A u \in Threads, k \in Locks :
            HasUnit(u, k)' <=> HasUnit(u, k) /\ ~(u = t /\ k = l)
    BY <2>4 DEF HasUnit, TypeOK
  <2>6. OneUnit'
    <3> SUFFICES ASSUME NEW k \in Locks
                 PROVE  \/ value'[k] = 1 /\ \A u \in Threads : ~HasUnit(u, k)'
                        \/ /\ value'[k] = 0
                           /\ \E w \in Threads : \A u \in Threads :
                                 HasUnit(u, k)' <=> u = w
      BY DEF OneUnit
    <3>1. CASE k = l
      BY <2>3, <2>5, <3>1 DEF TypeOK, Sem!TypeOK
    <3>2. CASE k # l
      <4>1. value'[k] = value[k]
        BY <3>2 DEF TypeOK, Sem!TypeOK
      <4>2. \A u \in Threads : HasUnit(u, k)' <=> HasUnit(u, k)
        BY <2>5, <3>2
      <4> QED  BY <4>1, <4>2 DEF OneUnit
    <3> QED  BY <3>1, <3>2
  <2>7. FieldsFollow'
    BY <2>4 DEF FieldsFollow, TypeOK
  <2> QED  BY <2>1, <2>6, <2>7
<1> QED  BY <1>1, <1>2, <1>3, <1>4, <1>5

\* unlock and the lock that has to wait keep the invariant.
LEMMA OtherCalls ==
  ASSUME IInv, NEW t \in Threads, NEW l \in Locks, pc[t] = "idle",
         \/ Unlock(t, l)
         \/ /\ owner[l] # t
            /\ Sem!Ask(t, l)
            /\ Enter(t, l, "down")
            /\ UNCHANGED <<owner, ref_count, depth>>
  PROVE  IInv'
<1> USE NoneAssumption DEF IInv, Enter
<1>1. CASE Unlock(t, l)
  <2> USE <1>1 DEF Unlock
  <2>0. depth[t][l] > 0 /\ ref_count[l] = depth[t][l]
    BY SMTT(30) DEF FieldsFollow, TypeOK
  <2>1. TypeOK'
    <3>1. depth'[t] \in [Locks -> Nat] /\ depth' \in [Threads -> [Locks -> Nat]]
      BY <2>0 DEF TypeOK
    <3>2. /\ pc' \in [Threads -> Pcs]
          /\ lock' \in [Threads -> Locks \cup {None}]
      <4>1. CASE UNCHANGED <<pc, lock>>
        BY <4>1 DEF TypeOK
      <4>2. CASE Enter(t, l, "clearowner")
        BY <4>2 DEF TypeOK, Pcs
      <4> QED  BY <4>1, <4>2
    <3>2a. ref_count' \in [Locks -> Int]
      BY DEF TypeOK
    <3>3. \A u \in Threads :
             /\ pc'[u] # "idle" => lock'[u] \in Locks
             /\ want'[u] = IF pc'[u] = "down" THEN lock'[u] ELSE None
      BY DEF TypeOK
    <3> QED  BY <3>1, <3>2, <3>2a, <3>3 DEF TypeOK, Sem!TypeOK
  <2>2. \A u \in Threads, k \in Locks : HasUnit(u, k)' <=> HasUnit(u, k)
    BY <2>0 DEF HasUnit, TypeOK
  <2>3. OneUnit'
    BY <2>2, UnitStays
  <2>4. \A u \in Threads : HasUnit(u, l) => u = t
    BY <2>0, UnitUnique DEF HasUnit
  <2>5. FieldsFollow'
    BY <2>0, <2>4 DEF FieldsFollow, TypeOK, HasUnit
  <2> QED  BY <2>1, <2>3, <2>5
<1>2. CASE owner[l] # t /\ Sem!Ask(t, l) /\ Enter(t, l, "down")
           /\ UNCHANGED <<owner, ref_count, depth>>
  <2> USE <1>2 DEF Sem!Ask
  <2>1. TypeOK'
    BY DEF TypeOK, Sem!TypeOK, Pcs
  <2>2. \A u \in Threads, k \in Locks : HasUnit(u, k)' <=> HasUnit(u, k)
    BY DEF HasUnit, TypeOK
  <2>3. OneUnit'
    BY <2>2, UnitStays
  <2>4. depth[t][l] = 0
    BY DEF FieldsFollow, TypeOK
  <2>5. FieldsFollow'
    BY <2>4 DEF FieldsFollow, TypeOK
  <2> QED  BY <2>1, <2>3, <2>5
<1> QED  BY <1>1, <1>2

\* Every step keeps the invariant.
LEMMA NextIInv == IInv /\ [Next]_vars => IInv'
<1> SUFFICES ASSUME IInv, [Next]_vars PROVE IInv'
  OBVIOUS
<1>1. CASE UNCHANGED vars
  BY <1>1 DEF IInv, TypeOK, Sem!TypeOK, OneUnit, HasUnit, FieldsFollow, vars
<1>2. ASSUME NEW t \in Threads, NEW l \in Locks, Lock(t, l)
      PROVE IInv'
  BY <1>2, EnterStep, OtherCalls DEF Lock
<1>3. ASSUME NEW t \in Threads, NEW l \in Locks, TryLock(t, l)
      PROVE IInv'
  BY <1>3, EnterStep DEF TryLock
<1>4. ASSUME NEW t \in Threads, NEW l \in Locks, Unlock(t, l)
      PROVE IInv'
  BY <1>4, OtherCalls DEF Unlock
<1>5. ASSUME NEW t \in Threads,
             Woken(t) \/ SetOwner(t) \/ SetRefCount(t) \/ ClearOwner(t) \/ UpSem(t)
      PROVE IInv'
  <2>1. pc[t] # "idle"
    BY <1>5 DEF Woken, SetOwner, SetRefCount, ClearOwner, UpSem
  <2>2. lock[t] \in Locks
    BY <2>1 DEF IInv, TypeOK
  <2> QED  BY <1>5, <2>2, ThreadSteps
<1> QED  BY <1>1, <1>2, <1>3, <1>4, <1>5 DEF Next

\* The fields of a lock and its semaphore stay consistent in every reachable
\* state: type correctness, and one unit that is with one thread at most.
THEOREM LockConsistency == SafeSpec => [](TypeOK /\ OneUnit)
<1>1. IInv => TypeOK /\ OneUnit
  BY DEF IInv
<1> QED  BY <1>1, InitIInv, NextIInv, PTL DEF SafeSpec

\* lock, try_lock and unlock keep owner, ref_count and the semaphore within
\* their types, and a thread sleeps on the lock it was called for, only while it
\* is in l4semaphore_down.
THEOREM LockTypes == SafeSpec => []TypeOK
BY LockConsistency, PTL

\* No two threads are between lock and unlock of one lock, for any number of
\* threads, any nesting of calls and any owners at the start.
THEOREM LockExcludes == SafeSpec => []MutualExclusion
<1>1. IInv => MutualExclusion
  <2> SUFFICES ASSUME IInv, NEW l \in Locks, NEW t1 \in Threads, NEW t2 \in Threads,
                      depth[t1][l] > 0, depth[t2][l] > 0
               PROVE  t1 = t2
    BY DEF MutualExclusion
  <2>1. HasUnit(t1, l) /\ HasUnit(t2, l)
    BY DEF HasUnit
  <2> QED  BY <2>1, UnitUnique DEF IInv
<1> QED  BY <1>1, InitIInv, NextIInv, PTL DEF SafeSpec

\* The unsynchronised reads of owner in lock, try_lock and unlock never
\* mislead the thread that reads.
THEOREM OwnerReads == SafeSpec => []OwnerReadCorrect
<1>1. IInv => OwnerReadCorrect
  BY DEF IInv, FieldsFollow, OwnerReadCorrect
<1> QED  BY <1>1, InitIInv, NextIInv, PTL DEF SafeSpec
=============================================================================
