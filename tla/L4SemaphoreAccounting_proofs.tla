--------------------- MODULE L4SemaphoreAccounting_proofs ---------------------
(***************************************************************************)
(* What the semaphore library guarantees its callers as long as no thread  *)
(* uses l4semaphore_down_timed: no unit is granted twice and none is lost. *)
(***************************************************************************)
EXTENDS L4Semaphore_proofs

\* No timed waiter ever comes into being.
Untimed ==
    /\ \A t \in Threads :
          op[t] \notin {"BLOCKTIMED", "RELEASETIMED"} /\ data[t] = None
    /\ stPc \notin {"BLOCKTIMED", "RELEASETIMED", "scan"}

\* At the start there is no timed waiter.
LEMMA UntimedInit == Init => Untimed
BY NoneAssumption DEF Init, Untimed, Ops

\* Only a thread of TimedThreads becomes a timed waiter.
LEMMA UntimedStep ==
    ASSUME TimedThreads = {}, IInv, Untimed, [Next]_vars
    PROVE  Untimed'
<1> USE NoneAssumption DEF Untimed, Ops
<1>1. CASE UNCHANGED vars
  BY <1>1 DEF vars
<1>2. ASSUME NEW t \in Threads, NEW s \in Sems,
             Down(t, s) \/ TryDown(t, s) \/ Up(t, s)
      PROVE  Untimed'
  BY <1>2 DEF IInv, TypeOK, Down, Decrement, TryDown, Up, CallSemThread, wqVars, stVars, thrVars
<1>3. ASSUME NEW t \in Threads,
             \/ CancelReceive(t) \/ RestartReceive(t) \/ TimeOut(t)
             \/ CancelTimedSend(t) \/ TakeBack(t)
      PROVE  Untimed'
  BY <1>3 DEF IInv, TypeOK, PcTypeOK, CancelReceive, RestartReceive, TimeOut,
              CancelTimedSend, TakeBack, wqVars, stVars
<1>4. ASSUME NEW t \in Threads, SemReceive(t)
      PROVE  Untimed'
  BY <1>4 DEF IInv, TypeOK, PcTypeOK, SemReceive, Return, wqVars
<1>5. CASE StStep
  <2>1. StBlock \/ StReply \/ StStoreWakeup \/ StPop \/ StWakeup
    BY <1>5 DEF StStep, StBlockTimed, StScanEnd, StReleaseTimed
  <2>2. CASE StBlock
    BY <2>2 DEF StBlock, StEnqueue, StWait, StGoto, StWake, wqVars, thrVars
  <2>3. CASE StReply
    BY <2>3 DEF IInv, TypeOK, StReply, WakeNow, Return, StGoto, wqVars
  <2>4. CASE StStoreWakeup
    BY <2>4 DEF StStoreWakeup, StWait, wqVars, thrVars
  <2>5. CASE StPop
    <3>1. stSem \in Sems /\ queue[stSem] \in Seq(Slots) /\ queue[stSem] # << >>
      BY <2>5 DEF IInv, TypeOK, StPop
    <3>2. Head(queue[stSem]) = queue[stSem][1] /\ 1 \in DOMAIN queue[stSem]
      BY <3>1
    <3>3. wqThread[Head(queue[stSem])] \in Threads
      BY <3>1, <3>2 DEF IInv, QueuesConsistent, EntriesConsistent, EntryConsistent
    <3> QED
      BY <2>5, <3>3 DEF StPop, StWake, thrVars
  <2>6. CASE StWakeup
    BY <2>6 DEF IInv, TypeOK, StWakeup, WakeNow, Return, StWait, wqVars
  <2> QED
    BY <2>1, <2>2, <2>3, <2>4, <2>5, <2>6
<1> QED
  BY <1>1, <1>2, <1>3, <1>4, <1>5 DEF Next, DownTimed

-----------------------------------------------------------------------------
\* Releasing(s) is finite, and its size changes by one with one thread.
LEMMA ReleasingFinite ==
    ASSUME NEW s
    PROVE  IsFiniteSet(Releasing(s)) /\ Cardinality(Releasing(s)) \in Nat
BY ThreadsAssumption, FS_Subset, FS_CardinalityType DEF Releasing

\* The units visible in the counter.
Visible(s) == IF counter[s] > 0 THEN counter[s] ELSE 0

AccountInv == IInv /\ Untimed /\ TokensAccounted

\* At the start every unit is in the counter.
LEMMA AccountInit == Init => TokensAccounted
<1> SUFFICES ASSUME Init, NEW s \in Sems
             PROVE  tokens[s] = (IF counter[s] > 0 THEN counter[s] ELSE 0) + pending[s]
                                + Cardinality(Releasing(s)) + HeldRelease(s)
  BY DEF TokensAccounted
<1>1. Releasing(s) = {} /\ HeldRelease(s) = 0
  BY DEF Init, Releasing, HeldRelease
<1>2. Cardinality(Releasing(s)) = 0
  BY <1>1, FS_EmptySet
<1> QED
  BY <1>1, <1>2, CountAssumption DEF Init

\* A step in which no RELEASE message starts, arrives or is acted upon.
LEMMA AccountUnmoved ==
    ASSUME AccountInv, NEW s \in Sems, Releasing(s)' = Releasing(s),
           tokens'[s] - tokens[s] = Visible(s)' - Visible(s) + (pending'[s] - pending[s])
                                    + (HeldRelease(s)' - HeldRelease(s)),
           tokens'[s] \in Int, counter'[s] \in Int, pending'[s] \in Int
    PROVE  tokens'[s] = Visible(s)' + pending'[s]
                        + Cardinality(Releasing(s)') + HeldRelease(s)'
<1>1. /\ tokens[s] \in Int /\ counter[s] \in Int /\ pending[s] \in Int
      /\ HeldRelease(s) \in Int /\ HeldRelease(s)' \in Int
  BY DEF AccountInv, IInv, TypeOK, HeldRelease
<1>2. Cardinality(Releasing(s)) \in Int
  BY ReleasingFinite
<1>3. tokens[s] = Visible(s) + pending[s] + Cardinality(Releasing(s)) + HeldRelease(s)
  BY DEF AccountInv, TokensAccounted, Visible
<1>4. Visible(s) \in Int /\ Visible(s)' \in Int
  BY <1>1 DEF Visible
<1> QED
  BY <1>1, <1>2, <1>3, <1>4

\* Every unit stays accounted for, in each step of the library.
LEMMA AccountStep ==
    ASSUME TimedThreads = {}, AccountInv, [Next]_vars
    PROVE  TokensAccounted'
<1> USE NoneAssumption
<1>1. IInv' /\ Untimed'
  BY NextIInv, UntimedStep DEF AccountInv
<1> SUFFICES ASSUME NEW r \in Sems
             PROVE  tokens'[r] = Visible(r)' + pending'[r]
                                 + Cardinality(Releasing(r)') + HeldRelease(r)'
  BY DEF TokensAccounted, Visible
<1>2. /\ tokens[r] \in Int /\ counter[r] \in Int /\ pending[r] \in Int
      /\ tokens'[r] \in Int /\ counter'[r] \in Int /\ pending'[r] \in Int
  BY <1>1 DEF AccountInv, IInv, TypeOK
<1>3. Visible(r) \in Int /\ Visible(r)' \in Int
  BY <1>2 DEF Visible
<1>4. tokens[r] = Visible(r) + pending[r] + Cardinality(Releasing(r)) + HeldRelease(r)
  BY DEF AccountInv, TokensAccounted, Visible
<1>5. IsFiniteSet(Releasing(r)) /\ Cardinality(Releasing(r)) \in Nat
  BY ReleasingFinite
<1>6. CASE UNCHANGED vars
  <2>1. Releasing(r)' = Releasing(r)
    BY <1>6 DEF vars, Releasing
  <2> QED
    BY <1>2, <1>6, <2>1, AccountUnmoved DEF vars, Visible, HeldRelease
<1>7. ASSUME NEW t \in Threads, NEW s \in Sems, Down(t, s) \/ TryDown(t, s)
      PROVE  tokens'[r] = Visible(r)' + pending'[r]
                          + Cardinality(Releasing(r)') + HeldRelease(r)'
  <2>1. Releasing(r)' = Releasing(r)
    BY <1>7, SMTT(30) DEF AccountInv, IInv, TypeOK, Down, Decrement, TryDown,
                CallSemThread, thrVars, Releasing
  <2>2. pending'[r] = pending[r] /\ HeldRelease(r)' = HeldRelease(r)
    BY <1>7 DEF Down, Decrement, TryDown, stVars, HeldRelease
  <2>3. tokens'[r] - tokens[r] = Visible(r)' - Visible(r)
    <3>1. CASE r # s
      BY <1>2, <1>7, <3>1, SMTT(30)
         DEF AccountInv, IInv, TypeOK, Down, Decrement, TryDown, Grant, Visible
    <3>2. CASE r = s
      <4>1. counter'[s] = counter[s] - 1
        BY <1>7 DEF AccountInv, IInv, TypeOK, Down, Decrement, TryDown
      <4>2. IF counter[s] > 0 THEN tokens'[s] = tokens[s] - 1 ELSE tokens'[s] = tokens[s]
        BY <1>2, <1>7, <3>2
           DEF AccountInv, IInv, TypeOK, Down, Decrement, TryDown, Grant
      <4> QED
        BY <1>2, <3>2, <4>1, <4>2 DEF Visible
    <3> QED
      BY <3>1, <3>2
  <2>4. HeldRelease(r) \in Int
    BY DEF HeldRelease
  <2> QED
    BY <1>2, <1>3, <2>1, <2>2, <2>3, <2>4, AccountUnmoved
<1>8. ASSUME NEW t \in Threads, NEW s \in Sems, Up(t, s)
      PROVE  tokens'[r] = Visible(r)' + pending'[r]
                          + Cardinality(Releasing(r)') + HeldRelease(r)'
  <2>1. pending'[r] = pending[r] /\ HeldRelease(r)' = HeldRelease(r) /\ HeldRelease(r) \in Int
    BY <1>8 DEF Up, stVars, HeldRelease
  <2>2. CASE r = s /\ counter[s] + 1 <= 0
    <3>1. Releasing(r)' = Releasing(r) \cup {t} /\ t \notin Releasing(r)
      BY <1>8, <2>2 DEF AccountInv, IInv, TypeOK, Up, CallSemThread, Releasing
    <3>2. Cardinality(Releasing(r)') = Cardinality(Releasing(r)) + 1
      BY <1>5, <3>1, FS_AddElement
    <3>3. tokens'[r] = tokens[r] + 1 /\ Visible(r)' = 0 /\ Visible(r) = 0
      BY <1>2, <1>8, <2>2 DEF AccountInv, IInv, TypeOK, Up, Visible
    <3> QED
      BY <1>2, <1>4, <1>5, <2>1, <3>2, <3>3
  <2>3. CASE ~(r = s /\ counter[s] + 1 <= 0)
    <3>1. Releasing(r)' = Releasing(r)
      BY <1>8, <2>3 DEF AccountInv, IInv, TypeOK, Up, CallSemThread, thrVars, Releasing
    <3>2. tokens'[r] - tokens[r] = Visible(r)' - Visible(r)
      BY <1>2, <1>8, <2>3, SMTT(30) DEF AccountInv, IInv, TypeOK, Up, Visible
    <3> QED
      BY <1>2, <1>3, <2>1, <3>1, <3>2, AccountUnmoved
  <2> QED
    BY <2>2, <2>3
<1>9. ASSUME NEW t \in Threads,
             \/ CancelReceive(t) \/ RestartReceive(t) \/ TimeOut(t)
             \/ CancelTimedSend(t) \/ TakeBack(t)
      PROVE  tokens'[r] = Visible(r)' + pending'[r]
                          + Cardinality(Releasing(r)') + HeldRelease(r)'
  <2>1. CancelReceive(t) \/ RestartReceive(t)
    BY <1>9 DEF AccountInv, IInv, TypeOK, PcTypeOK, Untimed, TimeOut,
                CancelTimedSend, TakeBack
  <2>2. Releasing(r)' = Releasing(r)
    BY <2>1 DEF AccountInv, IInv, TypeOK, CancelReceive, RestartReceive, Releasing
  <2> QED
    BY <1>2, <2>1, <2>2, AccountUnmoved
       DEF CancelReceive, RestartReceive, semVars, stVars, Visible, HeldRelease
<1>10. ASSUME NEW t \in Threads, SemReceive(t)
       PROVE  tokens'[r] = Visible(r)' + pending'[r]
                           + Cardinality(Releasing(r)') + HeldRelease(r)'
  <2>1. /\ tokens' = tokens /\ pending' = pending /\ Visible(r)' = Visible(r)
        /\ HeldRelease(r) = 0
    BY <1>10 DEF SemReceive, semVars, Visible, HeldRelease
  <2>2. CASE pc[t] = "call" /\ op[t] = "RELEASE" /\ sem[t] = r
    <3>1. Releasing(r)' = Releasing(r) \ {t} /\ t \in Releasing(r)
      BY <1>10, <2>2 DEF AccountInv, IInv, TypeOK, SemReceive, Releasing
    <3>2. Cardinality(Releasing(r)') = Cardinality(Releasing(r)) - 1
      BY <1>5, <3>1, FS_RemoveElement
    <3>3. HeldRelease(r)' = 1
      BY <1>10, <2>2 DEF SemReceive, HeldRelease
    <3> QED
      BY <1>2, <1>3, <1>4, <1>5, <2>1, <3>2, <3>3
  <2>3. CASE ~(pc[t] = "call" /\ op[t] = "RELEASE" /\ sem[t] = r)
    <3>1. Releasing(r)' = Releasing(r)
      BY <1>10, <2>3 DEF AccountInv, IInv, TypeOK, SemReceive, Return, Releasing
    <3>2. HeldRelease(r)' = 0
      BY <1>10, <2>3 DEF AccountInv, IInv, TypeOK, PcTypeOK, SemReceive, HeldRelease
    <3> QED
      BY <1>2, <1>3, <2>1, <3>1, <3>2, AccountUnmoved
  <2> QED
    BY <2>2, <2>3
<1>11. ASSUME StStep
       PROVE  tokens'[r] = Visible(r)' + pending'[r]
                           + Cardinality(Releasing(r)') + HeldRelease(r)'
  <2>1. StBlock \/ StReply \/ StStoreWakeup \/ StPop \/ StWakeup
    BY <1>11 DEF AccountInv, Untimed, StStep, StBlockTimed, StScanEnd, StReleaseTimed
  <2>2. counter' = counter /\ Visible(r)' = Visible(r)
    BY <2>1 DEF StBlock, StReply, StStoreWakeup, StPop, StWakeup, semVars, Visible
  <2>3. stPc # "wait" /\ stSrc \in Threads /\ stSem \in Sems
    BY <2>1 DEF AccountInv, IInv, TypeOK, StBlock, StReply, StStoreWakeup, StPop, StWakeup
  <2>4. CASE StBlock
    <3>1. Releasing(r)' = Releasing(r)
      BY <2>4 DEF StBlock, thrVars, Releasing
    <3>2. HeldRelease(r) = 0 /\ HeldRelease(r)' = 0
      BY <2>4 DEF StBlock, StWake, StEnqueue, StWait, StGoto, HeldRelease
    <3>3. tokens'[r] - tokens[r] = pending'[r] - pending[r]
      BY <1>2, <2>3, <2>4, SMTT(30) DEF AccountInv, IInv, TypeOK, StBlock, Grant
    <3> QED
      BY <1>2, <1>3, <2>2, <3>1, <3>2, <3>3, AccountUnmoved
  <2>5. CASE StReply
    <3>1. Releasing(r)' = Releasing(r)
      BY <2>3, <2>5 DEF AccountInv, IInv, TypeOK, StReply, WakeNow, Return, Releasing
    <3>2. HeldRelease(r)' = HeldRelease(r) /\ HeldRelease(r) \in Int
      BY <2>5 DEF StReply, StGoto, HeldRelease
    <3>3. tokens' = tokens /\ pending' = pending
      BY <2>5 DEF StReply, semVars
    <3> QED
      BY <1>2, <1>3, <2>2, <3>1, <3>2, <3>3, AccountUnmoved
  <2>6. CASE StStoreWakeup
    <3>1. Releasing(r)' = Releasing(r) /\ tokens' = tokens
      BY <2>6 DEF StStoreWakeup, thrVars, Releasing
    <3>2. pending'[r] - pending[r] = HeldRelease(r)
      BY <1>2, <2>3, <2>6 DEF AccountInv, IInv, TypeOK, StStoreWakeup, HeldRelease
    <3>3. HeldRelease(r)' = 0 /\ HeldRelease(r) \in Int
      BY <2>6 DEF StStoreWakeup, StWait, HeldRelease
    <3> QED
      BY <1>2, <1>3, <2>2, <3>1, <3>2, <3>3, AccountUnmoved
  <2>7. CASE StPop
    <3>1. /\ Grant(stSem) /\ stPc' = "wakeup" /\ pending' = pending
          /\ UNCHANGED thrVars /\ stPc \in {"release", "scan"}
      <4>1. queue[stSem] \in Seq(Slots) /\ queue[stSem] # << >>
        BY <2>3, <2>7 DEF AccountInv, IInv, TypeOK, StPop
      <4>2. Head(queue[stSem]) = queue[stSem][1] /\ 1 \in DOMAIN queue[stSem]
        BY <4>1
      <4>3. wqThread[Head(queue[stSem])] \in Threads
        BY <2>3, <4>1, <4>2
           DEF AccountInv, IInv, QueuesConsistent, EntriesConsistent, EntryConsistent
      <4>4. data[wqThread[Head(queue[stSem])]] = None
        BY <4>3 DEF AccountInv, Untimed
      <4> QED
        BY <2>7, <4>4 DEF StPop, StWake
    <3>2. Releasing(r)' = Releasing(r)
      BY <3>1 DEF thrVars, Releasing
    <3>3. HeldRelease(r)' = 0 /\ HeldRelease(r) \in Int
      BY <3>1 DEF HeldRelease
    <3>4. tokens'[r] = tokens[r] - HeldRelease(r)
      BY <1>2, <2>3, <3>1 DEF AccountInv, IInv, TypeOK, Untimed, Grant, HeldRelease
    <3> QED
      BY <1>2, <1>3, <2>2, <3>1, <3>2, <3>3, <3>4, AccountUnmoved
  <2>8. CASE StWakeup
    <3>1. Releasing(r)' = Releasing(r)
      BY <2>3, <2>8 DEF AccountInv, IInv, TypeOK, StWakeup, WakeNow, Return, Releasing
    <3>2. HeldRelease(r)' = 0 /\ HeldRelease(r) = 0
      BY <2>8 DEF StWakeup, StWait, HeldRelease
    <3>3. tokens' = tokens /\ pending' = pending
      BY <2>8 DEF StWakeup, semVars
    <3> QED
      BY <1>2, <1>3, <2>2, <3>1, <3>2, <3>3, AccountUnmoved
  <2> QED
    BY <2>1, <2>4, <2>5, <2>6, <2>7, <2>8
<1>12. CASE Next
  BY <1>7, <1>8, <1>9, <1>10, <1>11, <1>12 DEF Next, DownTimed
<1> QED
  BY <1>6, <1>12

\* Without timed waiters, whatever threads, semaphores and priorities there are:
\* every available unit is in the counter, in pending or in one RELEASE message.
THEOREM UnitsAccounted ==
    ASSUME TimedThreads = {}
    PROVE  SafeSpec => []TokensAccounted
<1>1. Init => AccountInv
  BY InitIInv, UntimedInit, AccountInit DEF AccountInv
<1>2. AccountInv /\ [Next]_vars => AccountInv'
  BY NextIInv, UntimedStep, AccountStep DEF AccountInv
<1>3. AccountInv => TokensAccounted
  BY DEF AccountInv
<1> QED
  BY <1>1, <1>2, <1>3, PTL DEF SafeSpec

\* Without timed waiters l4semaphore_down and l4semaphore_try_down never
\* succeed more often than the initial count and l4semaphore_up allow.
THEOREM NeverOvergrants ==
    ASSUME TimedThreads = {}
    PROVE  SafeSpec => []NoOvergrant
<1>1. TypeOK /\ TokensAccounted => NoOvergrant
  <2> SUFFICES ASSUME TypeOK, TokensAccounted, NEW s \in Sems PROVE tokens[s] >= 0
    BY DEF NoOvergrant
  <2>1. Cardinality(Releasing(s)) \in Nat /\ HeldRelease(s) \in Nat
    BY ReleasingFinite DEF HeldRelease
  <2> QED
    BY <2>1, SMTT(30) DEF TypeOK, TokensAccounted
<1> QED
  BY <1>1, TypeCorrect, UnitsAccounted, PTL

-----------------------------------------------------------------------------
(* The counter and the sleepers, timed waiters included.                   *)

\* Sleepers(s) is finite.
LEMMA SleepersFinite ==
    ASSUME NEW s
    PROVE  IsFiniteSet(Sleepers(s)) /\ Cardinality(Sleepers(s)) \in Nat
BY ThreadsAssumption, FS_Subset, FS_CardinalityType DEF Sleepers

\* The three ways a step can keep the balance of one semaphore.
LEMMA BalanceKept ==
    ASSUME IInv, IInv', SleepersCounted, NEW r \in Sems,
           \/ /\ Sleepers(r)' = Sleepers(r)
              /\ tokens'[r] - tokens[r] = counter'[r] - counter[r]
           \/ /\ \E t \in Threads : t \notin Sleepers(r) /\ Sleepers(r)' = Sleepers(r) \cup {t}
              /\ tokens'[r] = tokens[r] /\ counter'[r] = counter[r] - 1
           \/ /\ \E t \in Threads : t \in Sleepers(r) /\ Sleepers(r)' = Sleepers(r) \ {t}
              /\ tokens'[r] - tokens[r] = counter'[r] - counter[r] - 1
    PROVE  tokens'[r] = counter'[r] + Cardinality(Sleepers(r)')
<1>1. /\ tokens[r] \in Int /\ counter[r] \in Int
      /\ tokens'[r] \in Int /\ counter'[r] \in Int
  BY DEF IInv, TypeOK
<1>2. IsFiniteSet(Sleepers(r)) /\ Cardinality(Sleepers(r)) \in Nat
  BY SleepersFinite
<1>3. tokens[r] = counter[r] + Cardinality(Sleepers(r))
  BY DEF SleepersCounted
<1>4. \A t : t \notin Sleepers(r) => Cardinality(Sleepers(r) \cup {t}) = Cardinality(Sleepers(r)) + 1
  BY ONLY <1>2, FS_AddElement
<1>5. \A t : t \in Sleepers(r) => Cardinality(Sleepers(r) \ {t}) = Cardinality(Sleepers(r)) - 1
  BY ONLY <1>2, FS_RemoveElement
<1> QED
  BY <1>1, <1>2, <1>3, <1>4, <1>5

\* No step upsets the balance of counter, units and sleepers.
LEMMA SleepersStep ==
    ASSUME IInv, SleepersCounted, [Next]_vars
    PROVE  SleepersCounted'
<1> USE NoneAssumption
<1>1. IInv'
  BY NextIInv
<1> SUFFICES ASSUME NEW r \in Sems
             PROVE  tokens'[r] = counter'[r] + Cardinality(Sleepers(r)')
  BY DEF SleepersCounted
<1>2. /\ tokens[r] \in Int /\ counter[r] \in Int /\ pending[r] \in Int
      /\ tokens'[r] \in Int /\ counter'[r] \in Int
  BY <1>1 DEF IInv, TypeOK
<1> DEFINE Balance == tokens'[r] = counter'[r] + Cardinality(Sleepers(r)')
<1>3. CASE UNCHANGED vars
  <2>1. Sleepers(r)' = Sleepers(r)
    BY <1>3 DEF vars, Sleepers, Sleeping
  <2> QED
    BY <1>1, <1>2, <1>3, <2>1, BalanceKept DEF vars
<1>4. ASSUME NEW t \in Threads, NEW s \in Sems, NEW o \in {"BLOCK", "BLOCKTIMED"},
             Decrement(t, s, o)
      PROVE  Balance
  <2>1. t \notin Sleepers(r)
    BY <1>4 DEF Decrement, Sleepers, Sleeping
  <2>2. CASE counter[s] - 1 < 0
    <3>1. /\ pc' = [pc EXCEPT ![t] = "call"] /\ op' = [op EXCEPT ![t] = o]
          /\ sem' = [sem EXCEPT ![t] = s] /\ tokens' = tokens
          /\ counter' = [counter EXCEPT ![s] = @ - 1] /\ stPc' = stPc /\ stSrc' = stSrc
          /\ pc[t] = "idle"
      BY <1>4, <2>2 DEF Decrement, CallSemThread, stVars
    <3>2. ~(stPc = "wakeup" /\ stSrc = t)
      BY <3>1 DEF IInv, ServerConsistent
    <3>3. Sleepers(r)' = IF r = s THEN Sleepers(r) \cup {t} ELSE Sleepers(r)
      BY <2>1, <3>1, <3>2, <1>4 DEF IInv, TypeOK, Sleepers, Sleeping
    <3>4. counter'[r] = IF r = s THEN counter[r] - 1 ELSE counter[r]
      BY <3>1 DEF IInv, TypeOK
    <3>5. CASE r = s
      BY <1>1, <2>1, <3>1, <3>3, <3>4, <3>5, BalanceKept
    <3>6. CASE r # s
      <4>1. /\ Sleepers(r)' = Sleepers(r)
            /\ tokens'[r] - tokens[r] = counter'[r] - counter[r]
        BY <1>2, <3>1, <3>3, <3>4, <3>6
      <4> QED
        BY <1>1, <4>1, BalanceKept
    <3> QED
      BY <3>5, <3>6
  <2>3. CASE ~(counter[s] - 1 < 0)
    <3>1. Sleepers(r)' = Sleepers(r)
      BY <1>4, <2>3 DEF Decrement, thrVars, stVars, Sleepers, Sleeping
    <3>2. tokens'[r] - tokens[r] = counter'[r] - counter[r]
      BY <1>2, <1>4, <2>3 DEF Decrement, Grant, IInv, TypeOK
    <3> QED
      BY <1>1, <3>1, <3>2, BalanceKept
  <2> QED
    BY <2>2, <2>3
<1>5. ASSUME NEW t \in Threads, NEW s \in Sems, TryDown(t, s)
      PROVE  Balance
  <2>1. Sleepers(r)' = Sleepers(r)
    BY <1>5 DEF TryDown, thrVars, stVars, Sleepers, Sleeping
  <2>2. tokens'[r] - tokens[r] = counter'[r] - counter[r]
    BY <1>2, <1>5 DEF TryDown, Grant, IInv, TypeOK
  <2> QED
    BY <1>1, <2>1, <2>2, BalanceKept
<1>6. ASSUME NEW t \in Threads, NEW s \in Sems, Up(t, s)
      PROVE  Balance
  <2>1. Sleepers(r)' = Sleepers(r)
    <3>1. CASE counter[s] + 1 <= 0
      BY <1>6, <3>1, SMTT(30) DEF Up, CallSemThread, stVars, IInv, TypeOK, Sleepers, Sleeping
    <3>2. CASE ~(counter[s] + 1 <= 0)
      BY <1>6, <3>2 DEF Up, thrVars, stVars, Sleepers, Sleeping
    <3> QED
      BY <3>1, <3>2
  <2>2. tokens'[r] - tokens[r] = counter'[r] - counter[r]
    BY <1>2, <1>6 DEF Up, IInv, TypeOK
  <2> QED
    BY <1>1, <2>1, <2>2, BalanceKept
<1>7. ASSUME NEW t \in Threads,
             CancelReceive(t) \/ RestartReceive(t) \/ TimeOut(t) \/ CancelTimedSend(t)
      PROVE  Balance
  <2>1. Sleepers(r)' = Sleepers(r)
    BY <1>7 DEF CancelReceive, RestartReceive, TimeOut, CancelTimedSend, stVars,
                IInv, TypeOK, Sleepers, Sleeping
  <2>2. tokens' = tokens /\ counter' = counter
    BY <1>7 DEF CancelReceive, RestartReceive, TimeOut, CancelTimedSend, semVars
  <2> QED
    BY <1>1, <1>2, <2>1, <2>2, BalanceKept
<1>8. ASSUME NEW t \in Threads, TakeBack(t)
      PROVE  Balance
  <2>1. /\ pc[t] \in {"timedout", "sendcanceled"} /\ op[t] = "BLOCKTIMED" /\ sem[t] \in Sems
        /\ stPc' = stPc /\ stSrc' = stSrc /\ tokens' = tokens
    BY <1>8 DEF TakeBack, stVars, IInv, TypeOK, PcTypeOK
  <2>2. ~(stPc = "wakeup" /\ stSrc = t)
    BY <2>1 DEF IInv, ServerConsistent
  <2>3. /\ pc'[t] \in {"release", "idle"}
        /\ \A u \in Threads \ {t} : pc'[u] = pc[u] /\ op'[u] = op[u] /\ sem'[u] = sem[u]
    BY <1>8, <2>1 DEF TakeBack, Return, IInv, TypeOK
  <2>4. Sleepers(r)' = IF r = sem[t] THEN Sleepers(r) \ {t} ELSE Sleepers(r)
    BY <2>1, <2>3 DEF Sleepers, Sleeping
  <2>5. r = sem[t] => t \in Sleepers(r)
    BY <2>1, <2>2 DEF Sleepers, Sleeping
  <2>6. counter'[r] = IF r = sem[t] THEN counter[r] + 1 ELSE counter[r]
    BY <1>8, <2>1 DEF TakeBack, IInv, TypeOK
  <2> QED
    <3>1. CASE r = sem[t]
      <4>1. /\ \E u \in Threads : u \in Sleepers(r) /\ Sleepers(r)' = Sleepers(r) \ {u}
            /\ tokens'[r] - tokens[r] = counter'[r] - counter[r] - 1
        BY <1>2, <2>1, <2>4, <2>5, <2>6, <3>1
      <4> QED
        BY <1>1, <4>1, BalanceKept
    <3>2. CASE r # sem[t]
      BY <1>1, <1>2, <2>1, <2>4, <2>6, <3>2, BalanceKept
    <3> QED
      BY <3>1, <3>2
<1>9. ASSUME NEW t \in Threads, SemReceive(t)
      PROVE  Balance
  <2>1. tokens' = tokens /\ counter' = counter
    BY <1>9 DEF SemReceive, semVars
  <2>2. stPc = "wait" /\ stPc' # "wakeup" /\ pc[t] \in {"call", "release"}
    BY <1>9 DEF SemReceive, IInv, TypeOK, PcTypeOK
  <2>3. Sleepers(r)' = Sleepers(r)
    <3>1. CASE pc[t] = "call"
      BY <1>9, <2>2, <3>1 DEF SemReceive, IInv, TypeOK, Sleepers, Sleeping
    <3>2. CASE pc[t] = "release"
      BY <1>9, <2>2, <3>2 DEF SemReceive, Return, IInv, TypeOK, Sleepers, Sleeping
    <3> QED
      BY <2>2, <3>1, <3>2
  <2> QED
    BY <1>1, <1>2, <2>1, <2>3, BalanceKept
<1>10. ASSUME NEW w \in Threads, NEW s \in Sems, Sleeping(w), sem[w] = s,
              stPc # "wakeup", counter' = counter,
              tokens' = [tokens EXCEPT ![s] = @ - 1],
              \A u \in Threads \ {w} : pc'[u] = pc[u] /\ op'[u] = op[u] /\ sem'[u] = sem[u],
              ~Sleeping(w)', stPc' = "wakeup" => stSrc' = w
       PROVE  Balance
  <2>1. Sleepers(r)' = IF r = s THEN Sleepers(r) \ {w} ELSE Sleepers(r)
    BY <1>10 DEF Sleepers, Sleeping
  <2>2. r = s => w \in Sleepers(r)
    BY <1>10 DEF Sleepers
  <2>3. tokens'[r] = IF r = s THEN tokens[r] - 1 ELSE tokens[r]
    BY <1>10 DEF IInv, TypeOK
  <2> QED
    <3>1. CASE r = s
      <4>1. /\ \E u \in Threads : u \in Sleepers(r) /\ Sleepers(r)' = Sleepers(r) \ {u}
            /\ tokens'[r] - tokens[r] = counter'[r] - counter[r] - 1
        BY <1>2, <1>10, <2>1, <2>2, <2>3, <3>1
      <4> QED
        BY <1>1, <4>1, BalanceKept
    <3>2. CASE r # s
      BY <1>1, <1>2, <1>10, <2>1, <2>3, <3>2, BalanceKept
    <3> QED
      BY <3>1, <3>2
<1>11. ASSUME UNCHANGED <<counter, tokens, thrVars>>, stPc # "wakeup", stPc' # "wakeup"
       PROVE  Balance
  <2>1. Sleepers(r)' = Sleepers(r)
    BY <1>11 DEF thrVars, Sleepers, Sleeping
  <2> QED
    BY <1>1, <1>2, <1>11, <2>1, BalanceKept
<1>12. stPc # "wait" => stSrc \in Threads /\ stSem \in Sems
  BY DEF IInv, TypeOK
<1>13. CASE StBlock
  <2>1. CASE pending[stSem] > 0
    <3>1. /\ stPc = "BLOCK" /\ Grant(stSem) /\ StWake(stSrc) /\ UNCHANGED <<counter, thrVars>>
      BY <1>12, <1>13, <2>1 DEF StBlock, IInv, TypeOK
    <3>2. /\ Sleeping(stSrc) /\ sem[stSrc] = stSem
      BY <3>1 DEF IInv, ServerConsistent, Sleeping
    <3>3. ~Sleeping(stSrc)'
      BY <3>1 DEF StWake, Sleeping
    <3>4. \A u \in Threads \ {stSrc} : pc'[u] = pc[u] /\ op'[u] = op[u] /\ sem'[u] = sem[u]
      BY <3>1 DEF thrVars
    <3>5. /\ stPc # "wakeup" /\ counter' = counter /\ stSrc' = stSrc
          /\ tokens' = [tokens EXCEPT ![stSem] = @ - 1]
      BY <3>1 DEF StWake, Grant
    <3>6. stSrc \in Threads /\ stSem \in Sems
      BY <1>12, <3>1
    <3> QED
      BY <1>10, <3>2, <3>3, <3>4, <3>5, <3>6
  <2>2. CASE ~(pending[stSem] > 0)
    <3>1. /\ stPc = "BLOCK" /\ stPc' \in {"wait", "panic"}
          /\ UNCHANGED <<counter, tokens, thrVars>>
      BY <1>13, <2>2 DEF StBlock, StEnqueue, StWait, StGoto
    <3> QED
      BY <1>11, <3>1
  <2> QED
    BY <2>1, <2>2
<1>14. CASE StBlockTimed
  <2> PICK w \in Threads, s \in Sems : w = stSrc /\ s = stSem
    BY <1>12, <1>14 DEF StBlockTimed
  <2>1. CASE pending[s] > 0 /\ pc[w] = "recv"
    <3>1. /\ stPc = "BLOCKTIMED" /\ Grant(s) /\ WakeNow(w) /\ StWait /\ counter' = counter
      BY <1>14, <2>1 DEF StBlockTimed, IInv, TypeOK
    <3>2. Sleeping(w) /\ sem[w] = s
      BY <2>1, <3>1 DEF IInv, ServerConsistent, Sleeping
    <3>3. ~Sleeping(w)'
      BY <3>1 DEF WakeNow, Return, Sleeping, IInv, TypeOK
    <3>4. \A u \in Threads \ {w} : pc'[u] = pc[u] /\ op'[u] = op[u] /\ sem'[u] = sem[u]
      BY <3>1 DEF WakeNow, Return, IInv, TypeOK
    <3>5. /\ stPc # "wakeup" /\ stPc' # "wakeup"
          /\ tokens' = [tokens EXCEPT ![s] = @ - 1]
      BY <3>1 DEF StWait, Grant
    <3> QED
      BY <1>10, <3>1, <3>2, <3>3, <3>4, <3>5
  <2>2. CASE ~(pending[s] > 0 /\ pc[w] = "recv")
    <3>1. /\ stPc = "BLOCKTIMED" /\ stPc' \in {"wait", "panic"}
          /\ UNCHANGED <<counter, tokens, thrVars>>
      BY <1>14, <2>2 DEF StBlockTimed, WakeNow, StEnqueue, StWait, StGoto
    <3> QED
      BY <1>11, <3>1
  <2> QED
    BY <2>1, <2>2
<1>15. CASE StReply \/ StWakeup
  <2>1. /\ stPc \in {"reply", "wakeup"} /\ WakeNow(stSrc) /\ stPc' # "wakeup"
        /\ tokens' = tokens /\ counter' = counter
    BY <1>15 DEF StReply, StWakeup, StGoto, StWait, semVars
  <2>2. stSrc \notin Sleepers(r)
    BY <2>1 DEF Sleepers, Sleeping, IInv, ServerConsistent
  <2>3. pc'[stSrc] = "idle" /\ \A u \in Threads \ {stSrc} :
           pc'[u] = pc[u] /\ op'[u] = op[u] /\ sem'[u] = sem[u]
    BY <1>12, <2>1 DEF WakeNow, Return, IInv, TypeOK
  <2>4. ASSUME NEW u \in Threads
        PROVE  u \in Sleepers(r)' <=> u \in Sleepers(r)
    <3>1. CASE u = stSrc
      BY <2>1, <2>2, <2>3, <3>1 DEF Sleepers, Sleeping
    <3>2. CASE u # stSrc
      BY <2>1, <2>3, <3>2 DEF Sleepers, Sleeping
    <3> QED
      BY <3>1, <3>2
  <2>5. Sleepers(r)' = Sleepers(r)
    <3>1. Sleepers(r) \subseteq Threads /\ Sleepers(r)' \subseteq Threads
      BY DEF Sleepers
    <3> QED
      BY <2>4, <3>1
  <2> QED
    BY <1>1, <1>2, <2>1, <2>5, BalanceKept
<1>16. CASE StStoreWakeup \/ StScanEnd \/ StReleaseTimed
  BY <1>11, <1>16 DEF StStoreWakeup, StScanEnd, StReleaseTimed, StWait, semVars
<1>17. CASE StPop
  <2>1. stPc \in {"release", "scan"} /\ queue[stSem] # << >> /\ counter' = counter
    BY <1>17 DEF StPop
  <2> PICK s \in Sems : s = stSem
    BY <1>12, <2>1
  <2> PICK e : e = Head(queue[s])
    OBVIOUS
  <2> PICK w : w = wqThread[e]
    OBVIOUS
  <2>2. e \in Slots /\ 1 \in DOMAIN queue[s] /\ queue[s][1] = e
    BY <2>1 DEF IInv, TypeOK
  <2>3. EntryConsistent(s, e)
    BY <2>2 DEF IInv, QueuesConsistent, EntriesConsistent
  <2>4. w \in Threads
    BY <2>3 DEF EntryConsistent
  <2>5. \/ data[w] = None /\ Grant(s) /\ StWake(w) /\ UNCHANGED thrVars
        \/ data[w] # None /\ WakeNow(w) /\ Grant(s) /\ StWait
        \/ data[w] # None /\ StGoto("scan") /\ UNCHANGED <<tokens, thrVars>>
    BY <1>17 DEF StPop
  <2>6. CASE data[w] = None /\ Grant(s) /\ StWake(w) /\ UNCHANGED thrVars
    <3>1. Sleeping(w) /\ sem[w] = s
      BY <2>1, <2>2, <2>3, <2>6 DEF EntryConsistent, Sleeping, Slots
    <3>2. ~Sleeping(w)'
      BY <2>6 DEF StWake, Sleeping
    <3>3. \A u \in Threads \ {w} : pc'[u] = pc[u] /\ op'[u] = op[u] /\ sem'[u] = sem[u]
      BY <2>6 DEF thrVars
    <3>4. /\ stPc # "wakeup" /\ stSrc' = w
          /\ tokens' = [tokens EXCEPT ![s] = @ - 1]
      BY <2>1, <2>6 DEF StWake, Grant
    <3> QED
      BY <1>10, <2>1, <2>4, <3>1, <3>2, <3>3, <3>4
  <2>7. CASE data[w] # None /\ WakeNow(w) /\ Grant(s) /\ StWait
    <3>1. Sleeping(w) /\ sem[w] = s
      BY <2>1, <2>3, <2>7 DEF EntryConsistent, WakeNow, Sleeping
    <3>2. ~Sleeping(w)'
      BY <2>4, <2>7 DEF WakeNow, Return, Sleeping, IInv, TypeOK
    <3>3. \A u \in Threads \ {w} : pc'[u] = pc[u] /\ op'[u] = op[u] /\ sem'[u] = sem[u]
      BY <2>7 DEF WakeNow, Return, IInv, TypeOK
    <3>4. /\ stPc # "wakeup" /\ stPc' # "wakeup"
          /\ tokens' = [tokens EXCEPT ![s] = @ - 1]
      BY <2>1, <2>7 DEF StWait, Grant
    <3> QED
      BY <1>10, <2>1, <2>4, <3>1, <3>2, <3>3, <3>4
  <2>8. CASE StGoto("scan") /\ UNCHANGED <<tokens, thrVars>>
    BY <1>11, <2>1, <2>8 DEF StGoto
  <2> QED
    BY <2>5, <2>6, <2>7, <2>8
<1>18. Next => Balance
  BY <1>4, <1>5, <1>6, <1>7, <1>8, <1>9, <1>13, <1>14, <1>15, <1>16, <1>17
     DEF Next, StStep, Down, DownTimed
<1> QED
  BY <1>3, <1>18

\* For any threads, timed waiters and cancelled calls included: the counter is
\* the number of available units minus the threads that wait for one.
THEOREM SleepersAccounted == SafeSpec => []SleepersCounted
<1>1. Init => SleepersCounted
  <2> SUFFICES ASSUME Init, NEW s \in Sems
               PROVE  tokens[s] = counter[s] + Cardinality(Sleepers(s))
    BY DEF SleepersCounted
  <2>1. Sleepers(s) = {}
    BY DEF Init, Sleepers, Sleeping
  <2>2. Cardinality(Sleepers(s)) = 0
    BY <2>1, FS_EmptySet
  <2> QED
    BY <2>2, CountAssumption DEF Init
<1> QED
  BY <1>1, InitIInv, NextIInv, SleepersStep, PTL DEF SafeSpec

-----------------------------------------------------------------------------
\* A wakeup is stored only while nobody is in the queue, and nobody enters the
\* queue while one is stored.
StoredIsEmpty == \A s \in Sems : pending[s] > 0 => queue[s] = << >>

\* No step stores a wakeup beside a queue or queues a thread beside a wakeup.
LEMMA StoredIsEmptyStep ==
    ASSUME IInv, StoredIsEmpty, [Next]_vars
    PROVE  StoredIsEmpty'
<1> SUFFICES ASSUME NEW r \in Sems, pending'[r] > 0 PROVE queue'[r] = << >>
  BY DEF StoredIsEmpty
<1>1. stPc # "wait" => stSem \in Sems
  BY DEF IInv, TypeOK
<1>2. pending[r] > 0 \/ (StStoreWakeup /\ stSem = r)
  <2>1. CASE UNCHANGED vars
    BY <2>1 DEF vars
  <2>2. ASSUME NEW t \in Threads, NEW s \in Sems,
               Down(t, s) \/ DownTimed(t, s) \/ TryDown(t, s) \/ Up(t, s)
        PROVE  pending' = pending
    BY <2>2 DEF Down, DownTimed, Decrement, TryDown, Up
  <2>3. ASSUME NEW t \in Threads,
               \/ CancelReceive(t) \/ RestartReceive(t) \/ TimeOut(t)
               \/ CancelTimedSend(t) \/ TakeBack(t) \/ SemReceive(t)
        PROVE  pending' = pending
    BY <2>3 DEF CancelReceive, RestartReceive, TimeOut, CancelTimedSend,
                TakeBack, SemReceive, semVars
  <2>4. CASE StReply \/ StScanEnd \/ StReleaseTimed \/ StWakeup \/ StPop
    BY <2>4 DEF StReply, StScanEnd, StReleaseTimed, StWakeup, StPop, semVars
  <2>5. CASE StBlock \/ StBlockTimed
    <3>1. stSem \in Sems
      BY <1>1, <2>5 DEF StBlock, StBlockTimed
    <3>2. \/ pending' = pending
          \/ pending' = [pending EXCEPT ![stSem] = @ - 1] /\ pending[stSem] > 0
      BY <2>5 DEF StBlock, StBlockTimed
    <3> QED
      BY <3>1, <3>2 DEF IInv, TypeOK
  <2>6. CASE StStoreWakeup
    BY <1>1, <2>6 DEF StStoreWakeup, IInv, TypeOK
  <2> QED
    BY <2>1, <2>2, <2>3, <2>4, <2>5, <2>6 DEF Next, StStep
<1>3. CASE StStoreWakeup /\ stSem = r
  BY <1>3 DEF StStoreWakeup, wqVars
<1>4. CASE pending[r] > 0
  <2>1. queue[r] = << >>
    BY <1>4 DEF StoredIsEmpty
  <2>2. CASE UNCHANGED <<queue, wqThread, wqPrio>>
    BY <2>1, <2>2
  <2>3. CASE pending[stSem] = 0 /\ EnqueueThread(stSem, stSrc)
    BY <1>4, <2>1, <2>3 DEF EnqueueThread, IInv, TypeOK
  <2>4. ASSUME NEW s \in Sems, NEW e \in Slots,
               \E k \in DOMAIN queue[s] : queue[s][k] = e, RemoveEntry(s, e)
        PROVE  queue'[r] = << >>
    <3>1. DOMAIN << >> = {}
      OBVIOUS
    <3>2. r # s
      BY <2>1, <2>4, <3>1
    <3> QED
      BY <2>1, <2>4, <3>2 DEF RemoveEntry, IInv, TypeOK
  <2> QED
    BY <2>2, <2>3, <2>4, QueueSteps
<1> QED
  BY <1>2, <1>3, <1>4

\* When everything is at rest an up will call the semaphore thread for every
\* thread in a queue: with all units accounted for, a sleeper and no stored
\* wakeup leave the counter below zero.
LEMMA RestReaches ==
    ASSUME IInv, TokensAccounted, SleepersCounted, StoredIsEmpty
    PROVE  UpReachesSleeper
<1> SUFFICES ASSUME stPc = "wait", \A t \in Threads : pc[t] \in {"idle", "recv"},
                    NEW s \in Sems, queue[s] # << >>
             PROVE  counter[s] < 0
  BY DEF UpReachesSleeper
<1>1. Releasing(s) = {} /\ HeldRelease(s) = 0
  BY DEF Releasing, HeldRelease
<1>2. Cardinality(Releasing(s)) = 0
  BY <1>1, FS_EmptySet
<1>3. counter[s] \in Int /\ pending[s] = 0
  BY DEF IInv, TypeOK, StoredIsEmpty
<1>4. tokens[s] = IF counter[s] > 0 THEN counter[s] ELSE 0
  <2>1. tokens[s] = (IF counter[s] > 0 THEN counter[s] ELSE 0) + pending[s]
                    + Cardinality(Releasing(s)) + HeldRelease(s)
    BY DEF TokensAccounted
  <2> QED
    BY <1>1, <1>2, <1>3, <2>1
<1>5. queue[s] \in Seq(Slots) /\ 1 \in DOMAIN queue[s]
  BY DEF IInv, TypeOK
<1>6. EntryConsistent(s, queue[s][1])
  BY <1>5 DEF IInv, QueuesConsistent, EntriesConsistent
<1>7. Sleepers(s) # {}
  BY <1>6 DEF EntryConsistent, Sleepers, Sleeping
<1>8. Cardinality(Sleepers(s)) \in Nat /\ Cardinality(Sleepers(s)) # 0
  BY <1>7, SleepersFinite, FS_EmptySet
<1> QED
  BY <1>3, <1>4, <1>8 DEF SleepersCounted

\* Without timed waiters l4semaphore_up reaches whoever is in the queue.
THEOREM UpsReachSleepers ==
    ASSUME TimedThreads = {}
    PROVE  SafeSpec => []UpReachesSleeper
<1>1. Init => StoredIsEmpty
  BY DEF Init, StoredIsEmpty
<1>2. IInv /\ StoredIsEmpty /\ [Next]_vars => StoredIsEmpty'
  BY StoredIsEmptyStep
<1>3. IInv /\ TokensAccounted /\ SleepersCounted /\ StoredIsEmpty => UpReachesSleeper
  BY RestReaches
<1>4. SafeSpec => []TokensAccounted
  BY UnitsAccounted
<1> QED
  BY <1>1, <1>2, <1>3, <1>4, InitIInv, NextIInv, SleepersAccounted, PTL DEF SafeSpec
=============================================================================
