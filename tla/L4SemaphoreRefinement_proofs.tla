--------------------- MODULE L4SemaphoreRefinement_proofs ---------------------
(***************************************************************************)
(* Without timed waiters the semaphore library implements the counting     *)
(* semaphores of CountingSemaphore, for every instance.                    *)
(***************************************************************************)
EXTENDS L4SemaphoreAccounting_proofs

\* The refinement mapping: what a thread asks for.
Want == [t \in Threads |-> IF Sleeping(t) THEN sem[t] ELSE None]

\* The initialised semaphores are initial counting semaphores.
LEMMA InitRefines == Init => Abstract!Init
<1> SUFFICES ASSUME Init PROVE Abstract!Init
  OBVIOUS
<1>1. \A t \in Threads : ~Sleeping(t)
  BY DEF Init, Sleeping
<1> QED
  BY <1>1 DEF Init, Abstract!Init

\* A unit that is visible, stored or carried by a held RELEASE is available.
LEMMA UnitAvailable ==
    ASSUME AccountInv, NEW s \in Sems,
           counter[s] > 0 \/ pending[s] > 0 \/ HeldRelease(s) > 0
    PROVE  tokens[s] > 0
<1>1. Cardinality(Releasing(s)) \in Nat /\ HeldRelease(s) \in Nat
  BY ReleasingFinite DEF HeldRelease
<1> QED
  BY <1>1 DEF AccountInv, IInv, TypeOK, TokensAccounted

\* Every step of the library is a step of the counting semaphores or invisible.
LEMMA NextRefines ==
    ASSUME TimedThreads = {}, AccountInv, [Next]_vars
    PROVE  [Abstract!Next]_(Abstract!vars)
<1> USE NoneAssumption
<1>1. IInv' /\ Untimed'
  BY NextIInv, UntimedStep DEF AccountInv
<1>2. ASSUME tokens' = tokens, \A u \in Threads : Sleeping(u)' <=> Sleeping(u),
             \A u \in Threads : Sleeping(u) => sem'[u] = sem[u]
      PROVE  [Abstract!Next]_(Abstract!vars)
  BY <1>2 DEF Abstract!vars
<1>3. CASE UNCHANGED vars
  BY <1>2, <1>3 DEF vars, Sleeping
<1>4. ASSUME NEW t \in Threads, NEW s \in Sems, counter[s] > 0,
             Down(t, s) \/ TryDown(t, s)
      PROVE  Abstract!Take(t, s)
  <2>1. tokens' = [tokens EXCEPT ![s] = @ - 1] /\ UNCHANGED <<thrVars, stVars>>
    BY <1>4 DEF Down, Decrement, TryDown, Grant, AccountInv, IInv, TypeOK
  <2>2. tokens[s] > 0
    BY <1>4, UnitAvailable
  <2>3. ~Sleeping(t)
    BY <1>4 DEF Down, Decrement, TryDown, Sleeping
  <2> QED
    BY <2>1, <2>2, <2>3 DEF Abstract!Take, Sleeping, thrVars, stVars
<1>5. ASSUME NEW t \in Threads, NEW s \in Sems, ~(counter[s] > 0), Down(t, s)
      PROVE  Abstract!Ask(t, s)
  <2>1. /\ tokens' = tokens /\ pc[t] = "idle" /\ UNCHANGED stVars
        /\ CallSemThread(t, "BLOCK", s)
    BY <1>5 DEF Down, Decrement, AccountInv, IInv, TypeOK
  <2>2. ~Sleeping(t)
    BY <2>1 DEF Sleeping
  <2>3. Sleeping(t)' /\ sem'[t] = s
    BY <1>5, <2>1 DEF Sleeping, CallSemThread, stVars, AccountInv, IInv, TypeOK, ServerConsistent
  <2>4. \A u \in Threads \ {t} : (Sleeping(u)' <=> Sleeping(u)) /\ sem'[u] = sem[u]
    BY <2>1 DEF Sleeping, CallSemThread, stVars, AccountInv, IInv, TypeOK
  <2>5. Want' = [Want EXCEPT ![t] = s] /\ Want[t] = None
    BY <2>2, <2>3, <2>4 DEF Want
  <2> QED
    BY <2>1, <2>5 DEF Abstract!Ask, Want
<1>6. ASSUME NEW t \in Threads, NEW s \in Sems, Up(t, s)
      PROVE  Abstract!Up(s)
  <2>1. /\ tokens' = [tokens EXCEPT ![s] = @ + 1] /\ UNCHANGED stVars
        /\ pc[t] = "idle" /\ (UNCHANGED thrVars \/ CallSemThread(t, "RELEASE", s))
    BY <1>6 DEF Up
  <2>2. \A u \in Threads : (Sleeping(u)' <=> Sleeping(u)) /\ (Sleeping(u) => sem'[u] = sem[u])
    BY <2>1 DEF Sleeping, CallSemThread, stVars, thrVars, AccountInv, IInv, TypeOK
  <2>3. Want' = Want
    BY <2>2 DEF Want
  <2> QED
    BY <2>1, <2>3 DEF Abstract!Up, Want
<1>7. ASSUME NEW t \in Threads,
             \/ CancelReceive(t) \/ RestartReceive(t) \/ TimeOut(t)
             \/ CancelTimedSend(t) \/ TakeBack(t)
      PROVE  [Abstract!Next]_(Abstract!vars)
  <2>1. CancelReceive(t) \/ RestartReceive(t)
    BY <1>7 DEF AccountInv, IInv, TypeOK, PcTypeOK, Untimed, TimeOut,
                CancelTimedSend, TakeBack
  <2>2. tokens' = tokens /\ sem' = sem /\ op' = op /\ UNCHANGED stVars
    BY <2>1 DEF CancelReceive, RestartReceive, semVars
  <2>3. \A u \in Threads : Sleeping(u)' <=> Sleeping(u)
    BY <2>1, <2>2 DEF CancelReceive, RestartReceive, Sleeping, stVars,
                      AccountInv, IInv, TypeOK
  <2> QED
    BY <1>2, <2>2, <2>3
<1>8. ASSUME NEW t \in Threads, SemReceive(t)
      PROVE  [Abstract!Next]_(Abstract!vars)
  <2>1. /\ tokens' = tokens /\ sem' = sem /\ op' = op /\ stPc = "wait"
        /\ pc[t] = "call" /\ pc' = [pc EXCEPT ![t] = "recv"] /\ stPc' # "wakeup"
    BY <1>8 DEF SemReceive, semVars, AccountInv, IInv, TypeOK, PcTypeOK, Untimed
  <2>2. \A u \in Threads : Sleeping(u)' <=> Sleeping(u)
    BY <2>1 DEF Sleeping, AccountInv, IInv, TypeOK
  <2> QED
    BY <1>2, <2>1, <2>2
\* The semaphore thread gives a unit of s to the sleeping thread w.
<1>9. ASSUME NEW w \in Threads, NEW s \in Sems, Grant(s), UNCHANGED thrVars,
             stPc # "wakeup", stPc' = "wakeup", stSrc' = w, tokens[s] > 0,
             pc[w] \in {"recv", "rerecv"}, op[w] = "BLOCK", sem[w] = s
      PROVE  Abstract!Acquire(w, s)
  <2>1. Sleeping(w) /\ ~Sleeping(w)'
    BY <1>9 DEF Sleeping
  <2>2. \A u \in Threads \ {w} : (Sleeping(u)' <=> Sleeping(u)) /\ sem'[u] = sem[u]
    BY <1>9 DEF Sleeping, thrVars
  <2>3. Want' = [Want EXCEPT ![w] = None] /\ Want[w] = s
    BY <1>9, <2>1, <2>2 DEF Want
  <2> QED
    BY <1>9, <2>3 DEF Abstract!Acquire, Grant, Want
<1>10. ASSUME StStep
       PROVE  [Abstract!Next]_(Abstract!vars)
  <2>1. StBlock \/ StReply \/ StStoreWakeup \/ StPop \/ StWakeup
    BY <1>10 DEF AccountInv, Untimed, StStep, StBlockTimed, StScanEnd, StReleaseTimed
  <2>2. stPc # "wait" /\ stSrc \in Threads /\ stSem \in Sems
    BY <2>1 DEF AccountInv, IInv, TypeOK, StBlock, StReply, StStoreWakeup, StPop, StWakeup
  <2> PICK s \in Sems : s = stSem
    BY <2>2
  <2>3. CASE StBlock
    <3>1. CASE pending[stSem] > 0
      <4> PICK w \in Threads : w = stSrc
        BY <2>2
      <4>1. tokens[s] > 0
        BY <3>1, UnitAvailable
      <4>2. /\ Grant(s) /\ UNCHANGED thrVars /\ stPc = "BLOCK"
            /\ stPc' = "wakeup" /\ stSrc' = w
        BY <2>3, <3>1 DEF StBlock, StWake, AccountInv, IInv, TypeOK
      <4>3. pc[w] \in {"recv", "rerecv"} /\ op[w] = "BLOCK" /\ sem[w] = s
        BY <4>2 DEF AccountInv, IInv, ServerConsistent
      <4>4. Abstract!Acquire(w, s)
        BY <1>9, <4>1, <4>2, <4>3
      <4> QED
        BY <4>4 DEF Abstract!Next
    <3>2. CASE ~(pending[stSem] > 0)
      <4>1. tokens' = tokens /\ UNCHANGED thrVars /\ stPc = "BLOCK" /\ stPc' # "wakeup"
        BY <2>3, <3>2 DEF StBlock, StEnqueue, StWait, StGoto
      <4> QED
        BY <1>2, <4>1 DEF Sleeping, thrVars
    <3> QED
      BY <3>1, <3>2
  <2>4. CASE StReply
    <3>1. /\ tokens' = tokens /\ stPc = "reply" /\ stPc' = "release"
          /\ WakeNow(stSrc) /\ op[stSrc] = "RELEASE"
      BY <2>4 DEF StReply, StGoto, semVars, AccountInv, IInv, ServerConsistent
    <3>2. \A u \in Threads : /\ Sleeping(u)' <=> Sleeping(u)
                             /\ Sleeping(u) => sem'[u] = sem[u]
      BY <2>2, <3>1 DEF WakeNow, Return, Sleeping, AccountInv, IInv, TypeOK
    <3> QED
      BY <1>2, <3>1, <3>2
  <2>5. CASE StStoreWakeup
    <3>1. /\ tokens' = tokens /\ UNCHANGED thrVars /\ stPc = "release" /\ stPc' = "wait"
      BY <2>5 DEF StStoreWakeup, StWait
    <3> QED
      BY <1>2, <3>1 DEF Sleeping, thrVars
  <2>6. CASE StPop
    <3>1. queue[s] \in Seq(Slots) /\ queue[s] # << >>
      BY <2>2, <2>6 DEF AccountInv, IInv, TypeOK, StPop
    <3>2. Head(queue[s]) = queue[s][1] /\ 1 \in DOMAIN queue[s]
      BY <3>1
    <3> PICK e : e = queue[s][1]
      OBVIOUS
    <3> PICK w : w = wqThread[e]
      OBVIOUS
    <3>3. stPc = "release"
      BY <2>6 DEF StPop, AccountInv, Untimed
    <3>4. /\ w \in Threads /\ pc[w] \in {"recv", "rerecv"} /\ op[w] = "BLOCK"
          /\ sem[w] = s
      BY <3>2, <3>3 DEF AccountInv, IInv, QueuesConsistent, EntriesConsistent,
                        EntryConsistent, Untimed
    <3>5. data[w] = None
      BY <3>4 DEF AccountInv, Untimed
    <3>6. Grant(s) /\ UNCHANGED thrVars /\ stPc' = "wakeup" /\ stSrc' = w
      BY <2>6, <3>2, <3>5 DEF StPop, StWake
    <3>7. tokens[s] > 0
      BY <3>3, UnitAvailable DEF HeldRelease
    <3>8. Abstract!Acquire(w, s)
      BY <1>9, <3>3, <3>4, <3>6, <3>7
    <3> QED
      BY <3>4, <3>8 DEF Abstract!Next
  <2>7. CASE StWakeup
    <3>1. tokens' = tokens /\ stPc = "wakeup" /\ stPc' = "wait" /\ WakeNow(stSrc)
      BY <2>7 DEF StWakeup, StWait, semVars
    <3>2. \A u \in Threads : /\ Sleeping(u)' <=> Sleeping(u)
                             /\ Sleeping(u) => sem'[u] = sem[u]
      BY <2>2, <3>1 DEF WakeNow, Return, Sleeping, AccountInv, IInv, TypeOK
    <3> QED
      BY <1>2, <3>1, <3>2
  <2> QED
    BY <2>1, <2>3, <2>4, <2>5, <2>6, <2>7
<1>11. ASSUME NEW t \in Threads, NEW s \in Sems,
              Down(t, s) \/ TryDown(t, s) \/ Up(t, s)
       PROVE  [Abstract!Next]_(Abstract!vars)
  <2>1. CASE counter[s] > 0
    BY <1>4, <1>6, <1>11, <2>1 DEF Abstract!Next
  <2>2. CASE ~(counter[s] > 0)
    BY <1>5, <1>6, <1>11, <2>2 DEF Abstract!Next, TryDown
  <2> QED
    BY <2>1, <2>2
<1>12. CASE Next
  BY <1>7, <1>8, <1>10, <1>11, <1>12 DEF Next, DownTimed
<1> QED
  BY <1>3, <1>12

\* Without timed waiters every behaviour of the library, restarted IPCs and all
\* interleavings included, is a behaviour of counting semaphores.
THEOREM ImplementsCountingSemaphores ==
    ASSUME TimedThreads = {}
    PROVE  SafeSpec => Abstract!SafeSpec
<1>1. Init => AccountInv
  BY InitIInv, UntimedInit, AccountInit DEF AccountInv
<1>2. AccountInv /\ [Next]_vars => AccountInv'
  BY NextIInv, UntimedStep, AccountStep DEF AccountInv
<1>3. AccountInv /\ [Next]_vars => [Abstract!Next]_(Abstract!vars)
  BY NextRefines
<1> QED
  BY <1>1, <1>2, <1>3, InitRefines, PTL DEF SafeSpec, Abstract!SafeSpec
=============================================================================
