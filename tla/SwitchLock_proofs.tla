-------------------------- MODULE SwitchLock_proofs --------------------------
(***************************************************************************)
(* Proofs about the kernel locks: for any finite sets of contexts and      *)
(* locks, any priorities and any rights to kill.                           *)
(***************************************************************************)
EXTENDS SwitchLock, FiniteSetTheorems, TLAPS

Pcs == {"run", "wait", "help", "switch", "tail", "lockee", "kill"}

\* With which lock a context c may be at a place p of the kernel.
Place(c, p, l) ==
    /\ p = "help" => l \in Locks
    /\ p = "switch" => l \in Contexts \cup {None}
    /\ p \in {"tail", "lockee", "kill"} => l \in Contexts
    /\ p = "kill" => owner[l] = c /\ l # c /\ Live(l)
    /\ state[c] = "blocked" => p = "wait"

Places == \A c \in Contexts : Place(c, pc[c], arg[c])

\* A live context runs, and only one that is not live is unmapped.
Alive ==
    /\ Live(current)
    /\ \A c \in Contexts : mapped[c] \/ ~Live(c)

\* The inductive invariant.
IInv == TypeOK /\ Places /\ Alive /\ LocksCounted /\ DonateeIsOwner

\* What a switch of contexts may do.
Dispatch ==
    /\ current' \in Contexts
    /\ helper' \in [Contexts -> Contexts]
    /\ current' = current \/ state[current'] = "ready"

\* The locks of a context are finitely many.
LEMMA HeldFinite ==
    ASSUME NEW c
    PROVE  /\ IsFiniteSet(Held(c)) /\ Cardinality(Held(c)) \in Nat
           /\ Cardinality(Held(c)) = 0 <=> Held(c) = {}
<1>1. IsFiniteSet(Locks)
  BY FiniteAssumption, FS_Union DEF Locks
<1>2. Held(c) \in SUBSET Locks
  BY DEF Held
<1>3. IsFiniteSet(Held(c))
  BY <1>1, <1>2, FS_Subset
<1> QED
  BY <1>3, FS_CardinalityType, FS_EmptySet

\* switch_exec_locked switches to a ready context or not at all.
LEMMA SwitchDispatches ==
    ASSUME TypeOK, NEW t, NEW mode \in {"Helping", "Not_Helping", "Ignore_Helping"},
           switch_exec_locked(t, mode)
    PROVE  Dispatch
<1>1. PICK x \in Contexts :
         IF Switches(x)
           THEN /\ current' = x
                /\ helper' = [helper EXCEPT ![x] =
                                CASE mode = "Helping" -> current
                                  [] mode = "Not_Helping" -> x
                                  [] mode = "Ignore_Helping" -> @]
           ELSE UNCHANGED <<current, helper>>
  BY DEF switch_exec_locked, Chain
<1>2. CASE Switches(x)
  <2>1. current' = x /\ state[x] = "ready"
    BY <1>1, <1>2 DEF Switches
  <2>2. helper' \in [Contexts -> Contexts]
    BY <1>1, <1>2 DEF TypeOK
  <2> QED
    BY <2>1, <2>2 DEF Dispatch
<1>3. CASE ~Switches(x)
  BY <1>1, <1>3 DEF Dispatch, TypeOK
<1> QED
  BY <1>2, <1>3

\* So does the scheduler.
LEMMA ScheduleDispatches ==
    ASSUME TypeOK, schedule
    PROVE  Dispatch
BY SwitchDispatches DEF schedule, Dispatch, TypeOK

\* A step that changes nothing but the running context.
LEMMA Stays ==
    ASSUME IInv, Dispatch, UNCHANGED <<owner, lock_cnt, donatee, state, mapped, pc, arg>>
    PROVE  IInv'
<1> USE DEF Live
<1>1. TypeOK'
  BY DEF IInv, TypeOK, Dispatch
<1>2. Places' /\ LocksCounted' /\ DonateeIsOwner'
  BY DEF IInv, Places, Place, LocksCounted, Held, DonateeIsOwner, InClear
<1>3. Alive'
  BY DEF IInv, Alive, Dispatch
<1> QED
  BY <1>1, <1>2, <1>3 DEF IInv

\* A step that moves the running context to another place, perhaps with a
\* switch to another context.
LEMMA Moves ==
    ASSUME IInv, Dispatch, UNCHANGED <<owner, lock_cnt, donatee, state, mapped>>,
           NEW p \in Pcs, NEW l \in Locks \cup {None},
           Goto(current, p, l), Place(current, p, l),
           pc[current] \in {"switch", "tail"} /\ arg[current] \in Contexts
              => p \in {"switch", "tail"} /\ l = arg[current]
    PROVE  IInv'
<1> USE DEF Live
<1>1. TypeOK'
  BY DEF IInv, TypeOK, Dispatch, Goto, Pcs
<1>2. /\ pc'[current] = p /\ arg'[current] = l
      /\ \A c \in Contexts \ {current} : pc'[c] = pc[c] /\ arg'[c] = arg[c]
  BY DEF IInv, TypeOK, Goto
<1>3. Places'
  BY <1>2 DEF IInv, Places, Place
<1>4. Alive'
  BY DEF IInv, Alive, Dispatch
<1>5. LocksCounted'
  BY DEF IInv, LocksCounted, Held
<1>6. DonateeIsOwner'
  <2> SUFFICES ASSUME NEW t \in Contexts, Live(t)', donatee'[t] # owner'[t]
               PROVE  owner'[t] = None /\ InClear(donatee[t], t)'
    BY DEF DonateeIsOwner
  <2>1. owner[t] = None /\ InClear(donatee[t], t) /\ donatee[t] \in Contexts
    BY LockAssumption DEF IInv, DonateeIsOwner, TypeOK, InClear
  <2> QED
    BY <1>2, <2>1 DEF InClear
<1> QED
  BY <1>1, <1>3, <1>4, <1>5, <1>6 DEF IInv

\* A context that runs in the kernel, and does not wait, is ready.
LEMMA RunnerReady ==
    ASSUME IInv, pc[current] # "wait"
    PROVE  current \in Contexts /\ state[current] = "ready"
BY DEF IInv, TypeOK, Alive, Live, Places, Place

\* Taking a free lock.
LEMMA TakeStep ==
    ASSUME IInv, NEW l \in Locks, owner[l] = None, Take(l), UNCHANGED <<state, mapped>>,
           pc[current] \in {"run", "help"}
    PROVE  IInv'
<1> USE LockAssumption DEF Live
<1>1. current \in Contexts /\ current # None /\ state[current] = "ready" /\ current' = current
  BY RunnerReady DEF Take, Locks
<1>2. /\ owner' = [owner EXCEPT ![l] = current]
      /\ lock_cnt' = [lock_cnt EXCEPT ![current] = @ + 1]
      /\ pc'[current] = "run" /\ helper' = helper
      /\ \A c \in Contexts \ {current} : pc'[c] = pc[c] /\ arg'[c] = arg[c]
  BY DEF IInv, TypeOK, Take, Goto
<1>3. TypeOK'
  <2>1. lock_cnt' \in [Contexts -> Nat] /\ owner' \in [Locks -> Contexts \cup {None}]
    BY <1>1, <1>2 DEF IInv, TypeOK
  <2>2. donatee' \in [Contexts -> Contexts \cup {None}]
    BY <1>1 DEF IInv, TypeOK, Take
  <2> QED
    BY <1>1, <1>2, <2>1, <2>2 DEF IInv, TypeOK, Take, Goto
<1>4. Places'
  <2> SUFFICES ASSUME NEW c \in Contexts PROVE Place(c, pc[c], arg[c])'
    BY DEF Places
  <2>1. CASE c = current
    BY <1>1, <1>2, <2>1 DEF Place
  <2>2. CASE c # current
    <3>1. Place(c, pc[c], arg[c]) /\ pc'[c] = pc[c] /\ arg'[c] = arg[c]
      BY <1>2, <2>2 DEF IInv, Places
    <3>2. pc[c] = "kill" => owner'[arg[c]] = owner[arg[c]]
      <4>1. SUFFICES ASSUME pc[c] = "kill" PROVE owner'[arg[c]] = owner[arg[c]]
        OBVIOUS
      <4>2. arg[c] \in Locks /\ owner[arg[c]] = c /\ c # None
        BY <3>1, <4>1 DEF Place, Locks
      <4> QED
        BY <1>2, <4>2 DEF IInv, TypeOK
    <3> QED
      BY <3>1, <3>2 DEF Place
  <2> QED
    BY <2>1, <2>2
<1>5. Alive'
  BY <1>1 DEF IInv, Alive
<1>6. LocksCounted'
  <2> SUFFICES ASSUME NEW c \in Contexts
               PROVE  /\ lock_cnt'[c] = Cardinality(Held(c)')
                      /\ Held(c)' # {} => Live(c)'
    BY DEF LocksCounted
  <2>1. CASE c = current
    <3>1. l \notin Held(c) /\ Held(c)' = Held(c) \cup {l}
      BY <1>1, <1>2, <2>1 DEF Held, IInv, TypeOK
    <3>2. Cardinality(Held(c)') = Cardinality(Held(c)) + 1
      BY <3>1, HeldFinite, FS_AddElement
    <3>3. lock_cnt'[c] = Cardinality(Held(c)) + 1
      BY <1>1, <1>2, <2>1 DEF IInv, TypeOK, LocksCounted
    <3> QED
      BY <1>1, <2>1, <3>2, <3>3
  <2>2. CASE c # current
    <3>1. Held(c)' = Held(c)
      BY <1>1, <1>2, <2>2 DEF Held, IInv, TypeOK, Locks
    <3>2. lock_cnt'[c] = lock_cnt[c]
      BY <1>2, <2>2 DEF IInv, TypeOK
    <3> QED
      BY <3>1, <3>2 DEF IInv, LocksCounted
  <2> QED
    BY <2>1, <2>2
<1>7. DonateeIsOwner'
  <2> SUFFICES ASSUME NEW t \in Contexts, Live(t)', donatee'[t] # owner'[t]
               PROVE  owner'[t] = None /\ InClear(donatee[t], t)' /\ donatee'[t] = donatee[t]
    BY DEF DonateeIsOwner, InClear
  <2>1. t # l
    BY <1>1, <1>2 DEF Take, IInv, TypeOK, Locks
  <2>2. t \in Locks /\ owner'[t] = owner[t] /\ donatee'[t] = donatee[t]
    BY <1>2, <2>1 DEF Take, IInv, TypeOK, Locks
  <2>3. owner[t] = None /\ InClear(donatee[t], t) /\ donatee[t] \in Contexts
    BY <2>2 DEF IInv, DonateeIsOwner, TypeOK, InClear
  <2>4. donatee[t] # current
    BY <2>3 DEF InClear
  <2> QED
    BY <1>2, <2>2, <2>3, <2>4 DEF InClear
<1> QED
  BY <1>3, <1>4, <1>5, <1>6, <1>7 DEF IInv

\* Clearing a lock, perhaps with a switch to the helper, and deleting a dead
\* context in the same step.
LEMMA ClearStep ==
    ASSUME IInv, NEW l \in Locks, owner[l] = current, pc[current] = "run",
           NEW next, clear_and_switch(l, next), UNCHANGED donatee,
           \/ next = l /\ l \in Contexts
           \/ next = None /\ (l \in Plain \/ state[l] = "dead"),
           state' \in [Contexts -> {"ready", "blocked", "dead", "invalid"}],
           \A c \in Contexts : state'[c] = state[c] \/ (~Live(c) /\ state'[c] = "invalid"),
           mapped' \in [Contexts -> BOOLEAN],
           \A c \in Contexts : mapped'[c] \/ ~Live(c)
    PROVE  IInv'
<1> USE LockAssumption DEF Live
<1>1. current \in Contexts /\ current # None /\ state[current] = "ready"
  BY RunnerReady DEF Locks
<1>2. /\ owner' = [owner EXCEPT ![l] = None]
      /\ lock_cnt' = [lock_cnt EXCEPT ![current] = @ - 1]
      /\ pc'[current] = "switch" /\ arg'[current] = next
      /\ \A c \in Contexts \ {current} : pc'[c] = pc[c] /\ arg'[c] = arg[c]
  BY DEF IInv, TypeOK, clear_and_switch, Goto
<1>3. Dispatch
  BY <1>1, SwitchDispatches DEF clear_and_switch, Dispatch, IInv, TypeOK
<1>4. ASSUME NEW c \in Contexts
      PROVE  /\ Held(c)' = IF c = current THEN Held(c) \ {l} ELSE Held(c)
             /\ lock_cnt'[c] = Cardinality(Held(c)') /\ lock_cnt'[c] \in Nat
             /\ Held(c)' # {} => Live(c)'
  <2>1. lock_cnt[c] = Cardinality(Held(c)) /\ (Held(c) # {} => Live(c))
    BY DEF IInv, LocksCounted
  <2>2. IsFiniteSet(Held(c)) /\ Cardinality(Held(c)) \in Nat
    BY HeldFinite
  <2>3. CASE c = current
    <3>1. l \in Held(c) /\ Held(c)' = Held(c) \ {l}
      BY <1>1, <1>2, <2>3 DEF Held, IInv, TypeOK
    <3>2. Cardinality(Held(c)') = Cardinality(Held(c)) - 1 /\ IsFiniteSet(Held(c)')
      BY <2>2, <3>1, FS_RemoveElement
    <3>3. Cardinality(Held(c)') \in Nat
      BY <3>2, FS_CardinalityType
    <3>4. lock_cnt'[c] = lock_cnt[c] - 1
      BY <1>2, <2>3 DEF IInv, TypeOK
    <3> QED
      BY <2>1, <2>3, <3>1, <3>2, <3>3, <3>4
  <2>4. CASE c # current
    <3>1. Held(c)' = Held(c)
      BY <1>1, <1>2, <2>4 DEF Held, IInv, TypeOK, Locks
    <3>2. lock_cnt'[c] = lock_cnt[c]
      BY <1>2, <2>4 DEF IInv, TypeOK
    <3> QED
      BY <2>1, <2>2, <2>4, <3>1, <3>2
  <2> QED
    BY <2>3, <2>4
<1>5. TypeOK'
  <2>1. lock_cnt' \in [Contexts -> Nat]
    BY <1>2, <1>4 DEF IInv, TypeOK
  <2>2. owner' \in [Locks -> Contexts \cup {None}]
    BY <1>2 DEF IInv, TypeOK
  <2> QED
    BY <1>3, <2>1, <2>2 DEF IInv, TypeOK, clear_and_switch, Goto, Dispatch
<1>6. Places'
  <2> SUFFICES ASSUME NEW c \in Contexts PROVE Place(c, pc[c], arg[c])'
    BY DEF Places
  <2>1. CASE c = current
    BY <1>1, <1>2, <2>1 DEF Place
  <2>2. CASE c # current
    <3>1. Place(c, pc[c], arg[c]) /\ pc'[c] = pc[c] /\ arg'[c] = arg[c]
      BY <1>2, <2>2 DEF IInv, Places
    <3>2. ASSUME pc[c] = "kill"
          PROVE  owner'[arg[c]] = owner[arg[c]]
      <4>1. arg[c] \in Locks /\ owner[arg[c]] = c
        BY <3>1, <3>2 DEF Place, Locks
      <4> QED
        BY <1>2, <2>2, <4>1 DEF IInv, TypeOK
    <3> QED
      BY <3>1, <3>2 DEF Place
  <2> QED
    BY <2>1, <2>2
<1>7. Alive'
  BY <1>3 DEF IInv, Alive, Dispatch
<1>8. LocksCounted'
  BY <1>4 DEF LocksCounted
<1>9. DonateeIsOwner'
  <2> SUFFICES ASSUME NEW t \in Contexts, Live(t), donatee[t] # owner'[t]
               PROVE  owner'[t] = None /\ InClear(donatee[t], t)'
    BY DEF DonateeIsOwner, InClear
  <2>0. t \in Locks
    BY DEF Locks
  <2>1. CASE t = l
    <3>1. next = l /\ donatee[l] = current
      BY <1>1, <2>1 DEF IInv, DonateeIsOwner
    <3> QED
      BY <1>2, <2>1, <3>1 DEF InClear, IInv, TypeOK
  <2>2. CASE t # l
    <3>1. owner'[t] = owner[t]
      BY <1>2, <2>0, <2>2 DEF IInv, TypeOK
    <3>2. owner[t] = None /\ InClear(donatee[t], t) /\ donatee[t] \in Contexts
      BY <3>1 DEF IInv, DonateeIsOwner, TypeOK, InClear
    <3>3. donatee[t] # current
      BY <3>2 DEF InClear
    <3> QED
      BY <1>2, <3>1, <3>2, <3>3 DEF InClear
  <2> QED
    BY <2>1, <2>2
<1> QED
  BY <1>5, <1>6, <1>7, <1>8, <1>9 DEF IInv

\* Blocking and waking a context, and stopping one that owns no locks.
LEMMA StateStep ==
    ASSUME IInv, UNCHANGED <<current, owner, lock_cnt, donatee, helper, mapped>>,
           NEW t \in Contexts, NEW st \in {"ready", "blocked", "dead"},
           state' = [state EXCEPT ![t] = st],
           Live(t),
           st = "dead" => lock_cnt[t] = 0 /\ t # current /\ owner[t] = current,
           NEW p \in Pcs, NEW l \in Locks \cup {None},
           Goto(current, p, l), Place(current, p, l)',
           st = "blocked" => pc'[t] = "wait",
           pc[current] \in {"switch", "tail"} /\ arg[current] \in Contexts
              => p \in {"switch", "tail"} /\ l = arg[current]
    PROVE  IInv'
<1> USE LockAssumption DEF Live
<1>1. TypeOK'
  BY DEF IInv, TypeOK, Goto, Pcs
<1>2. /\ pc'[current] = p /\ arg'[current] = l
      /\ \A c \in Contexts \ {current} : pc'[c] = pc[c] /\ arg'[c] = arg[c]
      /\ state'[t] = st /\ \A c \in Contexts \ {t} : state'[c] = state[c]
  BY DEF IInv, TypeOK, Goto
<1>3. Places'
  <2> SUFFICES ASSUME NEW c \in Contexts PROVE Place(c, pc[c], arg[c])'
    BY DEF Places
  <2>1. CASE c = current
    BY <1>2, <2>1 DEF Place
  <2>2. CASE c # current
    <3>1. Place(c, pc[c], arg[c])
      BY DEF IInv, Places
    <3>2. pc[c] = "kill" => Live(arg[c])'
      BY <1>2, <2>2, <3>1 DEF Place
    <3> QED
      BY <1>2, <2>2, <3>1, <3>2 DEF Place
  <2> QED
    BY <2>1, <2>2
<1>4. Alive'
  BY <1>2 DEF IInv, Alive, TypeOK
<1>5. LocksCounted'
  <2> SUFFICES ASSUME NEW c \in Contexts
               PROVE  /\ lock_cnt'[c] = Cardinality(Held(c)')
                      /\ Held(c)' # {} => Live(c)'
    BY DEF LocksCounted
  <2>1. Held(c)' = Held(c) /\ lock_cnt[c] = Cardinality(Held(c))
        /\ (Held(c) # {} => Live(c))
    BY DEF Held, IInv, LocksCounted
  <2>2. c = t /\ st = "dead" => Held(c) = {}
    BY <2>1, HeldFinite
  <2> QED
    BY <1>2, <2>1, <2>2
<1>6. DonateeIsOwner'
  <2> SUFFICES ASSUME NEW u \in Contexts, Live(u)', donatee[u] # owner[u]
               PROVE  owner[u] = None /\ InClear(donatee[u], u)'
    BY DEF DonateeIsOwner, InClear
  <2>1. Live(u)
    BY <1>2
  <2>2. owner[u] = None /\ InClear(donatee[u], u) /\ donatee[u] \in Contexts
    BY <2>1 DEF IInv, DonateeIsOwner, TypeOK, InClear
  <2> QED
    BY <1>2, <2>2 DEF InClear
<1> QED
  BY <1>1, <1>3, <1>4, <1>5, <1>6 DEF IInv

\* The rest of Thread_lock::clear passes the donatee on.
LEMMA TailStep ==
    ASSUME IInv, Tail
    PROVE  IInv'
<1> USE LockAssumption DEF Live
<1> PICK t : t = arg[current]
  OBVIOUS
<1>1. /\ current \in Contexts /\ t \in Contexts /\ t \in Locks
      /\ pc[current] = "tail" /\ state[current] = "ready"
  BY RunnerReady DEF Tail, IInv, Places, Place, TypeOK, Locks
<1>2. /\ pc'[current] = "lockee" /\ arg'[current] = t
      /\ \A c \in Contexts \ {current} : pc'[c] = pc[c] /\ arg'[c] = arg[c]
      /\ donatee' = IF mapped[t] THEN [donatee EXCEPT ![t] = owner[t]] ELSE donatee
      /\ UNCHANGED <<current, owner, lock_cnt, helper, state, mapped>>
  BY <1>1 DEF Tail, Goto, IInv, TypeOK
<1>3. TypeOK'
  BY <1>1, <1>2 DEF IInv, TypeOK, Tail, Goto
<1>4. Places'
  BY <1>1, <1>2 DEF IInv, Places, Place
<1>5. Alive' /\ LocksCounted'
  BY <1>2 DEF IInv, Alive, LocksCounted, Held
<1>6. DonateeIsOwner'
  <2> SUFFICES ASSUME NEW u \in Contexts, Live(u), donatee'[u] # owner[u]
               PROVE  owner[u] = None /\ InClear(donatee[u], u)' /\ donatee'[u] = donatee[u]
    BY <1>2 DEF DonateeIsOwner, InClear
  <2>1. u # t
    BY <1>1, <1>2 DEF IInv, Alive, TypeOK
  <2>2. donatee'[u] = donatee[u]
    BY <1>1, <1>2, <2>1 DEF IInv, TypeOK
  <2>3. owner[u] = None /\ InClear(donatee[u], u) /\ donatee[u] \in Contexts
    BY <2>2 DEF IInv, DonateeIsOwner, TypeOK, InClear
  <2>4. donatee[u] # current
    BY <2>1, <2>3 DEF InClear
  <2> QED
    BY <1>2, <2>2, <2>3, <2>4 DEF InClear
<1> QED
  BY <1>3, <1>4, <1>5, <1>6 DEF IInv

\* The loop of lock_dirty.
LEMMA TakeOrHelpStep ==
    ASSUME IInv, NEW l \in Locks, pc[current] \in {"run", "help"}, TakeOrHelp(l)
    PROVE  IInv'
<1>1. current \in Contexts /\ state[current] = "ready"
  BY RunnerReady
<1>2. CASE ~valid(l)
  <2>1. /\ Goto(current, "run", None) /\ Dispatch
        /\ UNCHANGED <<owner, lock_cnt, donatee, state, mapped>>
    BY <1>2 DEF TakeOrHelp, Dispatch, IInv, TypeOK
  <2>2. Place(current, "run", None)
    BY <1>1 DEF Place
  <2> QED
    BY <2>1, <2>2, Moves DEF Pcs
<1>3. CASE valid(l) /\ owner[l] = None
  BY <1>3, TakeStep DEF TakeOrHelp
<1>4. CASE valid(l) /\ owner[l] # None
  <2>1. /\ Goto(current, "help", l) /\ switch_exec_locked(owner[l], "Helping")
        /\ UNCHANGED <<owner, lock_cnt, donatee, state, mapped>>
    BY <1>4 DEF TakeOrHelp
  <2>2. Dispatch
    BY <2>1, SwitchDispatches DEF IInv
  <2>3. Place(current, "help", l)
    BY <1>1 DEF Place
  <2> QED
    BY <2>1, <2>2, <2>3, Moves DEF Pcs
<1> QED
  BY <1>2, <1>3, <1>4

\* Every step keeps the invariant.
LEMMA NextIInv == IInv /\ [Next]_vars => IInv'
<1> SUFFICES ASSUME IInv, [Next]_vars PROVE IInv'
  OBVIOUS
<1> USE LockAssumption
<1>1. current \in Contexts /\ arg[current] \in Locks \cup {None} /\ pc[current] \in Pcs
  BY DEF IInv, TypeOK, Pcs
<1>2. Place(current, pc[current], arg[current])
  BY <1>1 DEF IInv, Places
<1>3. CASE UNCHANGED vars
  <2>1. Dispatch
    BY <1>1, <1>3 DEF vars, Dispatch, IInv, TypeOK
  <2> QED
    BY <1>3, <2>1, Stays DEF vars
<1>4. CASE Preempt
  BY <1>4, ScheduleDispatches, Stays DEF Preempt, IInv
<1>5. CASE Block
  <2>1. /\ UNCHANGED <<current, owner, lock_cnt, donatee, helper, mapped>>
        /\ state' = [state EXCEPT ![current] = "blocked"]
        /\ Goto(current, "wait", None) /\ pc[current] = "run"
    BY <1>5 DEF Block
  <2>2. Place(current, "wait", None)' /\ pc'[current] = "wait" /\ state[current] = "ready"
    BY <1>1, <2>1, RunnerReady DEF Place, Goto, IInv, TypeOK
  <2> QED
    BY <1>1, <2>1, <2>2, StateStep DEF Pcs, Live
<1>6. CASE Wait
  <2>1. CASE state[current] = "ready"
    <3>1. /\ Goto(current, "run", None) /\ Dispatch
          /\ UNCHANGED <<owner, lock_cnt, donatee, state, mapped>> /\ pc[current] = "wait"
      BY <1>1, <1>6, <2>1 DEF Wait, Dispatch, IInv, TypeOK
    <3>2. Place(current, "run", None)
      BY <2>1 DEF Place
    <3> QED
      BY <3>1, <3>2, Moves DEF Pcs
  <2>2. CASE state[current] # "ready"
    BY <1>6, <2>2, ScheduleDispatches, Stays DEF Wait, IInv
  <2> QED
    BY <2>1, <2>2
<1>7. CASE Help
  <2>1. pc[current] = "help" /\ TakeOrHelp(arg[current]) /\ arg[current] \in Locks
    BY <1>2, <1>7 DEF Help, Place
  <2> QED
    BY <2>1, TakeOrHelpStep
<1>8. CASE Switch
  <2>1. /\ pc[current] = "switch" /\ UNCHANGED <<owner, lock_cnt, donatee, state, mapped>>
        /\ arg[current] \in Contexts \cup {None} /\ state[current] = "ready"
    BY <1>2, <1>8, RunnerReady DEF Switch, Place
  <2>2. Dispatch
    BY <1>1, <1>8, ScheduleDispatches DEF Switch, Dispatch, IInv, TypeOK
  <2>3. CASE arg[current] = None
    <3>1. Goto(current, "run", arg[current]) /\ arg[current] \notin Contexts
      BY <1>8, <2>3 DEF Switch, Locks
    <3>2. Place(current, "run", arg[current])
      BY <2>1 DEF Place
    <3> QED
      BY <1>1, <2>1, <2>2, <3>1, <3>2, Moves DEF Pcs
  <2>4. CASE arg[current] # None
    <3>1. Goto(current, "tail", arg[current]) /\ arg[current] \in Contexts
      BY <1>8, <2>1, <2>4 DEF Switch
    <3>2. Place(current, "tail", arg[current])
      BY <2>1, <3>1 DEF Place
    <3> QED
      BY <1>1, <2>1, <2>2, <3>1, <3>2, Moves DEF Pcs
  <2> QED
    BY <2>3, <2>4
<1>9. CASE Lockee
  <2>1. /\ pc[current] = "lockee" /\ UNCHANGED <<owner, lock_cnt, donatee, state, mapped>>
        /\ Goto(current, "run", None) /\ state[current] = "ready"
    BY <1>9, RunnerReady DEF Lockee
  <2>2. Dispatch
    BY <1>1, <1>9, SwitchDispatches DEF Lockee, Dispatch, IInv, TypeOK
  <2>3. Place(current, "run", None)
    BY <2>1 DEF Place
  <2> QED
    BY <2>1, <2>2, <2>3, Moves DEF Pcs
<1>10. CASE KillLoop
  <2> PICK t : t = arg[current]
    OBVIOUS
  <2>1. pc[current] = "kill" /\ t \in Contexts /\ t # current /\ owner[t] = current
        /\ state[current] = "ready"
    BY <1>2, <1>10, RunnerReady DEF KillLoop, Place
  <2>2. CASE lock_cnt[t] > 0
    <3>1. /\ switch_exec_locked(t, "Helping")
          /\ UNCHANGED <<owner, lock_cnt, donatee, state, mapped, pc, arg>>
      BY <1>10, <2>2 DEF KillLoop
    <3> QED
      BY <3>1, SwitchDispatches, Stays DEF IInv
  <2>3. CASE ~(lock_cnt[t] > 0)
    <3>1. /\ UNCHANGED <<current, owner, lock_cnt, donatee, helper, mapped>>
          /\ state' = [state EXCEPT ![t] = "dead"] /\ Goto(current, "run", None)
      BY <1>10, <2>3 DEF KillLoop
    <3>2. lock_cnt[t] = 0 /\ Live(t)
      BY <1>2, <1>10, <2>1, <2>3 DEF IInv, TypeOK, Place
    <3>3. Place(current, "run", None)'
      BY <1>1, <2>1, <3>1 DEF Place, IInv, TypeOK
    <3> QED
      BY <1>1, <2>1, <3>1, <3>2, <3>3, StateStep DEF Pcs
  <2> QED
    BY <2>2, <2>3
<1>11. ASSUME NEW t \in Contexts, Destroy(t)
       PROVE  IInv'
  <2>1. /\ pc[current] = "run" /\ t \in Locks /\ owner[t] = current /\ state[t] = "dead"
        /\ clear_and_switch(t, None) /\ UNCHANGED donatee
    BY <1>11 DEF Destroy, Locks
  <2>2. /\ state' \in [Contexts -> {"ready", "blocked", "dead", "invalid"}]
        /\ \A c \in Contexts : state'[c] = state[c] \/ (~Live(c) /\ state'[c] = "invalid")
    BY <1>11, <2>1 DEF Destroy, IInv, TypeOK, Live
  <2>3. /\ mapped' \in [Contexts -> BOOLEAN]
        /\ \A c \in Contexts : mapped'[c] \/ ~Live(c)
    BY <1>11, <2>1 DEF Destroy, IInv, TypeOK, Alive, Live
  <2> QED
    BY <2>1, <2>2, <2>3, ClearStep
<1>12. ASSUME NEW t \in Contexts, Wake(t)
       PROVE  IInv'
  <2>1. /\ UNCHANGED <<current, owner, lock_cnt, donatee, helper, mapped, pc, arg>>
        /\ state[t] = "blocked" /\ state' = [state EXCEPT ![t] = "ready"]
    BY <1>12 DEF Wake
  <2>2. Goto(current, pc[current], arg[current])
    BY <2>1 DEF Goto, IInv, TypeOK
  <2>3. Place(current, pc[current], arg[current])'
    BY <1>1, <1>2, <2>1 DEF Place, IInv, TypeOK, Live
  <2>4. PICK p \in Pcs, l \in Locks \cup {None} : p = pc[current] /\ l = arg[current]
    BY <1>1
  <2>5. Goto(current, p, l) /\ Place(current, p, l)'
    BY <2>1, <2>2, <2>3, <2>4
  <2> QED
    BY <2>1, <2>4, <2>5, StateStep DEF Live
<1>13. ASSUME NEW t \in Contexts, Kill(t)
       PROVE  IInv'
  <2>1. /\ pc[current] = "run" /\ Goto(current, "kill", t) /\ Dispatch
        /\ UNCHANGED <<owner, lock_cnt, donatee, state, mapped>>
        /\ owner[t] = current /\ state[current] = "ready" /\ Live(t)
    BY <1>1, <1>13, RunnerReady DEF Kill, Dispatch, IInv, TypeOK
  <2>2. t # current /\ t \in Locks
    <3>1. PICK k \in Held(current) : <<current, k, t>> \in Kills
      BY <1>13 DEF Kill
    <3> QED
      BY <3>1 DEF Locks
  <2>3. Place(current, "kill", t)
    BY <2>1, <2>2 DEF Place
  <2> QED
    BY <2>1, <2>2, <2>3, Moves DEF Pcs
<1>14. ASSUME NEW l \in Locks, Lock(l)
       PROVE  IInv'
  BY <1>14, TakeOrHelpStep DEF Lock
<1>15. ASSUME NEW l \in Locks, Clear(l)
       PROVE  IInv'
  <2>1. /\ pc[current] = "run" /\ owner[l] = current
        /\ clear_and_switch(l, IF l \in Contexts THEN l ELSE None)
        /\ UNCHANGED <<donatee, state, mapped>>
    BY <1>15 DEF Clear
  <2>2. /\ mapped' \in [Contexts -> BOOLEAN]
        /\ state' \in [Contexts -> {"ready", "blocked", "dead", "invalid"}]
        /\ \A c \in Contexts : state'[c] = state[c] /\ (mapped'[c] \/ ~Live(c))
    BY <2>1 DEF IInv, TypeOK, Alive
  <2>3. CASE l \in Contexts
    BY <2>1, <2>2, <2>3, ClearStep
  <2>4. CASE l \notin Contexts
    BY <2>1, <2>2, <2>4, ClearStep DEF Locks
  <2> QED
    BY <2>3, <2>4
<1> QED
  BY <1>3, <1>4, <1>5, <1>6, <1>7, <1>8, <1>9, <1>10, <1>11, <1>12, <1>13, <1>14,
     <1>15, TailStep DEF Next

\* Nobody owns a lock when the kernel starts.
LEMMA InitIInv == Init => IInv
<1> SUFFICES ASSUME Init PROVE IInv
  OBVIOUS
<1> USE LockAssumption
<1>1. TypeOK
  BY DEF Init, TypeOK
<1>2. Places /\ Alive
  BY DEF Init, Places, Place, Alive, Live
<1>3. LocksCounted
  <2> SUFFICES ASSUME NEW c \in Contexts
               PROVE  lock_cnt[c] = Cardinality(Held(c)) /\ Held(c) = {}
    BY DEF LocksCounted
  <2>1. Held(c) = {}
    BY DEF Init, Held, Locks
  <2> QED
    BY <2>1, FS_EmptySet DEF Init
<1>4. DonateeIsOwner
  BY DEF Init, DonateeIsOwner, Locks
<1> QED
  BY <1>1, <1>2, <1>3, <1>4 DEF IInv

\* The contexts and locks keep to their types.
THEOREM TypeCorrect == Spec => []TypeOK
<1>1. IInv => TypeOK
  BY DEF IInv
<1> QED
  BY <1>1, InitIInv, NextIInv, PTL DEF Spec

\* lock_cnt counts the locks of a context, and no lock belongs to a context that
\* was killed.
THEOREM LocksAreCounted == Spec => []LocksCounted
<1>1. IInv => LocksCounted
  BY DEF IInv
<1> QED
  BY <1>1, InitIInv, NextIInv, PTL DEF Spec

\* The donatee of a live context is the owner of its thread lock, or a context
\* that is about to pass it on.
THEOREM DonateesOwn == Spec => []DonateeIsOwner
<1>1. IInv => DonateeIsOwner
  BY DEF IInv
<1> QED
  BY <1>1, InitIInv, NextIInv, PTL DEF Spec

-----------------------------------------------------------------------------
(* The loop of switch_exec_locked.                                         *)

\* The chain from t on has t and goes on at the donatees; whatever t has and a
\* round of the loop keeps, the whole chain has.
LEMMA ChainProperties ==
    ASSUME NEW t \in Contexts
    PROVE  /\ t \in Chain(t)
           /\ \A x \in Chain(t) : Stop(x) \/ donateeOf(x) \notin Contexts \/ donateeOf(x) \in Chain(t)
           /\ \A S \in SUBSET Contexts :
                 (t \in S /\ \A y \in S : Stop(y) \/ donateeOf(y) \in S) => Chain(t) \subseteq S
BY DEF Chain

\* Helping passes the CPU on, for any number of contexts and any chain of locked
\* contexts, unless they lock each other in a circle, a lock owner sleeps, or
\* Thread_lock::clear has yet to pass on a donatee; killing passes it on to any
\* victim that has locks and does not sleep.
THEOREM HelpingReaches == Spec => []HelpReaches
<1>1. IInv => HelpReaches
  <2> SUFFICES ASSUME IInv PROVE HelpReaches
    OBVIOUS
  <2> USE LockAssumption
  <2> DEFINE Owners == {c \in Contexts : Held(c) # {}}
  <2>1. current \in Contexts /\ Place(current, pc[current], arg[current])
    BY DEF IInv, TypeOK, Places
  <2>2. \A c \in Owners : Live(c) /\ lock_cnt[c] > 0 /\ mapped[c]
    BY HeldFinite DEF IInv, LocksCounted, Alive
  <2>3. ASSUME NEW t \in Owners, ~Unsettled(t)
        PROVE  Reaches(t) \/ Circle(t) \/ Sleeper(t)
    <3>1. t \in Chain(t) /\ Chain(t) \subseteq Contexts
      BY ChainProperties DEF Chain
    <3> DEFINE S == {x \in Chain(t) : x \in Owners}
    <3>2. ASSUME NEW y \in S, ~Stop(y)
          PROVE  donateeOf(y) = owner[y] /\ owner[y] \in S
      <4>1. y \in Contexts /\ y \in Locks /\ Live(y) /\ mapped[y]
        BY <2>2, <3>1 DEF Locks
      <4>2. donateeOf(y) = donatee[y] /\ donatee[y] # None /\ donatee[y] \in Contexts
        BY <3>2, <4>1 DEF Stop, donateeOf, IInv, TypeOK
      <4>3. donatee[y] = owner[y]
        BY <2>3, <4>1, <4>2 DEF IInv, DonateeIsOwner, Unsettled
      <4>4. owner[y] \in Owners
        BY <4>1, <4>2, <4>3 DEF Held
      <4>5. owner[y] \in Chain(t)
        BY <3>2, <4>2, <4>3, ChainProperties
      <4> QED
        BY <4>2, <4>3, <4>4, <4>5
    <3>3. Chain(t) \subseteq S
      <4>1. S \in SUBSET Contexts /\ t \in S
        BY <3>1
      <4>2. \A y \in S : Stop(y) \/ donateeOf(y) \in S
        BY <3>2
      <4> HIDE DEF S
      <4> QED
        BY <4>1, <4>2, ChainProperties
    <3>4. CASE \E x \in Chain(t) : Stop(x)
      <4>1. PICK x \in Chain(t) : Stop(x)
        BY <3>4
      <4>2. x \in Owners /\ Live(x) /\ lock_cnt[x] > 0
        BY <2>2, <3>3, <4>1
      <4>3. CASE state[x] = "ready"
        BY <4>1, <4>2, <4>3 DEF Reaches, Switches
      <4>4. CASE state[x] = "blocked"
        BY <4>1, <4>2, <4>4 DEF Sleeper
      <4> QED
        BY <4>2, <4>3, <4>4 DEF Live
    <3>5. CASE ~\E x \in Chain(t) : Stop(x)
      <4>1. ASSUME NEW x \in Chain(t)
            PROVE  owner[x] \in Chain(t) \ {x}
        <5>1. x \in S /\ ~Stop(x)
          BY <3>3, <3>5
        <5>2. donateeOf(x) = owner[x] /\ owner[x] \in S
          BY <3>2, <5>1
        <5> QED
          BY <5>1, <5>2 DEF Stop
      <4> QED
        BY <4>1 DEF Circle
    <3> QED
      BY <3>4, <3>5
  <2>4. ASSUME pc[current] = "help", owner[arg[current]] # None
        PROVE  owner[arg[current]] \in Owners
    BY <2>1, <2>4 DEF Place, Held, IInv, TypeOK
  <2>5. ASSUME pc[current] = "kill", lock_cnt[arg[current]] > 0
        PROVE  Reaches(arg[current]) \/ state[arg[current]] = "blocked"
    <3> PICK t : t = arg[current]
      OBVIOUS
    <3>1. t \in Contexts /\ owner[t] = current /\ current # None /\ Live(t) /\ mapped[t]
      BY <2>1, <2>5 DEF Place, IInv, Alive, Locks
    <3>2. donatee[t] = current
      BY <3>1 DEF IInv, DonateeIsOwner
    <3>3. Stop(t) /\ t \in Chain(t)
      BY <3>1, <3>2, ChainProperties DEF Stop, donateeOf
    <3> QED
      BY <2>5, <3>1, <3>3 DEF Live, Reaches, Switches
  <2> QED
    BY <2>3, <2>4, <2>5 DEF HelpReaches
<1> QED
  BY <1>1, InitIInv, NextIInv, PTL DEF Spec
=============================================================================
