------------------------- MODULE DSIStream_proofs -------------------------
(***************************************************************************)
(* Proofs about the DSI packet ring, for any number of packets and scatter *)
(* gather elements.                                                        *)
(*                                                                         *)
(*   Typed      the variables have their types: every step keeps it        *)
(*   AbortInv   how the abort flag and the blocking flag follow the        *)
(*              threads that set them                                      *)
(*   UnitInv    a packet belongs to one side at a time                     *)
(*   SyncInv    who owes a sleeping work thread its wakeup                 *)
(*   CountInv   what packets_committed counts                              *)
(*   DueInv     which packets of the stream the descriptors stand for      *)
(*   SgInv      in which list, and where in it, each used scatter gather   *)
(*              element is, and that a search finds a free one             *)
(*                                                                         *)
(* The types hold in every state.  The other invariants are about updates  *)
(* of flag words that are not overwritten: AbortInv holds as long as those *)
(* of the socket flags are not, the others as long as none is.             *)
(***************************************************************************)
EXTENDS DSIStream, FiniteSetTheorems, TLAPS

Least == INSTANCE SequenceLemmas

-----------------------------------------------------------------------------
(* Arithmetic of the ring.                                                 *)

\* What the remainder is.
LEMMA ModIn ==
    ASSUME NEW a \in Int, NEW m \in Nat \ {0}
    PROVE  a % m \in 0 .. m - 1
OBVIOUS

\* Quotient and remainder give the number back.
LEMMA DivMod ==
    ASSUME NEW a \in Int, NEW m \in Nat \ {0}
    PROVE  a \div m \in Int /\ a = m * (a \div m) + (a % m)
<1>1. a \div m \in Int
  OBVIOUS
<1>2. m \in Int /\ m > 0
  OBVIOUS
<1>3. a % m = a - m * (a \div m)
  BY <1>2, Z3
<1> QED
  BY <1>1, <1>3, ModIn

\* A quotient and a remainder are unique.
LEMMA DivModUnique ==
    ASSUME NEW m \in Nat \ {0}, NEW q \in Int, NEW r \in 0 .. m - 1,
           NEW u \in Int, NEW v \in 0 .. m - 1, m * q + r = m * u + v
    PROVE  q = u /\ r = v
<1>1. m * (q - u) = v - r
  OBVIOUS
<1>2. q - u >= 1 => m * (q - u) >= m
  OBVIOUS
<1>3. q - u <= -1 => m * (q - u) <= -m
  OBVIOUS
<1>4. q = u
  BY <1>1, <1>2, <1>3
<1> QED
  BY <1>4

\* One turn round the ring reaches the same place.
LEMMA ModShift ==
    ASSUME NEW a \in Int, NEW m \in Nat \ {0}
    PROVE  (a + m) % m = a % m
<1> DEFINE d == a \div m
           c == (a + m) \div m
           r == a % m
           s == (a + m) % m
<1>1. a = m * d + r /\ d \in Int /\ r \in 0 .. m - 1
  BY DivMod, ModIn
<1>2. a + m = m * c + s /\ c \in Int /\ s \in 0 .. m - 1
  BY DivMod, ModIn
<1> HIDE DEF c, d, r, s
<1>3. m * (d + 1) = m * d + m
  BY <1>1
<1>4. m * (d + 1) + r = m * c + s
  BY <1>1, <1>2, <1>3
<1>5. s = r
  BY <1>1, <1>2, <1>4, DivModUnique
<1> QED
  BY <1>5 DEF r, s

\* Places of the ring that are the same are one or more turns apart.
LEMMA ModSame ==
    ASSUME NEW a \in Int, NEW b \in Int, NEW m \in Nat \ {0},
           a % m = b % m, a <= b, b < a + m
    PROVE  a = b
<1> DEFINE d == a \div m
           c == b \div m
           r == a % m
<1>1. a = m * d + r /\ d \in Int /\ r \in 0 .. m - 1
  BY DivMod, ModIn
<1>2. b = m * c + r /\ c \in Int
  BY DivMod
<1> HIDE DEF c, d, r
<1>3. m * (c - d) = b - a
  BY <1>1, <1>2
<1>4. c - d >= 1 => m * (c - d) >= m
  BY <1>1, <1>2
<1>5. c - d <= -1 => m * (c - d) <= -m
  BY <1>1, <1>2
<1>6. c = d
  BY <1>1, <1>2, <1>3, <1>4, <1>5
<1> QED
  BY <1>1, <1>2, <1>6

\* A remainder is its own remainder.
LEMMA ModSmall ==
    ASSUME NEW m \in Nat \ {0}, NEW a \in 0 .. m - 1
    PROVE  a % m = a
OBVIOUS

\* One step along the ring.
LEMMA ModNext ==
    ASSUME NEW a \in Int, NEW m \in Nat \ {0}
    PROVE  (a + 1) % m = ((a % m) + 1) % m
<1> DEFINE d == a \div m
           r == a % m
           c == (r + 1) \div m
           s == (r + 1) % m
           u == (a + 1) \div m
           v == (a + 1) % m
<1>1. a = m * d + r /\ d \in Int /\ r \in 0 .. m - 1
  BY DivMod, ModIn
<1>2. r + 1 = m * c + s /\ c \in Int /\ s \in 0 .. m - 1
  BY <1>1, DivMod, ModIn
<1>3. a + 1 = m * u + v /\ u \in Int /\ v \in 0 .. m - 1
  BY DivMod, ModIn
<1> HIDE DEF c, d, r, s, u, v
<1>4. m * (d + c) = m * d + m * c
  BY <1>1, <1>2
<1>5. m * (d + c) + s = m * u + v
  BY <1>1, <1>2, <1>3, <1>4
<1>6. s = v
  BY <1>1, <1>2, <1>3, <1>5, DivModUnique
<1> QED
  BY <1>6 DEF r, s, v

\* Every place of the ring comes up within one turn.
LEMMA ModReaches ==
    ASSUME NEW a \in Int, NEW m \in Nat \ {0}, NEW p \in 0 .. m - 1
    PROVE  \E s \in a .. (a + m - 1) : s % m = p
<1> DEFINE r == a % m
           d == a \div m
           k == IF p >= r THEN p - r ELSE p - r + m
<1>1. a = m * d + r /\ d \in Int /\ r \in 0 .. m - 1
  BY DivMod, ModIn
<1>2. k \in 0 .. m - 1
  BY <1>1
<1> DEFINE u == (a + k) \div m
           v == (a + k) % m
<1>3. a + k = m * u + v /\ u \in Int /\ v \in 0 .. m - 1
  BY <1>2, DivMod, ModIn
<1>4. r + k = p \/ r + k = p + m
  BY <1>1
<1> HIDE DEF r, d, k, u, v
<1>5. PICK w \in Int : m * w = m * d + m
  <2>1. d + 1 \in Int /\ m * (d + 1) = m * d + m
    BY <1>1
  <2> QED
    BY <2>1
<1>6. m * u + v = m * d + p \/ m * u + v = m * w + p
  BY <1>1, <1>2, <1>3, <1>4, <1>5
<1>7. v = p
  <2>1. ASSUME m * u + v = m * d + p PROVE v = p
    BY <1>1, <1>3, <2>1, DivModUnique, ZenonT(30)
  <2>2. ASSUME m * u + v = m * w + p PROVE v = p
    BY <1>3, <1>5, <2>2, DivModUnique, ZenonT(30)
  <2> QED
    BY <1>6, <2>1, <2>2
<1>8. a + k \in a .. (a + m - 1)
  BY <1>2
<1>9. (a + k) % m = p
  BY <1>7 DEF v
<1> QED
  BY <1>8, <1>9

-----------------------------------------------------------------------------
(* Types.                                                                  *)

Getting == {"block", "recheck", "down", "call", "asleep", "unblock", "got"}

(* TypeOK without the bounds of the semaphore counters, of                  *)
(* packets_committed and of the history, which are not a matter of types.   *)
ThreadTypes ==
    /\ next \in [Sides -> Packets]
    /\ blocking \in [Sides -> BOOLEAN]
    /\ abort \in [Sides -> BOOLEAN]
    /\ wpc \in [Sides -> WorkerPcs]
    /\ wpkt \in [Sides -> Packets]
    /\ spc \in [Sides -> SyncPcs]
    /\ spkt \in [Sides -> Packets]
    /\ apc \in [Sides -> {"idle", "test", "jump", "finished"}]
    /\ held \in [Sides -> SUBSET Packets]
    /\ gets \in [Sides -> 0 .. MaxPackets]
    /\ \A x \in Sides : wpc[x] \in Getting => gets[x] < MaxPackets

WordTypes ==
    /\ sem \in [Sides -> [Packets -> Int]]
    /\ flags \in [Packets -> SUBSET Flags]
    /\ committed \in Int
    /\ wreg \subseteq Flags
    /\ sreg \in [Sides -> SUBSET SUBSET Flags]

SgTypes ==
    /\ sgLen \in [Packets -> 0 .. MaxSg]
    /\ sgList \in [Packets -> Elems \cup {LAST}]
    /\ sgIdx \in [Packets -> Elems \cup {LAST}]
    /\ used \subseteq Elems
    /\ nxt \in [Elems -> Elems \cup {LAST}]
    /\ nextElem \in Elems
    /\ elem \in [Sides -> Elems \cup {LAST}]
    /\ cnt \in 0 .. MaxSg
    /\ wpc["S"] = "search" => elem["S"] \in Elems /\ sgLen[wpkt["S"]] < MaxSg

Typed == ThreadTypes /\ WordTypes /\ SgTypes

\* The sides, and the first places of the rings.
LEMMA Places ==
    /\ 0 \in Packets
    /\ 0 \in Elems
    /\ "S" \in Sides /\ "R" \in Sides
    /\ \A x \in Sides : Peer(x) \in Sides /\ Peer(x) # x /\ Peer(Peer(x)) = x
<1> DEFINE M == N * MaxSg
<1>1. M \in Nat \ {0}
  BY StreamAssumption
<1>2. Elems = 0 .. M - 1
  BY DEF Elems
<1> HIDE DEF M
<1>3. 0 \in Elems
  BY <1>1, <1>2
<1> QED
  BY <1>3, StreamAssumption DEF Packets, Sides, Peer

\* The next packet and the next scatter gather element exist.
LEMMA Rings ==
    /\ \A p \in Packets : (p + 1) % N \in Packets
    /\ \A e \in Elems : (e + 1) % (N * MaxSg) \in Elems
<1> DEFINE M == N * MaxSg
<1>1. M \in Nat \ {0}
  BY StreamAssumption
<1>2. Elems = 0 .. M - 1
  BY DEF Elems
<1> HIDE DEF M
<1>3. \A e \in Elems : (e + 1) % M \in Elems
  BY <1>1, <1>2, ModIn
<1>4. \A p \in Packets : (p + 1) % N \in Packets
  BY StreamAssumption, ModIn DEF Packets
<1> QED
  BY <1>3, <1>4 DEF M

\* The initial state has its types.
LEMMA TypedInit == Init => Typed
BY Places, StreamAssumption
DEF Init, Typed, ThreadTypes, WordTypes, SgTypes, Packets, Sides, WorkerPcs, SyncPcs, Getting

\* What a flag word is made of.
LEMMA Words ==
    /\ REL \in Flags
    /\ \A y \in Sides : WAITING(y) \in Flags /\ PENDING(y) \in Flags
    /\ \A y \in Sides, word \in SUBSET Flags, c \in Updates :
          NewWord(c, y, word) \subseteq Flags
<1>1. REL \in Flags /\ \A y \in Sides : WAITING(y) \in Flags /\ PENDING(y) \in Flags
  BY DEF Flags
<1>2. ASSUME NEW y \in Sides, NEW word \in SUBSET Flags, NEW c \in Updates
      PROVE  NewWord(c, y, word) \subseteq Flags
  BY <1>1 DEF NewWord, Updates
<1> QED
  BY <1>1, <1>2

\* Every step keeps the types.
LEMMA TypedNext == Typed /\ [Next]_vars => Typed'
<1> SUFFICES ASSUME Typed, [Next]_vars PROVE Typed'
  OBVIOUS
<1> USE DEF sgvars, syncvars, hist
<1>1. ASSUME NEW x \in Sides, GetTry(x) PROVE Typed'
  <2>1. ThreadTypes'
    BY <1>1, Places, StreamAssumption
    DEF Typed, ThreadTypes, GetTry, Enter, Getting, WorkerPcs
  <2>2. WordTypes'
    <3>1. CASE sem[x][next[x]] > 0
      <4>1. sem' = [sem EXCEPT ![x][next[x]] = @ - 1]
        <5>1. sem[x][next[x]] \in Int
          BY DEF Typed, ThreadTypes, WordTypes
        <5>2. ~(sem[x][next[x]] <= 0)
          BY <3>1, <5>1
        <5> QED
          BY <1>1, <5>2, Zenon DEF GetTry
      <4> QED
        BY <1>1, <4>1, Places DEF Typed, ThreadTypes, WordTypes, GetTry
    <3>2. CASE ~(sem[x][next[x]] > 0)
      BY <1>1, <3>2, Places
      DEF Typed, ThreadTypes, WordTypes, GetTry
    <3> QED
      BY <3>1, <3>2
  <2>3. SgTypes'
    BY <1>1, Places, StreamAssumption
    DEF Typed, SgTypes, ThreadTypes, GetTry, Enter, Getting, WorkerPcs
  <2> QED
    BY <2>1, <2>2, <2>3 DEF Typed
<1>2. ASSUME NEW x \in Sides, GetBlock(x) PROVE Typed'
  <2>1. ThreadTypes'
    BY <1>2, Places, StreamAssumption
    DEF Typed, ThreadTypes, GetBlock, Goto, Enter, Getting, WorkerPcs
  <2>2. WordTypes'
    BY <1>2, Places, StreamAssumption
    DEF Typed, WordTypes, ThreadTypes, GetBlock, Goto, Enter, Getting, WorkerPcs
  <2>3. SgTypes'
    BY <1>2, Places, StreamAssumption
    DEF Typed, SgTypes, ThreadTypes, GetBlock, Goto, Enter, Getting, WorkerPcs
  <2> QED
    BY <2>1, <2>2, <2>3 DEF Typed
<1>3. ASSUME NEW x \in Sides, GetRecheck(x) PROVE Typed'
  <2>1. ThreadTypes'
    <3>1. CASE abort[x]
      <4>1. Eeos(x)
        BY <1>3, <3>1, Zenon DEF GetRecheck
      <4> QED
        BY <1>3, <4>1, Places
        DEF Typed, ThreadTypes, GetRecheck, Eeos, Goto, Enter, Getting, WorkerPcs
    <3>2. CASE ~abort[x]
      BY <1>3, <3>2, Places
      DEF Typed, ThreadTypes, GetRecheck, Eeos, Goto, Enter, Getting, WorkerPcs
    <3> QED
      BY <3>1, <3>2
  <2>2. WordTypes'
    BY <1>3, Places, StreamAssumption
    DEF Typed, WordTypes, ThreadTypes, GetRecheck, Eeos, Goto, Enter, Getting, WorkerPcs
  <2>3. SgTypes'
    BY <1>3, Places, StreamAssumption
    DEF Typed, SgTypes, ThreadTypes, GetRecheck, Eeos, Goto, Enter, Getting, WorkerPcs
  <2> QED
    BY <2>1, <2>2, <2>3 DEF Typed
<1>4. ASSUME NEW x \in Sides, GetDown(x) PROVE Typed'
  <2>1. ThreadTypes'
    BY <1>4, Places, StreamAssumption
    DEF Typed, ThreadTypes, GetDown, Goto, Enter, Getting, WorkerPcs
  <2>2. WordTypes'
    BY <1>4, Places, StreamAssumption
    DEF Typed, WordTypes, ThreadTypes, GetDown, Goto, Enter, Getting, WorkerPcs
  <2>3. SgTypes'
    BY <1>4, Places, StreamAssumption
    DEF Typed, SgTypes, ThreadTypes, GetDown, Goto, Enter, Getting, WorkerPcs
  <2> QED
    BY <2>1, <2>2, <2>3 DEF Typed
<1>5. ASSUME NEW x \in Sides, GetUnblock(x) PROVE Typed'
  <2>1. ThreadTypes'
    BY <1>5, Places, StreamAssumption
    DEF Typed, ThreadTypes, GetUnblock, Goto, Enter, Getting, WorkerPcs
  <2>2. WordTypes'
    BY <1>5, Places, StreamAssumption
    DEF Typed, WordTypes, ThreadTypes, GetUnblock, Goto, Enter, Getting, WorkerPcs
  <2>3. SgTypes'
    BY <1>5, Places, StreamAssumption
    DEF Typed, SgTypes, ThreadTypes, GetUnblock, Goto, Enter, Getting, WorkerPcs
  <2> QED
    BY <2>1, <2>2, <2>3 DEF Typed
<1>6. ASSUME NEW x \in Sides, GetTake(x) PROVE Typed'
  <2>1. ThreadTypes'
    <3>1. CASE x = "S"
      BY <1>6, <3>1, Places, Rings, StreamAssumption
      DEF Typed, ThreadTypes, GetTake, Goto, Enter, Getting, WorkerPcs
    <3>2. CASE x # "S"
      BY <1>6, <3>2, Places, Rings, StreamAssumption
      DEF Typed, ThreadTypes, GetTake, Goto, Enter, Getting, WorkerPcs
    <3> QED
      BY <3>1, <3>2
  <2>2. WordTypes'
    BY <1>6, Places, StreamAssumption, Words
    DEF Typed, WordTypes, ThreadTypes, GetTake, Goto, Enter, Getting, WorkerPcs
  <2>3. SgTypes'
    <3>1. CASE x = "S"
      BY <1>6, <3>1, Places
      DEF Typed, ThreadTypes, SgTypes, GetTake, Goto, Enter, Getting, WorkerPcs
    <3>2. CASE x # "S"
      BY <1>6, <3>2, Places
      DEF Typed, ThreadTypes, SgTypes, GetTake, Goto, Enter, Getting, WorkerPcs
    <3> QED
      BY <3>1, <3>2
  <2> QED
    BY <2>1, <2>2, <2>3 DEF Typed
<1>7. ASSUME NEW x \in Sides, Up(x) PROVE Typed'
  <2>1. ThreadTypes'
    BY <1>7, Places, StreamAssumption
    DEF Typed, ThreadTypes, Up, Goto, Enter, Getting, WorkerPcs
  <2>2. WordTypes'
    BY <1>7, Places, StreamAssumption
    DEF Typed, WordTypes, ThreadTypes, Up, Goto, Enter, Getting, WorkerPcs
  <2>3. SgTypes'
    BY <1>7, Places, StreamAssumption
    DEF Typed, SgTypes, ThreadTypes, Up, Goto, Enter, Getting, WorkerPcs
  <2> QED
    BY <2>1, <2>2, <2>3 DEF Typed
<1>8. ASSUME GetClear PROVE Typed'
  <2>1. ThreadTypes'
    BY <1>8, Places, StreamAssumption, Words
    DEF Typed, ThreadTypes, GetClear, LAST, Goto, Enter, Getting, WorkerPcs
  <2>2. WordTypes'
    BY <1>8, Places DEF Typed, WordTypes, ThreadTypes, GetClear, Store
  <2>3. SgTypes'
    BY <1>8, Places, StreamAssumption
    DEF Typed, SgTypes, ThreadTypes, GetClear, Goto, Enter
  <2> QED
    BY <2>1, <2>2, <2>3 DEF Typed
<1>9. ASSUME Search PROVE Typed'
  <2>1. ThreadTypes'
    <3>1. CASE elem["S"] \notin used
      BY <1>9, <3>1, Places
      DEF Typed, ThreadTypes, Search, Goto, Enter, Getting, WorkerPcs
    <3>2. CASE elem["S"] \in used
      BY <1>9, <3>2, Places
      DEF Typed, ThreadTypes, Search, Goto, Enter, Getting, WorkerPcs
    <3> QED
      BY <3>1, <3>2
  <2>2. WordTypes'
    BY <1>9, Places, StreamAssumption
    DEF Typed, WordTypes, ThreadTypes, Search, AppendElem, LAST, Goto, Enter, Getting, WorkerPcs
  <2>3. SgTypes'
    <3>1. CASE elem["S"] \notin used
      <4> DEFINE p == wpkt["S"]
                 e == elem["S"]
      <4>1. p \in Packets /\ e \in Elems /\ sgLen[p] + 1 \in 0 .. MaxSg
        BY <1>9, Places, StreamAssumption DEF Typed, ThreadTypes, SgTypes, Search
      <4>2. /\ AppendElem(p, e) /\ Goto("S", "idle")
            /\ elem' = [elem EXCEPT !["S"] = 0] /\ UNCHANGED cnt
        BY <1>9, <3>1 DEF Search
      <4>3. wpc'["S"] = "idle"
        BY <4>2, Places DEF Goto, Enter, Typed, ThreadTypes
      <4> HIDE DEF p, e
      <4> QED
        BY <4>1, <4>2, <4>3, Places, Rings DEF Typed, SgTypes, AppendElem
    <3>2. CASE elem["S"] \in used
      BY <1>9, <3>2, Places, Rings
      DEF Typed, ThreadTypes, SgTypes, Search, AppendElem, Goto, Enter, Getting, WorkerPcs
    <3> QED
      BY <3>1, <3>2
  <2> QED
    BY <2>1, <2>2, <2>3 DEF Typed
<1>10. ASSUME CommitCallback PROVE Typed'
  <2>1. ThreadTypes'
    BY <1>10, Places, StreamAssumption, Words
    DEF Typed, ThreadTypes, CommitCallback, Goto, Enter, Getting, WorkerPcs
  <2>2. WordTypes'
    <3>1. wpkt["S"] \in Packets
      BY Places DEF Typed, ThreadTypes
    <3>2. wreg \cup {REL} \subseteq Flags
      BY <3>1, Words DEF Typed, WordTypes
    <3> QED
      BY <1>10, <3>1, <3>2 DEF Typed, WordTypes, CommitCallback, Store
  <2>3. SgTypes'
    BY <1>10, Places, StreamAssumption, Words
    DEF Typed, SgTypes, ThreadTypes, CommitCallback, Goto, Enter, Getting, WorkerPcs
  <2> QED
    BY <2>1, <2>2, <2>3 DEF Typed
<1>11. ASSUME NEW p \in Packets, AddData(p) PROVE Typed'
  <2>1. ThreadTypes'
    BY <1>11, Places, StreamAssumption
    DEF Typed, ThreadTypes, AddData, Goto, Enter, Getting, WorkerPcs
  <2>2. WordTypes'
    BY <1>11, Places, StreamAssumption
    DEF Typed, WordTypes, ThreadTypes, AddData, Goto, Enter, Getting, WorkerPcs
  <2>3. SgTypes'
    BY <1>11, Places, StreamAssumption
    DEF Typed, SgTypes, ThreadTypes, AddData, Goto, Enter, Getting, WorkerPcs
  <2> QED
    BY <2>1, <2>2, <2>3 DEF Typed
<1>12. ASSUME NEW p \in Packets, CommitSend(p) PROVE Typed'
  <2>1. ThreadTypes'
    <3>1. CASE Enter("S", "callback", p)
      BY <1>12, <3>1, Places
      DEF Typed, ThreadTypes, CommitSend, Goto, Enter, Getting, WorkerPcs
    <3>2. CASE Enter("S", "up", p)
      BY <1>12, <3>2, Places
      DEF Typed, ThreadTypes, CommitSend, Goto, Enter, Getting, WorkerPcs
    <3> QED
      BY <1>12, <3>1, <3>2 DEF CommitSend
  <2>2. WordTypes'
    BY <1>12, Places, StreamAssumption, Words
    DEF Typed, WordTypes, ThreadTypes, CommitSend, Goto, Enter, Getting, WorkerPcs
  <2>3. SgTypes'
    BY <1>12, Places, StreamAssumption, Words
    DEF Typed, SgTypes, ThreadTypes, CommitSend, Goto, Enter, Getting, WorkerPcs
  <2> QED
    BY <2>1, <2>2, <2>3 DEF Typed
<1>13. ASSUME Uncount PROVE Typed'
  <2>1. ThreadTypes'
    BY <1>13, Places, StreamAssumption
    DEF Typed, ThreadTypes, Uncount, Goto, Enter, Getting, WorkerPcs
  <2>2. WordTypes'
    BY <1>13, Places, StreamAssumption
    DEF Typed, WordTypes, ThreadTypes, Uncount, Goto, Enter, Getting, WorkerPcs
  <2>3. SgTypes'
    BY <1>13, Places, StreamAssumption
    DEF Typed, SgTypes, ThreadTypes, Uncount, Goto, Enter, Getting, WorkerPcs
  <2> QED
    BY <2>1, <2>2, <2>3 DEF Typed
<1>14. ASSUME FreeElem PROVE Typed'
  <2>1. ThreadTypes'
    <3>1. CASE cnt < sgLen[wpkt["R"]] /\ elem["R"] # LAST
      BY <1>14, <3>1, Places
      DEF Typed, ThreadTypes, FreeElem, Goto, Enter, Getting, WorkerPcs
    <3>2. CASE ~(cnt < sgLen[wpkt["R"]] /\ elem["R"] # LAST)
      BY <1>14, <3>2, Places
      DEF Typed, ThreadTypes, FreeElem, Goto, Enter, Getting, WorkerPcs
    <3> QED
      BY <3>1, <3>2
  <2>2. WordTypes'
    BY <1>14, Places, StreamAssumption
    DEF Typed, WordTypes, ThreadTypes, FreeElem, Goto, Enter, Getting, WorkerPcs
  <2>3. SgTypes'
    <3>1. CASE cnt < sgLen[wpkt["R"]] /\ elem["R"] # LAST
      <4>1. elem["R"] \in Elems
        BY <3>1, Places DEF Typed, SgTypes
      <4>2. nxt[elem["R"]] \in Elems \cup {LAST}
        BY <4>1 DEF Typed, SgTypes
      <4>3. cnt + 1 \in 0 .. MaxSg
        BY <3>1, Places, StreamAssumption DEF Typed, ThreadTypes, SgTypes
      <4>4. /\ elem' = [elem EXCEPT !["R"] = nxt[elem["R"]]]
            /\ used' = used \ {elem["R"]}
            /\ cnt' = cnt + 1
            /\ UNCHANGED <<wpc, wpkt, sgLen, sgList, sgIdx, nxt, nextElem>>
        BY <1>14, <3>1 DEF FreeElem
      <4> QED
        BY <4>2, <4>3, <4>4, Places DEF Typed, SgTypes
    <3>2. CASE ~(cnt < sgLen[wpkt["R"]] /\ elem["R"] # LAST)
      <4>1. /\ elem' = [elem EXCEPT !["R"] = 0]
            /\ UNCHANGED <<used, sgLen, sgList, sgIdx, nxt, nextElem>>
            /\ cnt' = 0
        BY <1>14, <3>2 DEF FreeElem
      <4>2. wpc'["S"] = wpc["S"] /\ wpkt'["S"] = wpkt["S"]
        BY <1>14, <3>2, Places DEF FreeElem, Goto, Enter, Typed, ThreadTypes
      <4> QED
        BY <4>1, <4>2, Places, StreamAssumption DEF Typed, SgTypes
    <3> QED
      BY <3>1, <3>2
  <2> QED
    BY <2>1, <2>2, <2>3 DEF Typed
<1>15. ASSUME NEW p \in Packets, CommitReceive(p) PROVE Typed'
  <2>1. ThreadTypes'
    BY <1>15, Places, StreamAssumption
    DEF Typed, ThreadTypes, CommitReceive, Goto, Enter, Getting, WorkerPcs
  <2>2. WordTypes'
    BY <1>15, Places, StreamAssumption
    DEF Typed, WordTypes, ThreadTypes, CommitReceive, Goto, Enter, Getting, WorkerPcs
  <2>3. SgTypes'
    BY <1>15, Places, StreamAssumption
    DEF Typed, SgTypes, ThreadTypes, CommitReceive, Goto, Enter, Getting, WorkerPcs
  <2> QED
    BY <2>1, <2>2, <2>3 DEF Typed
<1>16. ASSUME NEW x \in Sides, ReceiveCommited(x) PROVE Typed'
  <2>1. ThreadTypes'
    BY <1>16, Places, StreamAssumption
    DEF Typed, ThreadTypes, ReceiveCommited, SyncReceive, SyncPcs, Goto, Enter, Getting, WorkerPcs
  <2>2. WordTypes'
    BY <1>16, Places, StreamAssumption
    DEF Typed, WordTypes, ThreadTypes, ReceiveCommited, SyncReceive, SyncPcs, Goto, Enter, Getting, WorkerPcs
  <2>3. SgTypes'
    BY <1>16, Places, StreamAssumption
    DEF Typed, SgTypes, ThreadTypes, ReceiveCommited, SyncReceive, SyncPcs, Goto, Enter, Getting, WorkerPcs
  <2> QED
    BY <2>1, <2>2, <2>3 DEF Typed
<1>17. ASSUME NEW x \in Sides, ReceiveWait(x) PROVE Typed'
  <2>1. ThreadTypes'
    BY <1>17, Places, StreamAssumption
    DEF Typed, ThreadTypes, ReceiveWait, SyncReceive, SyncPcs, Goto, Enter, Getting, WorkerPcs
  <2>2. WordTypes'
    BY <1>17, Places, StreamAssumption
    DEF Typed, WordTypes, ThreadTypes, ReceiveWait, SyncReceive, SyncPcs, Goto, Enter, Getting, WorkerPcs
  <2>3. SgTypes'
    BY <1>17, Places, StreamAssumption
    DEF Typed, SgTypes, ThreadTypes, ReceiveWait, SyncReceive, SyncPcs, Goto, Enter, Getting, WorkerPcs
  <2> QED
    BY <2>1, <2>2, <2>3 DEF Typed
<1>18. ASSUME ReceiveRelease PROVE Typed'
  <2>1. ThreadTypes'
    BY <1>18, Places, StreamAssumption
    DEF Typed, ThreadTypes, ReceiveRelease, SyncReceive, SyncPcs, Goto, Enter, Getting, WorkerPcs
  <2>2. WordTypes'
    BY <1>18, Places, StreamAssumption
    DEF Typed, WordTypes, ThreadTypes, ReceiveRelease, SyncReceive, SyncPcs, Goto, Enter, Getting, WorkerPcs
  <2>3. SgTypes'
    BY <1>18, Places, StreamAssumption
    DEF Typed, SgTypes, ThreadTypes, ReceiveRelease, SyncReceive, SyncPcs, Goto, Enter, Getting, WorkerPcs
  <2> QED
    BY <2>1, <2>2, <2>3 DEF Typed
<1>19. ASSUME NEW x \in Sides, HandleCommited(x) PROVE Typed'
  <2>1. ThreadTypes'
    BY <1>19, Places, StreamAssumption, Words
    DEF Typed, ThreadTypes, HandleCommited, Wakeup, SyncPcs, Goto, Enter, Getting, WorkerPcs
  <2>2. WordTypes'
    BY <1>19, Places, StreamAssumption, Words
    DEF Typed, WordTypes, ThreadTypes, HandleCommited, Wakeup, SyncPcs, Goto, Enter, Getting, WorkerPcs
  <2>3. SgTypes'
    BY <1>19, Places, StreamAssumption, Words
    DEF Typed, SgTypes, ThreadTypes, HandleCommited, Wakeup, SyncPcs, Goto, Enter, Getting, WorkerPcs
  <2> QED
    BY <2>1, <2>2, <2>3 DEF Typed
<1>20. ASSUME NEW x \in Sides, HandleWait(x) PROVE Typed'
  <2>1. ThreadTypes'
    BY <1>20, Places, StreamAssumption, Words
    DEF Typed, ThreadTypes, HandleWait, Wakeup, SyncPcs, Goto, Enter, Getting, WorkerPcs
  <2>2. WordTypes'
    BY <1>20, Places, StreamAssumption, Words
    DEF Typed, WordTypes, ThreadTypes, HandleWait, Wakeup, SyncPcs, Goto, Enter, Getting, WorkerPcs
  <2>3. SgTypes'
    BY <1>20, Places, StreamAssumption, Words
    DEF Typed, SgTypes, ThreadTypes, HandleWait, Wakeup, SyncPcs, Goto, Enter, Getting, WorkerPcs
  <2> QED
    BY <2>1, <2>2, <2>3 DEF Typed
<1>21. ASSUME NEW x \in Sides, SyncStore(x) PROVE Typed'
  <2>1. ThreadTypes'
    BY <1>21, Places, StreamAssumption, Words
    DEF Typed, ThreadTypes, SyncStore, SyncPcs
  <2>2. WordTypes'
    <3>1. PICK word \in sreg[x] : Store(spkt[x], word, NewWord(spc[x], Peer(x), word))
      BY <1>21 DEF SyncStore
    <3>2. spkt[x] \in Packets /\ word \in SUBSET Flags /\ spc[x] \in Updates
      BY <1>21, Places DEF Typed, ThreadTypes, WordTypes, SyncStore
    <3>3. NewWord(spc[x], Peer(x), word) \subseteq Flags
      BY <3>2, Places, Words
    <3>4. flags' = [flags EXCEPT ![spkt[x]] = NewWord(spc[x], Peer(x), word)]
      BY <3>1 DEF Store
    <3> HIDE DEF NewWord
    <3>5. flags' \in [Packets -> SUBSET Flags]
      BY <3>2, <3>3, <3>4 DEF Typed, WordTypes
    <3> QED
      BY <1>21, <3>5 DEF Typed, WordTypes, SyncStore
  <2>3. SgTypes'
    BY <1>21, Places, StreamAssumption, Words
    DEF Typed, SgTypes, ThreadTypes, SyncStore, SyncPcs
  <2> QED
    BY <2>1, <2>2, <2>3 DEF Typed
<1>22. ASSUME CallbackReturn PROVE Typed'
  <2>1. ThreadTypes'
    BY <1>22, Places, StreamAssumption
    DEF Typed, ThreadTypes, CallbackReturn, SyncPcs
  <2>2. WordTypes'
    BY <1>22, Places, StreamAssumption
    DEF Typed, WordTypes, ThreadTypes, CallbackReturn, SyncPcs
  <2>3. SgTypes'
    BY <1>22, Places, StreamAssumption
    DEF Typed, SgTypes, ThreadTypes, CallbackReturn, SyncPcs
  <2> QED
    BY <2>1, <2>2, <2>3 DEF Typed
<1>23. ASSUME NEW x \in Sides, AbortSet(x) PROVE Typed'
  <2>1. ThreadTypes'
    BY <1>23, Places, StreamAssumption
    DEF Typed, ThreadTypes, AbortSet
  <2>2. WordTypes'
    BY <1>23, Places, StreamAssumption
    DEF Typed, WordTypes, ThreadTypes, AbortSet
  <2>3. SgTypes'
    BY <1>23, Places, StreamAssumption
    DEF Typed, SgTypes, ThreadTypes, AbortSet
  <2> QED
    BY <2>1, <2>2, <2>3 DEF Typed
<1>24. ASSUME NEW x \in Sides, AbortTest(x) PROVE Typed'
  <2>1. ThreadTypes'
    BY <1>24, Places, StreamAssumption
    DEF Typed, ThreadTypes, AbortTest
  <2>2. WordTypes'
    BY <1>24, Places, StreamAssumption
    DEF Typed, WordTypes, ThreadTypes, AbortTest
  <2>3. SgTypes'
    BY <1>24, Places, StreamAssumption
    DEF Typed, SgTypes, ThreadTypes, AbortTest
  <2> QED
    BY <2>1, <2>2, <2>3 DEF Typed
<1>25. ASSUME NEW x \in Sides, AbortJump(x) PROVE Typed'
  <2>1. ThreadTypes'
    <3>1. CASE wpc[x] \in InGet
      <4>1. Eeos(x)
        BY <1>25, <3>1, Zenon DEF AbortJump
      <4> QED
        BY <1>25, <4>1, Places
        DEF Typed, ThreadTypes, AbortJump, Eeos, Goto, Enter, Getting, WorkerPcs
    <3>2. CASE wpc[x] \notin InGet
      BY <1>25, <3>2, Places
      DEF Typed, ThreadTypes, AbortJump, Eeos, Goto, Enter, Getting, WorkerPcs
    <3> QED
      BY <3>1, <3>2
  <2>2. WordTypes'
    BY <1>25, Places, StreamAssumption
    DEF Typed, WordTypes, ThreadTypes, AbortJump, Eeos, InGet, Goto, Enter, Getting, WorkerPcs
  <2>3. SgTypes'
    BY <1>25, Places, StreamAssumption
    DEF Typed, SgTypes, ThreadTypes, AbortJump, Eeos, InGet, Goto, Enter, Getting, WorkerPcs
  <2> QED
    BY <2>1, <2>2, <2>3 DEF Typed
<1>26. CASE UNCHANGED vars
  BY <1>26 DEF Typed, ThreadTypes, WordTypes, SgTypes, vars
<1>27. ASSUME NEW x \in Sides, SyncLoad(x) PROVE Typed'
  <2>1. ThreadTypes'
    BY <1>27 DEF Typed, ThreadTypes, SyncLoad
  <2>2. WordTypes'
    BY <1>27, Places DEF Typed, WordTypes, ThreadTypes, SyncLoad
  <2>3. SgTypes'
    BY <1>27 DEF Typed, SgTypes, SyncLoad
  <2> QED
    BY <2>1, <2>2, <2>3 DEF Typed
<1>28. ASSUME NEW x \in Sides, ConfigureLoad(x) PROVE Typed'
  BY <1>28 DEF Typed, ThreadTypes, WordTypes, SgTypes, ConfigureLoad
<1>29. ASSUME NEW x \in Sides, ConfigureStore(x) PROVE Typed'
  <2>1. ThreadTypes'
    <3>1. /\ blocking' = [blocking EXCEPT ![x] = "blocking" \in creg[x]]
          /\ abort' = [abort EXCEPT ![x] = "abort" \in creg[x]]
          /\ UNCHANGED <<next, wpc, wpkt, spc, spkt, apc, held, gets>>
      BY <1>29 DEF ConfigureStore
    <3>2. blocking' \in [Sides -> BOOLEAN] /\ abort' \in [Sides -> BOOLEAN]
      BY <3>1 DEF Typed, ThreadTypes
    <3> QED
      BY <3>1, <3>2 DEF Typed, ThreadTypes
  <2>2. WordTypes' /\ SgTypes'
    BY <1>29 DEF Typed, WordTypes, SgTypes, ConfigureStore
  <2> QED
    BY <2>1, <2>2 DEF Typed
<1> QED
  BY <1>1, <1>2, <1>3, <1>4, <1>5, <1>6, <1>7, <1>8, <1>9, <1>10, <1>11, <1>12, <1>13, <1>14, <1>15, <1>16, <1>17, <1>18, <1>19, <1>20, <1>21, <1>22, <1>23, <1>24, <1>25, <1>26, <1>27, <1>28, <1>29
  DEF Next, WorkThread, SendThread, ReceiveThread, SyncThread, Aborter, Configurer

-----------------------------------------------------------------------------
(* Steps of the flag words' updates that touch nothing else, and what is   *)
(* overwritten.                                                            *)

Silent == \E x \in Sides : SyncLoad(x) \/ Configurer(x)

(* What they leave alone.                                                   *)
core == <<sem, flags, committed, sgLen, sgList, sgIdx, used, nxt, nextElem,
          elem, cnt, next, wpc, wpkt, spc, spkt, apc, held, gets, done>>

\* Loads, and the store of a socket's flags.
LEMMA SilentFrame == Silent => UNCHANGED core
BY DEF Silent, Configurer, SyncLoad, ConfigureLoad, ConfigureStore, core, sgvars,
       syncvars, hist

\* A store that overwrites nothing updates the word as it is.
LEMMA StoreInPlace ==
    ASSUME NEW p, NEW reg, NEW word, Store(p, reg, word), Intact'
    PROVE  reg = flags[p] /\ flags' = [flags EXCEPT ![p] = word]
BY DEF Store, Intact

\* So does a store to the flags of a socket.
LEMMA SocketStoreInPlace ==
    ASSUME Typed, NEW x \in Sides, ConfigureStore(x), "socket" \notin overwritten'
    PROVE  UNCHANGED <<blocking, abort>>
<1>1. Word(x) = creg[x]
  BY DEF ConfigureStore
<1>2. blocking[x] \in BOOLEAN /\ abort[x] \in BOOLEAN
  BY DEF Typed, ThreadTypes
<1>3. ("blocking" \in Word(x)) = blocking[x] /\ ("abort" \in Word(x)) = abort[x]
  BY <1>2 DEF Word
<1>4. /\ blocking' = [blocking EXCEPT ![x] = blocking[x]]
      /\ abort' = [abort EXCEPT ![x] = abort[x]]
  BY <1>1, <1>3 DEF ConfigureStore
<1> QED
  BY <1>4 DEF Typed, ThreadTypes

(* The rest of the types, and a word once overwritten stays overwritten.    *)
CfgTypes ==
    /\ cpc \in [Sides -> {"idle", "store"}]
    /\ creg \in [Sides -> SUBSET {"blocking", "abort"}]
    /\ overwritten \subseteq {"packet", "socket"}

\* Every step keeps them.
LEMMA CfgSteps ==
    ASSUME [Next]_vars
    PROVE  /\ overwritten \subseteq overwritten'
           /\ CfgTypes => CfgTypes'
<1> DEFINE Good == overwritten \subseteq overwritten' /\ (CfgTypes => CfgTypes')
<1> USE DEF cfgvars
<1>1. ASSUME UNCHANGED <<cpc, creg, overwritten>> PROVE Good
  BY <1>1 DEF CfgTypes
<1>2. ASSUME NEW p, NEW reg, NEW word, Store(p, reg, word), UNCHANGED <<cpc, creg>>
      PROVE  Good
  BY <1>2 DEF Store, CfgTypes
<1>3. CASE UNCHANGED vars
  BY <1>1, <1>3 DEF vars
<1>4. ASSUME NEW x \in Sides, WorkThread(x) PROVE Good
  BY <1>1, <1>4
  DEF WorkThread, GetTry, GetBlock, GetRecheck, GetDown, GetUnblock, GetTake, Up
<1>5. ASSUME NEW x \in Sides, SyncThread(x) PROVE Good
  <2>1. CASE SyncStore(x)
    BY <1>2, <2>1 DEF SyncStore
  <2>2. CASE ~SyncStore(x)
    BY <1>1, <1>5, <2>2
    DEF SyncThread, ReceiveCommited, ReceiveWait, SyncReceive, HandleCommited,
        HandleWait, SyncLoad
  <2> QED
    BY <2>1, <2>2
<1>6. ASSUME NEW x \in Sides, Aborter(x) PROVE Good
  BY <1>1, <1>6 DEF Aborter, AbortSet, AbortTest, AbortJump
<1>7. ASSUME NEW x \in Sides, ConfigureLoad(x) PROVE Good
  BY <1>7 DEF ConfigureLoad, CfgTypes, Word
<1>8. ASSUME NEW x \in Sides, ConfigureStore(x) PROVE Good
  BY <1>8 DEF ConfigureStore, CfgTypes
<1>9. CASE SendThread
  <2>1. CASE GetClear
    BY <1>2, <2>1 DEF GetClear
  <2>2. CASE CommitCallback
    BY <1>2, <2>2 DEF CommitCallback
  <2>3. CASE ~GetClear /\ ~CommitCallback
    BY <1>1, <1>9, <2>3 DEF SendThread, Search, AddData, CommitSend
  <2> QED
    BY <2>1, <2>2, <2>3
<1>10. CASE ReceiveThread
  BY <1>1, <1>10 DEF ReceiveThread, Uncount, FreeElem, CommitReceive
<1>11. CASE ReceiveRelease \/ CallbackReturn
  BY <1>1, <1>11 DEF ReceiveRelease, SyncReceive, CallbackReturn
<1> QED
  BY <1>3, <1>4, <1>5, <1>6, <1>7, <1>8, <1>9, <1>10, <1>11 DEF Next, Configurer

-----------------------------------------------------------------------------
(* The abort protocol.                                                     *)

InBlock == {"recheck", "down", "call", "asleep", "unblock"}
Blocked == {"down", "call", "asleep"}

(* A work thread announces that it may block before it looks at the abort   *)
(* flag, and the abort flag is set before the announcement is looked at.    *)
AbortInv ==
    \A x \in Sides :
       /\ apc[x] = "idle" <=> ~abort[x]
       /\ wpc[x] \in InBlock => blocking[x]
       /\ apc[x] = "finished" => wpc[x] \notin Blocked

\* Steps that do not take part in it.
LEMMA AbortFrame ==
    ASSUME AbortInv, UNCHANGED <<abort, blocking, apc>>,
           \A z \in Sides : /\ wpc'[z] \in InBlock => wpc[z] \in InBlock
                            /\ wpc'[z] \in Blocked => wpc[z] \in Blocked
    PROVE  AbortInv'
BY DEF AbortInv

\* Every step keeps the abort protocol, but a store that overwrites socket flags.
LEMMA AbortNext ==
    ASSUME Typed, AbortInv, [Next]_vars, "socket" \notin overwritten'
    PROVE  AbortInv'
<1> USE DEF sgvars, syncvars, hist
<1>0. wpc \in [Sides -> WorkerPcs] /\ DOMAIN wpc = Sides
  BY DEF Typed, ThreadTypes
<1>1. ASSUME NEW x \in Sides, GetTry(x) PROVE AbortInv'
  <2>1. \A z \in Sides : /\ wpc'[z] \in InBlock => wpc[z] \in InBlock
                         /\ wpc'[z] \in Blocked => wpc[z] \in Blocked
    BY <1>0, <1>1, Places DEF GetTry, Enter, InBlock, Blocked
  <2>2. UNCHANGED <<abort, blocking, apc>>
    BY <1>1 DEF GetTry
  <2> QED
    BY <2>1, <2>2, AbortFrame
<1>2. ASSUME NEW x \in Sides, GetDown(x) PROVE AbortInv'
  <2>1. \A z \in Sides : /\ wpc'[z] \in InBlock => wpc[z] \in InBlock
                         /\ wpc'[z] \in Blocked => wpc[z] \in Blocked
    BY <1>0, <1>2, Places DEF GetDown, Goto, Enter, InBlock, Blocked
  <2>2. UNCHANGED <<abort, blocking, apc>>
    BY <1>2 DEF GetDown
  <2> QED
    BY <2>1, <2>2, AbortFrame
<1>3. ASSUME NEW x \in Sides, GetTake(x) PROVE AbortInv'
  <2>1. \A z \in Sides : /\ wpc'[z] \in InBlock => wpc[z] \in InBlock
                         /\ wpc'[z] \in Blocked => wpc[z] \in Blocked
    BY <1>0, <1>3, Places DEF GetTake, Goto, Enter, InBlock, Blocked
  <2>2. UNCHANGED <<abort, blocking, apc>>
    BY <1>3 DEF GetTake
  <2> QED
    BY <2>1, <2>2, AbortFrame
<1>4. ASSUME NEW x \in Sides, Up(x) PROVE AbortInv'
  <2>1. \A z \in Sides : /\ wpc'[z] \in InBlock => wpc[z] \in InBlock
                         /\ wpc'[z] \in Blocked => wpc[z] \in Blocked
    BY <1>0, <1>4, Places DEF Up, Goto, Enter, InBlock, Blocked
  <2>2. UNCHANGED <<abort, blocking, apc>>
    BY <1>4 DEF Up
  <2> QED
    BY <2>1, <2>2, AbortFrame
<1>5. ASSUME GetClear PROVE AbortInv'
  <2>1. \A z \in Sides : /\ wpc'[z] \in InBlock => wpc[z] \in InBlock
                         /\ wpc'[z] \in Blocked => wpc[z] \in Blocked
    BY <1>0, <1>5, Places DEF GetClear, Goto, Enter, InBlock, Blocked
  <2>2. UNCHANGED <<abort, blocking, apc>>
    BY <1>5 DEF GetClear
  <2> QED
    BY <2>1, <2>2, AbortFrame
<1>6. ASSUME Search PROVE AbortInv'
  <2>1. \A z \in Sides : /\ wpc'[z] \in InBlock => wpc[z] \in InBlock
                         /\ wpc'[z] \in Blocked => wpc[z] \in Blocked
    BY <1>0, <1>6, Places DEF Search, Goto, Enter, InBlock, Blocked
  <2>2. UNCHANGED <<abort, blocking, apc>>
    BY <1>6 DEF Search
  <2> QED
    BY <2>1, <2>2, AbortFrame
<1>7. ASSUME CommitCallback PROVE AbortInv'
  <2>1. \A z \in Sides : /\ wpc'[z] \in InBlock => wpc[z] \in InBlock
                         /\ wpc'[z] \in Blocked => wpc[z] \in Blocked
    BY <1>0, <1>7, Places DEF CommitCallback, Goto, Enter, InBlock, Blocked
  <2>2. UNCHANGED <<abort, blocking, apc>>
    BY <1>7 DEF CommitCallback
  <2> QED
    BY <2>1, <2>2, AbortFrame
<1>8. ASSUME NEW p \in Packets, AddData(p) PROVE AbortInv'
  <2>1. \A z \in Sides : /\ wpc'[z] \in InBlock => wpc[z] \in InBlock
                         /\ wpc'[z] \in Blocked => wpc[z] \in Blocked
    BY <1>0, <1>8, Places DEF AddData, Enter, InBlock, Blocked
  <2>2. UNCHANGED <<abort, blocking, apc>>
    BY <1>8 DEF AddData
  <2> QED
    BY <2>1, <2>2, AbortFrame
<1>9. ASSUME NEW p \in Packets, CommitSend(p) PROVE AbortInv'
  <2>1. \A z \in Sides : /\ wpc'[z] \in InBlock => wpc[z] \in InBlock
                         /\ wpc'[z] \in Blocked => wpc[z] \in Blocked
    BY <1>0, <1>9, Places DEF CommitSend, Enter, InBlock, Blocked
  <2>2. UNCHANGED <<abort, blocking, apc>>
    BY <1>9 DEF CommitSend
  <2> QED
    BY <2>1, <2>2, AbortFrame
<1>10. ASSUME Uncount PROVE AbortInv'
  <2>1. \A z \in Sides : /\ wpc'[z] \in InBlock => wpc[z] \in InBlock
                         /\ wpc'[z] \in Blocked => wpc[z] \in Blocked
    BY <1>0, <1>10, Places DEF Uncount, Goto, Enter, InBlock, Blocked
  <2>2. UNCHANGED <<abort, blocking, apc>>
    BY <1>10 DEF Uncount
  <2> QED
    BY <2>1, <2>2, AbortFrame
<1>11. ASSUME FreeElem PROVE AbortInv'
  <2>1. \A z \in Sides : /\ wpc'[z] \in InBlock => wpc[z] \in InBlock
                         /\ wpc'[z] \in Blocked => wpc[z] \in Blocked
    BY <1>0, <1>11, Places DEF FreeElem, Goto, Enter, InBlock, Blocked
  <2>2. UNCHANGED <<abort, blocking, apc>>
    BY <1>11 DEF FreeElem
  <2> QED
    BY <2>1, <2>2, AbortFrame
<1>12. ASSUME NEW p \in Packets, CommitReceive(p) PROVE AbortInv'
  <2>1. \A z \in Sides : /\ wpc'[z] \in InBlock => wpc[z] \in InBlock
                         /\ wpc'[z] \in Blocked => wpc[z] \in Blocked
    BY <1>0, <1>12, Places DEF CommitReceive, Enter, InBlock, Blocked
  <2>2. UNCHANGED <<abort, blocking, apc>>
    BY <1>12 DEF CommitReceive
  <2> QED
    BY <2>1, <2>2, AbortFrame
<1>13. ASSUME NEW x \in Sides, ReceiveCommited(x) PROVE AbortInv'
  <2>1. \A z \in Sides : /\ wpc'[z] \in InBlock => wpc[z] \in InBlock
                         /\ wpc'[z] \in Blocked => wpc[z] \in Blocked
    BY <1>0, <1>13, Places DEF ReceiveCommited, SyncReceive, Goto, Enter, InBlock, Blocked
  <2>2. UNCHANGED <<abort, blocking, apc>>
    BY <1>13 DEF ReceiveCommited, SyncReceive
  <2> QED
    BY <2>1, <2>2, AbortFrame
<1>14. ASSUME NEW x \in Sides, ReceiveWait(x) PROVE AbortInv'
  <2>1. \A z \in Sides : /\ wpc'[z] \in InBlock => wpc[z] \in InBlock
                         /\ wpc'[z] \in Blocked => wpc[z] \in Blocked
    BY <1>0, <1>14, Places DEF ReceiveWait, SyncReceive, Goto, Enter, InBlock, Blocked
  <2>2. UNCHANGED <<abort, blocking, apc>>
    BY <1>14 DEF ReceiveWait, SyncReceive
  <2> QED
    BY <2>1, <2>2, AbortFrame
<1>15. ASSUME ReceiveRelease PROVE AbortInv'
  <2>1. \A z \in Sides : /\ wpc'[z] \in InBlock => wpc[z] \in InBlock
                         /\ wpc'[z] \in Blocked => wpc[z] \in Blocked
    BY <1>0, <1>15, Places DEF ReceiveRelease, SyncReceive, Goto, Enter, InBlock, Blocked
  <2>2. UNCHANGED <<abort, blocking, apc>>
    BY <1>15 DEF ReceiveRelease, SyncReceive
  <2> QED
    BY <2>1, <2>2, AbortFrame
<1>16. ASSUME NEW x \in Sides, HandleCommited(x) PROVE AbortInv'
  <2>1. \A z \in Sides : /\ wpc'[z] \in InBlock => wpc[z] \in InBlock
                         /\ wpc'[z] \in Blocked => wpc[z] \in Blocked
    BY <1>0, <1>16, Places DEF HandleCommited, Wakeup, InBlock, Blocked
  <2>2. UNCHANGED <<abort, blocking, apc>>
    BY <1>16 DEF HandleCommited
  <2> QED
    BY <2>1, <2>2, AbortFrame
<1>17. ASSUME NEW x \in Sides, HandleWait(x) PROVE AbortInv'
  <2>1. \A z \in Sides : /\ wpc'[z] \in InBlock => wpc[z] \in InBlock
                         /\ wpc'[z] \in Blocked => wpc[z] \in Blocked
    BY <1>0, <1>17, Places DEF HandleWait, Wakeup, InBlock, Blocked
  <2>2. UNCHANGED <<abort, blocking, apc>>
    BY <1>17 DEF HandleWait
  <2> QED
    BY <2>1, <2>2, AbortFrame
<1>18. ASSUME NEW x \in Sides, SyncStore(x) PROVE AbortInv'
  <2>1. \A z \in Sides : /\ wpc'[z] \in InBlock => wpc[z] \in InBlock
                         /\ wpc'[z] \in Blocked => wpc[z] \in Blocked
    BY <1>0, <1>18, Places DEF SyncStore, InBlock, Blocked
  <2>2. UNCHANGED <<abort, blocking, apc>>
    BY <1>18 DEF SyncStore
  <2> QED
    BY <2>1, <2>2, AbortFrame
<1>19. ASSUME CallbackReturn PROVE AbortInv'
  <2>1. \A z \in Sides : /\ wpc'[z] \in InBlock => wpc[z] \in InBlock
                         /\ wpc'[z] \in Blocked => wpc[z] \in Blocked
    BY <1>0, <1>19, Places DEF CallbackReturn, InBlock, Blocked
  <2>2. UNCHANGED <<abort, blocking, apc>>
    BY <1>19 DEF CallbackReturn
  <2> QED
    BY <2>1, <2>2, AbortFrame
<1>20. ASSUME NEW x \in Sides, GetBlock(x) PROVE AbortInv'
  BY <1>20 DEF GetBlock, Goto, Enter, AbortInv, InBlock, Blocked, Typed, ThreadTypes
<1>21. ASSUME NEW x \in Sides, GetRecheck(x) PROVE AbortInv'
  BY <1>21 DEF GetRecheck, Eeos, Goto, Enter, AbortInv, InBlock, Blocked, Typed, ThreadTypes
<1>22. ASSUME NEW x \in Sides, GetUnblock(x) PROVE AbortInv'
  BY <1>22 DEF GetUnblock, Goto, Enter, AbortInv, InBlock, Blocked, Typed, ThreadTypes
<1>23. ASSUME NEW x \in Sides, AbortSet(x) PROVE AbortInv'
  BY <1>23 DEF AbortSet, AbortInv, InBlock, Blocked, Typed, ThreadTypes
<1>24. ASSUME NEW x \in Sides, AbortTest(x) PROVE AbortInv'
  BY <1>24 DEF AbortTest, AbortInv, InBlock, Blocked, Typed, ThreadTypes
<1>25. ASSUME NEW x \in Sides, AbortJump(x) PROVE AbortInv'
  BY <1>25 DEF AbortJump, Eeos, InGet, Goto, Enter, AbortInv, InBlock, Blocked, Typed, ThreadTypes
<1>26. CASE UNCHANGED vars
  BY <1>26 DEF AbortInv, vars
<1>27. ASSUME NEW x \in Sides, SyncLoad(x) \/ Configurer(x) PROVE AbortInv'
  <2>1. UNCHANGED <<wpc, apc>>
    BY <1>27, SilentFrame DEF Silent, core
  <2>2. UNCHANGED <<blocking, abort>>
    BY <1>27, SocketStoreInPlace DEF SyncLoad, Configurer, ConfigureLoad
  <2> QED
    BY <2>1, <2>2 DEF AbortInv
<1> QED
  BY <1>1, <1>2, <1>3, <1>4, <1>5, <1>6, <1>7, <1>8, <1>9, <1>10, <1>11, <1>12, <1>13, <1>14, <1>15, <1>16, <1>17, <1>18, <1>19, <1>20, <1>21, <1>22, <1>23, <1>24, <1>25, <1>26, <1>27
  DEF Next, WorkThread, SendThread, ReceiveThread, SyncThread, Aborter

-----------------------------------------------------------------------------
(* Whose packet it is, and who wakes whom.                                 *)

Working == {"unblock", "got", "clear", "callback", "release", "uncount",
            "free", "up"}

Waits(x, p) == wpc[x] \in {"call", "asleep"} /\ wpkt[x] = p
Works(x, p) == wpc[x] \in Working /\ wpkt[x] = p

(* Side x owns packet p, or it has it: it owns it, or its counter offers it, *)
(* or a unit was passed to its waiting work thread.                          *)
Own(x, p) == p \in held[x] \/ Works(x, p)
Has(x, p) == Own(x, p) \/ sem[x][p] = 1 \/ (Waits(x, p) /\ sem[x][p] = 0)

(* A packet is on one side at a time.  A negative counter is a waiting work  *)
(* thread's, unless dsi_packet_get_abort took the thread away.               *)
Unit(x, p) ==
    /\ sem[x][p] \in -1 .. 1
    /\ Own(x, p) => sem[x][p] <= 0 /\ ~(Waits(x, p) /\ sem[x][p] = 0)
    /\ Waits(x, p) => sem[x][p] <= 0
    /\ sem[x][p] = -1 /\ apc[x] # "finished" => Waits(x, p)
    /\ Works(x, p) => p \notin held[x]

UnitInv ==
    /\ \A p \in Packets : ~(Has("S", p) /\ Has("R", p))
    /\ \A x \in Sides, p \in Packets : Unit(x, p)

(* The messages on their way to a waiting work thread y: its waker is the    *)
(* other side.  Does: where the waker's synchronisation thread is.           *)
Fires(x, p)    == wpc[x] = "notify" /\ wpkt[x] = p
Does(x, pc, p) == spc[x] = pc /\ spkt[x] = p
Marked(y, p)   == WAITING(y) \in flags[p]
Pended(y, p)   == PENDING(y) \in flags[p]
Commands == {"commited", "wait", "clearWaiting", "setWaiting", "clearPending",
             "setPending"}

(* The marks as the waker will find them once its store is done.             *)
Mark(y, p) == Marked(y, p) /\ ~Does(Peer(y), "clearWaiting", p)
Pend(y, p) == Pended(y, p) /\ ~Does(Peer(y), "clearPending", p)

Told(y, p) ==
    \/ Fires(Peer(y), p)
    \/ Does(Peer(y), "commited", p)
    \/ Does(Peer(y), "setPending", p)
    \/ Pend(y, p)

Asleep(y, p) == wpc[y] = "asleep" /\ wpkt[y] = p

(* A unit passed to a waiting work thread is told of in exactly one place,   *)
(* and a sleeping work thread is known to its waker, in exactly one place.   *)
Sync(y, p) ==
    /\ Told(y, p) => Waits(y, p) /\ sem[y][p] = 0
    /\ Waits(y, p) /\ sem[y][p] = 0 => Told(y, p) \/ wpc[Peer(y)] = "lost"
    /\ Asleep(y, p) =>
          \/ Does(Peer(y), "wait", p)
          \/ Does(Peer(y), "setWaiting", p)
          \/ Mark(y, p)
    /\ Does(Peer(y), "wait", p) \/ Does(Peer(y), "setWaiting", p) => Asleep(y, p)
    /\ Mark(y, p) => Asleep(y, p) /\ ~Pended(y, p)
    /\ Fires(Peer(y), p) => /\ ~Does(Peer(y), "commited", p)
                            /\ ~Does(Peer(y), "setPending", p)
                            /\ ~Pend(y, p)
    /\ Pend(y, p) => ~Does(Peer(y), "commited", p) /\ ~Does(Peer(y), "setPending", p)
    /\ Does(Peer(y), "setWaiting", p) => ~Pended(y, p)
    /\ Does(Peer(y), "setPending", p) => ~Marked(y, p)

SyncInv ==
    \A y \in Sides : apc[y] # "finished" => \A p \in Packets : Sync(y, p)

(* What a step leaves alone.                                                *)
SameMarks ==
    \A y \in Sides, p \in Packets :
       (Marked(y, p)' <=> Marked(y, p)) /\ (Pended(y, p)' <=> Pended(y, p))
SameSync ==
    \A x \in Sides, c \in Commands, p \in Packets :
       Does(x, c, p)' <=> Does(x, c, p)
SameWorker(x) ==
    wpc'[x] = wpc[x] /\ wpkt'[x] = wpkt[x] /\ held'[x] = held[x]

(* No side gets what it had not.                                            *)
Shrinks == \A x \in Sides, p \in Packets : Has(x, p)' => Has(x, p)

(* Side x passes the packet it works on to the other side.                  *)
Passed(x) ==
    \A p \in Packets :
       /\ Has(x, p)' => Has(x, p) /\ p # wpkt[x]
       /\ Has(Peer(x), p)' => Has(Peer(x), p) \/ p = wpkt[x]

Apart == {"call", "asleep", "notify", "lost"}

\* A step of a work thread that takes no packet and passes none on.
LEMMA WorkerMoves ==
    ASSUME Typed, UnitInv, SyncInv, NEW z \in Sides,
           UNCHANGED <<sem, apc>>, SameMarks, SameSync, SameWorker(Peer(z)),
           (wpc[z] \notin Apart /\ wpc'[z] \notin Apart) \/ SameWorker(z),
           \A p \in Packets : Own(z, p)' => Own(z, p),
           \A p \in Packets : Works(z, p)' => p \notin held'[z]
    PROVE  UnitInv' /\ SyncInv' /\ Shrinks
<1>1. \A x \in Sides : x = z \/ x = Peer(z)
  BY DEF Sides, Peer
<1>2. \A x \in Sides, p \in Packets : Waits(x, p)' <=> Waits(x, p)
  BY <1>1 DEF Waits, SameWorker, Apart
<1>3. \A x \in Sides, p \in Packets : Own(x, p)' => Own(x, p)
  BY <1>1 DEF Own, Works, SameWorker
<1>4. \A x \in Sides, p \in Packets : Has(x, p)' => Has(x, p)
  BY <1>2, <1>3 DEF Has
<1>5. \A x \in Sides, p \in Packets : Works(x, p)' => p \notin held'[x]
  BY <1>1 DEF UnitInv, Unit, Works, SameWorker
<1>6. UnitInv'
  BY <1>2, <1>3, <1>4, <1>5, Places DEF UnitInv, Unit
<1>7. \A x \in Sides, p \in Packets : Asleep(x, p)' <=> Asleep(x, p)
  BY <1>1 DEF Asleep, SameWorker, Apart
<1>8. \A x \in Sides, p \in Packets : Fires(x, p)' <=> Fires(x, p)
  BY <1>1 DEF Fires, SameWorker, Apart
<1>9. \A x \in Sides : wpc[x] = "lost" => wpc'[x] = "lost"
  BY <1>1 DEF SameWorker, Apart
<1>10. ASSUME NEW y \in Sides, NEW p \in Packets, Sync(y, p) PROVE Sync(y, p)'
  <2>1. \A c \in Commands : Does(Peer(y), c, p)' <=> Does(Peer(y), c, p)
    BY Places DEF SameSync
  <2>2. /\ Marked(y, p)' <=> Marked(y, p)
        /\ Pended(y, p)' <=> Pended(y, p)
    BY DEF SameMarks
  <2>3. Mark(y, p)' <=> Mark(y, p)
    BY <2>1, <2>2 DEF Mark, Commands
  <2>4. Pend(y, p)' <=> Pend(y, p)
    BY <2>1, <2>2 DEF Pend, Commands
  <2>5. Told(y, p)' <=> Told(y, p)
    BY <2>1, <2>4, <1>8, Places DEF Told, Commands
  <2> QED
    BY <1>10, <2>1, <2>2, <2>3, <2>4, <2>5, <1>2, <1>7, <1>8, <1>9, Places
    DEF Sync, Commands
<1>11. SyncInv'
  BY <1>10 DEF SyncInv
<1> QED
  BY <1>4, <1>6, <1>11 DEF Shrinks

\* Flags other than the release callback's keep.
LEMMA MarksKept ==
    ASSUME Typed, NEW q \in Packets, NEW word,
           flags' = [flags EXCEPT ![q] = word],
           word \in {flags[q] \ {REL}, flags[q] \cup {REL}}
    PROVE  SameMarks
<1>1. \A y \in Sides : WAITING(y) # REL /\ PENDING(y) # REL
  BY DEF WAITING, PENDING, REL
<1>2. ASSUME NEW y \in Sides, NEW p \in Packets
      PROVE  /\ WAITING(y) \in flags'[p] <=> WAITING(y) \in flags[p]
             /\ PENDING(y) \in flags'[p] <=> PENDING(y) \in flags[p]
  BY <1>1 DEF Typed, WordTypes
<1> QED
  BY <1>2 DEF SameMarks, Marked, Pended, WAITING, PENDING

\* The steps of the work threads between taking a packet and passing it on,
\* and of the release callback.
LEMMA WorkerSteps ==
    ASSUME Typed, AbortInv, UnitInv, SyncInv, Intact',
           \/ \E x \in Sides : \/ GetBlock(x) \/ GetRecheck(x) \/ GetUnblock(x)
                               \/ GetTake(x)
           \/ SendThread \/ ReceiveThread \/ ReceiveRelease \/ CallbackReturn
    PROVE  UnitInv' /\ SyncInv' /\ Shrinks
<1> USE DEF sgvars, syncvars, hist
<1> DEFINE Good == UnitInv' /\ SyncInv' /\ Shrinks
<1>0. /\ wpc \in [Sides -> WorkerPcs] /\ wpkt \in [Sides -> Packets]
      /\ held \in [Sides -> SUBSET Packets]
      /\ \A x \in Sides, p \in Packets : Works(x, p) => p \notin held[x]
  BY DEF Typed, ThreadTypes, UnitInv, Unit
<1>1. ASSUME NEW x \in Sides, GetBlock(x) PROVE Good
  <2>1. UNCHANGED <<sem, apc>>
    BY <1>1 DEF GetBlock
  <2>2. SameMarks
    BY <1>1 DEF GetBlock, SameMarks, Marked, Pended
  <2>3. SameSync
    BY <1>1 DEF GetBlock, SameSync, Does
  <2>4. SameWorker(Peer(x))
    BY <1>0, <1>1, Places DEF GetBlock, Goto, Enter, SameWorker, Peer
  <2>5. wpc[x] \notin Apart /\ wpc'[x] \notin Apart
    BY <1>0, <1>1, Places DEF GetBlock, Goto, Enter, Apart
  <2>6. \A p \in Packets : Own(x, p)' => Own(x, p)
    BY <1>0, <1>1, Places DEF GetBlock, Goto, Enter, Own, Works, Working
  <2>7. \A p \in Packets : Works(x, p)' => p \notin held'[x]
    BY <1>0, <1>1, Places DEF GetBlock, Goto, Enter, Works, Working
  <2> QED
    BY <2>1, <2>2, <2>3, <2>4, <2>5, <2>6, <2>7, WorkerMoves, Places
<1>2. ASSUME NEW x \in Sides, GetRecheck(x) PROVE Good
  <2>1. UNCHANGED <<sem, apc>>
    BY <1>2 DEF GetRecheck
  <2>2. SameMarks
    BY <1>2 DEF GetRecheck, SameMarks, Marked, Pended
  <2>3. SameSync
    BY <1>2 DEF GetRecheck, SameSync, Does
  <2>4. SameWorker(Peer(x))
    BY <1>0, <1>2, Places DEF GetRecheck, Eeos, Goto, Enter, SameWorker, Peer
  <2>5. wpc[x] \notin Apart /\ wpc'[x] \notin Apart
    BY <1>0, <1>2, Places DEF GetRecheck, Eeos, Goto, Enter, Apart
  <2>6. \A p \in Packets : Own(x, p)' => Own(x, p)
    BY <1>0, <1>2, Places DEF GetRecheck, Eeos, Goto, Enter, Own, Works, Working
  <2>7. \A p \in Packets : Works(x, p)' => p \notin held'[x]
    BY <1>0, <1>2, Places DEF GetRecheck, Eeos, Goto, Enter, Works, Working
  <2> QED
    BY <2>1, <2>2, <2>3, <2>4, <2>5, <2>6, <2>7, WorkerMoves, Places
<1>3. ASSUME NEW x \in Sides, GetUnblock(x) PROVE Good
  <2>1. UNCHANGED <<sem, apc>>
    BY <1>3 DEF GetUnblock
  <2>2. SameMarks
    BY <1>3 DEF GetUnblock, SameMarks, Marked, Pended
  <2>3. SameSync
    BY <1>3 DEF GetUnblock, SameSync, Does
  <2>4. SameWorker(Peer(x))
    BY <1>0, <1>3, Places DEF GetUnblock, Goto, Enter, SameWorker, Peer
  <2>5. wpc[x] \notin Apart /\ wpc'[x] \notin Apart
    BY <1>0, <1>3, Places DEF GetUnblock, Goto, Enter, Apart
  <2>6. \A p \in Packets : Own(x, p)' => Own(x, p)
    BY <1>0, <1>3, Places DEF GetUnblock, Goto, Enter, Own, Works, Working
  <2>7. \A p \in Packets : Works(x, p)' => p \notin held'[x]
    BY <1>0, <1>3, Places DEF GetUnblock, Goto, Enter, Works, Working
  <2> QED
    BY <2>1, <2>2, <2>3, <2>4, <2>5, <2>6, <2>7, WorkerMoves, Places
<1>4. ASSUME NEW x \in Sides, GetTake(x) PROVE Good
  <2>1. UNCHANGED <<sem, apc>>
    BY <1>4 DEF GetTake
  <2>2. SameMarks
    BY <1>4 DEF GetTake, SameMarks, Marked, Pended
  <2>3. SameSync
    BY <1>4 DEF GetTake, SameSync, Does
  <2>4. SameWorker(Peer(x))
    BY <1>0, <1>4, Places DEF GetTake, Goto, Enter, SameWorker, Peer
  <2>5. wpc[x] \notin Apart /\ wpc'[x] \notin Apart
    BY <1>0, <1>4, Places DEF GetTake, Goto, Enter, Apart
  <2>6. \A p \in Packets : Own(x, p)' => Own(x, p)
    BY <1>0, <1>4, Places DEF GetTake, Goto, Enter, Own, Works, Working
  <2>7. \A p \in Packets : Works(x, p)' => p \notin held'[x]
    BY <1>0, <1>4, Places DEF GetTake, Goto, Enter, Works, Working
  <2> QED
    BY <2>1, <2>2, <2>3, <2>4, <2>5, <2>6, <2>7, WorkerMoves, Places
<1>5. ASSUME NEW p \in Packets, AddData(p) PROVE Good
  <2>1. UNCHANGED <<sem, apc>>
    BY <1>5 DEF AddData
  <2>2. SameMarks
    BY <1>5 DEF AddData, SameMarks, Marked, Pended
  <2>3. SameSync
    BY <1>5 DEF AddData, SameSync, Does
  <2>4. SameWorker(Peer("S"))
    BY <1>0, <1>5, Places DEF AddData, Enter, SameWorker, Peer
  <2>5. wpc["S"] \notin Apart /\ wpc'["S"] \notin Apart
    BY <1>0, <1>5, Places DEF AddData, Enter, Apart
  <2>6. \A q \in Packets : Own("S", q)' => Own("S", q)
    BY <1>0, <1>5, Places DEF AddData, Enter, Own, Works, Working
  <2>7. \A q \in Packets : Works("S", q)' => q \notin held'["S"]
    BY <1>0, <1>5, Places DEF AddData, Enter, Works, Working
  <2> QED
    BY <2>1, <2>2, <2>3, <2>4, <2>5, <2>6, <2>7, WorkerMoves, Places
<1>6. ASSUME Search PROVE Good
  <2>1. UNCHANGED <<sem, apc>>
    BY <1>6 DEF Search
  <2>2. SameMarks
    BY <1>6 DEF Search, SameMarks, Marked, Pended
  <2>3. SameSync
    BY <1>6 DEF Search, SameSync, Does
  <2>4. SameWorker(Peer("S"))
    BY <1>0, <1>6, Places DEF Search, Goto, Enter, SameWorker, Peer
  <2>5. wpc["S"] \notin Apart /\ wpc'["S"] \notin Apart
    BY <1>0, <1>6, Places DEF Search, Goto, Enter, Apart
  <2>6. \A p \in Packets : Own("S", p)' => Own("S", p)
    BY <1>0, <1>6, Places DEF Search, Goto, Enter, Own, Works, Working
  <2>7. \A p \in Packets : Works("S", p)' => p \notin held'["S"]
    BY <1>0, <1>6, Places DEF Search, Goto, Enter, Works, Working
  <2> QED
    BY <2>1, <2>2, <2>3, <2>4, <2>5, <2>6, <2>7, WorkerMoves, Places
<1>7. ASSUME NEW p \in Packets, CommitSend(p) PROVE Good
  <2>1. UNCHANGED <<sem, apc>>
    BY <1>7 DEF CommitSend
  <2>2. SameMarks
    BY <1>7 DEF CommitSend, SameMarks, Marked, Pended
  <2>3. SameSync
    BY <1>7 DEF CommitSend, SameSync, Does
  <2>4. SameWorker(Peer("S"))
    BY <1>0, <1>7, Places DEF CommitSend, Enter, SameWorker, Peer
  <2>5. wpc["S"] \notin Apart /\ wpc'["S"] \notin Apart
    BY <1>0, <1>7, Places DEF CommitSend, Enter, Apart
  <2>6. \A q \in Packets : Own("S", q)' => Own("S", q)
    BY <1>0, <1>7, Places DEF CommitSend, Enter, Own, Works, Working
  <2>7. \A q \in Packets : Works("S", q)' => q \notin held'["S"]
    BY <1>0, <1>7, Places DEF CommitSend, Enter, Works, Working
  <2> QED
    BY <2>1, <2>2, <2>3, <2>4, <2>5, <2>6, <2>7, WorkerMoves, Places
<1>8. ASSUME NEW p \in Packets, CommitReceive(p) PROVE Good
  <2>1. UNCHANGED <<sem, apc>>
    BY <1>8 DEF CommitReceive
  <2>2. SameMarks
    BY <1>8 DEF CommitReceive, SameMarks, Marked, Pended
  <2>3. SameSync
    BY <1>8 DEF CommitReceive, SameSync, Does
  <2>4. SameWorker(Peer("R"))
    BY <1>0, <1>8, Places DEF CommitReceive, Enter, SameWorker, Peer
  <2>5. wpc["R"] \notin Apart /\ wpc'["R"] \notin Apart
    BY <1>0, <1>8, Places DEF CommitReceive, Enter, Apart
  <2>6. \A q \in Packets : Own("R", q)' => Own("R", q)
    BY <1>0, <1>8, Places DEF CommitReceive, Enter, Own, Works, Working
  <2>7. \A q \in Packets : Works("R", q)' => q \notin held'["R"]
    BY <1>0, <1>8, Places DEF CommitReceive, Enter, Works, Working
  <2> QED
    BY <2>1, <2>2, <2>3, <2>4, <2>5, <2>6, <2>7, WorkerMoves, Places
<1>9. ASSUME Uncount PROVE Good
  <2>1. UNCHANGED <<sem, apc>>
    BY <1>9 DEF Uncount
  <2>2. SameMarks
    BY <1>9 DEF Uncount, SameMarks, Marked, Pended
  <2>3. SameSync
    BY <1>9 DEF Uncount, SameSync, Does
  <2>4. SameWorker(Peer("R"))
    BY <1>0, <1>9, Places DEF Uncount, Goto, Enter, SameWorker, Peer
  <2>5. wpc["R"] \notin Apart /\ wpc'["R"] \notin Apart
    BY <1>0, <1>9, Places DEF Uncount, Goto, Enter, Apart
  <2>6. \A p \in Packets : Own("R", p)' => Own("R", p)
    BY <1>0, <1>9, Places DEF Uncount, Goto, Enter, Own, Works, Working
  <2>7. \A p \in Packets : Works("R", p)' => p \notin held'["R"]
    BY <1>0, <1>9, Places DEF Uncount, Goto, Enter, Works, Working
  <2> QED
    BY <2>1, <2>2, <2>3, <2>4, <2>5, <2>6, <2>7, WorkerMoves, Places
<1>10. ASSUME FreeElem PROVE Good
  <2>1. UNCHANGED <<sem, apc>>
    BY <1>10 DEF FreeElem
  <2>2. SameMarks
    BY <1>10 DEF FreeElem, SameMarks, Marked, Pended
  <2>3. SameSync
    BY <1>10 DEF FreeElem, SameSync, Does
  <2>4. SameWorker(Peer("R"))
    BY <1>0, <1>10, Places DEF FreeElem, Goto, Enter, SameWorker, Peer
  <2>5. wpc["R"] \notin Apart /\ wpc'["R"] \notin Apart
    BY <1>0, <1>10, Places DEF FreeElem, Goto, Enter, Apart
  <2>6. \A p \in Packets : Own("R", p)' => Own("R", p)
    BY <1>0, <1>10, Places DEF FreeElem, Goto, Enter, Own, Works, Working
  <2>7. \A p \in Packets : Works("R", p)' => p \notin held'["R"]
    BY <1>0, <1>10, Places DEF FreeElem, Goto, Enter, Works, Working
  <2> QED
    BY <2>1, <2>2, <2>3, <2>4, <2>5, <2>6, <2>7, WorkerMoves, Places
<1>11. ASSUME GetClear PROVE Good
  <2>1. UNCHANGED <<sem, apc>>
    BY <1>11 DEF GetClear
  <2>2. SameMarks
    BY <1>0, <1>11, MarksKept, StoreInPlace, Places DEF GetClear
  <2>3. SameSync
    BY <1>11 DEF GetClear, SameSync, Does
  <2>4. SameWorker(Peer("S"))
    BY <1>0, <1>11, Places DEF GetClear, Goto, Enter, SameWorker, Peer
  <2>5. wpc["S"] \notin Apart /\ wpc'["S"] \notin Apart
    BY <1>0, <1>11, Places DEF GetClear, Goto, Enter, Apart
  <2>6. \A p \in Packets : Own("S", p)' => Own("S", p)
    BY <1>0, <1>11, Places DEF GetClear, Goto, Enter, Own, Works, Working
  <2>7. \A p \in Packets : Works("S", p)' => p \notin held'["S"]
    BY <1>0, <1>11, Places DEF GetClear, Goto, Enter, Works, Working
  <2> QED
    BY <2>1, <2>2, <2>3, <2>4, <2>5, <2>6, <2>7, WorkerMoves, Places
<1>12. ASSUME CommitCallback PROVE Good
  <2>1. UNCHANGED <<sem, apc>>
    BY <1>12 DEF CommitCallback
  <2>2. SameMarks
    BY <1>0, <1>12, MarksKept, StoreInPlace, Places DEF CommitCallback
  <2>3. SameSync
    BY <1>12 DEF CommitCallback, SameSync, Does
  <2>4. SameWorker(Peer("S"))
    BY <1>0, <1>12, Places DEF CommitCallback, Goto, Enter, SameWorker, Peer
  <2>5. wpc["S"] \notin Apart /\ wpc'["S"] \notin Apart
    BY <1>0, <1>12, Places DEF CommitCallback, Goto, Enter, Apart
  <2>6. \A p \in Packets : Own("S", p)' => Own("S", p)
    BY <1>0, <1>12, Places DEF CommitCallback, Goto, Enter, Own, Works, Working
  <2>7. \A p \in Packets : Works("S", p)' => p \notin held'["S"]
    BY <1>0, <1>12, Places DEF CommitCallback, Goto, Enter, Works, Working
  <2> QED
    BY <2>1, <2>2, <2>3, <2>4, <2>5, <2>6, <2>7, WorkerMoves, Places
<1>13. ASSUME ReceiveRelease PROVE Good
  <2>1. UNCHANGED <<sem, apc>>
    BY <1>13 DEF ReceiveRelease, SyncReceive
  <2>2. SameMarks
    BY <1>13 DEF ReceiveRelease, SyncReceive, SameMarks, Marked, Pended
  <2>3. SameSync
    BY <1>13, Places DEF ReceiveRelease, SyncReceive, SameSync, Does, Commands, Typed, ThreadTypes
  <2>4. SameWorker(Peer("R"))
    BY <1>0, <1>13, Places DEF ReceiveRelease, SyncReceive, Goto, Enter, SameWorker, Peer
  <2>5. wpc["R"] \notin Apart /\ wpc'["R"] \notin Apart
    BY <1>0, <1>13, Places DEF ReceiveRelease, SyncReceive, Goto, Enter, Apart
  <2>6. \A p \in Packets : Own("R", p)' => Own("R", p)
    BY <1>0, <1>13, Places DEF ReceiveRelease, SyncReceive, Goto, Enter, Own, Works, Working
  <2>7. \A p \in Packets : Works("R", p)' => p \notin held'["R"]
    BY <1>0, <1>13, Places DEF ReceiveRelease, SyncReceive, Goto, Enter, Works, Working
  <2> QED
    BY <2>1, <2>2, <2>3, <2>4, <2>5, <2>6, <2>7, WorkerMoves, Places
<1>14. ASSUME CallbackReturn PROVE Good
  <2>1. UNCHANGED <<sem, apc>>
    BY <1>14 DEF CallbackReturn
  <2>2. SameMarks
    BY <1>14 DEF CallbackReturn, SameMarks, Marked, Pended
  <2>3. SameSync
    BY <1>14, Places DEF CallbackReturn, SameSync, Does, Commands, Typed, ThreadTypes
  <2>4. SameWorker(Peer("S"))
    BY <1>0, <1>14, Places DEF CallbackReturn, SameWorker, Peer
  <2>5. SameWorker("S")
    BY <1>14 DEF CallbackReturn, SameWorker
  <2>6. \A p \in Packets : Own("S", p)' => Own("S", p)
    BY <1>0, <1>14, Places DEF CallbackReturn, Own, Works, Working
  <2>7. \A p \in Packets : Works("S", p)' => p \notin held'["S"]
    BY <1>0, <1>14, Places DEF CallbackReturn, Works, Working
  <2> QED
    BY <2>1, <2>2, <2>3, <2>4, <2>5, <2>6, <2>7, WorkerMoves, Places
<1> QED
  BY <1>1, <1>2, <1>3, <1>4, <1>5, <1>6, <1>7, <1>8, <1>9, <1>10, <1>11, <1>12, <1>13, <1>14
  DEF SendThread, ReceiveThread

\* dsi_packet_get finds its packet, or has to block.
LEMMA TrySteps ==
    ASSUME Typed, AbortInv, UnitInv, SyncInv, NEW x \in Sides, GetTry(x)
    PROVE  UnitInv' /\ SyncInv' /\ Shrinks
<1> USE DEF sgvars, syncvars, hist
<1> DEFINE n == next[x]
<1>0. /\ n \in Packets /\ x \in Sides /\ sem[x][n] \in Int
      /\ wpc \in [Sides -> WorkerPcs] /\ wpkt \in [Sides -> Packets]
      /\ sem \in [Sides -> [Packets -> Int]]
  BY DEF Typed, ThreadTypes, WordTypes
<1>1. /\ UNCHANGED <<apc, spc, spkt, held, flags>>
      /\ wpc[x] = "idle"
  BY DEF GetTry
<1>2. SameMarks /\ SameSync
  BY <1>1 DEF SameMarks, SameSync, Marked, Pended, Does
<1>3. SameWorker(Peer(x))
  BY <1>0, <1>1, Places DEF GetTry, Enter, SameWorker
<1>4. CASE ~(sem[x][n] > 0)
  <2>1. UNCHANGED sem /\ wpc' = [wpc EXCEPT ![x] = "block"]
    BY <1>4 DEF GetTry, Enter
  <2>2. wpc'[x] = "block"
    BY <1>0, <2>1
  <2>3. \A p \in Packets : (Own(x, p)' => Own(x, p)) /\ ~Works(x, p)'
    BY <1>1, <2>2 DEF Own, Works, Working
  <2>4. wpc[x] \notin Apart /\ wpc'[x] \notin Apart
    BY <1>1, <2>2 DEF Apart
  <2> QED
    BY <1>1, <1>2, <1>3, <2>1, <2>3, <2>4, WorkerMoves
<1>5. CASE sem[x][n] > 0
  <2>1. ~(sem[x][n] <= 0)
    BY <1>0, <1>5
  <2>2. sem' = [sem EXCEPT ![x][n] = @ - 1] /\ Enter(x, "got", n)
    BY <2>1 DEF GetTry
  <2>3. wpc'[x] = "got" /\ wpkt'[x] = n
    BY <1>0, <2>2 DEF Enter
  <2>4. sem[x][n] = 1 /\ sem'[x][n] = 0
    BY <1>0, <1>5, <2>2 DEF UnitInv, Unit
  <2>5. \A z \in Sides, p \in Packets : z # x \/ p # n => sem'[z][p] = sem[z][p]
    BY <1>0, <2>2
  <2>6. \A z \in Sides : z = x \/ z = Peer(x)
    BY DEF Sides, Peer
  <2>7. n \notin held[x]
    BY <1>0, <2>4 DEF UnitInv, Unit, Own
  <2>8. \A z \in Sides, p \in Packets : Waits(z, p)' <=> Waits(z, p)
    BY <1>1, <2>3, <2>6, <1>3 DEF Waits, SameWorker
  <2>9. \A z \in Sides, p \in Packets :
           Own(z, p)' <=> Own(z, p) \/ (z = x /\ p = n)
    BY <1>1, <2>3, <2>6, <1>3 DEF Own, Works, Working, SameWorker
  <2>10. \A z \in Sides, p \in Packets : Has(z, p)' => Has(z, p)
    BY <1>0, <2>4, <2>5, <2>8, <2>9 DEF Has
  <2>11. \A p \in Packets : ~(Has("S", p)' /\ Has("R", p)')
    BY <2>10, Places DEF UnitInv
  <2>12. \A z \in Sides, p \in Packets : Works(z, p)' => p \notin held'[z]
    BY <1>1, <2>3, <2>6, <2>7, <1>3 DEF Works, Working, SameWorker, UnitInv, Unit
  <2>13. \A p \in Packets : ~Waits(x, p)
    BY <1>1 DEF Waits
  <2>14. ASSUME NEW z \in Sides, NEW p \in Packets PROVE Unit(z, p)'
    <3>1. Unit(z, p)
      BY DEF UnitInv
    <3>2. CASE z # x \/ p # n
      BY <3>1, <3>2, <1>1, <2>5, <2>8, <2>9, <2>12 DEF Unit
    <3>3. CASE z = x /\ p = n
      BY <3>1, <3>3, <1>1, <2>4, <2>8, <2>9, <2>12, <2>13 DEF Unit
    <3> QED
      BY <3>2, <3>3
  <2>15. UnitInv'
    BY <2>11, <2>14 DEF UnitInv
  <2>16. ASSUME NEW y \in Sides, NEW p \in Packets, Sync(y, p) PROVE Sync(y, p)'
    <3>1. \A c \in Commands : Does(Peer(y), c, p)' <=> Does(Peer(y), c, p)
      BY <1>2, Places DEF SameSync
    <3>2. /\ Marked(y, p)' <=> Marked(y, p)
          /\ Pended(y, p)' <=> Pended(y, p)
      BY <1>2 DEF SameMarks
    <3>3. /\ Mark(y, p)' <=> Mark(y, p)
          /\ Pend(y, p)' <=> Pend(y, p)
      BY <3>1, <3>2 DEF Mark, Pend, Commands
    <3>4. /\ Fires(Peer(y), p)' <=> Fires(Peer(y), p)
          /\ wpc'[Peer(y)] = "lost" <=> wpc[Peer(y)] = "lost"
          /\ Asleep(y, p)' <=> Asleep(y, p)
      BY <1>1, <1>3, <2>3, <2>6, Places DEF Fires, Asleep, SameWorker
    <3>5. Told(y, p)' <=> Told(y, p)
      BY <3>1, <3>3, <3>4 DEF Told, Commands
    <3>6. Waits(y, p) => sem'[y][p] = sem[y][p]
      BY <2>5, <2>13
    <3> QED
      BY <2>16, <3>1, <3>2, <3>3, <3>4, <3>5, <3>6, <2>8 DEF Sync, Commands
  <2>17. SyncInv'
    BY <1>1, <2>16 DEF SyncInv
  <2> QED
    BY <2>10, <2>15, <2>17 DEF Shrinks
<1> QED
  BY <1>4, <1>5

\* The blocking decrement of dsi_down.
LEMMA DownSteps ==
    ASSUME Typed, AbortInv, UnitInv, SyncInv, NEW x \in Sides, GetDown(x)
    PROVE  UnitInv' /\ SyncInv' /\ Shrinks
<1> USE DEF sgvars, syncvars, hist
<1> DEFINE n == wpkt[x]
<1>0. /\ n \in Packets /\ sem[x][n] \in Int
      /\ wpc \in [Sides -> WorkerPcs] /\ wpkt \in [Sides -> Packets]
      /\ sem \in [Sides -> [Packets -> Int]]
  BY DEF Typed, ThreadTypes, WordTypes
<1>1. /\ UNCHANGED <<apc, spc, spkt, held, flags>>
      /\ wpc[x] = "down" /\ apc[x] # "finished"
  BY DEF GetDown, AbortInv, Blocked
<1>2. SameMarks /\ SameSync
  BY <1>1 DEF SameMarks, SameSync, Marked, Pended, Does
<1>3. SameWorker(Peer(x))
  BY <1>0, <1>1, Places DEF GetDown, Goto, Enter, SameWorker
<1>4. \A p \in Packets : ~Waits(x, p) /\ ~Works(x, p)
  BY <1>1 DEF Waits, Works, Working
<1>5. sem[x][n] \in 0 .. 1
  BY <1>0, <1>1, <1>4 DEF UnitInv, Unit
<1>6. sem'[x][n] = sem[x][n] - 1
  BY <1>0 DEF GetDown
<1>7. \A z \in Sides, p \in Packets : z # x \/ p # n => sem'[z][p] = sem[z][p]
  BY <1>0 DEF GetDown
<1>8. wpkt'[x] = n /\ wpc'[x] = IF sem[x][n] > 0 THEN "unblock" ELSE "call"
  BY <1>0 DEF GetDown, Goto, Enter
<1>9. \A z \in Sides : z = x \/ z = Peer(x)
  BY DEF Sides, Peer
<1>10. \A z \in Sides, p \in Packets :
          Waits(z, p)' <=> Waits(z, p) \/ (z = x /\ p = n /\ sem[x][n] = 0)
  BY <1>1, <1>3, <1>5, <1>8, <1>9 DEF Waits, SameWorker
<1>11. \A z \in Sides, p \in Packets :
          Works(z, p)' <=> Works(z, p) \/ (z = x /\ p = n /\ sem[x][n] = 1)
  BY <1>1, <1>3, <1>4, <1>5, <1>8, <1>9 DEF Works, Working, SameWorker
<1>12. \A z \in Sides, p \in Packets :
          Own(z, p)' <=> Own(z, p) \/ (z = x /\ p = n /\ sem[x][n] = 1)
  BY <1>1, <1>11 DEF Own
<1>13. \A z \in Sides, p \in Packets : Has(z, p)' => Has(z, p)
  BY <1>0, <1>5, <1>6, <1>7, <1>10, <1>12 DEF Has
<1>14. \A p \in Packets : ~(Has("S", p)' /\ Has("R", p)')
  BY <1>13, Places DEF UnitInv
<1>15. ASSUME NEW z \in Sides, NEW p \in Packets PROVE Unit(z, p)'
  <2>1. Unit(z, p)
    BY DEF UnitInv
  <2>2. CASE z # x \/ p # n
    BY <2>1, <2>2, <1>1, <1>7, <1>10, <1>11, <1>12 DEF Unit
  <2>3. CASE z = x /\ p = n
    <3>1. sem[x][n] = 1 => p \notin held[x]
      BY <2>1, <2>3 DEF Unit, Own
    <3> QED
      BY <2>1, <2>3, <3>1, <1>1, <1>4, <1>5, <1>6, <1>10, <1>11, <1>12 DEF Unit
  <2> QED
    BY <2>2, <2>3
<1>16. UnitInv'
  BY <1>14, <1>15 DEF UnitInv
<1>17. ASSUME NEW y \in Sides, NEW p \in Packets, Sync(y, p) PROVE Sync(y, p)'
  <2>1. \A c \in Commands : Does(Peer(y), c, p)' <=> Does(Peer(y), c, p)
    BY <1>2, Places DEF SameSync
  <2>2. /\ Marked(y, p)' <=> Marked(y, p)
        /\ Pended(y, p)' <=> Pended(y, p)
    BY <1>2 DEF SameMarks
  <2>3. /\ Mark(y, p)' <=> Mark(y, p)
        /\ Pend(y, p)' <=> Pend(y, p)
    BY <2>1, <2>2 DEF Mark, Pend, Commands
  <2>4. /\ Fires(Peer(y), p)' <=> Fires(Peer(y), p)
        /\ wpc'[Peer(y)] = "lost" <=> wpc[Peer(y)] = "lost"
        /\ Asleep(y, p)' <=> Asleep(y, p)
    BY <1>1, <1>3, <1>8, <1>9, Places DEF Fires, Asleep, SameWorker
  <2>5. Told(y, p)' <=> Told(y, p)
    BY <2>1, <2>3, <2>4 DEF Told, Commands
  <2>6. Waits(y, p) => sem'[y][p] = sem[y][p]
    BY <1>7, <1>4
  <2>7. Waits(y, p)' /\ sem'[y][p] = 0 => Waits(y, p)
    BY <1>6, <1>10
  <2>8. Waits(y, p) => Waits(y, p)'
    BY <1>10
  <2> QED
    BY <1>17, <2>1, <2>2, <2>3, <2>4, <2>5, <2>6, <2>7, <2>8 DEF Sync, Commands
<1>18. SyncInv'
  BY <1>1, <1>17 DEF SyncInv
<1> QED
  BY <1>13, <1>16, <1>18 DEF Shrinks

\* dsi_up passes the packet to the other side.
LEMMA UpSteps ==
    ASSUME Typed, AbortInv, UnitInv, SyncInv, NEW x \in Sides, Up(x)
    PROVE  UnitInv' /\ SyncInv' /\ Passed(x)
<1> USE DEF sgvars, syncvars, hist
<1> DEFINE n == wpkt[x]
           r == Peer(x)
<1>0. /\ n \in Packets /\ sem[r][n] \in Int
      /\ wpc \in [Sides -> WorkerPcs] /\ wpkt \in [Sides -> Packets]
      /\ sem \in [Sides -> [Packets -> Int]]
  BY Places DEF Typed, ThreadTypes, WordTypes
<1>1. /\ UNCHANGED <<apc, spc, spkt, held, flags>>
      /\ wpc[x] = "up"
      /\ r \in Sides /\ r # x /\ Peer(r) = x
  BY Places DEF Up
<1>2. SameMarks /\ SameSync
  BY <1>1 DEF SameMarks, SameSync, Marked, Pended, Does
<1>3. SameWorker(r)
  BY <1>0, <1>1 DEF Up, Goto, Enter, SameWorker
<1>4. Works(x, n) /\ n \notin held[x] /\ \A p \in Packets : ~Waits(x, p)
  BY <1>0, <1>1 DEF Works, Working, Waits, UnitInv, Unit
<1>5. \A z \in Sides : z = x \/ z = r
  BY DEF Sides, Peer
<1>6. ~Has(r, n) /\ sem[x][n] <= 0
  <2>1. Has(x, n)
    BY <1>4 DEF Has, Own
  <2> QED
    BY <1>0, <1>4, <2>1 DEF UnitInv, Unit, Own, Peer, Sides
<1>7. sem[r][n] \in -1 .. 0 /\ ~Own(r, n) /\ (sem[r][n] = 0 => ~Waits(r, n))
  BY <1>0, <1>1, <1>6 DEF Has, UnitInv, Unit
<1>8. sem'[r][n] = sem[r][n] + 1
  BY <1>0, <1>1 DEF Up
<1>9. \A z \in Sides, p \in Packets : z # r \/ p # n => sem'[z][p] = sem[z][p]
  BY <1>0, <1>1 DEF Up
<1>10. /\ wpc'[x] = IF sem[r][n] < 0 THEN "notify" ELSE "idle"
       /\ sem[r][n] < 0 => wpkt'[x] = n
  BY <1>0, <1>1 DEF Up, Goto, Enter
<1>11. \A z \in Sides, p \in Packets : Waits(z, p)' <=> Waits(z, p)
  BY <1>3, <1>4, <1>5, <1>10 DEF Waits, SameWorker
<1>12. \A z \in Sides, p \in Packets : Works(z, p)' <=> Works(z, p) /\ z = r
  BY <1>3, <1>1, <1>5, <1>10 DEF Works, Working, SameWorker
<1>13. \A z \in Sides, p \in Packets :
          Own(z, p)' <=> Own(z, p) /\ ~(z = x /\ p = n)
  <2>1. \A p \in Packets : Works(x, p) => p = n
    BY DEF Works
  <2> QED
    BY <1>1, <1>4, <1>5, <1>12, <2>1 DEF Own
<1>14. \A p \in Packets : Has(x, p)' => Has(x, p) /\ p # n
  BY <1>0, <1>1, <1>4, <1>6, <1>9, <1>11, <1>13 DEF Has
<1>15. \A p \in Packets : p # n => (Has(r, p)' => Has(r, p))
  BY <1>1, <1>9, <1>11, <1>13 DEF Has
<1>16. \A p \in Packets : ~(Has("S", p)' /\ Has("R", p)')
  <2>1. \A p \in Packets : ~(Has(x, p)' /\ Has(r, p)')
    <3>1. \A p \in Packets : ~(Has(x, p) /\ Has(r, p))
      BY DEF UnitInv, Peer, Sides
    <3> QED
      BY <3>1, <1>14, <1>15
  <2> QED
    BY <2>1 DEF Peer, Sides
<1>17. ASSUME NEW z \in Sides, NEW p \in Packets PROVE Unit(z, p)'
  <2>1. Unit(z, p)
    BY DEF UnitInv
  <2>2. CASE z # r \/ p # n
    BY <2>1, <2>2, <1>1, <1>9, <1>11, <1>12, <1>13 DEF Unit
  <2>3. CASE z = r /\ p = n
    BY <2>1, <2>3, <1>1, <1>7, <1>8, <1>11, <1>12, <1>13 DEF Unit
  <2> QED
    BY <2>2, <2>3
<1>18. UnitInv'
  BY <1>16, <1>17 DEF UnitInv
<1>19. ASSUME NEW y \in Sides, NEW p \in Packets, Sync(y, p), apc[y] # "finished"
       PROVE  Sync(y, p)'
  <2>1. \A c \in Commands : Does(Peer(y), c, p)' <=> Does(Peer(y), c, p)
    BY <1>2, Places DEF SameSync
  <2>2. /\ Marked(y, p)' <=> Marked(y, p)
        /\ Pended(y, p)' <=> Pended(y, p)
    BY <1>2 DEF SameMarks
  <2>3. /\ Mark(y, p)' <=> Mark(y, p)
        /\ Pend(y, p)' <=> Pend(y, p)
    BY <2>1, <2>2 DEF Mark, Pend, Commands
  <2>4. /\ wpc'[Peer(y)] = "lost" <=> wpc[Peer(y)] = "lost"
        /\ Asleep(y, p)' <=> Asleep(y, p)
    BY <1>1, <1>3, <1>10, <1>5 DEF Asleep, SameWorker
  <2>5. Waits(y, p)' <=> Waits(y, p)
    BY <1>11
  <2>6. CASE y = r /\ p = n
    <3>1. ~Told(y, p)
      BY <1>19, <1>7, <2>6 DEF Sync
    <3>2. Fires(Peer(y), p)' <=> sem[r][n] = -1
      BY <1>1, <1>7, <1>10, <2>6 DEF Fires
    <3>3. Told(y, p)' <=> sem[r][n] = -1
      BY <3>1, <3>2, <2>1, <2>3 DEF Told, Commands
    <3>4. /\ ~Does(Peer(y), "commited", p) /\ ~Does(Peer(y), "setPending", p)
          /\ ~Pend(y, p)
      BY <3>1 DEF Told
    <3>5. sem[r][n] = -1 => Waits(y, p)
      BY <1>19, <1>0, <1>1, <2>6 DEF UnitInv, Unit
    <3> QED
      BY <1>19, <1>7, <1>8, <2>6, <3>2, <3>3, <3>4, <3>5, <2>1, <2>2, <2>3, <2>4, <2>5
      DEF Sync, Commands
  <2>7. CASE ~(y = r /\ p = n)
    <3>1. Fires(Peer(y), p)' <=> Fires(Peer(y), p)
      BY <1>1, <1>3, <1>5, <1>10, <2>7 DEF Fires, SameWorker
    <3>2. Told(y, p)' <=> Told(y, p)
      BY <3>1, <2>1, <2>3 DEF Told, Commands
    <3>3. sem'[y][p] = sem[y][p]
      BY <1>9, <2>7
    <3> QED
      BY <1>19, <3>1, <3>2, <3>3, <2>1, <2>2, <2>3, <2>4, <2>5 DEF Sync, Commands
  <2> QED
    BY <2>6, <2>7
<1>20. SyncInv'
  BY <1>1, <1>19 DEF SyncInv
<1> QED
  BY <1>14, <1>15, <1>18, <1>20 DEF Passed

\* A step that touches what the waker of y knows, and nothing of the waker of
\* the other side: it is enough to look at y.
LEMMA OneWaker ==
    ASSUME Typed, SyncInv, NEW x \in Sides, UNCHANGED <<sem, apc>>,
           \A p \in Packets :
              /\ Marked(x, p)' <=> Marked(x, p)
              /\ Pended(x, p)' <=> Pended(x, p)
              /\ \A c \in Commands : Does(Peer(x), c, p)' <=> Does(Peer(x), c, p)
              /\ Fires(Peer(x), p)' <=> Fires(Peer(x), p)
              /\ Waits(x, p)' <=> Waits(x, p)
              /\ Asleep(x, p)' <=> Asleep(x, p),
           wpc[Peer(x)] = "lost" => wpc'[Peer(x)] = "lost",
           apc[Peer(x)] # "finished" => \A p \in Packets : Sync(Peer(x), p)'
    PROVE  SyncInv'
<1>1. ASSUME NEW p \in Packets, Sync(x, p) PROVE Sync(x, p)'
  <2>1. \A c \in Commands : Does(Peer(x), c, p)' <=> Does(Peer(x), c, p)
    OBVIOUS
  <2>2. /\ Mark(x, p)' <=> Mark(x, p)
        /\ Pend(x, p)' <=> Pend(x, p)
    BY <2>1 DEF Mark, Pend, Commands
  <2>3. Told(x, p)' <=> Told(x, p)
    BY <2>1, <2>2 DEF Told, Commands
  <2> QED
    BY <1>1, <2>1, <2>2, <2>3 DEF Sync, Commands
<1>2. apc[x] # "finished" => \A p \in Packets : Sync(x, p)'
  BY <1>1 DEF SyncInv
<1>3. \A z \in Sides : z = x \/ z = Peer(x)
  BY DEF Sides, Peer
<1> QED
  BY <1>2, <1>3 DEF SyncInv

\* A step that leaves the counters and the packets of both sides alone.
LEMMA UnitsKept ==
    ASSUME Typed, UnitInv, UNCHANGED <<sem, apc, held>>,
           \A x \in Sides, p \in Packets :
              (Waits(x, p)' <=> Waits(x, p)) /\ (Works(x, p)' <=> Works(x, p))
    PROVE  UnitInv' /\ Shrinks
<1>1. \A x \in Sides, p \in Packets : Own(x, p)' <=> Own(x, p)
  BY DEF Own
<1>2. \A x \in Sides, p \in Packets : Has(x, p)' <=> Has(x, p)
  BY <1>1 DEF Has
<1> QED
  BY <1>1, <1>2, Places DEF UnitInv, Unit, Shrinks

\* A work thread tells its own synchronisation thread of a commit.
LEMMA CommitedSteps ==
    ASSUME Typed, AbortInv, UnitInv, SyncInv, NEW x \in Sides, ReceiveCommited(x)
    PROVE  UnitInv' /\ SyncInv' /\ Shrinks
<1> USE DEF sgvars, syncvars, hist
<1> DEFINE y == Peer(x)
<1>0. /\ wpc \in [Sides -> WorkerPcs] /\ wpkt \in [Sides -> Packets]
      /\ spc \in [Sides -> SyncPcs] /\ spkt \in [Sides -> Packets]
      /\ y \in Sides /\ y # x /\ Peer(y) = x
      /\ \A z \in Sides : z = x \/ z = y
  BY Places DEF Typed, ThreadTypes, Sides, Peer
<1>1. /\ UNCHANGED <<sem, apc, held, flags>>
      /\ wpc[x] = "notify" /\ wpc'[x] = "idle"
      /\ spc[x] = "idle" /\ spc'[x] = "commited" /\ spkt'[x] = wpkt[x]
      /\ wpc'[y] = wpc[y] /\ wpkt'[y] = wpkt[y]
      /\ spc'[y] = spc[y] /\ spkt'[y] = spkt[y]
  BY <1>0 DEF ReceiveCommited, SyncReceive, Goto, Enter
<1> HIDE DEF y
<1>2. \A z \in Sides, p \in Packets :
         /\ Waits(z, p)' <=> Waits(z, p)
         /\ Works(z, p)' <=> Works(z, p)
         /\ Asleep(z, p)' <=> Asleep(z, p)
  BY <1>0, <1>1 DEF Waits, Works, Working, Asleep
<1>3. UnitInv' /\ Shrinks
  BY <1>1, <1>2, UnitsKept
<1>4. \A z \in Sides, p \in Packets :
         (Marked(z, p)' <=> Marked(z, p)) /\ (Pended(z, p)' <=> Pended(z, p))
  BY <1>1 DEF Marked, Pended
<1>5. \A p \in Packets :
         /\ \A c \in Commands : Does(y, c, p)' <=> Does(y, c, p)
         /\ Fires(y, p)' <=> Fires(y, p)
  BY <1>1 DEF Does, Fires
<1>6. \A p \in Packets :
         /\ ~Fires(x, p)'
         /\ Does(x, "commited", p)' <=> Fires(x, p)
         /\ \A c \in Commands : ~Does(x, c, p)
         /\ \A c \in Commands \ {"commited"} : ~Does(x, c, p)'
  BY <1>1 DEF Does, Fires, Commands
<1>7. ASSUME NEW p \in Packets, Sync(y, p) PROVE Sync(y, p)'
  <2>1. /\ Mark(y, p)' <=> Mark(y, p)
        /\ Pend(y, p)' <=> Pend(y, p)
    BY <1>0, <1>4, <1>6 DEF Mark, Pend, Commands
  <2>2. Told(y, p)' <=> Told(y, p)
    BY <1>0, <1>6, <2>1 DEF Told, Commands
  <2>3. wpc[x] # "lost"
    BY <1>1
  <2> QED
    BY <1>7, <1>0, <1>1, <1>2, <1>4, <1>6, <2>1, <2>2, <2>3 DEF Sync, Commands
<1>8. apc[y] # "finished" => \A p \in Packets : Sync(y, p)'
  BY <1>0, <1>7 DEF SyncInv
<1>9. SyncInv'
  BY <1>0, <1>1, <1>2, <1>4, <1>5, <1>8, OneWaker DEF y
<1> QED
  BY <1>3, <1>9

\* A work thread that found no packet calls the other synchronisation thread.
LEMMA WaitSteps ==
    ASSUME Typed, AbortInv, UnitInv, SyncInv, NEW x \in Sides, ReceiveWait(x)
    PROVE  UnitInv' /\ SyncInv' /\ Shrinks
<1> USE DEF sgvars, syncvars, hist
<1> DEFINE y == Peer(x)
<1>0. /\ wpc \in [Sides -> WorkerPcs] /\ wpkt \in [Sides -> Packets]
      /\ spc \in [Sides -> SyncPcs] /\ spkt \in [Sides -> Packets]
      /\ y \in Sides /\ y # x /\ Peer(y) = x
      /\ \A z \in Sides : z = x \/ z = y
  BY Places DEF Typed, ThreadTypes, Sides, Peer
<1>1. /\ UNCHANGED <<sem, apc, held, flags>>
      /\ wpc[y] = "call" /\ wpc'[y] = "asleep" /\ wpkt'[y] = wpkt[y]
      /\ spc[x] = "idle" /\ spc'[x] = "wait" /\ spkt'[x] = wpkt[y]
      /\ wpc'[x] = wpc[x] /\ wpkt'[x] = wpkt[x]
      /\ spc'[y] = spc[y] /\ spkt'[y] = spkt[y]
  BY <1>0 DEF ReceiveWait, SyncReceive, Goto, Enter
<1> HIDE DEF y
<1>2. \A z \in Sides, p \in Packets :
         /\ Waits(z, p)' <=> Waits(z, p)
         /\ Works(z, p)' <=> Works(z, p)
         /\ Fires(z, p)' <=> Fires(z, p)
  BY <1>0, <1>1 DEF Waits, Works, Working, Fires
<1>3. UnitInv' /\ Shrinks
  BY <1>1, <1>2, UnitsKept
<1>4. \A z \in Sides, p \in Packets :
         (Marked(z, p)' <=> Marked(z, p)) /\ (Pended(z, p)' <=> Pended(z, p))
  BY <1>1 DEF Marked, Pended
<1>5. \A p \in Packets :
         /\ \A c \in Commands : Does(y, c, p)' <=> Does(y, c, p)
         /\ Asleep(x, p)' <=> Asleep(x, p)
  BY <1>1 DEF Does, Asleep
<1>6. \A p \in Packets :
         /\ ~Asleep(y, p)
         /\ Asleep(y, p)' <=> Does(x, "wait", p)'
         /\ \A c \in Commands : ~Does(x, c, p)
         /\ \A c \in Commands \ {"wait"} : ~Does(x, c, p)'
  BY <1>1 DEF Does, Asleep, Commands
<1>7. ASSUME NEW p \in Packets, Sync(y, p) PROVE Sync(y, p)'
  <2>1. /\ Mark(y, p)' <=> Mark(y, p)
        /\ Pend(y, p)' <=> Pend(y, p)
    BY <1>0, <1>4, <1>6 DEF Mark, Pend, Commands
  <2>2. Told(y, p)' <=> Told(y, p)
    BY <1>0, <1>2, <1>6, <2>1 DEF Told, Commands
  <2> QED
    BY <1>7, <1>0, <1>1, <1>2, <1>4, <1>6, <2>1, <2>2 DEF Sync, Commands
<1>8. apc[y] # "finished" => \A p \in Packets : Sync(y, p)'
  BY <1>0, <1>7 DEF SyncInv
<1>9. SyncInv'
  BY <1>0, <1>1, <1>2, <1>4, <1>5, <1>8, OneWaker DEF y
<1> QED
  BY <1>3, <1>9

\* A sleeping work thread gets the unit that was passed to it.
LEMMA UnitTaken ==
    ASSUME Typed, UnitInv, NEW y \in Sides, UNCHANGED <<sem, apc, held, wpkt>>,
           wpc[y] = "asleep", sem[y][wpkt[y]] = 0,
           wpc' = [wpc EXCEPT ![y] = "unblock"]
    PROVE  UnitInv' /\ Shrinks
<1> DEFINE n == wpkt[y]
<1>0. wpc \in [Sides -> WorkerPcs] /\ n \in Packets
  BY DEF Typed, ThreadTypes
<1>1. \A x \in Sides, p \in Packets :
         Waits(x, p)' <=> Waits(x, p) /\ ~(x = y /\ p = n)
  BY <1>0 DEF Waits
<1>2. \A x \in Sides, p \in Packets :
         Works(x, p)' <=> Works(x, p) \/ (x = y /\ p = n)
  BY <1>0 DEF Works, Working
<1>3. \A x \in Sides, p \in Packets :
         Own(x, p)' <=> Own(x, p) \/ (x = y /\ p = n)
  BY <1>2 DEF Own
<1>4. Waits(y, n)
  BY DEF Waits
<1>5. n \notin held[y]
  BY <1>0, <1>4 DEF UnitInv, Unit, Own
<1>6. \A x \in Sides, p \in Packets : Has(x, p)' => Has(x, p)
  BY <1>1, <1>3, <1>4 DEF Has
<1>7. ASSUME NEW x \in Sides, NEW p \in Packets PROVE Unit(x, p)'
  <2>1. Unit(x, p)
    BY DEF UnitInv
  <2>2. CASE ~(x = y /\ p = n)
    BY <2>1, <2>2, <1>1, <1>2, <1>3 DEF Unit
  <2>3. CASE x = y /\ p = n
    BY <2>1, <2>3, <1>1, <1>2, <1>3, <1>5 DEF Unit
  <2> QED
    BY <2>2, <2>3
<1> QED
  BY <1>6, <1>7, Places DEF UnitInv, Shrinks

\* The synchronisation thread has got DSI_SYNC_COMMITED.
LEMMA HandleCommitedSteps ==
    ASSUME Typed, AbortInv, UnitInv, SyncInv, NEW x \in Sides, HandleCommited(x)
    PROVE  UnitInv' /\ SyncInv' /\ Shrinks
<1> USE DEF sgvars, syncvars, hist
<1> DEFINE y == Peer(x)
           n == spkt[x]
<1>0. /\ wpc \in [Sides -> WorkerPcs] /\ wpkt \in [Sides -> Packets]
      /\ spc \in [Sides -> SyncPcs] /\ spkt \in [Sides -> Packets]
      /\ y \in Sides /\ y # x /\ Peer(y) = x /\ n \in Packets
      /\ \A z \in Sides : z = x \/ z = y
  BY Places DEF Typed, ThreadTypes, Sides, Peer
<1>1. /\ UNCHANGED <<sem, apc, held, flags, wpkt, spkt>>
      /\ spc[x] = "commited" /\ spc'[y] = spc[y]
  BY <1>0 DEF HandleCommited
<1>2. /\ Marked(y, n) => Wakeup(y) /\ spc'[x] = "clearWaiting"
      /\ ~Marked(y, n) => UNCHANGED wpc /\ spc'[x] = "setPending"
  BY <1>0 DEF HandleCommited, Marked
<1> HIDE DEF y, n
<1>3. \A z \in Sides, p \in Packets :
         (Marked(z, p)' <=> Marked(z, p)) /\ (Pended(z, p)' <=> Pended(z, p))
  BY <1>1 DEF Marked, Pended
<1>4. wpc'[x] = wpc[x]
  BY <1>0, <1>2 DEF Wakeup
<1>5. \A p \in Packets :
         /\ \A c \in Commands : Does(y, c, p)' <=> Does(y, c, p)
         /\ \A z \in Sides : Fires(z, p)' <=> Fires(z, p)
         /\ Asleep(x, p)' <=> Asleep(x, p)
         /\ Waits(x, p)' <=> Waits(x, p)
  BY <1>0, <1>1, <1>2, <1>4 DEF Does, Asleep, Waits, Fires, Wakeup
<1>6. \A p \in Packets :
         /\ Does(x, "commited", p) <=> p = n
         /\ \A c \in Commands \ {"commited"} : ~Does(x, c, p)
         /\ \A c \in Commands : Does(x, c, p)' <=> spc'[x] = c /\ p = n
  BY <1>1 DEF Does, Commands, n
<1>7. wpc[y] = "asleep" => apc[y] # "finished"
  BY <1>0 DEF AbortInv, Blocked
<1>8. apc[y] # "finished" => \A p \in Packets : Sync(y, p)
  BY <1>0 DEF SyncInv
<1>9. apc[y] # "finished" => Waits(y, n) /\ sem[y][n] = 0
  <2>1. Told(y, n)
    BY <1>0, <1>6 DEF Told
  <2> QED
    BY <1>0, <1>8, <2>1 DEF Sync
<1>10. apc[y] # "finished" => (Marked(y, n) <=> wpc[y] = "asleep")
  <2>1. ASSUME apc[y] # "finished" PROVE Marked(y, n) <=> wpc[y] = "asleep"
    <3>1. Mark(y, n) <=> Marked(y, n)
      BY <1>0, <1>6 DEF Mark, Commands
    <3>2. Asleep(y, n) <=> wpc[y] = "asleep"
      BY <2>1, <1>9 DEF Asleep, Waits
    <3> QED
      BY <2>1, <3>1, <3>2, <1>0, <1>6, <1>8 DEF Sync, Commands
  <2> QED
    BY <2>1
<1>11. UnitInv' /\ Shrinks
  <2>1. CASE Marked(y, n) /\ wpc[y] = "asleep"
    <3>1. wpc' = [wpc EXCEPT ![y] = "unblock"]
      BY <2>1, <1>2 DEF Wakeup
    <3>2. sem[y][wpkt[y]] = 0
      BY <2>1, <1>7, <1>9 DEF Waits
    <3> QED
      BY <2>1, <3>1, <3>2, <1>0, <1>1, UnitTaken
  <2>2. CASE ~(Marked(y, n) /\ wpc[y] = "asleep")
    <3>1. UNCHANGED wpc
      BY <2>2, <1>2 DEF Wakeup
    <3> QED
      BY <3>1, <1>1, UnitsKept DEF Waits, Works
  <2> QED
    BY <2>1, <2>2
<1>12. ASSUME apc[y] # "finished", NEW p \in Packets PROVE Sync(y, p)'
  <2>1. Sync(y, p)
    BY <1>8, <1>12
  <2>2. Fires(x, p)' <=> Fires(x, p)
    BY <1>0, <1>5
  <2>3. CASE Marked(y, n)
    <3>1. wpc'[y] = "unblock" /\ spc'[x] = "clearWaiting"
      BY <1>0, <1>2, <1>10, <1>12, <2>3 DEF Wakeup
    <3>2. ~Waits(y, p)' /\ ~Asleep(y, p)'
      BY <3>1 DEF Waits, Asleep
    <3>3. \A c \in Commands : Does(x, c, p)' <=> c = "clearWaiting" /\ p = n
      BY <1>6, <3>1
    <3>4. ~Mark(y, p)'
      <4>1. p # n => ~Asleep(y, p)
        BY <1>9, <1>12 DEF Asleep, Waits
      <4>2. p # n => ~Mark(y, p)
        BY <2>1, <4>1 DEF Sync
      <4> QED
        BY <1>0, <1>3, <1>6, <3>3, <4>2 DEF Mark, Commands
    <3>5. ~Fires(x, p) /\ ~Pended(y, p)
      <4>1. CASE p = n
        <5>1. Mark(y, p)
          BY <1>0, <1>6, <2>3, <4>1 DEF Mark, Commands
        <5> QED
          BY <2>1, <4>1, <5>1, <1>0, <1>6 DEF Sync
      <4>2. CASE p # n
        <5>1. ~Told(y, p)
          BY <2>1, <4>2, <1>9, <1>12 DEF Sync, Waits
        <5> QED
          BY <5>1, <1>0, <1>6 DEF Told, Pend, Commands
      <4> QED
        BY <4>1, <4>2
    <3>6. ~Told(y, p)' /\ ~Pend(y, p)'
      BY <1>0, <1>3, <2>2, <3>3, <3>5 DEF Told, Pend, Commands
    <3> QED
      BY <1>0, <2>2, <3>2, <3>3, <3>4, <3>5, <3>6 DEF Sync, Commands
  <2>4. CASE ~Marked(y, n)
    <3>1. wpc' = wpc /\ spc'[x] = "setPending"
      BY <1>2, <2>4
    <3>2. /\ Waits(y, p)' <=> Waits(y, p)
          /\ Asleep(y, p)' <=> Asleep(y, p)
      BY <1>1, <3>1 DEF Waits, Asleep
    <3>3. \A c \in Commands : Does(x, c, p)' <=> c = "setPending" /\ p = n
      BY <1>6, <3>1
    <3>4. /\ Mark(y, p)' <=> Mark(y, p)
          /\ Pend(y, p)' <=> Pend(y, p)
      BY <1>0, <1>3, <1>6, <3>3 DEF Mark, Pend, Commands
    <3>5. Told(y, p)' <=> Told(y, p)
      BY <1>0, <1>6, <2>2, <3>3, <3>4 DEF Told, Commands
    <3> QED
      BY <1>0, <1>1, <1>3, <1>6, <2>1, <2>2, <2>4, <3>1, <3>2, <3>3, <3>4, <3>5
      DEF Sync, Commands
  <2> QED
    BY <2>3, <2>4
<1>13. wpc[y] = "lost" => wpc'[y] = "lost"
  BY <1>0, <1>2 DEF Wakeup
<1>14. SyncInv'
  BY <1>0, <1>1, <1>3, <1>5, <1>12, <1>13, OneWaker DEF y
<1> QED
  BY <1>11, <1>14

\* The synchronisation thread has got DSI_SYNC_WAIT.
LEMMA HandleWaitSteps ==
    ASSUME Typed, AbortInv, UnitInv, SyncInv, NEW x \in Sides, HandleWait(x)
    PROVE  UnitInv' /\ SyncInv' /\ Shrinks
<1> USE DEF sgvars, syncvars, hist
<1> DEFINE y == Peer(x)
           n == spkt[x]
<1>0. /\ wpc \in [Sides -> WorkerPcs] /\ wpkt \in [Sides -> Packets]
      /\ spc \in [Sides -> SyncPcs] /\ spkt \in [Sides -> Packets]
      /\ y \in Sides /\ y # x /\ Peer(y) = x /\ n \in Packets
      /\ \A z \in Sides : z = x \/ z = y
  BY Places DEF Typed, ThreadTypes, Sides, Peer
<1>1. /\ UNCHANGED <<sem, apc, held, flags, wpkt, spkt>>
      /\ spc[x] = "wait" /\ spc'[y] = spc[y]
  BY <1>0 DEF HandleWait
<1>2. /\ Pended(y, n) => Wakeup(y) /\ spc'[x] = "clearPending"
      /\ ~Pended(y, n) => UNCHANGED wpc /\ spc'[x] = "setWaiting"
  BY <1>0 DEF HandleWait, Pended
<1> HIDE DEF y, n
<1>3. \A z \in Sides, p \in Packets :
         (Marked(z, p)' <=> Marked(z, p)) /\ (Pended(z, p)' <=> Pended(z, p))
  BY <1>1 DEF Marked, Pended
<1>4. wpc'[x] = wpc[x]
  BY <1>0, <1>2 DEF Wakeup
<1>5. \A p \in Packets :
         /\ \A c \in Commands : Does(y, c, p)' <=> Does(y, c, p)
         /\ \A z \in Sides : Fires(z, p)' <=> Fires(z, p)
         /\ Asleep(x, p)' <=> Asleep(x, p)
         /\ Waits(x, p)' <=> Waits(x, p)
  BY <1>0, <1>1, <1>2, <1>4 DEF Does, Asleep, Waits, Fires, Wakeup
<1>6. \A p \in Packets :
         /\ Does(x, "wait", p) <=> p = n
         /\ \A c \in Commands \ {"wait"} : ~Does(x, c, p)
         /\ \A c \in Commands : Does(x, c, p)' <=> spc'[x] = c /\ p = n
  BY <1>1 DEF Does, Commands, n
<1>7. wpc[y] = "asleep" => apc[y] # "finished"
  BY <1>0 DEF AbortInv, Blocked
<1>8. apc[y] # "finished" => \A p \in Packets : Sync(y, p)
  BY <1>0 DEF SyncInv
<1>9. apc[y] # "finished" => Asleep(y, n)
  BY <1>0, <1>6, <1>8 DEF Sync
<1>10. apc[y] # "finished" /\ Pended(y, n) => sem[y][n] = 0
  <2>1. Pended(y, n) => Told(y, n)
    BY <1>0, <1>6 DEF Told, Pend, Commands
  <2> QED
    BY <1>0, <1>8, <2>1 DEF Sync
<1>11. UnitInv' /\ Shrinks
  <2>1. CASE Pended(y, n) /\ wpc[y] = "asleep"
    <3>1. wpc' = [wpc EXCEPT ![y] = "unblock"]
      BY <2>1, <1>2 DEF Wakeup
    <3>2. sem[y][wpkt[y]] = 0
      BY <2>1, <1>7, <1>9, <1>10 DEF Asleep
    <3> QED
      BY <2>1, <3>1, <3>2, <1>0, <1>1, UnitTaken
  <2>2. CASE ~(Pended(y, n) /\ wpc[y] = "asleep")
    <3>1. UNCHANGED wpc
      BY <2>2, <1>2 DEF Wakeup
    <3> QED
      BY <3>1, <1>1, UnitsKept DEF Waits, Works
  <2> QED
    BY <2>1, <2>2
<1>12. ASSUME apc[y] # "finished", NEW p \in Packets PROVE Sync(y, p)'
  <2>1. Sync(y, p)
    BY <1>8, <1>12
  <2>2. Fires(x, p)' <=> Fires(x, p)
    BY <1>0, <1>5
  <2>3. CASE Pended(y, n)
    <3>1. wpc'[y] = "unblock" /\ spc'[x] = "clearPending"
      BY <1>0, <1>2, <1>9, <1>12, <2>3 DEF Wakeup, Asleep
    <3>2. ~Waits(y, p)' /\ ~Asleep(y, p)'
      BY <3>1 DEF Waits, Asleep
    <3>3. \A c \in Commands : Does(x, c, p)' <=> c = "clearPending" /\ p = n
      BY <1>6, <3>1
    <3>4. ~Marked(y, p)
      <4>1. Mark(y, p) <=> Marked(y, p)
        BY <1>0, <1>6 DEF Mark, Commands
      <4>2. p # n => ~Asleep(y, p)
        BY <1>9, <1>12 DEF Asleep
      <4> QED
        BY <2>1, <2>3, <4>1, <4>2 DEF Sync
    <3>5. ~Fires(x, p) /\ (p # n => ~Pended(y, p))
      <4>1. CASE p = n
        <5>1. Pend(y, p)
          BY <1>0, <1>6, <2>3, <4>1 DEF Pend, Commands
        <5> QED
          BY <2>1, <4>1, <5>1, <1>0 DEF Sync
      <4>2. CASE p # n
        <5>1. ~Told(y, p)
          BY <2>1, <4>2, <1>9, <1>12 DEF Sync, Waits, Asleep
        <5> QED
          BY <5>1, <1>0, <1>6 DEF Told, Pend, Commands
      <4> QED
        BY <4>1, <4>2
    <3>6. ~Told(y, p)' /\ ~Pend(y, p)' /\ ~Mark(y, p)'
      BY <1>0, <1>3, <2>2, <3>3, <3>4, <3>5 DEF Told, Pend, Mark, Commands
    <3> QED
      BY <1>0, <2>2, <3>2, <3>3, <3>5, <3>6 DEF Sync, Commands
  <2>4. CASE ~Pended(y, n)
    <3>1. wpc' = wpc /\ spc'[x] = "setWaiting"
      BY <1>2, <2>4
    <3>2. /\ Waits(y, p)' <=> Waits(y, p)
          /\ Asleep(y, p)' <=> Asleep(y, p)
      BY <1>1, <3>1 DEF Waits, Asleep
    <3>3. \A c \in Commands : Does(x, c, p)' <=> c = "setWaiting" /\ p = n
      BY <1>6, <3>1
    <3>4. /\ Mark(y, p)' <=> Mark(y, p)
          /\ Pend(y, p)' <=> Pend(y, p)
      BY <1>0, <1>3, <1>6, <3>3 DEF Mark, Pend, Commands
    <3>5. Told(y, p)' <=> Told(y, p)
      BY <1>0, <1>6, <2>2, <3>3, <3>4 DEF Told, Commands
    <3> QED
      BY <1>0, <1>1, <1>3, <1>6, <2>1, <2>2, <2>4, <3>1, <3>2, <3>3, <3>4, <3>5
      DEF Sync, Commands
  <2> QED
    BY <2>3, <2>4
<1>13. wpc[y] = "lost" => wpc'[y] = "lost"
  BY <1>0, <1>2 DEF Wakeup
<1>14. SyncInv'
  BY <1>0, <1>1, <1>3, <1>5, <1>12, <1>13, OneWaker DEF y
<1> QED
  BY <1>11, <1>14

\* The synchronisation thread stores the flag word it has updated.
LEMMA StoreSteps ==
    ASSUME Typed, AbortInv, UnitInv, SyncInv, Intact', NEW x \in Sides,
           SyncStore(x)
    PROVE  UnitInv' /\ SyncInv' /\ Shrinks
<1> USE DEF sgvars, syncvars, hist
<1> DEFINE y == Peer(x)
           n == spkt[x]
<1>0. /\ wpc \in [Sides -> WorkerPcs] /\ wpkt \in [Sides -> Packets]
      /\ spc \in [Sides -> SyncPcs] /\ spkt \in [Sides -> Packets]
      /\ y \in Sides /\ y # x /\ Peer(y) = x /\ n \in Packets
      /\ \A z \in Sides : z = x \/ z = y
  BY Places DEF Typed, ThreadTypes, Sides, Peer
<1> DEFINE c == spc[x]
<1>1. /\ UNCHANGED <<sem, apc, held, wpc, wpkt>>
      /\ c \in {"clearWaiting", "setWaiting", "clearPending", "setPending"}
      /\ spc'[x] = "idle" /\ spc'[y] = spc[y] /\ spkt'[y] = spkt[y]
  BY <1>0 DEF SyncStore, Updates
<1>2. flags' = [flags EXCEPT ![n] = NewWord(c, y, flags[n])]
  BY StoreInPlace DEF SyncStore
<1> HIDE DEF y, n, c
<1>3. \A z \in Sides :
         /\ WAITING(z) # PENDING(y) /\ PENDING(z) # WAITING(y)
         /\ z # y => WAITING(z) # WAITING(y) /\ PENDING(z) # PENDING(y)
  BY <1>0 DEF WAITING, PENDING
<1>4. ASSUME NEW z \in Sides, NEW p \in Packets
      PROVE  /\ Marked(z, p)' <=> IF z = y /\ p = n /\ c = "clearWaiting" THEN FALSE
                                  ELSE IF z = y /\ p = n /\ c = "setWaiting" THEN TRUE
                                  ELSE Marked(z, p)
             /\ Pended(z, p)' <=> IF z = y /\ p = n /\ c = "clearPending" THEN FALSE
                                  ELSE IF z = y /\ p = n /\ c = "setPending" THEN TRUE
                                  ELSE Pended(z, p)
  <2>1. flags'[p] = IF p = n THEN NewWord(c, y, flags[n]) ELSE flags[p]
    BY <1>0, <1>2 DEF Typed, WordTypes
  <2>2. /\ Marked(z, p)' <=> WAITING(z) \in flags'[p]
        /\ Pended(z, p)' <=> PENDING(z) \in flags'[p]
    BY DEF Marked, Pended, WAITING, PENDING
  <2>3. CASE p # n
    BY <2>1, <2>2, <2>3 DEF Marked, Pended
  <2>4. CASE p = n
    <3>1. c = "clearWaiting" => flags'[p] = flags[p] \ {WAITING(y)}
      BY <2>1, <2>4 DEF NewWord
    <3>2. c = "setWaiting" => flags'[p] = flags[p] \cup {WAITING(y)}
      BY <2>1, <2>4 DEF NewWord
    <3>3. c = "clearPending" => flags'[p] = flags[p] \ {PENDING(y)}
      BY <2>1, <2>4 DEF NewWord
    <3>4. c = "setPending" => flags'[p] = flags[p] \cup {PENDING(y)}
      BY <2>1, <2>4 DEF NewWord
    <3> QED
      BY <2>2, <2>4, <3>1, <3>2, <3>3, <3>4, <1>1, <1>3 DEF Marked, Pended
  <2> QED
    BY <2>3, <2>4
<1>5. \A z \in Sides, p \in Packets :
         /\ Waits(z, p)' <=> Waits(z, p)
         /\ Works(z, p)' <=> Works(z, p)
         /\ Asleep(z, p)' <=> Asleep(z, p)
         /\ Fires(z, p)' <=> Fires(z, p)
  BY <1>1 DEF Waits, Works, Asleep, Fires
<1>6. UnitInv' /\ Shrinks
  BY <1>1, <1>5, UnitsKept
<1>7. \A p \in Packets :
         /\ \A d \in Commands : ~Does(x, d, p)'
         /\ \A d \in Commands : Does(x, d, p) <=> d = c /\ p = n
         /\ \A d \in Commands : Does(y, d, p)' <=> Does(y, d, p)
  BY <1>1 DEF Does, Commands, c, n
<1>8. ASSUME NEW p \in Packets, Sync(y, p) PROVE Sync(y, p)'
  <2>1. Mark(y, p)' <=> Mark(y, p) \/ (p = n /\ c = "setWaiting")
    BY <1>0, <1>1, <1>4, <1>7 DEF Mark, Commands
  <2>2. Pend(y, p)' <=> Pend(y, p) \/ (p = n /\ c = "setPending")
    BY <1>0, <1>1, <1>4, <1>7 DEF Pend, Commands
  <2>3. Told(y, p)' <=> Told(y, p)
    BY <1>0, <1>1, <1>5, <1>7, <2>2 DEF Told, Commands
  <2>4. /\ Does(x, "setWaiting", p) <=> p = n /\ c = "setWaiting"
        /\ Does(x, "setPending", p) <=> p = n /\ c = "setPending"
        /\ ~Does(x, "wait", p) /\ ~Does(x, "commited", p)
    BY <1>1, <1>7 DEF Commands
  <2>5. Asleep(y, p) => Mark(y, p)'
    BY <1>0, <1>8, <2>1, <2>4 DEF Sync
  <2>6. Mark(y, p)' => Asleep(y, p)
    BY <1>0, <1>8, <2>1, <2>4 DEF Sync
  <2>7. Mark(y, p)' => ~Pended(y, p)'
    <3>1. CASE p = n /\ c = "setWaiting"
      BY <1>0, <1>4, <1>8, <2>4, <3>1 DEF Sync
    <3>2. CASE ~(p = n /\ c = "setWaiting") /\ Mark(y, p)
      <4>1. ~Pended(y, p)
        BY <1>8, <3>2 DEF Sync
      <4>2. ~(p = n /\ c = "setPending")
        BY <1>0, <1>8, <2>4, <3>2 DEF Sync, Mark
      <4> QED
        BY <1>0, <1>4, <4>1, <4>2
    <3> QED
      BY <2>1, <3>1, <3>2
  <2>8. Fires(x, p) => ~Pend(y, p)'
    BY <1>0, <1>8, <2>2, <2>4 DEF Sync
  <2> QED
    BY <1>0, <1>1, <1>5, <1>7, <1>8, <2>3, <2>5, <2>6, <2>7, <2>8
    DEF Sync, Commands
<1>9. apc[y] # "finished" => \A p \in Packets : Sync(y, p)'
  BY <1>0, <1>8 DEF SyncInv
<1>10. \A p \in Packets :
          (Marked(x, p)' <=> Marked(x, p)) /\ (Pended(x, p)' <=> Pended(x, p))
  BY <1>0, <1>4
<1>11. SyncInv'
  BY <1>0, <1>1, <1>5, <1>7, <1>9, <1>10, OneWaker DEF y
<1> QED
  BY <1>6, <1>11

\* dsi_packet_get_abort up to the jump.
LEMMA AbortFlagSteps ==
    ASSUME Typed, AbortInv, UnitInv, SyncInv, NEW x \in Sides,
           AbortSet(x) \/ AbortTest(x)
    PROVE  UnitInv' /\ SyncInv' /\ Shrinks
<1> USE DEF sgvars, syncvars, hist
<1>1. /\ UNCHANGED <<sem, flags, held, wpc, wpkt, spc, spkt>>
      /\ \A z \in Sides : apc[z] = "finished" => apc'[z] = "finished"
  BY DEF AbortSet, AbortTest, Typed, ThreadTypes
<1>2. \A z \in Sides, p \in Packets :
         /\ Waits(z, p)' <=> Waits(z, p)
         /\ Works(z, p)' <=> Works(z, p)
         /\ Own(z, p)' <=> Own(z, p)
         /\ Has(z, p)' <=> Has(z, p)
  BY <1>1 DEF Waits, Works, Own, Has
<1>3. UnitInv'
  BY <1>1, <1>2, Places DEF UnitInv, Unit
<1>4. \A z \in Sides, p \in Packets : Sync(z, p) => Sync(z, p)'
  BY <1>1 DEF Sync, Told, Fires, Does, Mark, Pend, Marked, Pended, Waits, Asleep
<1>5. SyncInv'
  BY <1>1, <1>4 DEF SyncInv
<1> QED
  BY <1>2, <1>3, <1>5 DEF Shrinks

\* The jump takes the work thread away, and what it had with it.
LEMMA AbortJumpSteps ==
    ASSUME Typed, AbortInv, UnitInv, SyncInv, NEW x \in Sides, AbortJump(x)
    PROVE  UnitInv' /\ SyncInv' /\ Shrinks
<1> USE DEF sgvars, syncvars, hist
<1> DEFINE y == Peer(x)
<1>0. /\ wpc \in [Sides -> WorkerPcs] /\ wpkt \in [Sides -> Packets]
      /\ apc \in [Sides -> {"idle", "test", "jump", "finished"}]
      /\ y \in Sides /\ y # x /\ Peer(y) = x
      /\ \A z \in Sides : z = x \/ z = y
  BY Places DEF Typed, ThreadTypes, Sides, Peer
<1>1. /\ UNCHANGED <<sem, flags, held, spc, spkt>>
      /\ apc'[x] = "finished" /\ apc'[y] = apc[y]
      /\ wpc'[x] \in {"idle", "lost"}
      /\ wpc'[y] = wpc[y] /\ wpkt'[y] = wpkt[y]
      /\ wpc[x] \in {"notify", "lost"} => wpc'[x] = "lost"
  BY <1>0 DEF AbortJump, Eeos, Goto, Enter, InGet
<1> HIDE DEF y
<1>2. \A z \in Sides, p \in Packets :
         /\ Waits(z, p)' <=> Waits(z, p) /\ z = y
         /\ Works(z, p)' <=> Works(z, p) /\ z = y
  BY <1>0, <1>1 DEF Waits, Works, Working
<1>3. \A z \in Sides, p \in Packets :
         Own(z, p)' <=> p \in held[z] \/ (Works(z, p) /\ z = y)
  BY <1>1, <1>2 DEF Own
<1>4. \A z \in Sides, p \in Packets : Has(z, p)' => Has(z, p)
  BY <1>1, <1>2, <1>3 DEF Has, Own
<1>5. UnitInv'
  BY <1>0, <1>1, <1>2, <1>3, <1>4, Places DEF UnitInv, Unit, Own
<1>6. ASSUME NEW p \in Packets, Sync(y, p) PROVE Sync(y, p)'
  <2>1. /\ Waits(y, p)' <=> Waits(y, p)
        /\ Asleep(y, p)' <=> Asleep(y, p)
        /\ Marked(y, p)' <=> Marked(y, p)
        /\ Pended(y, p)' <=> Pended(y, p)
        /\ \A c \in Commands : Does(x, c, p)' <=> Does(x, c, p)
    BY <1>0, <1>1, <1>2 DEF Asleep, Marked, Pended, Does
  <2>2. ~Fires(x, p)' /\ (Fires(x, p) => wpc'[x] = "lost")
    BY <1>1 DEF Fires
  <2>3. /\ Mark(y, p)' <=> Mark(y, p)
        /\ Pend(y, p)' <=> Pend(y, p)
    BY <1>0, <2>1 DEF Mark, Pend, Commands
  <2>4. (Told(y, p)' => Told(y, p)) /\ (Told(y, p) => Told(y, p)' \/ Fires(x, p))
    BY <1>0, <2>1, <2>2, <2>3 DEF Told, Commands
  <2> QED
    BY <1>0, <1>1, <1>6, <2>1, <2>2, <2>3, <2>4 DEF Sync, Commands
<1>7. SyncInv'
  BY <1>0, <1>1, <1>6 DEF SyncInv
<1> QED
  BY <1>4, <1>5, <1>7 DEF Shrinks

\* Steps that touch nothing of this keep it.
LEMMA SilentSteps ==
    ASSUME UnitInv, SyncInv, Silent \/ UNCHANGED vars
    PROVE  UnitInv' /\ SyncInv' /\ Shrinks
<1>1. UNCHANGED <<sem, flags, held, wpc, wpkt, spc, spkt, apc>>
  BY SilentFrame DEF core, vars, syncvars
<1>2. UnitInv' /\ Shrinks
  BY <1>1 DEF UnitInv, Shrinks, Unit, Has, Own, Works, Waits
<1>3. SyncInv'
  BY <1>1
  DEF SyncInv, Sync, Told, Fires, Does, Mark, Pend, Marked, Pended, Waits, Asleep
<1> QED
  BY <1>2, <1>3

\* Every step keeps both invariants, and only dsi_up passes a packet on.
LEMMA UnitSteps ==
    ASSUME Intact', Typed, AbortInv, UnitInv, SyncInv, Next
    PROVE  /\ UnitInv' /\ SyncInv'
           /\ (\A x \in Sides : ~Up(x)) => Shrinks
<1>1. ASSUME NEW x \in Sides, WorkThread(x)
      PROVE  UnitInv' /\ SyncInv' /\ (~Up(x) => Shrinks)
  BY <1>1, WorkerSteps, TrySteps, DownSteps, UpSteps DEF WorkThread
<1>2. ASSUME NEW x \in Sides, SyncThread(x)
      PROVE  UnitInv' /\ SyncInv' /\ Shrinks
  BY <1>2, CommitedSteps, WaitSteps, HandleCommitedSteps, HandleWaitSteps, StoreSteps,
     SilentSteps
  DEF SyncThread, Silent
<1>3. ASSUME NEW x \in Sides, Aborter(x)
      PROVE  UnitInv' /\ SyncInv' /\ Shrinks
  BY <1>3, AbortFlagSteps, AbortJumpSteps DEF Aborter
<1>4. ASSUME NEW x \in Sides, Configurer(x)
      PROVE  UnitInv' /\ SyncInv' /\ Shrinks
  BY <1>4, SilentSteps DEF Silent
<1> QED
  BY <1>1, <1>2, <1>3, <1>4, WorkerSteps DEF Next

\* Every step, also one that changes nothing, keeps both invariants.
LEMMA UnitNext ==
    ASSUME Intact', Typed, AbortInv, UnitInv, SyncInv, [Next]_vars
    PROVE  UnitInv' /\ SyncInv'
BY SilentSteps, UnitSteps

\* The invariants hold initially.
LEMMA UnitInit == Init => AbortInv /\ UnitInv /\ SyncInv
<1> SUFFICES ASSUME Init PROVE AbortInv /\ UnitInv /\ SyncInv
  OBVIOUS
<1>1. \A x \in Sides, p \in Packets :
         /\ sem[x][p] = IF x = "S" THEN 1 ELSE 0
         /\ wpc[x] = "idle" /\ spc[x] = "idle" /\ apc[x] = "idle"
         /\ held[x] = {} /\ flags[p] = {} /\ ~abort[x]
  BY DEF Init
<1>2. AbortInv
  BY DEF AbortInv, Init, InBlock, Blocked
<1>3. \A x \in Sides, p \in Packets : ~Own(x, p) /\ ~Waits(x, p) /\ ~Works(x, p)
  BY <1>1 DEF Own, Works, Working, Waits
<1>4. UnitInv
  BY <1>1, <1>3, Places DEF UnitInv, Unit, Has
<1>5. ASSUME NEW y \in Sides, NEW p \in Packets PROVE Sync(y, p)
  <2>1. /\ ~Fires(Peer(y), p) /\ ~Asleep(y, p) /\ ~Marked(y, p) /\ ~Pended(y, p)
        /\ \A c \in Commands : ~Does(Peer(y), c, p)
    BY <1>1, Places DEF Fires, Asleep, Marked, Pended, Does, Commands
  <2> QED
    BY <2>1, <1>3 DEF Sync, Told, Mark, Pend, Commands
<1> QED
  BY <1>2, <1>4, <1>5 DEF SyncInv

-----------------------------------------------------------------------------
(* What packets_committed counts.                                          *)

(* A packet the sender has counted and not passed on yet, or the receiver   *)
(* has taken out of the count and not passed on yet.                        *)
Passing(x, p) ==
    wpc[x] \in (IF x = "S" THEN {"up"} ELSE {"free", "up"}) /\ wpkt[x] = p

Counted   == {p \in Packets : Passing("S", p) \/ (Has("R", p) /\ ~Passing("R", p))}
Uncounted == {p \in Packets : Passing("R", p) \/ (Has("S", p) /\ ~Passing("S", p))}

(* A packet that an aborted thread took with it may be in neither set.      *)
CountInv ==
    /\ Cardinality(Counted) <= committed
    /\ committed + Cardinality(Uncounted) <= N

\* A packet leaves the count of a side only with dsi_up, or is lost.
LEMMA PassingSteps ==
    ASSUME Typed, UnitInv, Next, \A x \in Sides : ~Up(x),
           ~CommitCallback, ~Uncount, \A p \in Packets : ~CommitSend(p)
    PROVE  \A z \in Sides, q \in Packets :
              /\ Passing(z, q)' => Passing(z, q)
              /\ Passing(z, q) /\ ~Passing(z, q)' => ~Has(z, q)'
<1> USE DEF sgvars, syncvars, hist
<1> DEFINE Kept == \A z \in Sides, q \in Packets :
                      /\ Passing(z, q)' => Passing(z, q)
                      /\ Passing(z, q) /\ ~Passing(z, q)' => ~Has(z, q)'
<1>0. /\ wpc \in [Sides -> WorkerPcs] /\ wpkt \in [Sides -> Packets]
      /\ held \in [Sides -> SUBSET Packets]
  BY DEF Typed, ThreadTypes
<1>1. ASSUME NEW x \in Sides, GetTry(x) PROVE Kept
  <2>1. \A z \in Sides, q \in Packets : Passing(z, q)' <=> Passing(z, q)
    BY <1>0, <1>1, Places DEF GetTry, Enter, Passing
  <2> QED
    BY <2>1
<1>2. ASSUME NEW x \in Sides, GetBlock(x) PROVE Kept
  <2>1. \A z \in Sides, q \in Packets : Passing(z, q)' <=> Passing(z, q)
    BY <1>0, <1>2, Places DEF GetBlock, Goto, Enter, Passing
  <2> QED
    BY <2>1
<1>3. ASSUME NEW x \in Sides, GetRecheck(x) PROVE Kept
  <2>1. \A z \in Sides, q \in Packets : Passing(z, q)' <=> Passing(z, q)
    BY <1>0, <1>3, Places DEF GetRecheck, Eeos, Goto, Enter, Passing
  <2> QED
    BY <2>1
<1>4. ASSUME NEW x \in Sides, GetDown(x) PROVE Kept
  <2>1. \A z \in Sides, q \in Packets : Passing(z, q)' <=> Passing(z, q)
    BY <1>0, <1>4, Places DEF GetDown, Goto, Enter, Passing
  <2> QED
    BY <2>1
<1>5. ASSUME NEW x \in Sides, GetUnblock(x) PROVE Kept
  <2>1. \A z \in Sides, q \in Packets : Passing(z, q)' <=> Passing(z, q)
    BY <1>0, <1>5, Places DEF GetUnblock, Goto, Enter, Passing
  <2> QED
    BY <2>1
<1>6. ASSUME NEW x \in Sides, GetTake(x) PROVE Kept
  <2>1. \A z \in Sides, q \in Packets : Passing(z, q)' <=> Passing(z, q)
    BY <1>0, <1>6, Places DEF GetTake, Goto, Enter, Passing
  <2> QED
    BY <2>1
<1>7. ASSUME GetClear PROVE Kept
  <2>1. \A z \in Sides, q \in Packets : Passing(z, q)' <=> Passing(z, q)
    BY <1>0, <1>7, Places DEF GetClear, Goto, Enter, Passing
  <2> QED
    BY <2>1
<1>8. ASSUME Search PROVE Kept
  <2>1. \A z \in Sides, q \in Packets : Passing(z, q)' <=> Passing(z, q)
    BY <1>0, <1>8, Places DEF Search, Goto, Enter, Passing
  <2> QED
    BY <2>1
<1>9. ASSUME NEW p \in Packets, AddData(p) PROVE Kept
  <2>1. \A z \in Sides, q \in Packets : Passing(z, q)' <=> Passing(z, q)
    BY <1>0, <1>9, Places DEF AddData, Enter, Passing
  <2> QED
    BY <2>1
<1>10. ASSUME NEW p \in Packets, CommitReceive(p) PROVE Kept
  <2>1. \A z \in Sides, q \in Packets : Passing(z, q)' <=> Passing(z, q)
    BY <1>0, <1>10, Places DEF CommitReceive, Enter, Passing
  <2> QED
    BY <2>1
<1>11. ASSUME NEW x \in Sides, ReceiveCommited(x) PROVE Kept
  <2>1. \A z \in Sides, q \in Packets : Passing(z, q)' <=> Passing(z, q)
    BY <1>0, <1>11, Places DEF ReceiveCommited, SyncReceive, Goto, Enter, Passing
  <2> QED
    BY <2>1
<1>12. ASSUME NEW x \in Sides, ReceiveWait(x) PROVE Kept
  <2>1. \A z \in Sides, q \in Packets : Passing(z, q)' <=> Passing(z, q)
    BY <1>0, <1>12, Places DEF ReceiveWait, SyncReceive, Goto, Enter, Passing
  <2> QED
    BY <2>1
<1>13. ASSUME ReceiveRelease PROVE Kept
  <2>1. \A z \in Sides, q \in Packets : Passing(z, q)' <=> Passing(z, q)
    BY <1>0, <1>13, Places DEF ReceiveRelease, SyncReceive, Goto, Enter, Passing
  <2> QED
    BY <2>1
<1>14. ASSUME NEW x \in Sides, HandleCommited(x) PROVE Kept
  <2>1. \A z \in Sides, q \in Packets : Passing(z, q)' <=> Passing(z, q)
    BY <1>0, <1>14, Places DEF HandleCommited, Wakeup, Passing
  <2> QED
    BY <2>1
<1>15. ASSUME NEW x \in Sides, HandleWait(x) PROVE Kept
  <2>1. \A z \in Sides, q \in Packets : Passing(z, q)' <=> Passing(z, q)
    BY <1>0, <1>15, Places DEF HandleWait, Wakeup, Passing
  <2> QED
    BY <2>1
<1>16. ASSUME NEW x \in Sides, SyncStore(x) PROVE Kept
  <2>1. \A z \in Sides, q \in Packets : Passing(z, q)' <=> Passing(z, q)
    BY <1>0, <1>16, Places DEF SyncStore, Passing
  <2> QED
    BY <2>1
<1>17. ASSUME CallbackReturn PROVE Kept
  <2>1. \A z \in Sides, q \in Packets : Passing(z, q)' <=> Passing(z, q)
    BY <1>0, <1>17, Places DEF CallbackReturn, Passing
  <2> QED
    BY <2>1
<1>18. ASSUME NEW x \in Sides, AbortSet(x) PROVE Kept
  <2>1. \A z \in Sides, q \in Packets : Passing(z, q)' <=> Passing(z, q)
    BY <1>0, <1>18, Places DEF AbortSet, Passing
  <2> QED
    BY <2>1
<1>19. ASSUME NEW x \in Sides, AbortTest(x) PROVE Kept
  <2>1. \A z \in Sides, q \in Packets : Passing(z, q)' <=> Passing(z, q)
    BY <1>0, <1>19, Places DEF AbortTest, Passing
  <2> QED
    BY <2>1
<1>20. ASSUME NEW x \in Sides, UNCHANGED <<sem, held>>,
             wpc'[x] \in {"idle", "panic", "lost"},
             wpc'[Peer(x)] = wpc[Peer(x)], wpkt'[Peer(x)] = wpkt[Peer(x)]
      PROVE  Kept
  <2>1. \A z \in Sides : z = x \/ z = Peer(x)
    BY DEF Sides, Peer
  <2>2. \A q \in Packets : Passing(Peer(x), q)' <=> Passing(Peer(x), q)
    BY <1>20 DEF Passing
  <2>3. \A q \in Packets : Passing(x, q)' => Passing(x, q)
    BY <1>20 DEF Passing
  <2>4. ASSUME NEW q \in Packets, Passing(x, q), ~Passing(x, q)' PROVE ~Has(x, q)'
    <3>1. Own(x, q) /\ ~Waits(x, q)' /\ ~Works(x, q)'
      BY <1>20, <2>4 DEF Passing, Own, Works, Waits, Working
    <3>2. q \notin held'[x]
      BY <1>20, <2>4 DEF Passing, UnitInv, Unit, Works, Working
    <3>3. sem[x][q] <= 0 /\ sem[x][q] \in Int
      BY <3>1 DEF UnitInv, Unit
    <3> QED
      BY <1>20, <3>1, <3>2, <3>3 DEF Has, Own
  <2> QED
    BY <2>1, <2>2, <2>3, <2>4
<1>21. ASSUME NEW x \in Sides, AbortJump(x) PROVE Kept
  <2>1. /\ wpc'[x] \in {"idle", "panic", "lost"}
        /\ wpc'[Peer(x)] = wpc[Peer(x)] /\ wpkt'[Peer(x)] = wpkt[Peer(x)]
        /\ UNCHANGED <<sem, held>>
    BY <1>0, <1>21, Places DEF AbortJump, Eeos, Goto, Enter
  <2> QED
    BY <2>1, <1>20
<1>22. ASSUME FreeElem PROVE Kept
  <2>1. CASE wpc'["R"] = "panic"
    <3>1. /\ wpc'["S"] = wpc["S"] /\ wpkt'["S"] = wpkt["S"]
          /\ UNCHANGED <<sem, held>> /\ Peer("R") = "S"
      BY <1>0, <1>22, Places DEF FreeElem, Goto, Enter, Peer
    <3> QED
      BY <2>1, <3>1, <1>20, Places
  <2>2. CASE wpc'["R"] # "panic"
    <3>1. \A z \in Sides, q \in Packets : Passing(z, q)' <=> Passing(z, q)
      BY <1>0, <1>22, <2>2, Places DEF FreeElem, Goto, Enter, Passing
    <3> QED
      BY <3>1
  <2> QED
    BY <2>1, <2>2
<1>23. CASE Silent
  BY <1>23, SilentFrame DEF core, Passing
<1> QED
  BY <1>1, <1>2, <1>3, <1>4, <1>5, <1>6, <1>7, <1>8, <1>9, <1>10, <1>11, <1>12, <1>13, <1>14, <1>15, <1>16, <1>17, <1>18, <1>19, <1>21, <1>22, <1>23
  DEF Next, WorkThread, SendThread, ReceiveThread, SyncThread, Aborter, Silent

\* The counts are of finite sets.
LEMMA CountSets ==
    /\ IsFiniteSet(Counted) /\ Cardinality(Counted) \in Nat
    /\ IsFiniteSet(Uncounted) /\ Cardinality(Uncounted) \in Nat
    /\ IsFiniteSet(Counted') /\ Cardinality(Counted') \in Nat
    /\ IsFiniteSet(Uncounted') /\ Cardinality(Uncounted') \in Nat
<1>1. IsFiniteSet(Packets)
  BY StreamAssumption, FS_Interval DEF Packets
<1>2. /\ Counted \subseteq Packets /\ Uncounted \subseteq Packets
      /\ Counted' \subseteq Packets /\ Uncounted' \subseteq Packets
  BY DEF Counted, Uncounted, Packets
<1>3. /\ IsFiniteSet(Counted) /\ IsFiniteSet(Uncounted)
      /\ IsFiniteSet(Counted') /\ IsFiniteSet(Uncounted')
  BY <1>1, <1>2, FS_Subset
<1> QED
  BY <1>3, FS_CardinalityType

\* Steps that leave packets_committed alone.
LEMMA CountKept ==
    ASSUME Typed, CountInv, UNCHANGED committed,
           Counted' \subseteq Counted, Uncounted' \subseteq Uncounted
    PROVE  CountInv'
<1>1. /\ Cardinality(Counted') <= Cardinality(Counted)
      /\ Cardinality(Uncounted') <= Cardinality(Uncounted)
  BY CountSets, FS_Subset
<1>2. Cardinality(Counted') <= committed' /\ committed' + Cardinality(Uncounted') <= N
  BY <1>1, CountSets, StreamAssumption DEF CountInv, Typed, WordTypes
<1> QED
  BY <1>2 DEF CountInv

\* header->packets_committed++ and header->packets_committed--.
LEMMA CountMoves ==
    ASSUME Typed, CountInv, NEW n \in Packets,
           \/ /\ committed' = committed + 1
              /\ Counted' \subseteq Counted \cup {n}
              /\ Uncounted' \subseteq Uncounted \ {n}
              /\ n \in Uncounted
           \/ /\ committed' = committed - 1
              /\ Counted' \subseteq Counted \ {n}
              /\ n \in Counted
              /\ Uncounted' \subseteq Uncounted \cup {n}
    PROVE  CountInv'
<1> DEFINE c == Cardinality(Counted)
           u == Cardinality(Uncounted)
<1>0. c \in Nat /\ u \in Nat /\ committed \in Int /\ N \in Nat
  BY CountSets, StreamAssumption DEF Typed, WordTypes
<1>1. /\ IsFiniteSet(Counted \cup {n})
      /\ Cardinality(Counted \cup {n}) = IF n \in Counted THEN c ELSE c + 1
      /\ IsFiniteSet(Uncounted \cup {n})
      /\ Cardinality(Uncounted \cup {n}) = IF n \in Uncounted THEN u ELSE u + 1
  BY CountSets, FS_AddElement
<1>2. /\ IsFiniteSet(Counted \ {n})
      /\ Cardinality(Counted \ {n}) = IF n \in Counted THEN c - 1 ELSE c
      /\ IsFiniteSet(Uncounted \ {n})
      /\ Cardinality(Uncounted \ {n}) = IF n \in Uncounted THEN u - 1 ELSE u
  BY CountSets, FS_RemoveElement
<1>3. CASE /\ committed' = committed + 1
           /\ Counted' \subseteq Counted \cup {n}
           /\ Uncounted' \subseteq Uncounted \ {n}
           /\ n \in Uncounted
  <2>1. /\ Cardinality(Counted') <= Cardinality(Counted \cup {n})
        /\ Cardinality(Uncounted') <= Cardinality(Uncounted \ {n})
    BY <1>1, <1>2, <1>3, FS_Subset
  <2>2. /\ Cardinality(Counted \cup {n}) \in Nat /\ Cardinality(Counted \cup {n}) <= c + 1
        /\ Cardinality(Uncounted \ {n}) = u - 1
    BY <1>0, <1>1, <1>2, <1>3
  <2>3. /\ Cardinality(Counted') <= committed'
        /\ committed' + Cardinality(Uncounted') <= N
    BY <1>0, <1>3, <2>1, <2>2, CountSets DEF CountInv
  <2> QED
    BY <2>3 DEF CountInv
<1>4. CASE /\ committed' = committed - 1
           /\ Counted' \subseteq Counted \ {n}
           /\ n \in Counted
           /\ Uncounted' \subseteq Uncounted \cup {n}
  <2>1. /\ Cardinality(Counted') <= Cardinality(Counted \ {n})
        /\ Cardinality(Uncounted') <= Cardinality(Uncounted \cup {n})
    BY <1>1, <1>2, <1>4, FS_Subset
  <2>2. /\ Cardinality(Counted \ {n}) = c - 1
        /\ Cardinality(Uncounted \cup {n}) \in Nat /\ Cardinality(Uncounted \cup {n}) <= u + 1
    BY <1>0, <1>1, <1>2, <1>4
  <2>3. /\ Cardinality(Counted') <= committed'
        /\ committed' + Cardinality(Uncounted') <= N
    BY <1>0, <1>4, <2>1, <2>2, CountSets DEF CountInv
  <2> QED
    BY <2>3 DEF CountInv
<1> QED
  BY <1>3, <1>4

\* Every step keeps the count.
LEMMA CountNext ==
    ASSUME Intact', Typed, AbortInv, UnitInv, SyncInv, CountInv, [Next]_vars
    PROVE  CountInv'
<1> USE DEF sgvars, syncvars, hist
<1>0. /\ wpc \in [Sides -> WorkerPcs] /\ wpkt \in [Sides -> Packets]
      /\ held \in [Sides -> SUBSET Packets]
      /\ \A p \in Packets : ~(Has("S", p) /\ Has("R", p))
      /\ \A x \in Sides, p \in Packets : Passing(x, p) => Works(x, p) /\ Has(x, p)
      /\ \A x \in Sides : wpkt[x] \in Packets
  BY DEF Typed, ThreadTypes, UnitInv, Passing, Works, Working, Has, Own
<1>1. CASE UNCHANGED vars
  <2>1. UNCHANGED <<sem, wpc, wpkt, held, committed>>
    BY <1>1 DEF vars
  <2>2. Counted' = Counted /\ Uncounted' = Uncounted
    BY <2>1 DEF Counted, Uncounted, Passing, Has, Own, Works, Waits
  <2> QED
    BY <2>1, <2>2, CountKept
<1>2. ASSUME NEW x \in Sides, Up(x) PROVE CountInv'
  <2> DEFINE n == wpkt[x]
             r == Peer(x)
  <2>1. /\ wpc[x] = "up" /\ wpc'[x] \in {"idle", "notify"}
        /\ wpc'[r] = wpc[r] /\ wpkt'[r] = wpkt[r]
        /\ UNCHANGED committed /\ n \in Packets /\ r \in Sides
    BY <1>0, <1>2, Places DEF Up, Goto, Enter
  <2>2. /\ \A p \in Packets : Has(x, p)' => Has(x, p) /\ p # n
        /\ \A p \in Packets : Has(r, p)' => Has(r, p) \/ p = n
    BY <1>2, UpSteps DEF Passed
  <2>3. /\ \A p \in Packets : Passing(x, p) <=> p = n
        /\ \A p \in Packets : ~Passing(x, p)'
        /\ \A p \in Packets : Passing(r, p)' <=> Passing(r, p)
    BY <2>1 DEF Passing
  <2>4. ~Passing(r, n)
    BY <1>0, <2>1, <2>3 DEF Peer, Sides
  <2>5. Counted' \subseteq Counted /\ Uncounted' \subseteq Uncounted
    <3>1. CASE x = "S"
      <4>1. x = "S" /\ r = "R"
        BY <3>1 DEF Peer
      <4> QED
        BY <4>1, <2>2, <2>3, <2>4 DEF Counted, Uncounted
    <3>2. CASE x = "R"
      <4>1. x = "R" /\ r = "S"
        BY <3>2 DEF Peer
      <4> QED
        BY <4>1, <2>2, <2>3, <2>4 DEF Counted, Uncounted
    <3> QED
      BY <3>1, <3>2 DEF Sides
  <2> QED
    BY <2>1, <2>5, CountKept
<1>3. ASSUME NEW n \in Packets, Has("S", n), ~Passing("S", n), Shrinks,
             committed' = committed + 1,
             \A p \in Packets : /\ Passing("S", p)' <=> p = n
                                /\ ~Passing("S", p)
                                /\ Passing("R", p)' <=> Passing("R", p)
      PROVE  CountInv'
  <2>1. n \in Uncounted
    BY <1>3 DEF Uncounted
  <2>2. ~Passing("R", n)
    BY <1>0, <1>3, Places
  <2>3. Counted' \subseteq Counted \cup {n}
    BY <1>3, Places DEF Counted, Shrinks
  <2>4. Uncounted' \subseteq Uncounted \ {n}
    BY <1>3, <2>2, Places DEF Uncounted, Shrinks
  <2> QED
    BY <1>3, <2>1, <2>3, <2>4, CountMoves
<1>4. ASSUME NEW p \in Packets, CommitSend(p) PROVE CountInv'
  <2>1. Shrinks
    BY <1>4, WorkerSteps DEF SendThread
  <2>2. CASE committed' = committed
    <3>1. wpc'["S"] # "up" /\ wpc["S"] # "up" /\ wpc'["R"] = wpc["R"] /\ wpkt'["R"] = wpkt["R"]
      BY <1>0, <1>4, <2>2, Places DEF CommitSend, Enter, Typed, WordTypes
    <3>2. \A q \in Packets : /\ ~Passing("S", q)' /\ ~Passing("S", q)
                             /\ Passing("R", q)' <=> Passing("R", q)
      BY <3>1 DEF Passing
    <3>3. Counted' \subseteq Counted /\ Uncounted' \subseteq Uncounted
      BY <2>1, <3>2, Places DEF Counted, Uncounted, Shrinks
    <3> QED
      BY <2>2, <3>3, CountKept
  <2>3. CASE committed' # committed
    <3>1. /\ committed' = committed + 1
          /\ wpc'["S"] = "up" /\ wpkt'["S"] = p /\ wpc["S"] = "idle"
          /\ wpc'["R"] = wpc["R"] /\ wpkt'["R"] = wpkt["R"]
      BY <1>0, <1>4, <2>3, Places DEF CommitSend, Enter
    <3>2. Has("S", p)
      BY <1>4 DEF CommitSend, Has, Own
    <3>3. \A q \in Packets : /\ Passing("S", q)' <=> q = p
                             /\ ~Passing("S", q)
                             /\ Passing("R", q)' <=> Passing("R", q)
      BY <3>1 DEF Passing
    <3> QED
      BY <1>3, <2>1, <3>1, <3>2, <3>3
  <2> QED
    BY <2>2, <2>3
<1>5. ASSUME CommitCallback PROVE CountInv'
  <2> DEFINE p == wpkt["S"]
  <2>1. Shrinks
    BY <1>5, WorkerSteps DEF SendThread
  <2>2. /\ committed' = committed + 1 /\ p \in Packets
        /\ wpc'["S"] = "up" /\ wpkt'["S"] = p /\ wpc["S"] = "callback"
        /\ wpc'["R"] = wpc["R"] /\ wpkt'["R"] = wpkt["R"]
    BY <1>0, <1>5, Places DEF CommitCallback, Goto, Enter
  <2>3. Has("S", p)
    BY <2>2 DEF Has, Own, Works, Working
  <2>4. \A q \in Packets : /\ Passing("S", q)' <=> q = p
                           /\ ~Passing("S", q)
                           /\ Passing("R", q)' <=> Passing("R", q)
    BY <2>2 DEF Passing
  <2> HIDE DEF p
  <2> QED
    BY <1>3, <2>1, <2>2, <2>3, <2>4
<1>6. ASSUME Uncount PROVE CountInv'
  <2> DEFINE n == wpkt["R"]
  <2>1. Shrinks
    BY <1>6, WorkerSteps DEF ReceiveThread
  <2>2. /\ committed' = committed - 1 /\ n \in Packets
        /\ wpc'["R"] = "free" /\ wpkt'["R"] = n /\ wpc["R"] = "uncount"
        /\ wpc'["S"] = wpc["S"] /\ wpkt'["S"] = wpkt["S"]
    BY <1>0, <1>6, Places DEF Uncount, Goto, Enter
  <2>3. Has("R", n)
    BY <2>2 DEF Has, Own, Works, Working
  <2>4. \A q \in Packets : /\ Passing("R", q)' <=> q = n
                           /\ ~Passing("R", q)
                           /\ Passing("S", q)' <=> Passing("S", q)
    BY <2>2 DEF Passing
  <2> HIDE DEF n
  <2>5. n \in Counted /\ ~Passing("S", n)
    BY <1>0, <2>2, <2>3, <2>4, Places DEF Counted
  <2>6. Counted' \subseteq Counted \ {n}
    BY <2>1, <2>4, <2>5, Places DEF Counted, Shrinks
  <2>7. Uncounted' \subseteq Uncounted \cup {n}
    BY <2>1, <2>4, Places DEF Uncounted, Shrinks
  <2> QED
    BY <2>2, <2>5, <2>6, <2>7, CountMoves
<1>7. CASE /\ Next
           /\ \A x \in Sides : ~Up(x)
           /\ ~CommitCallback /\ ~Uncount /\ \A p \in Packets : ~CommitSend(p)
  <2>1. Shrinks
    BY <1>7, UnitSteps
  <2>2. \A z \in Sides, q \in Packets :
           /\ Passing(z, q)' => Passing(z, q)
           /\ Passing(z, q) /\ ~Passing(z, q)' => ~Has(z, q)'
    BY <1>7, PassingSteps
  <2>3. Counted' \subseteq Counted
    BY <2>1, <2>2, Places DEF Counted, Shrinks
  <2>4. Uncounted' \subseteq Uncounted
    BY <2>1, <2>2, Places DEF Uncounted, Shrinks
  <2>5. UNCHANGED committed
    <3>1. ASSUME NEW x \in Sides, WorkThread(x) \/ SyncThread(x) \/ Aborter(x)
          PROVE  UNCHANGED committed
      BY <3>1
      DEF WorkThread, SyncThread, Aborter, GetTry, GetBlock, GetRecheck, GetDown,
          GetUnblock, GetTake, Up, ReceiveCommited, ReceiveWait, SyncReceive,
          HandleCommited, HandleWait, SyncLoad, SyncStore, AbortSet, AbortTest,
          AbortJump
    <3>2. SendThread => UNCHANGED committed
      BY <1>7 DEF SendThread, GetClear, Search, AddData
    <3>3. ReceiveThread => UNCHANGED committed
      BY <1>7 DEF ReceiveThread, FreeElem, CommitReceive
    <3>4. ReceiveRelease \/ CallbackReturn => UNCHANGED committed
      BY DEF ReceiveRelease, SyncReceive, CallbackReturn
    <3>5. ASSUME NEW x \in Sides, Configurer(x) PROVE UNCHANGED committed
      BY <3>5, SilentFrame DEF Silent, core
    <3> QED
      BY <1>7, <3>1, <3>2, <3>3, <3>4, <3>5 DEF Next
  <2> QED
    BY <2>3, <2>4, <2>5, CountKept
<1> QED
  BY <1>1, <1>2, <1>4, <1>5, <1>6, <1>7

\* Nothing is counted in the initial state.
LEMMA CountInit == Init => CountInv
<1> SUFFICES ASSUME Init PROVE CountInv
  OBVIOUS
<1>1. \A p \in Packets : ~Has("R", p) /\ ~Passing("S", p)
  BY Places DEF Init, Has, Own, Works, Working, Waits, Passing
<1>2. Counted = {}
  BY <1>1 DEF Counted
<1>3. Cardinality(Counted) = 0
  BY <1>2, FS_EmptySet
<1>4. IsFiniteSet(Packets) /\ Cardinality(Packets) = N
  BY StreamAssumption, FS_Interval DEF Packets
<1>5. Cardinality(Uncounted) <= N
  BY <1>4, FS_Subset DEF Uncounted
<1>6. committed = 0
  BY DEF Init
<1> QED
  BY <1>3, <1>5, <1>6, CountSets, StreamAssumption DEF CountInv

-----------------------------------------------------------------------------
(* Which packets of the stream the descriptors stand for.                  *)

Hands == {"clear", "callback", "release", "uncount", "free", "up"}

(* Side x has got packet p and not passed it on; it may have it without      *)
(* having got it yet.                                                        *)
InHand(x, p) == p \in held[x] \/ (wpc[x] \in Hands /\ wpkt[x] = p)
Fresh(x, p)  == Has(x, p) /\ ~InHand(x, p)

(* The packet of the stream that a side which has got g packets gets next    *)
(* with descriptor p.                                                        *)
DueAt(g, p) == CHOOSE s \in g .. (g + N - 1) : s % N = p
Due(x, p)   == DueAt(gets[x], p)

Cursor(x) ==
    /\ next[x] = gets[x] % N
    /\ wpc[x] \in Getting => wpkt[x] = next[x]

(* A descriptor goes round: the sender gets it, commits it, the receiver     *)
(* gets it as the same packet of the stream and releases it.                 *)
DueSend(p) ==
    /\ Fresh("S", p) => /\ Due("S", p) = Due("R", p)
                        /\ Due("S", p) < N \/ Due("S", p) - N \in done["R"]
    /\ InHand("S", p) => /\ Due("S", p) = Due("R", p) + N
                         /\ Due("S", p) - N \notin done["S"]
DueReceive(p) ==
    /\ Fresh("R", p) => /\ Due("S", p) = Due("R", p) + N
                        /\ Due("R", p) \in done["S"]
    /\ InHand("R", p) => /\ Due("S", p) = Due("R", p)
                         /\ Due("R", p) >= N
                         /\ Due("R", p) - N \notin done["R"]

DueInv ==
    /\ done \in [Sides -> SUBSET Nat]
    /\ \A x \in Sides : Cursor(x) /\ done[x] \subseteq 0 .. gets[x] - 1
    /\ \A p \in Packets : DueSend(p) /\ DueReceive(p)

\* The packet that is due next.
LEMMA DueAtIs ==
    ASSUME NEW g \in Nat, NEW p \in Packets
    PROVE  /\ DueAt(g, p) \in g .. (g + N - 1)
           /\ DueAt(g, p) % N = p
           /\ \A s \in g .. (g + N - 1) : s % N = p => s = DueAt(g, p)
<1>0. N \in Nat \ {0} /\ p \in 0 .. N - 1 /\ g \in Int
  BY StreamAssumption DEF Packets
<1>1. \E s \in g .. (g + N - 1) : s % N = p
  BY <1>0, ModReaches, Zenon
<1>2. DueAt(g, p) \in g .. (g + N - 1) /\ DueAt(g, p) % N = p
  BY <1>1, Zenon DEF DueAt
<1>3. ASSUME NEW s \in g .. (g + N - 1), s % N = p PROVE s = DueAt(g, p)
  <2> DEFINE d == DueAt(g, p)
  <2>1. d \in Int /\ s \in Int /\ d >= g /\ s >= g /\ d < g + N /\ s < g + N
        /\ d % N = s % N
    BY <1>0, <1>2, <1>3
  <2> HIDE DEF d
  <2>2. CASE d <= s
    <3>1. s < d + N
      BY <1>0, <2>1
    <3> QED
      BY <1>0, <2>1, <2>2, <3>1, ModSame DEF d
  <2>3. CASE s <= d
    <3>1. d < s + N
      BY <1>0, <2>1
    <3> QED
      BY <1>0, <2>1, <2>3, <3>1, ModSame DEF d
  <2> QED
    BY <2>1, <2>2, <2>3
<1> QED
  BY <1>2, <1>3

\* Getting a packet moves what is due with its descriptor by one turn, and
\* nothing else.
LEMMA DueAtMoves ==
    ASSUME NEW g \in Nat, NEW p \in Packets
    PROVE  /\ g % N = p => DueAt(g, p) = g /\ DueAt(g + 1, p) = g + N
           /\ g % N # p => DueAt(g + 1, p) = DueAt(g, p)
<1>0. N \in Nat \ {0} /\ g + 1 \in Nat /\ g \in Int
  BY StreamAssumption
<1>1. ASSUME g % N = p PROVE DueAt(g, p) = g /\ DueAt(g + 1, p) = g + N
  <2>1. g \in g .. (g + N - 1) /\ g + N \in (g + 1) .. (g + 1 + N - 1)
    BY <1>0
  <2>2. (g + N) % N = p
    BY <1>0, <1>1, ModShift, Zenon
  <2>3. g = DueAt(g, p)
    BY <1>1, <2>1, DueAtIs, Zenon
  <2>4. g + N = DueAt(g + 1, p)
    BY <1>0, <2>1, <2>2, DueAtIs, Zenon
  <2> QED
    BY <2>3, <2>4
<1>2. ASSUME g % N # p PROVE DueAt(g + 1, p) = DueAt(g, p)
  <2>1. DueAt(g, p) \in g .. (g + N - 1) /\ DueAt(g, p) # g /\ DueAt(g, p) % N = p
    BY <1>2, DueAtIs
  <2>2. DueAt(g, p) \in (g + 1) .. (g + 1 + N - 1)
    BY <1>0, <2>1
  <2> QED
    BY <1>0, <2>1, <2>2, DueAtIs
<1> QED
  BY <1>1, <1>2

\* The packet a side got last with a descriptor it has got packets with.
LEMMA SerialIs ==
    ASSUME Typed, NEW x \in Sides, NEW p \in Packets, Due(x, p) >= N
    PROVE  /\ Serial(x, p) = Due(x, p) - N
           /\ Serial(x, p) \in 0 .. gets[x] - 1
           /\ Serial(x, p) % N = p
<1> DEFINE g == gets[x]
           d == DueAt(g, p)
<1>0. N \in Nat \ {0} /\ g \in Nat /\ d = Due(x, p)
  BY StreamAssumption DEF Typed, ThreadTypes, Due
<1>1. /\ d \in g .. (g + N - 1) /\ d % N = p
      /\ \A s \in g .. (g + N - 1) : s % N = p => s = d
  BY <1>0, DueAtIs
<1> HIDE DEF g, d
<1>2. d - N \in 0 .. g - 1 /\ d - N \in Int /\ (d - N) + N = d
  BY <1>0, <1>1
<1>3. (d - N) % N = p
  BY <1>0, <1>1, <1>2, ModShift
<1>4. (d - N) + N >= g
  BY <1>0, <1>1, <1>2
<1>5. ASSUME NEW s \in 0 .. g - 1, s % N = p, s + N >= g PROVE s = d - N
  <2>1. s + N \in g .. (g + N - 1)
    BY <1>0, <1>5
  <2>2. s \in Int
    BY <1>0
  <2>3. (s + N) % N = p
    BY <1>0, <1>5, <2>2, ModShift, Zenon
  <2>4. s + N = d
    BY <1>1, <2>1, <2>3, Zenon
  <2> QED
    BY <1>0, <2>4
<1>6. \E s \in 0 .. g - 1 : s % N = p /\ s + N >= g
  BY <1>2, <1>3, <1>4
<1>7. Serial(x, p) \in 0 .. g - 1 /\ Serial(x, p) % N = p /\ Serial(x, p) + N >= g
  BY <1>6, Zenon DEF Serial, g
<1>8. Serial(x, p) = d - N
  BY <1>5, <1>7
<1> QED
  BY <1>0, <1>7, <1>8 DEF g

\* A packet leaves the hands of a side only with dsi_up, or is lost.
LEMMA HandSteps ==
    ASSUME Typed, UnitInv, Next, \A x \in Sides : ~Up(x) /\ ~GetTake(x)
    PROVE  \A z \in Sides, q \in Packets :
              /\ InHand(z, q)' => InHand(z, q)
              /\ InHand(z, q) /\ ~InHand(z, q)' => ~Has(z, q)'
<1> USE DEF sgvars, syncvars, hist
<1> DEFINE Kept == \A z \in Sides, q \in Packets :
                      /\ InHand(z, q)' => InHand(z, q)
                      /\ InHand(z, q) /\ ~InHand(z, q)' => ~Has(z, q)'
<1>0. /\ wpc \in [Sides -> WorkerPcs] /\ wpkt \in [Sides -> Packets]
      /\ held \in [Sides -> SUBSET Packets]
  BY DEF Typed, ThreadTypes
<1>1. ASSUME NEW x \in Sides, GetTry(x) PROVE Kept
  <2>1. \A z \in Sides, q \in Packets : InHand(z, q)' <=> InHand(z, q)
    BY <1>0, <1>1, Places DEF GetTry, Enter, InHand, Hands
  <2> QED
    BY <2>1
<1>2. ASSUME NEW x \in Sides, GetBlock(x) PROVE Kept
  <2>1. \A z \in Sides, q \in Packets : InHand(z, q)' <=> InHand(z, q)
    BY <1>0, <1>2, Places DEF GetBlock, Goto, Enter, InHand, Hands
  <2> QED
    BY <2>1
<1>3. ASSUME NEW x \in Sides, GetRecheck(x) PROVE Kept
  <2>1. \A z \in Sides, q \in Packets : InHand(z, q)' <=> InHand(z, q)
    BY <1>0, <1>3, Places DEF GetRecheck, Eeos, Goto, Enter, InHand, Hands
  <2> QED
    BY <2>1
<1>4. ASSUME NEW x \in Sides, GetDown(x) PROVE Kept
  <2>1. \A z \in Sides, q \in Packets : InHand(z, q)' <=> InHand(z, q)
    BY <1>0, <1>4, Places DEF GetDown, Goto, Enter, InHand, Hands
  <2> QED
    BY <2>1
<1>5. ASSUME NEW x \in Sides, GetUnblock(x) PROVE Kept
  <2>1. \A z \in Sides, q \in Packets : InHand(z, q)' <=> InHand(z, q)
    BY <1>0, <1>5, Places DEF GetUnblock, Goto, Enter, InHand, Hands
  <2> QED
    BY <2>1
<1>6. ASSUME GetClear PROVE Kept
  <2>1. \A z \in Sides, q \in Packets : InHand(z, q)' <=> InHand(z, q)
    BY <1>0, <1>6, Places DEF GetClear, Goto, Enter, InHand, Hands
  <2> QED
    BY <2>1
<1>7. ASSUME Search PROVE Kept
  <2>1. \A z \in Sides, q \in Packets : InHand(z, q)' <=> InHand(z, q)
    BY <1>0, <1>7, Places DEF Search, Goto, Enter, InHand, Hands
  <2> QED
    BY <2>1
<1>8. ASSUME CommitCallback PROVE Kept
  <2>1. \A z \in Sides, q \in Packets : InHand(z, q)' <=> InHand(z, q)
    BY <1>0, <1>8, Places DEF CommitCallback, Goto, Enter, InHand, Hands
  <2> QED
    BY <2>1
<1>9. ASSUME NEW p \in Packets, AddData(p) PROVE Kept
  <2>1. \A z \in Sides, q \in Packets : InHand(z, q)' <=> InHand(z, q)
    BY <1>0, <1>9, Places DEF AddData, Enter, InHand, Hands
  <2> QED
    BY <2>1
<1>10. ASSUME NEW p \in Packets, CommitSend(p) PROVE Kept
  <2>1. \A z \in Sides, q \in Packets : InHand(z, q)' <=> InHand(z, q)
    BY <1>0, <1>10, Places DEF CommitSend, Enter, InHand, Hands
  <2> QED
    BY <2>1
<1>11. ASSUME Uncount PROVE Kept
  <2>1. \A z \in Sides, q \in Packets : InHand(z, q)' <=> InHand(z, q)
    BY <1>0, <1>11, Places DEF Uncount, Goto, Enter, InHand, Hands
  <2> QED
    BY <2>1
<1>12. ASSUME NEW p \in Packets, CommitReceive(p) PROVE Kept
  <2>1. \A z \in Sides, q \in Packets : InHand(z, q)' <=> InHand(z, q)
    BY <1>0, <1>12, Places DEF CommitReceive, Enter, InHand, Hands
  <2> QED
    BY <2>1
<1>13. ASSUME NEW x \in Sides, ReceiveCommited(x) PROVE Kept
  <2>1. \A z \in Sides, q \in Packets : InHand(z, q)' <=> InHand(z, q)
    BY <1>0, <1>13, Places DEF ReceiveCommited, SyncReceive, Goto, Enter, InHand, Hands
  <2> QED
    BY <2>1
<1>14. ASSUME NEW x \in Sides, ReceiveWait(x) PROVE Kept
  <2>1. \A z \in Sides, q \in Packets : InHand(z, q)' <=> InHand(z, q)
    BY <1>0, <1>14, Places DEF ReceiveWait, SyncReceive, Goto, Enter, InHand, Hands
  <2> QED
    BY <2>1
<1>15. ASSUME ReceiveRelease PROVE Kept
  <2>1. \A z \in Sides, q \in Packets : InHand(z, q)' <=> InHand(z, q)
    BY <1>0, <1>15, Places DEF ReceiveRelease, SyncReceive, Goto, Enter, InHand, Hands
  <2> QED
    BY <2>1
<1>16. ASSUME NEW x \in Sides, HandleCommited(x) PROVE Kept
  <2>1. \A z \in Sides, q \in Packets : InHand(z, q)' <=> InHand(z, q)
    BY <1>0, <1>16, Places DEF HandleCommited, Wakeup, InHand, Hands
  <2> QED
    BY <2>1
<1>17. ASSUME NEW x \in Sides, HandleWait(x) PROVE Kept
  <2>1. \A z \in Sides, q \in Packets : InHand(z, q)' <=> InHand(z, q)
    BY <1>0, <1>17, Places DEF HandleWait, Wakeup, InHand, Hands
  <2> QED
    BY <2>1
<1>18. ASSUME NEW x \in Sides, SyncStore(x) PROVE Kept
  <2>1. \A z \in Sides, q \in Packets : InHand(z, q)' <=> InHand(z, q)
    BY <1>0, <1>18, Places DEF SyncStore, InHand, Hands
  <2> QED
    BY <2>1
<1>19. ASSUME CallbackReturn PROVE Kept
  <2>1. \A z \in Sides, q \in Packets : InHand(z, q)' <=> InHand(z, q)
    BY <1>0, <1>19, Places DEF CallbackReturn, InHand, Hands
  <2> QED
    BY <2>1
<1>20. ASSUME NEW x \in Sides, AbortSet(x) PROVE Kept
  <2>1. \A z \in Sides, q \in Packets : InHand(z, q)' <=> InHand(z, q)
    BY <1>0, <1>20, Places DEF AbortSet, InHand, Hands
  <2> QED
    BY <2>1
<1>21. ASSUME NEW x \in Sides, AbortTest(x) PROVE Kept
  <2>1. \A z \in Sides, q \in Packets : InHand(z, q)' <=> InHand(z, q)
    BY <1>0, <1>21, Places DEF AbortTest, InHand, Hands
  <2> QED
    BY <2>1
<1>22. ASSUME NEW x \in Sides, UNCHANGED <<sem, held>>,
             wpc'[x] \in {"idle", "panic", "lost"},
             wpc'[Peer(x)] = wpc[Peer(x)], wpkt'[Peer(x)] = wpkt[Peer(x)]
      PROVE  Kept
  <2>1. \A z \in Sides : z = x \/ z = Peer(x)
    BY DEF Sides, Peer
  <2>2. \A q \in Packets : InHand(Peer(x), q)' <=> InHand(Peer(x), q)
    BY <1>22 DEF InHand, Hands
  <2>3. \A q \in Packets : InHand(x, q)' => InHand(x, q)
    BY <1>22 DEF InHand, Hands
  <2>4. ASSUME NEW q \in Packets, InHand(x, q), ~InHand(x, q)' PROVE ~Has(x, q)'
    <3>1. Own(x, q) /\ ~Waits(x, q)' /\ ~Works(x, q)'
      BY <1>22, <2>4 DEF InHand, Hands, Own, Works, Waits, Working
    <3>2. q \notin held'[x]
      BY <1>22, <2>4 DEF InHand, Hands
    <3>3. sem[x][q] <= 0 /\ sem[x][q] \in Int
      BY <3>1 DEF UnitInv, Unit
    <3> QED
      BY <1>22, <3>1, <3>2, <3>3 DEF Has, Own
  <2> QED
    BY <2>1, <2>2, <2>3, <2>4
<1>23. ASSUME NEW x \in Sides, AbortJump(x) PROVE Kept
  <2>1. /\ wpc'[x] \in {"idle", "panic", "lost"}
        /\ wpc'[Peer(x)] = wpc[Peer(x)] /\ wpkt'[Peer(x)] = wpkt[Peer(x)]
        /\ UNCHANGED <<sem, held>>
    BY <1>0, <1>23, Places DEF AbortJump, Eeos, Goto, Enter
  <2> QED
    BY <2>1, <1>22
<1>24. ASSUME FreeElem PROVE Kept
  <2>1. CASE wpc'["R"] = "panic"
    <3>1. /\ wpc'["S"] = wpc["S"] /\ wpkt'["S"] = wpkt["S"]
          /\ UNCHANGED <<sem, held>> /\ Peer("R") = "S"
      BY <1>0, <1>24, Places DEF FreeElem, Goto, Enter, Peer
    <3> QED
      BY <2>1, <3>1, <1>22, Places
  <2>2. CASE wpc'["R"] # "panic"
    <3>1. \A z \in Sides, q \in Packets : InHand(z, q)' <=> InHand(z, q)
      BY <1>0, <1>24, <2>2, Places DEF FreeElem, Goto, Enter, InHand, Hands
    <3> QED
      BY <3>1
  <2> QED
    BY <2>1, <2>2
<1>25. CASE Silent
  BY <1>25, SilentFrame DEF core, InHand
<1> QED
  BY <1>1, <1>2, <1>3, <1>4, <1>5, <1>6, <1>7, <1>8, <1>9, <1>10, <1>11, <1>12, <1>13, <1>14, <1>15, <1>16, <1>17, <1>18, <1>19, <1>20, <1>21, <1>23, <1>24, <1>25
  DEF Next, WorkThread, SendThread, ReceiveThread, SyncThread, Aborter, Silent

\* A work thread that gets a packet gets it with the descriptor at next_packet.
LEMMA CursorSteps ==
    ASSUME Typed, Next, \A x \in Sides : ~Up(x) /\ ~GetTake(x),
           \A x \in Sides : Cursor(x)
    PROVE  UNCHANGED <<gets, done>> /\ \A x \in Sides : Cursor(x)'
<1> USE DEF sgvars, syncvars, hist
<1>0. /\ wpc \in [Sides -> WorkerPcs] /\ wpkt \in [Sides -> Packets]
      /\ \A z \in Sides : wpc[z] \in Getting => wpkt[z] = next[z]
  BY DEF Typed, ThreadTypes, Cursor
<1> DEFINE Kept == /\ UNCHANGED <<gets, done, next>>
                   /\ \A z \in Sides : wpc'[z] \in Getting => wpkt'[z] = next[z]
<1>1. ASSUME NEW x \in Sides, GetTry(x) PROVE Kept
  BY <1>0, <1>1, Places DEF GetTry, Enter, Getting
<1>2. ASSUME NEW x \in Sides, GetBlock(x) PROVE Kept
  BY <1>0, <1>2, Places DEF GetBlock, Goto, Enter, Getting
<1>3. ASSUME NEW x \in Sides, GetRecheck(x) PROVE Kept
  BY <1>0, <1>3, Places DEF GetRecheck, Eeos, Goto, Enter, Getting
<1>4. ASSUME NEW x \in Sides, GetDown(x) PROVE Kept
  BY <1>0, <1>4, Places DEF GetDown, Goto, Enter, Getting
<1>5. ASSUME NEW x \in Sides, GetUnblock(x) PROVE Kept
  BY <1>0, <1>5, Places DEF GetUnblock, Goto, Enter, Getting
<1>6. ASSUME GetClear PROVE Kept
  BY <1>0, <1>6, Places DEF GetClear, Goto, Enter, Getting
<1>7. ASSUME Search PROVE Kept
  BY <1>0, <1>7, Places DEF Search, Goto, Enter, Getting
<1>8. ASSUME CommitCallback PROVE Kept
  BY <1>0, <1>8, Places DEF CommitCallback, Goto, Enter, Getting
<1>9. ASSUME NEW p \in Packets, AddData(p) PROVE Kept
  BY <1>0, <1>9, Places DEF AddData, Enter, Getting
<1>10. ASSUME NEW p \in Packets, CommitSend(p) PROVE Kept
  BY <1>0, <1>10, Places DEF CommitSend, Enter, Getting
<1>11. ASSUME Uncount PROVE Kept
  BY <1>0, <1>11, Places DEF Uncount, Goto, Enter, Getting
<1>12. ASSUME NEW p \in Packets, CommitReceive(p) PROVE Kept
  BY <1>0, <1>12, Places DEF CommitReceive, Enter, Getting
<1>13. ASSUME NEW x \in Sides, ReceiveCommited(x) PROVE Kept
  BY <1>0, <1>13, Places DEF ReceiveCommited, SyncReceive, Goto, Enter, Getting
<1>14. ASSUME NEW x \in Sides, ReceiveWait(x) PROVE Kept
  BY <1>0, <1>14, Places DEF ReceiveWait, SyncReceive, Goto, Enter, Getting
<1>15. ASSUME ReceiveRelease PROVE Kept
  BY <1>0, <1>15, Places DEF ReceiveRelease, SyncReceive, Goto, Enter, Getting
<1>16. ASSUME NEW x \in Sides, HandleCommited(x) PROVE Kept
  BY <1>0, <1>16, Places DEF HandleCommited, Wakeup, Getting
<1>17. ASSUME NEW x \in Sides, HandleWait(x) PROVE Kept
  BY <1>0, <1>17, Places DEF HandleWait, Wakeup, Getting
<1>18. ASSUME NEW x \in Sides, SyncStore(x) PROVE Kept
  BY <1>0, <1>18, Places DEF SyncStore, Getting
<1>19. ASSUME CallbackReturn PROVE Kept
  BY <1>0, <1>19, Places DEF CallbackReturn, Getting
<1>20. ASSUME NEW x \in Sides, AbortSet(x) PROVE Kept
  BY <1>0, <1>20, Places DEF AbortSet, Getting
<1>21. ASSUME NEW x \in Sides, AbortTest(x) PROVE Kept
  BY <1>0, <1>21, Places DEF AbortTest, Getting
<1>22. ASSUME FreeElem PROVE Kept
  BY <1>0, <1>22, Places DEF FreeElem, Goto, Enter, Getting
<1>23. ASSUME NEW x \in Sides, AbortJump(x) PROVE Kept
  BY <1>0, <1>23, Places DEF AbortJump, Eeos, Goto, Enter, Getting
<1>24. ASSUME Silent PROVE Kept
  BY <1>0, <1>24, SilentFrame DEF core
<1>25. Kept
  BY <1>1, <1>2, <1>3, <1>4, <1>5, <1>6, <1>7, <1>8, <1>9, <1>10, <1>11, <1>12, <1>13, <1>14, <1>15, <1>16, <1>17, <1>18, <1>19, <1>20, <1>21, <1>22, <1>23, <1>24
  DEF Next, WorkThread, SendThread, ReceiveThread, SyncThread, Aborter, Silent
<1> QED
  BY <1>25 DEF Cursor

\* Numbers of packets are numbers.
LEMMA DueTypes ==
    ASSUME Typed, NEW x \in Sides, NEW p \in Packets
    PROVE  /\ gets[x] \in Nat /\ N \in Nat \ {0}
           /\ Due(x, p) \in Nat /\ Due(x, p) % N = p
           /\ Due(x, p) >= gets[x] /\ Due(x, p) < gets[x] + N
<1>1. gets[x] \in Nat /\ N \in Nat \ {0}
  BY StreamAssumption DEF Typed, ThreadTypes
<1>2. Due(x, p) \in gets[x] .. (gets[x] + N - 1) /\ Due(x, p) % N = p
  BY <1>1, DueAtIs DEF Due
<1> QED
  BY <1>1, <1>2

\* What the steps that neither get nor pass on a packet leave alone.
LEMMA DueKept ==
    ASSUME Intact', Typed, AbortInv, UnitInv, SyncInv, DueInv, Next,
           \A x \in Sides : ~Up(x) /\ ~GetTake(x)
    PROVE  DueInv' /\ UNCHANGED <<gets, done>>
<1>1. UNCHANGED <<gets, done>> /\ \A x \in Sides : Cursor(x)'
  BY CursorSteps DEF DueInv
<1>2. Shrinks
  BY UnitSteps
<1>3. \A z \in Sides, q \in Packets :
         /\ InHand(z, q)' => InHand(z, q)
         /\ InHand(z, q) /\ ~InHand(z, q)' => ~Has(z, q)'
  BY HandSteps
<1>4. \A z \in Sides, q \in Packets : Fresh(z, q)' => Fresh(z, q)
  BY <1>2, <1>3 DEF Fresh, Shrinks
<1>5. \A z \in Sides, q \in Packets : Due(z, q)' = Due(z, q)
  BY <1>1 DEF Due
<1>6. ASSUME NEW q \in Packets PROVE DueSend(q)' /\ DueReceive(q)'
  <2>1. DueSend(q) /\ DueReceive(q)
    BY DEF DueInv
  <2> QED
    BY <2>1, <1>1, <1>3, <1>4, <1>5, Places DEF DueSend, DueReceive
<1>7. done' \in [Sides -> SUBSET Nat] /\ \A x \in Sides : done'[x] \subseteq 0 .. gets'[x] - 1
  BY <1>1 DEF DueInv
<1> QED
  BY <1>1, <1>6, <1>7 DEF DueInv

\* A side gets a packet only when the packet is its own and fresh; the other
\* side has it neither fresh nor in its hands.
LEMMA TakeFacts ==
    ASSUME Typed, AbortInv, UnitInv, SyncInv, DueInv, NEW x \in Sides, GetTake(x)
    PROVE  /\ wpkt[x] \in Packets /\ wpkt[x] = gets[x] % N /\ Fresh(x, wpkt[x])
           /\ Due(x, wpkt[x]) = gets[x]
           /\ ~Fresh(Peer(x), wpkt[x]) /\ ~InHand(Peer(x), wpkt[x])
<1> DEFINE n == wpkt[x]
           r == Peer(x)
<1>1. n \in Packets /\ wpc[x] = "got" /\ r \in Sides
  BY Places DEF GetTake, Typed, ThreadTypes
<1>2. n = gets[x] % N
  BY <1>1 DEF DueInv, Cursor, Getting
<1>3. Works(x, n) /\ n \notin held[x]
  BY <1>1 DEF Works, Working, UnitInv, Unit
<1>4. Has(x, n) /\ ~InHand(x, n)
  BY <1>1, <1>3 DEF Has, Own, InHand, Hands
<1>5. ~Has(r, n)
  BY <1>1, <1>4 DEF UnitInv, Peer, Sides
<1>6. ~InHand(r, n)
  BY <1>5 DEF InHand, Hands, Has, Own, Works, Working
<1>7. DueAt(gets[x], n) = gets[x]
  BY <1>1, <1>2, DueTypes, DueAtMoves
<1> QED
  BY <1>1, <1>2, <1>4, <1>5, <1>6, <1>7 DEF Fresh, Due

\* Getting a packet.
LEMMA DueTake ==
    ASSUME Intact', Typed, AbortInv, UnitInv, SyncInv, DueInv, NEW x \in Sides,
           GetTake(x)
    PROVE  DueInv'
<1> USE DEF sgvars, syncvars, hist
<1> DEFINE n == wpkt[x]
           r == Peer(x)
           g == gets[x]
<1>0. /\ wpc \in [Sides -> WorkerPcs] /\ wpkt \in [Sides -> Packets]
      /\ held \in [Sides -> SUBSET Packets] /\ next \in [Sides -> Packets]
      /\ gets \in [Sides -> 0 .. MaxPackets]
      /\ r \in Sides /\ r # x /\ \A z \in Sides : z = x \/ z = r
      /\ g \in Nat /\ N \in Nat \ {0} /\ g \in Int
  BY Places, StreamAssumption DEF Typed, ThreadTypes, Sides, Peer
<1>1. /\ n \in Packets /\ n = g % N /\ Fresh(x, n) /\ Due(x, n) = g
      /\ ~Fresh(r, n) /\ ~InHand(r, n)
  BY TakeFacts
<1>2. /\ wpc[x] = "got" /\ wpc'[x] \in {"clear", "idle"}
      /\ wpc'[r] = wpc[r] /\ wpkt'[r] = wpkt[r]
      /\ next'[x] = (next[x] + 1) % N /\ next'[r] = next[r]
      /\ gets'[x] = g + 1 /\ gets'[r] = gets[r]
      /\ UNCHANGED <<done, sem>> /\ held'[r] = held[r]
      /\ held' \in [Sides -> SUBSET Packets]
  BY <1>0, Places DEF GetTake, Goto, Enter
<1>3. \A q \in Packets : /\ InHand(x, q)' <=> InHand(x, q) \/ q = n
                         /\ InHand(r, q)' <=> InHand(r, q)
  <2>1. \A q \in Packets : InHand(r, q)' <=> InHand(r, q)
    BY <1>2 DEF InHand
  <2>2. \A q \in Packets : InHand(x, q)' <=> InHand(x, q) \/ q = n
    BY <1>0, Places DEF InHand, Hands, GetTake, Goto, Enter
  <2> QED
    BY <2>1, <2>2
<1>4. Shrinks
  BY WorkerSteps
<1>5. /\ \A q \in Packets : Fresh(x, q)' => Fresh(x, q) /\ q # n
      /\ \A q \in Packets : Fresh(r, q)' => Fresh(r, q)
  BY <1>0, <1>3, <1>4 DEF Fresh, Shrinks
<1>6. /\ \A q \in Packets : q = n => Due(x, q)' = g + N
      /\ \A q \in Packets : q # n => Due(x, q)' = Due(x, q)
      /\ \A q \in Packets : Due(r, q)' = Due(r, q)
  BY <1>0, <1>1, <1>2, DueAtMoves DEF Due
<1>7. /\ done' \in [Sides -> SUBSET Nat]
      /\ \A z \in Sides : done[z] \subseteq 0 .. gets[z] - 1
      /\ \A z \in Sides : done'[z] \subseteq 0 .. gets'[z] - 1
  BY <1>0, <1>2 DEF DueInv
<1>8. g \notin done[x]
  BY <1>0, <1>7
<1>9. ASSUME NEW z \in Sides PROVE Cursor(z)'
  <2>1. CASE z = r
    BY <2>1, <1>0, <1>2 DEF DueInv, Cursor
  <2>2. CASE z = x
    <3>1. next'[x] = ((g % N) + 1) % N
      BY <1>0, <1>2 DEF DueInv, Cursor
    <3>2. next'[x] = (g + 1) % N
      BY <1>0, <3>1, ModNext
    <3> QED
      BY <2>2, <1>2, <3>2 DEF Cursor, Getting
  <2> QED
    BY <1>0, <2>1, <2>2
<1>10. ASSUME NEW q \in Packets PROVE DueSend(q)' /\ DueReceive(q)'
  <2>1. DueSend(q) /\ DueReceive(q)
    BY DEF DueInv
  <2>2. /\ Due("S", q) \in Nat /\ Due("R", q) \in Nat
    BY DueTypes, Places
  <2>3. CASE q # n
    BY <2>1, <2>3, <1>0, <1>2, <1>3, <1>5, <1>6, Places DEF DueSend, DueReceive
  <2>4. CASE q = n /\ x = "S"
    <3>1. x = "S" /\ r = "R" /\ q = n
      BY <2>4 DEF Peer
    <3>2. Due("S", q)' = Due("R", q)' + N
      BY <2>1, <3>1, <1>1, <1>6 DEF DueSend
    <3>3. Due("S", q)' - N \notin done'["S"]
      BY <3>1, <1>0, <1>2, <1>6, <1>8
    <3> QED
      BY <3>1, <3>2, <3>3, <1>1, <1>3, <1>5 DEF DueSend, DueReceive
  <2>5. CASE q = n /\ x = "R"
    <3>1. x = "R" /\ r = "S" /\ q = n
      BY <2>5 DEF Peer
    <3>2. Due("S", q)' = Due("R", q)'
      BY <2>1, <3>1, <1>1, <1>6 DEF DueReceive
    <3>3. Due("R", q)' - N \notin done'["R"] /\ Due("R", q)' >= N
      BY <3>1, <1>0, <1>2, <1>6, <1>8
    <3> QED
      BY <3>1, <3>2, <3>3, <1>1, <1>3, <1>5 DEF DueSend, DueReceive
  <2> QED
    BY <2>3, <2>4, <2>5 DEF Sides
<1> QED
  BY <1>7, <1>9, <1>10 DEF DueInv

\* A side passes on a packet of the stream that it has got and not yet passed on.
LEMMA UpFacts ==
    ASSUME Typed, UnitInv, DueInv, NEW x \in Sides, Up(x)
    PROVE  /\ wpkt[x] \in Packets /\ InHand(x, wpkt[x])
           /\ Due(x, wpkt[x]) >= N
           /\ Serial(x, wpkt[x]) = Due(x, wpkt[x]) - N
           /\ Serial(x, wpkt[x]) \in 0 .. gets[x] - 1
           /\ Serial(x, wpkt[x]) % N = wpkt[x]
           /\ Serial(x, wpkt[x]) \notin done[x]
           /\ done' = [done EXCEPT ![x] = @ \cup {Serial(x, wpkt[x])}]
<1> DEFINE n == wpkt[x]
<1>1. n \in Packets /\ InHand(x, n)
  BY DEF Up, Typed, ThreadTypes, InHand, Hands
<1>2. Due("S", n) \in Nat /\ Due("R", n) \in Nat /\ N \in Nat
  BY <1>1, DueTypes, Places
<1>3. DueSend(n) /\ DueReceive(n)
  BY <1>1 DEF DueInv
<1>4. Due(x, n) >= N /\ Due(x, n) - N \notin done[x]
  <2>1. CASE x = "S"
    BY <1>1, <1>2, <1>3, <2>1 DEF DueSend
  <2>2. CASE x = "R"
    BY <1>1, <1>2, <1>3, <2>2 DEF DueReceive
  <2> QED
    BY <2>1, <2>2 DEF Sides
<1> QED
  BY <1>1, <1>4, SerialIs DEF Up

\* Passing a packet on.
LEMMA DueUp ==
    ASSUME Intact', Typed, AbortInv, UnitInv, SyncInv, DueInv, NEW x \in Sides,
           Up(x)
    PROVE  DueInv'
<1> USE DEF sgvars, syncvars, hist
<1> DEFINE n == wpkt[x]
           r == Peer(x)
           k == Serial(x, n)
<1>0. /\ wpc \in [Sides -> WorkerPcs] /\ wpkt \in [Sides -> Packets]
      /\ r \in Sides /\ r # x /\ \A z \in Sides : z = x \/ z = r
      /\ N \in Nat \ {0} /\ \A z \in Sides : gets[z] \in Nat
      /\ done \in [Sides -> SUBSET Nat]
  BY Places, StreamAssumption DEF Typed, ThreadTypes, Sides, Peer, DueInv
<1>1. /\ n \in Packets /\ InHand(x, n) /\ Due(x, n) >= N
      /\ k = Due(x, n) - N /\ k \in 0 .. gets[x] - 1 /\ k % N = n /\ k \notin done[x]
      /\ done' = [done EXCEPT ![x] = @ \cup {k}]
  BY UpFacts
<1> HIDE DEF k
<1>2. /\ wpc[x] = "up" /\ wpc'[x] \in {"idle", "notify"}
      /\ wpc'[r] = wpc[r] /\ wpkt'[r] = wpkt[r]
      /\ UNCHANGED <<gets, held, next>>
  BY <1>0 DEF Up, Goto, Enter
<1>3. /\ \A p \in Packets : Has(x, p)' => Has(x, p) /\ p # n
      /\ \A p \in Packets : Has(r, p)' => Has(r, p) \/ p = n
  BY UpSteps DEF Passed
<1>4. n \notin held[x]
  BY <1>1, <1>2 DEF UnitInv, Unit, Works, Working
<1>5. /\ \A p \in Packets : InHand(x, p)' <=> InHand(x, p) /\ p # n
      /\ \A p \in Packets : InHand(r, p)' <=> InHand(r, p)
  BY <1>2, <1>4 DEF InHand, Hands
<1>6. ~Has(r, n) /\ ~InHand(r, n)
  <2>1. Has(x, n)
    BY <1>2 DEF Has, Own, Works, Working
  <2>2. ~Has(r, n)
    BY <1>1, <2>1 DEF UnitInv, Peer, Sides
  <2> QED
    BY <2>2 DEF InHand, Hands, Has, Own, Works, Working
<1>7. /\ \A p \in Packets : Fresh(x, p)' => Fresh(x, p) /\ p # n
      /\ \A p \in Packets : Fresh(r, p)' => Fresh(r, p) \/ p = n
  BY <1>3, <1>5 DEF Fresh
<1>8. \A z \in Sides, q \in Packets : Due(z, q)' = Due(z, q)
  BY <1>2 DEF Due
<1>9. /\ done' \in [Sides -> SUBSET Nat]
      /\ done'[x] = done[x] \cup {k} /\ done'[r] = done[r]
      /\ \A z \in Sides : done'[z] \subseteq 0 .. gets'[z] - 1
  BY <1>0, <1>1, <1>2 DEF DueInv
<1>10. \A z \in Sides : Cursor(z)'
  BY <1>0, <1>2 DEF DueInv, Cursor, Getting
<1>11. ASSUME NEW q \in Packets PROVE DueSend(q)' /\ DueReceive(q)'
  <2>1. DueSend(q) /\ DueReceive(q)
    BY DEF DueInv
  <2>2. Due("S", q) \in Nat /\ Due("R", q) \in Nat /\ Due(x, q) % N = q
    BY DueTypes, Places
  <2>3. CASE q # n
    <3>1. Due(x, q) - N # k
      <4>1. Due(x, q) # Due(x, n)
        BY <1>1, <2>2, <2>3, DueTypes
      <4>2. Due(x, q) \in Nat /\ Due(x, n) \in Nat
        BY <1>1, DueTypes
      <4> QED
        BY <1>0, <1>1, <4>1, <4>2
    <3>2. x = "S" => r = "R"
      BY DEF Peer
    <3>3. x = "R" => r = "S"
      BY DEF Peer
    <3>4. CASE x = "S"
      BY <2>1, <2>3, <3>1, <3>2, <3>4, <1>0, <1>5, <1>7, <1>8, <1>9, Places
      DEF DueSend, DueReceive
    <3>5. CASE x = "R"
      BY <2>1, <2>3, <3>1, <3>3, <3>5, <1>0, <1>5, <1>7, <1>8, <1>9, Places
      DEF DueSend, DueReceive
    <3> QED
      BY <3>4, <3>5 DEF Sides
  <2>4. CASE q = n /\ x = "S"
    <3>1. x = "S" /\ r = "R" /\ q = n
      BY <2>4 DEF Peer
    <3>2. Due("S", n) = Due("R", n) + N
      BY <2>1, <3>1, <1>1 DEF DueSend
    <3>3. Due("R", q)' \in done'["S"]
      BY <3>1, <3>2, <2>2, <1>0, <1>1, <1>8, <1>9
    <3> QED
      BY <3>1, <3>2, <3>3, <1>0, <1>1, <1>5, <1>6, <1>7, <1>8 DEF DueSend, DueReceive
  <2>5. CASE q = n /\ x = "R"
    <3>1. x = "R" /\ r = "S" /\ q = n
      BY <2>5 DEF Peer
    <3>2. Due("S", n) = Due("R", n)
      BY <2>1, <3>1, <1>1 DEF DueReceive
    <3>3. Due("S", q)' - N \in done'["R"]
      BY <3>1, <3>2, <2>2, <1>0, <1>1, <1>8, <1>9
    <3> QED
      BY <3>1, <3>2, <3>3, <1>0, <1>1, <1>5, <1>6, <1>7, <1>8 DEF DueSend, DueReceive
  <2> QED
    BY <2>3, <2>4, <2>5 DEF Sides
<1> QED
  BY <1>9, <1>10, <1>11 DEF DueInv

\* Every step keeps the history.
LEMMA DueNext ==
    ASSUME Intact', Typed, AbortInv, UnitInv, SyncInv, DueInv, [Next]_vars
    PROVE  DueInv'
<1>1. CASE UNCHANGED vars
  <2>1. UNCHANGED <<sem, wpc, wpkt, held, next, gets, done>>
    BY <1>1 DEF vars, hist
  <2>2. \A x \in Sides, p \in Packets :
           /\ Fresh(x, p)' <=> Fresh(x, p)
           /\ InHand(x, p)' <=> InHand(x, p)
           /\ Due(x, p)' = Due(x, p)
    BY <2>1 DEF Fresh, InHand, Due, Has, Own, Works, Waits
  <2>3. \A p \in Packets : DueSend(p)' /\ DueReceive(p)'
    BY <2>1, <2>2, Places DEF DueInv, DueSend, DueReceive
  <2> QED
    BY <2>1, <2>3 DEF DueInv, Cursor
<1> QED
  BY <1>1, DueKept, DueTake, DueUp

\* The sender gets every descriptor for the first time.
LEMMA DueInit == Init => DueInv
<1> SUFFICES ASSUME Init PROVE DueInv
  OBVIOUS
<1>1. N \in Nat \ {0} /\ \A x \in Sides : gets[x] = 0 /\ next[x] = 0 /\ wpc[x] = "idle"
  BY StreamAssumption DEF Init
<1>2. 0 % N = 0
  BY <1>1, ModSmall
<1>3. \A x \in Sides : Cursor(x)
  BY <1>1, <1>2 DEF Cursor, Getting
<1>4. done \in [Sides -> SUBSET Nat] /\ \A x \in Sides : done[x] \subseteq 0 .. gets[x] - 1
  BY DEF Init
<1>5. ASSUME NEW p \in Packets PROVE DueSend(p) /\ DueReceive(p)
  <2>1. \A x \in Sides : ~InHand(x, p)
    BY DEF Init, InHand, Hands
  <2>2. ~Has("R", p)
    BY Places DEF Init, Has, Own, Works, Working, Waits
  <2>3. Due("S", p) = Due("R", p) /\ Due("S", p) < N
    <3>1. DueAt(0, p) \in 0 .. (0 + N - 1)
      BY DueAtIs
    <3> QED
      BY <1>1, <3>1, Places DEF Due
  <2> QED
    BY <2>1, <2>2, <2>3, Places DEF DueSend, DueReceive, Fresh
<1> QED
  BY <1>3, <1>4, <1>5 DEF DueInv

-----------------------------------------------------------------------------
(* The theorems.                                                           *)

IInv == Typed /\ AbortInv /\ UnitInv /\ SyncInv /\ CountInv /\ DueInv

SocketInv == Typed /\ ("socket" \notin overwritten => AbortInv)
StreamInv == Typed /\ (Intact => IInv)

\* The types hold in every state, whatever is overwritten.
THEOREM TypeCorrect == Spec => []TypeOK
<1> DEFINE Inv == Typed /\ CfgTypes
<1>1. Init => Inv
  BY TypedInit DEF Init, CfgTypes
<1>2. Inv /\ [Next]_vars => Inv'
  BY TypedNext, CfgSteps
<1>3. Inv => TypeOK
  BY DEF Typed, ThreadTypes, WordTypes, SgTypes, CfgTypes, TypeOK
<1> QED
  BY <1>1, <1>2, <1>3, PTL DEF Spec

\* dsi_packet_get_abort never misses the work thread, whatever becomes of the
\* packet flags: the blocking flag and the abort flag are written in opposite
\* orders.  Only an overwritten socket flag can break it.
THEOREM AbortsReach == Spec => []AbortReaches
<1>1. Init => SocketInv
  BY TypedInit, UnitInit DEF SocketInv
<1>2. SocketInv /\ [Next]_vars => SocketInv'
  <2> SUFFICES ASSUME SocketInv, [Next]_vars PROVE SocketInv'
    OBVIOUS
  <2>1. Typed'
    BY TypedNext DEF SocketInv
  <2>2. ASSUME "socket" \notin overwritten' PROVE AbortInv'
    <3>1. "socket" \notin overwritten
      BY <2>2, CfgSteps
    <3> QED
      BY <2>2, <3>1, AbortNext DEF SocketInv
  <2> QED
    BY <2>1, <2>2 DEF SocketInv
<1>3. SocketInv => AbortReaches
  BY DEF SocketInv, AbortInv, AbortReaches, Blocked
<1> QED
  BY <1>1, <1>2, <1>3, PTL DEF Spec

\* The invariants hold until the first update of a flag word is overwritten.
LEMMA Invariance == Spec => []StreamInv
<1>1. Init => StreamInv
  BY TypedInit, UnitInit, CountInit, DueInit DEF StreamInv, IInv
<1>2. StreamInv /\ [Next]_vars => StreamInv'
  <2> SUFFICES ASSUME StreamInv, [Next]_vars PROVE StreamInv'
    OBVIOUS
  <2>1. Typed'
    BY TypedNext DEF StreamInv
  <2>2. ASSUME Intact' PROVE IInv'
    <3>1. IInv
      BY <2>2, CfgSteps DEF StreamInv, Intact
    <3>2. AbortInv'
      BY <2>2, <3>1, AbortNext DEF IInv, Intact
    <3>3. UnitInv' /\ SyncInv'
      BY <2>2, <3>1, UnitNext DEF IInv
    <3>4. CountInv' /\ DueInv'
      BY <2>2, <3>1, CountNext, DueNext DEF IInv
    <3> QED
      BY <2>1, <3>2, <3>3, <3>4 DEF IInv
  <2> QED
    BY <2>1, <2>2 DEF StreamInv
<1> QED
  BY <1>1, <1>2, PTL DEF Spec

\* Two bounds the code never checks hold until an update of a flag word is
\* overwritten: a semaphore counter of a packet stays between -1 and 1, and
\* packets_committed between 0 and the number of packets, although dsi_up,
\* dsi_down and the commit functions add and subtract without looking.
THEOREM CountersStayBounded == Spec => []CountersBounded
<1>1. StreamInv => CountersBounded
  <2> SUFFICES ASSUME IInv
               PROVE  sem \in [Sides -> [Packets -> -1 .. 1]] /\ committed \in 0 .. N
    BY DEF StreamInv, CountersBounded
  <2>1. sem \in [Sides -> [Packets -> -1 .. 1]]
    <3>1. \A x \in Sides, p \in Packets : sem[x][p] \in -1 .. 1
      BY DEF IInv, UnitInv, Unit
    <3>2. sem \in [Sides -> [Packets -> Int]]
      BY DEF IInv, Typed, WordTypes
    <3> QED
      BY <3>1, <3>2
  <2>2. committed \in 0 .. N
    BY CountSets, StreamAssumption DEF IInv, CountInv, Typed, WordTypes
  <2> QED
    BY <2>1, <2>2
<1> QED
  BY <1>1, Invariance, PTL

\* A work thread that sleeps for a packet is woken: once the packet is there,
\* one of the threads that tell it is still on its way, unless an update of a
\* flag word was overwritten.
THEOREM WakeupsReach == Spec => []WakeupsArrive
<1>1. StreamInv => WakeupsArrive
  <2> SUFFICES ASSUME IInv, NEW y \in Sides, wpc[y] = "asleep",
                      spc[Peer(y)] = "idle", wpc[Peer(y)] \notin {"notify", "lost"}
               PROVE  sem[y][wpkt[y]] < 0
    BY DEF StreamInv, WakeupsArrive, NoLostWakeup
  <2> DEFINE p == wpkt[y]
  <2>1. p \in Packets /\ apc[y] # "finished"
    BY DEF IInv, Typed, ThreadTypes, AbortInv, Blocked
  <2>2. Sync(y, p) /\ Unit(y, p)
    BY <2>1 DEF IInv, SyncInv, UnitInv
  <2>3. Asleep(y, p) /\ Waits(y, p)
    BY DEF Asleep, Waits
  <2>4. /\ \A c \in Commands : ~Does(Peer(y), c, p)
        /\ ~Fires(Peer(y), p)
    BY DEF Does, Commands, Fires
  <2>5. Mark(y, p) /\ ~Pended(y, p)
    BY <2>2, <2>3, <2>4 DEF Sync, Commands
  <2>6. ~Told(y, p)
    BY <2>4, <2>5 DEF Told, Pend, Commands
  <2>7. sem[y][p] # 0
    BY <2>2, <2>3, <2>6 DEF Sync
  <2> QED
    BY <2>2, <2>3, <2>7 DEF Unit
<1> QED
  BY <1>1, Invariance, PTL

\* No pending mark survives the thread it is for, unless an update of a flag
\* word was overwritten.
THEOREM PendingMarksAreOwed == Spec => []PendingIsOwed
<1>1. StreamInv => PendingIsOwed
  <2> SUFFICES ASSUME IInv, NEW x \in Sides, NEW p \in Packets,
                      PENDING(x) \in flags[p], ~abort[x]
               PROVE  \/ wpc[x] \in {"call", "asleep"} /\ wpkt[x] = p
                      \/ spc[Peer(x)] = "clearPending" /\ spkt[Peer(x)] = p
    BY DEF StreamInv, PendingIsOwed
  <2>1. apc[x] = "idle"
    BY DEF IInv, AbortInv
  <2>2. Sync(x, p)
    BY <2>1 DEF IInv, SyncInv
  <2>3. Does(Peer(x), "clearPending", p) \/ Told(x, p)
    BY DEF Told, Pend, Pended
  <2> QED
    BY <2>2, <2>3 DEF Sync, Waits, Does
<1> QED
  BY <1>1, Invariance, PTL

\* The packet ring hands out packets the way PacketStream promises: in order,
\* to the receiver only after the sender committed them, and to the sender only
\* after the receiver released the packet before in the same descriptor.  Every
\* step up to the first overwritten update of a flag word is such a step.
THEOREM StreamsPackets == Spec => ImplementsPacketStream
<1>1. Init => PS!Init
  BY DEF Init, PS!Init, Sides, PS!Sides
<1>2. StreamInv /\ [Next]_vars => [Intact' => PS!Next]_(PS!vars)
  <2> SUFFICES ASSUME IInv, [Next]_vars, Intact' PROVE [PS!Next]_(PS!vars)
    BY CfgSteps DEF StreamInv, Intact
  <2> USE DEF hist
  <2>1. CASE UNCHANGED vars
    BY <2>1 DEF vars, PS!vars
  <2>2. ASSUME NEW x \in Sides, GetTake(x) PROVE PS!Open(x)
    <3> DEFINE n == wpkt[x]
               g == gets[x]
    <3>1. n \in Packets /\ Fresh(x, n) /\ Due(x, n) = g
      BY <2>2, TakeFacts DEF IInv
    <3>2. DueSend(n) /\ DueReceive(n)
      BY <3>1 DEF IInv, DueInv
    <3>3. x = "S" => g < N \/ g - N \in done["R"]
      BY <3>1, <3>2 DEF DueSend
    <3>4. x = "R" => g \in done["S"]
      BY <3>1, <3>2 DEF DueReceive
    <3>5. PS!MayOpen(x)
      BY <3>3, <3>4 DEF PS!MayOpen, Sides
    <3>6. gets' = [gets EXCEPT ![x] = @ + 1] /\ UNCHANGED done
      BY <2>2 DEF GetTake
    <3> QED
      BY <3>5, <3>6 DEF PS!Open
  <2>3. ASSUME NEW x \in Sides, Up(x) PROVE PS!Close(x)
    <3> DEFINE k == Serial(x, wpkt[x])
    <3>1. /\ k \in (0 .. gets[x] - 1) \ done[x]
          /\ done' = [done EXCEPT ![x] = @ \cup {k}]
      BY <2>3, UpFacts DEF IInv
    <3>2. UNCHANGED gets
      BY <2>3 DEF Up
    <3> HIDE DEF k
    <3> QED
      BY <3>1, <3>2 DEF PS!Close
  <2>4. CASE Next /\ \A x \in Sides : ~Up(x) /\ ~GetTake(x)
    BY <2>4, DueKept DEF IInv, PS!vars
  <2> QED
    BY <2>1, <2>2, <2>3, <2>4 DEF PS!Next, PS!Sides, Sides
<1> QED
  BY <1>1, <1>2, Invariance, PTL DEF Spec, ImplementsPacketStream

-----------------------------------------------------------------------------
(* The scatter gather lists.                                               *)

(* Where the list of packet p is: empty, as long as the sender has not got   *)
(* the packet or once the receiver has freed the list; stored, from the      *)
(* sender's get to the receiver's commit; or being freed.                    *)
Filling(p) == p \in held["S"] \/ (wpc["S"] \in {"callback", "up"} /\ wpkt["S"] = p)
Freeing(p) == wpc["R"] = "free" /\ wpkt["R"] = p
Emptied(p) == wpc["R"] = "up" /\ wpkt["R"] = p
Empty(p)   == (Has("S", p) /\ ~Filling(p)) \/ Emptied(p)
Stored(p)  == Filling(p) \/ (Has("R", p) /\ ~Freeing(p) /\ ~Emptied(p))

(* P[e] and I[e] say in which packet's list, and at which place, a used      *)
(* element e is.                                                             *)
At(P, I, e, p, i) == e \in used /\ P[e] = p /\ I[e] = i

(* The places c + 1 .. sgLen[p] of the list of p are linked from start on,   *)
(* and no other element is said to be in it.                                 *)
List(P, I, p, start, c) ==
    /\ c <= sgLen[p]
    /\ IF c = sgLen[p] THEN start = LAST ELSE At(P, I, start, p, c + 1)
    /\ \A e \in used : P[e] = p =>
          /\ I[e] \in c + 1 .. sgLen[p]
          /\ IF I[e] = sgLen[p] THEN nxt[e] = LAST
                                ELSE At(P, I, nxt[e], p, I[e] + 1)

PacketList(P, I, p) ==
    /\ Empty(p) => \A e \in used : P[e] # p
    /\ Stored(p) => List(P, I, p, sgList[p], 0)
    /\ Freeing(p) => List(P, I, p, elem["R"], cnt)
    /\ p \in held["S"] /\ sgLen[p] > 0 => At(P, I, sgIdx[p], p, sgLen[p])

Distinct(P, I) == \A e, f \in used : P[e] = P[f] /\ I[e] = I[f] => e = f

Lists(P, I) == Distinct(P, I) /\ \A p \in Packets : PacketList(P, I, p)

(* How far e is from where the search for a free element began.             *)
Ahead(e) == IF e >= nextElem THEN e - nextElem ELSE e - nextElem + N * MaxSg

Seeks ==
    wpc["S"] = "search" =>
       /\ wpkt["S"] \in held["S"]
       /\ \E f \in Elems \ used : Ahead(f) >= Ahead(elem["S"])

InLists == \E P \in [Elems -> Packets], I \in [Elems -> 1 .. MaxSg] : Lists(P, I)

Calm == \A x \in Sides : wpc[x] # "panic"

SgInv == InLists /\ Seeks /\ Calm

\* A step that leaves the list of q alone, whatever it does to other lists.
LEMMA PacketFrame ==
    ASSUME NEW q \in Packets, NEW P, NEW I, NEW P2, NEW I2,
           PacketList(P, I, q),
           sgLen'[q] = sgLen[q], sgList'[q] = sgList[q],
           Empty(q)' => Empty(q), Stored(q)' => Stored(q),
           Freeing(q)' => Freeing(q) /\ elem'["R"] = elem["R"] /\ cnt' = cnt,
           q \in held'["S"] => q \in held["S"] /\ sgIdx'[q] = sgIdx[q],
           \A e : e \in used' /\ P2[e] = q <=> e \in used /\ P[e] = q,
           \A e \in used : P[e] = q => I2[e] = I[e] /\ nxt'[e] = nxt[e]
    PROVE  PacketList(P2, I2, q)'
<1>1. \A e, i : At(P2, I2, e, q, i)' <=> At(P, I, e, q, i)
  BY DEF At
<1>2. Empty(q)' => \A e \in used' : P2[e] # q
  BY DEF PacketList
<1>3. Stored(q)' => List(P2, I2, q, sgList[q], 0)'
  BY <1>1 DEF PacketList, List
<1>4. Freeing(q)' => List(P2, I2, q, elem["R"], cnt)'
  BY <1>1 DEF PacketList, List
<1>5. q \in held'["S"] /\ sgLen'[q] > 0 => At(P2, I2, sgIdx[q], q, sgLen[q])'
  BY <1>1 DEF PacketList
<1> QED
  BY <1>2, <1>3, <1>4, <1>5 DEF PacketList

(* The actions on lists.  All others leave the lists alone.                  *)
ListStep ==
    \/ GetClear \/ Search \/ Uncount \/ FreeElem
    \/ \E p \in Packets : AddData(p)

SamePhase ==
    \A q \in Packets :
       /\ Filling(q)' <=> Filling(q)
       /\ Freeing(q)' <=> Freeing(q)
       /\ Emptied(q)' <=> Emptied(q)

NoSearch ==
    /\ \A z \in Sides : wpc'[z] = "panic" => wpc[z] = "panic"
    /\ wpc'["S"] = "search" =>
          wpc["S"] = "search" /\ wpkt'["S"] = wpkt["S"] /\ held'["S"] = held["S"]

SgKept ==
    /\ UNCHANGED <<sgLen, sgList, used, nxt, nextElem, elem, cnt>>
    /\ \A q \in Packets : q \in held'["S"] => q \in held["S"] /\ sgIdx'[q] = sgIdx[q]

\* They leave the packets where they are on their way.
LEMMA OtherSteps ==
    ASSUME Typed, UnitInv, Next, ~ListStep,
           \A x \in Sides : ~AbortJump(x) /\ ~Up(x)
    PROVE  SamePhase /\ NoSearch /\ SgKept
<1> USE DEF sgvars, syncvars, hist
<1> DEFINE Kept == SamePhase /\ NoSearch /\ SgKept
<1>0. /\ wpc \in [Sides -> WorkerPcs] /\ wpkt \in [Sides -> Packets]
      /\ held \in [Sides -> SUBSET Packets] /\ sgIdx \in [Packets -> Elems \cup {LAST}]
  BY DEF Typed, ThreadTypes, SgTypes
<1>a. SUFFICES Kept
  OBVIOUS
<1>b. \A q \in Packets : /\ q \in held["S"] => Has("S", q)
                         /\ q \in held["R"] => Has("R", q)
                         /\ ~(Has("S", q) /\ Has("R", q))
  BY DEF UnitInv, Has, Own
<1>1. ASSUME NEW x \in Sides, GetTry(x) PROVE Kept
  <2>1. SamePhase
    BY <1>0, <1>1, Places DEF GetTry, Enter, SamePhase, Filling, Freeing, Emptied
  <2>2. NoSearch
    BY <1>0, <1>1, Places DEF GetTry, Enter, NoSearch
  <2>3. SgKept
    BY <1>0, <1>1, Places DEF GetTry, Enter, SgKept
  <2> QED
    BY <2>1, <2>2, <2>3
<1>2. ASSUME NEW x \in Sides, GetBlock(x) PROVE Kept
  <2>1. SamePhase
    BY <1>0, <1>2, Places DEF GetBlock, Goto, Enter, SamePhase, Filling, Freeing, Emptied
  <2>2. NoSearch
    BY <1>0, <1>2, Places DEF GetBlock, Goto, Enter, NoSearch
  <2>3. SgKept
    BY <1>0, <1>2, Places DEF GetBlock, Goto, Enter, SgKept
  <2> QED
    BY <2>1, <2>2, <2>3
<1>3. ASSUME NEW x \in Sides, GetRecheck(x) PROVE Kept
  <2>1. SamePhase
    BY <1>0, <1>3, Places DEF GetRecheck, Eeos, Goto, Enter, SamePhase, Filling, Freeing, Emptied
  <2>2. NoSearch
    BY <1>0, <1>3, Places DEF GetRecheck, Eeos, Goto, Enter, NoSearch
  <2>3. SgKept
    BY <1>0, <1>3, Places DEF GetRecheck, Eeos, Goto, Enter, SgKept
  <2> QED
    BY <2>1, <2>2, <2>3
<1>4. ASSUME NEW x \in Sides, GetDown(x) PROVE Kept
  <2>1. SamePhase
    BY <1>0, <1>4, Places DEF GetDown, Goto, Enter, SamePhase, Filling, Freeing, Emptied
  <2>2. NoSearch
    BY <1>0, <1>4, Places DEF GetDown, Goto, Enter, NoSearch
  <2>3. SgKept
    BY <1>0, <1>4, Places DEF GetDown, Goto, Enter, SgKept
  <2> QED
    BY <2>1, <2>2, <2>3
<1>5. ASSUME NEW x \in Sides, GetUnblock(x) PROVE Kept
  <2>1. SamePhase
    BY <1>0, <1>5, Places DEF GetUnblock, Goto, Enter, SamePhase, Filling, Freeing, Emptied
  <2>2. NoSearch
    BY <1>0, <1>5, Places DEF GetUnblock, Goto, Enter, NoSearch
  <2>3. SgKept
    BY <1>0, <1>5, Places DEF GetUnblock, Goto, Enter, SgKept
  <2> QED
    BY <2>1, <2>2, <2>3
<1>6. ASSUME NEW x \in Sides, ReceiveCommited(x) PROVE Kept
  <2>1. SamePhase
    BY <1>0, <1>6, Places DEF ReceiveCommited, SyncReceive, Goto, Enter, SamePhase, Filling, Freeing, Emptied
  <2>2. NoSearch
    BY <1>0, <1>6, Places DEF ReceiveCommited, SyncReceive, Goto, Enter, NoSearch
  <2>3. SgKept
    BY <1>0, <1>6, Places DEF ReceiveCommited, SyncReceive, Goto, Enter, SgKept
  <2> QED
    BY <2>1, <2>2, <2>3
<1>7. ASSUME NEW x \in Sides, ReceiveWait(x) PROVE Kept
  <2>1. SamePhase
    BY <1>0, <1>7, Places DEF ReceiveWait, SyncReceive, Goto, Enter, SamePhase, Filling, Freeing, Emptied
  <2>2. NoSearch
    BY <1>0, <1>7, Places DEF ReceiveWait, SyncReceive, Goto, Enter, NoSearch
  <2>3. SgKept
    BY <1>0, <1>7, Places DEF ReceiveWait, SyncReceive, Goto, Enter, SgKept
  <2> QED
    BY <2>1, <2>2, <2>3
<1>8. ASSUME NEW x \in Sides, HandleCommited(x) PROVE Kept
  <2>1. SamePhase
    BY <1>0, <1>8, Places DEF HandleCommited, Wakeup, SamePhase, Filling, Freeing, Emptied
  <2>2. NoSearch
    BY <1>0, <1>8, Places DEF HandleCommited, Wakeup, NoSearch
  <2>3. SgKept
    BY <1>0, <1>8, Places DEF HandleCommited, Wakeup, SgKept
  <2> QED
    BY <2>1, <2>2, <2>3
<1>9. ASSUME NEW x \in Sides, HandleWait(x) PROVE Kept
  <2>1. SamePhase
    BY <1>0, <1>9, Places DEF HandleWait, Wakeup, SamePhase, Filling, Freeing, Emptied
  <2>2. NoSearch
    BY <1>0, <1>9, Places DEF HandleWait, Wakeup, NoSearch
  <2>3. SgKept
    BY <1>0, <1>9, Places DEF HandleWait, Wakeup, SgKept
  <2> QED
    BY <2>1, <2>2, <2>3
<1>10. ASSUME NEW x \in Sides, SyncStore(x) PROVE Kept
  <2>1. SamePhase
    BY <1>0, <1>10, Places DEF SyncStore, SamePhase, Filling, Freeing, Emptied
  <2>2. NoSearch
    BY <1>0, <1>10, Places DEF SyncStore, NoSearch
  <2>3. SgKept
    BY <1>0, <1>10, Places DEF SyncStore, SgKept
  <2> QED
    BY <2>1, <2>2, <2>3
<1>11. ASSUME NEW x \in Sides, AbortSet(x) PROVE Kept
  <2>1. SamePhase
    BY <1>0, <1>11, Places DEF AbortSet, SamePhase, Filling, Freeing, Emptied
  <2>2. NoSearch
    BY <1>0, <1>11, Places DEF AbortSet, NoSearch
  <2>3. SgKept
    BY <1>0, <1>11, Places DEF AbortSet, SgKept
  <2> QED
    BY <2>1, <2>2, <2>3
<1>12. ASSUME NEW x \in Sides, AbortTest(x) PROVE Kept
  <2>1. SamePhase
    BY <1>0, <1>12, Places DEF AbortTest, SamePhase, Filling, Freeing, Emptied
  <2>2. NoSearch
    BY <1>0, <1>12, Places DEF AbortTest, NoSearch
  <2>3. SgKept
    BY <1>0, <1>12, Places DEF AbortTest, SgKept
  <2> QED
    BY <2>1, <2>2, <2>3
<1>13. ASSUME CommitCallback PROVE Kept
  <2>1. SamePhase
    BY <1>0, <1>13, Places DEF CommitCallback, Goto, Enter, SamePhase, Filling, Freeing, Emptied
  <2>2. NoSearch
    BY <1>0, <1>13, Places DEF CommitCallback, Goto, Enter, NoSearch
  <2>3. SgKept
    BY <1>0, <1>13, Places DEF CommitCallback, Goto, Enter, SgKept
  <2> QED
    BY <2>1, <2>2, <2>3
<1>14. ASSUME NEW p \in Packets, CommitSend(p) PROVE Kept
  <2>1. SamePhase
    BY <1>0, <1>14, Places DEF CommitSend, Enter, SamePhase, Filling, Freeing, Emptied
  <2>2. NoSearch
    BY <1>0, <1>14, Places DEF CommitSend, Enter, NoSearch
  <2>3. SgKept
    BY <1>0, <1>14, Places DEF CommitSend, Enter, SgKept
  <2> QED
    BY <2>1, <2>2, <2>3
<1>15. ASSUME ReceiveRelease PROVE Kept
  <2>1. SamePhase
    BY <1>0, <1>15, Places DEF ReceiveRelease, SyncReceive, Goto, Enter, SamePhase, Filling, Freeing, Emptied
  <2>2. NoSearch
    BY <1>0, <1>15, Places DEF ReceiveRelease, SyncReceive, Goto, Enter, NoSearch
  <2>3. SgKept
    BY <1>0, <1>15, Places DEF ReceiveRelease, SyncReceive, Goto, Enter, SgKept
  <2> QED
    BY <2>1, <2>2, <2>3
<1>16. ASSUME CallbackReturn PROVE Kept
  <2>1. SamePhase
    BY <1>0, <1>16, Places DEF CallbackReturn, SamePhase, Filling, Freeing, Emptied
  <2>2. NoSearch
    BY <1>0, <1>16, Places DEF CallbackReturn, NoSearch
  <2>3. SgKept
    BY <1>0, <1>16, Places DEF CallbackReturn, SgKept
  <2> QED
    BY <2>1, <2>2, <2>3
<1>17. ASSUME NEW x \in Sides, GetTake(x) PROVE Kept
  <2>1. SamePhase
    BY <1>0, <1>17, Places DEF GetTake, Goto, Enter, SamePhase, Filling, Freeing, Emptied
  <2>2. NoSearch
    BY <1>0, <1>17, Places DEF GetTake, Goto, Enter, NoSearch
  <2>3. SgKept
    <3>1. CASE x = "S"
      BY <1>0, <1>17, <3>1, Places DEF GetTake, Goto, Enter, SgKept
    <3>2. CASE x = "R"
      <4>1. Works("R", wpkt["R"]) /\ wpkt["R"] \in Packets
        BY <1>0, <1>17, <3>2 DEF GetTake, Works, Working
      <4>2. wpkt["R"] \notin held["S"]
        BY <1>b, <4>1 DEF Has, Own
      <4> QED
        BY <1>0, <1>17, <3>2, <4>2, Places DEF GetTake, Goto, Enter, SgKept
    <3> QED
      BY <3>1, <3>2 DEF Sides
  <2> QED
    BY <2>1, <2>2, <2>3
<1>18. ASSUME NEW p \in Packets, CommitReceive(p) PROVE Kept
  <2>1. SamePhase
    BY <1>0, <1>18, Places DEF CommitReceive, Enter, SamePhase, Filling, Freeing, Emptied
  <2>2. NoSearch
    BY <1>0, <1>18, Places DEF CommitReceive, Enter, NoSearch
  <2>3. SgKept
    <3>1. p \notin held["S"]
      BY <1>b, <1>18 DEF CommitReceive
    <3> QED
      BY <1>0, <1>18, <3>1, Places DEF CommitReceive, Enter, SgKept
  <2> QED
    BY <2>1, <2>2, <2>3
<1>19. CASE Silent
  BY <1>19, SilentFrame
  DEF core, SamePhase, NoSearch, SgKept, Filling, Freeing, Emptied
<1> QED
  BY <1>1, <1>2, <1>3, <1>4, <1>5, <1>6, <1>7, <1>8, <1>9, <1>10, <1>11, <1>12, <1>13, <1>14, <1>15, <1>16, <1>17, <1>18, <1>19
  DEF Next, ListStep, WorkThread, SendThread, ReceiveThread, SyncThread, Aborter, Silent

PhaseKept ==
    \A q \in Packets : /\ Empty(q)' => Empty(q)
                       /\ Stored(q)' => Stored(q)
                       /\ Freeing(q)' => Freeing(q)

\* An abort takes a packet out of all lists, or changes nothing.
LEMMA AbortJumpLists ==
    ASSUME Typed, UnitInv, Shrinks, NEW x \in Sides, AbortJump(x)
    PROVE  PhaseKept /\ NoSearch /\ SgKept
<1> USE DEF sgvars, syncvars, hist
<1>0. /\ wpc \in [Sides -> WorkerPcs] /\ wpkt \in [Sides -> Packets]
  BY DEF Typed, ThreadTypes
<1>1. NoSearch
  BY <1>0, Places DEF AbortJump, Eeos, Goto, Enter, NoSearch
<1>2. SgKept
  BY Places DEF AbortJump, Eeos, Goto, Enter, SgKept
<1>3. ASSUME NEW q \in Packets
      PROVE  /\ Filling(q)' => Filling(q)
             /\ Freeing(q)' => Freeing(q)
             /\ Emptied(q)' => Emptied(q)
  BY <1>0, Places DEF AbortJump, Eeos, Goto, Enter, Filling, Freeing, Emptied
<1>4. ASSUME NEW z \in Sides, NEW q \in Packets, Works(z, q), ~Works(z, q)'
      PROVE  ~Has(z, q)'
  <2>1. z = x /\ wpc'[z] \in {"idle", "lost"} /\ sem' = sem /\ held' = held
    BY <1>0, <1>4, Places DEF AbortJump, Eeos, Goto, Enter, Works
  <2>2. sem[z][q] <= 0 /\ q \notin held[z] /\ sem[z][q] \in -1 .. 1
    BY <1>4 DEF UnitInv, Unit, Own
  <2>3. ~(Waits(z, q)') /\ sem'[z][q] # 1 /\ ~(Own(z, q)')
    BY <1>4, <2>1, <2>2 DEF Waits, Own
  <2> QED
    BY <2>3 DEF Has
<1>5. ASSUME NEW q \in Packets
      PROVE  /\ Filling(q) /\ ~Filling(q)' => ~Has("S", q)'
             /\ Freeing(q) /\ ~Freeing(q)' => ~Has("R", q)'
             /\ Emptied(q) /\ ~Emptied(q)' => ~Has("R", q)'
  <2>0. held' = held
    BY DEF AbortJump
  <2>1. Filling(q) /\ ~Filling(q)' => Works("S", q) /\ ~Works("S", q)'
    BY <1>0, <2>0, Places DEF AbortJump, Eeos, Goto, Enter, Filling, Works, Working
  <2>2. /\ Freeing(q) /\ ~Freeing(q)' => Works("R", q) /\ ~Works("R", q)'
        /\ Emptied(q) /\ ~Emptied(q)' => Works("R", q) /\ ~Works("R", q)'
    BY <1>0, Places DEF AbortJump, Eeos, Goto, Enter, Freeing, Emptied, Works, Working
  <2> QED
    BY <1>4, <2>1, <2>2, Places
<1>6. PhaseKept
  BY <1>3, <1>5, Places DEF PhaseKept, Empty, Stored, Shrinks
<1> QED
  BY <1>1, <1>2, <1>6

\* dsi_up hands a packet over with the list it has.
LEMMA UpLists ==
    ASSUME Typed, UnitInv, NEW x \in Sides, Up(x), Passed(x)
    PROVE  PhaseKept /\ NoSearch /\ SgKept
<1> USE DEF sgvars, syncvars, hist
<1>0. /\ wpc \in [Sides -> WorkerPcs] /\ wpkt \in [Sides -> Packets]
  BY DEF Typed, ThreadTypes
<1>1. NoSearch
  BY <1>0, Places DEF Up, Goto, Enter, NoSearch
<1>2. SgKept
  BY Places DEF Up, SgKept
<1>3. wpc[x] = "up" /\ held' = held /\ wpkt[x] \in Packets
  BY <1>0 DEF Up
<1>4. \A q \in Packets : /\ Filling(q)' => Filling(q)
                         /\ Freeing(q)' <=> Freeing(q)
                         /\ Emptied(q)' => Emptied(q)
  BY <1>0, Places DEF Up, Goto, Enter, Filling, Freeing, Emptied
<1>5. CASE x = "S"
  <2>1. \A q \in Packets : /\ q # wpkt["S"] => (Filling(q)' <=> Filling(q))
                           /\ Emptied(q)' <=> Emptied(q)
    BY <1>0, <1>5, Places DEF Up, Goto, Enter, Filling, Emptied
  <2>2. Filling(wpkt["S"])
    BY <1>3, <1>5 DEF Filling
  <2>3. \A q \in Packets : /\ Has("S", q)' => Has("S", q) /\ q # wpkt["S"]
                           /\ Has("R", q)' => Has("R", q) \/ q = wpkt["S"]
    BY <1>5 DEF Passed, Peer
  <2> QED
    BY <1>1, <1>2, <1>4, <2>1, <2>2, <2>3 DEF PhaseKept, Empty, Stored
<1>6. CASE x = "R"
  <2>1. \A q \in Packets : /\ Filling(q)' <=> Filling(q)
                           /\ q # wpkt["R"] => (Emptied(q)' <=> Emptied(q))
    BY <1>0, <1>6, Places DEF Up, Goto, Enter, Filling, Emptied
  <2>2. Emptied(wpkt["R"])
    BY <1>3, <1>6 DEF Emptied
  <2>3. \A q \in Packets : /\ Has("R", q)' => Has("R", q) /\ q # wpkt["R"]
                           /\ Has("S", q)' => Has("S", q) \/ q = wpkt["R"]
    BY <1>6 DEF Passed, Peer
  <2> QED
    BY <1>1, <1>2, <1>4, <2>1, <2>2, <2>3 DEF PhaseKept, Empty, Stored
<1> QED
  BY <1>5, <1>6 DEF Sides

\* The lists that a step does not touch are lists after it.
LEMMA ListsFrame ==
    ASSUME InLists, PhaseKept, UNCHANGED <<sgLen, sgList, used, nxt, cnt>>,
           elem'["R"] = elem["R"],
           \A q \in Packets : q \in held'["S"] => q \in held["S"] /\ sgIdx'[q] = sgIdx[q]
    PROVE  InLists'
<1>1. PICK P \in [Elems -> Packets], I \in [Elems -> 1 .. MaxSg] : Lists(P, I)
  BY DEF InLists
<1>2. ASSUME NEW q \in Packets PROVE PacketList(P, I, q)'
  BY <1>1, PacketFrame DEF Lists, PhaseKept
<1>3. Distinct(P, I)'
  BY <1>1 DEF Lists, Distinct
<1> QED
  BY <1>2, <1>3 DEF Lists, InLists

\* What none of the actions on lists does, the lists survive.
LEMMA ListsKept ==
    ASSUME Intact', Typed, AbortInv, UnitInv, SyncInv, SgInv, Next, ~ListStep
    PROVE  SgInv'
<1>1. PhaseKept /\ NoSearch /\ SgKept
  <2>1. CASE \E x \in Sides : Up(x)
    BY <2>1, UpSteps, UpLists
  <2>2. CASE \E x \in Sides : AbortJump(x)
    BY <2>2, AbortJumpSteps, AbortJumpLists
  <2>3. CASE \A x \in Sides : ~AbortJump(x) /\ ~Up(x)
    <3>1. Shrinks
      BY <2>3, UnitSteps
    <3> QED
      BY <2>3, <3>1, OtherSteps, Places DEF SamePhase, PhaseKept, Empty, Stored, Shrinks
  <2> QED
    BY <2>1, <2>2, <2>3
<1>2. InLists'
  BY <1>1, ListsFrame DEF SgInv, SgKept
<1>3. Seeks'
  BY <1>1 DEF SgInv, Seeks, NoSearch, SgKept, Ahead
<1>4. Calm'
  BY <1>1 DEF SgInv, Calm, NoSearch
<1> QED
  BY <1>2, <1>3, <1>4 DEF SgInv

\* As many elements as places: while a list has room there is a free element.
LEMMA FreeElement ==
    ASSUME Typed, InLists, NEW p \in Packets, p \in held["S"], sgLen[p] < MaxSg
    PROVE  \E f \in Elems : f \notin used
<1> SUFFICES ASSUME used = Elems PROVE FALSE
  BY DEF Typed, SgTypes
<1>1. PICK P \in [Elems -> Packets], I \in [Elems -> 1 .. MaxSg] : Lists(P, I)
  BY DEF InLists
<1> DEFINE T == Packets \X (1 .. MaxSg)
           f == [e \in Elems |-> <<P[e], I[e]>>]
<1>2. N \in Nat /\ MaxSg \in Nat /\ N > 0 /\ MaxSg > 0 /\ N * MaxSg \in Nat
  BY StreamAssumption
<1>3. /\ IsFiniteSet(T) /\ Cardinality(T) = N * MaxSg
      /\ IsFiniteSet(Elems) /\ Cardinality(Elems) = N * MaxSg
  <2>1. IsFiniteSet(Packets) /\ Cardinality(Packets) = N
    BY <1>2, FS_Interval DEF Packets
  <2>2. IsFiniteSet(1 .. MaxSg) /\ Cardinality(1 .. MaxSg) = MaxSg
    BY <1>2, FS_Interval
  <2>3. IsFiniteSet(Elems) /\ Cardinality(Elems) = N * MaxSg
    <3>1. 0 \in Int /\ N * MaxSg - 1 \in Int /\ N * MaxSg >= 0
      BY <1>2
    <3>2. /\ IsFiniteSet(0 .. (N * MaxSg - 1))
          /\ Cardinality(0 .. (N * MaxSg - 1)) = IF 0 > N * MaxSg - 1 THEN 0 ELSE (N * MaxSg - 1) - 0 + 1
      BY <3>1, FS_Interval, Zenon
    <3> QED
      BY <1>2, <3>2 DEF Elems
  <2>4. IsFiniteSet(T) /\ Cardinality(T) = Cardinality(Packets) * Cardinality(1 .. MaxSg)
    BY <2>1, <2>2, FS_Product
  <2> QED
    BY <2>1, <2>2, <2>3, <2>4
<1>4. f \in Injection(Elems, T)
  BY <1>1 DEF Lists, Distinct, Injection, IsInjective
<1>5. f \in Surjection(Elems, T)
  BY <1>3, <1>4, FS_Injection
<1>6. <<p, MaxSg>> \in T
  BY <1>2
<1>7. PICK e \in Elems : f[e] = <<p, MaxSg>>
  BY <1>5, <1>6 DEF Surjection
<1>8. P[e] = p /\ I[e] = MaxSg
  BY <1>7
<1>9. List(P, I, p, sgList[p], 0)
  BY <1>1 DEF Lists, PacketList, Stored, Filling
<1>10. I[e] <= sgLen[p]
  BY <1>8, <1>9 DEF List
<1>11. sgLen[p] \in Int
  BY DEF Typed, SgTypes
<1> QED
  BY <1>2, <1>8, <1>10, <1>11

\* One step round the ring of elements, away from b and towards f.
LEMMA RingNext ==
    ASSUME NEW m \in Nat \ {0}, NEW b \in 0 .. m - 1, NEW e \in 0 .. m - 1,
           NEW f \in 0 .. m - 1, f # e,
           (IF f >= b THEN f - b ELSE f - b + m) >= (IF e >= b THEN e - b ELSE e - b + m)
    PROVE  LET i == (e + 1) % m
           IN  /\ i \in 0 .. m - 1 /\ i # b
               /\ (IF f >= b THEN f - b ELSE f - b + m)
                     >= (IF i >= b THEN i - b ELSE i - b + m)
<1> DEFINE i == (e + 1) % m
<1>1. i = IF e + 1 = m THEN 0 ELSE e + 1
  <2>1. CASE e + 1 = m
    <3>1. (0 + m) % m = 0 % m /\ 0 % m = 0
      BY ModShift, ModSmall
    <3> QED
      BY <2>1, <3>1
  <2>2. CASE e + 1 # m
    <3>1. e + 1 \in 0 .. m - 1
      BY <2>2
    <3> QED
      BY <2>2, <3>1, ModSmall
  <2> QED
    BY <2>1, <2>2
<1> HIDE DEF i
<1>2. i \in 0 .. m - 1 /\ i # b
      /\ (IF f >= b THEN f - b ELSE f - b + m) >= (IF i >= b THEN i - b ELSE i - b + m)
  BY <1>1
<1> QED
  BY <1>2 DEF i

\* dsi_packet_add_data begins its search where there is something to find.
LEMMA AddDataLists ==
    ASSUME Typed, UnitInv, SgInv, Shrinks, NEW p \in Packets, AddData(p)
    PROVE  SgInv'
<1>0. /\ wpc \in [Sides -> WorkerPcs] /\ wpkt \in [Sides -> Packets]
      /\ elem \in [Sides -> Elems \cup {LAST}] /\ nextElem \in Elems
  BY DEF Typed, ThreadTypes, SgTypes
<1>1. PhaseKept
  <2>1. \A q \in Packets : /\ Filling(q)' <=> Filling(q)
                           /\ Freeing(q)' <=> Freeing(q)
                           /\ Emptied(q)' <=> Emptied(q)
    BY <1>0, Places DEF AddData, Enter, Filling, Freeing, Emptied
  <2> QED
    BY <2>1, Places DEF PhaseKept, Empty, Stored, Shrinks
<1>2. InLists'
  BY <1>0, <1>1, ListsFrame, Places DEF AddData, SgInv
<1>3. Seeks'
  <2>1. PICK f \in Elems : f \notin used
    BY FreeElement DEF AddData, SgInv
  <2>2. nextElem' = nextElem /\ used' = used /\ elem'["S"] = nextElem /\ wpkt'["S"] = p /\ held' = held
    BY <1>0, Places DEF AddData, Enter
  <2>3. nextElem \in Int /\ f \in Int /\ f >= 0 /\ f < N * MaxSg /\ nextElem < N * MaxSg /\ N * MaxSg \in Int
    BY <1>0, <2>1, StreamAssumption DEF Elems
  <2>4. Ahead(elem["S"])' = 0 /\ Ahead(f)' >= 0
    BY <2>2, <2>3 DEF Ahead
  <2>5. p \in held["S"]
    BY DEF AddData
  <2> QED
    BY <2>1, <2>2, <2>4, <2>5 DEF Seeks
<1>4. Calm'
  BY <1>0, Places DEF AddData, Enter, Calm, SgInv
<1> QED
  BY <1>2, <1>3, <1>4 DEF SgInv

\* Skipping a used element never comes round to where the search began.
LEMMA SkipLists ==
    ASSUME Typed, UnitInv, SgInv, Shrinks, Search, elem["S"] \in used
    PROVE  SgInv'
<1> DEFINE e == elem["S"]
           i == (e + 1) % (N * MaxSg)
<1>0. /\ wpc \in [Sides -> WorkerPcs] /\ wpkt \in [Sides -> Packets]
      /\ elem \in [Sides -> Elems \cup {LAST}] /\ nextElem \in Elems
      /\ wpc["S"] = "search" /\ e \in Elems
  BY DEF Typed, ThreadTypes, SgTypes, Search
<1>1. PICK f \in Elems \ used : Ahead(f) >= Ahead(e)
  BY <1>0 DEF SgInv, Seeks
<1>2. i \in Elems /\ i # nextElem /\ Ahead(f) >= Ahead(i)
  <2>1. N * MaxSg \in Nat \ {0}
    BY StreamAssumption
  <2>2. f # e
    BY <1>1
  <2>3. /\ nextElem \in 0 .. N * MaxSg - 1 /\ e \in 0 .. N * MaxSg - 1
        /\ f \in 0 .. N * MaxSg - 1
    BY <1>0, <1>1 DEF Elems
  <2>4. (IF f >= nextElem THEN f - nextElem ELSE f - nextElem + N * MaxSg)
          >= (IF e >= nextElem THEN e - nextElem ELSE e - nextElem + N * MaxSg)
    BY <1>1 DEF Ahead
  <2> HIDE DEF e
  <2>5. /\ i \in 0 .. N * MaxSg - 1 /\ i # nextElem
        /\ (IF f >= nextElem THEN f - nextElem ELSE f - nextElem + N * MaxSg)
              >= (IF i >= nextElem THEN i - nextElem ELSE i - nextElem + N * MaxSg)
    BY <2>1, <2>2, <2>3, <2>4, RingNext
  <2> HIDE DEF i
  <2> QED
    BY <2>5 DEF Ahead, Elems
<1> HIDE DEF i
<1>3. /\ elem' = [elem EXCEPT !["S"] = i]
      /\ wpc' = [wpc EXCEPT !["S"] = "search"]
      /\ wpkt' = [wpkt EXCEPT !["S"] = wpkt["S"]]
      /\ UNCHANGED <<used, nextElem, nxt, sgList, sgIdx, sgLen, cnt, held>>
  BY <1>0, <1>2 DEF Search, Goto, Enter, i
<1>4. wpc' = wpc /\ wpkt' = wpkt /\ elem'["S"] = i /\ elem'["R"] = elem["R"]
  BY <1>0, <1>3, Places
<1>5. PhaseKept
  <2>1. \A q \in Packets : /\ Filling(q)' <=> Filling(q)
                           /\ Freeing(q)' <=> Freeing(q)
                           /\ Emptied(q)' <=> Emptied(q)
    BY <1>3, <1>4 DEF Filling, Freeing, Emptied
  <2> QED
    BY <2>1, Places DEF PhaseKept, Empty, Stored, Shrinks
<1>6. InLists'
  BY <1>3, <1>4, <1>5, ListsFrame DEF SgInv
<1>7. Seeks'
  <2>1. Ahead(f)' = Ahead(f) /\ Ahead(elem["S"])' = Ahead(i)
    BY <1>3, <1>4 DEF Ahead
  <2> QED
    BY <1>1, <1>2, <1>3, <1>4, <2>1 DEF Seeks, SgInv
<1>8. Calm'
  BY <1>4 DEF Calm, SgInv
<1> QED
  BY <1>6, <1>7, <1>8 DEF SgInv

\* The sender sets up the descriptor it got: its list is empty already.
LEMMA ClearLists ==
    ASSUME Typed, UnitInv, SgInv, Shrinks, GetClear
    PROVE  SgInv'
<1> USE DEF hist, syncvars
<1>p. PICK p : p = wpkt["S"]
  OBVIOUS
<1>0. /\ wpc \in [Sides -> WorkerPcs] /\ wpkt \in [Sides -> Packets]
      /\ held \in [Sides -> SUBSET Packets] /\ p \in Packets
      /\ sgLen \in [Packets -> 0 .. MaxSg] /\ wpc["S"] = "clear"
      /\ sgList \in [Packets -> Elems \cup {LAST}]
      /\ sgIdx \in [Packets -> Elems \cup {LAST}]
  BY <1>p, Places DEF Typed, ThreadTypes, SgTypes, GetClear
<1>1. Has("S", p) /\ ~Filling(p) /\ ~Has("R", p)
  <2>1. Works("S", p)
    BY <1>p, <1>0 DEF Works, Working
  <2>2. p \notin held["S"] /\ ~(Has("S", p) /\ Has("R", p))
    BY <1>0, <2>1, Places DEF UnitInv, Unit
  <2> QED
    BY <1>0, <2>1, <2>2 DEF Has, Own, Filling
<1>2. /\ wpc' = [wpc EXCEPT !["S"] = "idle"] /\ wpkt' = [wpkt EXCEPT !["S"] = 0]
      /\ held' = [held EXCEPT !["S"] = @ \cup {p}]
      /\ sgLen' = [sgLen EXCEPT ![p] = 0] /\ sgList' = [sgList EXCEPT ![p] = LAST]
      /\ sgIdx' = [sgIdx EXCEPT ![p] = LAST]
      /\ UNCHANGED <<used, nxt, nextElem, elem, cnt>>
  BY <1>p DEF GetClear, Goto, Enter
<1>3. PICK P \in [Elems -> Packets], I \in [Elems -> 1 .. MaxSg] : Lists(P, I)
  BY DEF SgInv, InLists
<1>4. \A e \in used : P[e] # p
  BY <1>0, <1>1, <1>3 DEF Lists, PacketList, Empty
<1>5. PacketList(P, I, p)'
  <2>1. ~(Freeing(p)')
    BY <1>0, <1>1, <1>2, Places DEF Freeing, Has, Own, Works, Working
  <2>2. sgLen'[p] = 0 /\ sgList'[p] = LAST /\ used' = used
    BY <1>0, <1>2
  <2>3. List(P, I, p, sgList[p], 0)'
    BY <1>4, <2>2 DEF List
  <2> QED
    BY <1>4, <2>1, <2>2, <2>3 DEF PacketList
<1>6. ASSUME NEW q \in Packets, q # p PROVE PacketList(P, I, q)'
  <2>1. /\ Filling(q)' <=> Filling(q)
        /\ Freeing(q)' <=> Freeing(q)
        /\ Emptied(q)' <=> Emptied(q)
    BY <1>p, <1>0, <1>2, <1>6, Places DEF Filling, Freeing, Emptied
  <2>2. /\ Empty(q)' => Empty(q)
        /\ Stored(q)' => Stored(q)
    BY <2>1, Places DEF Empty, Stored, Shrinks
  <2>3. sgLen'[q] = sgLen[q] /\ sgList'[q] = sgList[q] /\ sgIdx'[q] = sgIdx[q]
    BY <1>0, <1>2, <1>6
  <2>4. q \in held'["S"] => q \in held["S"]
    BY <1>0, <1>2, <1>6, Places
  <2>5. PacketList(P, I, q)
    BY <1>3 DEF Lists
  <2> QED
    BY <1>2, <2>1, <2>2, <2>3, <2>4, <2>5, PacketFrame
<1>7. InLists'
  <2>1. Distinct(P, I)'
    BY <1>2, <1>3 DEF Lists, Distinct
  <2> QED
    BY <1>5, <1>6, <2>1 DEF Lists, InLists
<1>8. Seeks' /\ Calm'
  BY <1>0, <1>2, Places DEF Seeks, Calm, SgInv
<1> QED
  BY <1>7, <1>8 DEF SgInv

\* A free element is put at the end of the list.
LEMMA AppendLists ==
    ASSUME Typed, UnitInv, SgInv, Shrinks, Search, elem["S"] \notin used
    PROVE  SgInv'
<1>p. PICK p, e, n : p = wpkt["S"] /\ e = elem["S"] /\ n = sgLen[p]
  OBVIOUS
<1>0. /\ wpc \in [Sides -> WorkerPcs] /\ wpkt \in [Sides -> Packets]
      /\ elem \in [Sides -> Elems \cup {LAST}] /\ used \subseteq Elems
      /\ wpc["S"] = "search" /\ e \in Elems /\ p \in Packets
      /\ n \in Nat /\ n < MaxSg /\ p \in held["S"]
      /\ sgLen \in [Packets -> 0 .. MaxSg]
      /\ sgList \in [Packets -> Elems \cup {LAST}]
      /\ sgIdx \in [Packets -> Elems \cup {LAST}]
      /\ nxt \in [Elems -> Elems \cup {LAST}]
  BY <1>p, Places DEF Typed, ThreadTypes, SgTypes, Search, SgInv, Seeks
<1>1. /\ wpc' = [wpc EXCEPT !["S"] = "idle"] /\ wpkt' = [wpkt EXCEPT !["S"] = 0]
      /\ elem' = [elem EXCEPT !["S"] = 0]
      /\ used' = used \cup {e}
      /\ nxt' = [k \in Elems |-> IF k = e THEN LAST
                                 ELSE IF n > 0 /\ k = sgIdx[p] THEN e ELSE nxt[k]]
      /\ sgList' = IF n = 0 THEN [sgList EXCEPT ![p] = e] ELSE sgList
      /\ sgIdx' = [sgIdx EXCEPT ![p] = e]
      /\ sgLen' = [sgLen EXCEPT ![p] = n + 1]
      /\ UNCHANGED <<cnt, held>>
  BY <1>p DEF Search, AppendElem, Goto, Enter
<1>2. ~Has("R", p)
  BY <1>0 DEF UnitInv, Has, Own
<1>3. PICK P \in [Elems -> Packets], I \in [Elems -> 1 .. MaxSg] : Lists(P, I)
  BY DEF SgInv, InLists
<1>4. e \notin used /\ MaxSg \in Nat
  BY <1>p, StreamAssumption
<1>5. PICK P2 \in [Elems -> Packets], I2 \in [Elems -> 1 .. MaxSg] :
         /\ P2[e] = p /\ I2[e] = n + 1
         /\ \A k \in used : P2[k] = P[k] /\ I2[k] = I[k]
  <2>1. /\ [P EXCEPT ![e] = p] \in [Elems -> Packets]
        /\ [I EXCEPT ![e] = n + 1] \in [Elems -> 1 .. MaxSg]
    BY <1>0, <1>3, <1>4
  <2>2. /\ [P EXCEPT ![e] = p][e] = p /\ [I EXCEPT ![e] = n + 1][e] = n + 1
        /\ \A k \in used : [P EXCEPT ![e] = p][k] = P[k] /\ [I EXCEPT ![e] = n + 1][k] = I[k]
    BY <1>0, <1>3, <1>4
  <2> QED
    BY <2>1, <2>2, Zenon
<1>6. /\ n = sgLen[p]
      /\ List(P, I, p, sgList[p], 0)
      /\ n > 0 => At(P, I, sgIdx[p], p, n)
      /\ Distinct(P, I)
  BY <1>p, <1>0, <1>3 DEF Lists, PacketList, Stored, Filling
<1>7. \A k \in used : P[k] = p => I[k] \in 1 .. n
  BY <1>6 DEF List
<1>8. Distinct(P2, I2)'
  <2> SUFFICES ASSUME NEW a \in used', NEW b \in used', P2[a] = P2[b], I2[a] = I2[b]
               PROVE  a = b
    BY DEF Distinct
  <2>1. CASE a \in used /\ b \in used
    BY <1>5, <1>6, <2>1 DEF Distinct
  <2>2. CASE a = e \/ b = e
    BY <1>0, <1>1, <1>5, <1>7, <2>2
  <2> QED
    BY <1>1, <2>1, <2>2
<1>9. /\ sgLen'[p] = n + 1 /\ sgIdx'[p] = e /\ nxt'[e] = LAST
      /\ sgList'[p] = IF n = 0 THEN e ELSE sgList[p]
      /\ n > 0 => nxt'[sgIdx[p]] = e
      /\ \A k \in used : (n > 0 /\ k = sgIdx[p]) \/ nxt'[k] = nxt[k]
  BY <1>0, <1>1, <1>4, <1>6 DEF At
<1>10. /\ At(P2, I2, e, p, n + 1)'
       /\ \A k, q, i : At(P, I, k, q, i) => At(P2, I2, k, q, i)'
  BY <1>1, <1>5 DEF At
<1>11. List(P2, I2, p, sgList[p], 0)'
  <2>1. At(P2, I2, sgList[p], p, 1)'
    <3>1. CASE n = 0
      BY <1>9, <1>10, <3>1
    <3>2. CASE n # 0
      BY <1>0, <1>6, <1>9, <1>10, <3>2 DEF List
    <3> QED
      BY <3>1, <3>2
  <2>2. ASSUME NEW k \in used', P2[k] = p
        PROVE  /\ I2[k] \in 1 .. (n + 1)
               /\ IF I2[k] = n + 1 THEN nxt'[k] = LAST
                                   ELSE At(P2, I2, nxt[k], p, I2[k] + 1)'
    <3>1. CASE k = e
      BY <1>0, <1>5, <1>9, <3>1
    <3>2. CASE k # e
      <4>1. k \in used /\ P[k] = p /\ I2[k] = I[k] /\ I[k] \in 1 .. n
        BY <1>1, <1>5, <1>7, <2>2, <3>2
      <4>2. CASE I[k] = n
        <5>1. n > 0 /\ k = sgIdx[p]
          BY <1>0, <1>6, <4>1, <4>2 DEF Distinct, At
        <5> QED
          BY <1>0, <1>9, <1>10, <4>1, <4>2, <5>1
      <4>3. CASE I[k] # n
        <5>1. k # sgIdx[p] \/ ~(n > 0)
          BY <1>6, <4>3 DEF At
        <5>2. At(P, I, nxt[k], p, I[k] + 1) /\ nxt'[k] = nxt[k]
          BY <1>6, <1>9, <4>1, <4>3, <5>1 DEF List
        <5> QED
          BY <1>0, <1>10, <4>1, <5>2
      <4> QED
        BY <4>2, <4>3
    <3> QED
      BY <3>1, <3>2
  <2> QED
    BY <1>0, <1>9, <2>1, <2>2 DEF List
<1>12. PacketList(P2, I2, p)'
  <2>1. p \in held'["S"] /\ ~(Freeing(p)') /\ ~(Emptied(p)')
    BY <1>0, <1>1, <1>2, Places DEF Freeing, Emptied, Has, Own, Works, Working
  <2>2. ~(Empty(p)')
    BY <2>1 DEF Empty, Filling
  <2> QED
    BY <1>9, <1>10, <1>11, <2>1, <2>2 DEF PacketList
<1>13. ASSUME NEW q \in Packets, q # p PROVE PacketList(P2, I2, q)'
  <2>1. /\ Filling(q)' <=> Filling(q)
        /\ Freeing(q)' <=> Freeing(q)
        /\ Emptied(q)' <=> Emptied(q)
    BY <1>0, <1>1, Places DEF Filling, Freeing, Emptied
  <2>2. /\ Empty(q)' => Empty(q)
        /\ Stored(q)' => Stored(q)
    BY <2>1, Places DEF Empty, Stored, Shrinks
  <2>3. sgLen'[q] = sgLen[q] /\ sgList'[q] = sgList[q] /\ sgIdx'[q] = sgIdx[q]
    BY <1>0, <1>1, <1>13
  <2>4. elem'["R"] = elem["R"] /\ cnt' = cnt /\ held' = held
    BY <1>0, <1>1, Places
  <2>5. \A k : k \in used' /\ P2[k] = q <=> k \in used /\ P[k] = q
    BY <1>1, <1>4, <1>5, <1>13
  <2>6. \A k \in used : P[k] = q => I2[k] = I[k] /\ nxt'[k] = nxt[k]
    BY <1>5, <1>6, <1>9, <1>13 DEF At
  <2>7. PacketList(P, I, q)
    BY <1>3 DEF Lists
  <2> QED
    BY <2>1, <2>2, <2>3, <2>4, <2>5, <2>6, <2>7, PacketFrame
<1>14. InLists'
  BY <1>5, <1>8, <1>12, <1>13 DEF Lists, InLists
<1>15. Seeks' /\ Calm'
  BY <1>0, <1>1, Places DEF Seeks, Calm, SgInv
<1> QED
  BY <1>14, <1>15 DEF SgInv

\* The receiver starts to free a complete list.
LEMMA UncountLists ==
    ASSUME Typed, UnitInv, SgInv, Shrinks, Uncount
    PROVE  SgInv'
<1>p. PICK p : p = wpkt["R"]
  OBVIOUS
<1>0. /\ wpc \in [Sides -> WorkerPcs] /\ wpkt \in [Sides -> Packets]
      /\ elem \in [Sides -> Elems \cup {LAST}] /\ p \in Packets
      /\ wpc["R"] = "uncount"
  BY <1>p, Places DEF Typed, ThreadTypes, SgTypes, Uncount
<1>1. /\ wpc' = [wpc EXCEPT !["R"] = "free"] /\ wpkt' = [wpkt EXCEPT !["R"] = p]
      /\ elem' = [elem EXCEPT !["R"] = sgList[p]] /\ cnt' = 0
      /\ UNCHANGED <<sgLen, sgList, sgIdx, used, nxt, nextElem, held>>
  BY <1>p DEF Uncount, Goto, Enter
<1>2. Stored(p) /\ ~Filling(p) /\ ~Has("S", p)
  <2>1. Has("R", p)
    BY <1>p, <1>0 DEF Has, Own, Works, Working
  <2>2. ~Has("S", p)
    BY <1>0, <2>1 DEF UnitInv
  <2>3. ~Filling(p)
    BY <2>2 DEF Filling, Has, Own, Works, Working
  <2> QED
    BY <1>0, <2>1, <2>2, <2>3 DEF Stored, Freeing, Emptied
<1>3. PICK P \in [Elems -> Packets], I \in [Elems -> 1 .. MaxSg] : Lists(P, I)
  BY DEF SgInv, InLists
<1>4. PacketList(P, I, p)'
  <2>1. List(P, I, p, sgList[p], 0)
    BY <1>0, <1>2, <1>3 DEF Lists, PacketList
  <2>2. elem'["R"] = sgList[p]
    BY <1>0, <1>1, Places
  <2>3. List(P, I, p, elem["R"], cnt)'
    BY <1>1, <2>1, <2>2 DEF List, At
  <2>4. Freeing(p)' /\ ~(Emptied(p)') /\ ~(Filling(p)') /\ ~(Has("S", p)')
    BY <1>0, <1>1, <1>2, Places DEF Freeing, Emptied, Filling, Shrinks
  <2>5. p \notin held["S"]
    BY <1>2 DEF Filling
  <2> QED
    BY <1>1, <2>3, <2>4, <2>5 DEF PacketList, Empty, Stored
<1>5. ASSUME NEW q \in Packets, q # p PROVE PacketList(P, I, q)'
  <2>1. /\ Filling(q)' <=> Filling(q)
        /\ Emptied(q)' <=> Emptied(q)
        /\ ~(Freeing(q)') /\ ~Freeing(q)
    BY <1>p, <1>0, <1>1, <1>5, Places DEF Filling, Freeing, Emptied
  <2>2. /\ Empty(q)' => Empty(q)
        /\ Stored(q)' => Stored(q)
    BY <2>1, Places DEF Empty, Stored, Shrinks
  <2>3. PacketList(P, I, q)
    BY <1>3 DEF Lists
  <2> QED
    BY <1>1, <2>1, <2>2, <2>3, PacketFrame
<1>6. InLists'
  <2>1. Distinct(P, I)'
    BY <1>1, <1>3 DEF Lists, Distinct
  <2> QED
    BY <1>4, <1>5, <2>1 DEF Lists, InLists
<1>7. Seeks'
  BY <1>0, <1>1, Places DEF Seeks, SgInv, Ahead
<1>8. Calm'
  BY <1>0, <1>1, Places DEF Calm, SgInv
<1> QED
  BY <1>6, <1>7, <1>8 DEF SgInv

\* The receiver frees the first element of what is left of the list, or it is
\* at the end of the list when it has freed all.
LEMMA FreeLists ==
    ASSUME Typed, UnitInv, SgInv, Shrinks, FreeElem
    PROVE  SgInv'
<1>p. PICK p, e, c : p = wpkt["R"] /\ e = elem["R"] /\ c = cnt
  OBVIOUS
<1>0. /\ wpc \in [Sides -> WorkerPcs] /\ wpkt \in [Sides -> Packets]
      /\ elem \in [Sides -> Elems \cup {LAST}] /\ p \in Packets
      /\ wpc["R"] = "free" /\ sgLen[p] \in Nat /\ c \in Nat
      /\ used \subseteq Elems /\ LAST \notin Elems
  <2>1. LAST \notin Elems
    BY StreamAssumption DEF LAST, Elems
  <2> QED
    BY <1>p, <2>1, Places DEF Typed, ThreadTypes, SgTypes, FreeElem
<1>1. Freeing(p) /\ ~Filling(p) /\ ~Has("S", p)
  <2>1. Has("R", p)
    BY <1>p, <1>0 DEF Has, Own, Works, Working
  <2>2. ~Has("S", p)
    BY <1>0, <2>1 DEF UnitInv
  <2> QED
    BY <1>p, <1>0, <2>2 DEF Freeing, Filling, Has, Own, Works, Working
<1>2. PICK P \in [Elems -> Packets], I \in [Elems -> 1 .. MaxSg] : Lists(P, I)
  BY DEF SgInv, InLists
<1>3. List(P, I, p, e, c) /\ Distinct(P, I)
  BY <1>p, <1>0, <1>1, <1>2 DEF Lists, PacketList
<1>4. CASE c < sgLen[p]
  <2>1. At(P, I, e, p, c + 1) /\ e # LAST
    BY <1>0, <1>3, <1>4 DEF List, At
  <2>2. /\ elem' = [elem EXCEPT !["R"] = nxt[e]] /\ used' = used \ {e} /\ cnt' = c + 1
        /\ wpc' = wpc /\ wpkt' = wpkt
        /\ UNCHANGED <<sgLen, sgList, sgIdx, nxt, nextElem, held>>
    BY <1>p, <1>4, <2>1 DEF FreeElem
  <2>3. \A k, i : At(P, I, k, p, i) /\ i # c + 1 => At(P, I, k, p, i)'
    BY <2>1, <2>2 DEF At
  <2>4. elem'["R"] = nxt[e]
    BY <1>0, <2>2, Places
  <2>5. List(P, I, p, elem["R"], cnt)'
    <3>1. IF c + 1 = sgLen[p] THEN nxt[e] = LAST ELSE At(P, I, nxt[e], p, c + 2)
      BY <1>0, <1>3, <2>1 DEF List, At
    <3>2. IF c + 1 = sgLen[p] THEN elem'["R"] = LAST ELSE At(P, I, elem["R"], p, c + 2)'
      BY <1>0, <2>3, <2>4, <3>1
    <3>3. ASSUME NEW k \in used', P[k] = p
          PROVE  /\ I[k] \in c + 2 .. sgLen[p]
                 /\ IF I[k] = sgLen[p] THEN nxt'[k] = LAST
                                       ELSE At(P, I, nxt[k], p, I[k] + 1)'
      <4>1. k \in used /\ k # e /\ nxt' = nxt
        BY <2>2
      <4>2. /\ I[k] \in c + 1 .. sgLen[p]
            /\ IF I[k] = sgLen[p] THEN nxt[k] = LAST ELSE At(P, I, nxt[k], p, I[k] + 1)
        BY <1>3, <3>3, <4>1 DEF List
      <4>3. I[k] # c + 1
        BY <1>3, <2>1, <3>3, <4>1 DEF Distinct, At
      <4>4. I[k] \in c + 2 .. sgLen[p] /\ I[k] + 1 # c + 1
        BY <1>0, <4>2, <4>3
      <4>5. CASE I[k] = sgLen[p]
        BY <4>1, <4>2, <4>4, <4>5
      <4>6. CASE I[k] # sgLen[p]
        <5>1. At(P, I, nxt[k], p, I[k] + 1)
          BY <4>2, <4>6
        <5>2. At(P, I, nxt[k], p, I[k] + 1)'
          BY <2>3, <4>1, <4>4, <5>1
        <5> QED
          BY <4>4, <4>6, <5>2
      <4> QED
        BY <4>5, <4>6
    <3>4. sgLen' = sgLen /\ cnt' = c + 1 /\ c + 1 <= sgLen[p] /\ (c + 1) + 1 = c + 2
      BY <1>0, <1>4, <2>2
    <3> QED
      BY <3>2, <3>3, <3>4 DEF List
  <2>6. PacketList(P, I, p)'
    <3>1. Freeing(p)' /\ ~(Emptied(p)') /\ ~(Filling(p)') /\ ~(Has("S", p)')
      BY <1>0, <1>1, <2>2, Places DEF Freeing, Emptied, Filling, Shrinks
    <3>2. p \notin held'["S"]
      BY <1>1, <2>2 DEF Filling
    <3> QED
      BY <2>5, <3>1, <3>2 DEF PacketList, Empty, Stored
  <2>7. ASSUME NEW q \in Packets, q # p PROVE PacketList(P, I, q)'
    <3>1. /\ Filling(q)' <=> Filling(q)
          /\ Emptied(q)' <=> Emptied(q)
          /\ ~(Freeing(q)') /\ ~Freeing(q)
      BY <1>p, <2>2, <2>7 DEF Filling, Freeing, Emptied
    <3>2. /\ Empty(q)' => Empty(q)
          /\ Stored(q)' => Stored(q)
      BY <3>1, Places DEF Empty, Stored, Shrinks
    <3>3. PacketList(P, I, q)
      BY <1>2 DEF Lists
    <3>4. \A k : k \in used' /\ P[k] = q <=> k \in used /\ P[k] = q
      BY <2>1, <2>2, <2>7 DEF At
    <3> QED
      BY <2>2, <3>1, <3>2, <3>3, <3>4, PacketFrame
  <2>8. InLists'
    <3>1. Distinct(P, I)'
      BY <1>3, <2>2 DEF Distinct
    <3> QED
      BY <2>6, <2>7, <3>1 DEF Lists, InLists
  <2>9. Seeks'
    <3>1. elem'["S"] = elem["S"]
      BY <1>0, <2>2, Places
    <3> QED
      BY <2>2, <3>1 DEF Seeks, SgInv, Ahead
  <2>10. Calm'
    BY <2>2 DEF Calm, SgInv
  <2> QED
    BY <2>8, <2>9, <2>10 DEF SgInv
<1>5. CASE ~(c < sgLen[p])
  <2>1. e = LAST /\ c = sgLen[p]
    BY <1>0, <1>3, <1>5 DEF List
  <2>2. /\ wpc' = [wpc EXCEPT !["R"] = "up"] /\ wpkt' = [wpkt EXCEPT !["R"] = p]
        /\ elem' = [elem EXCEPT !["R"] = 0]
        /\ UNCHANGED <<used, sgLen, sgList, sgIdx, nxt, nextElem, held>>
    BY <1>p, <1>5, <2>1 DEF FreeElem, Goto, Enter
  <2>3. \A k \in used : P[k] # p
    BY <1>0, <1>3, <2>1 DEF List
  <2>4. PacketList(P, I, p)'
    <3>1. ~(Freeing(p)') /\ Emptied(p)' /\ ~(Filling(p)')
      BY <1>0, <1>1, <2>2, Places DEF Freeing, Emptied, Filling
    <3>2. p \notin held'["S"]
      BY <1>1, <2>2 DEF Filling
    <3> QED
      BY <2>2, <2>3, <3>1, <3>2 DEF PacketList, Stored
  <2>5. ASSUME NEW q \in Packets, q # p PROVE PacketList(P, I, q)'
    <3>1. /\ Filling(q)' <=> Filling(q)
          /\ Emptied(q)' <=> Emptied(q)
          /\ ~(Freeing(q)') /\ ~Freeing(q)
      BY <1>p, <1>0, <2>2, <2>5, Places DEF Filling, Freeing, Emptied
    <3>2. /\ Empty(q)' => Empty(q)
          /\ Stored(q)' => Stored(q)
      BY <3>1, Places DEF Empty, Stored, Shrinks
    <3>3. PacketList(P, I, q)
      BY <1>2 DEF Lists
    <3> QED
      BY <2>2, <3>1, <3>2, <3>3, PacketFrame
  <2>6. InLists'
    <3>1. Distinct(P, I)'
      BY <1>3, <2>2 DEF Distinct
    <3> QED
      BY <2>4, <2>5, <3>1 DEF Lists, InLists
  <2>7. Seeks'
    BY <1>0, <2>2, Places DEF Seeks, SgInv, Ahead
  <2>8. Calm'
    BY <1>0, <2>2, Places DEF Calm, SgInv
  <2> QED
    BY <2>6, <2>7, <2>8 DEF SgInv
<1> QED
  BY <1>4, <1>5

\* Every step keeps the lists.
LEMMA SgNext ==
    ASSUME Intact', Typed, AbortInv, UnitInv, SyncInv, SgInv, [Next]_vars
    PROVE  SgInv'
<1>1. CASE UNCHANGED vars
  <2>1. PhaseKept
    BY <1>1 DEF vars, syncvars, hist, PhaseKept, Empty, Stored, Filling, Freeing, Emptied,
                Has, Own, Works, Waits
  <2>2. InLists'
    BY <1>1, <2>1, ListsFrame DEF vars, sgvars, SgInv
  <2> QED
    BY <1>1, <2>2 DEF vars, sgvars, SgInv, Seeks, Ahead, Calm
<1>2. CASE Next /\ ~ListStep
  BY <1>2, ListsKept
<1>3. CASE Next /\ ListStep
  <2>1. \A x \in Sides : ~Up(x)
    <3>1. sem' = sem
      BY <1>3 DEF ListStep, GetClear, Search, Uncount, FreeElem, AddData
    <3> SUFFICES ASSUME NEW x \in Sides, Up(x) PROVE FALSE
      OBVIOUS
    <3>2. sem \in [Sides -> [Packets -> Int]] /\ wpkt[x] \in Packets /\ Peer(x) \in Sides
      BY Places DEF Typed, ThreadTypes, WordTypes
    <3>3. sem'[Peer(x)][wpkt[x]] = sem[Peer(x)][wpkt[x]] + 1
      BY <3>2 DEF Up
    <3>4. sem[Peer(x)][wpkt[x]] \in Int
      BY <3>2
    <3> QED
      BY <3>1, <3>3, <3>4
  <2>2. Shrinks
    BY <1>3, <2>1, UnitSteps
  <2>3. CASE Search
    BY <2>2, <2>3, SkipLists, AppendLists
  <2> QED
    BY <1>3, <2>2, <2>3, ClearLists, UncountLists, FreeLists, AddDataLists DEF ListStep
<1> QED
  BY <1>1, <1>2, <1>3

\* At the start all elements are free.
LEMMA SgInit == Init => SgInv
<1> SUFFICES ASSUME Init PROVE SgInv
  OBVIOUS
<1>1. PICK P \in [Elems -> Packets], I \in [Elems -> 1 .. MaxSg] : TRUE
  <2>1. [e \in Elems |-> 0] \in [Elems -> Packets]
    BY Places
  <2>2. 1 \in 1 .. MaxSg
    BY StreamAssumption
  <2>3. [e \in Elems |-> 1] \in [Elems -> 1 .. MaxSg]
    BY <2>2
  <2> QED
    BY <2>1, <2>3
<1>2. used = {} /\ wpc["S"] = "idle" /\ wpc["R"] = "idle" /\ held["S"] = {} /\ held["R"] = {}
  BY Places DEF Init
<1>3. \A p \in Packets : sem["R"][p] = 0
  BY Places DEF Init
<1>4. ASSUME NEW p \in Packets PROVE PacketList(P, I, p)
  <2>1. ~Filling(p) /\ ~Freeing(p) /\ ~Has("R", p)
    BY <1>2, <1>3 DEF Filling, Freeing, Has, Own, Works, Working, Waits
  <2> QED
    BY <1>2, <2>1 DEF PacketList, Stored
<1>5. InLists
  BY <1>2, <1>4 DEF InLists, Lists, Distinct
<1>6. Calm
  BY <1>2 DEF Calm, Sides
<1> QED
  BY <1>2, <1>5, <1>6 DEF SgInv, Seeks

\* The lists stay intact until an update of a flag word is overwritten.
ListInv == Intact => IInv /\ SgInv

LEMMA ListInvariance == Spec => []ListInv
<1>1. Init => ListInv
  BY SgInit, TypedInit, UnitInit, CountInit, DueInit DEF ListInv, IInv
<1>2. ListInv /\ StreamInv' /\ [Next]_vars => ListInv'
  <2> SUFFICES ASSUME ListInv, StreamInv', [Next]_vars, Intact' PROVE IInv' /\ SgInv'
    BY DEF ListInv
  <2>1. Intact
    BY CfgSteps DEF Intact
  <2>2. IInv /\ SgInv
    BY <2>1 DEF ListInv
  <2> QED
    BY <2>2, SgNext DEF IInv, StreamInv
<1> QED
  BY <1>1, <1>2, Invariance, PTL DEF Spec

(* The elements of a list, from the first on.                               *)
Walk(f, p) ==
    f = [k \in 1 .. MaxSg |->
            IF k = 1 THEN sgList[p]
            ELSE IF f[k - 1] \in Elems THEN nxt[f[k - 1]] ELSE LAST]

\* The i-th element of a stored list is the one said to be there.
LEMMA ElemAtIs ==
    ASSUME Typed, NEW P, NEW I, Distinct(P, I), NEW p \in Packets,
           List(P, I, p, sgList[p], 0), NEW i \in 1 .. sgLen[p]
    PROVE  At(P, I, ElemAt(p, i), p, i)
<1> DEFINE n == sgLen[p]
           g == [k \in 1 .. MaxSg |-> IF k <= n THEN CHOOSE e : At(P, I, e, p, k) ELSE LAST]
<1>0. /\ n \in 0 .. MaxSg /\ MaxSg \in Nat /\ used \subseteq Elems /\ LAST \notin Elems
  <2>1. LAST \notin Elems
    BY StreamAssumption DEF LAST, Elems
  <2> QED
    BY <2>1, StreamAssumption DEF Typed, SgTypes
<1>1. /\ IF n = 0 THEN sgList[p] = LAST ELSE At(P, I, sgList[p], p, 1)
      /\ \A k \in 1 .. n : \A e : At(P, I, e, p, k) =>
            IF k = n THEN nxt[e] = LAST ELSE At(P, I, nxt[e], p, k + 1)
  BY <1>0 DEF List, At
<1>2. \A e, d, k : At(P, I, e, p, k) /\ At(P, I, d, p, k) => e = d
  BY DEF Distinct, At
<1> HIDE DEF n
<1>3. \A k \in 1 .. n : \E e : At(P, I, e, p, k)
  <2> DEFINE Bad == {k \in 1 .. n : ~\E e : At(P, I, e, p, k)}
  <2> SUFFICES ASSUME Bad # {} PROVE FALSE
    OBVIOUS
  <2>1. Bad \in SUBSET Nat
    BY <1>0
  <2>2. PICK k \in Bad : \A j \in Bad : k <= j
    BY <2>1, Least!LeastNat
  <2>3. k # 1 /\ k \in 1 .. n
    BY <1>0, <1>1, <2>2
  <2>4. k - 1 \in 1 .. n /\ k - 1 \notin Bad /\ k - 1 # n /\ (k - 1) + 1 = k
    BY <1>0, <2>2, <2>3
  <2>5. PICK e : At(P, I, e, p, k - 1)
    BY <2>4
  <2>6. At(P, I, nxt[e], p, (k - 1) + 1)
    BY <1>1, <2>4, <2>5
  <2> QED
    BY <2>2, <2>4, <2>6
<1>4. \A k \in 1 .. n : k \in 1 .. MaxSg /\ At(P, I, g[k], p, k)
  <2> SUFFICES ASSUME NEW k \in 1 .. n PROVE k \in 1 .. MaxSg /\ At(P, I, g[k], p, k)
    OBVIOUS
  <2>1. k \in 1 .. MaxSg /\ g[k] = CHOOSE e : At(P, I, e, p, k)
    BY <1>0
  <2>2. \E e : At(P, I, e, p, k)
    BY <1>3
  <2> QED
    BY <2>1, <2>2
<1>5. \A k \in 1 .. MaxSg : k > n => g[k] = LAST
  BY <1>0
<1> HIDE DEF g
<1>6. ASSUME NEW k \in 1 .. MaxSg
      PROVE  g[k] = IF k = 1 THEN sgList[p]
                    ELSE IF g[k - 1] \in Elems THEN nxt[g[k - 1]] ELSE LAST
  <2>1. CASE k = 1
    <3>1. CASE n = 0
      BY <1>1, <1>5, <2>1, <3>1
    <3>2. CASE n # 0
      BY <1>0, <1>1, <1>2, <1>4, <2>1, <3>2
    <3> QED
      BY <3>1, <3>2
  <2>2. CASE k # 1
    <3>0. k - 1 \in 1 .. MaxSg /\ (k - 1) + 1 = k
      BY <1>0, <2>2
    <3>1. CASE k <= n
      <4>1. k - 1 \in 1 .. n /\ k \in 1 .. n /\ k - 1 # n
        BY <1>0, <2>2, <3>1
      <4>2. At(P, I, g[k - 1], p, k - 1) /\ At(P, I, g[k], p, k)
        BY <1>4, <4>1
      <4>3. At(P, I, nxt[g[k - 1]], p, (k - 1) + 1)
        BY <1>1, <4>1, <4>2
      <4>4. g[k - 1] \in Elems
        BY <1>0, <4>2 DEF At
      <4> QED
        BY <1>2, <2>2, <3>0, <4>2, <4>3, <4>4
    <3>2. CASE k - 1 = n
      <4>1. k - 1 \in 1 .. n /\ g[k] = LAST
        BY <1>0, <1>5, <3>0, <3>2
      <4>2. At(P, I, g[k - 1], p, k - 1)
        BY <1>4, <4>1
      <4>3. nxt[g[k - 1]] = LAST /\ g[k - 1] \in Elems
        BY <1>0, <1>1, <3>2, <4>1, <4>2 DEF At
      <4> QED
        BY <2>2, <4>1, <4>3
    <3>3. CASE k - 1 > n
      BY <1>0, <1>5, <2>2, <3>0, <3>3
    <3> QED
      BY <1>0, <3>1, <3>2, <3>3
  <2> QED
    BY <2>1, <2>2
<1>7. Walk(g, p)
  <2>1. g = [k \in 1 .. MaxSg |-> g[k]]
    BY DEF g
  <2> QED
    BY <1>6, <2>1 DEF Walk
<1> DEFINE at == CHOOSE f : Walk(f, p)
<1>8. Walk(at, p)
  BY <1>7
<1>9. ElemAt(p, i) = at[i]
  BY DEF ElemAt, Walk
<1> HIDE DEF at
<1>10. \A k \in 1 .. MaxSg : at[k] = IF k = 1 THEN sgList[p]
                    ELSE IF at[k - 1] \in Elems THEN nxt[at[k - 1]] ELSE LAST
  BY <1>8 DEF Walk
<1>11. \A k \in 1 .. n : At(P, I, at[k], p, k)
  <2> DEFINE Bad == {k \in 1 .. n : ~At(P, I, at[k], p, k)}
  <2> SUFFICES ASSUME Bad # {} PROVE FALSE
    OBVIOUS
  <2>1. Bad \in SUBSET Nat
    BY <1>0
  <2>2. PICK k \in Bad : \A j \in Bad : k <= j
    BY <2>1, Least!LeastNat
  <2>3. k \in 1 .. n /\ k \in 1 .. MaxSg /\ n # 0
    BY <1>0, <2>2
  <2>4. k # 1
    BY <1>1, <1>10, <2>2, <2>3
  <2>5. k - 1 \in 1 .. n /\ k - 1 \notin Bad /\ k - 1 # n /\ (k - 1) + 1 = k
    BY <1>0, <2>2, <2>3, <2>4
  <2>6. At(P, I, at[k - 1], p, k - 1)
    BY <2>5
  <2>7. At(P, I, nxt[at[k - 1]], p, (k - 1) + 1) /\ at[k - 1] \in Elems
    BY <1>0, <1>1, <2>5, <2>6 DEF At
  <2>8. at[k] = nxt[at[k - 1]]
    BY <1>10, <2>3, <2>4, <2>7
  <2> QED
    BY <2>2, <2>5, <2>7, <2>8
<1> QED
  BY <1>9, <1>11 DEF n

\* Whatever is taken from the pool of scatter gather elements and given back
\* around it, the list of a packet that belongs to somebody stays what it is:
\* its elements are in use, distinct and in no other list, unless an update of
\* a flag word was overwritten.
THEOREM SgListsStayIntact == Spec => []SgListsIntact
<1>1. ListInv => SgListsIntact
  <2> SUFFICES ASSUME IInv, SgInv PROVE SgListsIntact
    BY DEF ListInv, SgListsIntact
  <2> DEFINE places == {pl \in Filled \X (1 .. MaxSg) : pl[2] <= sgLen[pl[1]]}
             listed == {ElemAt(pl[1], pl[2]) : pl \in places}
             f == [pl \in places |-> ElemAt(pl[1], pl[2])]
  <2>0. Typed /\ UnitInv /\ held \in [Sides -> SUBSET Packets]
        /\ sgLen \in [Packets -> 0 .. MaxSg]
    BY DEF IInv, Typed, ThreadTypes, SgTypes
  <2>1. PICK P \in [Elems -> Packets], I \in [Elems -> 1 .. MaxSg] : Lists(P, I)
    BY DEF SgInv, InLists
  <2>2. ASSUME NEW p \in Filled PROVE p \in Packets /\ List(P, I, p, sgList[p], 0)
    <3>1. p \in Packets
      BY <2>0, Places DEF Filled
    <3>2. CASE p \in held["S"] \/ (wpc["S"] \in {"callback", "up"} /\ wpkt["S"] = p)
      BY <2>1, <3>1, <3>2 DEF Lists, PacketList, Stored, Filling
    <3>3. CASE sem["R"][p] = 1 \/ p \in held["R"]
      <4>1. Has("R", p)
        BY <3>3 DEF Has, Own
      <4>2. ~Works("R", p)
        BY <2>0, <3>1, <3>3, Places DEF UnitInv, Unit, Own
      <4>3. ~Freeing(p) /\ ~Emptied(p)
        BY <4>2 DEF Freeing, Emptied, Works, Working
      <4> QED
        BY <2>1, <3>1, <4>1, <4>3 DEF Lists, PacketList, Stored
    <3> QED
      BY <3>1, <3>2, <3>3 DEF Filled
  <2>3. ASSUME NEW pl \in places
        PROVE  At(P, I, ElemAt(pl[1], pl[2]), pl[1], pl[2])
    <3>1. pl[1] \in Filled /\ pl[1] \in Packets /\ pl[2] \in 1 .. sgLen[pl[1]]
      BY <2>0, <2>2
    <3>2. Distinct(P, I) /\ List(P, I, pl[1], sgList[pl[1]], 0)
      BY <2>1, <2>2, <3>1 DEF Lists
    <3> QED
      BY <2>0, <3>1, <3>2, ElemAtIs
  <2>4. listed \subseteq used
    BY <2>3 DEF At
  <2>5. IsFiniteSet(places)
    <3>1. IsFiniteSet(Packets) /\ IsFiniteSet(1 .. MaxSg)
      BY StreamAssumption, FS_Interval DEF Packets
    <3>2. IsFiniteSet(Packets \X (1 .. MaxSg))
      BY <3>1, FS_Product
    <3>3. places \subseteq Packets \X (1 .. MaxSg)
      BY <2>2
    <3> QED
      BY <3>2, <3>3, FS_Subset
  <2>6. f \in Surjection(places, listed)
    BY DEF Surjection
  <2>7. f \in Injection(places, listed)
    <3>1. ASSUME NEW a \in places, NEW b \in places, f[a] = f[b] PROVE a = b
      <4>1. a[1] = b[1] /\ a[2] = b[2]
        BY <2>3, <3>1 DEF At
      <4> QED
        BY <4>1
    <3> QED
      BY <3>1 DEF Injection, IsInjective
  <2>8. Cardinality(listed) = Cardinality(places)
    BY <2>5, <2>6, <2>7, FS_Surjection
  <2> QED
    BY <2>4, <2>8 DEF SgListsIntact
<1> QED
  BY <1>1, ListInvariance, PTL

\* Neither panic of packet.c is reached: __get_sg_elem finds a free element
\* whenever a packet has room for one, however many packets there are, and the
\* list the receiver frees is exactly as long as its length says, unless an
\* update of a flag word was overwritten.
THEOREM NeverPanics == Spec => []NoPanic
<1>1. ListInv => NoPanic
  BY DEF ListInv, SgInv, Calm, NoPanic
<1> QED
  BY <1>1, ListInvariance, PTL
=============================================================================
