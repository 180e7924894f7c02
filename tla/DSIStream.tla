----------------------------- MODULE DSIStream -----------------------------
(***************************************************************************)
(* The packet ring of a DSI stream (l4/pkg/dsi): two components share a    *)
(* control area with N packet descriptors and a pool of scatter gather     *)
(* elements.  Each component has a work thread, which gets and commits     *)
(* packets, and a synchronisation thread, which puts the work thread of    *)
(* the other component to sleep and wakes it up.  "S" is the send          *)
(* component, "R" the receive component.                                   *)
(*                                                                         *)
(* A packet has one semaphore counter per side: sem["S"] is tx_sem (the    *)
(* descriptor is free for the sender), sem["R"] is rx_sem (the packet is   *)
(* committed).  The flag word of a packet is written by three threads: the *)
(* sender's work thread and both synchronisation threads.  It is volatile  *)
(* and changed with |= and &=: a load, an operation and a store, with      *)
(* nothing that keeps the others out.  The flag word of a socket is changed*)
(* in one instruction by dsi_packet_get and dsi_packet_get_abort, but with *)
(* a load and a store by dsi_socket_set_flags and dsi_socket_clear_flags.  *)
(* A store that overwrites what another thread has stored since the load   *)
(* is remembered in the history variable overwritten: the properties say   *)
(* what holds until then.                                                  *)
(***************************************************************************)
EXTENDS Integers, FiniteSets

CONSTANTS
    N,            \* num_packets of the stream
    MaxSg,        \* max_sg_len: scatter gather elements per packet
    MaxPackets,   \* bound: packets each side gets
    Aborters,     \* sides on which dsi_packet_get_abort may be called
    Configurers   \* sides on which socket flags are set or cleared meanwhile

ASSUME StreamAssumption ==
    /\ N \in Nat \ {0}
    /\ MaxSg \in Nat \ {0}
    /\ N * MaxSg > 1          \* __get_sg_elem panics when there is only one
    /\ MaxPackets \in Nat

VARIABLES
    \* the control area, shared by both components
    sem,        \* sem[x][p]: semaphore counter for side x
    flags,      \* flags[p]: the flag word, a set of flags
    committed,  \* header->packets_committed
    sgLen, sgList, sgIdx,   \* of each packet
    used,       \* the scatter gather elements marked USED
    nxt,        \* nxt[e]: next element of the list, or LAST
    \* the socket of each side
    next,       \* socket->next_packet
    blocking,   \* DSI_SOCKET_BLOCKING_IN_GET
    abort,      \* DSI_SOCKET_BLOCK_ABORT
    nextElem,   \* next_sg_elem of the sender's socket
    \* work threads: control point, packet worked on, loaded flag word, and
    \* the element the sender's search or the receiver's release has reached
    wpc, wpkt, wreg, elem, cnt,
    \* synchronisation threads; sreg[x] holds the loaded word once it is
    spc, spkt, sreg,
    \* the thread that calls dsi_packet_get_abort
    apc,
    \* packets the application has got and not committed yet
    held,
    \* the thread that calls dsi_socket_set_flags or dsi_socket_clear_flags:
    \* control point and loaded flag word
    cpc, creg,
    \* history: packets got and packets committed, numbered as in PacketStream
    gets, done,
    \* history: the kinds of flag words, "packet" or "socket", of which an
    \* update was overwritten
    overwritten

sgvars   == <<sgLen, sgList, sgIdx, used, nxt, nextElem, elem, cnt>>
syncvars == <<spc, spkt, sreg>>
cfgvars  == <<cpc, creg>>
hist     == <<gets, done>>
vars == <<sem, flags, committed, sgvars, next, blocking, abort,
          wpc, wpkt, wreg, syncvars, apc, held, hist, cfgvars, overwritten>>

Sides   == {"S", "R"}
Packets == 0 .. N - 1
Elems   == 0 .. N * MaxSg - 1
LAST    == N * MaxSg              \* DSI_SG_ELEM_LAST

Peer(x) == IF x = "S" THEN "R" ELSE "S"

(* Flags of a packet.  WAITING(x), PENDING(x): TX_ for x = "S", RX_ for     *)
(* x = "R".  REL is the only flag under DSI_PACKETS_USER_MASK in use.       *)
WAITING(x) == <<"WAITING", x>>
PENDING(x) == <<"PENDING", x>>
REL        == <<"RELEASE_CALLBACK", "S">>
Flags      == {WAITING(x) : x \in Sides} \cup {PENDING(x) : x \in Sides} \cup {REL}

(* The store of an update of packet->flags, by a thread that had loaded reg. *)
Store(p, reg, word) ==
    /\ flags' = [flags EXCEPT ![p] = word]
    /\ overwritten' = overwritten \cup IF flags[p] = reg THEN {} ELSE {"packet"}

(* A packet as it is numbered in PacketStream: the last one side x got with *)
(* this descriptor.                                                        *)
Serial(x, p) == CHOOSE s \in 0 .. gets[x] - 1 :
                    s % N = p /\ s + N >= gets[x]

Init ==
    /\ sem = [x \in Sides |-> [p \in Packets |-> IF x = "S" THEN 1 ELSE 0]]
    /\ flags = [p \in Packets |-> {}]
    /\ committed = 0
    /\ sgLen  = [p \in Packets |-> 0]
    /\ sgList = [p \in Packets |-> 0]
    /\ sgIdx  = [p \in Packets |-> 0]
    /\ used = {}
    /\ nxt = [e \in Elems |-> 0]
    /\ next = [x \in Sides |-> 0]
    /\ blocking = [x \in Sides |-> FALSE]
    /\ abort = [x \in Sides |-> FALSE]
    /\ nextElem = 0
    /\ wpc = [x \in Sides |-> "idle"]
    /\ wpkt = [x \in Sides |-> 0]
    /\ wreg = {}
    /\ elem = [x \in Sides |-> 0]
    /\ cnt = 0
    /\ spc = [x \in Sides |-> "idle"]
    /\ spkt = [x \in Sides |-> 0]
    /\ sreg = [x \in Sides |-> {}]
    /\ apc = [x \in Sides |-> "idle"]
    /\ held = [x \in Sides |-> {}]
    /\ gets = [x \in Sides |-> 0]
    /\ done = [x \in Sides |-> {}]
    /\ cpc = [x \in Sides |-> "idle"]
    /\ creg = [x \in Sides |-> {}]
    /\ overwritten = {}

(* Work thread x goes on at pc with packet p; the packet it worked on means *)
(* nothing once it has returned to its application ("idle").               *)
Enter(x, pc, p) ==
    /\ wpc' = [wpc EXCEPT ![x] = pc]
    /\ wpkt' = [wpkt EXCEPT ![x] = p]

Goto(x, pc) == Enter(x, pc, IF pc = "idle" THEN 0 ELSE wpkt[x])

-----------------------------------------------------------------------------
(* dsi_packet_get: __get_send_packet and __get_receive_packet.             *)

(* Mutation of GetTry: dsi_trylock fails only below zero.                  *)
GetTryBelowZero(x) ==
    /\ wpc[x] = "idle"
    /\ gets[x] < MaxPackets
    /\ ~abort[x]
    /\ \/ /\ sem[x][next[x]] >= 0
          /\ sem' = [sem EXCEPT ![x][next[x]] = @ - 1]
          /\ Enter(x, "got", next[x])
       \/ /\ sem[x][next[x]] < 0
          /\ Enter(x, "block", next[x])
          /\ UNCHANGED sem
    /\ UNCHANGED <<flags, committed, sgvars, next, blocking, abort, wreg,
                   syncvars, apc, held, hist, cfgvars, overwritten>>

(* The abort test and dsi_trylock.  DSI_SOCKET_BLOCK can be set and cleared *)
(* at any time by dsi_socket_set_flags and dsi_socket_clear_flags, so a     *)
(* failing dsi_trylock leads either to blocking or to -DSI_ENOPACKET, which *)
(* changes nothing.                                                        *)
GetTry(x) ==
    /\ wpc[x] = "idle"
    /\ gets[x] < MaxPackets
    /\ ~abort[x]
    /\ \/ /\ sem[x][next[x]] > 0
          /\ sem' = [sem EXCEPT ![x][next[x]] = @ - 1]
          /\ Enter(x, "got", next[x])
       \/ /\ sem[x][next[x]] <= 0
          /\ Enter(x, "block", next[x])
          /\ UNCHANGED sem
    /\ UNCHANGED <<flags, committed, sgvars, next, blocking, abort, wreg,
                   syncvars, apc, held, hist, cfgvars, overwritten>>

(* After setjmp: announce that the work thread blocks.                     *)
GetBlock(x) ==
    /\ wpc[x] = "block"
    /\ blocking' = [blocking EXCEPT ![x] = TRUE]
    /\ Goto(x, "recheck")
    /\ UNCHANGED <<sem, flags, committed, sgvars, next, abort, wreg, syncvars,
                   apc, held, hist, cfgvars, overwritten>>

(* e_eeos: reset_socket_flag expands its second argument without            *)
(* parentheses, ~BLOCKING_IN_GET | BLOCK_ABORT, and so clears only           *)
(* BLOCKING_IN_GET: the abort flag stays set.                               *)
Eeos(x) ==
    /\ blocking' = [blocking EXCEPT ![x] = FALSE]
    /\ Goto(x, "idle")

(* Mutation of GetRecheck: the abort flag is not looked at again.          *)
GetNoRecheck(x) ==
    /\ wpc[x] = "recheck"
    /\ Goto(x, "down")
    /\ UNCHANGED <<sem, flags, committed, sgvars, next, blocking, abort, wreg,
                   syncvars, apc, held, hist, cfgvars, overwritten>>

(* Look at the abort flag again, after the blocking flag was set.          *)
GetRecheck(x) ==
    /\ wpc[x] = "recheck"
    /\ IF abort[x] THEN Eeos(x) ELSE Goto(x, "down") /\ UNCHANGED blocking
    /\ UNCHANGED <<sem, flags, committed, sgvars, next, abort, wreg, syncvars,
                   apc, held, hist, cfgvars, overwritten>>

(* Mutation of GetDown: the old counter is tested where the code tests the *)
(* new one.                                                                *)
GetDownOld(x) ==
    /\ wpc[x] = "down"
    /\ sem' = [sem EXCEPT ![x][wpkt[x]] = @ - 1]
    /\ Goto(x, IF sem[x][wpkt[x]] >= 0 THEN "unblock" ELSE "call")
    /\ UNCHANGED <<flags, committed, sgvars, next, blocking, abort, wreg,
                   syncvars, apc, held, hist, cfgvars, overwritten>>

(* dsi_down: decrement, and call the remote synchronisation thread if the   *)
(* counter became negative.                                                *)
GetDown(x) ==
    /\ wpc[x] = "down"
    /\ sem' = [sem EXCEPT ![x][wpkt[x]] = @ - 1]
    /\ Goto(x, IF sem[x][wpkt[x]] > 0 THEN "unblock" ELSE "call")
    /\ UNCHANGED <<flags, committed, sgvars, next, blocking, abort, wreg,
                   syncvars, apc, held, hist, cfgvars, overwritten>>

GetUnblock(x) ==
    /\ wpc[x] = "unblock"
    /\ blocking' = [blocking EXCEPT ![x] = FALSE]
    /\ Goto(x, "got")
    /\ UNCHANGED <<sem, flags, committed, sgvars, next, abort, wreg, syncvars,
                   apc, held, hist, cfgvars, overwritten>>

(* Mutation of GetTake: next_packet does not wrap around.                  *)
GetTakeNoWrap(x) ==
    /\ wpc[x] = "got"
    /\ next' = [next EXCEPT ![x] = @ + 1]
    /\ gets' = [gets EXCEPT ![x] = @ + 1]
    /\ IF x = "S"
         THEN /\ wreg' = flags[wpkt[x]]
              /\ Goto(x, "clear")
              /\ UNCHANGED <<held, sgIdx>>
         ELSE /\ sgIdx' = [sgIdx EXCEPT ![wpkt[x]] = sgList[wpkt[x]]]
              /\ held' = [held EXCEPT ![x] = @ \cup {wpkt[x]}]
              /\ Goto(x, "idle")
              /\ UNCHANGED wreg
    /\ UNCHANGED <<sem, flags, committed, sgLen, sgList, used, nxt, nextElem,
                   elem, cnt, blocking, abort, syncvars, apc, done, cfgvars,
                   overwritten>>

(* The packet is ours: advance next_packet.  The sender then clears the     *)
(* user flags of the packet; the receiver is done once it has set sg_idx.   *)
GetTake(x) ==
    /\ wpc[x] = "got"
    /\ next' = [next EXCEPT ![x] = (@ + 1) % N]
    /\ gets' = [gets EXCEPT ![x] = @ + 1]
    /\ IF x = "S"
         THEN /\ wreg' = flags[wpkt[x]]
              /\ Goto(x, "clear")
              /\ UNCHANGED <<held, sgIdx>>
         ELSE /\ sgIdx' = [sgIdx EXCEPT ![wpkt[x]] = sgList[wpkt[x]]]
              /\ held' = [held EXCEPT ![x] = @ \cup {wpkt[x]}]
              /\ Goto(x, "idle")
              /\ UNCHANGED wreg
    /\ UNCHANGED <<sem, flags, committed, sgLen, sgList, used, nxt, nextElem,
                   elem, cnt, blocking, abort, syncvars, apc, done, cfgvars,
                   overwritten>>

(* The store of p->flags &= ~DSI_PACKETS_USER_MASK, and the setup of the    *)
(* sender's packet descriptor.                                             *)
GetClear ==
    /\ wpc["S"] = "clear"
    /\ LET p == wpkt["S"] IN
         /\ Store(p, wreg, wreg \ {REL})
         /\ sgLen'  = [sgLen  EXCEPT ![p] = 0]
         /\ sgList' = [sgList EXCEPT ![p] = LAST]
         /\ sgIdx'  = [sgIdx  EXCEPT ![p] = LAST]
         /\ held'   = [held   EXCEPT !["S"] = @ \cup {p}]
    /\ wreg' = {}
    /\ Goto("S", "idle")
    /\ UNCHANGED <<sem, committed, used, nxt, nextElem, elem, cnt, next,
                   blocking, abort, syncvars, apc, hist, cfgvars>>

-----------------------------------------------------------------------------
(* dsi_packet_add_data and __get_sg_elem.                                  *)

AddData(p) ==
    /\ wpc["S"] = "idle"
    /\ p \in held["S"]
    /\ sgLen[p] < MaxSg
    /\ elem' = [elem EXCEPT !["S"] = nextElem]
    /\ Enter("S", "search", p)
    /\ UNCHANGED <<sem, flags, committed, sgLen, sgList, sgIdx, used, nxt,
                   nextElem, cnt, next, blocking, abort, wreg, syncvars, apc,
                   held, hist, cfgvars, overwritten>>

(* Mutation of AppendElem: the element found is not marked used.           *)
AppendElemUnmarked(p, e) ==
    /\ nextElem' = (e + 1) % (N * MaxSg)
    /\ nxt' = [i \in Elems |-> IF i = e THEN LAST
                               ELSE IF sgLen[p] > 0 /\ i = sgIdx[p] THEN e
                               ELSE nxt[i]]
    /\ sgList' = IF sgLen[p] = 0 THEN [sgList EXCEPT ![p] = e] ELSE sgList
    /\ sgIdx' = [sgIdx EXCEPT ![p] = e]
    /\ sgLen' = [sgLen EXCEPT ![p] = @ + 1]
    /\ UNCHANGED used

(* One round of the search: a used element is skipped, and coming round to  *)
(* next_sg_elem again is a panic; a free one is marked and appended.        *)
AppendElem(p, e) ==
    /\ used' = used \cup {e}
    /\ nextElem' = (e + 1) % (N * MaxSg)
    /\ nxt' = [i \in Elems |-> IF i = e THEN LAST
                               ELSE IF sgLen[p] > 0 /\ i = sgIdx[p] THEN e
                               ELSE nxt[i]]
    /\ sgList' = IF sgLen[p] = 0 THEN [sgList EXCEPT ![p] = e] ELSE sgList
    /\ sgIdx' = [sgIdx EXCEPT ![p] = e]
    /\ sgLen' = [sgLen EXCEPT ![p] = @ + 1]

Search ==
    /\ wpc["S"] = "search"
    /\ LET p == wpkt["S"]
           e == elem["S"]
           i == (e + 1) % (N * MaxSg) IN
         IF e \notin used
           THEN /\ AppendElem(p, e)
                /\ Goto("S", "idle")
                /\ elem' = [elem EXCEPT !["S"] = 0]
           ELSE /\ elem' = [elem EXCEPT !["S"] = i]
                /\ Goto("S", IF i = nextElem THEN "panic" ELSE "search")
                /\ UNCHANGED <<used, nextElem, nxt, sgList, sgIdx, sgLen>>
    /\ UNCHANGED <<sem, flags, committed, cnt, next, blocking, abort, wreg,
                   syncvars, apc, held, hist, cfgvars, overwritten>>

-----------------------------------------------------------------------------
(* dsi_packet_commit: __commit_send_packet and __commit_receive_packet.    *)

(* An empty packet is not committed (-DSI_ENODATA).  The release callback   *)
(* may be switched on at any time by dsi_socket_set_release_callback; the   *)
(* load of packet->flags |= DSI_PACKET_RELEASE_CALLBACK.                    *)
CommitSend(p) ==
    /\ wpc["S"] = "idle"
    /\ p \in held["S"]
    /\ sgLen[p] > 0
    /\ held' = [held EXCEPT !["S"] = @ \ {p}]
    /\ \/ /\ wreg' = flags[p]
          /\ Enter("S", "callback", p)
          /\ UNCHANGED committed
       \/ /\ committed' = committed + 1
          /\ Enter("S", "up", p)
          /\ UNCHANGED wreg
    /\ UNCHANGED <<sem, flags, sgvars, next, blocking, abort, syncvars, apc,
                   hist, cfgvars, overwritten>>

(* The store of that update, and header->packets_committed++.              *)
CommitCallback ==
    /\ wpc["S"] = "callback"
    /\ LET p == wpkt["S"] IN
         Store(p, wreg, wreg \cup {REL})
    /\ wreg' = {}
    /\ committed' = committed + 1
    /\ Goto("S", "up")
    /\ UNCHANGED <<sem, sgvars, next, blocking, abort, syncvars, apc, held,
                   hist, cfgvars>>

(* The receiver resets sg_idx; with a release callback it first sends       *)
(* DSI_SYNC_RELEASE to the sender's synchronisation thread.                 *)
CommitReceive(p) ==
    /\ wpc["R"] = "idle"
    /\ p \in held["R"]
    /\ held' = [held EXCEPT !["R"] = @ \ {p}]
    /\ sgIdx' = [sgIdx EXCEPT ![p] = sgList[p]]
    /\ Enter("R", IF REL \in flags[p] THEN "release" ELSE "uncount", p)
    /\ UNCHANGED <<sem, flags, committed, sgLen, sgList, used, nxt, nextElem,
                   elem, cnt, next, blocking, abort, wreg, syncvars, apc,
                   hist, cfgvars, overwritten>>

(* Mutation of Uncount: the packet is handed back without releasing its    *)
(* scatter gather elements.                                                *)
UncountLeak ==
    /\ wpc["R"] = "uncount"
    /\ committed' = committed - 1
    /\ Goto("R", "up")
    /\ UNCHANGED <<sem, flags, sgvars, next, blocking, abort, wreg, syncvars,
                   apc, held, hist, cfgvars, overwritten>>

Uncount ==
    /\ wpc["R"] = "uncount"
    /\ committed' = committed - 1
    /\ elem' = [elem EXCEPT !["R"] = sgList[wpkt["R"]]]
    /\ cnt' = 0
    /\ Goto("R", "free")
    /\ UNCHANGED <<sem, flags, sgLen, sgList, sgIdx, used, nxt, nextElem,
                   next, blocking, abort, wreg, syncvars, apc, held, hist,
                   cfgvars, overwritten>>

(* One round of the loop that releases the scatter gather list; a list that *)
(* ends too early or too late is a panic.                                   *)
FreeElem ==
    /\ wpc["R"] = "free"
    /\ LET p == wpkt["R"]
           e == elem["R"] IN
         IF cnt < sgLen[p] /\ e # LAST
           THEN /\ elem' = [elem EXCEPT !["R"] = nxt[e]]
                /\ used' = used \ {e}
                /\ cnt' = cnt + 1
                /\ UNCHANGED <<wpc, wpkt>>
           ELSE /\ Goto("R", IF cnt < sgLen[p] \/ e # LAST THEN "panic" ELSE "up")
                /\ elem' = [elem EXCEPT !["R"] = 0]
                /\ cnt' = 0
                /\ UNCHANGED used
    /\ UNCHANGED <<sem, flags, committed, sgLen, sgList, sgIdx, nxt, nextElem,
                   next, blocking, abort, wreg, syncvars, apc, held, hist,
                   cfgvars, overwritten>>

(* dsi_up on the other side's counter; if somebody waits there, tell our    *)
(* own synchronisation thread.                                             *)
Up(x) ==
    /\ wpc[x] = "up"
    /\ LET y == Peer(x)
           p == wpkt[x] IN
         /\ sem' = [sem EXCEPT ![y][p] = @ + 1]
         /\ Goto(x, IF sem[y][p] < 0 THEN "notify" ELSE "idle")
         /\ done' = [done EXCEPT ![x] = @ \cup {Serial(x, p)}]
    /\ UNCHANGED <<flags, committed, sgvars, next, blocking, abort, wreg,
                   syncvars, apc, held, gets, cfgvars, overwritten>>

-----------------------------------------------------------------------------
(* dsi_sync_thread_send (x = "S") and dsi_sync_thread_receive (x = "R").   *)
(* The IPC to a synchronisation thread has no timeout: it happens when both *)
(* are ready.                                                              *)

(* DSI_SYNC_COMMITED from the own work thread, DSI_SYNC_WAIT from the work  *)
(* thread of the other side (which then waits for the reply), and           *)
(* DSI_SYNC_RELEASE from the receiver's work thread.                       *)
SyncReceive(x, sender, sent, after, command) ==
    /\ spc[x] = "idle"
    /\ wpc[sender] = sent
    /\ spkt' = [spkt EXCEPT ![x] = wpkt[sender]]
    /\ spc' = [spc EXCEPT ![x] = command]
    /\ Goto(sender, after)
    /\ UNCHANGED <<sem, flags, committed, sgvars, next, blocking, abort, wreg,
                   sreg, apc, held, hist, cfgvars, overwritten>>

ReceiveCommited(x) == SyncReceive(x, x, "notify", "idle", "commited")
ReceiveWait(x)     == SyncReceive(x, Peer(x), "call", "asleep", "wait")
ReceiveRelease     == SyncReceive("S", "R", "release", "uncount", "callback")

(* The reply to a work thread, sent with timeout 0: it is lost when the     *)
(* thread is not waiting for it any more.                                  *)
Wakeup(y) == wpc' = IF wpc[y] = "asleep" THEN [wpc EXCEPT ![y] = "unblock"]
                                         ELSE wpc

(* Each command looks at the packet's flags, wakes the other side or not,   *)
(* and goes on to update the word, which it loads again.                    *)
HandleCommited(x) ==
    /\ spc[x] = "commited"
    /\ LET y == Peer(x)
           p == spkt[x] IN
         IF WAITING(y) \in flags[p]
           THEN Wakeup(y) /\ spc' = [spc EXCEPT ![x] = "clearWaiting"]
           ELSE UNCHANGED wpc /\ spc' = [spc EXCEPT ![x] = "setPending"]
    /\ UNCHANGED <<sem, flags, committed, sgvars, next, blocking, abort, wpkt,
                   wreg, spkt, sreg, apc, held, hist, cfgvars, overwritten>>

(* Mutation of HandleWait: a pending notification is not looked for.       *)
HandleWaitOnly(x) ==
    /\ spc[x] = "wait"
    /\ spc' = [spc EXCEPT ![x] = "setWaiting"]
    /\ UNCHANGED <<sem, flags, committed, sgvars, next, blocking, abort, wpc,
                   wpkt, wreg, spkt, sreg, apc, held, hist, cfgvars,
                   overwritten>>

HandleWait(x) ==
    /\ spc[x] = "wait"
    /\ LET y == Peer(x)
           p == spkt[x] IN
         IF PENDING(y) \in flags[p]
           THEN Wakeup(y) /\ spc' = [spc EXCEPT ![x] = "clearPending"]
           ELSE UNCHANGED wpc /\ spc' = [spc EXCEPT ![x] = "setWaiting"]
    /\ UNCHANGED <<sem, flags, committed, sgvars, next, blocking, abort, wpkt,
                   wreg, spkt, sreg, apc, held, hist, cfgvars, overwritten>>

Updates == {"clearWaiting", "setWaiting", "clearPending", "setPending"}

(* Mutation of NewWord: the pending flag is never reset.                   *)
NewWordKeepPending(command, y, word) ==
    CASE command = "clearWaiting" -> word \ {WAITING(y)}
      [] command = "setWaiting"   -> word \cup {WAITING(y)}
      [] command = "clearPending" -> word
      [] command = "setPending"   -> word \cup {PENDING(y)}

NewWord(command, y, word) ==
    CASE command = "clearWaiting" -> word \ {WAITING(y)}
      [] command = "setWaiting"   -> word \cup {WAITING(y)}
      [] command = "clearPending" -> word \ {PENDING(y)}
      [] command = "setPending"   -> word \cup {PENDING(y)}

(* The load and the store of the update.                                   *)
SyncLoad(x) ==
    /\ spc[x] \in Updates
    /\ sreg[x] = {}
    /\ sreg' = [sreg EXCEPT ![x] = {flags[spkt[x]]}]
    /\ UNCHANGED <<sem, flags, committed, sgvars, next, blocking, abort, wpc,
                   wpkt, wreg, spc, spkt, apc, held, hist, cfgvars,
                   overwritten>>

SyncStore(x) ==
    /\ spc[x] \in Updates
    /\ \E word \in sreg[x] :
          Store(spkt[x], word, NewWord(spc[x], Peer(x), word))
    /\ spc' = [spc EXCEPT ![x] = "idle"]
    /\ spkt' = [spkt EXCEPT ![x] = 0]
    /\ sreg' = [sreg EXCEPT ![x] = {}]
    /\ UNCHANGED <<sem, committed, sgvars, next, blocking, abort, wpc, wpkt,
                   wreg, apc, held, hist, cfgvars>>

(* The release callback of the sender's application returns.               *)
CallbackReturn ==
    /\ spc["S"] = "callback"
    /\ spc' = [spc EXCEPT !["S"] = "idle"]
    /\ spkt' = [spkt EXCEPT !["S"] = 0]
    /\ UNCHANGED <<sem, flags, committed, sgvars, next, blocking, abort, wpc,
                   wpkt, wreg, sreg, apc, held, hist, cfgvars, overwritten>>

-----------------------------------------------------------------------------
(* dsi_packet_get_abort, at most once per socket.                          *)

AbortSet(x) ==
    /\ x \in Aborters
    /\ apc[x] = "idle"
    /\ abort' = [abort EXCEPT ![x] = TRUE]
    /\ apc' = [apc EXCEPT ![x] = "test"]
    /\ UNCHANGED <<sem, flags, committed, sgvars, next, blocking, wpc, wpkt,
                   wreg, syncvars, held, hist, cfgvars, overwritten>>

AbortTest(x) ==
    /\ apc[x] = "test"
    /\ apc' = [apc EXCEPT ![x] = IF blocking[x] THEN "jump" ELSE "finished"]
    /\ UNCHANGED <<sem, flags, committed, sgvars, next, blocking, abort, wpc,
                   wpkt, wreg, syncvars, held, hist, cfgvars, overwritten>>

(* Where the frame that called setjmp still exists.                        *)
InGet == {"recheck", "down", "call", "asleep", "unblock", "got", "clear"}

(* l4_thread_longjmp cancels the work thread's IPC and sends it to e_eeos.  *)
(* If it has meanwhile left dsi_packet_get it runs on in a dead frame.      *)
AbortJump(x) ==
    /\ apc[x] = "jump"
    /\ IF wpc[x] \in InGet THEN Eeos(x) ELSE Goto(x, "lost") /\ UNCHANGED blocking
    /\ apc' = [apc EXCEPT ![x] = "finished"]
    /\ UNCHANGED <<sem, flags, committed, sgvars, next, abort, wreg, syncvars,
                   held, hist, cfgvars, overwritten>>

-----------------------------------------------------------------------------
(* dsi_socket_set_flags and dsi_socket_clear_flags, called by any thread of *)
(* the component: the load and the store of socket->flags.  The flags of the*)
(* user do not matter here, the two others share the word with them.        *)

Word(x) == {f \in {"blocking", "abort"} :
              \/ f = "blocking" /\ blocking[x]
              \/ f = "abort" /\ abort[x]}

ConfigureLoad(x) ==
    /\ x \in Configurers
    /\ cpc[x] = "idle"
    /\ cpc' = [cpc EXCEPT ![x] = "store"]
    /\ creg' = [creg EXCEPT ![x] = Word(x)]
    /\ UNCHANGED <<sem, flags, committed, sgvars, next, blocking, abort, wpc,
                   wpkt, wreg, syncvars, apc, held, hist, overwritten>>

ConfigureStore(x) ==
    /\ cpc[x] = "store"
    /\ blocking' = [blocking EXCEPT ![x] = "blocking" \in creg[x]]
    /\ abort' = [abort EXCEPT ![x] = "abort" \in creg[x]]
    /\ overwritten' = overwritten \cup IF Word(x) = creg[x] THEN {} ELSE {"socket"}
    /\ cpc' = [cpc EXCEPT ![x] = "idle"]
    /\ creg' = [creg EXCEPT ![x] = {}]
    /\ UNCHANGED <<sem, flags, committed, sgvars, next, wpc, wpkt, wreg,
                   syncvars, apc, held, hist>>

-----------------------------------------------------------------------------
WorkThread(x) ==
    \/ GetTry(x) \/ GetBlock(x) \/ GetRecheck(x) \/ GetDown(x)
    \/ GetUnblock(x) \/ GetTake(x) \/ Up(x)
SendThread ==
    \/ GetClear \/ Search \/ CommitCallback
    \/ \E p \in Packets : AddData(p) \/ CommitSend(p)
ReceiveThread ==
    \/ Uncount \/ FreeElem
    \/ \E p \in Packets : CommitReceive(p)
SyncThread(x) ==
    \/ ReceiveCommited(x) \/ ReceiveWait(x)
    \/ HandleCommited(x) \/ HandleWait(x)
    \/ SyncLoad(x) \/ SyncStore(x)
Aborter(x) == AbortSet(x) \/ AbortTest(x) \/ AbortJump(x)
Configurer(x) == ConfigureLoad(x) \/ ConfigureStore(x)

Next ==
    \/ \E x \in Sides : WorkThread(x) \/ SyncThread(x) \/ Aborter(x) \/ Configurer(x)
    \/ SendThread \/ ReceiveThread
    \/ ReceiveRelease \/ CallbackReturn

Spec == Init /\ [][Next]_vars

-----------------------------------------------------------------------------
(* Properties.                                                             *)

WorkerPcs == {"idle", "block", "recheck", "down", "call", "asleep", "unblock",
              "got", "clear", "search", "callback", "release", "uncount",
              "free", "up", "notify", "panic", "lost"}
SyncPcs == {"idle", "commited", "wait", "callback",
            "clearWaiting", "setWaiting", "clearPending", "setPending"}

(* Type invariant.                                                          *)
TypeOK ==
    /\ sem \in [Sides -> [Packets -> Int]]
    /\ flags \in [Packets -> SUBSET Flags]
    /\ committed \in Int
    /\ sgLen \in [Packets -> 0 .. MaxSg]
    /\ sgList \in [Packets -> Elems \cup {LAST}]
    /\ sgIdx \in [Packets -> Elems \cup {LAST}]
    /\ used \subseteq Elems
    /\ nxt \in [Elems -> Elems \cup {LAST}]
    /\ nextElem \in Elems
    /\ next \in [Sides -> Packets]
    /\ blocking \in [Sides -> BOOLEAN]
    /\ abort \in [Sides -> BOOLEAN]
    /\ wpc \in [Sides -> WorkerPcs]
    /\ wpkt \in [Sides -> Packets]
    /\ wreg \subseteq Flags
    /\ elem \in [Sides -> Elems \cup {LAST}]
    /\ cnt \in 0 .. MaxSg
    /\ spc \in [Sides -> SyncPcs]
    /\ spkt \in [Sides -> Packets]
    /\ sreg \in [Sides -> SUBSET SUBSET Flags]
    /\ apc \in [Sides -> {"idle", "test", "jump", "finished"}]
    /\ held \in [Sides -> SUBSET Packets]
    /\ gets \in [Sides -> 0 .. MaxPackets]
    /\ cpc \in [Sides -> {"idle", "store"}]
    /\ creg \in [Sides -> SUBSET {"blocking", "abort"}]
    /\ overwritten \subseteq {"packet", "socket"}

(* No update of a flag word has been lost so far.                           *)
Intact == overwritten = {}

(* As long as no update of a flag word was overwritten, a packet's counter   *)
(* stays between -1 and 1 although dsi_up and dsi_down never look, and the   *)
(* unsigned fill level packets_committed neither wraps below zero nor        *)
(* exceeds the number of packets.                                           *)
CountersBounded ==
    Intact => /\ sem \in [Sides -> [Packets -> -1 .. 1]]
              /\ committed \in 0 .. N

(* A work thread that sleeps for a packet is owed a wakeup: unless one of    *)
(* the threads that wake it is still busy, the packet is really not          *)
(* available (its counter is still negative).  sync.c: "the remote work      *)
(* thread stays in its ipc-call until the local work thread commited the     *)
(* packet".                                                                 *)
NoLostWakeup ==
    \A x \in Sides :
       ( /\ wpc[x] = "asleep"
         /\ spc[Peer(x)] = "idle"
         /\ wpc[Peer(x)] \notin {"notify", "lost"} )
         => sem[x][wpkt[x]] < 0

(* Nobody loses a wakeup otherwise: NoLostWakeup holds as long as no update  *)
(* of a flag word was overwritten, whatever the threads and an abort do.     *)
WakeupsArrive == Intact => NoLostWakeup

(* The receiver gets a packet only after the sender has committed it: until   *)
(* then its work thread "stays in its ipc-call" (sync.c).                     *)
NoEarlyPacket == 0 .. gets["R"] - 1 \subseteq done["S"]

(* A wakeup marked as pending belongs to a work thread that has decremented  *)
(* the counter of just that packet and is about to call: as long as no       *)
(* update of a flag word was overwritten, no pending mark survives to let a  *)
(* later dsi_packet_get through too early.                                   *)
PendingIsOwed ==
    Intact => \A x \in Sides, p \in Packets :
       (PENDING(x) \in flags[p] /\ ~abort[x])
         => \/ wpc[x] \in {"call", "asleep"} /\ wpkt[x] = p
            \/ spc[Peer(x)] = "clearPending" /\ spkt[Peer(x)] = p

(* dsi_packet_get_abort never misses the work thread: once it has returned,  *)
(* the work thread is not blocked and will not block, because it looks at    *)
(* the abort flag after setting the blocking flag and the aborter does the   *)
(* two in the opposite order.  Overwritten updates of packet flags do not    *)
(* matter here, but dsi_socket_set_flags and dsi_socket_clear_flags can take *)
(* either flag away.                                                        *)
AbortReaches ==
    "socket" \notin overwritten =>
       \A x \in Sides :
          apc[x] = "finished" => wpc[x] \notin {"down", "call", "asleep"}

(* The i-th element of packet p's scatter gather list.                      *)
ElemAt(p, i) ==
    LET at[k \in 1 .. MaxSg] ==
            IF k = 1 THEN sgList[p]
            ELSE IF at[k - 1] \in Elems THEN nxt[at[k - 1]] ELSE LAST
    IN  at[i]

(* Packets whose scatter gather list belongs to somebody: the sender that    *)
(* fills it, the stream, or the receiver that reads it, and not yet being    *)
(* released.                                                                *)
Filled == {p \in held["S"] : sgLen[p] > 0}
    \cup {p \in Packets :
            \/ wpc["S"] \in {"callback", "up"} /\ wpkt["S"] = p
            \/ sem["R"][p] = 1
            \/ p \in held["R"]}

(* The list of every such packet is intact while elements are taken and      *)
(* given back around it: its elements are marked used, distinct and in no    *)
(* other packet's list (there are as many elements as places in the lists),  *)
(* as long as no update of a flag word was overwritten.                      *)
SgListsIntact ==
    LET places == {pl \in Filled \X (1 .. MaxSg) : pl[2] <= sgLen[pl[1]]}
        listed == {ElemAt(pl[1], pl[2]) : pl \in places}
    IN  Intact => /\ listed \subseteq used
                  /\ Cardinality(listed) = Cardinality(places)

(* The panics of packet.c are unreachable: the sender always finds a free    *)
(* scatter gather element ("this should never happen"), and the receiver     *)
(* always finds as many elements in a list as its length says, as long as no *)
(* update of a flag word was overwritten.                                    *)
NoPanic == Intact => \A x \in Sides : wpc[x] # "panic"

(* The stream hands out packets the way PacketStream says: in order, to the  *)
(* receiver only after the sender committed them, to the sender only after   *)
(* the receiver released the packet before in the same descriptor.  Every    *)
(* step is one of PacketStream or leaves it alone, up to the first update of  *)
(* a flag word that is overwritten.                                          *)
PS == INSTANCE PacketStream

ImplementsPacketStream == PS!Init /\ [][Intact' => PS!Next]_(PS!vars)
=============================================================================
