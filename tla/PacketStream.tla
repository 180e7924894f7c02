--------------------------- MODULE PacketStream ---------------------------
(***************************************************************************)
(* What a DSI stream promises its two ends, without semaphores, flags or   *)
(* threads.  The packets of a stream are numbered 0, 1, 2, ... in the      *)
(* order in which each end gets them from dsi_packet_get; packet s and     *)
(* packet s + N use the same one of the N packet descriptors.  The sender  *)
(* ("S") fills and commits packets, the receiver ("R") reads and releases  *)
(* them, each in any order it likes.                                       *)
(***************************************************************************)
EXTENDS Naturals

CONSTANT N   \* number of packet descriptors in the ring

VARIABLES
    gets,    \* gets[x]: how many packets end x has got
    done     \* done[x]: the packets end x has committed ("S") or released ("R")

vars == <<gets, done>>

Sides == {"S", "R"}

Init ==
    /\ gets = [x \in Sides |-> 0]
    /\ done = [x \in Sides |-> {}]

(* The sender may have a packet when its descriptor was never used or the  *)
(* receiver released it; the receiver when the sender committed it.        *)
MayOpen(x) ==
    IF x = "S" THEN gets["S"] < N \/ gets["S"] - N \in done["R"]
               ELSE gets["R"] \in done["S"]

Open(x) ==
    /\ MayOpen(x)
    /\ gets' = [gets EXCEPT ![x] = @ + 1]
    /\ UNCHANGED done

Close(x) ==
    /\ \E s \in (0 .. gets[x] - 1) \ done[x] :
          done' = [done EXCEPT ![x] = @ \cup {s}]
    /\ UNCHANGED gets

Next == \E x \in Sides : Open(x) \/ Close(x)

Spec == Init /\ [][Next]_vars
=============================================================================
