\* Two packets with one scatter gather element each, three packets sent, no
\* abort: an overwritten update of packet->flags hands out a packet too early.
SPECIFICATION Spec
CONSTANTS
    N = 2
    MaxSg = 1
    MaxPackets = 3
    Aborters = {}
    Configurers = {}
INVARIANT NoEarlyPacket
CHECK_DEADLOCK FALSE
