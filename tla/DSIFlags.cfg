\* Two packets with one scatter gather element each, three packets sent, no
\* abort: an update of packet->flags that is overwritten costs a wakeup.
SPECIFICATION Spec
CONSTANTS
    N = 2
    MaxSg = 1
    MaxPackets = 3
    Aborters = {}
    Configurers = {}
INVARIANT NoLostWakeup
CHECK_DEADLOCK FALSE
