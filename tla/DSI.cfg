\* Two packets with one scatter gather element each, three packets sent, so
\* that a descriptor is used again; the receiver may be aborted and its socket
\* flags set or cleared meanwhile.  Behaviours are followed up to the first
\* overwritten update of a flag word: what the properties say ends there.
SPECIFICATION Spec
CONSTANTS
    N = 2
    MaxSg = 1
    MaxPackets = 3
    Aborters = {"R"}
    Configurers = {"R"}
CONSTRAINT Intact
INVARIANTS
    TypeOK CountersBounded WakeupsArrive PendingIsOwed AbortReaches
    SgListsIntact NoPanic
PROPERTY ImplementsPacketStream
CHECK_DEADLOCK FALSE
