\* No liveness and no deadlock check: contexts that lock each other in a
\* circle stop the kernel, see the README.
SPECIFICATION Spec
CONSTANTS
    h = h
    m = m
    l = l
    idle = idle
    p = p
    Contexts = {h, m, l, idle}
    Plain = {p}
    Idle = idle
    None = None
    Prio <- MCPrio
    Kills <- MCKills
INVARIANTS TypeOK LocksCounted DonateeIsOwner HelpReaches
CHECK_DEADLOCK FALSE
