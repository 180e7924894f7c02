SPECIFICATION SafeSpec
CONSTANTS
    t1 = t1
    t2 = t2
    t3 = t3
    Threads = {t1, t2, t3}
    Cancellable = {}
    Timeouts = {"never"}
    Prio <- TwoLevels
    Count = 1
    MaxCount = 1
    MaxDebt = 2
INVARIANT NoOvergrant
CHECK_DEADLOCK FALSE
