SPECIFICATION CancelSpec
CONSTANTS
    t1 = t1
    t2 = t2
    t3 = t3
    Threads = {t1, t2, t3}
    Cancellable = {t1, t2, t3}
    Timeouts = {"never"}
    Prio <- TwoLevels
    Count = 1
    MaxCount = 1
    MaxDebt = 2
INVARIANT RetryNotQueued
CHECK_DEADLOCK FALSE
