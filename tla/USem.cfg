SPECIFICATION Spec
CONSTANTS
    t1 = t1
    t2 = t2
    t3 = t3
    Threads = {t1, t2, t3}
    Cancellable = {}
    Timeouts = {"never", "finite"}
    Prio <- TwoLevels
    Count = 1
    MaxCount = 2
    MaxDebt = 2
INVARIANTS TypeOK CounterExact FlagCoversQueue NoLostWakeup QueuedSleep AsleepIsQueued
PROPERTIES UnitsFound CallsReturn
\* The bounds end the use of a semaphore that was destroyed.
CHECK_DEADLOCK FALSE
