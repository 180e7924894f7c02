\* Three threads, one of which uses down_timed: UpReachesSleeper fails.
SPECIFICATION SafeSpec
CONSTANTS
    t1 = t1
    t2 = t2
    t3 = t3
    s1 = s1
    s2 = s2
    Threads = {t1, t2, t3}
    TimedThreads = {t1}
    Sems = {s1}
    InitCount <- Locked
    MaxWqEntries = 3
    Prios <- OnePrio
    MaxCount = 1
    None = None
INVARIANT UpReachesSleeper
