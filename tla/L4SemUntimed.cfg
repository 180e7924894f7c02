\* Three threads, two semaphores, down/try_down/up only.
SPECIFICATION Spec
CONSTANTS
    t1 = t1
    t2 = t2
    t3 = t3
    s1 = s1
    s2 = s2
    Threads = {t1, t2, t3}
    TimedThreads = {}
    Sems = {s1, s2}
    InitCount <- OneEach
    MaxWqEntries = 3
    Prios <- LowHigh
    MaxCount = 1
    None = None
INVARIANTS NoOvergrant TokensAccounted UpReachesSleeper PriorityOrdered
PROPERTIES ImplementsCountingSemaphore
CHECK_DEADLOCK TRUE
