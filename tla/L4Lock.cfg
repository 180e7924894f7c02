SPECIFICATION Spec
CONSTANTS
    t1 = t1
    t2 = t2
    t3 = t3
    l1 = l1
    l2 = l2
    None = None
    Threads = {t1, t2, t3}
    Locks = {l1, l2}
    InitOwner <- OneFreeOneOwned
    MaxDepth = 2
INVARIANTS TypeOK MutualExclusion OwnerReadCorrect OneUnit
PROPERTY WaitedForIsTaken
\* Threads that wait for each other's locks stop: the library does not prevent it.
CHECK_DEADLOCK FALSE
