SPECIFICATION FairSpec
CONSTANTS
    Threads = {t1, t2, t3}
    NoThread = NoThread
    CountMask = 2
    MaxNesting = 3
    Waiters = {t1, t2}
    Callers = {t3}
    Modes = {"timed"}
INVARIANTS
    TypeOK
    HolderOwns
    SleeperReachable
    NoStaleWaiter
    InterruptKept
PROPERTIES
    FattensOnce
    RefinesJavaMonitor
    ReachedWakes
