SPECIFICATION FairSpec
CONSTANTS
    Threads = {t1, t2, t3}
    NoThread = NoThread
    Classes = {A, B}
    NoClass = NoClass
    Linker = t1
    Unverifiable = {B}
    Throwing = {A}
    MaxAsks = 1
    MaxEarly = 1
INVARIANTS
    OneInitializer
    ConsistentView
    ClinitAfterSuper
    NoStaleClaim
    WaiterHasWaker
PROPERTIES
    SettledForGood
    InitReturns
CHECK_DEADLOCK FALSE
