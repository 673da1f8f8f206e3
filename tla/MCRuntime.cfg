\* Safety and liveness: one thread of a process and two of its child.
SPECIFICATION FairSpec
CONSTANTS
    p1 = p1
    p2 = p2
    t1 = t1
    t2 = t2
    t3 = t3
    Procs = {p1, p2}
    Threads = {t1, t2, t3}
    Addrs = {a1, a2, a3}
    Home <- OneAndTwo
    PidOf <- DistinctPids
    Root = p1
    Null = Null
CHECK_DEADLOCK FALSE
INVARIANTS
    OwnRuntimeOnly
    NoUseAfterFree
    OneRuntimeWhileOpen
    NoRuntimeOutlivesShutdown
PROPERTIES
    HandleReturns
    ShutdownDrains
