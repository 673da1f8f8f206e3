\* Two builders and the thread that shuts down, in one process.
SPECIFICATION Spec
CONSTANTS
    p1 = p1
    p2 = p2
    t1 = t1
    t2 = t2
    t3 = t3
    Procs = {p1}
    Threads = {t1, t2, t3}
    Addrs = {a1, a2, a3}
    Home <- OneByThree
    PidOf <- DistinctPids
    Root = p1
    Null = Null
CHECK_DEADLOCK FALSE
INVARIANT RetractedRuntimeIsIdle
