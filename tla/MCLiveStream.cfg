\* Two readers that may be cancelled and two closes that run to their end.
SPECIFICATION FairSpec
CONSTANTS
    Readers = {r1, r2}
    Closers = {c1, c2}
    NoTask = NoTask
    MaxChunks = 2
    Cancellable = {r1, r2}
CHECK_DEADLOCK FALSE
INVARIANTS
    NoLostWakeup
    ClosedStreamIsDropped
PROPERTIES
    CloseReturns
    CloseEndsReads
