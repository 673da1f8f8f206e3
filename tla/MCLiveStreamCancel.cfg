\* Two readers that may be cancelled and two closes that may be, too.
SPECIFICATION Spec
CONSTANTS
    Readers = {r1, r2}
    Closers = {c1, c2}
    NoTask = NoTask
    MaxChunks = 2
    Cancellable = {r1, r2, c1, c2}
CHECK_DEADLOCK FALSE
INVARIANT ClosedStreamIsDropped
