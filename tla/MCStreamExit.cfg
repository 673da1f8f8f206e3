\* Leaving the block while an aread is in flight.
SPECIFICATION Spec
CONSTANTS
    Readers = {r1}
    Closers = {exit}
    Areaders = {a1}
    Exit = exit
    NoTask = NoTask
    MaxChunks = 1
    Width = 1
    Size = 1
    Cancellable = {}
CHECK_DEADLOCK FALSE
INVARIANT ExitClosesResponse
