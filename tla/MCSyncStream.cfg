\* Two threads in next(), one in read(), one in close() and one in __exit__.
SPECIFICATION FairSpec
CONSTANTS
    Readers = {r1, r2}
    Loaders = {l1}
    Closers = {c1, exit}
    Exit = exit
    NoTask = NoTask
    MaxChunks = 2
CHECK_DEADLOCK FALSE
INVARIANTS
    CloseIsFinal
PROPERTY GilComesBack
