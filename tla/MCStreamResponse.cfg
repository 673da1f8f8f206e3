\* Two anext calls, one aread, an aclose and the __aexit__; the closes run to
\* their end, the others may be cancelled.
SPECIFICATION Spec
CONSTANTS
    Readers = {r1, r2}
    Closers = {c1, exit}
    Areaders = {a1}
    Exit = exit
    NoTask = NoTask
    MaxChunks = 2
    Width = 3
    Size = 2
    Cancellable = {r1, r2, a1}
CHECK_DEADLOCK FALSE
INVARIANTS
    TypeOK
    NoChunkLost
    StopMeansComplete
    BufferedIsWhole
    CloseReleasesConnection
    NoPieceAfterClose
PROPERTY
    ImplementsConnection
