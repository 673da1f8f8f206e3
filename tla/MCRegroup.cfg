\* All bodies of up to five bytes, all ways to cut them.
SPECIFICATION Spec
CONSTANTS
    Bytes = {"x", "CR", "LF", "lead", "trail"}
    MaxLen = 5
    Sizes = {0, 1, 2, 3}
CHECK_DEADLOCK FALSE
INVARIANTS
    TypeOK
    PiecesAreExact
    LinesMatchSplitlines
