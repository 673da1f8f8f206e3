\* Params objects and queries of up to three pairs, with three keys and two
\* values; every kind of URL, joined and copied, with a query of one pair.
SPECIFICATION Spec
CONSTANTS
    Keys = {k1, k2, k3}
    Values = {"", "1"}
    Places <- MCPlaces
    References <- MCReferences
    Kwargs <- MCKwargs
    Colon = "c:d"
    ColonScheme = "c"
    ColonRest = "d"
    MaxPairs = 3
    MaxSegments = 4
SYMMETRY KeySymmetry
VIEW WithoutCalled
CHECK_DEADLOCK FALSE
INVARIANTS
    Grouped
    JoinResolves
    CopyKeepsTheRest
    BaseUrlConfines
PROPERTY
    ImplementsMultiDict
