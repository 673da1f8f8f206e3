\* One request, every chain of up to three hops.
SPECIFICATION Spec
CONSTANTS
    Requests = {q1}
    Urls <- TestUrls
    Inputs <- TestInputs
    ClientArgs <- TestClients
    Statuses <- TestStatuses
    HopRetries <- TestRetries
CHECK_DEADLOCK FALSE
INVARIANTS
    TypeOK
    AuthorizationConfined
    BodyKeepsMethod
    ChainBounded
    RetriesAddUp
    CookiesKept
