SPECIFICATION FairSpec
CONSTANTS
    Query = {q1, q2, q3}
    Child = {c1, c2}
    NULL = NULL
    MAX_DNS_CHILDREN = 1
    Cancels = FALSE
    PipeFails = FALSE
    ForkFails = FALSE
    BelowZero = 1
    Crashes = FALSE
INVARIANTS
    PoolLimit
    WaitsOnlyForBusyPool
PROPERTIES
    ImplementsLookupService
    EveryQueryEnds
\* The program ends after uninit.
CHECK_DEADLOCK FALSE
