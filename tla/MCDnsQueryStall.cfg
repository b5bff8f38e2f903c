SPECIFICATION FairSpec
CONSTANTS
    Query = {q1, q2}
    Child = {c1}
    NULL = NULL
    MAX_DNS_CHILDREN = 1
    Cancels = TRUE
    PipeFails = FALSE
    ForkFails = FALSE
    BelowZero = 1
    Crashes = FALSE
PROPERTIES
    EveryQueryEnds
\* The program ends after uninit.
CHECK_DEADLOCK FALSE
