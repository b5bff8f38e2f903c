SPECIFICATION Spec
CONSTANTS
    Query = {q1, q2, q3, q4}
    Child = {c1, c2, c3}
    NULL = NULL
    MAX_DNS_CHILDREN = 2
    Cancels = TRUE
    PipeFails = TRUE
    ForkFails = TRUE
    BelowZero = 1
    Crashes = TRUE
SYMMETRY Symmetry
INVARIANTS
    TypeOK
    ResolverOwnership
    NoQueryLostOrDangling
    AnswerIsForItsQuery
PROPERTY
    ServedInOrder
\* The program ends after uninit.
CHECK_DEADLOCK FALSE
