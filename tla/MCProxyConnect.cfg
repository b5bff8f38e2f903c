SPECIFICATION Spec
CONSTANTS
    Data = {d1, d2}
    Handle = {h1, h2}
    NULL = NULL
    MaxHosts = 3
    Events = {}
INVARIANTS
    TypeOK
    NothingUsesFreed
    WaitsForOneThing
    NoSocketLost
PROPERTY
    ImplementsAttempt
