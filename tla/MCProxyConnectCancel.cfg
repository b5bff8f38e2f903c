SPECIFICATION Spec
CONSTANTS
    Data = {d1, d2}
    Handle = {h1}
    NULL = NULL
    MaxHosts = 1
    Events = {"cancel_clean"}
INVARIANT
    NothingUsesFreed
