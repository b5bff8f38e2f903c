SPECIFICATION Spec
CONSTANTS
    a1 = a1
    Account = {a1}
    INITIAL_RECON_DELAY_MIN = 1
    INITIAL_RECON_DELAY_MAX = 3
    MAX_RECON_DELAY = 3
    Events = {"register", "delete", "edit_doomed", "status", "network", "network_pending", "late_connected", "stall", "save", "quit", "crash"}
INVARIANTS
    TypeOK
    NothingUsesDeleted
    ErrorsLeaveConnection
    DoomedEnds
    OnlyEnabledConnect
    ChangesGetSaved
PROPERTIES
    DelayGrows
