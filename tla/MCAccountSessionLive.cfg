SPECIFICATION LiveSpec
CONSTANTS
    a1 = a1
    Account = {a1}
    INITIAL_RECON_DELAY_MIN = 1
    INITIAL_RECON_DELAY_MAX = 3
    MAX_RECON_DELAY = 3
    Events = {"delete", "status", "network"}
INVARIANTS
    WantedIsOnTheWay
PROPERTIES
    ErrorsKeepPassword
    WantedGetsOnline
