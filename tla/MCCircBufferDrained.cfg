SPECIFICATION Spec
CONSTANTS
    Byte = {b0, b1}
    Junk = Junk
    GrowArg = 2
    DEFAULT_BUF_SIZE = 3
    MaxAppend = 4
    MaxLen = 6
    GrowsDrained = TRUE
INVARIANTS
    MaxReadSound
