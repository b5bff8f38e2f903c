SPECIFICATION Spec
CONSTANTS
    Size = 3
    Chunk = 2
    Events = {}
INVARIANTS TypeOK RefsAccounted  OverForGood NoByteLost WakeupKept
PROPERTIES StatusForward
