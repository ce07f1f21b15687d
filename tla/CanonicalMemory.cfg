SPECIFICATION Spec
CONSTANTS
    Byte = {1, 2}
    Word = {7, 258}
    Align = {1, 2, 8}
    Capacity = 20
    Limit = 32
    OverflowChecks = TRUE
    None = None
    MaxLength = 2
    MaxRegions = 3
INVARIANT RegionsDisjoint
INVARIANT HoldsWhatWasLowered
CHECK_DEADLOCK FALSE
