SPECIFICATION Spec
CONSTANTS
    Value = {v1}
    Borrower = {}
    None = None
    MaxSlots = 3
    MaxGeneration = 1
    OverflowChecks = TRUE
    MaxChildren = 2
    MaxBatch = 1
INVARIANT ListsAcyclic
