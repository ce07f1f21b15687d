SPECIFICATION Spec
CONSTANTS
    Value = {v1}
    Borrower = {b1}
    None = None
    MaxSlots = 3
    MaxGeneration = 1
    OverflowChecks = TRUE
    MaxChildren = 1
    MaxBatch = 2
INVARIANT FreeListExact
INVARIANT BorrowsHold
INVARIANT AncestorsAcyclic
PROPERTY DescendantsFirst
PROPERTY ImplementsStore
