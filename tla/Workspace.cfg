SPECIFICATION WorkspaceSpec
CONSTANTS
    Target = {n1, n2, n3}
    MaxMembers = 3
    MaxDeps = 2
INVARIANT ValidatedIsAcyclic
INVARIANT CycleIsReal
INVARIANT OrderIsTopological
INVARIANT SortFindsAll
PROPERTY Returns
CHECK_DEADLOCK FALSE
