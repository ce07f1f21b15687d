SPECIFICATION BinarySpec
CONSTANTS
    Vals <- ValTypes
    Refs <- References
    Type <- Types
    World <- Worlds
    NameLength = {1, 130}
    ModuleSize = {0, 128}
    CutAt = {9, 10, 140}
    Absent = Absent
    MaxItems = 2
INVARIANT SectionsFound
INVARIANT TypesDistinct
INVARIANT WorldReadable
