SPECIFICATION Spec
CONSTANTS
    a = a
    b = b
    c = c
    A = A
    C = C
    read = read
    write = write
    exec = exec
    u8 = u8
    None = None
    Name <- MCName
    PascalCase <- MCPascalCase
    Ref <- MCRef
    Item <- MCItem
    MaxItems = 3
    Flag = {read, write, exec}
    Variable = {x, y}
    Width = 2
    OverflowChecks = TRUE
INVARIANT AliasesAgree
INVARIANT FlagsAreNames
PROPERTY ReferencesMove
CHECK_DEADLOCK FALSE
