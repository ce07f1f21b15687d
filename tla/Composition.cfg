SPECIFICATION Spec
CONSTANTS
    io = io
    clock = clock
    v1 = v1
    v2 = v2
    v3 = v3
    None = None
    Component = {A, B}
    Path <- MCPath
    Name <- MCName
    Template <- MCTemplate
    Standard <- MCStandard
    Checked <- MCChecked
    MaxLinks = 2
SYMMETRY Symmetric
PROPERTY OnlyRegisterUnsettles
PROPERTY ResolutionMoves
