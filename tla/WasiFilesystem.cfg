SPECIFICATION VirtualSpec
CONSTANTS
    Name = {a, b}
    Byte = {x}
    Zero = zero
    MaxDepth = 2
    MaxNodes = 4
    MaxFd = 5
    MaxSize = 2
SYMMETRY Symmetric
INVARIANT NodesSound
PROPERTY UnlinkedStaysGone
PROPERTY PastEndOnlyByTruncation
PROPERTY PreloadsOnlyAdd
PROPERTY LoopsOnlyByRename
PROPERTY FailuresTakeLittle
