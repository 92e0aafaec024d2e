\* Loops that transfer buffers, descriptors, buffers and directories.
CONSTANTS
    DirA = DirA
    DirB = DirB
    DirC = DirC
    DirOdd = DirOdd
    Length = 4
    Offset = 1
    Owners = {o1, o2}
    MaxFd = 2
    MaxMade = 3
    MaxAddrs = 2
    NoSocket = NoSocket
    Threads = {e1, e2}
    FixedCount = 1
    DefaultCap = 1
    Holders = {h1, h2}
    MaxBuffers = 2
    MaxLen = 2
    MaxPooled = 1
    Nothing = Nothing
    Makers = {m1, m2}
    Paths <- MCPaths
    ShortPaths <- MCShortPaths
    OddNames = {DirOdd}
    MaxRemovals = 2
SPECIFICATION FairSpec
CHECK_DEADLOCK FALSE
INVARIANTS DataIsExact OneOwner
PROPERTIES  OperationsEnd
