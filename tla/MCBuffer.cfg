CONSTANTS
    idle = idle
    a = a
    b = b
    c = c
    Task <- MCTask
    Idle = idle
    NoTask = NoTask
    NBuf = 2
    Blocks = {1, 2, 3}
    Version = 2
SYMMETRY Symmetry
SPECIFICATION Spec
INVARIANTS
    CountsRight
    FreeIsClean
    QueuesRight
    OneBufferPerBlock
PROPERTIES
    ContentsKept
VIEW View
