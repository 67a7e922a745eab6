CONSTANTS
    idle = idle
    a = a
    b = b
    c = c
    Task <- MCTask
    Idle = idle
    NoTask = NoTask
    Kinds = {"pipe", "keyboard", "serial"}
    Length = 3
    MaxCount = 2
    Byte = 4
SYMMETRY Symmetry
SPECIFICATION Spec
INVARIANTS
    NewestInOrder
    PipeLosesNothing
    WaitersRight
    ReadersTakeTurns
