CONSTANTS
    Task = {t1, t2}
    NInode = 3
    NBlock = 3
    NIndex = 2
    NSlot = 2
    NMem = 4
    NFile = 1
    Name = {a, b}
    NoName = NoName
    Device = {9}
    Risks = {}
SPECIFICATION Spec
SYMMETRY Symmetry
INVARIANTS
    BlocksRight
    LinksRight
    CountsRight
    OneInMemory
CHECK_DEADLOCK FALSE
