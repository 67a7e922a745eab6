CONSTANTS
    Proc = {p1, p2, p3}
    NPage = 5
    NHeap = 1
    NMmap = 1
    Value = {x, y}
    Blank = Blank
    Remap = FALSE
    Unshared = TRUE
SPECIFICATION Spec
SYMMETRY Symmetry
INVARIANTS
    SharingRight
PROPERTIES
    Isolated
