CONSTANTS
    Width = 4
    Height = 2
    Rows = 6
    TabSize = 2
    ARG_NR = 2
    Word = 8
    Number = {1, 7, 8}
    Longest = FALSE
SPECIFICATION Spec
INVARIANTS
    CursorRight
    InMemory
PROPERTIES
    ScrollKeeps
    RowsKept
    EditsShift
