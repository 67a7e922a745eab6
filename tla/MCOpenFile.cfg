CONSTANTS
    NTask = 2
    NFd = 3
    NFile = 3
    NMem = 2
    Std = 1
    Number = {1}
    MaxOffset = 2
SPECIFICATION Spec
INVARIANTS
    CountsRight
PROPERTIES
    DescriptorsKept
    OffsetsAdvance
