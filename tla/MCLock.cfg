CONSTANTS
    idle = idle
    a = a
    b = b
    c = c
    d = d
    Task <- MCTask
    Idle = idle
    Stale <- MCStale
    None = None
    MaxRepeat = 2
SYMMETRY Symmetry
SPECIFICATION Spec
INVARIANTS
    MutualExclusion
    LockConsistent
    NoStrandedWaiter
