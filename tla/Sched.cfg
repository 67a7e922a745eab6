CONSTANTS
    NTask = 3
    Priority = 2
    SleepMs = {0, 5, 15}
    Calls = {"yield", "sleep", "block", "wakeup", "kill"}
    BlockStates = {"BLOCKED", "WAITING"}
    MaxTimers = 3
SPECIFICATION Spec
INVARIANTS
    TicksPositive
    TimersInOrder
PROPERTIES
    ImplementsDispatch
    SleepEnds
    LastSlotRuns
