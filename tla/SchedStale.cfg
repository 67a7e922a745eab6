CONSTANTS
    NTask = 3
    Priority = 2
    SleepMs = {15}
    Calls = {"sleep", "kill"}
    BlockStates = {"BLOCKED"}
    MaxTimers = 1
SPECIFICATION Spec
INVARIANTS
    RunningTaskIsRunning
