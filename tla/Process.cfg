CONSTANTS
    NTask = 5
    Task = {0, 1, 2, 3, 4}
    Idle = 0
    Calls = {"fork", "exit", "waitpid", "kill", "sleep", "setsid"}
    Fatal = {15}
    Targets = {3, 4}
    Dormant = {2}
    MaxTimers = 1
    ExitBlocks = TRUE
SPECIFICATION Spec
INVARIANTS
    FamilyRight
    NoMissedExit
    NoDanglingTimer
