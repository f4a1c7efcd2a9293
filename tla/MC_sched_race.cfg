SPECIFICATION Spec
CONSTANTS
    MaxTasks = 4
    Quantum = 2
    CtrlC = FALSE
    Boot <- BootShort
    Exits <- ByReturn
INVARIANT ContextOwned
CHECK_DEADLOCK FALSE
