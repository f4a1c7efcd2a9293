SPECIFICATION Spec
CONSTANTS
    MaxTasks = 4
    Quantum = 2
    CtrlC = FALSE
    Boot <- BootAlone
    Exits <- BySyscall
INVARIANT ListSound
CHECK_DEADLOCK FALSE
