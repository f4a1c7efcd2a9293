SPECIFICATION PreemptSpec
CONSTANTS
    MaxTasks = 4
    Quantum = 2
    CtrlC = FALSE
    Boot <- BootShort
    Exits <- BySyscall
PROPERTY Preemptive
CHECK_DEADLOCK FALSE
