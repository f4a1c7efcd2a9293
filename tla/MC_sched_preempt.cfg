SPECIFICATION CoopSpec
CONSTANTS
    MaxTasks = 5
    Quantum = 2
    CtrlC = TRUE
    Boot <- BootAtOnce
    Exits <- BySyscall
INVARIANTS TypeOK SwitchesAreExact ListSound 
PROPERTIES TurnsInOrder 
CHECK_DEADLOCK FALSE
