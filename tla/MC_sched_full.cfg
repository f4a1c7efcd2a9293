SPECIFICATION Spec
CONSTANTS
    MaxTasks = 4
    Quantum = 2
    CtrlC = TRUE
    Boot <- BootInTwo
    Exits <- ByBoth
INVARIANTS NoSpuriousEoi NoContextResumedTwice KilledStaysDead PidsUnique
CHECK_DEADLOCK FALSE
