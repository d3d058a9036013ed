SPECIFICATION Spec
CONSTANTS
    N = 4
    main = main
    other = other
    Callers = {}
    NoTask = NoTask
    Ceiling = 2
    Steps <- TwoSteps
    Links <- None
    Waitings <- ChainedWaits
    Verbs <- None
    Noted = {}
    Narrated = {}
    Interrupts = FALSE
    Joined = TRUE
PROPERTIES NoFalseDeadlock
CHECK_DEADLOCK FALSE
