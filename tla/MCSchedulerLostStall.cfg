SPECIFICATION FairSpec
CONSTANTS
    N = 2
    main = main
    other = other
    Callers = {main, other}
    NoTask = NoTask
    Ceiling = 1
    Steps <- None
    Links <- SelfLink
    Waitings <- CallersWait
    Verbs <- None
    Noted = {}
    Narrated = {}
    Interrupts = FALSE
    Joined = TRUE
PROPERTIES WaitsReturn
CHECK_DEADLOCK FALSE
