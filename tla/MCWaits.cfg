SPECIFICATION MCSpec
CONSTANTS
    N = 3
    main = main
    other = other
    Callers = {}
    NoTask = NoTask
    Ceiling = 1
    Steps <- None
    Links <- AnyLinks
    Waitings <- AnyWaits
    Verbs <- None
    Noted = {}
    Narrated = {}
    Interrupts = TRUE
    Joined = TRUE
INVARIANTS StartsOnlyAfterSuccess NothingStranded CountsAgree
PROPERTIES NoFalseDeadlock WaitsReturn FinishReturns
