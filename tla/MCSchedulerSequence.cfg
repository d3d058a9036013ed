SPECIFICATION Spec
CONSTANTS
    N = 3
    main = main
    other = other
    Callers = {main}
    NoTask = NoTask
    Ceiling = 2
    Steps <- ThreeSteps
    Links <- FirstAfterItself
    Waitings <- LastStepWait
    Verbs <- StepVerbs
    Noted = {1}
    Narrated = {3}
    Interrupts = TRUE
    Joined = TRUE
INVARIANTS FollowersStopped GreenRowsEarned LedgerComplete WaitTellsTruth
PROPERTIES NothingStartsOnceCancelled
