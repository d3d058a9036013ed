SPECIFICATION MCSpec
CONSTANTS
    Holds = {h1, h2, h3}
    dir = dir
    h3 = h3
    Keys = {dir, file}
    Contains <- MCContains
    NoHold = NoHold
    NoClaim = NoClaim
    MaxGoroutine = 4
    MaxTask = 2
    Resource = {"git"}
    MaxHolds = 1
    Habit = {}
INVARIANTS GrantsSound EveryWaiterBlocked NoLeak NoDeadlock
PROPERTIES ClaimsServed
