SPECIFICATION MCSpec
CONSTANTS
    Scenes <- MCScenes
    Tasks = {1, 2, 3}
    Root = 0
    Actors = {"a", "b", "c", "d"}
    NoFile = NoFile
    Steps <- MCSteps
    Proc <- MCProc
    Trying = {"d"}
    Casts = {{}, {"a", "b", "c"}, {"c", "d"}, {"a", "d"}}
    Inodes = {1, 2, 3, 4, 5, 6, 7, 8}
    MaxErrors = 1
    MaxCrashes = 1
INVARIANTS ExitCodeHonest
PROPERTIES ForgottenIsFree EveryRunReturns ImplementsClaims EveryCallReturns
CHECK_DEADLOCK FALSE
