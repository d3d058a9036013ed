SPECIFICATION MCSpec
CONSTANTS
    Cols = {"outer", "inner"}
    Up <- Nested
    Members = {"m1", "m2", "m3"}
    Home <- Split
    Deps = {"d", "e"}
    On <- OnOuter
    Scenes <- MCScenes
    MaxTask = 3
    Own <- Second
    Width <- WideFirst
    Rows = 1
    MaxPaints = 2
    Ends = {"done", "failed"}
    Notes = {"noted", "warned"}
    W = 2
    Position <- Sparse
    Tasks = {"gate", "root", "x", "y"}
    Roots = {"gate", "root"}
    Gates = {"gate"}
    Screens <- MCScreens
    MaxRev = 1
    MaxPrints = 1
    MaxFrames = 5
    Loops = {1, 2}
    None = None
INVARIANTS NobodyForgotten ReadsAsWalk NoRowTwice
PROPERTIES StartsAfterNamed EveryDependentEnds ImplementsSet CatchesUp
CHECK_DEADLOCK FALSE
