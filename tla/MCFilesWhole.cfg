SPECIFICATION MCSpec
CONSTANTS
    c1 = c1
    c2 = c2
    c3 = c3
    r1 = r1
    r2 = r2
    m1 = m1
    None = None
    Nil = Nil
    Original = Original
    Torn = Torn
    Committers = {c1, c2, c3}
    Files = {c3}
    Removers = {m1}
    Recoverers = {r1, r2}
    Casts = {{c1, r1, r2}, {c1, c2}, {c1, c3, m1}, {c1, r1, m1}}
    Planned = c1
    Exchange = {TRUE, FALSE}
    Displaceable = TRUE
    MaxNames = 4
    MaxFaults = 2
    MaxCrashes = 1
    Tasks = {"a", "b"}
    Paths = {"in", "mid", "out"}
    Programs <- MCPrograms
    MaxRuns = 3
    MaxEdits = 2
    Parts = {"publication"}
INVARIANT WholeTree
CHECK_DEADLOCK FALSE
