SPECIFICATION MCSpec
CONSTANTS
    Runs = {1, 2}
    Tasks = {"a", "b", "c"}
    Opaque = {"b"}
    Late = {"b"}
    Calls = {"close", "other"}
    Closing = {"close", "other"}
    Owner <- TwoOwners
    MaxOpens = 2
    MaxFails = 2
    MaxCrashes = 1
    MaxCancels = 1
    None = None
    Nothing = Nothing
    Askers = {"g", "h"}
    Workers = {"w"}
    Settings <- MCSettings
    MaxLines = 2
INVARIANTS ReportedIsOnDisk EndsAsAnswered
PROPERTIES NothingLost EveryRunEnds AbortReleases
CHECK_DEADLOCK FALSE
