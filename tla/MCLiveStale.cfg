SPECIFICATION RegionSpec
CONSTANTS
    Tasks = {"x", "y"}
    Roots = {}
    Gates = {}
    Screens <- Children
    MaxRev = 0
    MaxPrints = 0
    MaxFrames = 5
    Loops = {1, 2}
    None = None
PROPERTIES NeverLeftBehind
CHECK_DEADLOCK FALSE
