SPECIFICATION Spec
CONSTANTS
    Ids = {r, s}
    EntryCap = 1
    MaxTime = 2
    MaxRewinds = 1
    MaxGeneration = 2
SYMMETRY Alike
INVARIANTS WorldAgrees
PROPERTIES PlacedHolds SceneClock
CHECK_DEADLOCK FALSE
