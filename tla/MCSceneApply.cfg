SPECIFICATION Spec
CONSTANTS
    NumObstacles = 2
    a = a
    b = b
    Bodies = {a, b}
    NoBody = NoBody
    Epochs = {e1, e2}
    NoEpoch = NoEpoch
    MaxRevision = 2
    Scenes <- MCScenes
    NumEntities = 3
    RetiredCap = 1
    MaxTries = 3
INVARIANTS BatchAgrees AppliedIsWhole LateIsAccounted
PROPERTIES EpochFence LateSwept
CHECK_DEADLOCK FALSE
