SPECIFICATION Spec
CONSTANTS
    Points <- MCPoints
    Distance <- MCDistance
    Bearing <- MCBearing
    MaxWaypoints = 4
    Pace = 4
    TurnPace = 1
    Names = {robot, crate, obstacle}
    Managed = {obstacle}
    Tracked = {robot, crate, obstacle}
    MaxContacts = 2
    Documents <- MCDocuments
    MaxObstacles = 2
    MaxModelParts = 2
    MaxParts = 3
    Lattice <- MCLattice
INVARIANTS AnimationIsSound CompiledIsExact VerdictIsExact
PROPERTIES VerdictAgrees
CHECK_DEADLOCK FALSE
