SPECIFICATION HealthSpec
CONSTANTS
    NumComponents = 1
    Owners = {a, b}
    Clients = {k}
    ObserverCap = 1
    MaxRevision = 3
INVARIANTS HealthAgrees
PROPERTIES RevisionNeverFalls ObserversLearn
CHECK_DEADLOCK FALSE
