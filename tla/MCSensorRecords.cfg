SPECIFICATION Spec
CONSTANTS
    Ids = {i1}
    Parents = {p1}
    NumRecords = 2
    MaxSensors = 3
    i1 = i1
    p1 = p1
    MaxRevision = 2
    NoParent = NoParent
    NoId = NoId
INVARIANTS RecordsAgree
PROPERTIES Fenced Interrupted
CHECK_DEADLOCK FALSE
