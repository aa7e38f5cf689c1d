\* Does Stop's join return?
CONSTANTS
    o1 = o1
    Ops = {o1}
    Parts = {"model", "sensor"}
    LateParts = {"sensor"}
    Observers = {}
    MaxSerial = 0
SPECIFICATION FairSpec
PROPERTY StopJoins
