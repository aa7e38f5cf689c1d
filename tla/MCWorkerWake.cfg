\* One command or create with a model and a sensor, or an observer and a change of the scene.
CONSTANTS
    o1 = o1
    c1 = c1
    Ops = {o1}
    Parts = {"model", "sensor"}
    LateParts = {"sensor"}
    Observers = {c1}
    MaxSerial = 1
SPECIFICATION SpecOfOne
INVARIANTS WakesAgree
PROPERTIES CommandTaken OpenCreateCloses
