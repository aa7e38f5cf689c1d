SPECIFICATION Spec
CONSTANTS
    Requests = {r1, r2}
    Bodies = {move, create}
    Creates = {create}
    Clients = {}
    NumSlots = 2
    QueueCap = 1
    WaiterCap = 1
    None = None
SYMMETRY RequestSymmetry
INVARIANTS IInv
PROPERTIES ImplementsLog
CHECK_DEADLOCK FALSE
