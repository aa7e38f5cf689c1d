SPECIFICATION FairSpec
CONSTANTS
    Requests = {r1, r2}
    Bodies = {move, create}
    Creates = {create}
    Clients = {c1, c2}
    NumSlots = 1
    QueueCap = 1
    WaiterCap = 1
    None = None
INVARIANTS IInv
PROPERTIES AcceptedTerminates QueuedCancelWins WaitersAnswered
CHECK_DEADLOCK FALSE
