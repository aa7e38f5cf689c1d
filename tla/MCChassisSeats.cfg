SPECIFICATION Spec
CONSTANTS
    s1 = s1
    s2 = s2
    x = x
    Seats = {s1, s2}
    Ids = {x}
    IdOf <- MCIdOf
    NoSeat = NoSeat
    None = None
    MaxTime = 3
    MaxCallbacks = 2
INVARIANTS SeatsAgree HeldIsZero
PROPERTIES ClosedIsSilent AdmittedIsFresh HoldTakesEffect
CHECK_DEADLOCK FALSE
