SPECIFICATION SpecOfOne
CONSTANTS
    m1 = m1
    m2 = m2
    m3 = m3
    data = data
    other = other
    Owners = {data, other}
    Data = data
    Budget = 2
    Masters = {m1, m2, m3}
    PidOf <- MCPidOf
    Down = Down
    NoOwner = NoOwner
    Period = 1
    Senders = {"physics", "subscriber"}
    MaxClock = 1
INVARIANTS LinkAgrees
PROPERTIES NeverAfterRemoval ReplacementEnds StopEnds
CHECK_DEADLOCK FALSE
