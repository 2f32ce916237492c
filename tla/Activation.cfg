CONSTANTS
    c1 = c1
    c2 = c2
    NoCall = NoCall
    Calls = {c1, c2}
    MaxLapses = 1
    MaxExpiries = 1
SPECIFICATION FairSpec
INVARIANTS
    OneOrder
    ReturnedIsActive
PROPERTIES
    RecordIsKept
    EveryCallEnds
CHECK_DEADLOCK FALSE
