CONSTANTS
    t1 = t1
    w1 = w1
    w2 = w2
    low = low
    high = high
    regular = regular
    a = a
    b = b
    Deposits = {t1}
    Workers = {w1, w2}
    Dests = {a, b}
    Levels = {low, high}
    Regular = regular
    Split <- MCSplit
    Amount = 2
    Threshold = 2
    NoDeposit = NoDeposit
    NoLevel = NoLevel
    NoDest = NoDest
    MaxFaults = 2
SPECIFICATION Spec
INVARIANTS
    PaidOnce
    DrainsFollowVerdict
    
SYMMETRY Alike
CHECK_DEADLOCK FALSE
