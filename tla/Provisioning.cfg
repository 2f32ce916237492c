CONSTANTS
    Calls = {c1, c2}
    c1 = c1
    c2 = c2
    Attempts = 2
    MaxDecays = 1
    Configs <- MCConfigs
SPECIFICATION FairSpec
INVARIANTS
    NoRentAfterAcceptance
    CleanFailureOwesNothing
PROPERTIES
    NoWayBack
    EveryCallEnds
CHECK_DEADLOCK FALSE
