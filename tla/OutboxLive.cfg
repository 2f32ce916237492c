CONSTANTS
    c1 = c1
    c2 = c2
    d1 = d1
    d2 = d2
    NoToken = NoToken
    Orphan = Orphan
    NoCallback = NoCallback
    Callbacks <- TwoCallbacks
    Dispatchers <- TwoDispatchers
    MaxAttempts = 2
    Limit = 1
    PostsPerTTL = 1
    MaxCrashes = 1
SPECIFICATION FairSpec
INVARIANT ClaimIsExclusive
PROPERTY EveryCallbackSettles
\* Every row is settled and nothing is left to send.
CHECK_DEADLOCK FALSE
