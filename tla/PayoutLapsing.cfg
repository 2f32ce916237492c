CONSTANTS
    e1 = e1
    e2 = e2
    t1 = t1
    t2 = t2
    t3 = t3
    order1 = order1
    NoTask = NoTask
    Workers = 2
    Executions <- TwoExecutions
    ExternalIds <- Orders
    ExternalIdOf <- SharedOrder
    Tasks <- ThreeTasks
    ExecutionOf <- TwoAndOne
    LockEnabled = TRUE
    LockMayLapse = TRUE
SPECIFICATION Spec
SYMMETRY TwoTaskSymmetry
INVARIANT IInv
INVARIANT AtMostOnePayment
INVARIANT EvidenceBeforeBroadcast
INVARIANT VerdictMatchesChain
PROPERTY ImplementsContract
\* Every delivery ends and a decided row stays as it is.
CHECK_DEADLOCK FALSE
