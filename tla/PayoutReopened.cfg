CONSTANTS
    e1 = e1
    e2 = e2
    t1 = t1
    t2 = t2
    t3 = t3
    order1 = order1
    NoTask = NoTask
    Workers = 2
    Executions <- OneExecution
    ExternalIds <- Orders
    ExternalIdOf <- OneOrder
    Tasks <- TwoTasks
    ExecutionOf <- TwoForOne
    LockEnabled = TRUE
    LockMayLapse = FALSE
SPECIFICATION Spec
PROPERTY FailedPreBroadcastIsFinal
\* Every delivery ends and a decided row stays as it is.
CHECK_DEADLOCK FALSE
