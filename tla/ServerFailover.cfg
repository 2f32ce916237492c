CONSTANTS
    N = 2
    MaxBlock = 2
    MaxOutages = 2
    MaxErrors = 1
    MaxChanges = 1
    MaxRestarts = 1
SPECIFICATION FairSpec
INVARIANTS RefresherOutlivesOutages
PROPERTIES FailsOver SelectionSettles
\* The refresher has ended and the servers stand still.
CHECK_DEADLOCK FALSE
