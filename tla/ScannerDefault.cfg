CONSTANTS
    a1 = a1
    token = token
    guarded = guarded
    twin = twin
    trx = trx
    funding = funding
    topUp = topUp
    NoTransfer = NoTransfer
    Main = Main
    Foreign = Foreign
    Accounts <- OneAccount
    SymbolOf <- Kinds
    Src <- Sources
    Dst <- Targets
    TxOf <- Transactions
    Transfers <- FundedDeposits
    Small = {}
    Flow = "default"
    Listed = {}
    ChunkSize = 2
    MaxHeight = 2
    MaxArrivals = 4
    MaxFailures = 1
    MaxRestarts = 1
SPECIFICATION Spec
INVARIANTS IInv CommittedIsNotified CommittedIsCollected
PROPERTIES ScannedBeforeCommit
\* The chain is at its bound and all of it is scanned.
CHECK_DEADLOCK FALSE
