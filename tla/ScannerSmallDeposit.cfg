CONSTANTS
    a1 = a1
    token = token
    guarded = guarded
    twin = twin
    trx = trx
    funding = funding
    topUp = topUp
    NoTransfer = NoTransfer
    Main = Main
    Foreign = Foreign
    Accounts <- OneAccount
    SymbolOf <- Kinds
    Src <- Sources
    Dst <- Targets
    TxOf <- Transactions
    Transfers <- GuardedAndTrx
    Small = {trx}
    Flow = "aml"
    Listed <- TrxAndUsdt
    ChunkSize = 1
    MaxHeight = 2
    MaxArrivals = 2
    MaxFailures = 0
    MaxRestarts = 0
SPECIFICATION FairSpec
PROPERTIES NotifiedIsRecorded
\* The chain is at its bound and all of it is scanned.
CHECK_DEADLOCK FALSE
