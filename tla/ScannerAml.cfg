CONSTANTS
    a1 = a1
    token = token
    guarded = guarded
    twin = twin
    trx = trx
    funding = funding
    topUp = topUp
    NoTransfer = NoTransfer
    Main = Main
    Foreign = Foreign
    Accounts <- OneAccount
    SymbolOf <- Kinds
    Src <- Sources
    Dst <- Targets
    TxOf <- Transactions
    Transfers <- AmlMix
    Small = {token}
    Flow = "aml"
    Listed <- TokenAndUsdt
    ChunkSize = 1
    MaxHeight = 2
    MaxArrivals = 3
    MaxFailures = 1
    MaxRestarts = 1
SPECIFICATION FairSpec
INVARIANTS RecordedTwiceIsRescanned CommittedIsCollected
PROPERTIES EveryBlockIsScanned
\* The chain is at its bound and all of it is scanned.
CHECK_DEADLOCK FALSE
