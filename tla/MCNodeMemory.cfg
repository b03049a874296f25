SPECIFICATION FairSpec
CONSTANTS
    OrderId = {"ask", "ask2", "bid"}
    Address <- MCAddress
    Mint <- MCMint
    Order <- MCOrder
    Signature = {"s1", "forged"}
    Genuine <- MCGenuine
    NoSig = "none"
    Backends = {"memory"}
    Fill = {f1}
    Unfilled = unfilled
    MaxFaults = 0
    MaxTime = 1
    Client = {c1}
    Solver = {x1, x2}
    Punctual = {x1, x2}
    MinSolvers = 1
    Score = {0, 1}
    BundleOutcomes = {"landed"}
    MaxRestarts = 0
\* the node stops for good after a graceful shutdown
CHECK_DEADLOCK FALSE
INVARIANTS
    TypeOK
    SealedBatchIsSwept
    WinnerHasTopScore
    OnlySignedOrdersExecute
PROPERTIES
    ClosedOrdersStayClosed
    ImplementsLedger
