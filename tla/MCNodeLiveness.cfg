SPECIFICATION FairSpec
CONSTANTS
    OrderId = {"ask", "bid"}
    Address <- MCAddress
    Mint <- MCMint
    Order <- MCOrder
    Signature = {"s1"}
    Genuine <- MCGenuine
    NoSig = "none"
    Backends = {"postgres"}
    Fill = {f1}
    Unfilled = unfilled
    MaxFaults = 1
    MaxTime = 1
    Client = {c1}
    Solver = {x1, x2}
    Punctual = {x1, x2}
    MinSolvers = 1
    Score = {1}
    BundleOutcomes = {"landed", "lost"}
    MaxRestarts = 1
\* the node stops for good after a graceful shutdown
CHECK_DEADLOCK FALSE
PROPERTIES
    StopsAfterShutdown
    DueOrdersLeaveTheBook
    RacesEnd
    ImplementsLedger
