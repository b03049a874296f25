SPECIFICATION FairSpec
CONSTANTS
    OrderId = {"ask", "bid"}
    Address <- MCAddress
    Mint <- MCMint
    Order <- MCOrder
    Signature = {"s1"}
    Genuine <- MCGenuine
    NoSig = "none"
    Backends = {"memory"}
    Fill = {f1}
    Unfilled = unfilled
    MaxFaults = 0
    MaxTime = 1
    Client = {c1}
    Solver = {x1}
    Punctual = {x1}
    MinSolvers = 1
    Score = {0, 1}
    BundleOutcomes = {"landed", "lost"}
    MaxRestarts = 0
\* the node stops for good after a graceful shutdown
CHECK_DEADLOCK FALSE
PROPERTIES
    LostBundlesAreResealed
