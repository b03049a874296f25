SPECIFICATION Spec
CONSTANTS
    OrderId = {"ask", "bid"}
    Address <- MCAddress
    Mint <- MCMint
    Order <- MCOrder
    Signature = {"s1"}
    Genuine <- MCGenuine
    NoSig = "none"
    Backends = {"postgres", "memory"}
    Fill = {unfilled, f1}
    Unfilled = unfilled
    MaxFaults = 2
    MaxTime = 0
    Client = {c1}
    Solver = {x1}
    Punctual = {x1}
    MinSolvers = 1
    Score = {1}
    BundleOutcomes = {"landed", "lost"}
    MaxRestarts = 1
\* the node stops for good after a graceful shutdown
CHECK_DEADLOCK FALSE
INVARIANTS
    RedeliveryNeedsLostMark
    BookAgreesWithSink
    RoundConsistent
    RoundsAreWhole
