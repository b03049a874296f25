SPECIFICATION Spec
CONSTANTS
    OrderId = {"ask"}
    Address <- MCAddress
    Mint <- MCMint
    Order <- MCOrder
    Signature = {"s1", "s2"}
    Genuine <- MCGenuine
    NoSig = "none"
    Backends = {"postgres", "memory"}
    Fill = {f1}
    Unfilled = unfilled
    MaxFaults = 2
    MaxTime = 1
    Client = {c1, c2}
    Solver = {x1}
    Punctual = {x1}
    MinSolvers = 1
    Score = {1}
    BundleOutcomes = {"landed"}
    MaxRestarts = 2
\* the node stops for good after a graceful shutdown
CHECK_DEADLOCK FALSE
INVARIANTS
    AnswersStayTrue
