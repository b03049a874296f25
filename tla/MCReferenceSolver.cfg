SPECIFICATION FairSpec
CONSTANTS
    OrderId = {"AB", "AB2", "BA", "AC", "CA"}
    Address = {"alice"}
    Mint <- MCMint
    Order <- MCOrder
    Signature = {"s1"}
    Genuine = {}
    MaxU64 = 2
    MaxU128 = 4
    Rank <- MCRank
    Matched <- MCMatched
    Surplus <- MCSurplus
    Solver = {x1, x2}
    Batches <- MCBatches
    TaskId = {t1, t2, t3}
    MaxThreads = 2
INVARIANTS
    TypeOK
    AnswersMatchReference
    AnswersAreOfTheRound
PROPERTIES
    ImplementsContract
