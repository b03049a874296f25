SPECIFICATION FairSpec
CONSTANTS
    MaxU64 = 3
    MaxU128 = 255
    Amount = {1, 2, 3}
    MaxOrders = 2
\* a finished match takes no further step
CHECK_DEADLOCK FALSE
INVARIANTS
    TypeOK
    AmountsBalance
    FillsBalance
    AllOrNothing
    LimitsRespected
    NoTradeLeftOver
    PricePriority
PROPERTIES
    WorkShrinks
    Terminates
