SPECIFICATION Spec
CONSTANTS
    MaxU64 = 15
    MaxU128 = 255
    Amount = {1, 2, 3, 9}
    MaxOrders = 2
\* a finished match takes no further step
CHECK_DEADLOCK FALSE
INVARIANTS
    LinearTurns
