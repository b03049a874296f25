SPECIFICATION Spec
CONSTANTS
    MaxU64 = 1023
    MaxU128 = 1048575
    Amount = {1, 100}
    MaxOrders = 1
\* a finished match takes no further step
CHECK_DEADLOCK FALSE
INVARIANTS
    ExactExecutions
