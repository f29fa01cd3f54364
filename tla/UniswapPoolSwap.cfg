CONSTANTS
    AddressOrders = {TRUE}
    Fees = {100, 500, 3000, 10000}
    Reserves = {0, 1, 4}
    BlockTimes = {1700000000}
    Q96 = 16
    GasLimitSet = {TRUE}
    MaxSwaps = 2
    None = None

SPECIFICATION Spec

\* The load test ends: after its last swap, a panic, or an error return.
CHECK_DEADLOCK FALSE

INVARIANT SwapsExecuted
