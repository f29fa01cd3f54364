CONSTANTS
    AddressOrders = {TRUE, FALSE}
    Fees = {100, 500, 3000, 10000}
    Reserves = {0, 1, 4}
    BlockTimes = {1700000000, 1800000000}
    Q96 = 16
    GasLimitSet = {TRUE, FALSE}
    MaxSwaps = 2
    None = None

SPECIFICATION Spec

\* The load test ends: after its last swap, a panic, or an error return.
CHECK_DEADLOCK FALSE

INVARIANT TypeOK
INVARIANT TickRangeValid
