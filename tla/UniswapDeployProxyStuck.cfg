CONSTANTS
    Deployer = Deployer
    Owner = Owner
    GasLimitSet = {FALSE}
    MaxRuns = 1
    None = None

SPECIFICATION Spec

\* deployUniswapV3 returns and the load test ends: the last run stops.
CHECK_DEADLOCK FALSE

PROPERTY RunsReturn
