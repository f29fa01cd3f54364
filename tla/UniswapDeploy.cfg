CONSTANTS
    Deployer = Deployer
    Owner = Owner
    GasLimitSet = {TRUE, FALSE}
    MaxRuns = 2
    None = None

SPECIFICATION Spec

\* deployUniswapV3 returns and the load test ends: the last run stops.
CHECK_DEADLOCK FALSE

INVARIANT TypeOK
INVARIANT DoneMeansDeployed
INVARIANT DoneMeansWired
PROPERTY ForcedRunsReturn
