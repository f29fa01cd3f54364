CONSTANTS
    Conn = {c1}
    Block <- MCChain
    Root = "b0"
    ZeroHash = ZeroHash
    Number <- MCChainNumber
    Parent <- MCChainParent
    TD = {1}
    GenesisTD = 0
    NetworkID = 1
    PeerNetworkID = {1}
    WriteBlocks = TRUE
    AnswerEmpty = TRUE
    MaxRequests = 2
    MaxBatch = 1
    PeersCap = 1
    SlowConsumer = FALSE
    None = None

SPECIFICATION Spec

PROPERTY PendingResolved
