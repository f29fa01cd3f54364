CONSTANTS
    Conn = {c1}
    Block <- MCBlock
    Root = "b0"
    ZeroHash = ZeroHash
    Number <- MCNumber
    Parent <- MCParent
    TD = {1}
    GenesisTD = 0
    NetworkID = 1
    PeerNetworkID = {1}
    WriteBlocks = TRUE
    AnswerEmpty = FALSE
    MaxRequests = 2
    MaxBatch = 2
    PeersCap = 1
    SlowConsumer = FALSE
    None = None

SPECIFICATION Spec

INVARIANT BackfillAboveFloor
