CONSTANTS
    Conn = {c1, c2}
    Block <- MCBlock
    Root = "b0"
    ZeroHash = ZeroHash
    Number <- MCNumber
    Parent <- MCParent
    TD = {1, 2}
    GenesisTD = 0
    NetworkID = 1
    PeerNetworkID = {1, 2}
    WriteBlocks = FALSE
    AnswerEmpty = FALSE
    MaxRequests = 0
    MaxBatch = 1
    PeersCap = 1
    SlowConsumer = TRUE
    None = None

SPECIFICATION Spec

INVARIANT StatusSnapshotCurrent
INVARIANT PublishedOnce
PROPERTY WriterProgress
