SPECIFICATION FairSpec
CONSTANTS
    ThreadCount = 1
    Capacity = 4
    Unlimited = 100
    ChunkCount = 6
    NullChunks = {}
    V1 = FALSE
    WithChecksum = FALSE
    Verifier = FALSE
    Sentinel = Sentinel
    NoChunk = NoChunk
CHECK_DEADLOCK FALSE
PROPERTY CancelReturns
