SPECIFICATION FairSpec
CONSTANTS
    ThreadCount = 1
    Capacity = 4
    Unlimited = 100
    ChunkCount = 5
    NullChunks = {2}
    V1 = TRUE
    WithChecksum = FALSE
    Verifier = FALSE
    Sentinel = Sentinel
    NoChunk = NoChunk
CHECK_DEADLOCK FALSE
PROPERTY WaitReturns
