SPECIFICATION Spec
CONSTANTS
    ThreadCount = 2
    Capacity = 4
    Unlimited = 100
    ChunkCount = 5
    NullChunks = {2}
    V1 = TRUE
    WithChecksum = FALSE
    Verifier = TRUE
    Sentinel = Sentinel
    NoChunk = NoChunk
CHECK_DEADLOCK FALSE
INVARIANTS AllWritten WaitIsClean
