SPECIFICATION Spec
CONSTANTS
    ThreadCount = 1
    Capacity = 4
    Unlimited = 100
    ChunkCount = 5
    NullChunks = {}
    V1 = FALSE
    WithChecksum = TRUE
    Verifier = FALSE
    Sentinel = Sentinel
    NoChunk = NoChunk
CHECK_DEADLOCK FALSE
INVARIANTS AllWritten WrittenOnce BuffersConserved
