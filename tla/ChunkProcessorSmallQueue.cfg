SPECIFICATION Spec
CONSTANTS
    ThreadCount = 5
    Capacity = 4
    ChunkCount = 0
    Sentinel = Sentinel
    NoChunk = NoChunk
INVARIANTS
    WaitUnblocked
CHECK_DEADLOCK FALSE
