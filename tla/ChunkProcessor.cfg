SPECIFICATION FairSpec
CONSTANTS
    ThreadCount = 2
    Capacity = 4
    ChunkCount = 5
    Sentinel = Sentinel
    NoChunk = NoChunk
INVARIANTS
    TypeOK
    NoContractFailure
    AtMostOnce
    AllHashed
    DoneMeansDone
    WaitUnblocked
CHECK_DEADLOCK FALSE
PROPERTY StopCompletes
