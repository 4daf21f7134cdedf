SPECIFICATION Spec
CONSTANTS
    MinPieceSize = 4
    BlockSize = 2
    PieceSize = 4
    ChunkSize = 8
    Layouts <- MCBoundaryLayouts
    MaxDamaged = 1
    DiskStates = {"ok"}
    Protocols = {{"v2"}}
    Builds = {FALSE}
    Workers = {w1, w2}
SYMMETRY WorkerSymmetry
CHECK_DEADLOCK FALSE
INVARIANT PieceIndexInRange
