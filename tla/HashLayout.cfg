SPECIFICATION Spec
CONSTANTS
    MinPieceSize = 4
    BlockSize = 2
    PieceSize = 4
    ChunkSize = 8
    Layouts <- MCLayouts
    MaxDamaged = 1
    DiskStates = {"ok", "missing", "corrupt", "short"}
    Protocols = {{"v1"}, {"v2"}, {"v1", "v2"}}
    Builds = {TRUE, FALSE}
    Workers = {w1, w2}
SYMMETRY WorkerSymmetry
CHECK_DEADLOCK FALSE
INVARIANTS NoContractFailure PiecesCorrect RootsCorrect VerifierExact ChecksumsExact ProgressComplete
PROPERTY RootSetOnce
