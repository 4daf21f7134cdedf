SPECIFICATION Spec
CONSTANTS
    MinPieceSize = 4
    Mistyped = Mistyped
    Parts0 = {"trackers", "list", "announce", "storage", "fields", "magnet"}
    TrackerUrls = {1, 2, 3}
    MaxAnnounces = 4
    MaxTiers = 3
    MaxInTier = 2
    Paths = {9, 12, 21}
    FileKinds <- MCFileKinds
    PieceSizes = {4}
    MaxFiles = 2
    MagnetTexts <- MCMagnetTexts
    MaxStorageEdits = 5
    MaxEdits = 3
INVARIANTS
    TrackersWellFormed
    TrackersRead
    StorageConsistent
    WrittenIsRead
    InfoHashKept
    FieldsRoundTrip
    MagnetRoundTrip
PROPERTY
    TierOrderKept
CHECK_DEADLOCK FALSE
