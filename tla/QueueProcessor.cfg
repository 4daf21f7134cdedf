SPECIFICATION FairSpec
CONSTANTS
    ThreadCount = 1
    Capacity = 100
    ItemCount = 6
    nullopt = nullopt
    NoItem = NoItem
INVARIANTS
    TypeOK
    StopIsClean
    AllHandled
    InOrder
    DoneMeansDone
PROPERTY StopCompletes
CHECK_DEADLOCK FALSE
