CONSTANTS
    Ids = {o1, o2, o3}
    Owners = {anon, alice}
    kAnonymous = anon
    Prices = {1, 2}
    MaxPrice = 3
    NoLimit = NoLimit
    MaxQty = 2
    Capacity = 1
    MaxSeq = 1
    NoCall = NoCall
SPECIFICATION FairSpec
INVARIANTS
    TypeOK
    NotCrossed
    LiveIdsUnique
    ReportTellsTheTruth
    LeftoverExplained
PROPERTIES
    QueueOrderKept
    MakerHadPriority
    VolumeAccounted
    CallsReturn
