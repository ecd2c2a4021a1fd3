CONSTANTS
    Ids = {3, 6, 15}
    Owners = {"anon", "alice"}
    kAnonymous = "anon"
    Ticks = {1, 2}
    MaxPrice = 2
    NoLimit = NoLimit
    MaxQty = 2
    Orders <- SomeOrders
    MaxSeq = 1
    NoCall = NoCall
    SelfTradePolicies = {"CancelResting", "CancelIncoming"}
    ExpectedOrders = 2
    kDefaultPoolSlots = 1
    WindowLevels = 1
    PriceBases = {NoPrice}
    Requested = 1
    Word = 8
    kNoSlot = 15
    SlotLimit = 8
    kMinTable = 2
    Hash <- TabulatedHome
    Absent = absent
    NoPrice = NoPrice
    NoTrade = none
    Garbage = garbage
    MaxOpens = 1
    MaxCapacity = 16
    MaxDrops = 8
SPECIFICATION DiffSpec
INVARIANTS
    CheckInvariants
    AgreesWithReference
    NoGrowthWithinPlan
PROPERTIES
    ImplementsEngine
