\* Both ends of the price range are within reach of a marketable limit that goes
\* past the touch and rests: asks at zero, bids at MaxPrice. The mid price can walk
\* down to its floor, and up to where its offers wrap. A marketable order takes up
\* to two lots, and the ring holds two trades. The flow ends after MixedOps
\* operations.
CONSTANTS
    Owners = {anon, alice, bob}
    kAnonymous = anon
    MaxPrice = 5
    NoLimit = NoLimit
    NoCall = NoCall
    Capacity = 2
    MaxSeq = 10
    TargetDepth = 1
    MixedOps = 3
    StartMid = 3
    TailTicks = 1
    MaxLots = 1
    MaxTakes = 2
    MaxThrough = 2
    SweepEvery = 2
    NoOp = NoOp
SPECIFICATION Spec
SYMMETRY Symmetry
INVARIANTS
    TypeOK
    EveryOpAccepted
    PassiveRestsWhole
    PoolCoversBook
    NeverDrops
CHECK_DEADLOCK FALSE
