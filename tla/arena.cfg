\* A slab holds four granules of blocks, and leaves tails of up to two
\* behind.
CONSTANTS
    kGranule = 2
    kMaxBlock = 6
    kSlabBytes = 10
    Requests = {0, 3, 6}
    Reserves = {0, 3, 10}
    MaxSlabs = 3
    MaxLive = 3
SPECIFICATION Spec
INVARIANTS
    TypeOK
    BlocksDisjoint
    LittleIsAbandoned
    NothingLeaks
