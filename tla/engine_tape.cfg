CONSTANTS
    Ids = {o1, o2, o3}
    Owners = {anon}
    kAnonymous = anon
    Prices = {1, 2}
    MaxPrice = 3
    NoLimit = NoLimit
    MaxQty = 2
    Capacity = 2
    MaxSeq = 2
    NoCall = NoCall
SYMMETRY IdSymmetry
SPECIFICATION Spec
INVARIANTS
    GapsAreDrops
    ReportNamesItsFills
