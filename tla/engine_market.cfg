CONSTANTS
    Ids = {o1, o2}
    Owners = {anon, alice}
    kAnonymous = anon
    Prices = {1}
    MaxPrice = 3
    NoLimit = NoLimit
    MaxQty = 1
    Capacity = 1
    MaxSeq = 1
    NoCall = NoCall
SPECIFICATION Spec
INVARIANTS
    MarketRemainderMeansDryBook
