\* Homes: 3 0 3 2 1 0 in a table of four, 3 5 6 7 7 6 in one of eight.
CONSTANTS
    Ids = {3, 5, 6, 7, 14, 15}
    Values = {v1, v2}
    Absent = absent
    Hash <- TabulatedHome
    InitialCapacity = 4
    MaxCapacity = 8
SPECIFICATION Spec
INVARIANTS TypeOK EveryEntryReachable
PROPERTY ImplementsMap
