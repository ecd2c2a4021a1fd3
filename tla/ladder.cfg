CONSTANTS
    IsBid = TRUE
    WindowLevels = 3
    MaxPrice = 4
    Levels <- SomeLevels
    EmptyLevel = "empty"
    Absent = Absent
    NoPrice = NoPrice
    MaxOpens = 3
SPECIFICATION Spec
INVARIANTS
    TypeOK
    LadderConsistent
    VisitsBestFirst
PROPERTIES
    ImplementsSide
