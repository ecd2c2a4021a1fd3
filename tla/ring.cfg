\* A ring of four slots under cursors that wrap.
CONSTANTS
    Requested = 3
    Word = 16
    Trades = {t1, t2}
    NoTrade = none
    MaxDrops = 2
SYMMETRY TradeSymmetry
SPECIFICATION Spec
INVARIANT TypeOK
PROPERTY ImplementsTape
CHECK_DEADLOCK TRUE
