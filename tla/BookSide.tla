------------------------------ MODULE BookSide ------------------------------
(***************************************************************************)
(* What OrderBook asks of one side of the book: a level per price, and the *)
(* best occupied price at any time. PriceLadder implements it.             *)
(***************************************************************************)
EXTENDS Naturals

CONSTANTS
    IsBid,          \* the side holds bids: higher prices are better
    Prices,
    Levels,         \* what can rest at a price...
    EmptyLevel,     \* ...when nothing does
    NoPrice         \* the best price of an empty side (std::nullopt)

VARIABLES
    levels,         \* levels[p]: what rests at price p
    top             \* what best_price() answers

Better(p, q) == IF IsBid THEN p > q ELSE p < q

\* The best occupied price of the side l.
IsTop(l, p) ==
    \/ /\ p = NoPrice
       /\ \A q \in Prices : l[q] = EmptyLevel
    \/ /\ p \in Prices /\ l[p] # EmptyLevel
       /\ \A q \in Prices : l[q] # EmptyLevel => ~Better(q, p)

Init == /\ levels = [p \in Prices |-> EmptyLevel]
        /\ top = NoPrice

\* The level at price p becomes level, and the best price follows.
Write(p, level) == /\ levels' = [levels EXCEPT ![p] = level]
                   /\ top' \in Prices \cup {NoPrice}
                   /\ IsTop(levels', top')

\* An order joins the level at p.
Insert(p, level) == level # EmptyLevel /\ Write(p, level)

\* An order leaves the level at p, or is partly filled.
Remove(p, level) == levels[p] # EmptyLevel /\ Write(p, level)

Next == \E p \in Prices, level \in Levels : Insert(p, level) \/ Remove(p, level)

Spec == Init /\ [][Next]_<<levels, top>>
=============================================================================
