---------------------------- MODULE MCOrderBook -----------------------------
(***************************************************************************)
(* The book for TLC, with the hash of the id index tabulated.              *)
(***************************************************************************)
EXTENDS OrderBook, IdHash

Homes == [id \in Ids, cap \in {2, 4, 8, 16} |-> Home(id, cap)]
TabulatedHome(id, cap) == Homes[id, cap]

\* Two orders of one owner, on either side, and a sell order of nobody's:
\* partial, exact and double fills, and self-trades.
SomeOrders ==
    [id : {3}, owner : {"alice"}, side : {"Buy", "Sell"}, qty : {1}]
    \cup [id : {6}, owner : {"alice"}, side : {"Buy", "Sell"}, qty : {2}]
    \cup [id : {15}, owner : {"anon"}, side : {"Sell"}, qty : {2}]
=============================================================================
