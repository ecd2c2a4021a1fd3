---------------------------- MODULE PriceLadder -----------------------------
(***************************************************************************)
(* One side of the book (PriceLadder in include/lob/order_book.hpp): a     *)
(* flat array of levels over a fixed window of prices, with the best level *)
(* tracked as an index, and a fallback map for the prices outside it.      *)
(*                                                                         *)
(* The operators are functions of a ladder L, so that OrderBook can apply  *)
(* them to either side; the state machine at the end drives one ladder the *)
(* way OrderBook::insert, remove and match do. What a level holds does not *)
(* matter here beyond whether it is empty.                                 *)
(*                                                                         *)
(* Definitions marked "Slip" are wrong on purpose: each is the definition  *)
(* after it with a plausible coding mistake, and no specification uses it. *)
(***************************************************************************)
EXTENDS Integers, FiniteSets, SequencesExt

CONSTANTS
    IsBid,          \* the template argument: higher prices are better
    WindowLevels,   \* Config::price_levels, the size of the array
    MaxPrice,       \* the largest value of type Price
    Levels,         \* what a level can hold
    EmptyLevel,     \* a level with no orders: head == kNoSlot
    Absent,         \* the fallback map has no such key
    NoPrice,        \* std::nullopt
    MaxOpens        \* bound on insertions outside the window

ASSUME LadderAssumption ==
    /\ IsBid \in BOOLEAN
    /\ MaxPrice \in Nat /\ WindowLevels \in 0..(MaxPrice + 1)
    /\ NoPrice \notin 0..MaxPrice
    /\ EmptyLevel \in Levels /\ Absent \notin Levels
    /\ MaxOpens \in Nat

Prices == 0..MaxPrice
Indices == 0..(WindowLevels - 1)

Ladders == [window : [Indices -> Levels],
            overflow : [Prices -> Levels \cup {Absent}],
            lo : 0..MaxPrice,
            limit : 0..WindowLevels,
            occupied : Nat,
            best_idx : Nat,
            outside_opens : Nat,
            is_placed : BOOLEAN]

-----------------------------------------------------------------------------
Better(p, q) == IF IsBid THEN p > q ELSE p < q

\* A constructed ladder: every slot of the array an absent level.
NewLadder == [window |-> [i \in Indices |-> EmptyLevel],
              overflow |-> [p \in Prices |-> Absent],
              lo |-> 0, limit |-> 0, occupied |-> 0, best_idx |-> 0,
              outside_opens |-> 0, is_placed |-> FALSE]

\* Slip: a price close to zero takes the base below it.
CentredBase_NoFloor(price) ==
    LET half == WindowLevels \div 2
        highest == MaxPrice - (WindowLevels - 1)
    IN  IF WindowLevels = 0 THEN price
        ELSE IF price - half < highest THEN price - half ELSE highest

\* A window centred on `price`, shifted to stay inside the price range.
CentredBase(price) ==
    LET half == WindowLevels \div 2
        highest == MaxPrice - (WindowLevels - 1)
        base == IF price >= half THEN price - half ELSE 0
    IN  IF WindowLevels = 0 THEN price
        ELSE IF base < highest THEN base ELSE highest

\* Slip: the window may reach past the largest price.
Place_Unclipped(L, base) ==
    [L EXCEPT !.lo = base, !.limit = WindowLevels, !.is_placed = TRUE]

\* place(): fix the window at base, clipped at the top of the price range.
Place(L, base) ==
    [L EXCEPT !.lo = base,
              !.limit = IF WindowLevels = 0 \/ WindowLevels - 1 <= MaxPrice - base
                        THEN WindowLevels ELSE MaxPrice - base + 1,
              !.is_placed = TRUE]

InWindow(L, p) == p >= L.lo /\ p - L.lo < L.limit

\* Slip: the best index is only set when the window was empty.
NoteOpened_FirstOnly(L, i) ==
    [L EXCEPT !.occupied = @ + 1,
              !.best_idx = IF L.occupied = 0 THEN i ELSE @]

NoteOpened(L, i) ==
    [L EXCEPT !.occupied = @ + 1,
              !.best_idx = IF L.occupied = 0 \/ Better(i, @) THEN i ELSE @]

\* open(): the level at p exists from here on. Every order that rests outside
\* the window counts, whether or not its level was there before.
Open(L, p) ==
    IF InWindow(L, p)
    THEN IF L.window[p - L.lo] = EmptyLevel THEN NoteOpened(L, p - L.lo) ELSE L
    ELSE [L EXCEPT !.outside_opens = @ + 1,
                   !.overflow[p] = IF @ = Absent THEN EmptyLevel ELSE @]

\* find(): what rests at p, EmptyLevel for nullptr.
LevelAt(L, p) ==
    IF InWindow(L, p) THEN L.window[p - L.lo]
    ELSE IF L.overflow[p] = Absent THEN EmptyLevel ELSE L.overflow[p]

\* A write through the reference that open(), find() or best() returned.
SetLevel(L, p, level) ==
    IF InWindow(L, p) THEN [L EXCEPT !.window[p - L.lo] = level]
                      ELSE [L EXCEPT !.overflow[p] = level]

\* next_occupied(): the nearest occupied index worse than i.
NextOccupied(w, i) ==
    LET worse == {j \in Indices : Better(i, j) /\ w[j] # EmptyLevel}
    IN  CHOOSE j \in worse : \A k \in worse : ~Better(k, j)

\* closed(): the level at p has become empty.
Closed(L, p) ==
    LET i == p - L.lo IN
    IF InWindow(L, p)
    THEN [L EXCEPT !.occupied = @ - 1,
                   !.best_idx = IF L.occupied - 1 > 0 /\ i = @
                                THEN NextOccupied(L.window, i) ELSE @]
    ELSE [L EXCEPT !.overflow[p] = Absent]

Outside(L) == {p \in Prices : L.overflow[p] # Absent}

\* The first key of the fallback map, NoPrice if it is empty.
OverflowBegin(L) ==
    IF Outside(L) = {} THEN NoPrice
    ELSE CHOOSE p \in Outside(L) : \A q \in Outside(L) : ~Better(q, p)

\* Slip: the fallback map is only asked when the window is empty.
BestPrice_WindowFirst(L) ==
    IF L.occupied > 0 THEN L.lo + L.best_idx ELSE OverflowBegin(L)

\* best(), best_price(): the window's best level, unless one outside beats it.
BestPrice(L) ==
    LET inside == L.lo + L.best_idx
        outside == OverflowBegin(L)
    IN  IF L.occupied = 0 THEN outside
        ELSE IF outside # NoPrice /\ Better(outside, inside) THEN outside
        ELSE inside

\* Outside the window, on the side that beats every price in it.
BeyondBestEdge(L, p) ==
    IF IsBid THEN p >= L.lo /\ p - L.lo >= L.limit ELSE p < L.lo

\* Prices in the order std::map keeps its keys, or an array is walked: as many
\* of them come before a price as are better.
BestFirst(S) ==
    [k \in 1..Cardinality(S) |->
        CHOOSE p \in S : Cardinality({q \in S : Better(q, p)}) = k - 1]

\* Slip: the whole fallback map is visited before the window.
VisitOrder_MapFirst(L) ==
    LET inside == {L.lo + i : i \in {j \in Indices : L.window[j] # EmptyLevel}}
    IN  BestFirst(Outside(L)) \o BestFirst(inside)

\* for_each_level(): the prices in the order they are visited. The map is
\* walked up to the first key that does not beat the window, then the array
\* from the best index outward, then the rest of the map.
VisitOrder(L) ==
    LET map == BestFirst(Outside(L))
        stops == {k \in DOMAIN map : ~BeyondBestEdge(L, map[k])}
        split == IF stops = {} THEN Len(map)
                 ELSE (CHOOSE k \in stops : \A j \in stops : k <= j) - 1
        walked == {i \in Indices : /\ IsBid \/ i < L.limit
                                   /\ ~Better(i, L.best_idx)
                                   /\ L.window[i] # EmptyLevel}
        inside == IF L.occupied = 0 THEN {} ELSE {L.lo + i : i \in walked}
    IN  SubSeq(map, 1, split) \o BestFirst(inside)
            \o SubSeq(map, split + 1, Len(map))

-----------------------------------------------------------------------------
(***************************************************************************)
(* One ladder, as OrderBook drives it                                      *)
(***************************************************************************)
VARIABLE ladder

vars == <<ladder>>

\* The OrderBook constructor: Config::price_base places the window at once.
Init == \/ ladder = NewLadder
        \/ \E base \in Prices : ladder = Place(NewLadder, base)

\* place_windows(), when the first order of the book rests on the other side.
PlaceWindow(price) ==
    /\ ~ladder.is_placed
    /\ ladder' = Place(ladder, CentredBase(price))

\* OrderBook::insert: the first order to rest places the window around itself;
\* the level is opened, and an order appended to it.
InsertOrder(p, level) ==
    LET L == IF ladder.is_placed THEN ladder
             ELSE Place(ladder, CentredBase(p))
    IN
    /\ InWindow(L, p) \/ ladder.outside_opens < MaxOpens
    /\ level # EmptyLevel
    /\ ladder' = SetLevel(Open(L, p), p, level)

\* The level at p loses an order or quantity; the ladder is told if that
\* leaves it empty.
Shrink(p, level) ==
    LET L == SetLevel(ladder, p, level) IN
    ladder' = IF level = EmptyLevel THEN Closed(L, p) ELSE L

\* OrderBook::remove: the order's level is there to be found.
RemoveOrder(p, level) == LevelAt(ladder, p) # EmptyLevel /\ Shrink(p, level)

\* OrderBook::match works on the level best() returns.
TakeBest(level) == /\ BestPrice(ladder) # NoPrice
                   /\ Shrink(BestPrice(ladder), level)

Next == \/ \E p \in Prices : PlaceWindow(p)
        \/ \E p \in Prices, level \in Levels :
               InsertOrder(p, level) \/ RemoveOrder(p, level)
        \/ \E level \in Levels : TakeBest(level)

Spec == Init /\ [][Next]_vars

-----------------------------------------------------------------------------
\* The ladder is a ladder: array, map, window and counters have their types.
TypeOK == ladder \in Ladders

\* The occupied slots of the array.
Filled(L) == {i \in Indices : L.window[i] # EmptyLevel}

\* The window ends at the largest price at the latest, and only its levels are
\* occupied; there are `occupied` of them, and best_idx is the best one.
WindowConsistent(L) ==
    /\ L.limit > 0 => L.lo + L.limit - 1 <= MaxPrice
    /\ \A i \in Filled(L) : i < L.limit /\ ~Better(i, L.best_idx)
    /\ L.occupied = Cardinality(Filled(L))
    /\ L.occupied > 0 => L.best_idx \in Filled(L)

\* The map holds no empty level and no price of the window.
MapConsistent(L) ==
    \A p \in Outside(L) : ~InWindow(L, p) /\ L.overflow[p] # EmptyLevel

\* PriceLadder::check: what the debug build asserts after every call. With it,
\* next_occupied() never runs off the array although it checks no bound.
LadderConsistent ==
    /\ WindowConsistent(ladder)
    /\ MapConsistent(ladder)
    /\ ~ladder.is_placed => Filled(ladder) = {} /\ Outside(ladder) = {}

\* for_each_level visits every occupied price once, best first: a snapshot of
\* the book does not show where the window begins and ends.
VisitsBestFirst ==
    LET visited == VisitOrder(ladder) IN
    /\ ToSet(visited) = {p \in Prices : LevelAt(ladder, p) # EmptyLevel}
    /\ \A i, j \in DOMAIN visited : i < j => Better(visited[i], visited[j])

Side == INSTANCE BookSide WITH
            levels <- [p \in Prices |-> LevelAt(ladder, p)],
            top <- BestPrice(ladder)

\* Array, map, window placement and best index implement a plain map of levels
\* whose best price is always right.
ImplementsSide == Side!Spec
=============================================================================
