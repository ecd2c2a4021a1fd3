----------------------------- MODULE OrderBook ------------------------------
(***************************************************************************)
(* The order book as it is stored (OrderBook in order_book.hpp and         *)
(* src/order_book.cpp): a price ladder per side, every resting order in a  *)
(* slot of one pool, linked into the queue of its level, an index from ids *)
(* to slots, and a ring of trades. The same calls and the same steps as    *)
(* MatchingEngine, on the containers of the component modules; what is the *)
(* same code in both, such as the test whether a price crosses, is taken   *)
(* from there.                                                             *)
(*                                                                         *)
(* Definitions marked "Slip" are wrong on purpose: each is the definition  *)
(* after it with a plausible coding mistake, and no specification uses it. *)
(***************************************************************************)
EXTENDS Integers, Sequences, SequencesExt, FiniteSetsExt

CONSTANTS
    \* The callers, as in MatchingEngine. Ticks are its Prices.
    Ids, Owners, kAnonymous, Ticks, MaxPrice, NoLimit, MaxQty, MaxSeq, NoCall,
    Orders,             \* the orders callers ask for, but for their limits
    \* The configurations of the book.
    SelfTradePolicies,  \* values of Config::self_trade
    ExpectedOrders,     \* Config::expected_orders
    kDefaultPoolSlots,  \* ...when that is zero
    WindowLevels,       \* Config::price_levels
    PriceBases,         \* values of Config::price_base, NoPrice if it is unset
    Requested,          \* Config::trade_capacity
    \* The sizes of the machine's types, and of the index.
    Word, kNoSlot,
    SlotLimit,          \* 2^31: one more than the largest slot the index names
    kMinTable,          \* the smallest table of the id index
    Hash(_, _),
    \* Values for what is not there.
    Absent, NoPrice, NoTrade, Garbage,
    \* Bounds, beside MaxSeq.
    MaxOpens,           \* orders resting outside the window, ever
    MaxCapacity,        \* growth of the id index
    MaxDrops            \* trades dropped

ASSUME BookAssumption ==
    /\ Orders \subseteq [id : Ids, owner : Owners, side : {"Buy", "Sell"},
                       qty : 0..MaxQty]
    /\ ExpectedOrders \in Nat /\ kDefaultPoolSlots \in Nat \ {0}
    /\ SelfTradePolicies \subseteq {"Allow", "CancelResting", "CancelIncoming"}
    /\ PriceBases \subseteq 0..MaxPrice \cup {NoPrice}
    /\ SlotLimit \in 1..kNoSlot /\ kMinTable \in Nat \ {0}

VARIABLES
    policy, pc, incoming, rep, next_seq,    \* as in MatchingEngine
    pool,
    bids, asks,                             \* the two ladders
    table, count, grow_count,               \* order_index
    buffer, head, tail, drop_count          \* trade_out

storage == <<pool, bids, asks, table, count, grow_count>>
ring == <<buffer, head, tail, drop_count>>
call == <<pc, incoming, rep, next_seq>>
vars == <<policy, storage, ring, call>>

-----------------------------------------------------------------------------
Sides == {"Buy", "Sell"}

Provision == IF ExpectedOrders > 0 THEN ExpectedOrders ELSE kDefaultPoolSlots

\* Slip: room for the expected ids, but not at half full.
TableSize_Full == CHOOSE cap \in {kMinTable * 2 ^ k : k \in 0..Provision} :
    /\ cap >= Provision
    /\ cap = kMinTable \/ cap \div 2 < Provision

\* The IdIndex constructor: the table doubles until half of it is enough.
TableSize == CHOOSE cap \in {kMinTable * 2 ^ k : k \in 0..Provision} :
    /\ cap \div 2 >= Provision
    /\ cap = kMinTable \/ cap \div 4 < Provision

INSTANCE QueueLinks WITH InitialSlots <- Provision

LevelType == [total_qty : Nat, head : 0..kNoSlot, tail : 0..kNoSlot]
Bids == INSTANCE PriceLadder WITH IsBid <- TRUE, ladder <- bids,
                                  Levels <- LevelType
Asks == INSTANCE PriceLadder WITH IsBid <- FALSE, ladder <- asks,
                                  Levels <- LevelType
Index == INSTANCE IdIndex WITH InitialCapacity <- TableSize, taken <- Absent,
                               Values <- 0..(2 * SlotLimit - 1)
Ring == INSTANCE TradeRing WITH out <- NoTrade, Trades <- {}

(***************************************************************************)
(* Either side of the book                                                 *)
(***************************************************************************)
LevelAt(side, p) == IF side = "Buy" THEN Bids!LevelAt(bids, p)
                                    ELSE Asks!LevelAt(asks, p)

\* best_bid() and best_ask()
BestPrice(side) == IF side = "Buy" THEN Bids!BestPrice(bids)
                                   ELSE Asks!BestPrice(asks)

VisitOrder(side) == IF side = "Buy" THEN Bids!VisitOrder(bids)
                                    ELSE Asks!VisitOrder(asks)

\* The level at p loses an order or quantity, and is closed once it is empty.
Shrink(side, p, level) ==
    IF side = "Buy" THEN Bids!Shrink(p, level) /\ UNCHANGED asks
                    ELSE Asks!Shrink(p, level) /\ UNCHANGED bids

\* The level at p gains an order; the first order to rest anywhere places the
\* windows of both sides (place_windows).
JoinLevel(side, p, level) ==
    IF side = "Buy"
    THEN /\ Bids!InsertOrder(p, level)
         /\ IF bids.is_placed THEN UNCHANGED asks ELSE Asks!PlaceWindow(p)
    ELSE /\ Asks!InsertOrder(p, level)
         /\ IF asks.is_placed THEN UNCHANGED bids ELSE Bids!PlaceWindow(p)

\* The slots of a list in the pool, from slot i on by the forward links. A list
\* that closed on itself would be cut off at the size of the block.
Chain(i) ==
    LET next[j \in 0..kNoSlot] ==
            IF j = kNoSlot THEN kNoSlot ELSE pool.slots[j].next
        at[k \in 1..(pool.size + 1)] == IF k = 1 THEN i ELSE next[at[k - 1]]
        length == Cardinality({k \in 1..pool.size : at[k] # kNoSlot})
    IN  [k \in 1..length |-> at[k]]

Queue(side, p) == Chain(LevelAt(side, p).head)

\* What the index holds for an order: its slot and side in one 32-bit word.
index_value(slot, side) ==
    ((2 * slot) % (2 * SlotLimit)) + (IF side = "Sell" THEN 1 ELSE 0)
slot_of(value) == value \div 2
side_of(value) == IF value % 2 = 1 THEN "Sell" ELSE "Buy"

Entry(id) == Index!Find(table, id)

(***************************************************************************)
(* The book as MatchingEngine sees it                                      *)
(***************************************************************************)
\* The resting order in a slot, without what the engine knows from its place.
Resting(slot) == [id |-> pool.slots[slot].value.id,
                  owner |-> pool.slots[slot].value.owner,
                  qty |-> pool.slots[slot].value.qty]

Contents ==
    [s \in Sides |-> [p \in Ticks |->
        LET q == Queue(s, p) IN [k \in DOMAIN q |-> Resting(q[k])]]]

UnreadTrades == [k \in 1..Ring!Unread |-> buffer[Ring!Slot(tail + k - 1)]]

Engine == INSTANCE MatchingEngine WITH
              Prices <- Ticks, book <- Contents, ring <- UnreadTrades,
              Capacity <- Ring!Size

-----------------------------------------------------------------------------
\* The constructor.
Init ==
    /\ policy \in SelfTradePolicies
    /\ pc = "idle" /\ incoming = NoCall
    /\ rep = Engine!EmptyReport /\ next_seq = 1
    /\ pool = NewPool
    /\ \E base \in PriceBases :
           /\ bids = IF base = NoPrice THEN Bids!NewLadder
                     ELSE Bids!Place(Bids!NewLadder, base)
           /\ asks = IF base = NoPrice THEN Asks!NewLadder
                     ELSE Asks!Place(Asks!NewLadder, base)
    /\ table = Index!EmptyTable(TableSize) /\ count = 0 /\ grow_count = 0
    /\ buffer = [i \in 0..(Ring!Size - 1) |-> NoTrade]
    /\ head = 0 /\ tail = 0 /\ drop_count = 0

\* A caller may start a call, as far as the bounds go: an order with this limit
\* could rest.
Idle(limit) ==
    /\ pc = "idle" /\ next_seq <= MaxSeq
    /\ limit # NoLimit /\ bids.is_placed /\ ~Bids!InWindow(bids, limit) =>
           bids.outside_opens + asks.outside_opens < MaxOpens

\* A call that ends before an Order is built.
Answer(r) == /\ pc' = "done" /\ rep' = r
             /\ UNCHANGED <<policy, incoming, next_seq, ring>>

\* submit() up to the matching loop, on the storage as the call found it, or
\* as modify() left it.
Submit(id, owner, side, limit, qty) ==
    \/ /\ qty = 0 \/ Index!Find(table', id) # Absent
       /\ Answer(Engine!Rejection(qty))
    \/ /\ qty # 0 /\ Index!Find(table', id) = Absent
       /\ pc' = "match"
       /\ incoming' = [id |-> id, owner |-> owner, side |-> side,
                       limit |-> limit, asked |-> qty, qty |-> qty]
       /\ rep' = Engine!EmptyReport
       /\ UNCHANGED <<policy, next_seq, ring>>

AddLimit(id, owner, side, price, qty) ==
    Idle(price) /\ UNCHANGED storage /\ Submit(id, owner, side, price, qty)

AddMarket(id, owner, side, qty) ==
    Idle(NoLimit) /\ UNCHANGED storage /\ Submit(id, owner, side, NoLimit, qty)

\* detach() of a slot from the level at p, once pool and level are P and level;
\* the level is closed when that empties it.
Detach(side, p, P, level, slot) ==
    /\ pool' = Release(DetachLinks(P, slot), slot)
    /\ Shrink(side, p, DetachLevel(level, P.slots[slot]))

\* cancel() of a live id: take() from the index, then remove(), which finds the
\* level by the price in the slot.
Removal(id) ==
    LET slot == slot_of(Entry(id))
        side == side_of(Entry(id))
        p == pool.slots[slot].value.price
    IN  /\ Detach(side, p, pool, LevelAt(side, p), slot)
        /\ Index!Erase(id)

Cancel(id) ==
    /\ pc = "idle"
    /\ \/ Entry(id) = Absent /\ UNCHANGED storage
       \/ Entry(id) # Absent /\ Removal(id)
    /\ UNCHANGED <<policy, call, ring>>

\* Slip: the owner is read from the slot after the cancel.
Modify_ReadsLate(id, price, qty) ==
    /\ Idle(price)
    /\ \/ Entry(id) = Absent /\ UNCHANGED storage /\ Answer(Engine!Rejection(qty))
       \/ /\ Entry(id) # Absent
          /\ Removal(id)
          /\ \/ qty = 0 /\ Answer(Engine!EmptyReport)
             \/ /\ qty # 0
                /\ Submit(id, IF pool'.slots[slot_of(Entry(id))].value = Garbage
                              THEN kAnonymous ELSE Resting(slot_of(Entry(id))).owner,
                          side_of(Entry(id)), price, qty)

\* modify(): side and owner are read before the cancel.
Modify(id, price, qty) ==
    /\ Idle(price)
    /\ \/ Entry(id) = Absent /\ UNCHANGED storage /\ Answer(Engine!Rejection(qty))
       \/ /\ Entry(id) # Absent
          /\ Removal(id)
          /\ \/ qty = 0 /\ Answer(Engine!EmptyReport)
             \/ /\ qty # 0
                /\ Submit(id, Resting(slot_of(Entry(id))).owner,
                          side_of(Entry(id)), price, qty)

(***************************************************************************)
(* The matching loop                                                       *)
(***************************************************************************)
Far == Engine!Far

\* The order at the head of the best far level, and where it is.
Best == LevelAt(Far, BestPrice(Far))
Maker == pool.slots[Best.head].value

\* The loop has another turn: there is a best far level, and it crosses.
Turn == /\ Engine!Looping
        /\ BestPrice(Far) # NoPrice
        /\ Engine!Crosses(BestPrice(Far))

Fill ==
    LET p == BestPrice(Far)
        slot == Best.head
        traded == IF incoming.qty < Maker.qty THEN incoming.qty ELSE Maker.qty
        P == [pool EXCEPT !.slots[slot].value.qty = @ - traded]
        level == [Best EXCEPT !.total_qty = @ - traded]
    IN
    /\ Turn /\ ~Engine!SelfTrade(Maker)
    /\ incoming' = [incoming EXCEPT !.qty = @ - traded]
    /\ rep' = [rep EXCEPT !.first_seq = Engine!FirstSeq,
                          !.trade_count = @ + 1,
                          !.filled = @ + traded]
    /\ next_seq' = next_seq + 1
    /\ Ring!Record([seq |-> next_seq, maker_id |-> Maker.id,
                    taker_id |-> incoming.id, price |-> p, qty |-> traded,
                    taker_side |-> incoming.side])
    /\ IF Maker.qty = traded
       THEN Index!Erase(Maker.id) /\ Detach(Far, p, P, level, slot)
       ELSE /\ pool' = P /\ Shrink(Far, p, level)
            /\ UNCHANGED <<table, count, grow_count>>
    /\ UNCHANGED <<policy, pc>>

\* Slip: the maker leaves its queue and stays in the index.
CancelMaker_StaysIndexed ==
    /\ Turn /\ Engine!SelfTrade(Maker) /\ policy = "CancelResting"
    /\ rep' = [rep EXCEPT !.stp_cancelled = @ + Maker.qty]
    /\ Detach(Far, BestPrice(Far), pool, Best, Best.head)
    /\ UNCHANGED <<policy, pc, incoming, next_seq, ring, table, count, grow_count>>

CancelMaker ==
    /\ Turn /\ Engine!SelfTrade(Maker) /\ policy = "CancelResting"
    /\ rep' = [rep EXCEPT !.stp_cancelled = @ + Maker.qty]
    /\ Index!Erase(Maker.id)
    /\ Detach(Far, BestPrice(Far), pool, Best, Best.head)
    /\ UNCHANGED <<policy, pc, incoming, next_seq, ring>>

Halt == /\ Turn /\ Engine!SelfTrade(Maker) /\ policy = "CancelIncoming"
        /\ rep' = [rep EXCEPT !.stp_halted = TRUE]
        /\ UNCHANGED <<policy, pc, incoming, next_seq, ring, storage>>

LoopEnds == pc = "match" /\ ~Turn

\* The order of the call, in a slot that was just acquired.
Occupied(slot) ==
    [Acquire(pool) EXCEPT !.slots[slot].value =
        [id |-> incoming.id, owner |-> incoming.owner,
         price |-> incoming.limit, qty |-> incoming.qty]]

\* insert(): open the level, acquire a slot, join the queue, enter the index.
RestLeftover ==
    LET slot == NextSlot(pool)
        p == incoming.limit
        level == LevelAt(incoming.side, p)
    IN
    /\ LoopEnds /\ Engine!LeftoverRests
    /\ ~Exhausted(pool) /\ slot < SlotLimit
    /\ JoinLevel(incoming.side, p, AppendLevel(level, slot, incoming.qty))
    /\ pool' = AppendLinks(Occupied(slot), level, slot)
    /\ Index!Enter(incoming.id, index_value(slot, incoming.side))
    /\ rep' = [rep EXCEPT !.remaining = incoming.qty, !.rested = TRUE]
    /\ pc' = "done"
    /\ UNCHANGED <<policy, incoming, next_seq, ring>>

DropLeftover ==
    /\ LoopEnds /\ ~Engine!LeftoverRests
    /\ rep' = [rep EXCEPT !.remaining = incoming.qty]
    /\ pc' = "done"
    /\ UNCHANGED <<policy, incoming, next_seq, ring, storage>>

\* The call hands its report to the caller.
Return == /\ pc = "done"
          /\ pc' = "idle" /\ incoming' = NoCall /\ rep' = Engine!EmptyReport
          /\ UNCHANGED <<policy, next_seq, ring, storage>>

\* The caller reads a trade, between orders.
Pop == pc = "idle" /\ Ring!Consume /\ UNCHANGED <<policy, call, storage>>

-----------------------------------------------------------------------------
Step == \/ Fill \/ CancelMaker \/ Halt
        \/ RestLeftover \/ DropLeftover \/ Return

\* The quantities callers change the order to.
Wanted(id) == {0} \cup {o.qty : o \in {x \in Orders : x.id = id}}

Next ==
    \/ \E o \in Orders :
           \/ \E price \in Ticks : AddLimit(o.id, o.owner, o.side, price, o.qty)
           \/ AddMarket(o.id, o.owner, o.side, o.qty)
    \/ \E id \in Ids :
           \/ \E price \in Ticks, qty \in Wanted(id) : Modify(id, price, qty)
           \/ Cancel(id)
    \/ Step
    \/ Pop

Spec == Init /\ [][Next]_vars

(***************************************************************************)
(* The same book when insert() can throw. No handler undoes what it has    *)
(* done by then: the level is open, and the report is lost.                *)
(***************************************************************************)
\* The ladders once the level at p is open and nothing has joined it.
OpenLevel(side, p) ==
    LET placed(L) == IF L.is_placed THEN L ELSE Bids!Place(L, Bids!CentredBase(p))
    IN  IF side = "Buy"
        THEN bids' = Bids!Open(placed(bids), p) /\ asks' = placed(asks)
        ELSE asks' = Asks!Open(placed(asks), p) /\ bids' = placed(bids)

\* acquire() throws: the index space is exhausted, or the block cannot grow.
AcquireThrows ==
    /\ pool.free_head = kNoSlot /\ pool.used = pool.size
    /\ OpenLevel(incoming.side, incoming.limit)
    /\ UNCHANGED <<pool, table, count, grow_count>>

\* "over 2^31 resting orders": the slot has been acquired by then.
LimitThrows ==
    /\ ~Exhausted(pool) /\ NextSlot(pool) >= SlotLimit
    /\ OpenLevel(incoming.side, incoming.limit)
    /\ pool' = Acquire(pool)
    /\ UNCHANGED <<table, count, grow_count>>

\* The index cannot grow: its old table is swapped out by then.
IndexThrows ==
    LET slot == NextSlot(pool)
        level == LevelAt(incoming.side, incoming.limit)
    IN
    /\ ~Exhausted(pool) /\ slot < SlotLimit /\ Index!MustGrow(table, count)
    /\ JoinLevel(incoming.side, incoming.limit,
                 AppendLevel(level, slot, incoming.qty))
    /\ pool' = AppendLinks(Occupied(slot), level, slot)
    /\ table' = Index!EmptyTable(0)
    /\ UNCHANGED <<count, grow_count>>

InsertThrows ==
    /\ LoopEnds /\ Engine!LeftoverRests
    /\ AcquireThrows \/ LimitThrows \/ IndexThrows
    /\ pc' = "idle" /\ incoming' = NoCall /\ rep' = Engine!EmptyReport
    /\ UNCHANGED <<policy, next_seq, ring>>

ThrowSpec == Init /\ [][Next \/ InsertThrows]_vars

-----------------------------------------------------------------------------
(***************************************************************************)
(* check_invariants(): what the debug build asserts after every call       *)
(***************************************************************************)
\* The queue at p, an occupied price: its links agree in both directions and
\* with the ends of the level, its orders are filed under their price, the
\* index names their slots and their side, and the total is their sum.
QueueConsistent(side, p) ==
    LET level == LevelAt(side, p)
        q == Queue(side, p)
        order(k) == pool.slots[q[k]].value
    IN  /\ q # <<>> /\ level.tail = q[Len(q)]
        /\ \A k \in DOMAIN q :
               /\ pool.slots[q[k]].prev = IF k = 1 THEN kNoSlot ELSE q[k - 1]
               /\ order(k).price = p /\ order(k).qty > 0
               /\ Entry(order(k).id) # Absent
               /\ slot_of(Entry(order(k).id)) = q[k]
               /\ side_of(Entry(order(k).id)) = side
        /\ level.total_qty = MapThenSumSet(LAMBDA k : order(k).qty, DOMAIN q)

\* order_count_at(), over a whole side.
Counted(side) ==
    MapThenSumSet(LAMBDA p : Len(Queue(side, p)), ToSet(VisitOrder(side)))

\* SlotPool::consistent
PoolConsistent ==
    LET free == Chain(pool.free_head)
    IN  /\ \A k \in DOMAIN free : free[k] < pool.used
        /\ Len(free) + pool.live = pool.used

\* Ladders, queues, pool and index tell one story, in every state inside and
\* between calls: every order in the pool is reached by its level and by its
\* id, at its price and on its side, and nothing else is.
CheckInvariants ==
    /\ DOMAIN table # {}
    /\ Bids!LadderConsistent /\ Asks!LadderConsistent
    /\ \A s \in Sides : \A p \in ToSet(VisitOrder(s)) : QueueConsistent(s, p)
    /\ count = Counted("Buy") + Counted("Sell")
    /\ pool.live = count
    /\ PoolConsistent
    /\ Index!EveryEntryReachable
    /\ BestPrice("Buy") # NoPrice /\ BestPrice("Sell") # NoPrice =>
           BestPrice("Buy") < BestPrice("Sell")
=============================================================================
