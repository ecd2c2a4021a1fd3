--------------------------- MODULE MatchingEngine ---------------------------
(***************************************************************************)
(* The order book as its callers see it: price-time priority matching with *)
(* self-trade prevention, cancel, modify, and a bounded tape of trades     *)
(* (OrderBook in include/lob/order_book.hpp and src/order_book.cpp).       *)
(*                                                                         *)
(* A side of the book is a function from prices to FIFO queues; how the    *)
(* code stores a side (a flat array of levels with a fallback map), a      *)
(* queue (links through a slot pool) and the set of live ids (an open      *)
(* addressing table) is the business of the component modules.             *)
(*                                                                         *)
(* The book is single-threaded, but a call is not one step here: every     *)
(* iteration of the matching loop is a step of its own, so the invariants  *)
(* speak of the states inside a call too.                                  *)
(*                                                                         *)
(* Definitions marked "Slip" are wrong on purpose: each is the definition  *)
(* after it with a plausible coding mistake. No specification uses them;   *)
(* they are put in its place to see that the properties notice.            *)
(***************************************************************************)
EXTENDS Integers, Sequences, SequencesExt, Sums

CONSTANTS
    Ids,            \* the order ids callers use (OrderId, a uint64)
    Owners,         \* the participants
    kAnonymous,     \* the owner that never triggers self-trade prevention
    Prices,         \* the prices callers use, in ticks
    MaxPrice,       \* the largest value of type Price
    NoLimit,        \* std::nullopt as the limit: a market order
    MaxQty,         \* the largest quantity a caller asks for
    Capacity,       \* slots of the trade ring
    MaxSeq,         \* no new order is accepted for processing beyond this seq
    NoCall          \* what `incoming` holds between calls

ASSUME PricesAssumption == /\ MaxPrice \in Nat /\ Prices \subseteq 0..MaxPrice
                           /\ NoLimit \notin Prices
ASSUME OwnersAssumption == kAnonymous \in Owners
ASSUME NoCallAssumption == NoCall \notin
           [id : Ids, owner : Owners, side : {"Buy", "Sell"},
            limit : Prices \cup {NoLimit}, asked : 0..MaxQty, qty : 0..MaxQty]
ASSUME BoundsAssumption == /\ MaxQty \in Nat /\ MaxSeq \in Nat
                           /\ Capacity \in Nat \ {0}

VARIABLES
    policy,         \* Config::self_trade, fixed at construction
    book,           \* book[side][price]: the queue resting there, oldest first
    pc,             \* "idle": between calls; "match": inside OrderBook::match;
                    \* "done": the call is about to return rep
    incoming,       \* the order being submitted, with the quantity asked for
    rep,            \* the ExecReport under construction
    next_seq,       \* the sequence number of the next trade
    ring,           \* the trades waiting in the ring, oldest first
    drop_count      \* trades the full ring refused

vars == <<policy, book, pc, incoming, rep, next_seq, ring, drop_count>>

-----------------------------------------------------------------------------
Sides == {"Buy", "Sell"}
Policies == {"Allow", "CancelResting", "CancelIncoming"}
Limits == Prices \cup {NoLimit}

RestingOrder == [id : Ids, owner : Owners, qty : 1..MaxQty]

Calls == [id : Ids, owner : Owners, side : Sides, limit : Limits,
          asked : 0..MaxQty, qty : 0..MaxQty]

Trade == [seq : Nat, maker_id : Ids, taker_id : Ids, price : Prices,
          qty : 1..MaxQty, taker_side : Sides]

ExecReport == [first_seq : Nat, trade_count : Nat, filled : Nat,
               remaining : Nat, stp_cancelled : Nat, rested : BOOLEAN,
               accepted : BOOLEAN, stp_halted : BOOLEAN]

\* A default-constructed ExecReport.
EmptyReport == [first_seq |-> 0, trade_count |-> 0, filled |-> 0,
                remaining |-> 0, stp_cancelled |-> 0, rested |-> FALSE,
                accepted |-> TRUE, stp_halted |-> FALSE]

Opposite(side) == IF side = "Buy" THEN "Sell" ELSE "Buy"

(***************************************************************************)
(* Reading the book                                                        *)
(***************************************************************************)
\* Price p is a better one than q for the orders resting on `side`.
Better(side, p, q) == IF side = "Buy" THEN p > q ELSE p < q

\* Slip: any occupied level will do.
IsBest_AnyLevel(side, p) == book[side][p] # <<>>

\* best(): p is the best occupied price of the side.
IsBest(side, p) ==
    /\ book[side][p] # <<>>
    /\ \A q \in Prices : book[side][q] # <<>> => ~Better(side, q, p)

\* order_index.contains: some order of the book b has this id.
Live(b, id) == \E s \in Sides, p \in Prices :
                   \E i \in DOMAIN b[s][p] : b[s][p][i].id = id

TotalQty(q) == SumOver([i \in DOMAIN q |-> q[i].qty], DOMAIN q, Len(q))

\* qty_at: the quantity resting at one price.
qty_at(side, p) == TotalQty(book[side][p])

Volume(side) == SumOver([p \in Prices |-> qty_at(side, p)], Prices, MaxPrice)

(***************************************************************************)
(* Entering a call                                                         *)
(***************************************************************************)
Init == /\ policy \in Policies
        /\ book = [s \in Sides |-> [p \in Prices |-> <<>>]]
        /\ pc = "idle"
        /\ incoming = NoCall
        /\ rep = EmptyReport
        /\ next_seq = 1
        /\ ring = <<>>
        /\ drop_count = 0

\* A call that ends before an Order is built: it returns report r, and
\* leaves the book as b.
Answer(b, r) ==
    /\ pc = "idle" /\ next_seq <= MaxSeq
    /\ book' = b
    /\ pc' = "done"
    /\ rep' = r
    /\ UNCHANGED <<policy, incoming, next_seq, ring, drop_count>>

Rejection(qty) == [EmptyReport EXCEPT !.accepted = FALSE, !.remaining = qty]

\* Slip: an id that is still live is accepted again.
Submit_AnyId(b, id, owner, side, limit, qty) ==
    \/ /\ qty = 0
       /\ Answer(b, Rejection(qty))
    \/ /\ qty # 0
       /\ pc = "idle" /\ next_seq <= MaxSeq
       /\ book' = b
       /\ pc' = "match"
       /\ incoming' = [id |-> id, owner |-> owner, side |-> side,
                       limit |-> limit, asked |-> qty, qty |-> qty]
       /\ rep' = EmptyReport
       /\ UNCHANGED <<policy, next_seq, ring, drop_count>>

\* submit() up to the matching loop, on the book b. A zero quantity, or an id
\* that is still live, is rejected.
Submit(b, id, owner, side, limit, qty) ==
    \/ /\ qty = 0 \/ Live(b, id)
       /\ Answer(b, Rejection(qty))
    \/ /\ qty # 0 /\ ~Live(b, id)
       /\ pc = "idle" /\ next_seq <= MaxSeq
       /\ book' = b
       /\ pc' = "match"
       /\ incoming' = [id |-> id, owner |-> owner, side |-> side,
                       limit |-> limit, asked |-> qty, qty |-> qty]
       /\ rep' = EmptyReport
       /\ UNCHANGED <<policy, next_seq, ring, drop_count>>

AddLimit(id, owner, side, price, qty) ==
    Submit(book, id, owner, side, price, qty)

AddMarket(id, owner, side, qty) ==
    Submit(book, id, owner, side, NoLimit, qty)

\* The book without the i-th order of one queue.
Removed(s, p, i) == [book EXCEPT ![s][p] = RemoveAt(@, i)]

\* cancel(): an unknown id changes nothing.
Cancel(id) ==
    /\ pc = "idle"
    /\ \/ /\ ~Live(book, id)
          /\ UNCHANGED book
       \/ \E s \in Sides, p \in Prices : \E i \in DOMAIN book[s][p] :
              /\ book[s][p][i].id = id
              /\ book' = Removed(s, p, i)
    /\ UNCHANGED <<policy, pc, incoming, rep, next_seq, ring, drop_count>>

\* modify(): cancel, then add_limit under the same id, owner and side. An
\* unknown id is rejected; a new quantity of zero stops after the cancel.
Modify(id, price, qty) ==
    \/ /\ ~Live(book, id)
       /\ Answer(book, Rejection(qty))
    \/ \E s \in Sides, p \in Prices : \E i \in DOMAIN book[s][p] :
           /\ book[s][p][i].id = id
           /\ \/ /\ qty = 0
                 /\ Answer(Removed(s, p, i), EmptyReport)
              \/ /\ qty # 0
                 /\ Submit(Removed(s, p, i), id, book[s][p][i].owner, s,
                           price, qty)

(***************************************************************************)
(* The matching loop                                                       *)
(***************************************************************************)
Far == Opposite(incoming.side)

\* Slip: a limit equal to the far price does not cross.
Crosses_Strictly(p) ==
    incoming.limit # NoLimit =>
        IF incoming.side = "Buy" THEN p < incoming.limit
                                 ELSE p > incoming.limit

Crosses(p) ==
    incoming.limit # NoLimit =>
        IF incoming.side = "Buy" THEN p <= incoming.limit
                                 ELSE p >= incoming.limit

\* The level the loop works on: the far side's best, if the taker crosses it.
Reaches(p) == IsBest(Far, p) /\ Crosses(p)

\* Slip: the outer loop does not stop for a halted taker.
Looping_NoBreak == pc = "match" /\ incoming.qty > 0

Looping == pc = "match" /\ incoming.qty > 0 /\ ~rep.stp_halted

\* Slip: anonymous orders are taken for one participant's.
StpPossible_Anonymous == policy # "Allow"

StpPossible == policy # "Allow" /\ incoming.owner # kAnonymous

SelfTrade(maker) == StpPossible /\ incoming.owner = maker.owner

\* Slip: a consumed order stays in the queue with nothing left.
HeadFilled_Zombie(q, traded) == [q EXCEPT ![1].qty = @ - traded]

\* Slip: a partial fill costs the maker its place.
HeadFilled_Requeued(q, traded) ==
    IF q[1].qty = traded THEN Tail(q)
    ELSE Append(Tail(q), [q[1] EXCEPT !.qty = @ - traded])

\* The queue q after its head traded `traded`: a consumed head is detached, a
\* partly filled one keeps its place.
HeadFilled(q, traded) ==
    IF q[1].qty = traded THEN Tail(q)
    ELSE [q EXCEPT ![1].qty = @ - traded]

\* Slip: a trade the full ring refuses is not counted.
Push_LosesQuietly(t) == /\ ring' = IF Len(ring) = Capacity THEN ring
                                   ELSE Append(ring, t)
                        /\ drop_count' = drop_count

\* TradeRing::push.
Push(t) == IF Len(ring) = Capacity
           THEN ring' = ring /\ drop_count' = drop_count + 1
           ELSE ring' = Append(ring, t) /\ drop_count' = drop_count

\* Slip: every fill overwrites first_seq.
FirstSeq_Overwritten == next_seq

\* first_seq is set by the first trade of the call.
FirstSeq == IF rep.trade_count = 0 THEN next_seq ELSE rep.first_seq

\* One fill against the oldest order of the best far level.
Fill(p) ==
    LET maker == Head(book[Far][p])
        traded == IF incoming.qty < maker.qty THEN incoming.qty ELSE maker.qty
    IN
    /\ Looping /\ Reaches(p) /\ ~SelfTrade(maker)
    /\ book' = [book EXCEPT ![Far][p] = HeadFilled(@, traded)]
    /\ incoming' = [incoming EXCEPT !.qty = @ - traded]
    /\ Push([seq |-> next_seq, maker_id |-> maker.id, taker_id |-> incoming.id,
             price |-> p, qty |-> traded, taker_side |-> incoming.side])
    /\ next_seq' = next_seq + 1
    /\ rep' = [rep EXCEPT !.first_seq = FirstSeq,
                          !.trade_count = @ + 1,
                          !.filled = @ + traded]
    /\ UNCHANGED <<policy, pc>>

\* Slip: stp_cancelled counts orders instead of quantity.
CancelMaker_CountsOrders(p) ==
    LET maker == Head(book[Far][p]) IN
    /\ Looping /\ Reaches(p) /\ SelfTrade(maker)
    /\ policy = "CancelResting"
    /\ book' = [book EXCEPT ![Far][p] = Tail(@)]
    /\ rep' = [rep EXCEPT !.stp_cancelled = @ + 1]
    /\ UNCHANGED <<policy, pc, incoming, next_seq, ring, drop_count>>

\* SelfTradePolicy::CancelResting: the taker's own maker leaves the book
\* without a trade, and the walk goes on.
CancelMaker(p) ==
    LET maker == Head(book[Far][p]) IN
    /\ Looping /\ Reaches(p) /\ SelfTrade(maker)
    /\ policy = "CancelResting"
    /\ book' = [book EXCEPT ![Far][p] = Tail(@)]
    /\ rep' = [rep EXCEPT !.stp_cancelled = @ + maker.qty]
    /\ UNCHANGED <<policy, pc, incoming, next_seq, ring, drop_count>>

\* SelfTradePolicy::CancelIncoming: the taker stops in front of its own maker.
Halt(p) ==
    /\ Looping /\ Reaches(p) /\ SelfTrade(Head(book[Far][p]))
    /\ policy = "CancelIncoming"
    /\ rep' = [rep EXCEPT !.stp_halted = TRUE]
    /\ UNCHANGED <<policy, book, pc, incoming, next_seq, ring, drop_count>>

LoopEnds == pc = "match" /\ ~(Looping /\ \E p \in Prices : Reaches(p))

\* Only a limit order rests, and not when self-trade prevention halted it.
LeftoverRests ==
    incoming.limit # NoLimit /\ incoming.qty > 0 /\ ~rep.stp_halted

\* insert(): the leftover joins the back of the queue at its limit.
RestLeftover ==
    /\ LoopEnds /\ LeftoverRests
    /\ book' = [book EXCEPT ![incoming.side][incoming.limit] =
                    Append(@, [id |-> incoming.id, owner |-> incoming.owner,
                               qty |-> incoming.qty])]
    /\ rep' = [rep EXCEPT !.remaining = incoming.qty, !.rested = TRUE]
    /\ pc' = "done"
    /\ UNCHANGED <<policy, incoming, next_seq, ring, drop_count>>

\* Slip: `remaining` is what was asked for.
DropLeftover_Asked ==
    /\ LoopEnds /\ ~LeftoverRests
    /\ rep' = [rep EXCEPT !.remaining = incoming.asked]
    /\ pc' = "done"
    /\ UNCHANGED <<policy, book, incoming, next_seq, ring, drop_count>>

\* Nothing is left, or what is left is dropped.
DropLeftover ==
    /\ LoopEnds /\ ~LeftoverRests
    /\ rep' = [rep EXCEPT !.remaining = incoming.qty]
    /\ pc' = "done"
    /\ UNCHANGED <<policy, book, incoming, next_seq, ring, drop_count>>

\* The call hands its report to the caller.
Return == /\ pc = "done"
          /\ pc' = "idle"
          /\ incoming' = NoCall
          /\ rep' = EmptyReport
          /\ UNCHANGED <<policy, book, next_seq, ring, drop_count>>

\* TradeRing::pop, by the caller, between orders. drain_trades repeats it.
Pop == /\ pc = "idle" /\ ring # <<>>
       /\ ring' = Tail(ring)
       /\ UNCHANGED <<policy, book, pc, incoming, rep, next_seq, drop_count>>

-----------------------------------------------------------------------------
Request ==
    \E id \in Ids :
        \/ \E owner \in Owners, side \in Sides, qty \in 0..MaxQty :
               \/ \E price \in Prices : AddLimit(id, owner, side, price, qty)
               \/ AddMarket(id, owner, side, qty)
        \/ \E price \in Prices, qty \in 0..MaxQty : Modify(id, price, qty)
        \/ Cancel(id)

\* The rest of a call, once it is in the matching loop.
Step == \/ \E p \in Prices : Fill(p) \/ CancelMaker(p) \/ Halt(p)
        \/ RestLeftover
        \/ DropLeftover
        \/ Return

Next == Request \/ Step \/ Pop

\* A call runs on its caller's thread until it returns; no step of it waits.
Spec == Init /\ [][Next]_vars
FairSpec == Spec /\ WF_vars(Step)
-----------------------------------------------------------------------------
(***************************************************************************)
(* What the book promises                                                  *)
(***************************************************************************)

\* Every variable holds a value of its C++ type; a resting order has a
\* positive quantity, and `incoming` is an order exactly while one is matched.
TypeOK ==
    /\ policy \in Policies
    /\ book \in [Sides -> [Prices -> Seq(RestingOrder)]]
    /\ pc \in {"idle", "match", "done"}
    /\ incoming \in Calls \cup {NoCall}
    /\ pc = "match" => incoming \in Calls
    /\ pc = "idle" => incoming = NoCall
    /\ rep \in ExecReport
    /\ next_seq \in Nat \ {0}
    /\ ring \in Seq(Trade)
    /\ drop_count \in Nat

\* The best bid is below the best ask (check_invariants, "the book is never
\* crossed"), after every step of the matching loop and not only between calls.
NotCrossed ==
    \A b, a \in Prices :
        book["Buy"][b] # <<>> /\ book["Sell"][a] # <<>> => b < a

\* An id rests at most once in the whole book, and never while the same id is
\* being matched: modify takes an order out before it puts it back in.
LiveIdsUnique ==
    /\ \A s, t \in Sides, p, q \in Prices :
           \A i \in DOMAIN book[s][p], j \in DOMAIN book[t][q] :
               book[s][p][i].id = book[t][q][j].id => s = t /\ p = q /\ i = j
    /\ pc = "match" => ~Live(book, incoming.id)

Submitted == pc = "done" /\ incoming # NoCall

\* The report accounts for the whole quantity asked for, and tells whether the
\* order is live: `rested` holds exactly when the id rests in the book, at the
\* back of the queue at its limit, with quantity `remaining`.
ReportTellsTheTruth ==
    Submitted =>
        /\ rep.filled + rep.remaining = incoming.asked
        /\ rep.rested <=> Live(book, incoming.id)
        /\ rep.rested =>
               LET q == book[incoming.side][incoming.limit] IN
               /\ q # <<>>
               /\ q[Len(q)] = [id |-> incoming.id, owner |-> incoming.owner,
                               qty |-> rep.remaining]

\* The taker's own order has priority on the far side, within the limit.
FacesItself ==
    /\ incoming.owner # kAnonymous
    /\ \E p \in Prices : /\ Reaches(p)
                         /\ Head(book[Far][p]).owner = incoming.owner

\* A taker that was not halted by self-trade prevention and still has
\* quantity left has exhausted every far price its limit allows; a halted one
\* stands in front of an order of its own owner, at a price it crosses, and
\* its leftover has not joined the book.
LeftoverExplained ==
    Submitted /\ rep.remaining > 0 =>
        IF rep.stp_halted
        THEN policy = "CancelIncoming" /\ FacesItself /\ ~rep.rested
        ELSE \A p \in Prices : book[Far][p] # <<>> => ~Crosses(p)

\* add_market: "remaining > 0 means the book ran out of liquidity".
MarketRemainderMeansDryBook ==
    Submitted /\ incoming.limit = NoLimit /\ rep.remaining > 0 =>
        \A p \in Prices : book[Far][p] = <<>>

\* "Dropped and counted, never lost quietly": the trades in the ring are in
\* sequence order, and the trades missing between its oldest and the newest
\* trade of the book are no more than dropped() reports.
GapsAreDrops ==
    /\ \A i \in DOMAIN ring : ring[i].seq < next_seq
    /\ \A i, j \in DOMAIN ring : i < j => ring[i].seq < ring[j].seq
    /\ ring # <<>> => next_seq - ring[1].seq - Len(ring) <= drop_count

Mine == {i \in DOMAIN ring : /\ rep.first_seq <= ring[i].seq
                             /\ ring[i].seq < rep.first_seq + rep.trade_count}

\* "[first_seq, first_seq + trade_count) identifies" the fills of a call: all
\* of them are in that range and are the taker's, within its limit, at prices
\* that never improve; without drops their quantities add up to `filled`.
ReportNamesItsFills ==
    incoming # NoCall =>
        /\ rep.trade_count > 0 => next_seq = rep.first_seq + rep.trade_count
        /\ \A i \in Mine : /\ ring[i].taker_id = incoming.id
                           /\ ring[i].taker_side = incoming.side
                           /\ Crosses(ring[i].price)
        /\ \A i, j \in Mine :
               i < j => ~Better(Far, ring[j].price, ring[i].price)
        /\ drop_count = 0 =>
               rep.filled = SumOver([i \in DOMAIN ring |-> ring[i].qty], Mine,
                                    Len(ring))

\* Ahead of b, in the queue q.
Ahead(q, a, b) == \E i, j \in DOMAIN q : i < j /\ q[i].id = a /\ q[j].id = b

NoOneOvertakes ==
    \A s \in Sides, p \in Prices, a, b \in Ids :
        Ahead(book'[s][p], a, b) =>
            \/ Ahead(book[s][p], a, b)
            \/ \A i \in DOMAIN book[s][p] : book[s][p][i].id # b

\* Time priority: no step puts an order ahead of one that already rests in the
\* queue; a partial fill keeps its place, and whoever joins joins at the back.
QueueOrderKept == [][NoOneOvertakes]_vars

\* The orders a step takes quantity from.
Touched(s, p, i) == \A j \in DOMAIN book'[s][p] : book'[s][p][j] # book[s][p][i]

TakesInPriority ==
    pc = "match" =>
        \A p, q \in Prices :
            \A i \in DOMAIN book[Far][p], j \in DOMAIN book[Far][q] :
                Touched(Far, p, i) =>
                    /\ ~Better(Far, q, p)
                    /\ p = q => i <= j
                    /\ next_seq' # next_seq => ~SelfTrade(book[Far][p][i])

\* Whoever loses quantity to a taker, by a fill or by self-trade prevention, is
\* the order with priority over the whole far side; it is filled only if the
\* taker is somebody else, unless the policy is to print wash trades.
MakerHadPriority == [][TakesInPriority]_vars

TakesWhatItReports ==
    pc = "match" =>
        /\ Volume(Far) - Volume(Far)' =
               rep'.filled - rep.filled + rep'.stp_cancelled - rep.stp_cancelled
        /\ Volume(incoming.side)' - Volume(incoming.side) =
               IF rep'.rested THEN rep'.remaining ELSE 0

\* What a taker takes from the far side is what the report says: volume lost
\* there is either filled or cancelled by self-trade prevention, and the only
\* volume the near side gains is the leftover that rests.
VolumeAccounted == [][TakesWhatItReports]_vars

\* Every call that enters the matching loop returns.
CallsReturn == pc = "match" ~> pc = "idle"
=============================================================================
