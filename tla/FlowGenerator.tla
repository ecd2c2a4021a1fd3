--------------------------- MODULE FlowGenerator ----------------------------
(***************************************************************************)
(* The synthetic flow of the benchmark (bench/flow.cpp): a generator that  *)
(* drives a book of its own, MatchingEngine, to know what is live. It      *)
(* issues one operation at a time, drains the trades, and goes on.         *)
(*                                                                         *)
(* Random draws are choices; only what they can yield matters. Statistics  *)
(* and hashes of the flow are left out. Quantities are in lots.            *)
(*                                                                         *)
(* Definitions marked "Slip" are wrong on purpose: each is the definition  *)
(* after it with a plausible coding mistake, and no specification uses it. *)
(***************************************************************************)
EXTENDS Integers

CONSTANTS
    Owners, kAnonymous,
    MaxPrice,       \* the largest value of type Price
    NoLimit, NoCall, Capacity, MaxSeq,
    TargetDepth,    \* passive orders that build the book
    MixedOps,       \* operations after that, warm-up included
    StartMid, TailTicks,
    MaxLots,        \* the largest random_qty()
    MaxTakes,       \* the most draws a marketable quantity adds up
    MaxThrough,     \* ticks a marketable limit goes past the touch
    SweepEvery,     \* mixed operations between two sweeps
    NoOp

VARIABLES
    policy, book, pc, incoming, rep, next_seq, ring, drop_count,    \* the book
    live,           \* LivePool: ids to cancel or modify, some of them stale
    mid,
    next_id,
    steps,          \* mixed operations so far
    pending         \* the operation the book is working on

bookVars == <<policy, book, pc, incoming, rep, next_seq, ring, drop_count>>
flowVars == <<live, mid, next_id, steps, pending>>

Ids == 1..(TargetDepth + MixedOps)
Prices == 0..MaxPrice
MaxQty == MaxLots * MaxTakes

\* What the flow remembers of an operation while the book works on it; cancels
\* are over in one step. `room` is history: RoomBehind when it was issued.
Ops == [kind : {"Add", "Modify", "Marketable"}, id : Ids, building : BOOLEAN,
        room : BOOLEAN]

\* The constructor refuses a mid price that is not above the deepest tail. The
\* generator's ring is "larger than any single marketable order's fill count".
ASSUME FlowAssumption ==
    /\ {MaxPrice, MaxSeq, Capacity, TargetDepth, MixedOps, StartMid, TailTicks,
        MaxLots, MaxTakes, MaxThrough, SweepEvery} \subseteq Nat
    /\ StartMid > TailTicks + 1 /\ SweepEvery > 0
    /\ MaxTakes > 0 /\ 0 < Capacity /\ MaxQty <= Capacity
    /\ kAnonymous \in Owners

\* The values that mark an absence are no values of what is absent.
ASSUME MarkerAssumption ==
    /\ NoLimit \notin Prices
    /\ NoOp \notin Ops
    /\ NoCall \notin
           [id : Ids, owner : Owners, side : {"Buy", "Sell"},
            limit : Prices \cup {NoLimit}, asked : 0..MaxQty, qty : 0..MaxQty]

Engine == INSTANCE MatchingEngine

Init == /\ Engine!Init
        /\ live = {}
        /\ mid = StartMid
        /\ next_id = 1
        /\ steps = 0
        /\ pending = NoOp

-----------------------------------------------------------------------------
\* Arithmetic on prices is unsigned.
Wrap(price) == price % (MaxPrice + 1)

\* best_bid(), best_ask(): the best price of the side, if there is one.
Touch(side) == {p \in Prices : Engine!IsBest(side, p)}

\* There is a price behind the far touch: no ask at zero for a buy, no bid at the
\* largest price for a sell.
RoomBehind(side) ==
    (IF side = "Buy" THEN 0 ELSE MaxPrice) \notin Touch(Engine!Opposite(side))

\* Slip: an order at the far touch is taken for a passive one.
PassivePrices_AtTouch(side, m) ==
    LET far == Touch(Engine!Opposite(side)) IN
    IF side = "Buy"
    THEN {IF \E ask \in far : p > ask THEN Wrap((CHOOSE ask \in far : TRUE) - 1)
          ELSE p : p \in {Wrap(m - off) : off \in 0..TailTicks}}
    ELSE {IF \E bid \in far : p < bid THEN Wrap((CHOOSE bid \in far : TRUE) + 1)
          ELSE p : p \in {Wrap(m + 1 + off) : off \in 0..TailTicks}}

\* What passive_price() may return when the mid price is m: a price so many
\* ticks behind it, pulled back from the far touch.
PassivePrices(side, m) ==
    LET far == Touch(Engine!Opposite(side)) IN
    IF side = "Buy"
    THEN {IF \E ask \in far : p >= ask THEN Wrap((CHOOSE ask \in far : TRUE) - 1)
          ELSE p : p \in {Wrap(m - off) : off \in 0..TailTicks}}
    ELSE {IF \E bid \in far : p <= bid THEN Wrap((CHOOSE bid \in far : TRUE) + 1)
          ELSE p : p \in {Wrap(m + 1 + off) : off \in 0..TailTicks}}

\* Slip: the mid price may go down to where the tail meets zero.
WalkMid_NoFloor == {mid, mid + 1, mid - 1}

\* The mid prices a step may go on with: walk_mid() keeps above the tail.
WalkMid == {mid, mid + 1} \cup {m \in {mid - 1} : mid > TailTicks + 1}

Resting(b) == {id \in Ids : Engine!Live(b, id)}

Building == next_id <= TargetDepth

\* Slip: the id is not used up.
Add_SameId(side, m, pool) ==
    /\ \E price \in PassivePrices(side, m), qty \in 1..MaxLots,
          owner \in Owners \ {kAnonymous} :
           Engine!AddLimit(next_id, owner, side, price, qty)
    /\ pending' = [kind |-> "Add", id |-> next_id, building |-> Building,
                   room |-> RoomBehind(side)]
    /\ mid' = m /\ live' = pool
    /\ UNCHANGED <<next_id, steps>>

\* add(), with the mid price m and the ids `pool` left to draw from.
Add(side, m, pool) ==
    /\ \E price \in PassivePrices(side, m), qty \in 1..MaxLots,
          owner \in Owners \ {kAnonymous} :
           Engine!AddLimit(next_id, owner, side, price, qty)
    /\ next_id' = next_id + 1
    /\ pending' = [kind |-> "Add", id |-> next_id, building |-> Building,
                   room |-> RoomBehind(side)]
    /\ mid' = m /\ live' = pool
    /\ UNCHANGED steps

\* LivePool::take returns id: what it may leave of the pool, for stale ids drawn
\* before id are thrown away with it.
PoolsWithout(id) ==
    {live \ (stale \cup {id}) : stale \in SUBSET (live \ Resting(book))}

\* The end of step(): every so often the stale ids are swept out. The pool
\* holds `pool`, the book is b.
StepEnds(pool, b) ==
    /\ steps' = steps + 1
    /\ live' = IF steps' % SweepEvery = 0 THEN pool \cap Resting(b) ELSE pool

\* cancel()
Cancel(id, m) ==
    /\ Engine!Cancel(id)
    /\ \E pool \in PoolsWithout(id) : StepEnds(pool, book')
    /\ mid' = m
    /\ UNCHANGED <<next_id, pending>>

\* modify()
Modify(id, m) ==
    /\ live' \in PoolsWithout(id)
    /\ \E side \in Engine!Sides :
           /\ \E p \in Prices : \E i \in DOMAIN book[side][p] :
                  book[side][p][i].id = id
           /\ \E price \in PassivePrices(side, m), qty \in 1..MaxLots :
                  Engine!Modify(id, price, qty)
           /\ pending' = [kind |-> "Modify", id |-> id, building |-> FALSE,
                          room |-> RoomBehind(side)]
    /\ mid' = m
    /\ UNCHANGED <<next_id, steps>>

\* marketable(): a market order, or a limit past the far touch.
Marketable(side, m) ==
    /\ \E qty \in 1..MaxQty, owner \in Owners \ {kAnonymous} :
           \/ Engine!AddMarket(next_id, owner, side, qty)
           \/ \E t \in Touch(Engine!Opposite(side)), through \in 0..MaxThrough :
                  Engine!AddLimit(next_id, owner, side,
                      Wrap(IF side = "Buy" THEN t + through ELSE t - through), qty)
    /\ next_id' = next_id + 1
    /\ pending' = [kind |-> "Marketable", id |-> next_id, building |-> FALSE,
                   room |-> RoomBehind(side)]
    /\ mid' = m
    /\ UNCHANGED <<live, steps>>

\* run(): passive adds until the book is built, then the mixed flow. A cancel or
\* a modify that finds nothing live adds instead.
Issue ==
    /\ pc = "idle"
    /\ \/ Building /\ \E side \in Engine!Sides : Add(side, mid, live)
       \/ /\ ~Building /\ steps < MixedOps
          /\ \E m \in WalkMid :
                 \/ \E side \in Engine!Sides :
                        \/ Add(side, m, live)
                        \/ live \cap Resting(book) = {} /\ Add(side, m, {})
                        \/ Marketable(side, m)
                 \/ \E id \in live \cap Resting(book) :
                        Cancel(id, m) \/ Modify(id, m)

\* The book works on the operation.
BookSteps == /\ \/ \E p \in Prices : \/ Engine!Fill(p)
                                     \/ Engine!CancelMaker(p)
                                     \/ Engine!Halt(p)
                \/ Engine!RestLeftover
                \/ Engine!DropLeftover
             /\ UNCHANGED flowVars

\* Slip: a re-priced order is not put back.
Kept_NotModified == IF pending.kind # "Modify" /\ Engine!Live(book, pending.id)
                    THEN {pending.id} ELSE {}

\* The id goes (back) to the pool; that of a marketable order if it rests.
Kept == IF pending.kind # "Marketable" \/ Engine!Live(book, pending.id)
        THEN {pending.id} ELSE {}

\* Slip: the trades are left in the ring.
Drained_Not == ring

\* emit() pops every trade.
Drained == <<>>

\* emit() returns, and with it the operation.
Complete ==
    /\ pc = "done"
    /\ pc' = "idle" /\ incoming' = NoCall /\ rep' = Engine!EmptyReport
    /\ ring' = Drained
    /\ IF pending.building THEN live' = live \cup Kept /\ UNCHANGED steps
                           ELSE StepEnds(live \cup Kept, book)
    /\ pending' = NoOp
    /\ UNCHANGED <<policy, book, next_seq, drop_count, mid, next_id>>

Next == Issue \/ BookSteps \/ Complete

Spec == Init /\ [][Next]_<<bookVars, flowVars>>

-----------------------------------------------------------------------------
\* The mid price stays above the deepest tail, so that a bid behind it does not
\* wrap around zero; ids, pool and the pending operation have
\* their types.
TypeOK == /\ mid \in (TailTicks + 1)..(StartMid + MixedOps)
          /\ next_id \in Ids \cup {TargetDepth + MixedOps + 1}
          /\ live \subseteq Ids
          /\ steps \in 0..MixedOps
          /\ pending \in Ops \cup {NoOp}
          /\ pending = NoOp <=> pc = "idle"

\* The book accepts every operation: no id is used twice, and what is modified
\* still rests, although the pool holds ids of orders long since filled.
EveryOpAccepted == pc = "done" => rep.accepted

\* "Passive adds are priced so they never cross" wherever there is a price behind
\* the far touch: an added or re-priced order then rests whole, neither trades
\* nor meets self-trade prevention, wherever mid price, tail and touch were and
\* whether or not the draw wrapped. Without room passive_price() wraps around to
\* the other end of the range, and the order may trade.
PassiveRestsWhole ==
    pc = "done" /\ pending.kind \in {"Add", "Modify"} /\ pending.room =>
        rep.rested /\ rep.trade_count = 0 /\ rep.stp_cancelled = 0

\* Between operations every resting order is in the pool: none is left that the
\* flow could never cancel again.
PoolCoversBook == pending = NoOp => Resting(book) \subseteq live

\* "Larger than any single marketable order's fill count, so draining after
\* every op never drops."
NeverDrops == drop_count = 0
=============================================================================
