------------------------ MODULE FlowGenerator_proofs ------------------------
(***************************************************************************)
(* Proofs that the benchmark's flow is what its comments say it is, for    *)
(* flows of any length and depth, any number of participants, any          *)
(* quantities and any price range.                                         *)
(*                                                                         *)
(* The generator drives a book, and what the flow owes to the book it gets *)
(* from the proofs about the book: P is MatchingEngine_proofs with the     *)
(* generator's constants and variables. The operators of the book in the   *)
(* generator's module and those in P are the same ones under two names.    *)
(***************************************************************************)
EXTENDS FlowGenerator, Foundations, TLAPS

P == INSTANCE MatchingEngine_proofs

-----------------------------------------------------------------------------
(***************************************************************************)
(* The inductive invariant                                                 *)
(***************************************************************************)

\* Operations of the mixed flow that are issued and not yet counted in `steps`.
Due == IF pending = NoOp \/ pending.building THEN 0 ELSE 1

\* An operation moves the mid price by a tick at most, and uses up one id at
\* most.
Counts ==
    /\ mid \in Nat /\ next_id \in Nat /\ steps \in Nat
    /\ TailTicks < mid /\ mid <= StartMid + steps + Due
    /\ 1 <= next_id /\ next_id <= TargetDepth + 1 + steps + Due
    /\ steps + Due <= MixedOps

\* The ids of the book, of the pool and of the pending operation have all been
\* given out: the next one is new to the book.
IdsGivenOut ==
    /\ \A id \in Ids : P!Live(book, id) => id < next_id
    /\ live \subseteq Ids /\ \A id \in live : id < next_id
    /\ pending # NoOp => pending \in Ops /\ pending.id < next_id

\* The pending operation is the one the book works on, and the book took it.
BookIsAtIt ==
    /\ pending = NoOp <=> pc = "idle"
    /\ pc = "match" => incoming.id = pending.id
    /\ pc # "idle" => rep.accepted

\* Every fill takes a lot at least, so the ring has room for the rest of them.
RingHasRoom ==
    /\ drop_count = 0
    /\ pc = "idle" => ring = <<>>
    /\ pc = "match" => Len(ring) + incoming.qty <= MaxQty

\* An order that rests outside the pool is the one being worked on.
PoolKnows ==
    \A id \in Ids : P!Live(book, id) =>
        id \in live \/ (pending # NoOp /\ id = pending.id)

FlowInv == /\ P!IInv
           /\ Counts
           /\ IdsGivenOut
           /\ BookIsAtIt
           /\ RingHasRoom
           /\ PoolKnows

\* The operation is an add or a modify that had a price to go to.
PassiveWithRoom == pending.kind \in {"Add", "Modify"} /\ pending.room

\* While such an order is matched it crosses no far price, and nothing has
\* happened to it yet.
PassiveInFlight ==
    pc = "match" /\ PassiveWithRoom =>
        /\ incoming.limit # NoLimit /\ incoming.qty > 0
        /\ rep.trade_count = 0 /\ rep.stp_cancelled = 0 /\ ~rep.stp_halted
        /\ \A p \in Prices : book[P!Far][p] # <<>> => ~P!Crosses(p)

-----------------------------------------------------------------------------
(***************************************************************************)
(* The book under its two names                                            *)
(***************************************************************************)

LEMMA Numbers ==
    /\ MaxPrice \in Nat /\ MaxSeq \in Nat /\ Capacity \in Nat
    /\ TargetDepth \in Nat /\ MixedOps \in Nat /\ StartMid \in Nat
    /\ TailTicks \in Nat /\ MaxLots \in Nat /\ MaxTakes \in Nat
    /\ MaxThrough \in Nat /\ SweepEvery \in Nat \ {0}
    /\ MaxQty \in Nat /\ MaxLots <= MaxQty /\ MaxQty <= Capacity
    /\ StartMid > TailTicks + 1
<1>1. MaxLots \in Nat /\ MaxTakes \in Nat /\ MaxTakes > 0
  BY FlowAssumption
<1>2. MaxLots * MaxTakes \in Nat /\ MaxLots <= MaxLots * MaxTakes
  BY <1>1
<1>. QED  BY <1>2, FlowAssumption DEF MaxQty

LEMMA BookAssumptions ==
    /\ P!PricesAssumption /\ P!OwnersAssumption
    /\ P!NoCallAssumption /\ P!BoundsAssumption
BY Numbers, FlowAssumption, MarkerAssumption
   DEF P!PricesAssumption, P!OwnersAssumption, P!NoCallAssumption,
       P!BoundsAssumption, Prices

LEMMA SameReading ==
    /\ Engine!Sides = P!Sides
    /\ \A side : Engine!Opposite(side) = P!Opposite(side)
    /\ \A side, p : Engine!IsBest(side, p) <=> P!IsBest(side, p)
    /\ \A b, id : Engine!Live(b, id) <=> P!Live(b, id)
    /\ Engine!EmptyReport = P!EmptyReport
BY DEF Engine!Sides, P!Sides, Engine!Opposite, P!Opposite, Engine!IsBest,
       P!IsBest, Engine!Better, P!Better, Engine!Live, P!Live,
       Engine!EmptyReport, P!EmptyReport

LEMMA SameInit == Engine!Init <=> P!Init
BY DEF Engine!Init, P!Init, Engine!Policies, P!Policies, Engine!Sides,
       P!Sides, Engine!EmptyReport, P!EmptyReport

LEMMA SameSubmit ==
    \A b, id, owner, side, limit, qty :
        Engine!Submit(b, id, owner, side, limit, qty) <=>
            P!Submit(b, id, owner, side, limit, qty)
BY DEF Engine!Submit, P!Submit, Engine!Answer, P!Answer, Engine!Rejection,
       P!Rejection, Engine!EmptyReport, P!EmptyReport, Engine!Live, P!Live,
       Engine!Sides, P!Sides

LEMMA SameCancel == \A id : Engine!Cancel(id) <=> P!Cancel(id)
BY DEF Engine!Cancel, P!Cancel, Engine!Live, P!Live, Engine!Sides, P!Sides,
       Engine!Removed, P!Removed, Engine!RemoveAt, P!RemoveAt

LEMMA SameModify ==
    \A id, price, qty : Engine!Modify(id, price, qty) <=> P!Modify(id, price, qty)
BY DEF Engine!Modify, P!Modify, Engine!Submit, P!Submit, Engine!Answer,
       P!Answer, Engine!Rejection, P!Rejection, Engine!EmptyReport,
       P!EmptyReport, Engine!Live, P!Live, Engine!Sides, P!Sides,
       Engine!Removed, P!Removed, Engine!RemoveAt, P!RemoveAt

LEMMA SameReach ==
    /\ Engine!Far = P!Far
    /\ Engine!Looping <=> P!Looping
    /\ \A p : Engine!Reaches(p) <=> P!Reaches(p)
    /\ \A maker : Engine!SelfTrade(maker) <=> P!SelfTrade(maker)
BY DEF Engine!Far, P!Far, Engine!Opposite, P!Opposite, Engine!Looping,
       P!Looping, Engine!Reaches, P!Reaches, Engine!IsBest, P!IsBest,
       Engine!Better, P!Better, Engine!Crosses, P!Crosses,
       Engine!SelfTrade, P!SelfTrade, Engine!StpPossible, P!StpPossible

LEMMA SameSteps ==
    /\ \A p : Engine!Fill(p) <=> P!Fill(p)
    /\ \A p : Engine!CancelMaker(p) <=> P!CancelMaker(p)
    /\ \A p : Engine!Halt(p) <=> P!Halt(p)
<1>1. \A p : Engine!Fill(p) <=> P!Fill(p)
  BY SameReach
     DEF Engine!Fill, P!Fill, Engine!HeadFilled, P!HeadFilled, Engine!Push,
         P!Push, Engine!FirstSeq, P!FirstSeq
<1>2. \A p : Engine!CancelMaker(p) <=> P!CancelMaker(p)
  BY SameReach DEF Engine!CancelMaker, P!CancelMaker
<1>3. \A p : Engine!Halt(p) <=> P!Halt(p)
  BY SameReach DEF Engine!Halt, P!Halt
<1>. QED  BY <1>1, <1>2, <1>3

LEMMA SameEnds ==
    /\ Engine!RestLeftover <=> P!RestLeftover
    /\ Engine!DropLeftover <=> P!DropLeftover
BY SameReach
   DEF Engine!RestLeftover, P!RestLeftover, Engine!DropLeftover,
       P!DropLeftover, Engine!LoopEnds, P!LoopEnds, Engine!LeftoverRests,
       P!LeftoverRests
-----------------------------------------------------------------------------
(***************************************************************************)
(* The steps                                                               *)
(***************************************************************************)

LEMMA RestingIs == \A b : Resting(b) = {id \in Ids : P!Live(b, id)}
BY SameReading DEF Resting

LEMMA InitFlow == Init => FlowInv
<1>. SUFFICES ASSUME Init  PROVE FlowInv
  OBVIOUS
<1>1. P!Init
  BY SameInit DEF Init
<1>2. P!IInv
  BY <1>1, BookAssumptions, P!InitInv
<1>3. \A id : ~P!Live(book, id)
  BY <1>1 DEF P!Init, P!Live
<1>4. Counts
  BY Numbers DEF Init, Counts, Due
<1>5. IdsGivenOut /\ PoolKnows
  BY <1>3 DEF Init, IdsGivenOut, PoolKnows
<1>6. BookIsAtIt /\ RingHasRoom
  BY <1>1 DEF Init, P!Init, BookIsAtIt, RingHasRoom
<1>. QED  BY <1>2, <1>4, <1>5, <1>6 DEF FlowInv

\* An operation enters the matching loop. Its id is free in the book b it is
\* matched against, and b holds nothing that is not in the pool.
LEMMA EnterKeeps ==
    ASSUME FlowInv, NEW b, P!GoodBook(b),
           \A j \in Ids : P!Live(b, j) => P!Live(book, j),
           NEW id \in Ids, ~P!Live(b, id), NEW owner \in Owners,
           NEW side \in P!Sides, NEW limit \in P!Limits, NEW qty \in 1..MaxQty,
           P!Submit(b, id, owner, side, limit, qty),
           pending' \in Ops, pending'.id = id,
           next_id' \in Nat, next_id <= next_id', id < next_id',
           live' \subseteq live,
           \A j \in Ids : P!Live(b, j) => j \in live',
           Counts'
    PROVE  FlowInv'
<1>1. qty \in 0..MaxQty /\ qty # 0 /\ qty <= MaxQty
  BY Numbers
<1>2. P!IInv'
  BY <1>1, BookAssumptions, P!SubmitKeeps DEF FlowInv
<1>3. /\ pc = "idle" /\ book' = b /\ pc' = "match"
      /\ incoming'.id = id /\ incoming'.qty = qty /\ rep' = P!EmptyReport
      /\ ring' = ring /\ drop_count' = drop_count
  BY <1>1 DEF P!Submit
<1>4. pending' # NoOp
  BY MarkerAssumption
<1>5. IdsGivenOut'
  <2>1. \A j \in Ids : P!Live(book', j) => j < next_id'
    <3>1. \A j \in Ids : j \in Nat
      BY Numbers DEF Ids
    <3>2. \A j \in Ids : P!Live(book', j) => j < next_id
      BY <1>3 DEF FlowInv, IdsGivenOut
    <3>3. next_id \in Nat
      BY DEF FlowInv, Counts
    <3>. QED  BY <3>1, <3>2, <3>3
  <2>2. live' \subseteq Ids /\ \A j \in live' : j < next_id'
    <3>1. \A j \in live' : j \in Ids /\ j < next_id
      BY DEF FlowInv, IdsGivenOut
    <3>2. \A j \in Ids : j \in Nat
      BY Numbers DEF Ids
    <3>3. next_id \in Nat
      BY DEF FlowInv, Counts
    <3>. QED  BY <3>1, <3>2, <3>3
  <2>. QED  BY <2>1, <2>2 DEF IdsGivenOut
<1>6. BookIsAtIt'
  BY <1>3, <1>4 DEF BookIsAtIt, P!EmptyReport
<1>7. RingHasRoom'
  BY <1>1, <1>3, Numbers DEF FlowInv, RingHasRoom
<1>8. PoolKnows'
  BY <1>3 DEF PoolKnows
<1>. QED  BY <1>2, <1>5, <1>6, <1>7, <1>8 DEF FlowInv

\* A step of the matching loop.
LEMMA LoopKeeps ==
    ASSUME FlowInv, NEW p \in Prices, UNCHANGED flowVars,
           P!Fill(p) \/ P!CancelMaker(p) \/ P!Halt(p)
    PROVE  FlowInv'
<1>1. P!IInv /\ P!IInv'
  BY BookAssumptions, P!FillKeeps, P!CancelMakerKeeps, P!HaltKeeps DEF FlowInv
<1>2. /\ P!Looping
      /\ pc = "match" /\ pc' = "match"
      /\ incoming \in P!Calls /\ incoming'.id = incoming.id
      /\ rep'.accepted = rep.accepted
      /\ \A id \in Ids : P!Live(book', id) => P!Live(book, id)
      /\ \/ ring' = ring /\ drop_count' = drop_count /\ incoming' = incoming
         \/ /\ incoming'.qty \in Nat /\ incoming'.qty < incoming.qty
            /\ Len(ring) < Capacity =>
                   Len(ring') = Len(ring) + 1 /\ drop_count' = drop_count
  BY <1>1, BookAssumptions, P!LoopSteps
<1>3. /\ live' = live /\ mid' = mid /\ next_id' = next_id /\ steps' = steps
      /\ pending' = pending
  BY DEF flowVars
<1>4. Counts' /\ IdsGivenOut' /\ PoolKnows'
  BY <1>2, <1>3 DEF FlowInv, Counts, Due, IdsGivenOut, PoolKnows
<1>5. BookIsAtIt'
  BY <1>2, <1>3 DEF FlowInv, BookIsAtIt
<1>6. RingHasRoom'
  <2>1. /\ Len(ring) + incoming.qty <= MaxQty /\ drop_count = 0
        /\ Len(ring) \in Nat /\ incoming.qty \in Nat /\ incoming.qty > 0
    <3>1. ring \in Seq(P!Trade)
      BY DEF FlowInv, P!IInv, P!TypeOK
    <3>. QED  BY <1>2, <3>1, Numbers DEF FlowInv, RingHasRoom, P!Looping, P!Calls
  <2>2. Len(ring) < Capacity
    BY <2>1, Numbers
  <2>3. CASE ring' = ring /\ drop_count' = drop_count /\ incoming' = incoming
    BY <1>2, <2>1, <2>3 DEF RingHasRoom
  <2>4. CASE /\ incoming'.qty \in Nat /\ incoming'.qty < incoming.qty
             /\ Len(ring') = Len(ring) + 1 /\ drop_count' = drop_count
    BY <1>2, <2>1, <2>4, Numbers DEF RingHasRoom
  <2>. QED  BY <1>2, <2>2, <2>3, <2>4
<1>. QED  BY <1>1, <1>4, <1>5, <1>6 DEF FlowInv

\* The end of the loop.
LEMMA EndKeeps ==
    ASSUME FlowInv, UNCHANGED flowVars, P!RestLeftover \/ P!DropLeftover
    PROVE  FlowInv'
<1>1. P!IInv /\ P!IInv'
  BY BookAssumptions, P!RestLeftoverKeeps, P!DropLeftoverKeeps DEF FlowInv
<1>2. /\ pc = "match" /\ pc' = "done"
      /\ incoming \in P!Calls /\ rep'.accepted = rep.accepted
      /\ UNCHANGED <<incoming, ring, drop_count>>
      /\ \A id \in Ids :
             P!Live(book', id) => P!Live(book, id) \/ id = incoming.id
  BY <1>1, BookAssumptions, P!EndSteps
<1>3. /\ live' = live /\ mid' = mid /\ next_id' = next_id /\ steps' = steps
      /\ pending' = pending
  BY DEF flowVars
<1>4. incoming.id = pending.id /\ pending # NoOp /\ pending.id < next_id
  BY <1>2 DEF FlowInv, BookIsAtIt, IdsGivenOut
<1>5. Counts' /\ IdsGivenOut' /\ PoolKnows'
  BY <1>2, <1>3, <1>4 DEF FlowInv, Counts, Due, IdsGivenOut, PoolKnows
<1>6. BookIsAtIt' /\ RingHasRoom'
  BY <1>2, <1>3 DEF FlowInv, BookIsAtIt, RingHasRoom
<1>. QED  BY <1>1, <1>5, <1>6 DEF FlowInv
-----------------------------------------------------------------------------
(***************************************************************************)
(* Prices and counters                                                     *)
(***************************************************************************)

LEMMA WrapType == \A x \in Int : Wrap(x) \in Prices
BY Numbers DEF Wrap, Prices

LEMMA TouchType == \A side : Touch(side) \subseteq Prices
BY DEF Touch

\* passive_price() returns a price, whatever the book holds.
LEMMA PassivePriceType ==
    ASSUME NEW m \in Nat, NEW side, NEW price \in PassivePrices(side, m)
    PROVE  price \in Prices
<1>. DEFINE far == Touch(Engine!Opposite(side))
            near == CHOOSE t \in far : TRUE
<1>1. far \subseteq Prices
  BY TouchType
<1>. HIDE DEF far
<1>2. \A off \in 0..TailTicks : m - off \in Int /\ m + 1 + off \in Int
  BY Numbers
<1>3. /\ \A off \in 0..TailTicks : Wrap(m - off) \in Prices
      /\ \A off \in 0..TailTicks : Wrap(m + 1 + off) \in Prices
  BY <1>2, WrapType
<1>4. far # {} => Wrap(near - 1) \in Prices /\ Wrap(near + 1) \in Prices
  <2>. SUFFICES ASSUME far # {}
                PROVE  Wrap(near - 1) \in Prices /\ Wrap(near + 1) \in Prices
    OBVIOUS
  <2>1. near \in Prices
    BY <1>1
  <2>2. near - 1 \in Int /\ near + 1 \in Int
    BY <2>1, Numbers DEF Prices
  <2>. QED  BY <2>2, WrapType
<1>. HIDE DEF near
<1>5. CASE side = "Buy"
  <2>1. PICK off \in 0..TailTicks :
            price = IF \E t \in far : Wrap(m - off) >= t THEN Wrap(near - 1)
                    ELSE Wrap(m - off)
    BY <1>5 DEF PassivePrices, far, near
  <2>. QED  BY <1>3, <1>4, <2>1
<1>6. CASE side # "Buy"
  <2>1. PICK off \in 0..TailTicks :
            price = IF \E t \in far : Wrap(m + 1 + off) <= t THEN Wrap(near + 1)
                    ELSE Wrap(m + 1 + off)
    BY <1>6 DEF PassivePrices, far, near
  <2>. QED  BY <1>3, <1>4, <2>1
<1>. QED  BY <1>5, <1>6

\* walk_mid() moves a tick at most, and stays above the tail.
LEMMA WalkBounds ==
    ASSUME Counts, NEW m \in WalkMid
    PROVE  m \in Nat /\ TailTicks < m /\ m <= mid + 1
BY Numbers DEF Counts, WalkMid

\* Before an operation is issued nothing is due, and the next id is one of Ids.
LEMMA IdleFacts ==
    ASSUME FlowInv, pc = "idle"
    PROVE  /\ pending = NoOp
           /\ mid \in Nat /\ next_id \in Nat /\ steps \in Nat
           /\ TailTicks < mid /\ mid <= StartMid + steps
           /\ 1 <= next_id /\ next_id <= TargetDepth + 1 + steps
           /\ steps <= MixedOps
           /\ Building \/ steps < MixedOps => next_id \in Ids
           /\ \A id \in Ids : P!Live(book, id) => id \in live /\ id < next_id
           /\ \A id \in live : id \in Ids /\ id < next_id
           /\ P!GoodBook(book) /\ ~P!Live(book, next_id)
<1>1. pending = NoOp
  BY DEF FlowInv, BookIsAtIt
<1>2. /\ mid \in Nat /\ next_id \in Nat /\ steps \in Nat
      /\ TailTicks < mid /\ mid <= StartMid + steps
      /\ 1 <= next_id /\ next_id <= TargetDepth + 1 + steps
      /\ steps <= MixedOps
  BY <1>1, Numbers DEF FlowInv, Counts, Due
<1>3. Building \/ steps < MixedOps => next_id \in Ids
  BY <1>2, Numbers DEF Building, Ids
<1>4. \A id \in Ids : P!Live(book, id) => id \in live /\ id < next_id
  BY <1>1 DEF FlowInv, IdsGivenOut, PoolKnows
<1>5. \A id \in live : id \in Ids /\ id < next_id
  BY DEF FlowInv, IdsGivenOut
<1>6. P!GoodBook(book)
  BY BookAssumptions, P!BookOfInv DEF FlowInv
<1>7. ~P!Live(book, next_id)
  <2>1. \A id : P!Live(book, id) => id \in Ids
    <3>. SUFFICES ASSUME NEW s \in P!Sides, NEW p \in Prices,
                         NEW i \in DOMAIN book[s][p]
                  PROVE  book[s][p][i].id \in Ids
      BY DEF P!Live
    <3>1. book[s][p] \in Seq(P!RestingOrder)
      BY <1>6 DEF P!GoodBook, P!Books, P!Queues
    <3>2. book[s][p][i] \in P!RestingOrder
      BY <3>1
    <3>. QED  BY <3>2 DEF P!RestingOrder
  <2>2. ~(next_id < next_id)
    BY <1>2
  <2>. QED  BY <1>4, <2>1, <2>2
<1>. QED  BY <1>1, <1>2, <1>3, <1>4, <1>5, <1>6, <1>7
-----------------------------------------------------------------------------
(***************************************************************************)
(* The operations                                                          *)
(***************************************************************************)

\* add() takes a new id, so the book takes the order.
LEMMA AddKeeps ==
    ASSUME FlowInv, pc = "idle", Building \/ steps < MixedOps,
           NEW side \in P!Sides, NEW m \in Nat, TailTicks < m,
           IF Building THEN m <= StartMid + steps ELSE m <= StartMid + steps + 1,
           NEW pool, pool \subseteq live,
           \A id \in Ids : P!Live(book, id) => id \in pool,
           Add(side, m, pool)
    PROVE  FlowInv'
<1>1. PICK price \in PassivePrices(side, m), qty \in 1..MaxLots,
           owner \in Owners \ {kAnonymous} :
               P!Submit(book, next_id, owner, side, price, qty)
  BY SameSubmit DEF Add, Engine!AddLimit
<1>2. /\ next_id' = next_id + 1 /\ mid' = m /\ live' = pool /\ steps' = steps
      /\ pending' = [kind |-> "Add", id |-> next_id, building |-> Building,
                     room |-> RoomBehind(side)]
  BY DEF Add
<1>3. /\ next_id \in Nat /\ steps \in Nat /\ next_id \in Ids
      /\ 1 <= next_id /\ next_id <= TargetDepth + 1 + steps /\ steps <= MixedOps
      /\ P!GoodBook(book) /\ ~P!Live(book, next_id)
  BY IdleFacts
<1>4. price \in P!Limits /\ qty \in 1..MaxQty
  BY <1>1, PassivePriceType, Numbers DEF P!Limits
<1>5. /\ pending' \in Ops /\ pending'.id = next_id
      /\ pending'.building = Building
  BY <1>2, <1>3 DEF Ops, Building, RoomBehind
<1>6. Counts'
  <2>1. pending' # NoOp
    BY <1>5, MarkerAssumption
  <2>2. CASE Building
    <3>1. Due' = 0 /\ next_id <= TargetDepth
      BY <1>5, <2>2 DEF Due, Building
    <3>. QED  BY <1>2, <1>3, <2>2, <3>1, Numbers DEF Counts
  <2>3. CASE ~Building
    <3>1. Due' = 1
      BY <1>5, <2>1, <2>3 DEF Due
    <3>. QED  BY <1>2, <1>3, <2>3, <3>1, Numbers DEF Counts
  <2>. QED  BY <2>2, <2>3
<1>7. next_id' \in Nat /\ next_id <= next_id' /\ next_id < next_id'
  BY <1>2, <1>3
<1>. QED
  BY <1>1, <1>2, <1>3, <1>4, <1>5, <1>6, <1>7, EnterKeeps

\* So does marketable().
LEMMA MarketableKeeps ==
    ASSUME FlowInv, pc = "idle", steps < MixedOps,
           NEW side \in P!Sides, NEW m \in Nat, TailTicks < m,
           m <= StartMid + steps + 1, Marketable(side, m)
    PROVE  FlowInv'
<1>1. PICK limit \in P!Limits, qty \in 1..MaxQty, owner \in Owners :
          P!Submit(book, next_id, owner, side, limit, qty)
  <2>1. PICK qty \in 1..MaxQty, owner \in Owners \ {kAnonymous} :
            \/ Engine!AddMarket(next_id, owner, side, qty)
            \/ \E t \in Touch(Engine!Opposite(side)), through \in 0..MaxThrough :
                   Engine!AddLimit(next_id, owner, side,
                       Wrap(IF side = "Buy" THEN t + through ELSE t - through), qty)
    BY DEF Marketable
  <2>2. CASE Engine!AddMarket(next_id, owner, side, qty)
    BY <2>1, <2>2, SameSubmit DEF Engine!AddMarket, P!Limits
  <2>3. ASSUME NEW t \in Touch(Engine!Opposite(side)), NEW through \in 0..MaxThrough,
               Engine!AddLimit(next_id, owner, side,
                   Wrap(IF side = "Buy" THEN t + through ELSE t - through), qty)
        PROVE  \E limit \in P!Limits :
                   P!Submit(book, next_id, owner, side, limit, qty)
    <3>1. PICK x : x = IF side = "Buy" THEN t + through ELSE t - through
      OBVIOUS
    <3>2. t \in Prices
      BY TouchType
    <3>3. x \in Int
      BY <3>1, <3>2, Numbers DEF Prices
    <3>4. Wrap(x) \in P!Limits
      BY <3>3, WrapType DEF P!Limits
    <3>5. P!Submit(book, next_id, owner, side, Wrap(x), qty)
      BY <2>3, <3>1, SameSubmit DEF Engine!AddLimit
    <3>. QED  BY <3>4, <3>5
  <2>. QED  BY <2>1, <2>2, <2>3
<1>2. /\ next_id' = next_id + 1 /\ mid' = m /\ live' = live /\ steps' = steps
      /\ pending' = [kind |-> "Marketable", id |-> next_id, building |-> FALSE,
                     room |-> RoomBehind(side)]
  BY DEF Marketable
<1>3. /\ next_id \in Nat /\ steps \in Nat /\ next_id \in Ids
      /\ 1 <= next_id /\ next_id <= TargetDepth + 1 + steps /\ steps <= MixedOps
      /\ P!GoodBook(book) /\ ~P!Live(book, next_id)
      /\ \A id \in Ids : P!Live(book, id) => id \in live
  BY IdleFacts
<1>4. /\ pending' \in Ops /\ pending'.id = next_id /\ ~pending'.building
  BY <1>2, <1>3 DEF Ops, RoomBehind
<1>5. Counts'
  <2>1. pending' # NoOp
    BY <1>4, MarkerAssumption
  <2>2. Due' = 1
    BY <1>4, <2>1 DEF Due
  <2>. QED  BY <1>2, <1>3, <2>2, Numbers DEF Counts
<1>6. next_id' \in Nat /\ next_id <= next_id' /\ next_id < next_id'
  BY <1>2, <1>3
<1>. QED
  BY <1>1, <1>2, <1>3, <1>4, <1>5, <1>6, EnterKeeps

\* What is left of the pool still covers the book, but for the id taken.
LEMMA PoolsCover ==
    ASSUME FlowInv, pc = "idle", NEW id, NEW pool \in PoolsWithout(id)
    PROVE  /\ pool \subseteq live
           /\ \A j \in Ids : P!Live(book, j) /\ j # id => j \in pool
<1>1. PICK stale \in SUBSET (live \ Resting(book)) : pool = live \ (stale \cup {id})
  BY DEF PoolsWithout
<1>2. \A j \in Ids : P!Live(book, j) => j \in live /\ j \in Resting(book)
  BY IdleFacts, RestingIs
<1>. QED  BY <1>1, <1>2

\* modify() takes the order out first, so its id is free when it comes back.
LEMMA ModifyFacts ==
    ASSUME FlowInv, pc = "idle", NEW m, NEW id \in live, Modify(id, m)
    PROVE  \E s \in P!Sides, p \in Prices, qty \in 1..MaxLots :
               \E i \in DOMAIN book[s][p], price \in PassivePrices(s, m) :
                   /\ book[s][p][i].id = id
                   /\ P!Submit(P!Removed(s, p, i), id, book[s][p][i].owner, s,
                               price, qty)
                   /\ pending' = [kind |-> "Modify", id |-> id, building |-> FALSE,
                                  room |-> RoomBehind(s)]
<1>1. PICK s \in P!Sides :
          /\ \E p \in Prices : \E i \in DOMAIN book[s][p] : book[s][p][i].id = id
          /\ \E price \in PassivePrices(s, m), qty \in 1..MaxLots :
                 P!Modify(id, price, qty)
          /\ pending' = [kind |-> "Modify", id |-> id, building |-> FALSE,
                         room |-> RoomBehind(s)]
  BY SameReading, SameModify DEF Modify
<1>2. PICK p \in Prices : \E i \in DOMAIN book[s][p] : book[s][p][i].id = id
  BY <1>1
<1>3. PICK price \in PassivePrices(s, m), qty \in 1..MaxLots : P!Modify(id, price, qty)
  BY <1>1
<1>4. P!Live(book, id) /\ qty # 0
  BY <1>2, <1>3, Numbers DEF P!Live
<1>5. PICK t \in P!Sides, r \in Prices : \E k \in DOMAIN book[t][r] :
          /\ book[t][r][k].id = id
          /\ P!Submit(P!Removed(t, r, k), id, book[t][r][k].owner, t, price, qty)
  BY <1>3, <1>4 DEF P!Modify
<1>6. PICK k \in DOMAIN book[t][r] :
          /\ book[t][r][k].id = id
          /\ P!Submit(P!Removed(t, r, k), id, book[t][r][k].owner, t, price, qty)
  BY <1>5
<1>7. t = s
  <2>1. P!Unique(book)
    BY IdleFacts DEF P!GoodBook
  <2>. QED  BY <1>2, <1>6, <2>1 DEF P!Unique
<1>. QED  BY <1>1, <1>3, <1>6, <1>7

LEMMA ModifyKeeps ==
    ASSUME FlowInv, pc = "idle", steps < MixedOps,
           NEW m \in Nat, TailTicks < m, m <= StartMid + steps + 1,
           NEW id \in live, Modify(id, m)
    PROVE  FlowInv'
<1>1. PICK s \in P!Sides, p \in Prices, qty \in 1..MaxLots :
          \E i \in DOMAIN book[s][p], price \in PassivePrices(s, m) :
              /\ book[s][p][i].id = id
              /\ P!Submit(P!Removed(s, p, i), id, book[s][p][i].owner, s, price, qty)
              /\ pending' = [kind |-> "Modify", id |-> id, building |-> FALSE,
                             room |-> RoomBehind(s)]
  BY ModifyFacts
<1>2. PICK i \in DOMAIN book[s][p], price \in PassivePrices(s, m) :
          /\ book[s][p][i].id = id
          /\ P!Submit(P!Removed(s, p, i), id, book[s][p][i].owner, s, price, qty)
          /\ pending' = [kind |-> "Modify", id |-> id, building |-> FALSE,
                         room |-> RoomBehind(s)]
  BY <1>1
<1>3. PICK b : b = P!Removed(s, p, i)
  OBVIOUS
<1>4. P!GoodBook(b) /\ ~P!Live(b, id) /\ \A j \in Ids : P!Live(b, j) => P!Live(book, j)
  BY <1>2, <1>3, BookAssumptions, P!RemovalIsGood, P!RemovedIsGone DEF FlowInv
<1>5. PICK owner \in Owners : owner = book[s][p][i].owner
  <2>1. book[s][p] \in Seq(P!RestingOrder)
    BY DEF FlowInv, P!IInv, P!TypeOK
  <2>2. book[s][p][i] \in P!RestingOrder
    BY <2>1
  <2>. QED  BY <2>2 DEF P!RestingOrder
<1>6. /\ next_id' = next_id /\ mid' = m /\ steps' = steps
      /\ live' \in PoolsWithout(id)
  BY DEF Modify
<1>7. /\ next_id \in Nat /\ steps \in Nat /\ id \in Ids /\ id < next_id
      /\ 1 <= next_id /\ next_id <= TargetDepth + 1 + steps /\ steps <= MixedOps
  BY IdleFacts
<1>8. price \in P!Limits /\ qty \in 1..MaxQty
  BY PassivePriceType, Numbers DEF P!Limits
<1>9. /\ pending' \in Ops /\ pending'.id = id /\ ~pending'.building
  BY <1>2, <1>7 DEF Ops, RoomBehind
<1>10. Counts'
  <2>1. pending' # NoOp
    BY <1>9, MarkerAssumption
  <2>2. Due' = 1
    BY <1>9, <2>1 DEF Due
  <2>. QED  BY <1>6, <1>7, <2>2, Numbers DEF Counts
<1>11. live' \subseteq live /\ \A j \in Ids : P!Live(b, j) => j \in live'
  BY <1>4, <1>6, PoolsCover
<1>12. next_id' \in Nat /\ next_id <= next_id' /\ id < next_id'
  BY <1>6, <1>7
<1>13. P!Submit(b, id, owner, s, price, qty)
  BY <1>2, <1>3, <1>5
<1>. QED
  BY <1>4, <1>7, <1>8, <1>9, <1>10, <1>11, <1>12, <1>13, EnterKeeps

\* cancel() is over in one step; the sweep may come at its end.
LEMMA CancelKeeps ==
    ASSUME FlowInv, pc = "idle", steps < MixedOps,
           NEW m \in Nat, TailTicks < m, m <= StartMid + steps + 1,
           NEW id \in live, Cancel(id, m)
    PROVE  FlowInv'
<1>1. PICK pool \in PoolsWithout(id) : StepEnds(pool, book')
  BY DEF Cancel
<1>2. /\ P!Cancel(id) /\ mid' = m /\ next_id' = next_id /\ pending' = pending
      /\ steps' = steps + 1
  BY <1>1, SameCancel DEF Cancel, StepEnds
<1>3. /\ pending = NoOp /\ id \in Ids
      /\ next_id \in Nat /\ steps \in Nat
      /\ 1 <= next_id /\ next_id <= TargetDepth + 1 + steps
      /\ \A j \in Ids : P!Live(book, j) => j \in live /\ j < next_id
      /\ \A j \in live : j \in Ids /\ j < next_id
  BY IdleFacts
<1>4. P!IInv /\ P!IInv'
  BY <1>2, <1>3, BookAssumptions, P!CancelKeeps DEF FlowInv
<1>5. /\ pc' = "idle" /\ rep' = rep /\ ring' = ring /\ drop_count' = drop_count
  BY <1>2 DEF P!Cancel
<1>6. ~P!Live(book', id) /\ \A j \in Ids : P!Live(book', j) => P!Live(book, j)
  <2>1. CASE ~P!Live(book, id) /\ book' = book
    BY <2>1
  <2>2. ASSUME NEW s \in P!Sides, NEW p \in Prices, NEW i \in DOMAIN book[s][p],
               book[s][p][i].id = id, book' = P!Removed(s, p, i)
        PROVE  ~P!Live(book', id) /\ \A j \in Ids : P!Live(book', j) => P!Live(book, j)
    BY <1>4, <2>2, BookAssumptions, P!RemovedIsGone
  <2>. QED  BY <1>2, <2>1, <2>2 DEF P!Cancel
<1>7. /\ live' \subseteq live
      /\ \A j \in Ids : P!Live(book', j) => j \in live'
  <2>1. pool \subseteq live /\ \A j \in Ids : P!Live(book', j) => j \in pool
    BY <1>1, <1>6, PoolsCover
  <2>2. live' = pool \cap Resting(book') \/ live' = pool
    BY <1>1 DEF StepEnds
  <2>. QED  BY <2>1, <2>2, RestingIs
<1>8. Counts'
  BY <1>2, <1>3, Numbers DEF Counts, Due
<1>9. IdsGivenOut' /\ PoolKnows'
  BY <1>2, <1>3, <1>6, <1>7 DEF IdsGivenOut, PoolKnows
<1>10. BookIsAtIt' /\ RingHasRoom'
  BY <1>2, <1>3, <1>5 DEF FlowInv, BookIsAtIt, RingHasRoom
<1>. QED  BY <1>4, <1>8, <1>9, <1>10 DEF FlowInv

\* The operation returns. If its order rests its id is (back) in the pool, and
\* no sweep takes it out.
LEMMA CompleteKeeps ==
    ASSUME FlowInv, Complete
    PROVE  FlowInv'
<1>1. /\ pc = "done" /\ pc' = "idle" /\ incoming' = NoCall
      /\ rep' = P!EmptyReport /\ ring' = <<>> /\ pending' = NoOp
      /\ UNCHANGED <<policy, book, next_seq, drop_count, mid, next_id>>
  BY SameReading DEF Complete, Drained
<1>2. /\ pending # NoOp /\ pending \in Ops /\ pending.id < next_id
      /\ pending.id \in Ids /\ pending.building \in BOOLEAN
  BY <1>1 DEF FlowInv, BookIsAtIt, IdsGivenOut, Ops
<1>3. P!IInv'
  <2>1. P!GoodBook(book')
    BY <1>1, BookAssumptions, P!BookOfInv DEF FlowInv
  <2>2. P!GapsAreDrops'
    BY <1>1 DEF P!GapsAreDrops
  <2>3. rep' \in P!ExecReport /\ ring' \in Seq(P!Trade)
    BY <1>1, BookAssumptions, P!EmptyReportType
  <2>. QED  BY <1>1, <2>1, <2>2, <2>3, BookAssumptions, P!QuietStep DEF FlowInv
<1>4. Kept \subseteq {pending.id} /\ (P!Live(book, pending.id) => pending.id \in Kept)
  BY SameReading DEF Kept
<1>5. /\ live' \subseteq live \cup {pending.id}
      /\ \A j \in Ids : P!Live(book, j) => j \in live'
  <2>1. \/ live' = live \cup Kept
        \/ live' = (live \cup Kept) \cap Resting(book)
    BY DEF Complete, StepEnds
  <2>2. \A j \in Ids : P!Live(book, j) => j \in live \cup Kept
    BY <1>2, <1>4 DEF FlowInv, PoolKnows
  <2>3. \A j \in Ids : P!Live(book, j) => j \in Resting(book)
    BY RestingIs
  <2>. QED  BY <1>4, <2>1, <2>2, <2>3
<1>6. Counts'
  <2>0. Due' = 0
    BY <1>1 DEF Due
  <2>1. CASE pending.building
    <3>1. steps' = steps /\ Due = 0
      BY <2>1 DEF Complete, Due
    <3>. QED  BY <1>1, <2>0, <3>1 DEF FlowInv, Counts
  <2>2. CASE ~pending.building
    <3>1. steps' = steps + 1 /\ Due = 1
      BY <1>2, <2>2 DEF Complete, Due, StepEnds
    <3>. QED  BY <1>1, <2>0, <3>1, Numbers DEF FlowInv, Counts
  <2>. QED  BY <2>1, <2>2
<1>7. IdsGivenOut' /\ PoolKnows'
  BY <1>1, <1>2, <1>5 DEF FlowInv, IdsGivenOut, PoolKnows
<1>8. BookIsAtIt' /\ RingHasRoom'
  BY <1>1 DEF FlowInv, BookIsAtIt, RingHasRoom
<1>. QED  BY <1>3, <1>6, <1>7, <1>8 DEF FlowInv

LEMMA IssueKeeps ==
    ASSUME FlowInv, Issue
    PROVE  FlowInv'
<1>1. /\ pc = "idle" /\ mid \in Nat /\ TailTicks < mid
      /\ mid <= StartMid + steps /\ steps \in Nat
      /\ \A id \in Ids : P!Live(book, id) => id \in live
  BY IdleFacts DEF Issue
<1>2. ASSUME Building, NEW side \in P!Sides, Add(side, mid, live)
      PROVE  FlowInv'
  BY <1>1, <1>2, AddKeeps
<1>3. ASSUME ~Building, steps < MixedOps, NEW m \in WalkMid
      PROVE  m \in Nat /\ TailTicks < m /\ m <= StartMid + steps + 1
  <2>1. m \in Nat /\ TailTicks < m /\ m <= mid + 1
    BY WalkBounds DEF FlowInv
  <2>. QED  BY <1>1, <2>1, Numbers
<1>4. ASSUME ~Building, steps < MixedOps, NEW m \in WalkMid,
             NEW side \in P!Sides, Add(side, m, live)
      PROVE  FlowInv'
  BY <1>1, <1>3, <1>4, AddKeeps
<1>5. ASSUME ~Building, steps < MixedOps, NEW m \in WalkMid,
             NEW side \in P!Sides, live \cap Resting(book) = {}, Add(side, m, {})
      PROVE  FlowInv'
  <2>1. \A id \in Ids : P!Live(book, id) => id \in {}
    BY <1>1, <1>5, RestingIs
  <2>. QED  BY <1>1, <1>3, <1>5, <2>1, AddKeeps
<1>6. ASSUME ~Building, steps < MixedOps, NEW m \in WalkMid,
             NEW side \in P!Sides, Marketable(side, m)
      PROVE  FlowInv'
  BY <1>1, <1>3, <1>6, MarketableKeeps
<1>7. ASSUME ~Building, steps < MixedOps, NEW m \in WalkMid,
             NEW id \in live, Cancel(id, m) \/ Modify(id, m)
      PROVE  FlowInv'
  BY <1>1, <1>3, <1>7, CancelKeeps, ModifyKeeps
<1>8. Engine!Sides = P!Sides
  BY SameReading
<1>. QED  BY <1>2, <1>4, <1>5, <1>6, <1>7, <1>8 DEF Issue

LEMMA BookStepsKeep ==
    ASSUME FlowInv, BookSteps
    PROVE  FlowInv'
<1>1. CASE \E p \in Prices : P!Fill(p) \/ P!CancelMaker(p) \/ P!Halt(p)
  BY <1>1, LoopKeeps DEF BookSteps
<1>2. CASE P!RestLeftover \/ P!DropLeftover
  BY <1>2, EndKeeps DEF BookSteps
<1>. QED  BY <1>1, <1>2, SameSteps, SameEnds DEF BookSteps

LEMMA StutterKeeps ==
    ASSUME FlowInv, UNCHANGED <<bookVars, flowVars>>
    PROVE  FlowInv'
<1>1. P!IInv'
  <2>1. UNCHANGED P!vars
    BY DEF bookVars, P!vars
  <2>. QED  BY <2>1, BookAssumptions, P!NextInv DEF FlowInv
<1>. QED
  BY <1>1 DEF bookVars, flowVars, FlowInv, Counts, Due, IdsGivenOut, BookIsAtIt,
              RingHasRoom, PoolKnows

\* FlowInv is inductive.
LEMMA NextFlow == FlowInv /\ [Next]_<<bookVars, flowVars>> => FlowInv'
BY IssueKeeps, BookStepsKeep, CompleteKeeps, StutterKeeps DEF Next

LEMMA FlowInvariance == Spec => []FlowInv
BY InitFlow, NextFlow, PTL DEF Spec

-----------------------------------------------------------------------------
(***************************************************************************)
(* Passive orders                                                          *)
(***************************************************************************)

\* The best price of a side is the only element of its touch, and no order of
\* the side has a better one.
LEMMA TouchIsBest ==
    ASSUME NEW side \in P!Sides, NEW r \in Prices, book[side][r] # <<>>
    PROVE  \E t \in Prices : /\ Touch(side) = {t} /\ book[side][t] # <<>>
                             /\ ~P!Better(side, r, t)
<1>1. PICK t \in Prices : P!IsBest(side, t) /\ ~P!Better(side, r, t)
  BY BookAssumptions, P!BestExists
<1>2. ASSUME NEW u \in Prices, P!IsBest(side, u)  PROVE u = t
  <2>1. ~P!Better(side, u, t) /\ ~P!Better(side, t, u)
    BY <1>1, <1>2 DEF P!IsBest
  <2>2. u \in Nat /\ t \in Nat
    BY Numbers DEF Prices
  <2>. QED  BY <2>1, <2>2 DEF P!Better
<1>3. Touch(side) = {t}
  BY <1>1, <1>2, SameReading DEF Touch
<1>4. book[side][t] # <<>>
  BY <1>1 DEF P!IsBest
<1>. QED  BY <1>1, <1>3, <1>4

\* passive_price() stays behind every price of the far side if it can.
LEMMA PassiveStaysBehind ==
    ASSUME NEW side \in P!Sides, RoomBehind(side), NEW m \in Nat,
           NEW price \in PassivePrices(side, m),
           NEW r \in Prices, book[P!Opposite(side)][r] # <<>>
    PROVE  IF side = "Buy" THEN price < r ELSE price > r
<1>. DEFINE far == Touch(P!Opposite(side))
            near == CHOOSE t \in far : TRUE
<1>1. P!Opposite(side) \in P!Sides
  BY DEF P!Opposite, P!Sides
<1>2. PICK t \in Prices : /\ far = {t} /\ book[P!Opposite(side)][t] # <<>>
                          /\ ~P!Better(P!Opposite(side), r, t)
  BY <1>1, TouchIsBest
<1>3. near = t /\ t \in 0..MaxPrice /\ r \in 0..MaxPrice /\ MaxPrice \in Nat
  BY <1>2, Numbers DEF Prices
<1>4. Engine!Opposite(side) = P!Opposite(side)
  BY SameReading
<1>5. CASE side = "Buy"
  <2>1. t <= r /\ t > 0
    BY <1>2, <1>3, <1>4, <1>5 DEF P!Opposite, P!Better, RoomBehind
  <2>2. Wrap(t - 1) = t - 1
    BY <1>3, <2>1 DEF Wrap
  <2>3. PICK off \in 0..TailTicks :
            price = IF \E u \in far : Wrap(m - off) >= u THEN Wrap(near - 1)
                    ELSE Wrap(m - off)
    BY <1>4, <1>5 DEF PassivePrices
  <2>4. m - off \in Int
    BY Numbers
  <2>5. PICK x \in 0..MaxPrice : x = Wrap(m - off)
    BY <2>4, WrapType DEF Prices
  <2>6. price = IF x >= t THEN t - 1 ELSE x
    BY <1>2, <1>3, <2>2, <2>3, <2>5
  <2>. QED  BY <1>3, <1>5, <2>1, <2>5, <2>6
<1>6. CASE side = "Sell"
  <2>1. r <= t /\ t < MaxPrice
    BY <1>2, <1>3, <1>4, <1>6 DEF P!Opposite, P!Better, RoomBehind
  <2>2. Wrap(t + 1) = t + 1
    BY <1>3, <2>1 DEF Wrap
  <2>3. PICK off \in 0..TailTicks :
            price = IF \E u \in far : Wrap(m + 1 + off) <= u THEN Wrap(near + 1)
                    ELSE Wrap(m + 1 + off)
    BY <1>4, <1>6 DEF PassivePrices
  <2>4. m + 1 + off \in Int
    BY Numbers
  <2>5. PICK x \in 0..MaxPrice : x = Wrap(m + 1 + off)
    BY <2>4, WrapType DEF Prices
  <2>6. price = IF x <= t THEN t + 1 ELSE x
    BY <1>2, <1>3, <2>2, <2>3, <2>5
  <2>. QED  BY <1>3, <1>6, <2>1, <2>5, <2>6
<1>. QED  BY <1>5, <1>6 DEF P!Sides

\* So an added or re-priced order enters the loop with nothing to match. The
\* book b it meets has the far side of the book passive_price() looked at.
LEMMA PassiveEnters ==
    ASSUME NEW side \in P!Sides, RoomBehind(side), NEW m \in Nat,
           NEW price \in PassivePrices(side, m), NEW qty \in 1..MaxLots,
           NEW b, NEW id, ~P!Live(b, id), NEW owner,
           \A t \in P!Sides, r \in Prices : t # side => b[t][r] = book[t][r],
           P!Submit(b, id, owner, side, price, qty)
    PROVE  PassiveInFlight' /\ pc' = "match"
<1>1. qty # 0 /\ qty > 0
  BY Numbers
<1>2. /\ book' = b /\ pc' = "match" /\ rep' = P!EmptyReport
      /\ incoming'.side = side /\ incoming'.limit = price /\ incoming'.qty = qty
  BY <1>1 DEF P!Submit
<1>3. price \in Prices /\ price # NoLimit
  BY PassivePriceType, MarkerAssumption
<1>4. P!Far' = P!Opposite(side) /\ P!Opposite(side) \in P!Sides
      /\ P!Opposite(side) # side
  BY <1>2 DEF P!Far, P!Opposite, P!Sides
<1>5. ASSUME NEW r \in Prices, book'[P!Far'][r] # <<>>  PROVE ~P!Crosses(r)'
  <2>1. book[P!Opposite(side)][r] # <<>>
    BY <1>2, <1>4, <1>5
  <2>2. IF side = "Buy" THEN price < r ELSE price > r
    BY <2>1, PassiveStaysBehind
  <2>3. r \in Nat /\ price \in Nat
    BY <1>3, Numbers DEF Prices
  <2>. QED  BY <1>2, <1>3, <2>2, <2>3 DEF P!Crosses
<1>. QED  BY <1>1, <1>2, <1>3, <1>5 DEF PassiveInFlight, P!EmptyReport

LEMMA PassiveIssue ==
    ASSUME FlowInv, Issue
    PROVE  PassiveInFlight' /\ PassiveRestsWhole'
<1>1. /\ pc = "idle" /\ mid \in Nat /\ pending = NoOp
      /\ P!GoodBook(book) /\ ~P!Live(book, next_id)
  BY IdleFacts DEF Issue
<1>2. PassiveWithRoom' <=> pending'.kind \in {"Add", "Modify"} /\ pending'.room
  BY DEF PassiveWithRoom
<1>3. ASSUME NEW side \in P!Sides, NEW m \in Nat, NEW pool, Add(side, m, pool)
      PROVE  PassiveInFlight' /\ pc' = "match"
  <2>1. PICK price \in PassivePrices(side, m), qty \in 1..MaxLots,
             owner \in Owners \ {kAnonymous} :
                 P!Submit(book, next_id, owner, side, price, qty)
    BY <1>3, SameSubmit DEF Add, Engine!AddLimit
  <2>2. pending'.room = RoomBehind(side)
    BY <1>3 DEF Add
  <2>3. CASE RoomBehind(side)
    BY <1>1, <2>1, <2>3, PassiveEnters
  <2>4. CASE ~RoomBehind(side)
    <3>1. pc' = "match"
      BY <1>1, <2>1, Numbers DEF P!Submit
    <3>. QED  BY <1>2, <2>2, <2>4, <3>1 DEF PassiveInFlight
  <2>. QED  BY <2>3, <2>4
<1>4. ASSUME NEW m \in Nat, NEW id \in live, Modify(id, m)
      PROVE  PassiveInFlight' /\ pc' = "match"
  <2>1. PICK s \in P!Sides, p \in Prices, qty \in 1..MaxLots :
            \E i \in DOMAIN book[s][p], price \in PassivePrices(s, m) :
                /\ book[s][p][i].id = id
                /\ P!Submit(P!Removed(s, p, i), id, book[s][p][i].owner, s,
                            price, qty)
                /\ pending' = [kind |-> "Modify", id |-> id, building |-> FALSE,
                               room |-> RoomBehind(s)]
    BY <1>1, <1>4, ModifyFacts
  <2>2. PICK i \in DOMAIN book[s][p], price \in PassivePrices(s, m) :
            /\ book[s][p][i].id = id
            /\ P!Submit(P!Removed(s, p, i), id, book[s][p][i].owner, s,
                        price, qty)
            /\ pending'.room = RoomBehind(s)
    BY <2>1
  <2>3. PICK b : b = P!Removed(s, p, i)
    OBVIOUS
  <2>4. /\ ~P!Live(b, id)
        /\ \A t \in P!Sides, r \in Prices : t # s => b[t][r] = book[t][r]
    BY <2>2, <2>3, BookAssumptions, P!RemovedIsGone DEF FlowInv
  <2>5. CASE RoomBehind(s)
    BY <2>2, <2>3, <2>4, <2>5, PassiveEnters
  <2>6. CASE ~RoomBehind(s)
    <3>1. pc' = "match"
      BY <2>2, <2>3, <2>4, Numbers DEF P!Submit
    <3>. QED  BY <1>2, <2>2, <2>6, <3>1 DEF PassiveInFlight
  <2>. QED  BY <2>5, <2>6
<1>5. ASSUME NEW side, NEW m, Marketable(side, m)
      PROVE  PassiveInFlight' /\ PassiveRestsWhole'
  <2>1. pending'.kind = "Marketable"
    BY <1>5 DEF Marketable
  <2>. QED  BY <1>2, <2>1 DEF PassiveInFlight, PassiveRestsWhole
<1>6. ASSUME NEW id, NEW m, Cancel(id, m)
      PROVE  PassiveInFlight' /\ PassiveRestsWhole'
  BY <1>1, <1>6, SameCancel DEF Cancel, P!Cancel, PassiveInFlight, PassiveRestsWhole
<1>7. \A m \in WalkMid : m \in Nat
  BY WalkBounds DEF FlowInv
<1>8. pc' = "match" => PassiveRestsWhole'
  BY DEF PassiveRestsWhole
<1>. QED
  BY <1>1, <1>3, <1>4, <1>5, <1>6, <1>7, <1>8, SameReading DEF Issue

\* No far price crosses, so the loop ends at once and the order rests whole.
LEMMA PassiveBookSteps ==
    ASSUME FlowInv, PassiveInFlight, PassiveRestsWhole, BookSteps
    PROVE  PassiveInFlight' /\ PassiveRestsWhole'
<1>1. pending' = pending
  BY DEF BookSteps, flowVars
<1>2. ASSUME NEW p \in Prices, P!Fill(p) \/ P!CancelMaker(p) \/ P!Halt(p)
      PROVE  PassiveInFlight' /\ PassiveRestsWhole'
  <2>1. P!Reaches(p) /\ pc = "match" /\ pc' = "match"
    BY <1>2, BookAssumptions, P!LoopSteps DEF FlowInv
  <2>2. book[P!Far][p] # <<>> /\ P!Crosses(p)
    BY <2>1 DEF P!Reaches, P!IsBest
  <2>3. ~PassiveWithRoom
    BY <2>1, <2>2 DEF PassiveInFlight
  <2>. QED  BY <1>1, <2>1, <2>3 DEF PassiveWithRoom, PassiveInFlight, PassiveRestsWhole
<1>3. ASSUME P!RestLeftover \/ P!DropLeftover
      PROVE  PassiveInFlight' /\ PassiveRestsWhole'
  <2>1. pc = "match" /\ pc' = "done" /\ rep \in P!ExecReport
    BY <1>3, BookAssumptions, P!EndSteps DEF FlowInv, P!IInv, P!TypeOK
  <2>2. CASE PassiveWithRoom
    <3>1. P!LeftoverRests /\ rep.trade_count = 0 /\ rep.stp_cancelled = 0
      BY <2>1, <2>2 DEF PassiveInFlight, P!LeftoverRests
    <3>2. rep' = [rep EXCEPT !.remaining = incoming.qty, !.rested = TRUE]
      BY <1>3, <3>1 DEF P!RestLeftover, P!DropLeftover
    <3>. QED
      BY <2>1, <3>1, <3>2 DEF P!ExecReport, PassiveInFlight, PassiveRestsWhole
  <2>3. CASE ~PassiveWithRoom
    BY <1>1, <2>1, <2>3 DEF PassiveWithRoom, PassiveInFlight, PassiveRestsWhole
  <2>. QED  BY <2>2, <2>3
<1>. QED  BY <1>2, <1>3, SameSteps, SameEnds DEF BookSteps

\* Inductive as long as FlowInv holds.
Passive == PassiveInFlight /\ PassiveRestsWhole

LEMMA NextPassive ==
    FlowInv /\ Passive /\ [Next]_<<bookVars, flowVars>> => Passive'
<1>. SUFFICES ASSUME FlowInv, Passive, [Next]_<<bookVars, flowVars>>
              PROVE  Passive'
  OBVIOUS
<1>1. CASE Issue
  BY <1>1, PassiveIssue DEF Passive
<1>2. CASE BookSteps
  BY <1>2, PassiveBookSteps DEF Passive
<1>3. CASE Complete
  BY <1>3 DEF Complete, Passive, PassiveInFlight, PassiveRestsWhole
<1>4. CASE UNCHANGED <<bookVars, flowVars>>
  BY <1>4 DEF bookVars, flowVars, Passive, PassiveInFlight, PassiveRestsWhole,
              PassiveWithRoom, P!Far, P!Crosses
<1>. QED  BY <1>1, <1>2, <1>3, <1>4 DEF Next

LEMMA InitPassive == Init => Passive
BY SameInit DEF Init, P!Init, Passive, PassiveInFlight, PassiveRestsWhole

-----------------------------------------------------------------------------
(***************************************************************************)
(* The theorems                                                            *)
(***************************************************************************)

\* However long the flow, the mid price stays above the deepest tail, ids stay
\* within the range reserved for them, and the pool and the pending operation
\* keep their types.
THEOREM TypeCorrect == Spec => []TypeOK
<1>1. FlowInv => TypeOK
  <2>. SUFFICES ASSUME FlowInv  PROVE TypeOK
    OBVIOUS
  <2>1. Due \in {0, 1}
    BY DEF Due
  <2>2. /\ mid \in (TailTicks + 1)..(StartMid + MixedOps)
        /\ next_id \in Ids \cup {TargetDepth + MixedOps + 1}
        /\ steps \in 0..MixedOps
    BY <2>1, Numbers DEF FlowInv, Counts, Ids
  <2>. QED  BY <2>2 DEF FlowInv, IdsGivenOut, BookIsAtIt, TypeOK
<1>. QED  BY <1>1, FlowInvariance, PTL

\* The book accepts every operation of the flow, although the pool the
\* operations are drawn from holds stale ids: an added id is new, and a modified
\* order still rests.
THEOREM OperationsAreAccepted == Spec => []EveryOpAccepted
<1>1. FlowInv => EveryOpAccepted
  BY DEF FlowInv, BookIsAtIt, EveryOpAccepted
<1>. QED  BY <1>1, FlowInvariance, PTL

\* No resting order is ever lost from the pool: not when take() throws ids away,
\* not when a marketable order rests, not in a sweep.
THEOREM PoolIsComplete == Spec => []PoolCoversBook
<1>1. FlowInv => PoolCoversBook
  BY RestingIs DEF FlowInv, PoolKnows, PoolCoversBook
<1>. QED  BY <1>1, FlowInvariance, PTL

\* A ring with room for the lots of the largest marketable order, drained after
\* every operation, never drops a trade.
THEOREM NothingIsDropped == Spec => []NeverDrops
<1>1. FlowInv => NeverDrops
  BY DEF FlowInv, RingHasRoom, NeverDrops
<1>. QED  BY <1>1, FlowInvariance, PTL

\* Whatever the draws, an added or re-priced order rests whole if there is a price
\* behind the far touch: a modify that follows the mid price, an order added
\* behind a touch that moved past the mid price, a draw that wraps.
THEOREM PassiveOrdersRest == Spec => []PassiveRestsWhole
<1>1. Passive => PassiveRestsWhole
  BY DEF Passive
<1>2. Spec => []FlowInv
  BY FlowInvariance
<1>. QED  BY <1>1, <1>2, InitPassive, NextPassive, PTL DEF Spec
=============================================================================
