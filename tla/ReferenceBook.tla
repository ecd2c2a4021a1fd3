--------------------------- MODULE ReferenceBook ----------------------------
(***************************************************************************)
(* The naive book of the differential tests (tests/reference_book.hpp):    *)
(* one flat vector of resting orders, and a linear scan for everything.    *)
(* The operators are functions of a book R = [resting, trade_log]; a call  *)
(* answers the book it leaves and its report.                              *)
(*                                                                         *)
(* Orders are pushed at the back with growing arrival numbers and erasing  *)
(* keeps their order, so an order's position stands for its arrival; the   *)
(* log is never cleared, so its length stands for next_seq.                *)
(*                                                                         *)
(* Definitions marked "Slip" are wrong on purpose: each is the definition  *)
(* after it with a plausible coding mistake, and no specification uses it. *)
(***************************************************************************)
EXTENDS Integers, Sequences, SequencesExt, FiniteSetsExt

CONSTANTS kAnonymous, NoLimit, NoPrice

NewReference == [resting |-> <<>>, trade_log |-> <<>>]

DefaultReport == [first_seq |-> 0, trade_count |-> 0, filled |-> 0,
                  remaining |-> 0, stp_cancelled |-> 0, rested |-> FALSE,
                  accepted |-> TRUE, stp_halted |-> FALSE]

Rejected(R, qty) == [book |-> R, rep |-> [DefaultReport EXCEPT
                                             !.accepted = FALSE, !.remaining = qty]]

\* find(): the position of the order, 0 for nullptr.
Position(R, id) == SelectInSeq(R.resting, LAMBDA r : r.id = id)

Beats(side, p, q) == IF side = "Buy" THEN p > q ELSE p < q

OnSide(R, side) == {i \in DOMAIN R.resting : R.resting[i].side = side}

\* Slip: among equal prices the newest order trades.
NextMaker_Newest(R, side) ==
    CHOOSE i \in OnSide(R, side) : \A j \in OnSide(R, side) \ {i} :
        \/ Beats(side, R.resting[i].price, R.resting[j].price)
        \/ R.resting[i].price = R.resting[j].price /\ i > j

\* next_maker(): the best price of the maker's side, then the earliest arrival.
NextMaker(R, side) ==
    CHOOSE i \in OnSide(R, side) : \A j \in OnSide(R, side) \ {i} :
        \/ Beats(side, R.resting[i].price, R.resting[j].price)
        \/ R.resting[i].price = R.resting[j].price /\ i < j

\* best_price()
BestOf(R, side) == IF OnSide(R, side) = {} THEN NoPrice
                   ELSE R.resting[NextMaker(R, side)].price

\* One turn of the loop of submit(), for the taker o, under a policy. S is the
\* book, the report, the quantity left and whether the loop goes on.
Turn(S, o, policy) ==
    LET side == IF o.side = "Buy" THEN "Sell" ELSE "Buy"
        i == NextMaker(S.book, side)
        maker == S.book.resting[i]
        crosses == \/ o.limit = NoLimit
                   \/ maker.price = o.limit
                   \/ Beats(side, maker.price, o.limit)
        self == policy # "Allow" /\ o.owner # kAnonymous /\ o.owner = maker.owner
        seq == Len(S.book.trade_log) + 1
        traded == IF S.left < maker.qty THEN S.left ELSE maker.qty
        trade == [seq |-> seq, maker_id |-> maker.id, taker_id |-> o.id,
                  price |-> maker.price, qty |-> traded, taker_side |-> o.side]
    IN  CASE OnSide(S.book, side) = {} \/ ~crosses ->
               [S EXCEPT !.going = FALSE]
          [] OTHER ->
               IF self /\ policy = "CancelIncoming"
               THEN [S EXCEPT !.going = FALSE, !.rep.stp_halted = TRUE]
               ELSE IF self
               THEN [S EXCEPT !.book.resting = RemoveAt(@, i),
                              !.rep.stp_cancelled = @ + maker.qty]
               ELSE [S EXCEPT
                       !.book.resting = IF traded = maker.qty THEN RemoveAt(@, i)
                                        ELSE [@ EXCEPT ![i].qty = @ - traded],
                       !.book.trade_log = Append(@, trade),
                       !.left = @ - traded,
                       !.rep.first_seq = IF S.rep.trade_count = 0 THEN seq ELSE @,
                       !.rep.trade_count = @ + 1,
                       !.rep.filled = @ + traded]

\* submit(). Every turn takes a maker off the book or is the last one.
Submit(R, policy, id, owner, side, limit, qty) ==
    LET o == [id |-> id, owner |-> owner, side |-> side, limit |-> limit]
        start == [book |-> R, rep |-> DefaultReport, left |-> qty, going |-> TRUE]
        turns == Len(R.resting) + 1
        after[k \in 0..turns] ==
            IF k = 0 THEN start
            ELSE LET T == after[k - 1] IN
                 IF T.left > 0 /\ T.going THEN Turn(T, o, policy) ELSE T
        S == after[turns]
        rests == limit # NoLimit /\ S.left > 0 /\ ~S.rep.stp_halted
        order == [id |-> id, owner |-> owner, price |-> limit, qty |-> S.left,
                  side |-> side]
    IN  IF qty = 0 \/ Position(R, id) # 0 THEN Rejected(R, qty)
        ELSE [book |-> IF rests THEN [S.book EXCEPT !.resting = Append(@, order)]
                       ELSE S.book,
              rep |-> [S.rep EXCEPT !.remaining = S.left, !.rested = rests]]

\* cancel()
Cancel(R, id) == IF Position(R, id) = 0 THEN R
                 ELSE [R EXCEPT !.resting = RemoveAt(@, Position(R, id))]

\* modify()
Modify(R, policy, id, price, qty) ==
    LET live == R.resting[Position(R, id)] IN
    IF Position(R, id) = 0 THEN Rejected(R, qty)
    ELSE IF qty = 0 THEN [book |-> Cancel(R, id), rep |-> DefaultReport]
    ELSE Submit(Cancel(R, id), policy, id, live.owner, live.side, price, qty)

\* queue_snapshot(): bids then asks, best price first, then by arrival.
QueueSnapshot(R) ==
    LET before(i, j) ==
            LET a == R.resting[i]
                b == R.resting[j]
            IN  IF a.side # b.side THEN a.side = "Buy"
                ELSE IF a.price # b.price THEN Beats(a.side, a.price, b.price)
                ELSE i < j
        sorted == SetToSortSeq(DOMAIN R.resting, before)
    IN  [k \in DOMAIN sorted |-> R.resting[sorted[k]]]
=============================================================================
