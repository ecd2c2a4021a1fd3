---------------------------- MODULE Differential ----------------------------
(***************************************************************************)
(* The book and the reference book side by side, given the same calls      *)
(* (tests/diff_harness.cpp): run_engine and run_reference in lockstep, the *)
(* reference answering a whole call when the book begins it. Every         *)
(* sequence of calls is tried, where the tests draw some at random.        *)
(***************************************************************************)
EXTENDS OrderBook

Ref == INSTANCE ReferenceBook

VARIABLES
    ref,            \* the reference book
    ref_rep,        \* its report of the call that is running
    seen,           \* history: Contents and UnreadTrades, as of this state
    peak            \* history: the most orders that ever rested

harness == <<ref, ref_rep, seen, peak>>

\* The harness looks at the book after every step that changes it.
Observe == /\ seen' = [book |-> IF UNCHANGED storage THEN seen.book ELSE Contents',
                        tape |-> IF UNCHANGED ring THEN seen.tape ELSE UnreadTrades']
           /\ peak' = IF count' > peak THEN count' ELSE peak

DiffInit == /\ Init
            /\ ref = Ref!NewReference /\ ref_rep = Ref!DefaultReport
            /\ seen = [book |-> Contents, tape |-> UnreadTrades]
            /\ peak = 0

\* The reference answers the same call.
Mirror(answer) == ref' = answer.book /\ ref_rep' = answer.rep

DiffAdd(o, limit) ==
    /\ IF limit = NoLimit THEN AddMarket(o.id, o.owner, o.side, o.qty)
                          ELSE AddLimit(o.id, o.owner, o.side, limit, o.qty)
    /\ Mirror(Ref!Submit(ref, policy, o.id, o.owner, o.side, limit, o.qty))
    /\ Observe

DiffModify(id, price, qty) ==
    /\ Modify(id, price, qty)
    /\ Mirror(Ref!Modify(ref, policy, id, price, qty))
    /\ Observe

DiffCancel(id) ==
    /\ Cancel(id)
    /\ ref' = Ref!Cancel(ref, id) /\ UNCHANGED ref_rep
    /\ Observe

DiffStep == Step /\ UNCHANGED <<ref, ref_rep>> /\ Observe

DiffPop == Pop /\ UNCHANGED <<ref, ref_rep>> /\ Observe

DiffNext ==
    \/ \E o \in Orders, limit \in Ticks \cup {NoLimit} : DiffAdd(o, limit)
    \/ \E id \in Ids :
           \/ \E price \in Ticks, qty \in Wanted(id) : DiffModify(id, price, qty)
           \/ DiffCancel(id)
    \/ DiffStep
    \/ DiffPop

DiffSpec == DiffInit /\ [][DiffNext]_<<vars, harness>>

-----------------------------------------------------------------------------
\* for_each_resting(): bids then asks, best level first, each level in queue
\* order.
Snapshot ==
    LET orders(side) ==
            FlattenSeq([k \in DOMAIN VisitOrder(side) |->
                LET p == VisitOrder(side)[k] IN
                [i \in DOMAIN Queue(side, p) |->
                    pool.slots[Queue(side, p)[i]].value @@ [side |-> side]]])
    IN  orders("Buy") \o orders("Sell")

\* find(): a copy of the order, put together from its slot and its index entry.
FindOrder(id) == pool.slots[slot_of(Entry(id))].value @@ [side |-> side_of(Entry(id))]

\* "If the two ever produce different trades, one of them is wrong": whenever no
\* call is running, the book has the reports, the trades, the queues, the best
\* prices and the live ids of the reference, whatever became of its windows,
\* slots and table.
AgreesWithReference ==
    pc # "match" =>
        /\ pc = "done" => rep = ref_rep
        /\ next_seq = Len(ref.trade_log) + 1
        /\ \A t \in ToSet(UnreadTrades) : t = ref.trade_log[t.seq]
        /\ Snapshot = Ref!QueueSnapshot(ref)
        /\ \A s \in Sides : BestPrice(s) = Ref!BestOf(ref, s)
        /\ \A id \in Ids : IF Ref!Position(ref, id) = 0 THEN Entry(id) = Absent
                           ELSE /\ Entry(id) # Absent
                                /\ FindOrder(id) = ref.resting[Ref!Position(ref, id)]

Matching == INSTANCE MatchingEngine WITH
                Prices <- Ticks, book <- seen.book, ring <- seen.tape,
                Capacity <- Ring!Size

\* The book of ladders, slots, links, index and ring is the book MatchingEngine
\* describes: every step of a call does to the stored book what the engine does
\* to its queues, and no caller can tell the two apart.
ImplementsEngine == Matching!Spec

\* Config::expected_orders: "A book that stays within it never allocates or
\* rehashes while matching", however its orders came and went: of the slot pool
\* and the id index. The arena of the fallback map is not in this model.
NoGrowthWithinPlan ==
    peak <= ExpectedOrders => pool.grow_count = 0 /\ grow_count = 0
=============================================================================
