---------------------------- MODULE OrderQueues -----------------------------
(***************************************************************************)
(* The queues of the price levels, threaded through the slot pool:         *)
(* OrderBook::append, detach, insert and remove in src/order_book.cpp.     *)
(* Each level has the two ends of its queue and a running total; each slot *)
(* has its neighbours' indices. The history variables say which slots      *)
(* every queue and the free list ought to hold, in order.                  *)
(*                                                                         *)
(* The pool's vector lives in a block of HugePages; a slot fills a page.   *)
(***************************************************************************)
EXTENDS QueueLinks, HugePages, FiniteSetsExt, SequencesExt

CONSTANTS
    Prices,
    MaxQty,
    SlotLimit       \* one more than the largest slot the id index can name

ASSUME QueuesAssumption == MaxQty \in Nat /\ SlotLimit \in 1..kNoSlot

VARIABLES
    pool,
    levels,         \* levels[p]: PriceLevel
    block,          \* where the pool's vector is, and its capacity
    mapped,         \* the pages that are mapped
    queued,         \* history: queued[p], the slots resting at p, oldest first
    freed,          \* history: the slots released since last used, newest first
    leaked          \* history: slots acquired by an insert that then threw

memory == <<block, mapped>>
vars == <<pool, levels, memory, queued, freed, leaked>>

Init == /\ pool = NewPool
        /\ levels = [p \in Prices |-> EmptyLevel]
        /\ \E a \in Allocations({}, pool.size) :
               /\ block = [start |-> a.start, capacity |-> pool.size]
               /\ mapped = a.mapped
        /\ queued = [p \in Prices |-> <<>>]
        /\ freed = <<>>
        /\ leaked = {}

-----------------------------------------------------------------------------
\* The history of one acquire(): the newest free slot leaves the free list.
TakesFree == freed' = IF pool.free_head # kNoSlot THEN Tail(freed) ELSE freed

\* slots.resize() in grow(): the vector moves to a block of twice the size, and
\* gives its old one back.
Moves ==
    IF pool'.size = pool.size THEN UNCHANGED memory
    ELSE \E a \in Allocations(mapped, 2 * pool.size) :
             /\ block' = [start |-> a.start, capacity |-> 2 * pool.size]
             /\ mapped' = Deallocated(a.mapped, block.start, block.capacity)

\* OrderBook::insert: the order takes a slot and joins the queue at its price.
Insert(p, qty) ==
    LET i == NextSlot(pool) IN
    /\ ~Exhausted(pool)
    /\ i < SlotLimit
    /\ pool' = AppendLinks([Acquire(pool) EXCEPT
                               !.slots[i].value = [price |-> p, qty |-> qty]],
                           levels[p], i)
    /\ levels' = [levels EXCEPT ![p] = AppendLevel(@, i, qty)]
    /\ queued' = [queued EXCEPT ![p] = Append(@, i)]
    /\ TakesFree /\ Moves
    /\ UNCHANGED leaked

\* OrderBook::insert throws "over 2^31 resting orders": the slot is acquired
\* by then, and nothing gives it back.
InsertThrows ==
    /\ ~Exhausted(pool)
    /\ NextSlot(pool) >= SlotLimit
    /\ pool' = Acquire(pool)
    /\ leaked' = leaked \cup {NextSlot(pool)}
    /\ TakesFree /\ Moves
    /\ UNCHANGED <<levels, queued>>

\* The history of a slot that leaves queue q.
Without(q, i) == RemoveAt(q, CHOOSE k \in DOMAIN q : q[k] = i)

\* detach() of slot i from the queue at p, whose pool and level are P and level.
Detach(P, level, p, i) ==
    /\ pool' = Release(DetachLinks(P, i), i)
    /\ levels' = [levels EXCEPT ![p] = DetachLevel(level, P.slots[i])]
    /\ queued' = [queued EXCEPT ![p] = Without(@, i)]
    /\ freed' = <<i>> \o freed
    /\ UNCHANGED memory

\* OrderBook::remove of the order in slot i, which knows its own price; also a
\* maker that self-trade prevention cancels.
RemoveOrder(i) ==
    LET p == pool.slots[i].value.price IN
    /\ Detach(pool, levels[p], p, i)
    /\ UNCHANGED leaked

\* A fill in OrderBook::match: the oldest order at p trades n, and leaves the
\* queue once nothing of it is left.
Fill(p, n) ==
    LET i == levels[p].head
        P == [pool EXCEPT !.slots[i].value.qty = @ - n]
        level == [levels[p] EXCEPT !.total_qty = @ - n]
    IN
    /\ i # kNoSlot
    /\ n <= pool.slots[i].value.qty
    /\ IF P.slots[i].value.qty = 0
       THEN Detach(P, level, p, i)
       ELSE /\ pool' = P
            /\ levels' = [levels EXCEPT ![p] = level]
            /\ UNCHANGED <<memory, queued, freed>>
    /\ UNCHANGED leaked

Next == \/ \E p \in Prices, qty \in 1..MaxQty : Insert(p, qty) \/ Fill(p, qty)
        \/ InsertThrows
        \/ \E p \in Prices : \E k \in DOMAIN queued[p] : RemoveOrder(queued[p][k])

Spec == Init /\ [][Next]_vars

-----------------------------------------------------------------------------
Value == [price : Prices, qty : 1..MaxQty]
SlotIndex == 0..kNoSlot
Slot == [value : Value \cup {Garbage}, prev : SlotIndex, next : SlotIndex]

\* Pool, levels and histories have their types; the block never reaches the
\* reserved index, and never shrinks below what was used of it.
TypeOK == /\ pool.size \in 1..kNoSlot
          /\ pool \in [slots : [0..(pool.size - 1) -> Slot], size : 1..kNoSlot,
                       used : 0..pool.size, live : Nat,
                       free_head : SlotIndex, grow_count : Nat]
          /\ levels \in [Prices -> [total_qty : Nat, head : SlotIndex,
                                    tail : SlotIndex]]
          /\ queued \in [Prices -> Seq(0..(SlotLimit - 1))]
          /\ freed \in Seq(0..(kNoSlot - 1))
          /\ leaked \subseteq SlotLimit..(kNoSlot - 1)

\* s[k], or kNoSlot beyond either end.
At(s, k) == IF k \in DOMAIN s THEN s[k] ELSE kNoSlot

\* The queue walked from the level's head, by forward or by back links, is the
\* orders at that price in the order they joined: time priority survives any
\* removal from the middle, any reuse of slots and any growth of the block.
QueuesKeepTimeOrder ==
    \A p \in Prices : LET q == queued[p] IN
        /\ levels[p].head = At(q, 1) /\ levels[p].tail = At(q, Len(q))
        /\ \A k \in DOMAIN q :
               /\ pool.slots[q[k]].prev = At(q, k - 1)
               /\ pool.slots[q[k]].next = At(q, k + 1)
               /\ pool.slots[q[k]].value \in Value
               /\ pool.slots[q[k]].value.price = p

\* No slot is in two places of queues and free list, nor lost and in one.
NoSlotTwice ==
    /\ \A p, q \in Prices : \A j \in DOMAIN queued[p], k \in DOMAIN queued[q] :
           queued[p][j] = queued[q][k] => p = q /\ j = k
    /\ \A j, k \in DOMAIN freed : freed[j] = freed[k] => j = k
    /\ \A p \in Prices : ToSet(queued[p]) \cap (ToSet(freed) \cup leaked) = {}
    /\ ToSet(freed) \cap leaked = {}

\* SlotPool::consistent, and more: the free list holds the released slots, and
\* every slot ever used is in one place, once: a queue, the free list, or lost
\* to a failed insert. No slot is handed out while an order still rests in it.
SlotsAccountedFor ==
    /\ pool.free_head = At(freed, 1)
    /\ \A k \in DOMAIN freed : pool.slots[freed[k]].next = At(freed, k + 1)
    /\ (UNION {ToSet(queued[p]) : p \in Prices}) \cup ToSet(freed) \cup leaked
           = 0..(pool.used - 1)
    /\ NoSlotTwice
    /\ pool.live + Len(freed) = pool.used

\* The pool is in the memory that is mapped for it, from a boundary of huge pages
\* on, and nothing else is mapped: a block that crossed the threshold, moved or
\* was trimmed has left no page behind and lost none.
BlockIsMapped ==
    IF block.start = Heap THEN mapped = {}
    ELSE /\ block.start % kHugePage = 0
         /\ Pages(block.start, pool.size) \subseteq mapped
         /\ mapped = Pages(block.start, round_up(block.capacity))
=============================================================================
