----------------------------- MODULE QueueLinks -----------------------------
(***************************************************************************)
(* A price level's queue, threaded through the slots of the pool           *)
(* (OrderBook::append and detach in src/order_book.cpp): the level has the *)
(* two ends and a running total, each slot its neighbours' indices.        *)
(*                                                                         *)
(* Definitions marked "Slip" are wrong on purpose: each is the definition  *)
(* after it with a plausible coding mistake, and no specification uses it. *)
(***************************************************************************)
EXTENDS SlotPool

EmptyLevel == [total_qty |-> 0, head |-> kNoSlot, tail |-> kNoSlot]

\* What append() leaves in the pool: slot i is the new end of the level's queue.
AppendLinks(P, level, i) ==
    LET s == [P EXCEPT !.slots[i].prev = level.tail, !.slots[i].next = kNoSlot]
    IN  IF level.tail = kNoSlot THEN s ELSE [s EXCEPT !.slots[level.tail].next = i]

\* What append() makes of the level.
AppendLevel(level, i, qty) ==
    [total_qty |-> level.total_qty + qty,
     head |-> IF level.tail = kNoSlot THEN i ELSE level.head,
     tail |-> i]

\* Slip: the successor keeps its back link.
DetachLinks_ForwardOnly(P, i) ==
    LET s == P.slots[i] IN
    IF s.prev = kNoSlot THEN P ELSE [P EXCEPT !.slots[s.prev].next = s.next]

\* detach(): the neighbours of slot i are linked to each other.
DetachLinks(P, i) ==
    LET s == P.slots[i]
        Q == IF s.prev = kNoSlot THEN P ELSE [P EXCEPT !.slots[s.prev].next = s.next]
    IN  IF s.next = kNoSlot THEN Q ELSE [Q EXCEPT !.slots[s.next].prev = s.prev]

\* detach(): the ends of the queue and its total without slot s.
DetachLevel(level, s) ==
    [total_qty |-> level.total_qty - s.value.qty,
     head |-> IF s.prev = kNoSlot THEN s.next ELSE level.head,
     tail |-> IF s.next = kNoSlot THEN s.prev ELSE level.tail]
=============================================================================
