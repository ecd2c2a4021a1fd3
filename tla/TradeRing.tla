----------------------------- MODULE TradeRing ------------------------------
(***************************************************************************)
(* The trade ring (TradeRing in include/lob/order_book.hpp): a buffer of a *)
(* power-of-two size and two cursors that only ever count up, in machine   *)
(* words that wrap around.                                                 *)
(*                                                                         *)
(* Definitions marked "Slip" are wrong on purpose: each is the definition  *)
(* after it with a plausible coding mistake, and no specification uses it. *)
(***************************************************************************)
EXTENDS Naturals, Sequences

CONSTANTS
    Requested,      \* Config::trade_capacity
    Word,           \* the values of std::size_t are 0..(Word - 1)
    Trades,
    NoTrade,        \* no trade: an unwritten slot, pop() returning false
    MaxDrops        \* bound on dropped trades

ASSUME RingAssumption ==
    /\ Word \in Nat \ {0, 1}
    /\ \A d \in 2..Word : Word % d = 0 => d % 2 = 0     \* a power of two
    /\ Requested \in Nat /\ 2 * Requested <= Word
    /\ NoTrade \notin Trades
    /\ MaxDrops \in Nat

\* A power of two has no divisors but the smaller powers of two.
Powers == {d \in 1..Word : Word % d = 0}

\* Slip: the capacity is taken as it was asked for.
RoundUpPow2_Exact(n) == n

\* round_up_pow2(): the first power of two that is not below n.
RoundUpPow2(n) ==
    CHOOSE d \in Powers : d >= n /\ \A e \in Powers : e >= n => d <= e

\* buffer.size()
Size == RoundUpPow2(IF Requested = 0 THEN 1 ELSE Requested)

VARIABLES
    buffer,
    head,           \* write cursor
    tail,           \* read cursor
    drop_count,
    out             \* what the last pop() answered

vars == <<buffer, head, tail, drop_count, out>>

\* The constructor: every slot holds a value-initialised trade.
Init == /\ buffer = [i \in 0..(Size - 1) |-> NoTrade]
        /\ head = 0 /\ tail = 0 /\ drop_count = 0
        /\ out = NoTrade

\* ++cursor on an unsigned word.
Bump(cursor) == (cursor + 1) % Word

\* cursor & mask: the size is a power of two, so masking is the remainder.
Slot(cursor) == cursor % Size

\* size(): the difference of two unsigned words.
Unread == (head + Word - tail) % Word

\* Slip: one more trade than there are slots.
Full_OneLate == Unread > Size

Full == Unread = Size

\* A full ring: the trade is dropped and counted.
Drop == /\ Full
        /\ drop_count < MaxDrops
        /\ drop_count' = drop_count + 1
        /\ UNCHANGED <<buffer, head, tail>>

Store(t) == /\ ~Full
            /\ buffer' = [buffer EXCEPT ![Slot(head)] = t]
            /\ head' = Bump(head)
            /\ UNCHANGED <<tail, drop_count>>

Record(t) == Drop \/ Store(t)

\* push()
Push(t) == Record(t) /\ UNCHANGED out

\* The oldest unread trade has been read.
Consume == /\ head # tail
           /\ tail' = Bump(tail)
           /\ UNCHANGED <<buffer, head, drop_count>>

\* pop(); drain_trades() calls it until it answers false.
Pop == \/ /\ head = tail
          /\ out' = NoTrade
          /\ UNCHANGED <<buffer, head, tail, drop_count>>
       \/ /\ Consume
          /\ out' = buffer[Slot(tail)]

Next == Pop \/ \E t \in Trades : Push(t)

Spec == Init /\ [][Next]_vars

-----------------------------------------------------------------------------
\* Cursors are words, and the unread trades fit the buffer: head never laps
\* tail, wherever the words wrap around.
TypeOK == /\ buffer \in [0..(Size - 1) -> Trades \cup {NoTrade}]
          /\ head \in 0..(Word - 1) /\ tail \in 0..(Word - 1)
          /\ Unread <= Size
          /\ drop_count \in 0..MaxDrops
          /\ out \in Trades \cup {NoTrade}

Tape == INSTANCE TradeTape WITH
            Capacity <- Size,
            tape <- [k \in 1..Unread |-> buffer[Slot(tail + k - 1)]]

\* The ring is a bounded queue: trades come out in the order they went in, and
\* one that does not fit is "dropped and counted, never silently lost".
ImplementsTape == Tape!Spec
=============================================================================
