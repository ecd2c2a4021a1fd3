----------------------------- MODULE TradeTape ------------------------------
(***************************************************************************)
(* What the trade ring promises: a bounded queue of trades. A trade that   *)
(* does not fit is counted and never displaces one that is still unread.   *)
(***************************************************************************)
EXTENDS Naturals, Sequences

CONSTANTS
    Trades,
    Capacity,       \* how many unread trades fit
    NoTrade         \* what pop() answers when there is none

VARIABLES
    tape,           \* the unread trades, oldest first
    drop_count,
    out             \* what the last pop() answered

Init == tape = <<>> /\ drop_count = 0 /\ out = NoTrade

Push(t) == /\ tape' = IF Len(tape) < Capacity THEN Append(tape, t) ELSE tape
           /\ drop_count' = IF Len(tape) < Capacity THEN drop_count
                            ELSE drop_count + 1
           /\ UNCHANGED out

Pop == /\ out' = IF tape = <<>> THEN NoTrade ELSE Head(tape)
       /\ tape' = IF tape = <<>> THEN tape ELSE Tail(tape)
       /\ UNCHANGED drop_count

Next == Pop \/ \E t \in Trades : Push(t)

Spec == Init /\ [][Next]_<<tape, drop_count, out>>
=============================================================================
