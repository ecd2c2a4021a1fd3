------------------------------ MODULE SlotPool ------------------------------
(***************************************************************************)
(* The pool of order slots (include/lob/slot_pool.hpp): one block of slots *)
(* addressed by index, a LIFO free list threaded through the slots that    *)
(* were released, and a block that doubles when it runs out.               *)
(*                                                                         *)
(* The operators are functions of a pool P; OrderQueues applies them.      *)
(*                                                                         *)
(* Definitions marked "Slip" are wrong on purpose: each is the definition  *)
(* after it with a plausible coding mistake, and no specification uses it. *)
(***************************************************************************)
EXTENDS Naturals

CONSTANTS
    kNoSlot,        \* the largest SlotIndex, reserved: no slot has it
    InitialSlots,   \* the capacity the pool is built with
    Garbage         \* the value of a slot nobody holds

ASSUME PoolAssumption == kNoSlot \in Nat /\ InitialSlots \in 0..kNoSlot

FreshSlot == [value |-> Garbage, prev |-> kNoSlot, next |-> kNoSlot]

\* A pool has at least one slot.
NewPool == LET n == IF InitialSlots = 0 THEN 1 ELSE InitialSlots IN
           [slots |-> [i \in 0..(n - 1) |-> FreshSlot], size |-> n,
            used |-> 0, live |-> 0, free_head |-> kNoSlot, grow_count |-> 0]

\* No free slot is left, and the block has every index: grow() throws.
Exhausted(P) == P.free_head = kNoSlot /\ P.used = P.size /\ P.size >= kNoSlot

\* Slip: doubling a large block goes past the last index.
Bigger_Doubles(size) == size * 2

\* The size of a block that grows.
Bigger(size) == IF size > kNoSlot \div 2 THEN kNoSlot ELSE size * 2

Grow(P) ==
    [P EXCEPT !.slots = [i \in 0..(Bigger(P.size) - 1) |->
                            IF i < P.size THEN P.slots[i] ELSE FreshSlot],
              !.size = Bigger(P.size),
              !.grow_count = @ + 1]

\* The index acquire() hands out.
NextSlot(P) == IF P.free_head # kNoSlot THEN P.free_head ELSE P.used

\* acquire(): the newest free slot, or one that was never used.
Acquire(P) ==
    LET i == NextSlot(P)
        reuse == P.free_head # kNoSlot
        G == IF ~reuse /\ P.used = P.size THEN Grow(P) ELSE P
    IN  [G EXCEPT !.slots[i].prev = kNoSlot,
                  !.slots[i].next = kNoSlot,
                  !.free_head = IF reuse THEN P.slots[i].next ELSE @,
                  !.used = IF reuse THEN @ ELSE @ + 1,
                  !.live = @ + 1]

\* Slip: the rest of the free list is lost.
Release_DropsList(P, i) ==
    [P EXCEPT !.slots[i] = FreshSlot, !.free_head = i, !.live = @ - 1]

\* release(): the slot heads the free list, and its value is no longer valid.
Release(P, i) ==
    [P EXCEPT !.slots[i] = [value |-> Garbage, prev |-> kNoSlot,
                            next |-> P.free_head],
              !.free_head = i,
              !.live = @ - 1]
=============================================================================
