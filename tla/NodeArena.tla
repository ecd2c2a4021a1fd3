----------------------------- MODULE NodeArena ------------------------------
(***************************************************************************)
(* The arena behind the fallback map (include/lob/node_arena.hpp and       *)
(* src/node_arena.cpp): slabs, a cursor into the newest, and one LIFO free *)
(* list per size class. A block is named by its slab and its offset in     *)
(* bytes. Requests above kMaxBlock go to the system and touch nothing here.*)
(*                                                                         *)
(* Definitions marked "Slip" are wrong on purpose: each is the definition  *)
(* after it with a plausible coding mistake, and no specification uses it. *)
(***************************************************************************)
EXTENDS Integers, Sequences, FiniteSets, Sums

CONSTANTS
    kGranule,       \* bytes per size-class step; a slab's header takes one
    kMaxBlock,      \* the largest block, in bytes
    kSlabBytes,     \* the size of a slab added on demand
    Requests,       \* the block sizes asked for, in bytes
    Reserves,       \* the reserve_bytes a book may be built with
    MaxSlabs,       \* bound on slabs
    MaxLive         \* bound on blocks in use

ASSUME ArenaAssumption ==
    /\ kGranule \in Nat \ {0} /\ kMaxBlock \in Nat \ {0} /\ kSlabBytes \in Nat
    /\ kMaxBlock % kGranule = 0 /\ kSlabBytes % kGranule = 0
    /\ kGranule + kMaxBlock <= kSlabBytes
    /\ Requests \subseteq 0..kMaxBlock /\ Reserves \subseteq Nat
    /\ MaxSlabs \in Nat /\ MaxLive \in Nat

VARIABLES
    slabs,          \* the size of every slab, oldest first
    cursor,         \* offset of the unused tail of the newest slab
    limit,          \* offset of its end
    free_list,      \* free_list[c]: the blocks of class c, newest first
    slab_total,
    live,           \* history: the blocks in use, with the bytes asked for
    tails           \* history: the unused tails left behind, in bytes

vars == <<slabs, cursor, limit, free_list, slab_total, live, tails>>

MaxClass == kMaxBlock \div kGranule

Classes == 1..MaxClass

\* Slip: the last bytes of a request are not counted.
SizeClass_RoundsDown(bytes) ==
    IF bytes < kGranule THEN 1 ELSE bytes \div kGranule

SizeClass(bytes) ==
    IF bytes = 0 THEN 1 ELSE (bytes + kGranule - 1) \div kGranule

-----------------------------------------------------------------------------
\* The constructor: a slab of its own for what is reserved.
Init == \E reserve \in Reserves :
    LET bytes == IF reserve + kGranule > kSlabBytes THEN reserve + kGranule
                 ELSE kSlabBytes
    IN  /\ IF reserve > 0
           THEN /\ slabs = <<bytes>> /\ slab_total = bytes
                /\ cursor = kGranule /\ limit = bytes
           ELSE /\ slabs = <<>> /\ slab_total = 0
                /\ cursor = 0 /\ limit = 0
        /\ free_list = [c \in Classes |-> <<>>]
        /\ live = {} /\ tails = <<>>

\* Slip: the blocks behind the first are forgotten.
Reuse_LosesRest(bytes) ==
    LET c == SizeClass(bytes)
        b == Head(free_list[c])
    IN
    /\ free_list[c] # <<>>
    /\ free_list' = [free_list EXCEPT ![c] = <<>>]
    /\ live' = live \cup {[slab |-> b.slab, off |-> b.off, bytes |-> bytes]}
    /\ UNCHANGED <<slabs, cursor, limit, slab_total, tails>>

\* A free block of the class is used again.
Reuse(bytes) ==
    LET c == SizeClass(bytes)
        b == Head(free_list[c])
    IN
    /\ free_list[c] # <<>>
    /\ free_list' = [free_list EXCEPT ![c] = Tail(@)]
    /\ live' = live \cup {[slab |-> b.slab, off |-> b.off, bytes |-> bytes]}
    /\ UNCHANGED <<slabs, cursor, limit, slab_total, tails>>

\* Slip: a new slab for every block that is not of the smallest class.
Fits_SmallOnly(size) == limit - cursor >= size /\ size = kGranule

\* Slip: any tail that is not used up will do.
Fits_AnyTail(size) == limit - cursor >= kGranule

\* The unused tail of the newest slab has room for a block.
Fits(size) == limit - cursor >= size

\* carve() from the newest slab.
CarveHere(bytes) ==
    LET size == SizeClass(bytes) * kGranule IN
    /\ free_list[SizeClass(bytes)] = <<>> /\ Fits(size)
    /\ cursor' = cursor + size
    /\ live' = live \cup {[slab |-> Len(slabs), off |-> cursor, bytes |-> bytes]}
    /\ UNCHANGED <<slabs, limit, free_list, slab_total, tails>>

\* carve() with add_slab(): the block opens a new slab, and the tail of the
\* one before is abandoned.
CarveNewSlab(bytes) ==
    LET size == SizeClass(bytes) * kGranule IN
    /\ free_list[SizeClass(bytes)] = <<>> /\ ~Fits(size)
    /\ Len(slabs) < MaxSlabs
    /\ slabs' = Append(slabs, kSlabBytes)
    /\ slab_total' = slab_total + kSlabBytes
    /\ cursor' = kGranule + size
    /\ limit' = kSlabBytes
    /\ live' = live \cup {[slab |-> Len(slabs) + 1, off |-> kGranule,
                           bytes |-> bytes]}
    /\ tails' = Append(tails, limit - cursor)
    /\ UNCHANGED free_list

Allocate(bytes) == /\ Cardinality(live) < MaxLive
                   /\ Reuse(bytes) \/ CarveHere(bytes) \/ CarveNewSlab(bytes)

\* deallocate(): the caller hands back the size it asked for.
Deallocate(b) ==
    /\ free_list' = [free_list EXCEPT ![SizeClass(b.bytes)] =
                        <<[slab |-> b.slab, off |-> b.off]>> \o @]
    /\ live' = live \ {b}
    /\ UNCHANGED <<slabs, cursor, limit, slab_total, tails>>

Next == \/ \E bytes \in Requests : Allocate(bytes)
        \/ \E b \in live : Deallocate(b)

Spec == Init /\ [][Next]_vars

-----------------------------------------------------------------------------
\* Slabs, cursors, free lists and blocks have their types, and slab_total is
\* what the slabs take.
TypeOK ==
    LET Block == [slab : DOMAIN slabs, off : Nat] IN
    /\ slabs \in Seq(Nat) /\ \A s \in DOMAIN slabs : slabs[s] >= kSlabBytes
    /\ cursor \in Nat /\ limit \in Nat /\ cursor <= limit
    /\ free_list \in [Classes -> Seq(Block)]
    /\ slab_total = SumOver(slabs, DOMAIN slabs, Len(slabs))
    /\ live \subseteq [slab : DOMAIN slabs, off : Nat, bytes : Requests]
    /\ tails \in Seq(Nat)

\* The bytes of a block of `bytes` bytes, as far as anyone may write them.
Bytes(b, bytes) == {<<b.slab, i>> : i \in b.off..(b.off + bytes - 1)}

\* A block in use is all its holder's: it is aligned, inside one slab and off
\* its header, and no other block in use or on a free list shares a byte with
\* it, whatever was freed and used again in which order.
BlocksDisjoint ==
    /\ \A b \in live : /\ b.off % kGranule = 0
                       /\ kGranule <= b.off
                       /\ b.off + b.bytes <= slabs[b.slab]
    /\ \A a, b \in live : a # b => Bytes(a, a.bytes) \cap Bytes(b, b.bytes) = {}
    /\ \A b \in live, c \in Classes : \A k \in DOMAIN free_list[c] :
           Bytes(b, b.bytes) \cap Bytes(free_list[c][k], c * kGranule) = {}

\* "The previous slab's tail, too small for the block that did not fit, is
\* abandoned: at most kMaxBlock bytes per slab."
LittleIsAbandoned == \A s \in DOMAIN tails : tails[s] <= kMaxBlock

\* The blocks of class c that were ever carved: in use or on the free list.
Carved(c) == Cardinality({b \in live : SizeClass(b.bytes) = c}) + Len(free_list[c])

\* Every byte of the slabs but the headers, the unused tail and what was
\* abandoned is in use or on a free list: nothing leaks.
NothingLeaks ==
    slab_total =
        Len(slabs) * kGranule
            + SumOver([c \in Classes |-> c * Carved(c)], Classes, MaxClass) * kGranule
            + (limit - cursor)
            + SumOver(tails, DOMAIN tails, Len(tails))
=============================================================================
