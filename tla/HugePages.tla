----------------------------- MODULE HugePages ------------------------------
(***************************************************************************)
(* The allocator of the book's vectors (include/lob/huge_pages.hpp): a     *)
(* block of at least a huge page is mapped afresh, trimmed to a boundary,  *)
(* and unmapped by its size; a smaller one comes from operator new. The    *)
(* operators are functions of the set of pages that are mapped, and count  *)
(* in pages. mmap, external, may answer with any run of free pages; a      *)
(* mapping that fails is left to OrderBook, and the advice has no effect.  *)
(*                                                                         *)
(* Definitions marked "Slip" are wrong on purpose: each is the definition  *)
(* after it with a plausible coding mistake, and no specification uses it. *)
(***************************************************************************)
EXTENDS Integers

CONSTANTS
    kHugePage,
    AddressSpace,   \* the pages mmap may use are 0..(AddressSpace - 1)
    Heap            \* where operator new puts a block

ASSUME PagesAssumption == /\ kHugePage \in Nat \ {0} /\ AddressSpace \in Nat
                          /\ Heap \notin Nat

Pages(start, size) == start..(start + size - 1)

round_up(size) == ((size + kHugePage - 1) \div kHugePage) * kHugePage

\* Where mmap may map `size` pages.
FreeRuns(mapped, size) ==
    {base \in 0..(AddressSpace - size) : Pages(base, size) \cap mapped = {}}

\* map_huge(), once mmap has answered base: a huge page too many is mapped, and
\* the slack on either side is unmapped again.
Trimmed(mapped, base, size) ==
    LET start == round_up(base)
        end == base + size + kHugePage
    IN  (mapped \cup Pages(base, size + kHugePage))
            \ (Pages(base, start - base) \cup Pages(start + size, end - (start + size)))

\* allocate(): the block and the pages mapped afterwards, as mmap may choose.
Allocations(mapped, size) ==
    IF size < kHugePage THEN {[start |-> Heap, mapped |-> mapped]}
    ELSE {[start |-> round_up(base),
           mapped |-> Trimmed(mapped, base, round_up(size))] :
              base \in FreeRuns(mapped, round_up(size) + kHugePage)}

\* Slip: the pages that rounding up had added stay mapped.
Deallocated_Exact(mapped, start, size) ==
    IF size < kHugePage THEN mapped ELSE mapped \ Pages(start, size)

\* deallocate(): the size alone says where the block came from.
Deallocated(mapped, start, size) ==
    IF size < kHugePage THEN mapped ELSE mapped \ Pages(start, round_up(size))
=============================================================================
