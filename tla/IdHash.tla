------------------------------- MODULE IdHash -------------------------------
(***************************************************************************)
(* The hash of the id index (IdIndex::home in include/lob/id_index.hpp).   *)
(***************************************************************************)
EXTENDS Integers, Bitwise

\* countr_zero of a power of two.
Bits(capacity) == CHOOSE k \in 0..capacity : 2 ^ k = capacity

\* home(): the id with its high bits folded in, masked.
Home(id, capacity) == (id ^^ (id \div 2 ^ Bits(capacity))) & (capacity - 1)
=============================================================================
