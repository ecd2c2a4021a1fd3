--------------------------- MODULE MCOrderQueues ----------------------------
(***************************************************************************)
(* OrderQueues for TLC. The slot index is scaled down to three bits: seven *)
(* slots at most, of which the id index can name four.                     *)
(***************************************************************************)
EXTENDS OrderQueues

PriceSymmetry == Permutations(Prices)
=============================================================================
