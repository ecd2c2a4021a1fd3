----------------------------- MODULE MCIdIndex ------------------------------
(***************************************************************************)
(* IdIndex for TLC, with the hash of the code, tabulated. The ids collide  *)
(* at the end of a table of four, and of one of eight, so that runs wrap   *)
(* around both.                                                            *)
(***************************************************************************)
EXTENDS IdIndex, IdHash

Homes == [id \in Ids, cap \in {4, 8} |-> Home(id, cap)]
TabulatedHome(id, cap) == Homes[id, cap]
=============================================================================
