--------------------------- MODULE MCPriceLadder ----------------------------
(***************************************************************************)
(* PriceLadder on small instances: every price up to MaxPrice is used,     *)
(* and a level holds nothing, one order or more.                           *)
(***************************************************************************)
EXTENDS PriceLadder

SomeLevels == {"empty", "one", "many"}
=============================================================================
