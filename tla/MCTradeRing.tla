---------------------------- MODULE MCTradeRing -----------------------------
(***************************************************************************)
(* TradeRing for TLC. Three trades are asked for, so four fit; the cursors *)
(* are four-bit words, so both wrap around after sixteen trades.           *)
(***************************************************************************)
EXTENDS TradeRing, TLC

TradeSymmetry == Permutations(Trades)
=============================================================================
