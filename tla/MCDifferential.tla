--------------------------- MODULE MCDifferential ---------------------------
(***************************************************************************)
(* The book beside its reference for TLC.                                  *)
(***************************************************************************)
EXTENDS MCOrderBook, Differential
=============================================================================
