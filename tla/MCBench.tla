------------------------------ MODULE MCBench -------------------------------
(***************************************************************************)
(* The benchmark driver for TLC.                                           *)
(***************************************************************************)
EXTENDS Bench

\* One kind twice, one once and one not at all.
AFlow == {<<"add", "cancel", "add">>}

\* Half, three quarters and all of the samples.
Quarters == <<2, 3, 4>>
=============================================================================
