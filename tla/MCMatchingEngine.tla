-------------------------- MODULE MCMatchingEngine --------------------------
(***************************************************************************)
(* MatchingEngine on small instances.                                      *)
(***************************************************************************)
EXTENDS MatchingEngine, TLC

\* Nothing in the book compares ids or owners other than for equality.
IdSymmetry == Permutations(Ids)
=============================================================================
