-------------------------- MODULE MCFlowGenerator ---------------------------
(***************************************************************************)
(* FlowGenerator for TLC. Participants are interchangeable.                *)
(***************************************************************************)
EXTENDS FlowGenerator, TLC

Symmetry == Permutations(Owners \ {kAnonymous})
=============================================================================
