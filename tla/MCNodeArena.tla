---------------------------- MODULE MCNodeArena -----------------------------
(***************************************************************************)
(* NodeArena for TLC, in granules of two bytes: three size classes, slabs  *)
(* of five granules of which one is the header.                            *)
(***************************************************************************)
EXTENDS NodeArena
=============================================================================
