----------------------------- MODULE MCTileJobs -----------------------------
(* A small instance of TileJobs for TLC.                                   *)
EXTENDS TileJobs, TLC

CONSTANTS s1, s2

MCSlots == {s1, s2}
MCSymmetry == Permutations(MCSlots)
=============================================================================
