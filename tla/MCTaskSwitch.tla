---------------------------- MODULE MCTaskSwitch ----------------------------
(* Small instances of TaskSwitch for TLC. *)
EXTENDS TaskSwitch, TLC

CONSTANTS h1, h2

HartSymmetry == Permutations(Harts)
=============================================================================
