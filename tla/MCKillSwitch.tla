---------------------------- MODULE MCKillSwitch ----------------------------
(* KillSwitch for TLC. *)
EXTENDS KillSwitch, TLC

Symmetry == Permutations(Symbols)
=============================================================================
