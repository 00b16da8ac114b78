---------------------------- MODULE MCSeedRotation ----------------------------
(* Instances of SeedRotation for TLC.                                      *)
EXTENDS SeedRotation, TLC

Symmetric == Permutations(Logins) \cup Permutations(Rotations)
               \cup Permutations(Bets)
=============================================================================
