---------------------------- MODULE DevicePushMC ----------------------------
(* An instance of DevicePush for TLC.                                       *)
EXTENDS DevicePush, TLC
Symmetry == Permutations(User) \cup Permutations(Registration) \cup Permutations(Push)
=============================================================================
