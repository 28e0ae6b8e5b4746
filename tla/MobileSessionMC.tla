-------------------------- MODULE MobileSessionMC --------------------------
(* Instances of MobileSession for TLC: requests of one kind are             *)
(* interchangeable.                                                        *)
EXTENDS MobileSession, TLC
Symmetry == Permutations(Calls) \cup Permutations(Logins)
=============================================================================
