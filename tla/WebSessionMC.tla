---------------------------- MODULE WebSessionMC ----------------------------
(* Instances of WebSession for TLC: requests are interchangeable. *)
EXTENDS WebSession, TLC
Symmetry == Permutations(Req)
=============================================================================
