--------------------------- MODULE AuthSessionMC ---------------------------
(* Instance of AuthSession for TLC: requests are interchangeable. *)
EXTENDS AuthSession, TLC
Symmetry == Permutations(Req)
=============================================================================
