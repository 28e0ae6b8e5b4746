---------------------------- MODULE SmsIngestMC ----------------------------
(* Instances of SmsIngest for TLC: calls are interchangeable. *)
EXTENDS SmsIngest, TLC
Symmetry == Permutations(Call)
=============================================================================
