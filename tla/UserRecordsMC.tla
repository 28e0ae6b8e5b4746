---------------------------- MODULE UserRecordsMC ----------------------------
(* An instance of UserRecords for TLC.                                      *)
EXTENDS UserRecords
MCTx == {"pay", "food", "flat"}
MCCost == [t \in MCTx |-> CASE t = "pay" -> 1 [] t = "food" -> 2 [] OTHER -> 11]
=============================================================================
