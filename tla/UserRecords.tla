----------------------------- MODULE UserRecords -----------------------------
(***************************************************************************)
(* The handlers of the user's own records, side by side.  No handler of    *)
(* one part touches rows of another, so interleaving parts shows nothing   *)
(* that the parts do not show alone: a behaviour takes one part of the     *)
(* API, picked at its start, through all interleavings of its handlers.    *)
(***************************************************************************)
EXTENDS AccountRecords, GoalRecords, SpendingRecords, PreferenceRecords

VARIABLE part     \* the controller whose requests are served

vars == <<part, avars, gvars, svars, pvars>>

Init ==
    /\ part \in {"accounts", "goals", "spending", "preferences"}
    /\ AccountInit /\ GoalInit /\ SpendInit /\ PrefInit

Accounts    == part = "accounts" /\ AccountNext /\ UNCHANGED <<gvars, svars, pvars>>
Goals       == part = "goals" /\ GoalNext /\ UNCHANGED <<avars, svars, pvars>>
Spending    == part = "spending" /\ SpendNext /\ UNCHANGED <<avars, gvars, pvars>>
Preferences == part = "preferences" /\ PrefNext /\ UNCHANGED <<avars, gvars, svars>>

Next == (Accounts \/ Goals \/ Spending \/ Preferences) /\ UNCHANGED part

Spec == Init /\ [][Next]_vars

TypeOK == AccountTypeOK /\ GoalTypeOK /\ SpendTypeOK /\ PrefTypeOK
=============================================================================
