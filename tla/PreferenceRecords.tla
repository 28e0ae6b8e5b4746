-------------------------- MODULE PreferenceRecords --------------------------
(***************************************************************************)
(* NotificationService.updatePreferences: the preferences are one JSON     *)
(* column of the User row, read whole, merged with the fields of the       *)
(* request and written whole.  Each field is a switch; a field that was    *)
(* never written takes its default when it is read.                        *)
(***************************************************************************)
EXTENDS Naturals

CONSTANTS
    Pref, Unset,
    PrefHandler,      \* requests that may be in progress at once
    MaxPrefCalls      \* bound: requests in a behaviour

ASSUME PrefAssumption == Unset \notin BOOLEAN /\ MaxPrefCalls \in Nat

VARIABLES
    prefs,     \* User.notificationPrefs
    pcall,     \* the merged preferences each request is about to write
    pcalls,    \* requests so far
    crossed,   \* two requests have been between reading and writing at once
    asked      \* the last value asked for by a request that was answered

pvars == <<prefs, pcall, pcalls, crossed, asked>>

Prefs == [Pref -> BOOLEAN \cup {Unset}]
Patch == UNION {[S -> BOOLEAN] : S \in SUBSET Pref \ {{}}}
NoPrefCall == [at |-> "idle"]

PrefTypeOK ==
    /\ prefs \in Prefs
    /\ pcall \in [PrefHandler -> {NoPrefCall} \cup
                   [at : {"write"}, patch : Patch, merged : Prefs]]
    /\ pcalls \in 0 .. MaxPrefCalls
    /\ crossed \in BOOLEAN
    /\ asked \in Prefs

PrefInit ==
    /\ prefs = [p \in Pref |-> Unset]
    /\ pcall = [h \in PrefHandler |-> NoPrefCall]
    /\ pcalls = 0
    /\ crossed = FALSE
    /\ asked = prefs

\* Mutant of Merge: the fields of the request replace the whole column.
Replace(stored, patch) ==
    [p \in Pref |-> IF p \in DOMAIN patch THEN patch[p] ELSE Unset]

\* The spread of the stored fields and of the request's.
Merge(stored, patch) ==
    [p \in Pref |-> IF p \in DOMAIN patch THEN patch[p] ELSE stored[p]]

ReadPrefs(h) ==
    \E patch \in Patch :
        /\ pcall[h] = NoPrefCall
        /\ pcalls < MaxPrefCalls
        /\ pcall' = [pcall EXCEPT ![h] =
             [at |-> "write", patch |-> patch, merged |-> Merge(prefs, patch)]]
        /\ pcalls' = pcalls + 1
        /\ crossed' = (crossed \/ \E k \in PrefHandler : pcall[k] # NoPrefCall)
        /\ UNCHANGED <<prefs, asked>>

WritePrefs(h) ==
    /\ pcall[h] # NoPrefCall
    /\ prefs' = pcall[h].merged
    /\ asked' = [p \in Pref |-> IF p \in DOMAIN pcall[h].patch
                                THEN pcall[h].patch[p] ELSE asked[p]]
    /\ pcall' = [pcall EXCEPT ![h] = NoPrefCall]
    /\ UNCHANGED <<pcalls, crossed>>

PrefNext == \E h \in PrefHandler : ReadPrefs(h) \/ WritePrefs(h)
PrefSpec == PrefInit /\ [][PrefNext]_pvars

-----------------------------------------------------------------------------
(* Properties *)

\* Every switch is as the last answered request that named it asked, unless
\* two requests have read the column before either wrote it
\* (NotificationService.updatePreferences).
PrefsKept == crossed \/ prefs = asked
=============================================================================
