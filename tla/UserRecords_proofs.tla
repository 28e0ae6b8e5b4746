------------------------- MODULE UserRecords_proofs -------------------------
(***************************************************************************)
(* Theorems about UserRecords for any number of rows, of handlers and of   *)
(* requests.  Each part has an inductive invariant of its own, which says  *)
(* what a handler in progress still holds true as long as no second one    *)
(* works on the same row; a step of another part leaves it alone.  What    *)
(* the ledger adds up to is a natural number by induction over its size.   *)
(***************************************************************************)
EXTENDS UserRecords, FiniteSetTheorems, WellFoundedInduction, TLAPS

(* Preferences *)

\* Without an overlap one request is in progress at a time, and what it is
\* about to write is what was asked before with its own switches put in.
PrefsSerial ==
    ~crossed => /\ prefs = asked
                /\ \A h, k \in PrefHandler :
                      pcall[h] # NoPrefCall /\ pcall[k] # NoPrefCall => h = k
                /\ \A h \in PrefHandler :
                      pcall[h] # NoPrefCall => pcall[h].merged = Merge(asked, pcall[h].patch)

PrefInv == PrefTypeOK /\ PrefsSerial

\* Merging a request's switches into preferences gives preferences.
LEMMA MergeType ==
    ASSUME NEW stored \in Prefs, NEW patch \in Patch
    PROVE  Merge(stored, patch) \in Prefs
<1>1. PICK S \in SUBSET Pref : patch \in [S -> BOOLEAN]
    BY DEF Patch
<1>2. ASSUME NEW p \in Pref
      PROVE  (IF p \in DOMAIN patch THEN patch[p] ELSE stored[p]) \in BOOLEAN \cup {Unset}
    BY <1>1, <1>2 DEF Prefs
<1> QED
    BY <1>2 DEF Merge, Prefs

LEMMA PrefInitInv == PrefInit => PrefInv
<1> SUFFICES ASSUME PrefInit PROVE PrefInv
    OBVIOUS
<1>1. prefs \in Prefs /\ asked \in Prefs
    BY DEF PrefInit, Prefs
<1>2. PrefsSerial
    BY DEF PrefInit, PrefsSerial
<1>3. pcalls \in 0 .. MaxPrefCalls
    BY PrefAssumption DEF PrefInit
<1>4. crossed \in BOOLEAN
    BY DEF PrefInit
<1>5. pcall \in [PrefHandler -> {NoPrefCall} \cup
                   [at : {"write"}, patch : Patch, merged : Prefs]]
    BY DEF PrefInit
<1> QED
    BY <1>1, <1>2, <1>3, <1>4, <1>5 DEF PrefInv, PrefTypeOK

LEMMA PrefStep ==
    ASSUME PrefInv, [PrefNext]_pvars PROVE PrefInv'
<1> USE PrefAssumption DEF PrefInv, PrefTypeOK
<1>1. ASSUME NEW h \in PrefHandler, ReadPrefs(h) PROVE PrefInv'
  <2>1. PICK patch \in Patch :
            pcall' = [pcall EXCEPT ![h] =
               [at |-> "write", patch |-> patch, merged |-> Merge(prefs, patch)]]
    BY <1>1 DEF ReadPrefs
  <2>2. Merge(prefs, patch) \in Prefs
    BY MergeType
  <2>3. PrefTypeOK'
    BY <1>1, <2>1, <2>2 DEF ReadPrefs
  <2>4. PrefsSerial'
    BY <1>1, <2>1 DEF ReadPrefs, PrefsSerial, NoPrefCall
  <2> QED
    BY <2>3, <2>4
<1>2. ASSUME NEW h \in PrefHandler, WritePrefs(h) PROVE PrefInv'
  <2>1. /\ pcall[h].patch \in Patch
        /\ pcall[h].merged \in Prefs
    BY <1>2 DEF WritePrefs, NoPrefCall
  <2>2. asked' = Merge(asked, pcall[h].patch)
    BY <1>2 DEF WritePrefs, Merge
  <2>3. asked' \in Prefs
    BY <2>1, <2>2, MergeType
  <2>4. PrefTypeOK'
    BY <1>2, <2>1, <2>3 DEF WritePrefs
  <2>5. PrefsSerial'
    BY <1>2, <2>2 DEF WritePrefs, PrefsSerial
  <2> QED
    BY <2>4, <2>5
<1>3. CASE UNCHANGED pvars
    BY <1>3 DEF pvars, PrefsSerial
<1> QED
    BY <1>1, <1>2, <1>3 DEF PrefNext

-----------------------------------------------------------------------------
(* Goals *)

\* A request found the row of its goal, and rows are never removed.
GoalCallHasRow ==
    \A h \in GoalHandler : gcall[h] # GoalIdle => goal[gcall[h].id].state # "absent"

\* A goal that was never worked on by two has one request at most, whose
\* reading of the row is still right, and holds what it should.
GoalSerial ==
    \A g \in Goal \ overlapped :
        /\ goal[g].current = due[g]
        /\ \A h, k \in GoalHandler : On(h, g) /\ On(k, g) => h = k
        /\ \A h \in GoalHandler :
              gcall[h].op = "contribute" /\ gcall[h].id = g
                  => /\ gcall[h].seen.current = goal[g].current
                     /\ gcall[h].seen.target = goal[g].target

GoalInv == GoalTypeOK /\ GoalCallHasRow /\ GoalSerial

LEMMA GoalInitInv == GoalInit => GoalInv
<1> SUFFICES ASSUME GoalInit PROVE GoalInv
    OBVIOUS
<1>1. GoalTypeOK
    BY GoalAssumption DEF GoalInit, GoalTypeOK, Absent, GoalRow, GoalCall
<1>2. GoalCallHasRow /\ GoalSerial
    BY DEF GoalInit, GoalCallHasRow, GoalSerial, On, Absent, GoalIdle
<1> QED
    BY <1>1, <1>2 DEF GoalInv

LEMMA GoalTypeStep ==
    ASSUME GoalTypeOK, [GoalNext]_gvars PROVE GoalTypeOK'
<1> USE GoalAssumption DEF GoalTypeOK
<1>1. ASSUME NEW h \in GoalHandler, CreateGoal(h) PROVE GoalTypeOK'
    BY <1>1 DEF CreateGoal, GoalRow
<1>2. ASSUME NEW h \in GoalHandler, FindForUpdate(h) PROVE GoalTypeOK'
    BY <1>2 DEF FindForUpdate, GoalBegin, GoalCall
<1>3. ASSUME NEW h \in GoalHandler, FindForDelete(h) PROVE GoalTypeOK'
    BY <1>3 DEF FindForDelete, GoalBegin, GoalCall
<1>4. ASSUME NEW h \in GoalHandler, FindForContribute(h) PROVE GoalTypeOK'
    BY <1>4 DEF FindForContribute, GoalBegin, GoalCall
<1>5. ASSUME NEW h \in GoalHandler, WriteUpdate(h) PROVE GoalTypeOK'
  <2>1. /\ gcall[h].id \in Goal
        /\ gcall[h].target \in Amount \cup {Keep}
        /\ gcall[h].current \in Amount \cup {Keep}
    BY <1>5 DEF WriteUpdate, GoalCall, GoalIdle
  <2>2. goal' \in [Goal -> GoalRow] /\ due' \in [Goal -> Nat]
    BY <1>5, <2>1 DEF WriteUpdate, GoalRow
  <2> QED
    BY <1>5, <2>2 DEF WriteUpdate, GoalFinish, GoalCall
<1>6. ASSUME NEW h \in GoalHandler, WriteDelete(h) PROVE GoalTypeOK'
    BY <1>6 DEF WriteDelete, GoalFinish, GoalCall, GoalIdle, GoalRow
<1>7. ASSUME NEW h \in GoalHandler, WriteContribute(h) PROVE GoalTypeOK'
  <2>1. /\ gcall[h].id \in Goal
        /\ gcall[h].amount \in Nat
        /\ gcall[h].seen \in GoalRow
    BY <1>7 DEF WriteContribute, GoalCall, GoalIdle
  <2>2. goal' \in [Goal -> GoalRow] /\ due' \in [Goal -> Nat]
    BY <1>7, <2>1 DEF WriteContribute, GoalRow, Least
  <2> QED
    BY <1>7, <2>2 DEF WriteContribute, GoalFinish, GoalCall
<1>8. CASE UNCHANGED gvars
    BY <1>8 DEF gvars
<1> QED
    BY <1>1, <1>2, <1>3, <1>4, <1>5, <1>6, <1>7, <1>8 DEF GoalNext

LEMMA GoalRowStep ==
    ASSUME GoalInv, [GoalNext]_gvars PROVE GoalCallHasRow'
<1> USE DEF GoalInv, GoalTypeOK, GoalCallHasRow
<1>1. ASSUME NEW h \in GoalHandler, CreateGoal(h) PROVE GoalCallHasRow'
    BY <1>1 DEF CreateGoal, GoalCall
<1>2. ASSUME NEW h \in GoalHandler,
             FindForUpdate(h) \/ FindForDelete(h) \/ FindForContribute(h)
      PROVE GoalCallHasRow'
    BY <1>2 DEF FindForUpdate, FindForDelete, FindForContribute, GoalBegin
<1>3. ASSUME NEW h \in GoalHandler,
             WriteUpdate(h) \/ WriteDelete(h) \/ WriteContribute(h)
      PROVE GoalCallHasRow'
  <2>1. \A g \in Goal : goal[g].state # "absent" => goal'[g].state # "absent"
    BY <1>3 DEF WriteUpdate, WriteDelete, WriteContribute, GoalRow
  <2>2. \A k \in GoalHandler : gcall[k] # GoalIdle => gcall[k].id \in Goal
    BY DEF GoalCall
  <2> QED
    BY <1>3, <2>1, <2>2 DEF WriteUpdate, WriteDelete, WriteContribute, GoalFinish
<1>4. CASE UNCHANGED gvars
    BY <1>4 DEF gvars
<1> QED
    BY <1>1, <1>2, <1>3, <1>4 DEF GoalNext

\* A request that begins on g finds nobody else there, or g is overlapped.
LEMMA GoalBeginStep ==
    ASSUME GoalInv, NEW h \in GoalHandler,
           FindForUpdate(h) \/ FindForDelete(h) \/ FindForContribute(h)
    PROVE  GoalSerial'
<1> SUFFICES ASSUME NEW g \in Goal \ overlapped'
             PROVE  /\ goal'[g].current = due'[g]
                    /\ \A i, k \in GoalHandler : On(i, g)' /\ On(k, g)' => i = k
                    /\ \A k \in GoalHandler :
                         gcall'[k].op = "contribute" /\ gcall'[k].id = g
                           => /\ gcall'[k].seen.current = goal'[g].current
                              /\ gcall'[k].seen.target = goal'[g].target
    BY DEF GoalSerial
<1>1. g \in Goal \ overlapped /\ UNCHANGED <<goal, due>>
    BY DEF FindForUpdate, FindForDelete, FindForContribute, GoalBegin
<1>2. On(h, g)' => \A k \in GoalHandler : ~On(k, g)
    BY DEF FindForUpdate, FindForDelete, FindForContribute, GoalBegin, On, GoalInv, GoalTypeOK
<1>3. \A k \in GoalHandler \ {h} : gcall'[k] = gcall[k]
    BY DEF FindForUpdate, FindForDelete, FindForContribute, GoalBegin, GoalInv, GoalTypeOK
<1>4. \A i, k \in GoalHandler : On(i, g)' /\ On(k, g)' => i = k
    BY <1>1, <1>2, <1>3 DEF On, GoalInv, GoalSerial
<1>5. gcall'[h].op = "contribute" => gcall'[h].seen = goal[gcall'[h].id]
    BY DEF FindForUpdate, FindForDelete, FindForContribute, GoalBegin, GoalInv, GoalTypeOK
<1> QED
    BY <1>1, <1>3, <1>4, <1>5 DEF GoalInv, GoalSerial

\* The write of a request leaves the other goals alone.
LEMMA GoalWriteStep ==
    ASSUME GoalInv, NEW h \in GoalHandler,
           WriteUpdate(h) \/ WriteDelete(h) \/ WriteContribute(h)
    PROVE  GoalSerial'
<1> SUFFICES ASSUME NEW g \in Goal \ overlapped'
             PROVE  /\ goal'[g].current = due'[g]
                    /\ \A i, k \in GoalHandler : On(i, g)' /\ On(k, g)' => i = k
                    /\ \A k \in GoalHandler :
                         gcall'[k].op = "contribute" /\ gcall'[k].id = g
                           => /\ gcall'[k].seen.current = goal'[g].current
                              /\ gcall'[k].seen.target = goal'[g].target
    BY DEF GoalSerial
<1> USE DEF GoalInv, GoalTypeOK
<1>1. /\ g \in Goal \ overlapped
      /\ gcall'[h] = GoalIdle
      /\ \A k \in GoalHandler \ {h} : gcall'[k] = gcall[k]
    BY DEF WriteUpdate, WriteDelete, WriteContribute, GoalFinish
<1>2. gcall[h] # GoalIdle /\ gcall[h].id \in Goal
    BY DEF WriteUpdate, WriteDelete, WriteContribute, GoalCall, GoalIdle
<1>3. \A i, k \in GoalHandler : On(i, g)' /\ On(k, g)' => i = k
    BY <1>1 DEF GoalSerial, On
<1>4. CASE gcall[h].id # g
  <2>1. goal'[g] = goal[g] /\ due'[g] = due[g]
    BY <1>2, <1>4 DEF WriteUpdate, WriteDelete, WriteContribute
  <2> QED
    BY <1>1, <1>3, <2>1 DEF GoalSerial, GoalIdle
<1>5. CASE gcall[h].id = g
  <2>1. \A k \in GoalHandler : gcall'[k].op = "contribute" => gcall'[k].id # g
    BY <1>1, <1>2, <1>5 DEF GoalSerial, On, GoalIdle
  <2>2. goal'[g].current = due'[g]
    <3>1. CASE WriteUpdate(h)
        BY <1>1, <1>5, <3>1, GoalAssumption DEF WriteUpdate, GoalSerial, GoalRow
    <3>2. CASE WriteDelete(h)
        BY <1>1, <1>5, <3>2 DEF WriteDelete, GoalSerial, GoalRow
    <3>3. CASE WriteContribute(h)
      <4>1. gcall[h].seen.current = goal[g].current /\ gcall[h].seen.target = goal[g].target
        BY <1>1, <1>5, <3>3 DEF WriteContribute, GoalSerial
      <4>2. goal[g].current = due[g]
        BY <1>1 DEF GoalSerial
      <4> QED
        BY <1>5, <3>3, <4>1, <4>2 DEF WriteContribute, GoalRow
    <3> QED
        BY <3>1, <3>2, <3>3
  <2> QED
    BY <1>3, <2>1, <2>2
<1> QED
    BY <1>4, <1>5

LEMMA GoalStep ==
    ASSUME GoalInv, [GoalNext]_gvars PROVE GoalInv'
<1>1. ASSUME NEW h \in GoalHandler, CreateGoal(h) PROVE GoalSerial'
  <2>1. PICK g \in Goal, t \in Amount, c \in Amount :
          /\ goal[g].state = "absent"
          /\ goal' = [goal EXCEPT ![g] =
                        [state |-> "live", target |-> t, current |-> c, done |-> FALSE]]
          /\ due' = [due EXCEPT ![g] = c]
    BY <1>1 DEF CreateGoal
  <2>2. UNCHANGED <<gcall, overlapped>>
    BY <1>1 DEF CreateGoal
  <2>3. \A k \in GoalHandler : gcall[k].op = "contribute" => gcall[k].id # g
    BY <2>1 DEF GoalInv, GoalCallHasRow, GoalIdle
  <2> QED
    BY <2>1, <2>2, <2>3 DEF GoalInv, GoalTypeOK, GoalSerial, On
<1>2. ASSUME UNCHANGED gvars PROVE GoalSerial'
    BY <1>2 DEF gvars, GoalInv, GoalSerial, On, GoalIdle
<1>3. GoalSerial'
    BY <1>1, <1>2, GoalBeginStep, GoalWriteStep DEF GoalNext
<1> QED
    BY <1>3, GoalTypeStep, GoalRowStep DEF GoalInv

-----------------------------------------------------------------------------
(* Accounts *)

\* Only rows that were created carry the flag.
PrimaryHasRow == \A a \in primary : row[a] # "absent"

\* An update that clears the others is one that sets the flag.
ClearsToSet ==
    \A h \in AccountHandler :
        acall[h].op = "update" /\ acall[h].at = "clear" => acall[h].flag = "set"

\* A request that has cleared the others, and has yet to set the flag.
Cleared(h) == Setter(acall[h]) /\ acall[h].at = "write"

\* Without an overlap of two setters, nobody but the account of a request
\* that has cleared the flags may still have it.
PrimarySerial ==
    ~raced =>
        /\ \A h, k \in AccountHandler : Setter(acall[h]) /\ Setter(acall[k]) => h = k
        /\ \A h \in AccountHandler :
              Cleared(h) => \A a \in Primaries : acall[h].op = "update" /\ a = acall[h].id
        /\ \A a, b \in Primaries : a = b
        /\ claim # NoAccount /\ (\A h \in AccountHandler : ~Cleared(h))
              => Primaries = {claim}

AccountInv == AccountTypeOK /\ PrimaryHasRow /\ ClearsToSet /\ PrimarySerial

LEMMA AccountInitInv == AccountInit => AccountInv
<1> SUFFICES ASSUME AccountInit PROVE AccountInv
    OBVIOUS
<1>1. AccountTypeOK
  <2>1. acall \in [AccountHandler -> Call]
    BY DEF AccountInit, Call
  <2>2. acalls \in 0 .. MaxAccountCalls
    BY AccountAssumption DEF AccountInit
  <2>3. raced \in BOOLEAN /\ primary \in SUBSET Account
    BY DEF AccountInit
  <2> QED
    BY <2>1, <2>2, <2>3 DEF AccountInit, AccountTypeOK
<1>2. PrimaryHasRow /\ ClearsToSet
    BY DEF AccountInit, PrimaryHasRow, ClearsToSet, Idle
<1>3. PrimarySerial
    BY DEF AccountInit, PrimarySerial, Setter, Primaries, Cleared, Idle
<1> QED
    BY <1>1, <1>2, <1>3 DEF AccountInv

LEMMA AccountTypeStep ==
    ASSUME AccountTypeOK, [AccountNext]_avars PROVE AccountTypeOK'
<1> USE AccountAssumption DEF AccountTypeOK
<1>1. ASSUME NEW h \in AccountHandler, CreateClear(h) PROVE AccountTypeOK'
    BY <1>1 DEF CreateClear, Begin, Call
<1>2. ASSUME NEW h \in AccountHandler, CreatePlain(h) PROVE AccountTypeOK'
    BY <1>2 DEF CreatePlain, Begin, Call
<1>3. ASSUME NEW h \in AccountHandler, CreateWrite(h) PROVE AccountTypeOK'
  <2>1. acall[h].name \in Name
    BY <1>3 DEF CreateWrite, Call, Idle
  <2> QED
    BY <1>3, <2>1 DEF CreateWrite, Finish, Call
<1>4. ASSUME NEW h \in AccountHandler, UpdateFind(h) PROVE AccountTypeOK'
    BY <1>4 DEF UpdateFind, Begin, Call, Live
<1>5. ASSUME NEW h \in AccountHandler, SetPrimaryFind(h) PROVE AccountTypeOK'
    BY <1>5 DEF SetPrimaryFind, Begin, Call, Live
<1>6. ASSUME NEW h \in AccountHandler, DeleteFind(h) PROVE AccountTypeOK'
    BY <1>6 DEF DeleteFind, Begin, Call, Live
<1>7. ASSUME NEW h \in AccountHandler, UpdateClear(h) PROVE AccountTypeOK'
  <2>1. [acall[h] EXCEPT !.at = "write"] \in Call
    BY <1>7 DEF UpdateClear, Call, Idle
  <2> QED
    BY <1>7, <2>1 DEF UpdateClear
<1>8. ASSUME NEW h \in AccountHandler, SetPrimaryClear(h) PROVE AccountTypeOK'
  <2>1. [acall[h] EXCEPT !.at = "write"] \in Call
    BY <1>8 DEF SetPrimaryClear, Call, Idle
  <2> QED
    BY <1>8, <2>1 DEF SetPrimaryClear
<1>9. ASSUME NEW h \in AccountHandler, UpdateWrite(h) PROVE AccountTypeOK'
  <2>1. acall[h].id \in Account /\ acall[h].name \in Name \cup {NoName}
    BY <1>9 DEF UpdateWrite, Call, Idle
  <2> QED
    BY <1>9, <2>1 DEF UpdateWrite, ClaimAfter, Finish, Call
<1>10. ASSUME NEW h \in AccountHandler, SetPrimaryWrite(h) PROVE AccountTypeOK'
  <2>1. acall[h].id \in Account
    BY <1>10 DEF SetPrimaryWrite, Call, Idle
  <2> QED
    BY <1>10, <2>1 DEF SetPrimaryWrite, Finish, Call
<1>11. ASSUME NEW h \in AccountHandler, DeleteWrite(h) PROVE AccountTypeOK'
    BY <1>11 DEF DeleteWrite, Finish, Call
<1>12. CASE UNCHANGED avars
    BY <1>12 DEF avars
<1> QED
    BY <1>1, <1>2, <1>3, <1>4, <1>5, <1>6, <1>7, <1>8, <1>9, <1>10, <1>11, <1>12
       DEF AccountNext

\* Facts about one request that every write preserves.
LEMMA AccountRowStep ==
    ASSUME AccountInv, [AccountNext]_avars PROVE PrimaryHasRow' /\ ClearsToSet'
<1> USE DEF AccountInv, AccountTypeOK, PrimaryHasRow, ClearsToSet
<1> DEFINE Kept == PrimaryHasRow' /\ ClearsToSet'
<1>1. ASSUME NEW h \in AccountHandler, CreateClear(h) \/ CreatePlain(h) PROVE Kept
  <2>1. \A a \in primary' : a \in primary /\ row'[a] # "absent"
    BY <1>1 DEF CreateClear, CreatePlain
  <2>2. \A k \in AccountHandler : acall'[k] = acall[k] \/ acall'[k].op # "update"
    <3>1. CASE CreateClear(h)
        BY <3>1 DEF CreateClear, Begin
    <3>2. CASE CreatePlain(h)
        BY <3>2 DEF CreatePlain, Begin, Idle
    <3> QED
        BY <1>1, <3>1, <3>2
  <2> QED
    BY <2>1, <2>2
<1>2. ASSUME NEW h \in AccountHandler, CreateWrite(h) PROVE Kept
    BY <1>2 DEF CreateWrite, Finish, Idle
<1>3. ASSUME NEW h \in AccountHandler,
             UpdateFind(h) \/ SetPrimaryFind(h) \/ DeleteFind(h) PROVE Kept
  <2>1. UNCHANGED <<primary, row>>
    BY <1>3 DEF UpdateFind, SetPrimaryFind, DeleteFind
  <2>2. \A k \in AccountHandler \ {h} : acall'[k] = acall[k]
    BY <1>3 DEF UpdateFind, SetPrimaryFind, DeleteFind, Begin
  <2>3. acall'[h].op = "update" /\ acall'[h].at = "clear" => acall'[h].flag = "set"
    <3>1. CASE UpdateFind(h)
        BY <3>1 DEF UpdateFind, Begin
    <3>2. CASE SetPrimaryFind(h)
        BY <3>2 DEF SetPrimaryFind, Begin
    <3>3. CASE DeleteFind(h)
        BY <3>3 DEF DeleteFind, Begin
    <3> QED
        BY <1>3, <3>1, <3>2, <3>3
  <2> QED
    BY <2>1, <2>2, <2>3
<1>4. ASSUME NEW h \in AccountHandler, UpdateClear(h) \/ SetPrimaryClear(h) PROVE Kept
  <2>1. primary' \subseteq primary /\ row' = row
    BY <1>4 DEF UpdateClear, SetPrimaryClear
  <2>2. \A k \in AccountHandler \ {h} : acall'[k] = acall[k]
    BY <1>4 DEF UpdateClear, SetPrimaryClear
  <2>3. acall'[h].at = "write"
    BY <1>4 DEF UpdateClear, SetPrimaryClear, Call, Idle
  <2> QED
    BY <2>1, <2>2, <2>3
<1>5. ASSUME NEW h \in AccountHandler, UpdateWrite(h) \/ SetPrimaryWrite(h) PROVE Kept
    BY <1>5 DEF UpdateWrite, SetPrimaryWrite, Finish, Idle
<1>6. ASSUME NEW h \in AccountHandler, DeleteWrite(h) PROVE Kept
    BY <1>6 DEF DeleteWrite, Finish, Idle
<1>7. CASE UNCHANGED avars
    BY <1>7 DEF avars
<1> QED
    BY <1>1, <1>2, <1>3, <1>4, <1>5, <1>6, <1>7 DEF AccountNext

\* A request begins: only a setter matters, and it finds no other, or the
\* two have raced.
LEMMA PrimaryBeginStep ==
    ASSUME AccountInv, NEW h \in AccountHandler,
           \/ CreateClear(h) \/ CreatePlain(h)
           \/ UpdateFind(h) \/ SetPrimaryFind(h) \/ DeleteFind(h)
    PROVE  PrimarySerial'
<1> USE DEF AccountInv, AccountTypeOK
<1>1. CASE CreateClear(h)
  <2>1. Primaries' = {}
    BY <1>1 DEF CreateClear, Primaries, Live
  <2>2. acall'[h].op = "create" /\ acall'[h].at = "write"
    BY <1>1 DEF CreateClear, Begin
  <2>3. \A k \in AccountHandler \ {h} : acall'[k] = acall[k]
    BY <1>1 DEF CreateClear, Begin
  <2>4. ~raced' => \A k \in AccountHandler : ~Setter(acall[k])
    BY <1>1 DEF CreateClear, Begin, Setter, SetterOpen
  <2> QED
    BY <2>1, <2>2, <2>3, <2>4 DEF PrimarySerial, Cleared, Setter
<1>2. CASE CreatePlain(h)
  <2>1. Primaries' = Primaries
    BY <1>2 DEF CreatePlain, PrimaryHasRow, Primaries, Live
  <2>2. UNCHANGED <<acall, claim>> /\ (raced' = raced)
    BY <1>2 DEF CreatePlain, Begin, Setter, Idle
  <2> QED
    BY <2>1, <2>2 DEF PrimarySerial, Cleared
<1>3. CASE UpdateFind(h) \/ SetPrimaryFind(h) \/ DeleteFind(h)
  <2>1. Primaries' = Primaries /\ claim' = claim
    BY <1>3 DEF UpdateFind, SetPrimaryFind, DeleteFind, Primaries, Live
  <2>2. acall[h] = Idle /\ \A k \in AccountHandler \ {h} : acall'[k] = acall[k]
    BY <1>3 DEF UpdateFind, SetPrimaryFind, DeleteFind, Begin
  <2>3. ~raced' => ~raced /\ (Setter(acall[h])' => ~SetterOpen)
    BY <1>3 DEF UpdateFind, SetPrimaryFind, DeleteFind, Begin
  <2>4. ~Cleared(h)' /\ ~Cleared(h)
    BY <1>3, <2>2 DEF UpdateFind, SetPrimaryFind, DeleteFind, Begin, Cleared, Setter, Idle
  <2>5. \A k \in AccountHandler : Cleared(k)' => Cleared(k) /\ acall'[k] = acall[k]
    BY <2>2, <2>4 DEF Cleared
  <2>6. \A k \in AccountHandler : Cleared(k) => Cleared(k)'
    BY <2>2, <2>4 DEF Cleared
  <2> QED
    BY <2>1, <2>2, <2>3, <2>5, <2>6 DEF PrimarySerial, SetterOpen
<1> QED
    BY <1>1, <1>2, <1>3

\* The clearing call takes the flag from all but the account to be set.
LEMMA PrimaryClearStep ==
    ASSUME AccountInv, NEW h \in AccountHandler, UpdateClear(h) \/ SetPrimaryClear(h)
    PROVE  PrimarySerial'
<1> USE DEF AccountInv, AccountTypeOK
<1>1. CASE UpdateClear(h)
  <2>1. acall[h].flag = "set"
    BY <1>1 DEF UpdateClear, ClearsToSet
  <2>2. Primaries' \subseteq {acall[h].id}
    BY <1>1 DEF UpdateClear, Primaries, Live
  <2>3. acall'[h] = [acall[h] EXCEPT !.at = "write"] /\ Setter(acall[h]) /\ Cleared(h)'
    BY <1>1, <2>1 DEF UpdateClear, Setter, Cleared, Call, Idle
  <2>4. acall'[h].op = "update" /\ acall'[h].id = acall[h].id
    BY <1>1, <2>3 DEF UpdateClear, Call, Idle
  <2>5. \A k \in AccountHandler \ {h} : acall'[k] = acall[k]
    BY <1>1 DEF UpdateClear
  <2>6. raced' = raced
    BY <1>1 DEF UpdateClear
  <2> SUFFICES ASSUME ~raced' PROVE PrimarySerial'
    BY DEF PrimarySerial
  <2>7. ASSUME NEW i \in AccountHandler, NEW k \in AccountHandler,
               Setter(acall'[i]), Setter(acall'[k])
        PROVE  i = k
    <3>1. Setter(acall[i]) /\ Setter(acall[k])
      BY <2>3, <2>5, <2>7
    <3> QED
      BY <2>6, <3>1 DEF PrimarySerial
  <2>8. \A k \in AccountHandler : Cleared(k)' => k = h
    BY <2>3, <2>7 DEF Cleared
  <2> QED
    BY <2>2, <2>3, <2>4, <2>7, <2>8 DEF PrimarySerial
<1>2. CASE SetPrimaryClear(h)
  <2>1. Primaries' = {}
    BY <1>2 DEF SetPrimaryClear, Primaries, Live
  <2>2. Setter(acall[h]) /\ Cleared(h)'
    BY <1>2 DEF SetPrimaryClear, Setter, Cleared, Call, Idle
  <2>3. \A k \in AccountHandler \ {h} : acall'[k] = acall[k]
    BY <1>2 DEF SetPrimaryClear
  <2>4. raced' = raced
    BY <1>2 DEF SetPrimaryClear
  <2> QED
    BY <2>1, <2>2, <2>3, <2>4 DEF PrimarySerial, Cleared
<1> QED
    BY <1>1, <1>2

\* The write of a setter: the account it names is the only one left, or the
\* request fails and makes no claim.  Other writes only take the flag away.
LEMMA PrimaryWriteStep ==
    ASSUME AccountInv, NEW h \in AccountHandler,
           \/ CreateWrite(h) \/ UpdateWrite(h) \/ SetPrimaryWrite(h) \/ DeleteWrite(h)
    PROVE  PrimarySerial'
<1> USE DEF AccountInv, AccountTypeOK
<1>1. acall'[h] = Idle /\ \A k \in AccountHandler \ {h} : acall'[k] = acall[k]
    BY DEF CreateWrite, UpdateWrite, SetPrimaryWrite, DeleteWrite, Finish
<1>2. raced' = raced
    BY DEF CreateWrite, UpdateWrite, SetPrimaryWrite, DeleteWrite, Finish
<1>3. ~Setter(Idle)
    BY DEF Setter, Idle
<1>4. \A k \in AccountHandler : Setter(acall'[k]) => Setter(acall[k]) /\ acall'[k] = acall[k]
    BY <1>1, <1>3
<1> SUFFICES ASSUME ~raced
             PROVE  /\ \A k \in AccountHandler :
                         Cleared(k) /\ k # h =>
                            \A a \in Primaries' : acall[k].op = "update" /\ a = acall[k].id
                    /\ \A a, b \in Primaries' : a = b
                    /\ claim' # NoAccount /\ (\A k \in AccountHandler : k # h => ~Cleared(k))
                         => Primaries' = {claim'}
    BY <1>1, <1>2, <1>3, <1>4 DEF PrimarySerial, Cleared
<1>5. CASE Cleared(h)
  <2>1. \A k \in AccountHandler : k # h => ~Cleared(k)
    BY <1>5 DEF PrimarySerial, Cleared
  <2>2. CASE CreateWrite(h) \/ SetPrimaryWrite(h)
    <3>1. Primaries = {}
        BY <1>5, <2>2 DEF PrimarySerial, CreateWrite, SetPrimaryWrite
    <3>2. \/ claim' # NoAccount /\ Primaries' = {claim'}
          \/ claim' = NoAccount /\ Primaries' = {}
      <4>1. CASE CreateWrite(h)
        <5>1. CASE row' # row
          <6>1. PICK a \in Account : /\ row' = [row EXCEPT ![a] = "live"]
                                    /\ primary' = primary \cup {a}
                                    /\ claim' = a
                                    /\ row[a] = "absent"
            BY <4>1, <5>1 DEF CreateWrite
          <6>2. Primaries' = Primaries \cup {a}
            BY <6>1 DEF PrimaryHasRow, Primaries, Live
          <6> QED
            BY <3>1, <6>1, <6>2, AccountAssumption
        <5>2. CASE row' = row
          <6>1. claim' = NoAccount /\ primary' = primary
            BY <4>1, <5>2 DEF CreateWrite
          <6> QED
            BY <3>1, <5>2, <6>1 DEF Primaries, Live
        <5> QED
            BY <5>1, <5>2
      <4>2. CASE SetPrimaryWrite(h)
        <5>1. acall[h].id \in Account
            BY <4>2 DEF SetPrimaryWrite, Call, Idle
        <5>2. row' = row
            BY <4>2 DEF SetPrimaryWrite
        <5>3. CASE row[acall[h].id] = "live"
          <6>1. primary' = primary \cup {acall[h].id} /\ claim' = acall[h].id
            BY <4>2, <5>3 DEF SetPrimaryWrite
          <6>2. Primaries' = Primaries \cup {acall[h].id}
            BY <5>1, <5>2, <5>3, <6>1 DEF Primaries, Live
          <6> QED
            BY <3>1, <5>1, <6>1, <6>2, AccountAssumption
        <5>4. CASE row[acall[h].id] # "live"
          <6>1. claim' = NoAccount /\ primary' = primary
            BY <4>2, <5>4 DEF SetPrimaryWrite
          <6> QED
            BY <3>1, <5>2, <6>1 DEF Primaries, Live
        <5> QED
            BY <5>3, <5>4
      <4> QED
        BY <2>2, <4>1, <4>2
    <3> QED
        BY <2>1, <3>2
  <2>3. CASE UpdateWrite(h)
    <3>1. Primaries \subseteq {acall[h].id} /\ acall[h].flag = "set"
        BY <1>5, <2>3 DEF PrimarySerial, UpdateWrite, Cleared, Setter
    <3>2. \/ claim' # NoAccount /\ Primaries' = {claim'}
          \/ claim' = NoAccount /\ Primaries' = Primaries
      <4>1. acall[h].id \in Account /\ row' = row
        BY <2>3 DEF UpdateWrite, Call, Idle
      <4>2. CASE claim' = NoAccount
        BY <2>3, <3>1, <4>1, <4>2, AccountAssumption
           DEF UpdateWrite, ClaimAfter, Primaries, Live
      <4>3. CASE claim' # NoAccount
        <5>1. /\ row[acall[h].id] = "live"
              /\ primary' = primary \cup {acall[h].id}
              /\ claim' = acall[h].id
            BY <2>3, <3>1, <4>3 DEF UpdateWrite, ClaimAfter
        <5>2. Primaries' = Primaries \cup {acall[h].id}
            BY <4>1, <5>1 DEF Primaries, Live
        <5> QED
            BY <3>1, <4>3, <5>1, <5>2
      <4> QED
        BY <4>2, <4>3
    <3> QED
        BY <2>1, <3>1, <3>2
  <2>4. CASE DeleteWrite(h)
    BY <1>5, <2>4 DEF Cleared, Setter, DeleteWrite
  <2> QED
    BY <2>2, <2>3, <2>4
<1>6. CASE ~Cleared(h)
  <2>1. \/ DeleteWrite(h)
        \/ UpdateWrite(h) /\ acall[h].flag # "set"
    BY <1>6 DEF Cleared, Setter, CreateWrite, UpdateWrite, SetPrimaryWrite, Call, Idle
  <2>2. Primaries' \subseteq Primaries
    BY <2>1 DEF DeleteWrite, UpdateWrite, Primaries, Live
  <2>3. claim' \in {claim, NoAccount}
    BY <2>1 DEF DeleteWrite, UpdateWrite, ClaimAfter
  <2>4. claim' # NoAccount => (claim \in Primaries => claim \in Primaries')
    BY <2>1 DEF DeleteWrite, UpdateWrite, ClaimAfter, Primaries, Live, Call, Idle
  <2> QED
    BY <1>6, <2>2, <2>3, <2>4 DEF PrimarySerial
<1> QED
    BY <1>5, <1>6

LEMMA AccountStep ==
    ASSUME AccountInv, [AccountNext]_avars PROVE AccountInv'
<1>1. ASSUME UNCHANGED avars PROVE PrimarySerial'
    BY <1>1 DEF avars, AccountInv, PrimarySerial, Primaries, Live, Cleared, Setter
<1>2. PrimarySerial'
    BY <1>1, PrimaryBeginStep, PrimaryClearStep, PrimaryWriteStep DEF AccountNext
<1> QED
    BY <1>2, AccountTypeStep, AccountRowStep DEF AccountInv

-----------------------------------------------------------------------------
(* Sums *)

\* A set of naturals has a least element.
LEMMA LeastNat ==
    ASSUME NEW T \in SUBSET Nat, T # {}
    PROVE  \E m \in T : \A n \in T : m <= n
<1> DEFINE R == {ss \in Nat \X Nat : ss[1] < ss[2]}
<1>1. IsWellFoundedOn(R, Nat)
    BY NatLessThanWellFounded DEF OpToRel
<1>2. PICK m \in T : \A n \in T : ~ (<<n, m>> \in R)
    BY <1>1, WFMin
<1>3. \A n \in T : ~ (n < m)
  <2> TAKE n \in T
  <2>1. <<n, m>> \in Nat \X Nat
      OBVIOUS
  <2> QED
      BY <1>2, <2>1
<1> QED
    BY <1>3

First(s) == CHOOSE x \in s : TRUE

\* The sum over s, by the function f of smaller sets.
SumBy(f, s) == IF s = {} THEN 0 ELSE Cost[First(s)] + f[s \ {First(s)}]

LEMMA TotalUnfolds ==
    ASSUME NEW S
    PROVE  Total(S) = (CHOOSE f : f = [s \in SUBSET S |-> SumBy(f, s)])[S]
    BY Zenon DEF Total, MapThenSumSet, MapThenFoldSet, SumBy, First

\* The subsets of S with at most n elements.
UpTo(S, n) == {s \in SUBSET S : Cardinality(s) <= n}

\* Without its first element a set is smaller.
LEMMA RestIsSmaller ==
    ASSUME NEW S, IsFiniteSet(S), NEW s \in SUBSET S, s # {}
    PROVE  /\ First(s) \in s
           /\ s \ {First(s)} \in SUBSET S
           /\ Cardinality(s) \in Nat
           /\ Cardinality(s \ {First(s)}) = Cardinality(s) - 1
<1>1. First(s) \in s
    BY Zenon DEF First
<1>2. IsFiniteSet(s)
    BY FS_Subset
<1> QED
    BY <1>1, <1>2, FS_RemoveElement, FS_CardinalityType

\* There is a function of the small subsets that sums them up.
LEMMA SumsExist ==
    ASSUME NEW S, IsFiniteSet(S), NEW n \in Nat
    PROVE  \E f : f = [s \in UpTo(S, n) |-> SumBy(f, s)]
<1> DEFINE Sums(k) == \E f : f = [s \in UpTo(S, k) |-> SumBy(f, s)]
           Bad == {k \in Nat : ~ Sums(k)}
<1>1. SUFFICES ASSUME Bad # {} PROVE FALSE
    BY <1>1
<1>2. PICK m \in Bad : \A k \in Bad : m <= k
    BY <1>1, LeastNat
<1>3. ASSUME NEW s \in SUBSET S
      PROVE  Cardinality(s) \in Nat /\ (Cardinality(s) = 0 => s = {})
  <2>1. IsFiniteSet(s)
      BY FS_Subset
  <2> QED
      BY <2>1, FS_CardinalityType, FS_EmptySet
<1>4. CASE m = 0
  <2> DEFINE f == [s \in UpTo(S, 0) |-> 0]
  <2>1. f = [s \in UpTo(S, 0) |-> SumBy(f, s)]
      BY <1>3 DEF SumBy, UpTo
  <2> QED
      BY <2>1, <1>4
<1>5. CASE m # 0
  <2>1. Sums(m - 1) /\ m - 1 \in Nat
      BY <1>2, <1>5
  <2>2. PICK f : f = [s \in UpTo(S, m - 1) |-> SumBy(f, s)]
      BY <2>1
  <2> DEFINE g == [s \in UpTo(S, m) |-> SumBy(f, s)]
  <2>3. ASSUME NEW s \in UpTo(S, m), s # {}
        PROVE  f[s \ {First(s)}] = g[s \ {First(s)}]
    <3>1. s \ {First(s)} \in UpTo(S, m - 1) /\ s \ {First(s)} \in UpTo(S, m)
        BY <2>1, <2>3, RestIsSmaller DEF UpTo
    <3> QED
        BY <3>1, <2>2
  <2>4. \A s \in UpTo(S, m) : SumBy(f, s) = SumBy(g, s)
      BY <2>3 DEF SumBy
  <2>5. g = [s \in UpTo(S, m) |-> SumBy(g, s)]
      BY <2>4
  <2>6. Sums(m)
      BY <2>5
  <2> QED
      BY <2>6, <1>2
<1> QED
    BY <1>4, <1>5

\* A sum of naturals is a natural number.
LEMMA TotalNat ==
    ASSUME NEW S \in SUBSET Tx, IsFiniteSet(S)
    PROVE  Total(S) \in Nat
<1>1. SUBSET S = UpTo(S, Cardinality(S)) /\ Cardinality(S) \in Nat
    BY FS_Subset, FS_CardinalityType DEF UpTo
<1>2. \E f : f = [s \in SUBSET S |-> SumBy(f, s)]
  <2>1. PICK f : f = [s \in UpTo(S, Cardinality(S)) |-> SumBy(f, s)]
      BY <1>1, SumsExist
  <2>2. f = [s \in SUBSET S |-> SumBy(f, s)]
      BY <1>1, <2>1
  <2> QED
      BY <2>2
<1> DEFINE sum == CHOOSE f : f = [s \in SUBSET S |-> SumBy(f, s)]
<1>3. sum = [s \in SUBSET S |-> SumBy(sum, s)]
    BY <1>2
<1>4. Total(S) = sum[S]
    BY TotalUnfolds
<1> HIDE DEF sum
<1> DEFINE Bad == {Cardinality(s) : s \in {t \in SUBSET S : sum[t] \notin Nat}}
<1>5. SUFFICES ASSUME Bad # {} PROVE FALSE
    BY <1>4, <1>5
<1>6. Bad \in SUBSET Nat
    BY FS_Subset, FS_CardinalityType
<1>7. PICK m \in Bad : \A k \in Bad : m <= k
    BY <1>5, <1>6, LeastNat
<1>8. PICK s \in SUBSET S : sum[s] \notin Nat /\ m = Cardinality(s)
    BY <1>7
<1>9. CASE s = {}
    BY <1>3, <1>8, <1>9 DEF SumBy
<1>10. CASE s # {}
  <2>1. sum[s] = Cost[First(s)] + sum[s \ {First(s)}]
      BY <1>3, <1>10 DEF SumBy
  <2>2. Cardinality(s \ {First(s)}) < m /\ s \ {First(s)} \in SUBSET S
      BY <1>8, <1>10, RestIsSmaller
  <2>3. sum[s \ {First(s)}] \in Nat
      BY <2>2, <1>6, <1>7
  <2>4. Cost[First(s)] \in Nat
      BY <1>10, RestIsSmaller, SpendAssumption
  <2> QED
      BY <2>1, <2>3, <2>4, <1>8
<1> QED
    BY <1>9, <1>10

-----------------------------------------------------------------------------
(* Spending *)

\* A request that has its row to itself is the only one there.
AloneOnRow ==
    \A h, k \in SpendHandler :
        scall[h] # SpendIdle /\ scall[h].alone /\ Busy(k, scall[h].id) => k = h

\* Requests on a budget have found its row, and so have stored totals.
BudgetHasRow ==
    /\ \A h \in SpendHandler, b \in Budget :
          Busy(h, b) => budget[b].state # "absent"
    /\ \A b \in fresh \cap Budget : budget[b].state # "absent"

\* What the request c has read is so, with these budget rows.
Stands(c, rows) ==
    /\ c.op = "compute" => c.row = rows[c.id]
    /\ c.op = "compute" /\ c.at = "store" => c.sum = Spent(c.row.scope)
    /\ c.op = "generate" /\ c.at # "read" => c.spent = Outflow /\ c.income = Income

\* What a request has read is still so, as long as it is alone.
ReadingsStand ==
    \A h \in SpendHandler :
        scall[h] # SpendIdle /\ scall[h].alone => Stands(scall[h], budget)

\* There are finitely many live transactions.
FiniteLedger == IsFiniteSet(LiveTx)

SpendInv ==
    /\ SpendTypeOK
    /\ FiniteLedger
    /\ AloneOnRow
    /\ BudgetHasRow
    /\ ReadingsStand
    /\ StoredTotalsFresh

LEMMA SpendInitInv == SpendInit => SpendInv
<1> SUFFICES ASSUME SpendInit PROVE SpendInv
    OBVIOUS
<1> USE SpendAssumption DEF SpendInit
<1>1. SpendTypeOK
  <2>1. scalls \in 0 .. MaxSpendCalls /\ fresh \in SUBSET (Budget \cup {Week})
      OBVIOUS
  <2>2. cat \in [Tx -> Category]
      OBVIOUS
  <2>3. budget \in [Budget -> BudgetRow]
      BY DEF BudgetRow, Scope
  <2> QED
      BY <2>1, <2>2, <2>3 DEF SpendTypeOK, WeekRow
<1>2. FiniteLedger
  <2>1. LiveTx = {}
      BY DEF LiveTx
  <2> QED
      BY <2>1, FS_EmptySet DEF FiniteLedger
<1>3. AloneOnRow /\ BudgetHasRow /\ ReadingsStand /\ StoredTotalsFresh
    BY DEF AloneOnRow, BudgetHasRow, ReadingsStand, StoredTotalsFresh, Busy
<1> QED
    BY <1>1, <1>2, <1>3 DEF SpendInv

\* The ledger stays finite: a request posts one transaction.
LEMMA FiniteLedgerStep ==
    ASSUME SpendTypeOK, FiniteLedger, [SpendNext]_svars
    PROVE  FiniteLedger'
<1>1. ASSUME NEW t \in Tx, PostTx(t) PROVE FiniteLedger'
  <2>1. LiveTx' = LiveTx \cup {t}
      BY <1>1 DEF PostTx, LiveTx, SpendTypeOK
  <2> QED
      BY <2>1, FS_AddElement DEF FiniteLedger
<1>2. ASSUME LiveTx' \subseteq LiveTx PROVE FiniteLedger'
    BY <1>2, FS_Subset DEF FiniteLedger
<1>3. ASSUME NEW t \in Tx, RecategoriseTx(t) \/ RemoveTx(t) PROVE FiniteLedger'
    BY <1>2, <1>3 DEF RecategoriseTx, RemoveTx, LiveTx, SpendTypeOK
<1>4. CASE UNCHANGED tx
    BY <1>2, <1>4 DEF LiveTx
<1>5. ASSUME NEW h \in SpendHandler,
             \/ CreateBudget(h) \/ FindBudget(h)
             \/ FindBudgetForUpdate(h) \/ WriteBudget(h)
             \/ FindBudgetForDelete(h) \/ DeleteBudget(h)
             \/ SumBudget(h) \/ StoreBudget(h)
             \/ BeginWeek(h) \/ ReadWeek(h) \/ AskAi(h) \/ UpsertWeek(h)
      PROVE  UNCHANGED <<tx, cat>>
    BY <1>5 DEF CreateBudget, FindBudget, FindBudgetForUpdate, WriteBudget,
       FindBudgetForDelete, DeleteBudget, SumBudget, StoreBudget, BeginWeek,
       ReadWeek, AskAi, UpsertWeek
<1> QED
    BY <1>1, <1>3, <1>4, <1>5 DEF SpendNext, svars

\* What the aggregates compute is an amount.
LEMMA SpentNat ==
    ASSUME FiniteLedger
    PROVE  (\A scope : Spent(scope) \in Nat) /\ Outflow \in Nat /\ Income \in Nat
<1>1. ASSUME NEW S, S \subseteq LiveTx PROVE Total(S) \in Nat
  <2>1. IsFiniteSet(S) /\ S \in SUBSET Tx
      BY <1>1, FS_Subset DEF FiniteLedger, LiveTx
  <2> QED
      BY <2>1, TotalNat
<1> QED
    BY <1>1 DEF Spent, Outflow, Income

SpendCalls == BudgetCall \cup WeekCall

\* A request keeps everything but its being alone.
LEMMA AloneType ==
    ASSUME NEW c \in SpendCalls, NEW alone \in BOOLEAN
    PROVE  /\ [c EXCEPT !.alone = alone] \in SpendCalls
           /\ [c EXCEPT !.alone = alone].alone = alone
           /\ [c EXCEPT !.alone = alone].id = c.id
           /\ [c EXCEPT !.alone = alone].op = c.op
           /\ [c EXCEPT !.alone = alone].at = c.at
    BY DEF SpendCalls, BudgetCall, WeekCall

\* A request that is being served is none that is idle.
LEMMA NotIdle ==
    /\ SpendIdle \notin SpendCalls
    /\ \A c \in SpendCalls : c # SpendIdle /\ c.id \in Budget \cup {Week}
    BY DEF SpendCalls, BudgetCall, WeekCall, SpendIdle

\* A request that begins takes the others on its row their being alone.
LEMMA BeginCalls ==
    ASSUME SpendTypeOK, NEW h \in SpendHandler, NEW c \in SpendCalls,
           SpendBegin(h, c)
    PROVE  /\ scall' \in [SpendHandler -> {SpendIdle} \cup SpendCalls]
           /\ scalls' \in 0 .. MaxSpendCalls
           /\ scall'[h] = [c EXCEPT !.alone = \A j \in SpendHandler : ~Busy(j, c.id)]
           /\ scall'[h].alone = \A j \in SpendHandler : ~Busy(j, c.id)
           /\ \A k \in SpendHandler \ {h} :
                 /\ scall'[k] # SpendIdle <=> scall[k] # SpendIdle
                 /\ scall[k] # SpendIdle => scall'[k].id = scall[k].id
                 /\ scall'[k] # SpendIdle /\ scall'[k].alone
                      => scall'[k] = scall[k] /\ ~Busy(k, c.id)
<1> DEFINE free == \A j \in SpendHandler : ~Busy(j, c.id)
<1>1. free \in BOOLEAN
    OBVIOUS
<1>2. scall \in [SpendHandler -> {SpendIdle} \cup SpendCalls]
    BY DEF SpendTypeOK, SpendCalls
<1>3. [c EXCEPT !.alone = free] \in SpendCalls /\ [c EXCEPT !.alone = free].alone = free
    BY <1>1, AloneType
<1>4. ASSUME NEW k \in SpendHandler \ {h}, Busy(k, c.id)
      PROVE  /\ scall'[k] \in SpendCalls
             /\ scall'[k].alone = FALSE
             /\ scall'[k].id = scall[k].id
  <2>1. scall'[k] = [scall[k] EXCEPT !.alone = FALSE]
      BY <1>4 DEF SpendBegin
  <2>2. scall[k] \in SpendCalls /\ FALSE \in BOOLEAN
      BY <1>2, <1>4 DEF Busy
  <2>3. /\ [scall[k] EXCEPT !.alone = FALSE] \in SpendCalls
        /\ [scall[k] EXCEPT !.alone = FALSE].alone = FALSE
        /\ [scall[k] EXCEPT !.alone = FALSE].id = scall[k].id
      BY <2>2, AloneType
  <2> QED
      BY <2>1, <2>3
<1>5. ASSUME NEW k \in SpendHandler \ {h}, ~ Busy(k, c.id)
      PROVE  scall'[k] = scall[k]
    BY <1>5 DEF SpendBegin
<1>6. scall'[h] = [c EXCEPT !.alone = free]
    BY DEF SpendBegin
<1>7. scall' \in [SpendHandler -> {SpendIdle} \cup SpendCalls]
  <2>1. \A k \in SpendHandler : scall'[k] \in {SpendIdle} \cup SpendCalls
      BY <1>2, <1>3, <1>4, <1>5, <1>6
  <2>2. scall' = [k \in SpendHandler |-> scall'[k]]
      BY DEF SpendBegin
  <2> QED
      BY <2>1, <2>2
<1>8. scalls' \in 0 .. MaxSpendCalls
    BY SpendAssumption DEF SpendBegin, SpendTypeOK
<1>9. ASSUME NEW k \in SpendHandler \ {h}
      PROVE  /\ scall'[k] # SpendIdle <=> scall[k] # SpendIdle
             /\ scall[k] # SpendIdle => scall'[k].id = scall[k].id
             /\ scall'[k] # SpendIdle /\ scall'[k].alone
                  => scall'[k] = scall[k] /\ ~Busy(k, c.id)
  <2>1. CASE Busy(k, c.id)
      BY <2>1, <1>4, NotIdle DEF Busy
  <2>2. CASE ~ Busy(k, c.id)
      BY <2>2, <1>5
  <2> QED
      BY <2>1, <2>2
<1> QED
    BY <1>3, <1>6, <1>7, <1>8, <1>9

\* A change of the ledger leaves nobody alone.
LEMMA LedgerCalls ==
    ASSUME SpendTypeOK, LedgerChanged
    PROVE  /\ scall' \in [SpendHandler -> {SpendIdle} \cup SpendCalls]
           /\ scalls' \in 0 .. MaxSpendCalls
           /\ \A k \in SpendHandler :
                 /\ scall'[k] # SpendIdle <=> scall[k] # SpendIdle
                 /\ scall[k] # SpendIdle => scall'[k].id = scall[k].id
                 /\ scall'[k] # SpendIdle => ~ scall'[k].alone
<1>1. scall \in [SpendHandler -> {SpendIdle} \cup SpendCalls]
    BY DEF SpendTypeOK, SpendCalls
<1>2. ASSUME NEW k \in SpendHandler, scall[k] # SpendIdle
      PROVE  /\ scall'[k] \in SpendCalls
             /\ scall'[k].alone = FALSE
             /\ scall'[k].id = scall[k].id
  <2>1. scall'[k] = [scall[k] EXCEPT !.alone = FALSE]
      BY <1>2 DEF LedgerChanged
  <2>2. scall[k] \in SpendCalls /\ FALSE \in BOOLEAN
      BY <1>1, <1>2
  <2> QED
      BY <2>1, <2>2, AloneType
<1>3. \A k \in SpendHandler : scall[k] = SpendIdle => scall'[k] = SpendIdle
    BY DEF LedgerChanged
<1>4. scall' \in [SpendHandler -> {SpendIdle} \cup SpendCalls]
  <2>1. \A k \in SpendHandler : scall'[k] \in {SpendIdle} \cup SpendCalls
      BY <1>2, <1>3
  <2>2. scall' = [k \in SpendHandler |-> scall'[k]]
      BY DEF LedgerChanged
  <2> QED
      BY <2>1, <2>2
<1>5. scalls' \in 0 .. MaxSpendCalls
    BY SpendAssumption DEF LedgerChanged, SpendTypeOK
<1> QED
    BY <1>2, <1>3, <1>4, <1>5, NotIdle

\* A request that goes on or ends touches no other.
LEMMA OtherCalls ==
    ASSUME SpendTypeOK, NEW h \in SpendHandler, NEW c,
           scall' = [scall EXCEPT ![h] = c]
    PROVE  /\ scall'[h] = c
           /\ \A k \in SpendHandler \ {h} : scall'[k] = scall[k]
           /\ c \in {SpendIdle} \cup SpendCalls
                => scall' \in [SpendHandler -> {SpendIdle} \cup SpendCalls]
    BY DEF SpendTypeOK, SpendCalls

\* What is known of a request by its kind.
LEMMA CallFields ==
    ASSUME NEW c \in {SpendIdle} \cup SpendCalls, c.op # "idle"
    PROVE  /\ c \in SpendCalls
           /\ c # SpendIdle
           /\ c.alone \in BOOLEAN
           /\ c.op # "generate" => c.id \in Budget
           /\ c.op = "compute" => c.row \in BudgetRow
           /\ c.op = "compute" /\ c.at = "store" => c.sum \in Nat
           /\ c.op = "update" => c.scope \in Scope
           /\ c.op = "generate" => c.id = Week
           /\ c.op = "generate" /\ c.at # "read"
                => c.spent \in Nat /\ c.income \in Nat /\ c.text \in {"none", "ai"}
<1> USE DEF SpendCalls, BudgetCall, WeekCall, SpendIdle
<1>1. c \in SpendCalls /\ c # SpendIdle
    OBVIOUS
<1>2. c.alone \in BOOLEAN
    BY <1>1
<1>3. /\ c.op # "generate" => c.id \in Budget
      /\ c.op = "compute" => c.row \in BudgetRow
      /\ c.op = "compute" /\ c.at = "store" => c.sum \in Nat
      /\ c.op = "update" => c.scope \in Scope
    BY <1>1
<1>4. /\ c.op = "generate" => c.id = Week
      /\ c.op = "generate" /\ c.at # "read"
           => c.spent \in Nat /\ c.income \in Nat /\ c.text \in {"none", "ai"}
    BY <1>1
<1> QED
    BY <1>1, <1>2, <1>3, <1>4

\* Requests as the actions build them.
LEMMA CallForms ==
    ASSUME NEW alone \in BOOLEAN
    PROVE  /\ \A b \in Budget, r \in BudgetRow :
                /\ [op |-> "compute", at |-> "sum", id |-> b, alone |-> alone,
                    row |-> r] \in SpendCalls
                /\ \A n \in Nat :
                     [op |-> "compute", at |-> "store", id |-> b, alone |-> alone,
                      row |-> r, sum |-> n] \in SpendCalls
           /\ \A b \in Budget :
                /\ [op |-> "delete", at |-> "write", id |-> b, alone |-> alone]
                     \in SpendCalls
                /\ \A s \in Scope :
                     [op |-> "update", at |-> "write", id |-> b, alone |-> alone,
                      scope |-> s] \in SpendCalls
           /\ [op |-> "generate", at |-> "read", id |-> Week, alone |-> alone]
                \in SpendCalls
           /\ \A n, m \in Nat, t \in {"none", "ai"}, at \in {"ai", "upsert"} :
                [op |-> "generate", at |-> at, id |-> Week, alone |-> alone,
                 spent |-> n, income |-> m, text |-> t] \in SpendCalls
    BY DEF SpendCalls, BudgetCall, WeekCall

\* The AI service's answer changes the text and nothing else.
LEMMA AskAiCall ==
    ASSUME SpendTypeOK, NEW h \in SpendHandler, AskAi(h)
    PROVE  /\ scall[h] \in SpendCalls /\ scall'[h] \in SpendCalls
           /\ scall'[h].op = "generate" /\ scall'[h].at = "upsert"
           /\ scall'[h].id = scall[h].id
           /\ scall'[h].alone = scall[h].alone
           /\ scall'[h].spent = scall[h].spent
           /\ scall'[h].income = scall[h].income
           /\ \A k \in SpendHandler \ {h} : scall'[k] = scall[k]
           /\ scall' \in [SpendHandler -> {SpendIdle} \cup SpendCalls]
<1>1. scall \in [SpendHandler -> {SpendIdle} \cup SpendCalls]
    BY DEF SpendTypeOK, SpendCalls
<1>2. PICK text \in {"none", "ai"} :
        scall' = [scall EXCEPT ![h].at = "upsert", ![h].text = text]
    BY DEF AskAi
<1>3. scall[h] \in [op : {"generate"}, at : {"ai", "upsert"}, id : {Week},
                    alone : BOOLEAN, spent : Nat, income : Nat,
                    text : {"none", "ai"}]
    BY <1>1 DEF AskAi, SpendCalls, BudgetCall, WeekCall, SpendIdle
<1>4. scall'[h] = [[scall[h] EXCEPT !.at = "upsert"] EXCEPT !.text = text]
    BY <1>1, <1>2
<1>5. /\ scall'[h] \in [op : {"generate"}, at : {"ai", "upsert"}, id : {Week},
                        alone : BOOLEAN, spent : Nat, income : Nat,
                        text : {"none", "ai"}]
      /\ scall'[h].at = "upsert"
    BY <1>3, <1>4
<1>6. /\ scall'[h].id = scall[h].id
      /\ scall'[h].alone = scall[h].alone
      /\ scall'[h].spent = scall[h].spent
      /\ scall'[h].income = scall[h].income
    BY <1>3, <1>4
<1>7. \A k \in SpendHandler \ {h} : scall'[k] = scall[k]
    BY <1>1, <1>2
<1>8. scall[h] \in SpendCalls /\ scall'[h] \in SpendCalls
    BY <1>3, <1>5 DEF SpendCalls, WeekCall
<1>9. scall' \in [SpendHandler -> {SpendIdle} \cup SpendCalls]
  <2>1. \A k \in SpendHandler : scall'[k] \in {SpendIdle} \cup SpendCalls
      BY <1>1, <1>7, <1>8
  <2>2. scall' = [k \in SpendHandler |-> scall'[k]]
      BY <1>1, <1>2
  <2> QED
      BY <2>1, <2>2
<1> QED
    BY <1>5, <1>6, <1>7, <1>8, <1>9

\* A request of a handler that is about to take its next step.
LEMMA CallInProgress ==
    ASSUME SpendTypeOK, NEW h \in SpendHandler, scall[h].op # "idle"
    PROVE  /\ scall[h] \in SpendCalls
           /\ scall[h] # SpendIdle
           /\ scall[h].alone \in BOOLEAN
           /\ scall[h].op # "generate" => scall[h].id \in Budget
           /\ scall[h].op = "compute" => scall[h].row \in BudgetRow
           /\ scall[h].op = "compute" /\ scall[h].at = "store"
                => scall[h].sum \in Nat
           /\ scall[h].op = "update" => scall[h].scope \in Scope
           /\ scall[h].op = "generate" => scall[h].id = Week
           /\ scall[h].op = "generate" /\ scall[h].at # "read"
                => /\ scall[h].spent \in Nat
                   /\ scall[h].income \in Nat
                   /\ scall[h].text \in {"none", "ai"}
<1>1. scall[h] \in {SpendIdle} \cup SpendCalls
    BY DEF SpendTypeOK, SpendCalls
<1> QED
    BY <1>1, CallFields

\* Step by step: what becomes of the request a handler goes on with.
LEMMA WriteCall ==
    ASSUME SpendTypeOK, NEW h \in SpendHandler, WriteBudget(h),
           budget[scall[h].id].state = "live"
    PROVE  /\ scall[h] \in SpendCalls /\ scall'[h] \in SpendCalls
           /\ scall[h].id \in Budget
           /\ scall'[h].op = "compute" /\ scall'[h].at = "sum"
           /\ scall'[h].id = scall[h].id
           /\ scall'[h].alone = scall[h].alone
           /\ scall'[h].row = [budget[scall[h].id] EXCEPT !.scope = scall[h].scope]
           /\ scall'[h].row \in BudgetRow
           /\ \A k \in SpendHandler \ {h} : scall'[k] = scall[k]
           /\ scall' \in [SpendHandler -> {SpendIdle} \cup SpendCalls]
<1> DEFINE new == [budget[scall[h].id] EXCEPT !.scope = scall[h].scope]
           c   == [op |-> "compute", at |-> "sum", id |-> scall[h].id,
                   alone |-> scall[h].alone, row |-> new]
<1>1. /\ scall[h] \in SpendCalls /\ scall[h].id \in Budget
      /\ scall[h].scope \in Scope /\ scall[h].alone \in BOOLEAN
    BY CallInProgress DEF WriteBudget
<1>2. new \in BudgetRow
    BY <1>1 DEF SpendTypeOK, BudgetRow
<1>3. scall' = [scall EXCEPT ![h] = c]
    BY DEF WriteBudget
<1>4. c \in SpendCalls
  <2> HIDE DEF new
  <2> QED
      BY <1>1, <1>2, CallForms
<1>5. /\ c.op = "compute" /\ c.at = "sum" /\ c.id = scall[h].id
      /\ c.alone = scall[h].alone /\ c.row = new
    OBVIOUS
<1> HIDE DEF c
<1>6. /\ scall'[h] = c
      /\ \A k \in SpendHandler \ {h} : scall'[k] = scall[k]
      /\ scall' \in [SpendHandler -> {SpendIdle} \cup SpendCalls]
    BY <1>3, <1>4, OtherCalls
<1> QED
    BY <1>1, <1>2, <1>4, <1>5, <1>6

LEMMA SumCall ==
    ASSUME SpendTypeOK, FiniteLedger, NEW h \in SpendHandler, SumBudget(h)
    PROVE  /\ scall[h] \in SpendCalls /\ scall'[h] \in SpendCalls
           /\ scall[h].op = "compute"
           /\ scall'[h].op = "compute" /\ scall'[h].at = "store"
           /\ scall'[h].id = scall[h].id
           /\ scall'[h].alone = scall[h].alone
           /\ scall'[h].row = scall[h].row
           /\ scall'[h].sum = Spent(scall[h].row.scope)
           /\ \A k \in SpendHandler \ {h} : scall'[k] = scall[k]
           /\ scall' \in [SpendHandler -> {SpendIdle} \cup SpendCalls]
<1> DEFINE sum == Spent(scall[h].row.scope)
           c   == [op |-> "compute", at |-> "store", id |-> scall[h].id,
                   alone |-> scall[h].alone, row |-> scall[h].row, sum |-> sum]
<1>1. /\ scall[h] \in SpendCalls /\ scall[h].id \in Budget
      /\ scall[h].row \in BudgetRow /\ scall[h].alone \in BOOLEAN
      /\ scall[h].op = "compute"
    BY CallInProgress DEF SumBudget
<1>2. sum \in Nat
    BY SpentNat
<1>3. scall' = [scall EXCEPT ![h] = c]
    BY DEF SumBudget
<1> HIDE DEF sum
<1>4. c \in SpendCalls
    BY <1>1, <1>2, CallForms
<1>5. /\ c.op = "compute" /\ c.at = "store" /\ c.id = scall[h].id
      /\ c.alone = scall[h].alone /\ c.row = scall[h].row /\ c.sum = sum
    OBVIOUS
<1> HIDE DEF c
<1>6. /\ scall'[h] = c
      /\ \A k \in SpendHandler \ {h} : scall'[k] = scall[k]
      /\ scall' \in [SpendHandler -> {SpendIdle} \cup SpendCalls]
    BY <1>3, <1>4, OtherCalls
<1> QED
    BY <1>1, <1>4, <1>5, <1>6 DEF sum

LEMMA ReadCall ==
    ASSUME SpendTypeOK, FiniteLedger, NEW h \in SpendHandler, ReadWeek(h)
    PROVE  /\ scall[h] \in SpendCalls /\ scall'[h] \in SpendCalls
           /\ scall[h].id = Week
           /\ scall'[h].op = "generate" /\ scall'[h].at = "ai"
           /\ scall'[h].id = scall[h].id
           /\ scall'[h].alone = scall[h].alone
           /\ scall'[h].spent = Outflow /\ scall'[h].income = Income
           /\ \A k \in SpendHandler \ {h} : scall'[k] = scall[k]
           /\ scall' \in [SpendHandler -> {SpendIdle} \cup SpendCalls]
<1> DEFINE c == [op |-> "generate", at |-> "ai", id |-> Week, alone |-> scall[h].alone,
                 spent |-> Outflow, income |-> Income, text |-> "none"]
<1>1. scall[h] \in SpendCalls /\ scall[h].id = Week /\ scall[h].alone \in BOOLEAN
    BY CallInProgress DEF ReadWeek
<1>2. Outflow \in Nat /\ Income \in Nat
    BY SpentNat
<1>3. scall' = [scall EXCEPT ![h] = c]
    BY DEF ReadWeek
<1>4. c \in SpendCalls
    BY <1>1, <1>2, CallForms
<1>5. /\ c.op = "generate" /\ c.at = "ai" /\ c.id = Week
      /\ c.alone = scall[h].alone /\ c.spent = Outflow /\ c.income = Income
    OBVIOUS
<1> HIDE DEF c
<1>6. /\ scall'[h] = c
      /\ \A k \in SpendHandler \ {h} : scall'[k] = scall[k]
      /\ scall' \in [SpendHandler -> {SpendIdle} \cup SpendCalls]
    BY <1>3, <1>4, OtherCalls
<1> QED
    BY <1>1, <1>4, <1>5, <1>6

\* A handler that has stored a total or dropped its request is idle.
LEMMA EndCalls ==
    ASSUME SpendTypeOK, NEW h \in SpendHandler, Stored(h) \/ Dropped(h)
    PROVE  /\ scall' = [scall EXCEPT ![h] = SpendIdle]
           /\ scall'[h] = SpendIdle
           /\ \A k \in SpendHandler \ {h} : scall'[k] = scall[k]
           /\ scall' \in [SpendHandler -> {SpendIdle} \cup SpendCalls]
           /\ scalls' \in 0 .. MaxSpendCalls
           /\ scall[h].op # "idle" => fresh' \in SUBSET (Budget \cup {Week})
<1>1. scall' = [scall EXCEPT ![h] = SpendIdle] /\ scalls' = scalls
    BY DEF Stored, Dropped
<1>2. scall[h].op # "idle" => fresh' \in SUBSET (Budget \cup {Week})
    BY CallInProgress DEF Stored, Dropped, SpendTypeOK
<1> QED
    BY <1>1, <1>2, OtherCalls DEF SpendTypeOK

\* Every request keeps the types.
LEMMA SpendTypeStep ==
    ASSUME SpendTypeOK, FiniteLedger, [SpendNext]_svars
    PROVE  SpendTypeOK'
<1> DEFINE Handlers == [SpendHandler -> {SpendIdle} \cup SpendCalls]
<1>1. SpendTypeOK' <=>
        /\ tx' \in [Tx -> {"absent", "live", "deleted"}]
        /\ cat' \in [Tx -> Category]
        /\ budget' \in [Budget -> BudgetRow]
        /\ week' \in WeekRow
        /\ scall' \in Handlers
        /\ scalls' \in 0 .. MaxSpendCalls
        /\ fresh' \in SUBSET (Budget \cup {Week})
    BY DEF SpendTypeOK, SpendCalls
<1>2. /\ tx \in [Tx -> {"absent", "live", "deleted"}]
      /\ cat \in [Tx -> Category]
      /\ budget \in [Budget -> BudgetRow]
      /\ week \in WeekRow
      /\ scall \in Handlers
      /\ scalls \in 0 .. MaxSpendCalls
      /\ fresh \in SUBSET (Budget \cup {Week})
    BY DEF SpendTypeOK, SpendCalls
<1> HIDE DEF Handlers
<1>3. ASSUME NEW t \in Tx, PostTx(t) \/ RecategoriseTx(t) \/ RemoveTx(t)
      PROVE  SpendTypeOK'
  <2>1. LedgerChanged
      BY <1>3 DEF PostTx, RecategoriseTx, RemoveTx
  <2>2. tx' \in [Tx -> {"absent", "live", "deleted"}]
      BY <1>2, <1>3 DEF PostTx, RecategoriseTx, RemoveTx
  <2>3. cat' \in [Tx -> Category]
      BY <1>2, <1>3 DEF PostTx, RecategoriseTx, RemoveTx
  <2>4. UNCHANGED <<budget, week>> /\ fresh' = {}
      BY <2>1 DEF LedgerChanged
  <2> QED
      BY <1>1, <1>2, <2>1, <2>2, <2>3, <2>4, LedgerCalls DEF Handlers
<1>4. ASSUME NEW h \in SpendHandler, CreateBudget(h) PROVE SpendTypeOK'
  <2>1. PICK b \in Budget, s \in Scope :
          LET new == [state |-> "live", scope |-> s, spent |-> 0] IN
          /\ budget' = [budget EXCEPT ![b] = new]
          /\ SpendBegin(h, [op |-> "compute", at |-> "sum", id |-> b,
                            alone |-> TRUE, row |-> new])
      BY <1>4 DEF CreateBudget
  <2>2. [state |-> "live", scope |-> s, spent |-> 0] \in BudgetRow
      BY DEF BudgetRow
  <2>3. budget' \in [Budget -> BudgetRow]
      BY <1>2, <2>1, <2>2
  <2>4. scall' \in Handlers /\ scalls' \in 0 .. MaxSpendCalls
      BY <2>1, <2>2, CallForms, BeginCalls DEF Handlers
  <2> QED
      BY <1>1, <1>2, <1>4, <2>3, <2>4 DEF CreateBudget
<1>5. ASSUME NEW h \in SpendHandler,
             \/ FindBudget(h) \/ FindBudgetForUpdate(h)
             \/ FindBudgetForDelete(h) \/ BeginWeek(h)
      PROVE  SpendTypeOK'
  <2>1. PICK c \in SpendCalls : SpendBegin(h, c)
    <3>1. CASE FindBudget(h)
        BY <1>2, <3>1, CallForms DEF FindBudget
    <3>2. CASE FindBudgetForUpdate(h)
        BY <3>2, CallForms DEF FindBudgetForUpdate
    <3>3. CASE FindBudgetForDelete(h)
        BY <3>3, CallForms DEF FindBudgetForDelete
    <3>4. CASE BeginWeek(h)
        BY <3>4, CallForms DEF BeginWeek
    <3> QED
        BY <1>5, <3>1, <3>2, <3>3, <3>4
  <2>2. scall' \in Handlers /\ scalls' \in 0 .. MaxSpendCalls
      BY <2>1, BeginCalls DEF Handlers
  <2>3. UNCHANGED <<tx, cat, budget, week, fresh>>
      BY <1>5 DEF FindBudget, FindBudgetForUpdate, FindBudgetForDelete, BeginWeek
  <2> QED
      BY <1>1, <1>2, <2>2, <2>3
<1>6. ASSUME NEW h \in SpendHandler, WriteBudget(h) PROVE SpendTypeOK'
  <2>3. CASE budget[scall[h].id].state = "live"
    <3>1. /\ scall[h].id \in Budget
          /\ [budget[scall[h].id] EXCEPT !.scope = scall[h].scope] \in BudgetRow
        BY <1>6, <2>3, WriteCall
    <3>2. budget' \in [Budget -> BudgetRow]
        BY <1>2, <1>6, <2>3, <3>1 DEF WriteBudget
    <3>3. scall' \in Handlers
        BY <1>6, <2>3, WriteCall DEF Handlers
    <3> QED
        BY <1>1, <1>2, <1>6, <2>3, <3>2, <3>3 DEF WriteBudget
  <2>4. CASE budget[scall[h].id].state # "live"
      BY <1>1, <1>2, <1>6, <2>4, EndCalls DEF WriteBudget, Handlers
  <2> QED
      BY <2>3, <2>4
<1>7. ASSUME NEW h \in SpendHandler, DeleteBudget(h) PROVE SpendTypeOK'
  <2>1. budget' \in [Budget -> BudgetRow]
      BY <1>2, <1>7 DEF DeleteBudget, BudgetRow
  <2> QED
      BY <1>1, <1>2, <1>7, <2>1, EndCalls DEF DeleteBudget, Handlers
<1>8. ASSUME NEW h \in SpendHandler, SumBudget(h) PROVE SpendTypeOK'
  <2>1. scall' \in Handlers
      BY <1>8, SumCall DEF Handlers
  <2> QED
      BY <1>1, <1>2, <1>8, <2>1 DEF SumBudget
<1>9. ASSUME NEW h \in SpendHandler, StoreBudget(h) PROVE SpendTypeOK'
  <2>1. scall[h].id \in Budget /\ scall[h].sum \in Nat
      BY <1>9, CallInProgress DEF StoreBudget
  <2>2. budget' \in [Budget -> BudgetRow]
      BY <1>2, <1>9, <2>1 DEF StoreBudget, BudgetRow
  <2>3. Stored(h) \/ Dropped(h)
      BY <1>9 DEF StoreBudget
  <2> QED
      BY <1>1, <1>2, <1>9, <2>2, <2>3, EndCalls DEF StoreBudget, Handlers
<1>10. ASSUME NEW h \in SpendHandler, ReadWeek(h) PROVE SpendTypeOK'
  <2>1. scall' \in Handlers
      BY <1>10, ReadCall DEF Handlers
  <2> QED
      BY <1>1, <1>2, <1>10, <2>1 DEF ReadWeek
<1>11. ASSUME NEW h \in SpendHandler, AskAi(h) PROVE SpendTypeOK'
    BY <1>1, <1>2, <1>11, AskAiCall DEF AskAi, Handlers
<1>12. ASSUME NEW h \in SpendHandler, UpsertWeek(h) PROVE SpendTypeOK'
  <2>1. week' \in WeekRow
      BY <1>2, <1>12, CallInProgress DEF UpsertWeek, WeekRow
  <2>2. Stored(h) \/ Dropped(h)
      BY <1>12 DEF UpsertWeek
  <2> QED
      BY <1>1, <1>2, <1>12, <2>1, <2>2, EndCalls DEF UpsertWeek, Handlers
<1>13. CASE UNCHANGED svars
    BY <1>1, <1>2, <1>13 DEF svars
<1> QED
    BY <1>3, <1>4, <1>5, <1>6, <1>7, <1>8, <1>9, <1>10, <1>11, <1>12, <1>13
    DEF SpendNext

\* A handler goes on with its request, or is done with it.
GoesOn(h) ==
    /\ scall[h] \in SpendCalls /\ scall'[h] \in SpendCalls
    /\ scall'[h].id = scall[h].id
    /\ scall'[h].alone = scall[h].alone
    /\ \A k \in SpendHandler \ {h} : scall'[k] = scall[k]

Ends(h) ==
    /\ scall[h] \in SpendCalls
    /\ scall'[h] = SpendIdle
    /\ \A k \in SpendHandler \ {h} : scall'[k] = scall[k]

\* The actions that begin, go on with and end requests.
BeginsOn(h, b) ==
    \E c \in SpendCalls :
        /\ SpendBegin(h, c)
        /\ c.id = b
        /\ c.op = "compute" => c.at = "sum" /\ c.row = budget'[b]
        /\ c.op = "generate" => c.at = "read"

LEMMA Beginning ==
    ASSUME SpendTypeOK, NEW h \in SpendHandler,
           \/ CreateBudget(h) \/ FindBudget(h)
           \/ FindBudgetForUpdate(h) \/ FindBudgetForDelete(h)
    PROVE  \E b \in Budget :
              /\ BeginsOn(h, b)
              /\ budget'[b].state = "live"
              /\ \/ budget' = budget
                 \/ /\ budget[b].state = "absent"
                    /\ \A a \in Budget \ {b} : budget'[a] = budget[a]
<1>1. budget \in [Budget -> BudgetRow]
    BY DEF SpendTypeOK
<1>2. CASE CreateBudget(h)
  <2>1. PICK b \in Budget, s \in Scope :
          LET new == [state |-> "live", scope |-> s, spent |-> 0] IN
          /\ budget[b].state = "absent"
          /\ budget' = [budget EXCEPT ![b] = new]
          /\ SpendBegin(h, [op |-> "compute", at |-> "sum", id |-> b,
                            alone |-> TRUE, row |-> new])
      BY <1>2 DEF CreateBudget
  <2> DEFINE new == [state |-> "live", scope |-> s, spent |-> 0]
             c   == [op |-> "compute", at |-> "sum", id |-> b, alone |-> TRUE,
                     row |-> new]
  <2>2. new \in BudgetRow /\ new.state = "live"
      BY DEF BudgetRow
  <2>3. budget'[b] = new /\ \A a \in Budget \ {b} : budget'[a] = budget[a]
      BY <1>1, <2>1
  <2>4. SpendBegin(h, c)
      BY <2>1
  <2> HIDE DEF new
  <2>5. c \in SpendCalls
      BY <2>2, CallForms
  <2>6. c.id = b /\ c.at = "sum" /\ c.row = new /\ c.op = "compute"
      OBVIOUS
  <2> HIDE DEF c
  <2>7. BeginsOn(h, b)
      BY <2>3, <2>4, <2>5, <2>6 DEF BeginsOn
  <2> QED
      BY <2>1, <2>2, <2>3, <2>7
<1>3. CASE FindBudget(h)
  <2>1. PICK b \in Budget :
          /\ budget[b].state = "live"
          /\ budget' = budget
          /\ SpendBegin(h, [op |-> "compute", at |-> "sum", id |-> b,
                            alone |-> TRUE, row |-> budget[b]])
      BY <1>3 DEF FindBudget
  <2> DEFINE c == [op |-> "compute", at |-> "sum", id |-> b, alone |-> TRUE,
                   row |-> budget[b]]
  <2>2. c \in SpendCalls
      BY <1>1, CallForms
  <2>3. SpendBegin(h, c)
      BY <2>1
  <2>4. c.id = b /\ c.at = "sum" /\ c.row = budget'[b] /\ c.op = "compute"
      BY <2>1
  <2> HIDE DEF c
  <2>5. BeginsOn(h, b)
      BY <2>2, <2>3, <2>4 DEF BeginsOn
  <2> QED
      BY <2>1, <2>5
<1>4. CASE FindBudgetForUpdate(h)
  <2>1. PICK b \in Budget, s \in Scope :
          /\ budget[b].state = "live"
          /\ budget' = budget
          /\ SpendBegin(h, [op |-> "update", at |-> "write", id |-> b,
                            alone |-> TRUE, scope |-> s])
      BY <1>4 DEF FindBudgetForUpdate
  <2> DEFINE c == [op |-> "update", at |-> "write", id |-> b, alone |-> TRUE,
                   scope |-> s]
  <2>2. c \in SpendCalls
      BY CallForms
  <2>3. SpendBegin(h, c)
      BY <2>1
  <2>4. c.id = b /\ c.op = "update"
      OBVIOUS
  <2> HIDE DEF c
  <2>5. BeginsOn(h, b)
      BY <2>2, <2>3, <2>4 DEF BeginsOn
  <2> QED
      BY <2>1, <2>5
<1>5. CASE FindBudgetForDelete(h)
  <2>1. PICK b \in Budget :
          /\ budget[b].state = "live"
          /\ budget' = budget
          /\ SpendBegin(h, [op |-> "delete", at |-> "write", id |-> b, alone |-> TRUE])
      BY <1>5 DEF FindBudgetForDelete
  <2> DEFINE c == [op |-> "delete", at |-> "write", id |-> b, alone |-> TRUE]
  <2>2. c \in SpendCalls
      BY CallForms
  <2>3. SpendBegin(h, c)
      BY <2>1
  <2>4. c.id = b /\ c.op = "delete"
      OBVIOUS
  <2> HIDE DEF c
  <2>5. BeginsOn(h, b)
      BY <2>2, <2>3, <2>4 DEF BeginsOn
  <2> QED
      BY <2>1, <2>5
<1> QED
    BY <1>2, <1>3, <1>4, <1>5

LEMMA BeginningWeek ==
    ASSUME SpendTypeOK, NEW h \in SpendHandler, BeginWeek(h)
    PROVE  BeginsOn(h, Week)
<1> DEFINE c == [op |-> "generate", at |-> "read", id |-> Week, alone |-> TRUE]
<1>1. c \in SpendCalls
    BY CallForms
<1>2. SpendBegin(h, c)
    BY DEF BeginWeek
<1>3. c.id = Week /\ c.op = "generate" /\ c.at = "read"
    OBVIOUS
<1> HIDE DEF c
<1> QED
    BY <1>1, <1>2, <1>3 DEF BeginsOn

LEMMA GoingOn ==
    ASSUME SpendTypeOK, FiniteLedger, NEW h \in SpendHandler,
           \/ WriteBudget(h) /\ budget[scall[h].id].state = "live"
           \/ SumBudget(h) \/ ReadWeek(h) \/ AskAi(h)
    PROVE  GoesOn(h)
    BY WriteCall, SumCall, ReadCall, AskAiCall DEF GoesOn

LEMMA Ending ==
    ASSUME SpendTypeOK, NEW h \in SpendHandler,
           \/ WriteBudget(h) /\ budget[scall[h].id].state # "live"
           \/ DeleteBudget(h) \/ StoreBudget(h) \/ UpsertWeek(h)
    PROVE  Ends(h)
<1>1. Stored(h) \/ Dropped(h)
    BY DEF WriteBudget, DeleteBudget, StoreBudget, UpsertWeek
<1>2. scall[h] \in SpendCalls
    BY CallInProgress DEF WriteBudget, DeleteBudget, StoreBudget, UpsertWeek
<1> QED
    BY <1>1, <1>2, EndCalls DEF Ends

\* What a request that begins changes of the requests in progress.
LEMMA BeginsFacts ==
    ASSUME SpendTypeOK, NEW h \in SpendHandler, NEW b, BeginsOn(h, b)
    PROVE  /\ scall'[h] \in SpendCalls
           /\ scall'[h].id = b
           /\ scall'[h].alone => \A k \in SpendHandler : ~ Busy(k, b)
           /\ scall'[h].op = "compute" => /\ scall'[h].at = "sum"
                                          /\ scall'[h].row = budget'[b]
           /\ scall'[h].op = "generate" => scall'[h].at = "read"
           /\ scall[h] = SpendIdle
           /\ \A k \in SpendHandler \ {h} :
                 /\ scall'[k] # SpendIdle <=> scall[k] # SpendIdle
                 /\ scall[k] # SpendIdle => scall'[k].id = scall[k].id
                 /\ scall'[k] # SpendIdle /\ scall'[k].alone
                      => scall'[k] = scall[k] /\ ~ Busy(k, b)
<1>1. PICK c \in SpendCalls :
        /\ SpendBegin(h, c)
        /\ c.id = b
        /\ c.op = "compute" => c.at = "sum" /\ c.row = budget'[b]
        /\ c.op = "generate" => c.at = "read"
    BY DEF BeginsOn
<1> DEFINE alone == \A j \in SpendHandler : ~Busy(j, c.id)
<1>2. /\ scall'[h] = [c EXCEPT !.alone = alone]
      /\ scall'[h].alone = alone
      /\ \A k \in SpendHandler \ {h} :
            /\ scall'[k] # SpendIdle <=> scall[k] # SpendIdle
            /\ scall[k] # SpendIdle => scall'[k].id = scall[k].id
            /\ scall'[k] # SpendIdle /\ scall'[k].alone
                 => scall'[k] = scall[k] /\ ~ Busy(k, c.id)
    BY <1>1, BeginCalls
<1>3. alone \in BOOLEAN
    OBVIOUS
<1> HIDE DEF alone
<1>4. /\ scall'[h] \in SpendCalls
      /\ scall'[h].id = c.id /\ scall'[h].op = c.op /\ scall'[h].at = c.at
    BY <1>2, <1>3, AloneType
<1>5. c.op = "compute" => scall'[h].row = c.row
    BY <1>2 DEF SpendCalls, BudgetCall, WeekCall
<1>6. scall[h] = SpendIdle
    BY <1>1 DEF SpendBegin
<1>7. scall'[h].alone => \A k \in SpendHandler : ~ Busy(k, b)
    BY <1>1, <1>2 DEF alone
<1> QED
    BY <1>1, <1>2, <1>4, <1>5, <1>6, <1>7

\* With the same transactions the same totals come out.
LEMMA SameTotals ==
    ASSUME UNCHANGED <<tx, cat>>
    PROVE  /\ \A scope : Spent(scope)' = Spent(scope)
           /\ Outflow' = Outflow /\ Income' = Income
<1>1. LiveTx' = LiveTx /\ cat' = cat
    BY DEF LiveTx
<1> QED
    BY <1>1 DEF Spent, Outflow, Income

\* Being alone.
LEMMA AloneStep ==
    ASSUME SpendInv, [SpendNext]_svars
    PROVE  AloneOnRow'
<1> USE DEF SpendInv
<1>1. ASSUME LedgerChanged PROVE AloneOnRow'
    BY <1>1, LedgerCalls DEF AloneOnRow, Busy
<1>2. ASSUME NEW h \in SpendHandler, NEW b, BeginsOn(h, b) PROVE AloneOnRow'
  <2> SUFFICES ASSUME NEW i \in SpendHandler, NEW k \in SpendHandler,
                      scall'[i] # SpendIdle, scall'[i].alone,
                      scall'[k] # SpendIdle, scall'[k].id = scall'[i].id
               PROVE  k = i
      BY DEF AloneOnRow, Busy
  <2>1. CASE i = h
      BY <1>2, <2>1, BeginsFacts DEF Busy
  <2>2. CASE i # h /\ k = h
    <3>1. scall'[k].id = b /\ scall'[i] = scall[i] /\ ~ Busy(i, b)
        BY <1>2, <2>2, BeginsFacts
    <3> QED
        BY <3>1 DEF Busy
  <2>3. CASE i # h /\ k # h
    <3>1. scall'[i] = scall[i] /\ scall[k] # SpendIdle /\ scall'[k].id = scall[k].id
        BY <1>2, <2>3, BeginsFacts
    <3> QED
        BY <3>1 DEF AloneOnRow, Busy
  <2> QED
      BY <2>1, <2>2, <2>3
<1>3. ASSUME NEW h \in SpendHandler, GoesOn(h) PROVE AloneOnRow'
  <2>1. \A k \in SpendHandler :
          /\ scall'[k] # SpendIdle <=> scall[k] # SpendIdle
          /\ scall'[k].id = scall[k].id
          /\ scall'[k].alone = scall[k].alone
      BY <1>3, NotIdle DEF GoesOn
  <2> QED
      BY <2>1 DEF AloneOnRow, Busy
<1>4. ASSUME NEW h \in SpendHandler, Ends(h) PROVE AloneOnRow'
    BY <1>4 DEF Ends, AloneOnRow, Busy
<1>5. CASE UNCHANGED svars
    BY <1>5 DEF svars, AloneOnRow, Busy
<1>6. ASSUME NEW h \in SpendHandler,
             \/ CreateBudget(h) \/ FindBudget(h)
             \/ FindBudgetForUpdate(h) \/ FindBudgetForDelete(h) \/ BeginWeek(h)
      PROVE  AloneOnRow'
    BY <1>2, <1>6, Beginning, BeginningWeek
<1>7. ASSUME NEW h \in SpendHandler,
             \/ WriteBudget(h) \/ SumBudget(h) \/ ReadWeek(h) \/ AskAi(h)
             \/ DeleteBudget(h) \/ StoreBudget(h) \/ UpsertWeek(h)
      PROVE  AloneOnRow'
    BY <1>3, <1>4, <1>7, GoingOn, Ending
<1>8. ASSUME NEW t \in Tx, PostTx(t) \/ RecategoriseTx(t) \/ RemoveTx(t)
      PROVE  AloneOnRow'
    BY <1>1, <1>8 DEF PostTx, RecategoriseTx, RemoveTx
<1> QED
    BY <1>5, <1>6, <1>7, <1>8 DEF SpendNext

\* A row that is there is never taken out of its table, and a step that is
\* not on a budget leaves it as it is.
LEMMA BudgetChange ==
    ASSUME SpendTypeOK, NEW h \in SpendHandler,
           WriteBudget(h) \/ DeleteBudget(h) \/ StoreBudget(h)
    PROVE  /\ scall[h] \in SpendCalls /\ scall[h].id \in Budget
           /\ budget' \in [Budget -> BudgetRow]
           /\ \A b \in Budget \ {scall[h].id} : budget'[b] = budget[b]
           /\ budget[scall[h].id].state # "absent"
                => budget'[scall[h].id].state # "absent"
           /\ UNCHANGED <<tx, cat, week>>
<1>1. scall[h] \in SpendCalls /\ scall[h].id \in Budget
    BY CallInProgress DEF WriteBudget, DeleteBudget, StoreBudget
<1>2. budget \in [Budget -> BudgetRow]
    BY DEF SpendTypeOK
<1>3. CASE WriteBudget(h)
  <2>1. CASE budget[scall[h].id].state = "live"
    <3> DEFINE new == [budget[scall[h].id] EXCEPT !.scope = scall[h].scope]
    <3>1. new \in BudgetRow
        BY <1>3, <2>1, WriteCall
    <3>2. new.state = "live"
        BY <1>1, <1>2, <2>1 DEF BudgetRow
    <3>3. budget' = [budget EXCEPT ![scall[h].id] = new]
        BY <1>3, <2>1 DEF WriteBudget
    <3> HIDE DEF new
    <3>4. /\ budget' \in [Budget -> BudgetRow]
          /\ budget'[scall[h].id] = new
          /\ \A b \in Budget \ {scall[h].id} : budget'[b] = budget[b]
        BY <1>1, <1>2, <3>1, <3>3
    <3> QED
        BY <1>1, <1>3, <3>2, <3>4 DEF WriteBudget
  <2>2. CASE budget[scall[h].id].state # "live"
      BY <1>1, <1>2, <1>3, <2>2 DEF WriteBudget
  <2> QED
      BY <2>1, <2>2
<1>4. CASE DeleteBudget(h)
    BY <1>1, <1>2, <1>4 DEF DeleteBudget, BudgetRow
<1>5. CASE StoreBudget(h)
  <2>1. scall[h].sum \in Nat
      BY <1>5, CallInProgress DEF StoreBudget
  <2>2. \/ budget' = budget
        \/ budget' = [budget EXCEPT ![scall[h].id].spent = scall[h].sum]
      BY <1>5 DEF StoreBudget
  <2>3. /\ budget' \in [Budget -> BudgetRow]
        /\ \A b \in Budget \ {scall[h].id} : budget'[b] = budget[b]
        /\ budget'[scall[h].id].state = budget[scall[h].id].state
      BY <1>1, <1>2, <2>1, <2>2 DEF BudgetRow
  <2> QED
      BY <1>1, <1>5, <2>3 DEF StoreBudget
<1> QED
    BY <1>3, <1>4, <1>5

LEMMA BudgetRowStep ==
    ASSUME SpendInv, [SpendNext]_svars
    PROVE  BudgetHasRow'
<1> USE DEF SpendInv
<1>1. ASSUME LedgerChanged PROVE BudgetHasRow'
  <2>1. budget' = budget /\ fresh' = {}
      BY <1>1 DEF LedgerChanged
  <2>2. ASSUME NEW k \in SpendHandler, NEW a \in Budget,
               scall'[k] # SpendIdle, scall'[k].id = a
        PROVE  budget'[a].state # "absent"
    <3>1. scall[k] # SpendIdle /\ scall[k].id = a
        BY <1>1, <2>2, LedgerCalls
    <3> QED
        BY <2>1, <3>1 DEF BudgetHasRow, Busy
  <2> QED
      BY <2>1, <2>2 DEF BudgetHasRow, Busy
<1>2. ASSUME NEW h \in SpendHandler,
             \/ CreateBudget(h) \/ FindBudget(h)
             \/ FindBudgetForUpdate(h) \/ FindBudgetForDelete(h)
      PROVE  BudgetHasRow'
  <2>1. PICK b \in Budget :
          /\ BeginsOn(h, b)
          /\ budget'[b].state = "live"
          /\ \/ budget' = budget
             \/ /\ budget[b].state = "absent"
                /\ \A a \in Budget \ {b} : budget'[a] = budget[a]
      BY <1>2, Beginning
  <2>2. /\ scall'[h].id = b
        /\ \A k \in SpendHandler \ {h} :
              /\ scall'[k] # SpendIdle <=> scall[k] # SpendIdle
              /\ scall[k] # SpendIdle => scall'[k].id = scall[k].id
      BY <2>1, BeginsFacts
  <2>3. fresh' = fresh
      BY <1>2 DEF CreateBudget, FindBudget, FindBudgetForUpdate, FindBudgetForDelete
  <2>4. \A a \in Budget : budget[a].state # "absent" => budget'[a].state # "absent"
      BY <2>1
  <2>5. \A k \in SpendHandler, a \in Budget :
          scall'[k] # SpendIdle /\ scall'[k].id = a => budget'[a].state # "absent"
      BY <2>1, <2>2, <2>4 DEF BudgetHasRow, Busy
  <2> QED
      BY <2>3, <2>4, <2>5 DEF BudgetHasRow, Busy
<1>3. ASSUME NEW h \in SpendHandler, BeginWeek(h) PROVE BudgetHasRow'
  <2>1. budget' = budget /\ fresh' = fresh
      BY <1>3 DEF BeginWeek
  <2>2. /\ scall'[h].id = Week
        /\ \A k \in SpendHandler \ {h} :
              /\ scall'[k] # SpendIdle <=> scall[k] # SpendIdle
              /\ scall[k] # SpendIdle => scall'[k].id = scall[k].id
      BY <1>3, BeginningWeek, BeginsFacts
  <2> QED
      BY <2>1, <2>2, SpendAssumption DEF BudgetHasRow, Busy
<1>4. ASSUME NEW h \in SpendHandler, GoesOn(h) \/ Ends(h),
             fresh' \subseteq fresh \cup {scall[h].id},
             \A b \in Budget : budget[b].state # "absent" => budget'[b].state # "absent"
      PROVE  BudgetHasRow'
  <2>1. \A k \in SpendHandler :
          scall'[k] # SpendIdle => scall[k] # SpendIdle /\ scall'[k].id = scall[k].id
      BY <1>4, NotIdle DEF GoesOn, Ends
  <2>2. scall[h] # SpendIdle
      BY <1>4, NotIdle DEF GoesOn, Ends
  <2>3. \A k \in SpendHandler, a \in Budget :
          scall'[k] # SpendIdle /\ scall'[k].id = a => budget'[a].state # "absent"
      BY <1>4, <2>1 DEF BudgetHasRow, Busy
  <2>4. \A a \in fresh' \cap Budget : budget'[a].state # "absent"
      BY <1>4, <2>2 DEF BudgetHasRow, Busy
  <2> QED
      BY <2>3, <2>4 DEF BudgetHasRow, Busy
<1>5. ASSUME NEW h \in SpendHandler,
             WriteBudget(h) \/ DeleteBudget(h) \/ StoreBudget(h)
      PROVE  BudgetHasRow'
  <2>1. GoesOn(h) \/ Ends(h)
      BY <1>5, GoingOn, Ending
  <2>2. fresh' \subseteq fresh \cup {scall[h].id}
      BY <1>5 DEF WriteBudget, DeleteBudget, StoreBudget, Stored, Dropped
  <2>3. \A b \in Budget : budget[b].state # "absent" => budget'[b].state # "absent"
      BY <1>5, BudgetChange
  <2> QED
      BY <1>4, <2>1, <2>2, <2>3
<1>6. ASSUME NEW h \in SpendHandler,
             SumBudget(h) \/ ReadWeek(h) \/ AskAi(h) \/ UpsertWeek(h)
      PROVE  BudgetHasRow'
  <2>1. GoesOn(h) \/ Ends(h)
      BY <1>6, GoingOn, Ending
  <2>2. fresh' \subseteq fresh \cup {scall[h].id} /\ budget' = budget
      BY <1>6 DEF SumBudget, ReadWeek, AskAi, UpsertWeek, Stored, Dropped
  <2> QED
      BY <1>4, <2>1, <2>2
<1>7. CASE UNCHANGED svars
    BY <1>7 DEF svars, BudgetHasRow, Busy
<1>8. ASSUME NEW t \in Tx, PostTx(t) \/ RecategoriseTx(t) \/ RemoveTx(t)
      PROVE  BudgetHasRow'
    BY <1>1, <1>8 DEF PostTx, RecategoriseTx, RemoveTx
<1> QED
    BY <1>2, <1>3, <1>5, <1>6, <1>7, <1>8 DEF SpendNext

\* With the same transactions a request that knew what is so still does, and
\* so do the rows whose totals are fresh.
LEMMA StandsLater ==
    ASSUME UNCHANGED <<tx, cat>>,
           \A k \in SpendHandler :
              scall'[k] # SpendIdle /\ scall'[k].alone => Stands(scall'[k], budget')
    PROVE  ReadingsStand'
<1>1. LiveTx' = LiveTx /\ cat' = cat
    BY DEF LiveTx
<1> SUFFICES ASSUME NEW k \in SpendHandler, scall'[k] # SpendIdle, scall'[k].alone
             PROVE  Stands(scall[k], budget)'
    BY DEF ReadingsStand
<1>2. Stands(scall'[k], budget')
    OBVIOUS
<1>3. /\ scall'[k].op = "compute" => scall'[k].row = budget'[scall'[k].id]
      /\ scall'[k].op = "compute" /\ scall'[k].at = "store"
           => scall'[k].sum = Spent(scall'[k].row.scope)
      /\ scall'[k].op = "generate" /\ scall'[k].at # "read"
           => scall'[k].spent = Outflow /\ scall'[k].income = Income
    BY <1>2 DEF Stands
<1>4. Spent(scall[k].row.scope)' = Spent(scall'[k].row.scope)
    BY <1>1 DEF Spent
<1>5. Outflow' = Outflow /\ Income' = Income
    BY <1>1 DEF Outflow, Income
<1> QED
    BY <1>3, <1>4, <1>5 DEF Stands

\* What has been read stands.
LEMMA ReadingsStep ==
    ASSUME SpendInv, [SpendNext]_svars
    PROVE  ReadingsStand'
<1> USE DEF SpendInv
\* Of two requests on one row none is alone.
<1>0. ASSUME NEW h \in SpendHandler, NEW k \in SpendHandler \ {h},
             scall[h] \in SpendCalls, scall[k] # SpendIdle, scall[k].alone
      PROVE  scall[k].id # scall[h].id
    BY <1>0, NotIdle DEF AloneOnRow, Busy
<1>1. ASSUME LedgerChanged PROVE ReadingsStand'
    BY <1>1, LedgerCalls DEF ReadingsStand
<1>2. ASSUME NEW h \in SpendHandler,
             \/ CreateBudget(h) \/ FindBudget(h)
             \/ FindBudgetForUpdate(h) \/ FindBudgetForDelete(h)
      PROVE  ReadingsStand'
  <2>1. PICK b \in Budget :
          /\ BeginsOn(h, b)
          /\ \A a \in Budget \ {b} : budget'[a] = budget[a]
      BY <1>2, Beginning
  <2>2. UNCHANGED <<tx, cat>>
      BY <1>2 DEF CreateBudget, FindBudget, FindBudgetForUpdate, FindBudgetForDelete
  <2>3. /\ scall'[h] \in SpendCalls
        /\ scall'[h].id = b
        /\ scall'[h].op = "compute" => scall'[h].at = "sum" /\ scall'[h].row = budget'[b]
        /\ scall'[h].op = "generate" => scall'[h].at = "read"
      BY <2>1, BeginsFacts
  <2>4. Stands(scall'[h], budget')
      BY <2>3 DEF Stands
  <2>5. ASSUME NEW k \in SpendHandler \ {h}, scall'[k] # SpendIdle, scall'[k].alone
        PROVE  Stands(scall'[k], budget')
    <3>1. scall'[k] = scall[k] /\ ~ Busy(k, b)
        BY <2>1, <2>5, BeginsFacts
    <3>2. Stands(scall[k], budget) /\ scall[k].id # b
        BY <2>5, <3>1 DEF ReadingsStand, Busy
    <3>3. scall[k].op = "compute" => scall[k].id \in Budget
        BY CallInProgress
    <3> QED
        BY <2>1, <3>1, <3>2, <3>3 DEF Stands
  <2> QED
      BY <2>2, <2>4, <2>5, StandsLater
<1>3. ASSUME NEW h \in SpendHandler, BeginWeek(h) PROVE ReadingsStand'
  <2>1. UNCHANGED <<tx, cat, budget>> /\ BeginsOn(h, Week)
      BY <1>3, BeginningWeek DEF BeginWeek
  <2>2. /\ scall'[h].id = Week
        /\ scall'[h].op = "compute" => scall'[h].at = "sum" /\ scall'[h].row = budget'[Week]
        /\ scall'[h].op = "generate" => scall'[h].at = "read"
        /\ \A k \in SpendHandler \ {h} :
             scall'[k] # SpendIdle /\ scall'[k].alone => scall'[k] = scall[k]
      BY <2>1, BeginsFacts
  <2>3. Stands(scall'[h], budget')
      BY <2>2 DEF Stands
  <2>4. \A k \in SpendHandler \ {h} :
          scall'[k] # SpendIdle /\ scall'[k].alone => Stands(scall'[k], budget')
      BY <2>1, <2>2 DEF ReadingsStand
  <2> QED
      BY <2>1, <2>3, <2>4, StandsLater
\* A step on a budget leaves those who are alone on other rows what they read.
<1>4. ASSUME NEW h \in SpendHandler, GoesOn(h) \/ Ends(h), UNCHANGED <<tx, cat>>,
             \A b \in Budget \ {scall[h].id} : budget'[b] = budget[b],
             scall'[h] # SpendIdle /\ scall'[h].alone => Stands(scall'[h], budget')
      PROVE  ReadingsStand'
  <2>1. ASSUME NEW k \in SpendHandler \ {h}, scall'[k] # SpendIdle, scall'[k].alone
        PROVE  Stands(scall'[k], budget')
    <3>1. scall'[k] = scall[k] /\ scall[h] \in SpendCalls
        BY <1>4 DEF GoesOn, Ends
    <3>2. Stands(scall[k], budget) /\ scall[k].id # scall[h].id
        BY <1>0, <2>1, <3>1 DEF ReadingsStand
    <3>3. scall[k].op = "compute" => scall[k].id \in Budget
        BY CallInProgress
    <3> QED
        BY <1>4, <3>1, <3>2, <3>3 DEF Stands
  <2> QED
      BY <1>4, <2>1, StandsLater
<1>5. ASSUME NEW h \in SpendHandler,
             WriteBudget(h) \/ DeleteBudget(h) \/ StoreBudget(h)
      PROVE  ReadingsStand'
  <2>1. /\ UNCHANGED <<tx, cat>>
        /\ \A b \in Budget \ {scall[h].id} : budget'[b] = budget[b]
      BY <1>5, BudgetChange
  <2>2. CASE WriteBudget(h) /\ budget[scall[h].id].state = "live"
    <3> DEFINE new == [budget[scall[h].id] EXCEPT !.scope = scall[h].scope]
    <3>1. /\ scall'[h].op = "compute" /\ scall'[h].at = "sum"
          /\ scall'[h].id = scall[h].id /\ scall[h].id \in Budget
          /\ scall'[h].row = new
        BY <2>2, WriteCall
    <3>2. budget' = [budget EXCEPT ![scall[h].id] = new]
        BY <2>2 DEF WriteBudget
    <3> HIDE DEF new
    <3>3. budget'[scall[h].id] = new
        BY <3>1, <3>2 DEF SpendTypeOK
    <3>4. Stands(scall'[h], budget')
        BY <3>1, <3>3 DEF Stands
    <3> QED
        BY <1>4, <2>1, <2>2, <3>4, GoingOn
  <2>3. CASE ~ (WriteBudget(h) /\ budget[scall[h].id].state = "live")
    <3>1. Ends(h)
        BY <1>5, <2>3, Ending
    <3> QED
        BY <1>4, <2>1, <3>1 DEF Ends
  <2> QED
      BY <2>2, <2>3
<1>6. ASSUME NEW h \in SpendHandler, SumBudget(h) PROVE ReadingsStand'
  <2>1. UNCHANGED <<tx, cat, budget>>
      BY <1>6 DEF SumBudget
  <2>2. /\ scall[h] \in SpendCalls /\ scall[h].op = "compute"
        /\ scall'[h].op = "compute" /\ scall'[h].at = "store"
        /\ scall'[h].id = scall[h].id
        /\ scall'[h].alone = scall[h].alone
        /\ scall'[h].row = scall[h].row
        /\ scall'[h].sum = Spent(scall[h].row.scope)
      BY <1>6, SumCall
  <2>3. scall[h].alone => Stands(scall[h], budget)
      BY <2>2, NotIdle DEF ReadingsStand
  <2>4. scall'[h].alone => Stands(scall'[h], budget')
      BY <2>1, <2>2, <2>3 DEF Stands
  <2> QED
      BY <1>4, <1>6, <2>1, <2>4, GoingOn
<1>7. ASSUME NEW h \in SpendHandler, ReadWeek(h) PROVE ReadingsStand'
  <2>1. UNCHANGED <<tx, cat, budget>>
      BY <1>7 DEF ReadWeek
  <2>2. Stands(scall'[h], budget')
      BY <1>7, ReadCall DEF Stands
  <2> QED
      BY <1>4, <1>7, <2>1, <2>2, GoingOn
<1>8. ASSUME NEW h \in SpendHandler, AskAi(h) PROVE ReadingsStand'
  <2>1. UNCHANGED <<tx, cat, budget>> /\ scall[h].op = "generate" /\ scall[h].at = "ai"
      BY <1>8 DEF AskAi
  <2>2. /\ scall[h] \in SpendCalls
        /\ scall'[h].op = "generate"
        /\ scall'[h].alone = scall[h].alone
        /\ scall'[h].spent = scall[h].spent
        /\ scall'[h].income = scall[h].income
      BY <1>8, AskAiCall
  <2>3. scall[h].alone => Stands(scall[h], budget)
      BY <2>2, NotIdle DEF ReadingsStand
  <2>4. scall'[h].alone => Stands(scall'[h], budget')
      BY <2>1, <2>2, <2>3 DEF Stands
  <2> QED
      BY <1>4, <1>8, <2>1, <2>4, GoingOn
<1>9. ASSUME NEW h \in SpendHandler, UpsertWeek(h) PROVE ReadingsStand'
  <2>1. UNCHANGED <<tx, cat, budget>>
      BY <1>9 DEF UpsertWeek
  <2>2. Ends(h)
      BY <1>9, Ending
  <2> QED
      BY <1>4, <2>1, <2>2 DEF Ends
<1>10. CASE UNCHANGED svars
  <2>1. UNCHANGED <<tx, cat>> /\ scall' = scall /\ budget' = budget
      BY <1>10 DEF svars
  <2> QED
      BY <2>1, StandsLater DEF ReadingsStand
<1>11. ASSUME NEW t \in Tx, PostTx(t) \/ RecategoriseTx(t) \/ RemoveTx(t)
       PROVE  ReadingsStand'
    BY <1>1, <1>11 DEF PostTx, RecategoriseTx, RemoveTx
<1> QED
    BY <1>2, <1>3, <1>5, <1>6, <1>7, <1>8, <1>9, <1>10, <1>11 DEF SpendNext

\* A fresh total stays what the ledger says.
LEMMA FreshLater ==
    ASSUME UNCHANGED <<tx, cat>>,
           \A b \in fresh' \cap Budget :
              budget'[b].state = "live" => budget'[b].spent = Spent(budget'[b].scope),
           Week \in fresh' =>
              week'.state = "stored" /\ week'.spent = Outflow /\ week'.income = Income
    PROVE  StoredTotalsFresh'
<1>1. LiveTx' = LiveTx /\ cat' = cat
    BY DEF LiveTx
<1>2. ASSUME NEW b \in fresh' \cap Budget PROVE Spent(budget[b].scope)' = Spent(budget'[b].scope)
    BY <1>1 DEF Spent
<1>3. Outflow' = Outflow /\ Income' = Income
    BY <1>1 DEF Outflow, Income
<1> QED
    BY <1>2, <1>3 DEF StoredTotalsFresh

LEMMA FreshStep ==
    ASSUME SpendInv, [SpendNext]_svars
    PROVE  StoredTotalsFresh'
<1> USE DEF SpendInv
<1>1. ASSUME LedgerChanged PROVE StoredTotalsFresh'
    BY <1>1 DEF LedgerChanged, StoredTotalsFresh
<1>2. ASSUME UNCHANGED <<tx, cat, budget, week, fresh>> PROVE StoredTotalsFresh'
    BY <1>2, FreshLater DEF StoredTotalsFresh
<1>3. ASSUME NEW h \in SpendHandler,
             \/ FindBudget(h) \/ FindBudgetForUpdate(h) \/ FindBudgetForDelete(h)
             \/ SumBudget(h) \/ BeginWeek(h) \/ ReadWeek(h) \/ AskAi(h)
      PROVE  StoredTotalsFresh'
    BY <1>2, <1>3 DEF FindBudget, FindBudgetForUpdate, FindBudgetForDelete,
       SumBudget, BeginWeek, ReadWeek, AskAi
<1>4. ASSUME NEW h \in SpendHandler, CreateBudget(h) PROVE StoredTotalsFresh'
  <2>1. PICK b \in Budget, s \in Scope :
          /\ budget[b].state = "absent"
          /\ budget' = [budget EXCEPT ![b] = [state |-> "live", scope |-> s, spent |-> 0]]
      BY <1>4 DEF CreateBudget
  <2>2. UNCHANGED <<tx, cat, week, fresh>>
      BY <1>4 DEF CreateBudget
  <2>3. \A a \in fresh \cap Budget : budget'[a] = budget[a]
      BY <2>1 DEF BudgetHasRow, SpendTypeOK
  <2> QED
      BY <2>2, <2>3, FreshLater DEF StoredTotalsFresh
<1>5. ASSUME NEW h \in SpendHandler, WriteBudget(h) PROVE StoredTotalsFresh'
  <2>1. /\ UNCHANGED <<tx, cat, week>>
        /\ scall[h].id \in Budget
        /\ \A b \in Budget \ {scall[h].id} : budget'[b] = budget[b]
      BY <1>5, BudgetChange
  <2>2. \/ UNCHANGED <<budget, fresh>>
        \/ fresh' = fresh \ {scall[h].id}
      BY <1>5 DEF WriteBudget, Dropped
  <2>3. \A b \in fresh' \cap Budget : b \in fresh /\ budget'[b] = budget[b]
      BY <2>1, <2>2
  <2>4. Week \in fresh' => Week \in fresh
      BY <2>2
  <2> QED
      BY <2>1, <2>3, <2>4, FreshLater DEF StoredTotalsFresh
<1>6. ASSUME NEW h \in SpendHandler, DeleteBudget(h) PROVE StoredTotalsFresh'
  <2>1. /\ UNCHANGED <<tx, cat, week>>
        /\ scall[h].id \in Budget
        /\ \A b \in Budget \ {scall[h].id} : budget'[b] = budget[b]
      BY <1>6, BudgetChange
  <2>2. fresh' = fresh
      BY <1>6 DEF DeleteBudget, Dropped
  <2>3. budget'[scall[h].id].state # "live"
      BY <1>6, <2>1 DEF DeleteBudget, SpendTypeOK, BudgetRow
  <2>4. \A b \in fresh' \cap Budget :
          budget'[b].state = "live" => b \in fresh /\ budget'[b] = budget[b]
      BY <2>1, <2>2, <2>3
  <2> QED
      BY <2>1, <2>2, <2>4, FreshLater DEF StoredTotalsFresh
<1>7. ASSUME NEW h \in SpendHandler, StoreBudget(h) PROVE StoredTotalsFresh'
  <2> DEFINE b == scall[h].id
             c == scall[h]
  <2>1. /\ UNCHANGED <<tx, cat, week>>
        /\ b \in Budget
        /\ \A a \in Budget \ {b} : budget'[a] = budget[a]
      BY <1>7, BudgetChange
  <2>2. c # SpendIdle /\ c.sum \in Nat /\ c.op = "compute" /\ c.at = "store"
      BY <1>7, CallInProgress DEF StoreBudget
  <2>3. c.alone => c.row = budget[b] /\ c.sum = Spent(budget[b].scope)
    <3>1. c.alone => Stands(c, budget)
        BY <2>2 DEF ReadingsStand
    <3> QED
        BY <2>2, <3>1 DEF Stands
  <2>4. Week \in fresh' => Week \in fresh
    <3>1. fresh' \subseteq fresh \cup {b}
        BY <1>7 DEF StoreBudget, Stored, Dropped
    <3> QED
        BY <2>1, <3>1, SpendAssumption
  <2>5. ASSUME NEW a \in fresh' \cap Budget, a # b
        PROVE  a \in fresh /\ budget'[a] = budget[a]
    <3>1. fresh' \subseteq fresh \cup {b}
        BY <1>7 DEF StoreBudget, Stored, Dropped
    <3> QED
        BY <2>1, <2>5, <3>1
  <2>6. ASSUME b \in fresh', budget'[b].state = "live"
        PROVE  budget'[b].spent = Spent(budget'[b].scope)
    <3>1. CASE c.row.spent # c.sum /\ budget[b].state = "live"
      <4>1. budget' = [budget EXCEPT ![b].spent = c.sum] /\ Stored(h)
          BY <1>7, <3>1 DEF StoreBudget
      <4>2. c.alone
          BY <2>6, <4>1 DEF Stored
      <4>3. budget[b] \in BudgetRow
          BY <2>1 DEF SpendTypeOK
      <4>4. budget'[b] = [budget[b] EXCEPT !.spent = c.sum]
          BY <2>1, <4>1 DEF SpendTypeOK
      <4>5. budget'[b].spent = c.sum /\ budget'[b].scope = budget[b].scope
          BY <4>3, <4>4 DEF BudgetRow
      <4> QED
          BY <2>3, <4>2, <4>5
    <3>2. CASE ~ (c.row.spent # c.sum /\ budget[b].state = "live")
      <4>1. budget' = budget
          BY <1>7, <3>2 DEF StoreBudget
      <4>2. CASE c.alone
          BY <2>3, <2>6, <3>2, <4>1, <4>2
      <4>3. CASE ~ c.alone
        <5>1. fresh' = fresh
            BY <1>7, <3>2, <4>3 DEF StoreBudget, Dropped
        <5> QED
            BY <2>1, <2>6, <4>1, <5>1 DEF StoredTotalsFresh
      <4> QED
          BY <4>2, <4>3
    <3> QED
        BY <3>1, <3>2
  <2>7. \A a \in fresh' \cap Budget :
          budget'[a].state = "live" => budget'[a].spent = Spent(budget'[a].scope)
      BY <2>5, <2>6 DEF StoredTotalsFresh
  <2> QED
      BY <2>1, <2>4, <2>7, FreshLater DEF StoredTotalsFresh
<1>8. ASSUME NEW h \in SpendHandler, UpsertWeek(h) PROVE StoredTotalsFresh'
  <2>1. UNCHANGED <<tx, cat, budget>>
      BY <1>8 DEF UpsertWeek
  <2>2. /\ scall[h] # SpendIdle /\ scall[h].id = Week
        /\ scall[h].op = "generate" /\ scall[h].at = "upsert"
      BY <1>8, CallInProgress DEF UpsertWeek
  <2>3. scall[h].alone => scall[h].spent = Outflow /\ scall[h].income = Income
    <3>1. scall[h].alone => Stands(scall[h], budget)
        BY <2>2 DEF ReadingsStand
    <3> QED
        BY <2>2, <3>1 DEF Stands
  <2>4. fresh' \subseteq fresh \cup {Week}
      BY <1>8, <2>2 DEF UpsertWeek, Stored, Dropped
  <2>5. \A b \in fresh' \cap Budget :
          budget'[b].state = "live" => budget'[b].spent = Spent(budget'[b].scope)
      BY <2>1, <2>4, SpendAssumption DEF StoredTotalsFresh
  <2>6. ASSUME Week \in fresh'
        PROVE  week'.state = "stored" /\ week'.spent = Outflow /\ week'.income = Income
    <3>1. CASE RateFits(scall[h].income, scall[h].spent)
      <4>1. /\ week' = [state |-> "stored", spent |-> scall[h].spent,
                        income |-> scall[h].income, text |-> scall[h].text]
            /\ Stored(h)
          BY <1>8, <3>1 DEF UpsertWeek
      <4>2. scall[h].alone
          BY <2>2, <2>6, <4>1 DEF Stored
      <4> QED
          BY <2>3, <4>1, <4>2
    <3>2. CASE ~ RateFits(scall[h].income, scall[h].spent)
      <4>1. week' = week /\ fresh' = fresh
          BY <1>8, <3>2 DEF UpsertWeek, Dropped
      <4> QED
          BY <2>6, <4>1 DEF StoredTotalsFresh
    <3> QED
        BY <3>1, <3>2
  <2> QED
      BY <2>1, <2>5, <2>6, FreshLater
<1>9. CASE UNCHANGED svars
    BY <1>2, <1>9 DEF svars
<1>10. ASSUME NEW t \in Tx, PostTx(t) \/ RecategoriseTx(t) \/ RemoveTx(t)
       PROVE  StoredTotalsFresh'
    BY <1>1, <1>10 DEF PostTx, RecategoriseTx, RemoveTx
<1> QED
    BY <1>3, <1>4, <1>5, <1>6, <1>7, <1>8, <1>9, <1>10 DEF SpendNext

LEMMA SpendStep ==
    ASSUME SpendInv, [SpendNext]_svars PROVE SpendInv'
<1>1. SpendTypeOK' /\ FiniteLedger'
    BY SpendTypeStep, FiniteLedgerStep DEF SpendInv
<1> QED
    BY <1>1, AloneStep, BudgetRowStep, ReadingsStep, FreshStep DEF SpendInv

-----------------------------------------------------------------------------
(* The theorems *)

\* A step of the composition is a step of one part and a stutter of the rest.
LEMMA PartsStep ==
    ASSUME [Next]_vars
    PROVE  /\ [AccountNext]_avars /\ [GoalNext]_gvars
           /\ [SpendNext]_svars /\ [PrefNext]_pvars
BY DEF Next, vars, Accounts, Goals, Spending, Preferences

PartsInv == AccountInv /\ GoalInv /\ SpendInv /\ PrefInv

\* The invariants of the parts hold in every state of the composition.
THEOREM PartsInvariance == Spec => []PartsInv
<1>1. Init => PartsInv
    BY AccountInitInv, GoalInitInv, SpendInitInv, PrefInitInv DEF Init, PartsInv
<1>2. PartsInv /\ [Next]_vars => PartsInv'
    BY PartsStep, AccountStep, GoalStep, SpendStep, PrefStep DEF PartsInv
<1> QED
    BY <1>1, <1>2, PTL DEF Spec

\* Rows, requests and counters of accounts, goals, budgets, the weekly summary
\* and preferences stay in their types.
THEOREM TypeCorrect == Spec => []TypeOK
<1>1. PartsInv => TypeOK
    BY DEF PartsInv, AccountInv, GoalInv, SpendInv, PrefInv, TypeOK
<1> QED
    BY <1>1, PartsInvariance, PTL

\* Unless two requests that set the flag overlapped, there is one primary
\* account at most, and it is the one last made primary (AccountService).
THEOREM OnePrimary == Spec => []PrimaryStands
<1>1. PartsInv => PrimaryStands
    BY DEF PartsInv, AccountInv, PrimarySerial, PrimaryStands, SetterOpen, Cleared
<1> QED
    BY <1>1, PartsInvariance, PTL

\* A goal no two requests worked on at once holds what its requests put into
\* it, one after the other (GoalService.contribute, update).
THEOREM GoalsExact == Spec => []GoalExact
<1>1. PartsInv => GoalExact
    BY DEF PartsInv, GoalInv, GoalSerial, GoalExact
<1> QED
    BY <1>1, PartsInvariance, PTL

\* Without overlapping requests every switch is as it was last asked for
\* (NotificationService.updatePreferences).
THEOREM SwitchesKept == Spec => []PrefsKept
<1>1. PartsInv => PrefsKept
    BY DEF PartsInv, PrefInv, PrefsSerial, PrefsKept
<1> QED
    BY <1>1, PartsInvariance, PTL

\* A total that was computed alone, while the ledger stood still, is what the
\* ledger adds up to until the ledger, the budget or an overlapping request
\* changes it (computeSpentAndSerialize, generateForRange).
THEOREM TotalsFresh == Spec => []StoredTotalsFresh
<1>1. PartsInv => StoredTotalsFresh
    BY DEF PartsInv, SpendInv
<1> QED
    BY <1>1, PartsInvariance, PTL
=============================================================================
