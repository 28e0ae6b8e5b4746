--------------------------- MODULE AccountRecords ---------------------------
(***************************************************************************)
(* AccountService: the Account rows of one user and the requests that     *)
(* change them.  A handler is suspended at every await, so each action is  *)
(* one call of the database; a request that is refused before its first    *)
(* write (404) changes nothing and is a stuttering step.  Only what the    *)
(* primary flag depends on is kept of a row: whether it exists, whether it *)
(* is deleted, its name (unique per user, deleted rows included) and the   *)
(* flag.  The middleware adds deletedAt: null to every read and update.    *)
(***************************************************************************)
EXTENDS Naturals

CONSTANTS
    Account,          \* rows the user may create
    Name,             \* account names
    NoName,           \* an update that leaves the name alone; an absent row's name
    NoAccount,
    AccountHandler,   \* requests that may be in progress at once
    MaxAccountCalls   \* bound: requests in a behaviour

ASSUME AccountAssumption ==
    /\ NoName \notin Name
    /\ NoAccount \notin Account
    /\ MaxAccountCalls \in Nat

VARIABLES
    row,       \* "absent", "live" or "deleted"
    name,      \* accountName
    primary,   \* rows with isPrimary
    acall,     \* the request each handler serves
    acalls,    \* requests so far
    raced,     \* two requests that set the flag have been in progress at once
    claim      \* the account the last one of them made primary

avars == <<row, name, primary, acall, acalls, raced, claim>>

-----------------------------------------------------------------------------
(* Types *)

Idle == [op |-> "idle"]
Flag == {"keep", "set", "unset"}     \* dto.isPrimary: undefined, true, false

Call == {Idle}
    \cup [op : {"create"}, at : {"write"}, name : Name]
    \cup [op : {"update"}, at : {"clear", "write"}, id : Account,
          name : Name \cup {NoName}, flag : Flag]
    \cup [op : {"setPrimary"}, at : {"clear", "write"}, id : Account]
    \cup [op : {"delete"}, at : {"write"}, id : Account]

AccountTypeOK ==
    /\ row \in [Account -> {"absent", "live", "deleted"}]
    /\ name \in [Account -> Name \cup {NoName}]
    /\ primary \in SUBSET Account
    /\ acall \in [AccountHandler -> Call]
    /\ acalls \in 0 .. MaxAccountCalls
    /\ raced \in BOOLEAN
    /\ claim \in Account \cup {NoAccount}

AccountInit ==
    /\ row = [a \in Account |-> "absent"]
    /\ name = [a \in Account |-> NoName]
    /\ primary = {}
    /\ acall = [h \in AccountHandler |-> Idle]
    /\ acalls = 0
    /\ raced = FALSE
    /\ claim = NoAccount

Live == {a \in Account : row[a] = "live"}
Primaries == primary \cap Live
Taken(n, a) == \E b \in Account \ {a} : row[b] # "absent" /\ name[b] = n

\* A request that will set the flag once it is through.
Setter(c) ==
    \/ c.op \in {"create", "setPrimary"}
    \/ c.op = "update" /\ c.flag = "set"

SetterOpen == \E h \in AccountHandler : Setter(acall[h])

-----------------------------------------------------------------------------
(* The start of a request, which is its first call of the database *)

Begin(h, c) ==
    /\ acall[h] = Idle
    /\ acalls < MaxAccountCalls
    /\ acall' = [acall EXCEPT ![h] = c]
    /\ acalls' = acalls + 1
    /\ raced' = (raced \/ (Setter(c) /\ SetterOpen))

Finish(h) ==
    /\ acall' = [acall EXCEPT ![h] = Idle]
    /\ UNCHANGED <<acalls, raced>>

\* create with isPrimary: the others are cleared before the row is written.
CreateClear(h) ==
    \E n \in Name :
        /\ Begin(h, [op |-> "create", at |-> "write", name |-> n])
        /\ primary' = primary \ Live
        /\ UNCHANGED <<row, name, claim>>

\* create without it is one call.
CreatePlain(h) ==
    \E n \in Name, a \in Account :
        /\ Begin(h, Idle)
        /\ row[a] = "absent"
        /\ ~Taken(n, a)
        /\ row' = [row EXCEPT ![a] = "live"]
        /\ name' = [name EXCEPT ![a] = n]
        /\ UNCHANGED <<primary, claim>>

UpdateFind(h) ==
    \E a \in Live, n \in Name \cup {NoName}, f \in Flag :
        /\ Begin(h, [op |-> "update", at |-> IF f = "set" THEN "clear" ELSE "write",
                     id |-> a, name |-> n, flag |-> f])
        /\ UNCHANGED <<row, name, primary, claim>>

SetPrimaryFind(h) ==
    \E a \in Live :
        /\ Begin(h, [op |-> "setPrimary", at |-> "clear", id |-> a])
        /\ UNCHANGED <<row, name, primary, claim>>

DeleteFind(h) ==
    \E a \in Live :
        /\ Begin(h, [op |-> "delete", at |-> "write", id |-> a])
        /\ UNCHANGED <<row, name, primary, claim>>

-----------------------------------------------------------------------------
(* The calls after it *)

\* The row of a new account; the name may be taken (409).
CreateWrite(h) ==
    /\ acall[h].op = "create"
    /\ \/ \E a \in Account :
              /\ row[a] = "absent"
              /\ ~Taken(acall[h].name, a)
              /\ row' = [row EXCEPT ![a] = "live"]
              /\ name' = [name EXCEPT ![a] = acall[h].name]
              /\ primary' = primary \cup {a}
              /\ claim' = a
       \/ /\ Taken(acall[h].name, NoAccount)
          /\ claim' = NoAccount
          /\ UNCHANGED <<row, name, primary>>
    /\ Finish(h)

\* Mutant of UpdateClear: the flag of the other accounts is left alone.
UpdateClearNothing(h) ==
    /\ acall[h].op = "update"
    /\ acall[h].at = "clear"
    /\ acall' = [acall EXCEPT ![h].at = "write"]
    /\ UNCHANGED <<row, name, primary, acalls, raced, claim>>

\* updateMany on the other accounts, before update sets the flag of this one.
UpdateClear(h) ==
    /\ acall[h].op = "update"
    /\ acall[h].at = "clear"
    /\ primary' = primary \ (Live \ {acall[h].id})
    /\ acall' = [acall EXCEPT ![h].at = "write"]
    /\ UNCHANGED <<row, name, acalls, raced, claim>>

\* updateMany on all accounts, before setPrimary.
SetPrimaryClear(h) ==
    /\ acall[h].op = "setPrimary"
    /\ acall[h].at = "clear"
    /\ primary' = primary \ Live
    /\ acall' = [acall EXCEPT ![h].at = "write"]
    /\ UNCHANGED <<row, name, acalls, raced, claim>>

\* What an update that goes through leaves as the claim.
ClaimAfter(c) ==
    IF c.flag = "set" THEN c.id
    ELSE IF c.flag = "unset" /\ claim = c.id THEN NoAccount ELSE claim

\* The row may have been deleted since it was found, or the new name be
\* taken: neither error is handled, and what was cleared stays cleared.
UpdateWrite(h) ==
    LET c == acall[h] IN
    /\ c.op = "update"
    /\ c.at = "write"
    /\ IF row[c.id] = "live" /\ (c.name = NoName \/ ~Taken(c.name, c.id))
       THEN /\ name' = IF c.name = NoName THEN name
                       ELSE [name EXCEPT ![c.id] = c.name]
            /\ primary' = CASE c.flag = "set"   -> primary \cup {c.id}
                            [] c.flag = "unset" -> primary \ {c.id}
                            [] OTHER            -> primary
            /\ claim' = ClaimAfter(c)
       ELSE /\ claim' = IF c.flag = "set" THEN NoAccount ELSE claim
            /\ UNCHANGED <<name, primary>>
    /\ Finish(h)
    /\ UNCHANGED row

SetPrimaryWrite(h) ==
    LET c == acall[h] IN
    /\ c.op = "setPrimary"
    /\ c.at = "write"
    /\ IF row[c.id] = "live"
       THEN primary' = primary \cup {c.id} /\ claim' = c.id
       ELSE claim' = NoAccount /\ UNCHANGED primary
    /\ Finish(h)
    /\ UNCHANGED <<row, name>>

\* A soft delete; the flag stays on the deleted row.
DeleteWrite(h) ==
    LET c == acall[h] IN
    /\ c.op = "delete"
    /\ row' = [row EXCEPT ![c.id] = "deleted"]
    /\ claim' = IF claim = c.id THEN NoAccount ELSE claim
    /\ Finish(h)
    /\ UNCHANGED <<name, primary>>

AccountNext ==
    \E h \in AccountHandler :
        \/ CreateClear(h) \/ CreatePlain(h) \/ CreateWrite(h)
        \/ UpdateFind(h) \/ UpdateClear(h) \/ UpdateWrite(h)
        \/ SetPrimaryFind(h) \/ SetPrimaryClear(h) \/ SetPrimaryWrite(h)
        \/ DeleteFind(h) \/ DeleteWrite(h)

AccountSpec == AccountInit /\ [][AccountNext]_avars

-----------------------------------------------------------------------------
(* Properties *)

\* Unless two requests that set the flag overlapped, a user has at most one
\* primary account, and between requests the account that was last made
\* primary still is, until it is deleted, its flag is taken back, or a later
\* request clears the flag and is then refused (AccountService.create,
\* update, setPrimary).
PrimaryStands ==
    raced \/ /\ \A a, b \in Primaries : a = b
             /\ ~SetterOpen /\ claim # NoAccount => Primaries = {claim}
=============================================================================
