---------------------------- MODULE AuthSession ----------------------------
(***************************************************************************)
(* The backend's session service: AuthService (login, register, refresh,   *)
(* logout), the two passport strategies that guard its routes, and the     *)
(* profile update that changes a password.  Every await of the TypeScript  *)
(* is a point where another request can run, so a handler is one action    *)
(* per database call; the code between two awaits is atomic in Node.       *)
(*                                                                         *)
(* A JWT carries (sub, tv, iat) and no unique id.  Signing is              *)
(* deterministic, so two tokens signed for one user with one tokenVersion  *)
(* in the same second are the same string, and so is their SHA-256 hash.   *)
(* A token is therefore the record [user, tv, iat]; the access and the     *)
(* refresh token of one session differ only in the key and the lifetime.   *)
(***************************************************************************)
EXTENDS Integers, FiniteSets

CONSTANTS
    User,        \* user ids; registering an email creates the row of one id
    NoUser,      \* placeholder of a request that has not started
    Req,         \* HTTP requests, each handled once
    AccessTTL,   \* lifetime of an access token, in ticks (15 min)
    RefreshTTL,  \* lifetime of a refresh token, in ticks (7 days)
    MaxTime,     \* bound on the clock
    MaxVersion   \* bound on tokenVersion and on password changes

ASSUME AuthAssumption ==
    /\ NoUser \notin User
    /\ AccessTTL \in Nat \ {0}
    /\ RefreshTTL \in Nat \ {0}
    /\ AccessTTL <= RefreshTTL
    /\ MaxTime \in Nat
    /\ MaxVersion \in Nat

VARIABLES
    now,           \* wall clock of the server, in the granularity of iat
    status,        \* User table: "none", "live" or "gone" (hard-deleted)
    tokenVersion,  \* User.tokenVersion
    password,      \* how often User.passwordHash has been replaced
    mainAccount,   \* users whose default account has been created
    rows,          \* RefreshToken table
    nextRow,       \* supply of RefreshToken.id
    req,           \* the handlers' local state
    issued         \* token pairs that have been returned to some client

vars == <<now, status, tokenVersion, password, mainAccount, rows, nextRow,
          req, issued>>

-----------------------------------------------------------------------------
(* Types *)

Status == {"none", "live", "gone"}
Op     == {"none", "login", "register", "refresh", "logout", "logoutAll",
           "password"}
Pc     == {"idle", "stamp", "create", "account", "consume", "sign", "save",
           "revoke", "done", "failed", "lost"}
Token  == [user : User, tv : Nat, iat : Nat]
\* savedUnder is auxiliary: the live tokenVersion at the moment of the insert.
Row    == [id : Nat, token : Token, expiresAt : Nat, savedUnder : Nat]
Handler == [pc : Pc, op : Op, user : User \cup {NoUser}, tv : Nat, iat : Nat,
            row : Nat]

TypeOK ==
    /\ now \in Nat
    /\ status \in [User -> Status]
    /\ tokenVersion \in [User -> Nat]
    /\ password \in [User -> Nat]
    /\ mainAccount \in SUBSET User
    /\ rows \in SUBSET Row
    /\ nextRow \in Nat
    /\ req \in [Req -> Handler]
    /\ issued \in SUBSET Token

-----------------------------------------------------------------------------
(* Helpers *)

InFlight(q) == req[q].pc \notin {"idle", "done", "failed", "lost"}

\* The handler moves on to its next database call (or returns).
Goto(q, pc) == req' = [req EXCEPT ![q].pc = pc]

\* The handler throws.  A refresh that has already deleted the presented
\* token has nothing to give back: its session is lost.
Throw(q) ==
    Goto(q, IF req[q].op = "refresh" /\ req[q].pc \in {"sign", "save"}
              THEN "lost" ELSE "failed")

TokenOf(q) == [user |-> req[q].user, tv |-> req[q].tv, iat |-> req[q].iat]

\* JwtStrategy.validate: signature and expiry, then the live user row.
Admitted(t) ==
    /\ now < t.iat + AccessTTL
    /\ status[t.user] = "live"
    /\ t.tv = tokenVersion[t.user]

\* JwtRefreshStrategy: signature and expiry only.
RefreshJwtValid(t) == now < t.iat + RefreshTTL

-----------------------------------------------------------------------------
(* Login: validateUser reads the row, stamps lastLoginAt, then a session   *)
(* is issued with the tokenVersion of the first read.  A wrong password or *)
(* an unknown email answers 401 and changes nothing.                       *)

LoginRead(q, u) ==
    /\ req[q].pc = "idle"
    /\ status[u] = "live"
    /\ req' = [req EXCEPT ![q] = [pc |-> "stamp", op |-> "login", user |-> u,
                                  tv |-> tokenVersion[u], iat |-> 0, row |-> 0]]
    /\ UNCHANGED <<now, status, tokenVersion, password, mainAccount, rows,
                   nextRow, issued>>

LoginStamp(q) ==
    /\ req[q].pc = "stamp"
    /\ IF status[req[q].user] = "live" THEN Goto(q, "sign") ELSE Throw(q)
    /\ UNCHANGED <<now, status, tokenVersion, password, mainAccount, rows,
                   nextRow, issued>>

-----------------------------------------------------------------------------
(* Register: look the email up, insert the user, insert the default        *)
(* account, issue a session.  The unique index on email catches a racer.   *)

RegisterCheck(q, u) ==
    /\ req[q].pc = "idle"
    /\ status[u] = "none"
    /\ req' = [req EXCEPT ![q] = [pc |-> "create", op |-> "register",
                                  user |-> u, tv |-> 0, iat |-> 0, row |-> 0]]
    /\ UNCHANGED <<now, status, tokenVersion, password, mainAccount, rows,
                   nextRow, issued>>

\* Mutant of RegisterCreate: an upsert on the email, which revives a deleted user.
RegisterCreateUpserts(q) ==
    /\ req[q].pc = "create"
    /\ status' = [status EXCEPT ![req[q].user] = "live"]
    /\ Goto(q, "account")
    /\ UNCHANGED <<now, tokenVersion, password, mainAccount, rows, nextRow,
                   issued>>

RegisterCreate(q) ==
    /\ req[q].pc = "create"
    /\ IF status[req[q].user] = "none"
         THEN /\ status' = [status EXCEPT ![req[q].user] = "live"]
              /\ Goto(q, "account")
         ELSE /\ Throw(q)
              /\ UNCHANGED status
    /\ UNCHANGED <<now, tokenVersion, password, mainAccount, rows, nextRow,
                   issued>>

RegisterAccount(q) ==
    /\ req[q].pc = "account"
    /\ IF status[req[q].user] = "live"
         THEN /\ mainAccount' = mainAccount \cup {req[q].user}
              /\ Goto(q, "sign")
         ELSE /\ Throw(q)
              /\ UNCHANGED mainAccount
    /\ UNCHANGED <<now, status, tokenVersion, password, rows, nextRow, issued>>

-----------------------------------------------------------------------------
(* Refresh: find the row and its user, delete the row, issue a session     *)
(* with the tokenVersion that the lookup returned.                         *)

RefreshLookup(q, t) ==
    /\ req[q].pc = "idle"
    /\ RefreshJwtValid(t)
    /\ \/ \E r \in rows :
            /\ r.token = t
            /\ r.expiresAt >= now
            /\ req' = [req EXCEPT ![q] =
                         [pc |-> "consume", op |-> "refresh", user |-> t.user,
                          tv |-> tokenVersion[t.user], iat |-> 0,
                          row |-> r.id]]
       \/ /\ \A r \in rows : r.token = t => r.expiresAt < now
          /\ req' = [req EXCEPT ![q].pc = "failed", ![q].op = "refresh"]
    /\ UNCHANGED <<now, status, tokenVersion, password, mainAccount, rows,
                   nextRow, issued>>

\* Mutant of RefreshConsume: deleteMany, which does not throw on a missing row.
RefreshConsumeMany(q) ==
    /\ req[q].pc = "consume"
    /\ rows' = {r \in rows : r.id # req[q].row}
    /\ Goto(q, "sign")
    /\ UNCHANGED <<now, status, tokenVersion, password, mainAccount, nextRow,
                   issued>>

\* delete by id throws when the row is already gone
RefreshConsume(q) ==
    /\ req[q].pc = "consume"
    /\ IF \E r \in rows : r.id = req[q].row
         THEN /\ rows' = {r \in rows : r.id # req[q].row}
              /\ Goto(q, "sign")
         ELSE /\ Throw(q)
              /\ UNCHANGED rows
    /\ UNCHANGED <<now, status, tokenVersion, password, mainAccount, nextRow,
                   issued>>

-----------------------------------------------------------------------------
(* issueSessionForUserId, shared by login, register and refresh: sign the  *)
(* pair (iat is the current second), then insert the refresh token's hash. *)
(* The insert fails on a duplicate hash and on a missing user.             *)

Sign(q) ==
    /\ req[q].pc = "sign"
    /\ req' = [req EXCEPT ![q] = [@ EXCEPT !.pc = "save", !.iat = now]]
    /\ UNCHANGED <<now, status, tokenVersion, password, mainAccount, rows,
                   nextRow, issued>>

CanSave(q) ==
    /\ status[req[q].user] = "live"
    /\ \A r \in rows : r.token # TokenOf(q)

Save(q) ==
    /\ req[q].pc = "save"
    /\ IF CanSave(q)
         THEN /\ rows' = rows \cup
                   {[id |-> nextRow, token |-> TokenOf(q),
                     expiresAt |-> now + RefreshTTL,
                     savedUnder |-> tokenVersion[req[q].user]]}
              /\ nextRow' = nextRow + 1
              /\ issued' = issued \cup {TokenOf(q)}
              /\ Goto(q, "done")
         ELSE /\ Throw(q)
              /\ UNCHANGED <<rows, nextRow, issued>>
    /\ UNCHANGED <<now, status, tokenVersion, password, mainAccount>>

-----------------------------------------------------------------------------
(* The routes behind JwtAuthGuard: the guard reads the user row, the       *)
(* handler writes later.                                                   *)

\* Logout with a refresh token in the body revokes that token only.
AuthorizeLogout(q, t, target) ==
    /\ req[q].pc = "idle"
    /\ Admitted(t)
    /\ req' = [req EXCEPT ![q] = [pc |-> "revoke", op |-> "logout",
                                  user |-> target.user, tv |-> target.tv,
                                  iat |-> target.iat, row |-> 0]]
    /\ UNCHANGED <<now, status, tokenVersion, password, mainAccount, rows,
                   nextRow, issued>>

AuthorizeForUser(q, t, op) ==
    /\ req[q].pc = "idle"
    /\ Admitted(t)
    /\ req' = [req EXCEPT ![q] = [pc |-> "revoke", op |-> op, user |-> t.user,
                                  tv |-> 0, iat |-> 0, row |-> 0]]
    /\ UNCHANGED <<now, status, tokenVersion, password, mainAccount, rows,
                   nextRow, issued>>

LogoutOne(q) ==
    /\ req[q].pc = "revoke"
    /\ req[q].op = "logout"
    /\ rows' = {r \in rows : r.token # TokenOf(q)}
    /\ Goto(q, "done")
    /\ UNCHANGED <<now, status, tokenVersion, password, mainAccount, nextRow,
                   issued>>

\* Mutant of LogoutAll: the version is bumped, the rows are left alone.
LogoutAllKeepsRows(q) ==
    /\ req[q].pc = "revoke"
    /\ req[q].op = "logoutAll"
    /\ status[req[q].user] = "live"
    /\ tokenVersion[req[q].user] < MaxVersion
    /\ tokenVersion' = [tokenVersion EXCEPT ![req[q].user] = @ + 1]
    /\ Goto(q, "done")
    /\ UNCHANGED <<now, status, password, mainAccount, rows, nextRow, issued>>

\* Mutant of LogoutAll: decrement for increment.
LogoutAllDecrements(q) ==
    /\ req[q].pc = "revoke"
    /\ req[q].op = "logoutAll"
    /\ tokenVersion' = [tokenVersion EXCEPT ![req[q].user] = @ - 1]
    /\ rows' = {r \in rows : r.token.user # req[q].user}
    /\ Goto(q, "done")
    /\ UNCHANGED <<now, status, password, mainAccount, nextRow, issued>>

\* One database transaction: bump the version, delete the user's rows.
LogoutAll(q) ==
    /\ req[q].pc = "revoke"
    /\ req[q].op = "logoutAll"
    /\ IF status[req[q].user] = "live"
         THEN /\ tokenVersion[req[q].user] < MaxVersion
              /\ tokenVersion' = [tokenVersion EXCEPT ![req[q].user] = @ + 1]
              /\ rows' = {r \in rows : r.token.user # req[q].user}
              /\ Goto(q, "done")
         ELSE /\ Throw(q)
              /\ UNCHANGED <<tokenVersion, rows>>
    /\ UNCHANGED <<now, status, password, mainAccount, nextRow, issued>>

\* UserService.update with a password: the hash is replaced, nothing else is.
ChangePassword(q) ==
    /\ req[q].pc = "revoke"
    /\ req[q].op = "password"
    /\ IF status[req[q].user] = "live"
         THEN /\ password[req[q].user] < MaxVersion
              /\ password' = [password EXCEPT ![req[q].user] = @ + 1]
              /\ Goto(q, "done")
         ELSE /\ Throw(q)
              /\ UNCHANGED password
    /\ UNCHANGED <<now, status, tokenVersion, mainAccount, rows, nextRow,
                   issued>>

-----------------------------------------------------------------------------
(* Environment *)

\* UserService.delete: the row goes, accounts and refresh tokens cascade.
DeleteUser(u) ==
    /\ status[u] = "live"
    /\ status' = [status EXCEPT ![u] = "gone"]
    /\ rows' = {r \in rows : r.token.user # u}
    /\ mainAccount' = mainAccount \ {u}
    /\ UNCHANGED <<now, tokenVersion, password, nextRow, req, issued>>

\* The process dies or a database call errors before its next write.
Abort(q) ==
    /\ InFlight(q)
    /\ Throw(q)
    /\ UNCHANGED <<now, status, tokenVersion, password, mainAccount, rows,
                   nextRow, issued>>

Tick ==
    /\ now < MaxTime
    /\ now' = now + 1
    /\ UNCHANGED <<status, tokenVersion, password, mainAccount, rows, nextRow,
                   req, issued>>

-----------------------------------------------------------------------------

Init ==
    /\ now = 0
    /\ status = [u \in User |-> "none"]
    /\ tokenVersion = [u \in User |-> 0]
    /\ password = [u \in User |-> 0]
    /\ mainAccount = {}
    /\ rows = {}
    /\ nextRow = 0
    /\ req = [q \in Req |-> [pc |-> "idle", op |-> "none", user |-> NoUser,
                             tv |-> 0, iat |-> 0, row |-> 0]]
    /\ issued = {}

\* The steps a request takes once its guard has let it in.
HandlerStep(q) ==
    \/ LoginStamp(q)
    \/ RegisterCreate(q)
    \/ RegisterAccount(q)
    \/ RefreshConsume(q)
    \/ Sign(q)
    \/ Save(q)
    \/ LogoutOne(q)
    \/ LogoutAll(q)
    \/ ChangePassword(q)

Arrive(q) ==
    \/ \E u \in User : LoginRead(q, u) \/ RegisterCheck(q, u)
    \/ \E t \in issued :
         \/ RefreshLookup(q, t)
         \/ \E target \in issued : AuthorizeLogout(q, t, target)
         \/ \E op \in {"logoutAll", "password"} : AuthorizeForUser(q, t, op)

Next ==
    \/ \E q \in Req : Arrive(q) \/ HandlerStep(q) \/ Abort(q)
    \/ \E u \in User : DeleteUser(u)
    \/ Tick

Spec == Init /\ [][Next]_vars

-----------------------------------------------------------------------------
(* Properties *)

Consumed(q) ==
    /\ req[q].op = "refresh"
    /\ req[q].pc \in {"sign", "save", "done", "lost"}

\* Two requests that present one refresh token never both get past its
\* deletion: a stored token buys at most one successor, however the lookups
\* interleave (refreshTokens, auth.service.ts:108).
RotationSingleUse ==
    \A p, q \in Req :
        p # q /\ Consumed(p) /\ Consumed(q) => req[p].row # req[q].row

\* A refresh token in the table was inserted after its user's last
\* logout-everywhere: the only ones that can outlive it are those that a
\* request in flight across it inserts afterwards (AuthService.logout).
RowsPostdateLogoutAll ==
    \A r \in rows : r.savedUnder = tokenVersion[r.token.user]

\* Once JwtStrategy rejects a token it rejects it for ever: expiry,
\* revocation and deletion are never undone by a later request.
RejectedStaysRejected ==
    [][\A t \in issued : ~Admitted(t) => ~Admitted(t)']_vars

=============================================================================
