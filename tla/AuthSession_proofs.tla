------------------------- MODULE AuthSession_proofs -------------------------
(***************************************************************************)
(* Theorems about AuthSession for every number of users and requests and   *)
(* every value of the bounds.  TypeOK is not inductive on its own: the     *)
(* token a handler saves is well formed only because a handler in flight   *)
(* has a user.  The other conjuncts of IInv tie the handlers' snapshots    *)
(* (row id, tokenVersion) to the tables they were read from.               *)
(***************************************************************************)
EXTENDS AuthSession, TLAPS

\* A handler in flight knows its user.
HandlerHasUser == \A q \in Req : InFlight(q) => req[q].user \in User

\* Row ids are unique and come from the supply.
RowIds ==
    /\ \A r \in rows : r.id < nextRow
    /\ \A r, s \in rows : r.id = s.id => r = s

\* Only refreshes delete and only they come from a row; the row was once in
\* the table, and a consumed one is there no longer.
RefreshRow ==
    /\ \A q \in Req : req[q].pc \in {"stamp", "create", "account"}
                        => req[q].op # "refresh"
    /\ \A q \in Req : req[q].pc = "consume" => req[q].op = "refresh"
    /\ \A q \in Req : req[q].op = "refresh" /\ req[q].pc # "failed"
                        => req[q].row < nextRow
    /\ \A q \in Req : Consumed(q) => \A r \in rows : r.id # req[q].row

Issuing(q) == req[q].pc \in {"stamp", "create", "account", "consume", "sign",
                             "save"}

\* No version in a token or in a handler's snapshot runs ahead of the table,
\* and a token's user has been registered.
VersionsBehind ==
    /\ \A t \in issued : t.tv <= tokenVersion[t.user] /\ status[t.user] # "none"
    /\ \A q \in Req : Issuing(q) => req[q].tv <= tokenVersion[req[q].user]
    /\ \A q \in Req : Issuing(q) /\ req[q].pc # "create"
                        => status[req[q].user] # "none"

IInv ==
    /\ TypeOK
    /\ HandlerHasUser
    /\ RowIds
    /\ RefreshRow
    /\ RotationSingleUse
    /\ RowsPostdateLogoutAll
    /\ VersionsBehind

-----------------------------------------------------------------------------

\* What the initial state gives: no handler runs, every table is empty.
LEMMA InitIInv == Init => IInv
<1> SUFFICES ASSUME Init PROVE IInv
    OBVIOUS
<1>1. TypeOK
    BY DEF Init, TypeOK, Status, Handler, Pc, Op, Row, Token
<1>2. HandlerHasUser /\ RefreshRow /\ RotationSingleUse
    BY DEF Init, HandlerHasUser, InFlight, RefreshRow, RotationSingleUse,
           Consumed
<1>3. RowIds /\ RowsPostdateLogoutAll
    BY DEF Init, RowIds, RowsPostdateLogoutAll
<1>4. VersionsBehind
    BY DEF Init, VersionsBehind, Issuing
<1> QED
    BY <1>1, <1>2, <1>3, <1>4 DEF IInv

\* Every step keeps the types, given that handlers in flight have a user.
LEMMA TypeStep == TypeOK /\ HandlerHasUser /\ [Next]_vars => TypeOK'
<1> SUFFICES ASSUME TypeOK, HandlerHasUser, [Next]_vars PROVE TypeOK'
    OBVIOUS
<1> USE AuthAssumption DEF TypeOK, Status, Handler, Pc, Op, Row, Token
<1>1. ASSUME NEW q \in Req, NEW u \in User, LoginRead(q, u) PROVE TypeOK'
    BY <1>1 DEF LoginRead
<1>2. ASSUME NEW q \in Req, NEW u \in User, RegisterCheck(q, u)
      PROVE TypeOK'
    BY <1>2 DEF RegisterCheck
<1>3. ASSUME NEW q \in Req, NEW t \in issued, RefreshLookup(q, t)
      PROVE TypeOK'
    BY <1>3 DEF RefreshLookup
<1>4. ASSUME NEW q \in Req, NEW t \in issued, NEW target \in issued,
             AuthorizeLogout(q, t, target)
      PROVE TypeOK'
    BY <1>4 DEF AuthorizeLogout
<1>5. ASSUME NEW q \in Req, NEW t \in issued,
             NEW op \in {"logoutAll", "password"}, AuthorizeForUser(q, t, op)
      PROVE TypeOK'
    BY <1>5 DEF AuthorizeForUser
<1>6. ASSUME NEW q \in Req, LoginStamp(q) PROVE TypeOK'
    BY <1>6 DEF LoginStamp, Goto, Throw
<1>7. ASSUME NEW q \in Req, RegisterCreate(q) PROVE TypeOK'
    BY <1>7 DEF RegisterCreate, Goto, Throw, HandlerHasUser, InFlight
<1>8. ASSUME NEW q \in Req, RegisterAccount(q) PROVE TypeOK'
    BY <1>8 DEF RegisterAccount, Goto, Throw, HandlerHasUser, InFlight
<1>9. ASSUME NEW q \in Req, RefreshConsume(q) PROVE TypeOK'
    BY <1>9 DEF RefreshConsume, Goto, Throw
<1>10. ASSUME NEW q \in Req, Sign(q) PROVE TypeOK'
    <2>1. \A h \in Handler : [h EXCEPT !.pc = "save", !.iat = now] \in Handler
        BY Zenon
    <2> QED
        BY <1>10, <2>1 DEF Sign
<1>11. ASSUME NEW q \in Req, Save(q) PROVE TypeOK'
    <2>1. TokenOf(q) \in Token
        BY <1>11 DEF Save, TokenOf, HandlerHasUser, InFlight
    <2> QED
        BY <1>11, <2>1 DEF Save, Goto, Throw, HandlerHasUser, InFlight
<1>12. ASSUME NEW q \in Req, LogoutOne(q) PROVE TypeOK'
    BY <1>12 DEF LogoutOne, Goto
<1>13. ASSUME NEW q \in Req, LogoutAll(q) PROVE TypeOK'
    BY <1>13 DEF LogoutAll, Goto, Throw
<1>14. ASSUME NEW q \in Req, ChangePassword(q) PROVE TypeOK'
    BY <1>14 DEF ChangePassword, Goto, Throw
<1>15. ASSUME NEW q \in Req, Abort(q) PROVE TypeOK'
    BY <1>15 DEF Abort, Goto, Throw
<1>16. ASSUME NEW u \in User, DeleteUser(u) PROVE TypeOK'
    BY <1>16 DEF DeleteUser
<1>17. CASE Tick
    BY <1>17 DEF Tick
<1>18. CASE UNCHANGED vars
    BY <1>18 DEF vars
<1> QED
    BY <1>1, <1>2, <1>3, <1>4, <1>5, <1>6, <1>7, <1>8, <1>9, <1>10, <1>11,
       <1>12, <1>13, <1>14, <1>15, <1>16, <1>17, <1>18
    DEF Next, Arrive, HandlerStep

\* Only the five arrivals set a handler's user, and they set a real one.
LEMMA HandlerHasUserStep ==
    ASSUME TypeOK, HandlerHasUser, [Next]_vars PROVE HandlerHasUser'
<1> USE AuthAssumption DEF TypeOK, Handler, Token, HandlerHasUser, InFlight
<1>1. ASSUME NEW q \in Req, NEW u \in User, LoginRead(q, u)
      PROVE HandlerHasUser'
    BY <1>1 DEF LoginRead
<1>2. ASSUME NEW q \in Req, NEW u \in User, RegisterCheck(q, u)
      PROVE HandlerHasUser'
    BY <1>2 DEF RegisterCheck
<1>3. ASSUME NEW q \in Req, NEW t \in issued, RefreshLookup(q, t)
      PROVE HandlerHasUser'
    BY <1>3 DEF RefreshLookup
<1>4. ASSUME NEW q \in Req, NEW t \in issued, NEW target \in issued,
             AuthorizeLogout(q, t, target) PROVE HandlerHasUser'
    BY <1>4 DEF AuthorizeLogout
<1>5. ASSUME NEW q \in Req, NEW t \in issued,
             NEW op \in {"logoutAll", "password"}, AuthorizeForUser(q, t, op)
      PROVE HandlerHasUser'
    BY <1>5 DEF AuthorizeForUser
<1>6. ASSUME NEW q \in Req, LoginStamp(q) PROVE HandlerHasUser'
    BY <1>6 DEF LoginStamp, Goto, Throw
<1>7. ASSUME NEW q \in Req, RegisterCreate(q) PROVE HandlerHasUser'
    BY <1>7 DEF RegisterCreate, Goto, Throw
<1>8. ASSUME NEW q \in Req, RegisterAccount(q) PROVE HandlerHasUser'
    BY <1>8 DEF RegisterAccount, Goto, Throw
<1>9. ASSUME NEW q \in Req, RefreshConsume(q) PROVE HandlerHasUser'
    BY <1>9 DEF RefreshConsume, Goto, Throw
<1>10. ASSUME NEW q \in Req, Sign(q) PROVE HandlerHasUser'
    BY <1>10 DEF Sign
<1>11. ASSUME NEW q \in Req, Save(q) PROVE HandlerHasUser'
    BY <1>11 DEF Save, Goto, Throw
<1>12. ASSUME NEW q \in Req, LogoutOne(q) PROVE HandlerHasUser'
    BY <1>12 DEF LogoutOne, Goto
<1>13. ASSUME NEW q \in Req, LogoutAll(q) PROVE HandlerHasUser'
    BY <1>13 DEF LogoutAll, Goto, Throw
<1>14. ASSUME NEW q \in Req, ChangePassword(q) PROVE HandlerHasUser'
    BY <1>14 DEF ChangePassword, Goto, Throw
<1>15. ASSUME NEW q \in Req, Abort(q) PROVE HandlerHasUser'
    BY <1>15 DEF Abort, Goto, Throw, InFlight
<1>16. ASSUME NEW u \in User, DeleteUser(u) PROVE HandlerHasUser'
    BY <1>16 DEF DeleteUser
<1>17. CASE Tick
    BY <1>17 DEF Tick
<1>18. CASE UNCHANGED vars
    BY <1>18 DEF vars
<1> QED
    BY <1>1, <1>2, <1>3, <1>4, <1>5, <1>6, <1>7, <1>8, <1>9, <1>10, <1>11,
       <1>12, <1>13, <1>14, <1>15, <1>16, <1>17, <1>18
    DEF Next, Arrive, HandlerStep

\* Save takes a fresh id; every other step only removes rows.
LEMMA RowIdsStep ==
    ASSUME TypeOK, RowIds, [Next]_vars PROVE RowIds'
<1> USE AuthAssumption DEF TypeOK, Row, RowIds
<1>1. ASSUME NEW q \in Req, NEW u \in User, LoginRead(q, u) PROVE RowIds'
    BY <1>1 DEF LoginRead
<1>2. ASSUME NEW q \in Req, NEW u \in User, RegisterCheck(q, u) PROVE RowIds'
    BY <1>2 DEF RegisterCheck
<1>3. ASSUME NEW q \in Req, NEW t \in issued, RefreshLookup(q, t)
      PROVE RowIds'
    BY <1>3 DEF RefreshLookup
<1>4. ASSUME NEW q \in Req, NEW t \in issued, NEW target \in issued,
             AuthorizeLogout(q, t, target) PROVE RowIds'
    BY <1>4 DEF AuthorizeLogout
<1>5. ASSUME NEW q \in Req, NEW t \in issued,
             NEW op \in {"logoutAll", "password"}, AuthorizeForUser(q, t, op)
      PROVE RowIds'
    BY <1>5 DEF AuthorizeForUser
<1>6. ASSUME NEW q \in Req, LoginStamp(q) PROVE RowIds'
    BY <1>6 DEF LoginStamp, Goto, Throw
<1>7. ASSUME NEW q \in Req, RegisterCreate(q) PROVE RowIds'
    BY <1>7 DEF RegisterCreate, Goto, Throw
<1>8. ASSUME NEW q \in Req, RegisterAccount(q) PROVE RowIds'
    BY <1>8 DEF RegisterAccount, Goto, Throw
<1>9. ASSUME NEW q \in Req, RefreshConsume(q) PROVE RowIds'
    BY <1>9 DEF RefreshConsume, Goto, Throw
<1>10. ASSUME NEW q \in Req, Sign(q) PROVE RowIds'
    BY <1>10 DEF Sign
<1>11. ASSUME NEW q \in Req, Save(q) PROVE RowIds'
    BY <1>11 DEF Save, Goto, Throw
<1>12. ASSUME NEW q \in Req, LogoutOne(q) PROVE RowIds'
    BY <1>12 DEF LogoutOne, Goto
<1>13. ASSUME NEW q \in Req, LogoutAll(q) PROVE RowIds'
    BY <1>13 DEF LogoutAll, Goto, Throw
<1>14. ASSUME NEW q \in Req, ChangePassword(q) PROVE RowIds'
    BY <1>14 DEF ChangePassword, Goto, Throw
<1>15. ASSUME NEW q \in Req, Abort(q) PROVE RowIds'
    BY <1>15 DEF Abort, Goto, Throw, InFlight
<1>16. ASSUME NEW u \in User, DeleteUser(u) PROVE RowIds'
    BY <1>16 DEF DeleteUser
<1>17. CASE Tick
    BY <1>17 DEF Tick
<1>18. CASE UNCHANGED vars
    BY <1>18 DEF vars
<1> QED
    BY <1>1, <1>2, <1>3, <1>4, <1>5, <1>6, <1>7, <1>8, <1>9, <1>10, <1>11,
       <1>12, <1>13, <1>14, <1>15, <1>16, <1>17, <1>18
    DEF Next, Arrive, HandlerStep

\* A row that has been consumed never comes back: ids are not reused.
LEMMA RefreshRowStep ==
    ASSUME TypeOK, RowIds, RefreshRow, [Next]_vars PROVE RefreshRow'
<1> USE AuthAssumption DEF TypeOK, Handler, Row, RowIds, RefreshRow, Consumed
<1>1. ASSUME NEW q \in Req, NEW u \in User, LoginRead(q, u) PROVE RefreshRow'
    BY <1>1 DEF LoginRead
<1>2. ASSUME NEW q \in Req, NEW u \in User, RegisterCheck(q, u)
      PROVE RefreshRow'
    BY <1>2 DEF RegisterCheck
<1>3. ASSUME NEW q \in Req, NEW t \in issued, RefreshLookup(q, t)
      PROVE RefreshRow'
    BY <1>3 DEF RefreshLookup
<1>4. ASSUME NEW q \in Req, NEW t \in issued, NEW target \in issued,
             AuthorizeLogout(q, t, target) PROVE RefreshRow'
    BY <1>4 DEF AuthorizeLogout
<1>5. ASSUME NEW q \in Req, NEW t \in issued,
             NEW op \in {"logoutAll", "password"}, AuthorizeForUser(q, t, op)
      PROVE RefreshRow'
    BY <1>5 DEF AuthorizeForUser
<1>6. ASSUME NEW q \in Req, LoginStamp(q) PROVE RefreshRow'
    BY <1>6 DEF LoginStamp, Goto, Throw
<1>7. ASSUME NEW q \in Req, RegisterCreate(q) PROVE RefreshRow'
    BY <1>7 DEF RegisterCreate, Goto, Throw
<1>8. ASSUME NEW q \in Req, RegisterAccount(q) PROVE RefreshRow'
    BY <1>8 DEF RegisterAccount, Goto, Throw
<1>9. ASSUME NEW q \in Req, RefreshConsume(q) PROVE RefreshRow'
    BY <1>9 DEF RefreshConsume, Goto, Throw
<1>10. ASSUME NEW q \in Req, Sign(q) PROVE RefreshRow'
    BY <1>10 DEF Sign
<1>11. ASSUME NEW q \in Req, Save(q) PROVE RefreshRow'
    BY <1>11 DEF Save, Goto, Throw
<1>12. ASSUME NEW q \in Req, LogoutOne(q) PROVE RefreshRow'
    BY <1>12 DEF LogoutOne, Goto
<1>13. ASSUME NEW q \in Req, LogoutAll(q) PROVE RefreshRow'
    BY <1>13 DEF LogoutAll, Goto, Throw
<1>14. ASSUME NEW q \in Req, ChangePassword(q) PROVE RefreshRow'
    BY <1>14 DEF ChangePassword, Goto, Throw
<1>15. ASSUME NEW q \in Req, Abort(q) PROVE RefreshRow'
    BY <1>15 DEF Abort, Goto, Throw, InFlight
<1>16. ASSUME NEW u \in User, DeleteUser(u) PROVE RefreshRow'
    BY <1>16 DEF DeleteUser
<1>17. CASE Tick
    BY <1>17 DEF Tick
<1>18. CASE UNCHANGED vars
    BY <1>18 DEF vars
<1> QED
    BY <1>1, <1>2, <1>3, <1>4, <1>5, <1>6, <1>7, <1>8, <1>9, <1>10, <1>11,
       <1>12, <1>13, <1>14, <1>15, <1>16, <1>17, <1>18
    DEF Next, Arrive, HandlerStep

\* A refresh gets past the deletion only if the row was still there.
LEMMA SingleUseStep ==
    ASSUME TypeOK, RefreshRow, RotationSingleUse, [Next]_vars PROVE RotationSingleUse'
<1> USE AuthAssumption DEF TypeOK, Handler, RefreshRow, RotationSingleUse, Consumed
<1>1. ASSUME NEW q \in Req, NEW u \in User, LoginRead(q, u)
      PROVE RotationSingleUse'
    BY <1>1 DEF LoginRead
<1>2. ASSUME NEW q \in Req, NEW u \in User, RegisterCheck(q, u)
      PROVE RotationSingleUse'
    BY <1>2 DEF RegisterCheck
<1>3. ASSUME NEW q \in Req, NEW t \in issued, RefreshLookup(q, t)
      PROVE RotationSingleUse'
    BY <1>3 DEF RefreshLookup
<1>4. ASSUME NEW q \in Req, NEW t \in issued, NEW target \in issued,
             AuthorizeLogout(q, t, target) PROVE RotationSingleUse'
    BY <1>4 DEF AuthorizeLogout
<1>5. ASSUME NEW q \in Req, NEW t \in issued,
             NEW op \in {"logoutAll", "password"}, AuthorizeForUser(q, t, op)
      PROVE RotationSingleUse'
    BY <1>5 DEF AuthorizeForUser
<1>6. ASSUME NEW q \in Req, LoginStamp(q) PROVE RotationSingleUse'
    BY <1>6 DEF LoginStamp, Goto, Throw
<1>7. ASSUME NEW q \in Req, RegisterCreate(q) PROVE RotationSingleUse'
    BY <1>7 DEF RegisterCreate, Goto, Throw
<1>8. ASSUME NEW q \in Req, RegisterAccount(q) PROVE RotationSingleUse'
    BY <1>8 DEF RegisterAccount, Goto, Throw
<1>9. ASSUME NEW q \in Req, RefreshConsume(q) PROVE RotationSingleUse'
    BY <1>9 DEF RefreshConsume, Goto, Throw
<1>10. ASSUME NEW q \in Req, Sign(q) PROVE RotationSingleUse'
    BY <1>10 DEF Sign
<1>11. ASSUME NEW q \in Req, Save(q) PROVE RotationSingleUse'
    BY <1>11 DEF Save, Goto, Throw
<1>12. ASSUME NEW q \in Req, LogoutOne(q) PROVE RotationSingleUse'
    BY <1>12 DEF LogoutOne, Goto
<1>13. ASSUME NEW q \in Req, LogoutAll(q) PROVE RotationSingleUse'
    BY <1>13 DEF LogoutAll, Goto, Throw
<1>14. ASSUME NEW q \in Req, ChangePassword(q) PROVE RotationSingleUse'
    BY <1>14 DEF ChangePassword, Goto, Throw
<1>15. ASSUME NEW q \in Req, Abort(q) PROVE RotationSingleUse'
    BY <1>15 DEF Abort, Goto, Throw, InFlight
<1>16. ASSUME NEW u \in User, DeleteUser(u) PROVE RotationSingleUse'
    BY <1>16 DEF DeleteUser
<1>17. CASE Tick
    BY <1>17 DEF Tick
<1>18. CASE UNCHANGED vars
    BY <1>18 DEF vars
<1> QED
    BY <1>1, <1>2, <1>3, <1>4, <1>5, <1>6, <1>7, <1>8, <1>9, <1>10, <1>11,
       <1>12, <1>13, <1>14, <1>15, <1>16, <1>17, <1>18
    DEF Next, Arrive, HandlerStep

\* The version moves only in the transaction that deletes the user's rows.
LEMMA RowsPostdateStep ==
    ASSUME TypeOK, HandlerHasUser, RowsPostdateLogoutAll, [Next]_vars PROVE RowsPostdateLogoutAll'
<1> USE AuthAssumption DEF TypeOK, Handler, Row, Token, HandlerHasUser, InFlight,
           RowsPostdateLogoutAll
<1>1. ASSUME NEW q \in Req, NEW u \in User, LoginRead(q, u)
      PROVE RowsPostdateLogoutAll'
    BY <1>1 DEF LoginRead
<1>2. ASSUME NEW q \in Req, NEW u \in User, RegisterCheck(q, u)
      PROVE RowsPostdateLogoutAll'
    BY <1>2 DEF RegisterCheck
<1>3. ASSUME NEW q \in Req, NEW t \in issued, RefreshLookup(q, t)
      PROVE RowsPostdateLogoutAll'
    BY <1>3 DEF RefreshLookup
<1>4. ASSUME NEW q \in Req, NEW t \in issued, NEW target \in issued,
             AuthorizeLogout(q, t, target) PROVE RowsPostdateLogoutAll'
    BY <1>4 DEF AuthorizeLogout
<1>5. ASSUME NEW q \in Req, NEW t \in issued,
             NEW op \in {"logoutAll", "password"}, AuthorizeForUser(q, t, op)
      PROVE RowsPostdateLogoutAll'
    BY <1>5 DEF AuthorizeForUser
<1>6. ASSUME NEW q \in Req, LoginStamp(q) PROVE RowsPostdateLogoutAll'
    BY <1>6 DEF LoginStamp, Goto, Throw
<1>7. ASSUME NEW q \in Req, RegisterCreate(q) PROVE RowsPostdateLogoutAll'
    BY <1>7 DEF RegisterCreate, Goto, Throw
<1>8. ASSUME NEW q \in Req, RegisterAccount(q) PROVE RowsPostdateLogoutAll'
    BY <1>8 DEF RegisterAccount, Goto, Throw
<1>9. ASSUME NEW q \in Req, RefreshConsume(q) PROVE RowsPostdateLogoutAll'
    BY <1>9 DEF RefreshConsume, Goto, Throw
<1>10. ASSUME NEW q \in Req, Sign(q) PROVE RowsPostdateLogoutAll'
    BY <1>10 DEF Sign
<1>11. ASSUME NEW q \in Req, Save(q) PROVE RowsPostdateLogoutAll'
    BY <1>11 DEF Save, Goto, Throw, TokenOf
<1>12. ASSUME NEW q \in Req, LogoutOne(q) PROVE RowsPostdateLogoutAll'
    BY <1>12 DEF LogoutOne, Goto
<1>13. ASSUME NEW q \in Req, LogoutAll(q) PROVE RowsPostdateLogoutAll'
    BY <1>13 DEF LogoutAll, Goto, Throw
<1>14. ASSUME NEW q \in Req, ChangePassword(q) PROVE RowsPostdateLogoutAll'
    BY <1>14 DEF ChangePassword, Goto, Throw
<1>15. ASSUME NEW q \in Req, Abort(q) PROVE RowsPostdateLogoutAll'
    BY <1>15 DEF Abort, Goto, Throw, InFlight
<1>16. ASSUME NEW u \in User, DeleteUser(u) PROVE RowsPostdateLogoutAll'
    BY <1>16 DEF DeleteUser
<1>17. CASE Tick
    BY <1>17 DEF Tick
<1>18. CASE UNCHANGED vars
    BY <1>18 DEF vars
<1> QED
    BY <1>1, <1>2, <1>3, <1>4, <1>5, <1>6, <1>7, <1>8, <1>9, <1>10, <1>11,
       <1>12, <1>13, <1>14, <1>15, <1>16, <1>17, <1>18
    DEF Next, Arrive, HandlerStep

\* Versions only grow and a registered user stays registered.
LEMMA VersionsStep ==
    ASSUME TypeOK, HandlerHasUser, RowIds, VersionsBehind, [Next]_vars PROVE VersionsBehind'
<1> USE AuthAssumption DEF TypeOK, Status, Handler, Row, Token, HandlerHasUser, InFlight,
           VersionsBehind, Issuing
<1>1. ASSUME NEW q \in Req, NEW u \in User, LoginRead(q, u)
      PROVE VersionsBehind'
    BY <1>1 DEF LoginRead
<1>2. ASSUME NEW q \in Req, NEW u \in User, RegisterCheck(q, u)
      PROVE VersionsBehind'
    BY <1>2 DEF RegisterCheck
<1>3. ASSUME NEW q \in Req, NEW t \in issued, RefreshLookup(q, t)
      PROVE VersionsBehind'
    BY <1>3 DEF RefreshLookup
<1>4. ASSUME NEW q \in Req, NEW t \in issued, NEW target \in issued,
             AuthorizeLogout(q, t, target) PROVE VersionsBehind'
    BY <1>4 DEF AuthorizeLogout
<1>5. ASSUME NEW q \in Req, NEW t \in issued,
             NEW op \in {"logoutAll", "password"}, AuthorizeForUser(q, t, op)
      PROVE VersionsBehind'
    BY <1>5 DEF AuthorizeForUser
<1>6. ASSUME NEW q \in Req, LoginStamp(q) PROVE VersionsBehind'
    BY <1>6 DEF LoginStamp, Goto, Throw
<1>7. ASSUME NEW q \in Req, RegisterCreate(q) PROVE VersionsBehind'
    BY <1>7 DEF RegisterCreate, Goto, Throw
<1>8. ASSUME NEW q \in Req, RegisterAccount(q) PROVE VersionsBehind'
    BY <1>8 DEF RegisterAccount, Goto, Throw
<1>9. ASSUME NEW q \in Req, RefreshConsume(q) PROVE VersionsBehind'
    BY <1>9 DEF RefreshConsume, Goto, Throw
<1>10. ASSUME NEW q \in Req, Sign(q) PROVE VersionsBehind'
    BY <1>10 DEF Sign
<1>11. ASSUME NEW q \in Req, Save(q) PROVE VersionsBehind'
    BY <1>11 DEF Save, Goto, Throw, TokenOf
<1>12. ASSUME NEW q \in Req, LogoutOne(q) PROVE VersionsBehind'
    BY <1>12 DEF LogoutOne, Goto
<1>13. ASSUME NEW q \in Req, LogoutAll(q) PROVE VersionsBehind'
    BY <1>13 DEF LogoutAll, Goto, Throw
<1>14. ASSUME NEW q \in Req, ChangePassword(q) PROVE VersionsBehind'
    BY <1>14 DEF ChangePassword, Goto, Throw
<1>15. ASSUME NEW q \in Req, Abort(q) PROVE VersionsBehind'
    BY <1>15 DEF Abort, Goto, Throw, InFlight
<1>16. ASSUME NEW u \in User, DeleteUser(u) PROVE VersionsBehind'
    BY <1>16 DEF DeleteUser
<1>17. CASE Tick
    BY <1>17 DEF Tick
<1>18. CASE UNCHANGED vars
    BY <1>18 DEF vars
<1> QED
    BY <1>1, <1>2, <1>3, <1>4, <1>5, <1>6, <1>7, <1>8, <1>9, <1>10, <1>11,
       <1>12, <1>13, <1>14, <1>15, <1>16, <1>17, <1>18
    DEF Next, Arrive, HandlerStep

THEOREM Invariant == Spec => []IInv
<1>1. IInv /\ [Next]_vars => IInv'
    BY TypeStep, HandlerHasUserStep, RowIdsStep, RefreshRowStep,
       SingleUseStep, RowsPostdateStep, VersionsStep
    DEF IInv
<1> QED
    BY InitIInv, <1>1, PTL DEF Spec

\* The handlers' local state and the tables always have their types.
THEOREM TypeCorrect == Spec => []TypeOK
<1> QED
    BY Invariant, PTL DEF IInv

\* One stored refresh token never has two successors, whatever the number of
\* concurrent requests that present it.
THEOREM RotationIsSingleUse == Spec => []RotationSingleUse
<1> QED
    BY Invariant, PTL DEF IInv

\* Only a request in flight across a logout-everywhere can leave a token of
\* an older version in the table.
THEOREM LogoutAllClearsRows == Spec => []RowsPostdateLogoutAll
<1> QED
    BY Invariant, PTL DEF IInv

\* The clock, the version and the deletion of a user only move forward, so a
\* rejected token has no way back.
LEMMA RejectedStep ==
    ASSUME TypeOK, HandlerHasUser, VersionsBehind, [Next]_vars,
           NEW t \in issued, ~Admitted(t)
    PROVE ~Admitted(t)'
<1>1. t \in Token /\ t.tv <= tokenVersion[t.user] /\ status[t.user] # "none"
    BY DEF TypeOK, VersionsBehind
<1>2. now' >= now
    <2>1. CASE Tick
        BY <2>1 DEF TypeOK, Tick
    <2>2. CASE UNCHANGED now
        BY <2>2 DEF TypeOK
    <2> QED
        BY <2>1, <2>2
        DEF Next, Arrive, HandlerStep, vars, LoginRead, LoginStamp,
            RegisterCheck, RegisterCreate, RegisterAccount, RefreshLookup,
            RefreshConsume, Sign, Save, AuthorizeLogout, AuthorizeForUser,
            LogoutOne, LogoutAll, ChangePassword, DeleteUser, Abort
<1>3. tokenVersion'[t.user] >= tokenVersion[t.user]
    <2>1. CASE \E q \in Req : LogoutAll(q)
        BY <1>1, <2>1 DEF TypeOK, Token, LogoutAll
    <2>2. CASE UNCHANGED tokenVersion
        BY <1>1, <2>2 DEF TypeOK, Token
    <2> QED
        BY <2>1, <2>2
        DEF Next, Arrive, HandlerStep, vars, LoginRead, LoginStamp,
            RegisterCheck, RegisterCreate, RegisterAccount, RefreshLookup,
            RefreshConsume, Sign, Save, AuthorizeLogout, AuthorizeForUser,
            LogoutOne, ChangePassword, DeleteUser, Abort, Tick
<1>4. status'[t.user] = "live" => status[t.user] = "live"
    <2>1. CASE \E q \in Req : RegisterCreate(q)
        BY <1>1, <2>1
        DEF TypeOK, Token, HandlerHasUser, InFlight, RegisterCreate
    <2>2. CASE \E u \in User : DeleteUser(u)
        BY <1>1, <2>2 DEF TypeOK, Token, DeleteUser
    <2>3. CASE UNCHANGED status
        BY <2>3
    <2> QED
        BY <2>1, <2>2, <2>3
        DEF Next, Arrive, HandlerStep, vars, LoginRead, LoginStamp,
            RegisterCheck, RegisterAccount, RefreshLookup, RefreshConsume,
            Sign, Save, AuthorizeLogout, AuthorizeForUser, LogoutOne,
            LogoutAll, ChangePassword, Abort, Tick
<1>5. now' \in Nat /\ tokenVersion'[t.user] \in Nat
    BY <1>1, TypeStep DEF TypeOK, Token
<1> QED
    BY <1>1, <1>2, <1>3, <1>4, <1>5, AuthAssumption
    DEF TypeOK, Token, Admitted

\* A rejected access token stays rejected: revocation is permanent.
THEOREM RevocationIsPermanent == Spec => RejectedStaysRejected
<1>1. IInv /\ [Next]_vars
        => [\A t \in issued : ~Admitted(t) => ~Admitted(t)']_vars
    BY RejectedStep DEF IInv
<1> QED
    BY Invariant, <1>1, PTL DEF Spec, RejectedStaysRejected
=============================================================================
