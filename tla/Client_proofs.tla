---------------------------- MODULE Client_proofs ----------------------------
(***************************************************************************)
(* Theorems about the clients: DevicePush for any number of users of the   *)
(* phone, of registrations and of pushes, and below it Client for any      *)
(* bounds.  The invariant of DevicePush says which user's registration may  *)
(* still be stored while a sign-out makes its calls, which registration a  *)
(* refused push is older than, and that nothing comes up that threatens a  *)
(* registration which nothing threatened when it was stored.               *)
(***************************************************************************)
EXTENDS Client, DevicePush, SequenceTheorems, TLAPS

\* A push is on its way only for a row, and rows are never removed.
PushHasRow == \A p \in Push : push[p].at \in {"posted", "error"} => row # NoRow

\* What there is of u on the phone cannot speak up any more.
Silent(u) ==
    /\ \A r \in Registration : reg[r].at \in {"find", "write"} => reg[r].user # u
    /\ row.user = u => row.state = "inactive"

\* A user who is not signed in, and has no excuse, is silent.
SignedOutIsSilent == \A u \in User \ excused : session # u => Silent(u)

\* So is one whose sign-out is past its DELETE; nothing is left on the phone
\* that could be registered for the user.
LogoutIsSilent ==
    /\ session = NoUser => logout = "no"
    /\ \/ logout = "revoke"
       \/ logout = "unregister" /\ session \notin deletes
       => \/ session \in excused
          \/ Silent(session) /\ \A r \in Registration : reg[r].at # "token"

\* The phone serves the owner of the active row, if it serves anyone, and
\* nobody while the app is removed.
Serving ==
    /\ row.state = "active" => served \in {row.user, NoUser}
    /\ ~installed => served = NoUser

\* A refusal no registration has come after was for an app that is gone.
RefusalIsOfTheGone ==
    \A p \in Push :
        push[p].at = "error" /\ push[p].error = "DeviceNotRegistered" /\ push[p].since
            => served = NoUser

\* Only an installed app has a session.  While a registration stands, no call
\* that undoes it comes up: it would have to be of an earlier session, or of a
\* phone without the app.
Undisturbed ==
    /\ session # NoUser => installed
    /\ stands => /\ session # NoUser
                 /\ logout = "no"
                 /\ ~Threatened(session)
                 /\ row = [state |-> "active", user |-> session]

IInv ==
    /\ TypeOK
    /\ PushHasRow
    /\ SignedOutIsSilent
    /\ LogoutIsSilent
    /\ Serving
    /\ RefusalIsOfTheGone
    /\ Undisturbed

-----------------------------------------------------------------------------

LEMMA InitIInv == Init => IInv
<1> SUFFICES ASSUME Init PROVE IInv
    OBVIOUS
<1>1. TypeOK
  <2>1. row \in Row
    BY DEF Init, Row
  <2>2. reg \in [Registration -> Reg]
    BY DEF Init, Reg
  <2>3. push \in [Push -> PushCall]
    BY DEF Init, PushCall
  <2>4. logins \in 0 .. MaxLogins
    BY PushAssumption DEF Init
  <2>5. /\ session \in User \cup {NoUser}
        /\ served \in User \cup {NoUser}
        /\ cached \in BOOLEAN /\ installed \in BOOLEAN
        /\ logout \in {"no", "unregister", "revoke"}
        /\ deletes \in SUBSET User /\ excused \in SUBSET User
        /\ stands \in BOOLEAN
    BY DEF Init
  <2> QED
    BY <2>1, <2>2, <2>3, <2>4, <2>5 DEF TypeOK
<1>2. PushHasRow /\ RefusalIsOfTheGone /\ Undisturbed
    BY DEF Init, PushHasRow, RefusalIsOfTheGone, Undisturbed, PushIdle
<1>3. SignedOutIsSilent /\ LogoutIsSilent /\ Serving
    BY PushAssumption DEF Init, SignedOutIsSilent, LogoutIsSilent, Silent, Serving, RegIdle, NoRow
<1> QED
    BY <1>1, <1>2, <1>3 DEF IInv

LEMMA TypeStep ==
    ASSUME TypeOK, PushHasRow, [Next]_vars PROVE TypeOK'
<1> USE PushAssumption DEF TypeOK
<1>1. ASSUME NEW u \in User, Login(u) PROVE TypeOK'
  <2>1. reg' \in [Registration -> Reg]
    BY <1>1 DEF Login, Reg
  <2>2. logins' \in 0 .. MaxLogins
    BY <1>1 DEF Login
  <2> QED
    BY <1>1, <2>1, <2>2 DEF Login
<1>2. ASSUME NEW u \in User, UnregisterToken(u) PROVE TypeOK'
    BY <1>2 DEF UnregisterToken, Row, NoRow
<1>3. ASSUME NEW u \in User, LoseDelete(u) PROVE TypeOK'
    BY <1>3 DEF LoseDelete
<1>4. CASE BeginLogout
    BY <1>4 DEF BeginLogout
<1>5. CASE Unregistered
    BY <1>5 DEF Unregistered
<1>6. CASE ClearSession
    BY <1>6 DEF ClearSession
<1>7. CASE SessionRefused
    BY <1>7 DEF SessionRefused
<1>8. CASE Restart
    BY <1>8 DEF Restart, Reg
<1>9. CASE Uninstall
    BY <1>9 DEF Uninstall, Reg
<1>10. CASE Reinstall
    BY <1>10 DEF Reinstall
<1>11. ASSUME NEW r \in Registration, PostToken(r) PROVE TypeOK'
    BY <1>11 DEF PostToken, Reg
<1>12. ASSUME NEW r \in Registration, GiveUp(r) PROVE TypeOK'
    BY <1>12 DEF GiveUp, Reg
<1>13. ASSUME NEW r \in Registration, FindToken(r) PROVE TypeOK'
    BY <1>13 DEF FindToken, Reg, RegIdle
<1>14. ASSUME NEW r \in Registration, StoreToken(r) PROVE TypeOK'
  <2>1. reg[r].user \in User
    BY <1>14 DEF StoreToken, Reg, RegIdle
  <2>2. row' \in Row /\ served' \in User \cup {NoUser}
    BY <1>14, <2>1 DEF StoreToken, Row
  <2>3. push' \in [Push -> PushCall]
    <3>1. ASSUME NEW p \in Push, push[p].at \in {"posted", "error"}
          PROVE  [push[p] EXCEPT !.since = FALSE] \in PushCall
      <4>1. CASE push[p].at = "posted"
        <5>1. push[p] \in [at : {"posted"}, since : BOOLEAN]
          BY <4>1 DEF PushCall, PushIdle
        <5> QED BY <5>1 DEF PushCall
      <4>2. CASE push[p].at = "error"
        <5>1. push[p] \in [at : {"error"}, since : BOOLEAN,
                           error : {"DeviceNotRegistered", "other"}]
          BY <4>2 DEF PushCall, PushIdle
        <5> QED BY <5>1 DEF PushCall
      <4> QED BY <3>1, <4>1, <4>2
    <3> QED
        BY <1>14, <3>1 DEF StoreToken
  <2>4. stands' \in BOOLEAN
    BY <1>14 DEF StoreToken
  <2> QED
    BY <1>14, <2>2, <2>3, <2>4 DEF StoreToken, Reg
<1>15. ASSUME NEW p \in Push, SendToUser(p) PROVE TypeOK'
    BY <1>15 DEF SendToUser, Row, NoRow, PushCall
<1>16. ASSUME NEW p \in Push, Ticket(p) PROVE TypeOK'
    BY <1>16 DEF Ticket, PushCall, PushIdle
<1>17. ASSUME NEW p \in Push, ProcessTickets(p) PROVE TypeOK'
    BY <1>17 DEF ProcessTickets, PushHasRow, Row, PushCall
<1>18. CASE UNCHANGED vars
    BY <1>18 DEF vars
<1> QED
    BY <1>1, <1>2, <1>3, <1>4, <1>5, <1>6, <1>7, <1>8, <1>9, <1>10, <1>11, <1>12,
       <1>13, <1>14, <1>15, <1>16, <1>17, <1>18 DEF Next

LEMMA PushHasRowStep ==
    ASSUME TypeOK, PushHasRow, [Next]_vars PROVE PushHasRow'
<1> USE DEF PushHasRow, TypeOK
<1>1. ASSUME NEW u \in User, UnregisterToken(u) PROVE PushHasRow'
    BY <1>1 DEF UnregisterToken, Row, NoRow
<1>2. ASSUME NEW r \in Registration, StoreToken(r) PROVE PushHasRow'
    BY <1>2 DEF StoreToken, NoRow
<1>3. ASSUME NEW p \in Push, SendToUser(p) PROVE PushHasRow'
    BY <1>3 DEF SendToUser, NoRow
<1>4. ASSUME NEW p \in Push, Ticket(p) PROVE PushHasRow'
    BY <1>4 DEF Ticket
<1>5. ASSUME NEW p \in Push, ProcessTickets(p) PROVE PushHasRow'
    BY <1>5 DEF ProcessTickets, Row, NoRow
<1>6. CASE UNCHANGED <<row, push>>
    BY <1>6
<1> QED
    BY <1>1, <1>2, <1>3, <1>4, <1>5, <1>6
       DEF Next, vars, Login, LoseDelete, BeginLogout, Unregistered, ClearSession,
           SessionRefused, Restart, Uninstall, Reinstall, PostToken, GiveUp, FindToken

-----------------------------------------------------------------------------
(* Who may still be heard of *)

\* A step of a registration in the backend keeps everybody silent who was.
LEMMA BackendKeepsSilence ==
    ASSUME TypeOK, NEW r \in Registration, FindToken(r) \/ StoreToken(r),
           NEW u \in User, Silent(u)
    PROVE  Silent(u)'
<1>1. CASE FindToken(r)
    BY <1>1 DEF FindToken, TypeOK, Silent, Reg, RegIdle
<1>2. CASE StoreToken(r)
    BY <1>2 DEF StoreToken, TypeOK, Silent, RegIdle
<1> QED
    BY <1>1, <1>2

\* Neither a refused push nor a DELETE makes the row active.
LEMMA RowStaysSilent ==
    ASSUME TypeOK, PushHasRow, NEW u \in User, Silent(u), UNCHANGED reg,
           \/ \E v \in User : UnregisterToken(v)
           \/ \E p \in Push : ProcessTickets(p)
    PROVE  Silent(u)'
BY DEF UnregisterToken, ProcessTickets, PushHasRow, TypeOK, Row, NoRow, Silent

LEMMA SignedOutStep ==
    ASSUME IInv, [Next]_vars PROVE SignedOutIsSilent'
<1> SUFFICES ASSUME NEW u \in User, u \notin excused', session' # u
             PROVE  Silent(u)'
    BY DEF SignedOutIsSilent
<1> USE DEF IInv
<1>1. ASSUME NEW v \in User, Login(v) PROVE Silent(u)'
    BY <1>1, PushAssumption DEF Login, SignedOutIsSilent, Silent, TypeOK
<1>2. ASSUME NEW v \in User, UnregisterToken(v) PROVE Silent(u)'
    BY <1>2, RowStaysSilent DEF UnregisterToken, SignedOutIsSilent
<1>3. CASE ClearSession
  <2>1. u = session => Silent(u)
    BY <1>3 DEF ClearSession, LogoutIsSilent
  <2> QED
    BY <1>3, <2>1 DEF ClearSession, SignedOutIsSilent, Silent
<1>4. ASSUME NEW r \in Registration, PostToken(r) PROVE Silent(u)'
    BY <1>4 DEF PostToken, SignedOutIsSilent, Silent, TypeOK, RegIdle
<1>5. ASSUME NEW r \in Registration, GiveUp(r) PROVE Silent(u)'
    BY <1>5 DEF GiveUp, SignedOutIsSilent, Silent, TypeOK, RegIdle
<1>6. ASSUME NEW r \in Registration, FindToken(r) \/ StoreToken(r) PROVE Silent(u)'
    BY <1>6, BackendKeepsSilence DEF FindToken, StoreToken, SignedOutIsSilent
<1>7. ASSUME NEW p \in Push, ProcessTickets(p) PROVE Silent(u)'
    BY <1>7, RowStaysSilent DEF ProcessTickets, SignedOutIsSilent
<1>8. CASE Restart \/ Uninstall
    BY <1>8 DEF Restart, Uninstall, SignedOutIsSilent, Silent, TypeOK, RegIdle
<1>9. CASE BeginLogout \/ SessionRefused
    BY <1>9 DEF BeginLogout, SessionRefused, SignedOutIsSilent, Silent
<1>10. CASE Unregistered \/ Reinstall \/ (\E v \in User : LoseDelete(v))
    BY <1>10 DEF Unregistered, Reinstall, LoseDelete, SignedOutIsSilent, Silent
<1>11. CASE (\E p \in Push : SendToUser(p) \/ Ticket(p)) \/ UNCHANGED vars
    BY <1>11 DEF SendToUser, Ticket, vars, SignedOutIsSilent, Silent
<1> QED
    BY <1>1, <1>2, <1>3, <1>4, <1>5, <1>6, <1>7, <1>8, <1>9, <1>10, <1>11 DEF Next

LEMMA LogoutStep ==
    ASSUME IInv, [Next]_vars PROVE LogoutIsSilent'
<1> USE DEF IInv, LogoutIsSilent
<1>1. ASSUME NEW v \in User, Login(v) PROVE LogoutIsSilent'
    BY <1>1, PushAssumption DEF Login
<1>2. ASSUME NEW v \in User, UnregisterToken(v) PROVE LogoutIsSilent'
  <2>1. CASE session = v /\ logout = "unregister" /\ ~Pending(v)
    <3>1. Silent(v)' /\ \A r \in Registration : reg'[r].at # "token"
        BY <1>2, <2>1 DEF UnregisterToken, Pending, Silent, TypeOK, Row, NoRow
    <3> QED
        BY <1>2, <2>1, <3>1 DEF UnregisterToken, Silent
  <2>2. CASE session = v /\ Pending(v)
    BY <1>2, <2>2, PushAssumption DEF UnregisterToken
  <2>3. CASE session # v \/ logout # "unregister"
    <3>1. Silent(session) /\ session \in User => Silent(session)'
        BY <1>2, RowStaysSilent DEF UnregisterToken, Silent
    <3> QED
        BY <1>2, <2>3, <3>1 DEF UnregisterToken, TypeOK, Silent
  <2> QED
    BY <2>1, <2>2, <2>3
<1>3. ASSUME NEW v \in User, LoseDelete(v) PROVE LogoutIsSilent'
    BY <1>3 DEF LoseDelete, Silent
<1>4. CASE BeginLogout
    BY <1>4 DEF BeginLogout
<1>5. CASE Unregistered
    BY <1>5 DEF Unregistered, Silent
<1>6. CASE ClearSession \/ SessionRefused \/ Restart \/ Uninstall
    BY <1>6 DEF ClearSession, SessionRefused, Restart, Uninstall
<1>7. ASSUME NEW r \in Registration, PostToken(r) PROVE LogoutIsSilent'
    BY <1>7 DEF PostToken
<1>8. ASSUME NEW r \in Registration, GiveUp(r) PROVE LogoutIsSilent'
    BY <1>8 DEF GiveUp, Silent, TypeOK, RegIdle
<1>9. ASSUME NEW r \in Registration, FindToken(r) \/ StoreToken(r) PROVE LogoutIsSilent'
  <2>1. Silent(session) /\ session \in User => Silent(session)'
    BY <1>9, BackendKeepsSilence DEF FindToken, StoreToken, Silent
  <2> QED
    BY <1>9, <2>1 DEF FindToken, StoreToken, TypeOK, Silent, RegIdle
<1>10. ASSUME NEW p \in Push, ProcessTickets(p) PROVE LogoutIsSilent'
  <2>1. Silent(session) /\ session \in User => Silent(session)'
    BY <1>10, RowStaysSilent DEF ProcessTickets, Silent
  <2> QED
    BY <1>10, <2>1 DEF ProcessTickets, TypeOK, Silent
<1>11. CASE \/ Reinstall \/ UNCHANGED vars
            \/ \E p \in Push : SendToUser(p) \/ Ticket(p)
    BY <1>11 DEF Reinstall, SendToUser, Ticket, vars, Silent
<1> QED
    BY <1>1, <1>2, <1>3, <1>4, <1>5, <1>6, <1>7, <1>8, <1>9, <1>10, <1>11 DEF Next

-----------------------------------------------------------------------------
(* Whom the phone serves *)

LEMMA ServingStep ==
    ASSUME IInv, [Next]_vars PROVE Serving'
<1> USE DEF IInv, Serving
<1>1. ASSUME NEW v \in User, UnregisterToken(v) PROVE Serving'
    BY <1>1 DEF UnregisterToken, TypeOK, Row, NoRow
<1>2. ASSUME NEW r \in Registration, StoreToken(r) PROVE Serving'
    BY <1>2 DEF StoreToken
<1>3. ASSUME NEW p \in Push, ProcessTickets(p) PROVE Serving'
    BY <1>3 DEF ProcessTickets, PushHasRow, TypeOK, Row, NoRow
<1>4. CASE Uninstall \/ Reinstall
    BY <1>4 DEF Uninstall, Reinstall
<1>5. CASE UNCHANGED <<row, served, installed>>
    BY <1>5
<1> QED
    BY <1>1, <1>2, <1>3, <1>4, <1>5
       DEF Next, vars, Login, LoseDelete, BeginLogout, Unregistered, ClearSession,
           SessionRefused, Restart, PostToken, GiveUp, FindToken, SendToUser, Ticket

\* Every registration that is stored ends the claim of what was sent before.
LEMMA PushStep ==
    ASSUME IInv, [Next]_vars PROVE RefusalIsOfTheGone'
<1> USE DEF IInv, RefusalIsOfTheGone
<1>1. ASSUME NEW r \in Registration, StoreToken(r) PROVE RefusalIsOfTheGone'
  <2>1. CASE reg[r].found \/ row = NoRow
    <3>1. ASSUME NEW p \in Push, push'[p].at \in {"posted", "error"}
          PROVE  ~push'[p].since
      <4>1. push[p].at \in {"posted", "error"} => [push[p] EXCEPT !.since = FALSE].since = FALSE
        BY DEF TypeOK, PushCall, PushIdle
      <4> QED
        BY <1>1, <2>1, <3>1, <4>1 DEF StoreToken, TypeOK
    <3> QED
        BY <3>1
  <2>2. CASE ~(reg[r].found \/ row = NoRow)
    BY <1>1, <2>2 DEF StoreToken
  <2> QED
    BY <2>1, <2>2
<1>2. ASSUME NEW p \in Push, SendToUser(p) PROVE RefusalIsOfTheGone'
    BY <1>2 DEF SendToUser, Serving, TypeOK
<1>3. ASSUME NEW p \in Push, Ticket(p) PROVE RefusalIsOfTheGone'
    BY <1>3 DEF Ticket, Serving, TypeOK
<1>4. ASSUME NEW p \in Push, ProcessTickets(p) PROVE RefusalIsOfTheGone'
    BY <1>4 DEF ProcessTickets, TypeOK
<1>5. CASE Uninstall
    BY <1>5 DEF Uninstall
<1>6. CASE UNCHANGED <<push, served>>
    BY <1>6
<1> QED
    BY <1>1, <1>2, <1>3, <1>4, <1>5, <1>6
       DEF Next, vars, Login, UnregisterToken, LoseDelete, BeginLogout, Unregistered,
           ClearSession, SessionRefused, Restart, Reinstall, PostToken, GiveUp, FindToken

-----------------------------------------------------------------------------
(* The phone of the user who is signed in *)

\* Who threatens a user depends on the registrations in the backend, on the
\* DELETEs and on the refusals.
LEMMA ThreatComes ==
    ASSUME NEW u, Threatened(u)',
           \A r \in Registration : reg'[r].at \in {"find", "write"} =>
             reg'[r].user = u
               \/ (reg[r].at \in {"find", "write"} /\ reg[r].user = reg'[r].user),
           u \in deletes' => u \in deletes,
           \A p \in Push : push'[p].at = "error" /\ push'[p].error = "DeviceNotRegistered" =>
             push[p].at = "error" /\ push[p].error = "DeviceNotRegistered"
    PROVE  Threatened(u)
  BY DEF Threatened

\* What is stored while a registration stands is of the same user; what is
\* stored afterwards stands if nothing threatens it.
LEMMA StoreUndisturbed ==
    ASSUME TypeOK, Undisturbed, NEW r \in Registration, StoreToken(r)
    PROVE  Undisturbed'
<1> USE DEF Undisturbed, TypeOK
<1>1. UNCHANGED <<session, installed, logout, deletes>> /\ reg[r].at = "write"
    BY DEF StoreToken
<1>2. reg[r].user \in User
    BY <1>1 DEF Reg, RegIdle
<1>3. CASE ~(reg[r].found \/ row = NoRow)
  <2>1. UNCHANGED <<row, push, stands>> /\ reg' = [reg EXCEPT ![r] = RegIdle]
    BY <1>3 DEF StoreToken
  <2>2. Threatened(session)' => Threatened(session)
    BY <1>1, <2>1, ThreatComes DEF RegIdle
  <2> QED
    BY <1>1, <2>1, <2>2
<1>4. CASE reg[r].found \/ row = NoRow
  <2>1. /\ row' = [state |-> "active", user |-> reg[r].user]
        /\ reg' = [reg EXCEPT ![r] = RegIdle]
        /\ push' = [p \in Push |-> IF push[p].at \in {"posted", "error"}
                                   THEN [push[p] EXCEPT !.since = FALSE] ELSE push[p]]
        /\ stands' = IF reg[r].user = session
                     THEN logout = "no" /\ ~Threatened(session) ELSE stands
    BY <1>4 DEF StoreToken
  <2>2. ASSUME NEW p \in Push, push'[p].at = "error", push'[p].error = "DeviceNotRegistered"
        PROVE  push[p].at = "error" /\ push[p].error = "DeviceNotRegistered"
    <3>1. push[p].at = "posted" => [push[p] EXCEPT !.since = FALSE].at = "posted"
        BY DEF PushCall, PushIdle
    <3>2. push[p].at = "error" =>
            [push[p] EXCEPT !.since = FALSE].error = push[p].error
        BY DEF PushCall, PushIdle
    <3> QED
        BY <2>1, <2>2, <3>1, <3>2
  <2>3. Threatened(session)' => Threatened(session)
    BY <1>1, <2>1, <2>2, ThreatComes DEF RegIdle
  <2>4. stands => reg[r].user = session
    BY <1>1 DEF Threatened
  <2>5. CASE reg[r].user = session
    BY <1>1, <1>2, <2>1, <2>3, <2>5, PushAssumption
  <2>6. CASE reg[r].user # session
    BY <1>1, <2>1, <2>4, <2>6
  <2> QED
    BY <2>5, <2>6
<1> QED
    BY <1>3, <1>4

LEMMA UndisturbedStep ==
    ASSUME IInv, [Next]_vars PROVE Undisturbed'
<1> USE DEF Undisturbed
<1>0. TypeOK /\ PushHasRow /\ Undisturbed
    BY DEF IInv
\* Steps that end what stands, or begin a session with nothing stored yet.
<1>1. ASSUME NEW u \in User, Login(u) PROVE Undisturbed'
    BY <1>1 DEF Login
<1>2. CASE BeginLogout \/ ClearSession \/ SessionRefused \/ Uninstall
    BY <1>0, <1>2 DEF BeginLogout, ClearSession, SessionRefused, Uninstall
\* Steps that leave the session, the row and what stands alone.
<1>3. ASSUME UNCHANGED <<session, installed, row, stands>>, logout = "no" => logout' = "no",
             stands => (Threatened(session)' => Threatened(session))
      PROVE  Undisturbed'
    BY <1>0, <1>3
<1>4. CASE Reinstall \/ Unregistered \/ UNCHANGED vars
  <2>1. UNCHANGED <<reg, deletes, push, session, row, stands>>
    BY <1>4 DEF Reinstall, Unregistered, vars
  <2>2. Threatened(session)' => Threatened(session)
    BY <2>1, ThreatComes
  <2> QED
    BY <1>0, <1>4, <2>1, <2>2 DEF Reinstall, Unregistered, vars
<1>5. CASE Restart
  <2>1. UNCHANGED <<deletes, push, session>>
    BY <1>5 DEF Restart
  <2>2. ASSUME NEW r \in Registration, reg'[r].at \in {"find", "write"}
        PROVE  reg[r].at \in {"find", "write"} /\ reg[r].user = reg'[r].user
    BY <1>5, <2>2 DEF Restart, RegIdle
  <2>3. Threatened(session)' => Threatened(session)
    BY <2>1, <2>2, ThreatComes
  <2> QED
    BY <1>3, <1>5, <2>3 DEF Restart
<1>6. ASSUME NEW r \in Registration, PostToken(r) \/ GiveUp(r) \/ FindToken(r)
      PROVE  Undisturbed'
  <2>1. UNCHANGED <<deletes, push, session, installed, logout, row, stands>>
    BY <1>6 DEF PostToken, GiveUp, FindToken
  <2>2. ASSUME NEW q \in Registration, reg'[q].at \in {"find", "write"}
        PROVE  \/ reg'[q].user = session
               \/ reg[q].at \in {"find", "write"} /\ reg[q].user = reg'[q].user
    <3>1. CASE PostToken(r)
      BY <1>0, <2>2, <3>1 DEF PostToken, TypeOK, RegIdle
    <3>2. CASE GiveUp(r)
      BY <1>0, <2>2, <3>2 DEF GiveUp, TypeOK, RegIdle
    <3>3. CASE FindToken(r)
      BY <1>0, <2>2, <3>3 DEF FindToken, TypeOK, RegIdle
    <3> QED
      BY <1>6, <3>1, <3>2, <3>3
  <2>3. Threatened(session)' => Threatened(session)
    BY <2>1, <2>2 DEF Threatened
  <2> QED
    BY <1>3, <2>1, <2>3
<1>7. ASSUME NEW r \in Registration, StoreToken(r) PROVE Undisturbed'
    BY <1>0, <1>7, StoreUndisturbed
\* A DELETE and a refusal may write the row: not that of what stands.
<1>8. ASSUME NEW u \in User, LoseDelete(u) \/ UnregisterToken(u) PROVE Undisturbed'
  <2>1. UNCHANGED <<reg, push, session, installed, logout, stands>> /\ deletes' \subseteq deletes
    BY <1>8 DEF LoseDelete, UnregisterToken
  <2>2. Threatened(session)' => Threatened(session)
    BY <2>1, ThreatComes
  <2>3. stands => row' = row
    <3>1. stands => row.user = session /\ session \notin deletes
      BY <1>0 DEF Threatened
    <3> QED
      BY <1>8, <3>1 DEF LoseDelete, UnregisterToken
  <2> QED
    BY <1>0, <2>1, <2>2, <2>3
<1>9. ASSUME NEW p \in Push, SendToUser(p) \/ ProcessTickets(p) PROVE Undisturbed'
  <2>1. UNCHANGED <<reg, deletes, session, installed, logout, stands>>
    BY <1>9 DEF SendToUser, ProcessTickets
  <2>2. ASSUME NEW q \in Push, push'[q].at = "error"
        PROVE  push[q].at = "error" /\ push[q].error = push'[q].error
    BY <1>0, <1>9, <2>2 DEF SendToUser, ProcessTickets, TypeOK
  <2>3. Threatened(session)' => Threatened(session)
    BY <2>1, <2>2, ThreatComes
  <2>4. stands => row' = row
    BY <1>0, <1>9 DEF SendToUser, ProcessTickets, Threatened
  <2> QED
    BY <1>0, <2>1, <2>3, <2>4
<1>10. ASSUME NEW p \in Push, Ticket(p) PROVE Undisturbed'
  <2>1. UNCHANGED <<reg, deletes, session, installed, logout, row, stands>>
    BY <1>10 DEF Ticket
  <2>2. CASE stands
    <3>1. ASSUME NEW q \in Push, push'[q].at = "error",
                 push'[q].error = "DeviceNotRegistered"
          PROVE  push[q].at = "error" /\ push[q].error = "DeviceNotRegistered"
      BY <1>0, <1>10, <2>2, <3>1 DEF Ticket, TypeOK
    <3>2. Threatened(session)' => Threatened(session)
      BY <2>1, <3>1, ThreatComes
    <3> QED
      BY <1>3, <2>1, <3>2
  <2> QED
    BY <1>0, <2>1, <2>2
<1> QED
    BY <1>1, <1>2, <1>4, <1>5, <1>6, <1>7, <1>8, <1>9, <1>10 DEF Next

-----------------------------------------------------------------------------
(* The theorems *)

\* IInv holds in every state the phone and the backend can reach.
THEOREM Invariance == Spec => []IInv
<1>1. Init => IInv
    BY InitIInv
<1>2. IInv /\ [Next]_vars => IInv'
    BY TypeStep, PushHasRowStep, SignedOutStep, LogoutStep, ServingStep, PushStep,
       UndisturbedStep DEF IInv
<1> QED
    BY <1>1, <1>2, PTL DEF Spec

\* The state of the phone, of the row and of every call stays in its type.
THEOREM TypeCorrect == Spec => []TypeOK
<1>1. IInv => TypeOK
    BY DEF IInv
<1> QED
    BY <1>1, Invariance, PTL

\* A user who has signed out gets no more pushes on the phone, unless the
\* sign-out is one that could not silence it (logout, unregisterPushToken).
THEOREM Quiet == Spec => []QuietAfterLogout
<1>1. IInv => QuietAfterLogout
    BY DEF IInv, SignedOutIsSilent, Silent, QuietAfterLogout
<1> QED
    BY <1>1, Invariance, PTL

\* Once a registration of the signed-in user is stored, with no call in the
\* backend that undoes it, no other user's call takes the phone from them until
\* they sign out (registerToken, unregisterToken, processTickets).
THEOREM OwnPhone == Spec => []SignedInIsServed
<1>1. IInv => SignedInIsServed
    BY DEF IInv, Undisturbed, SignedInIsServed
<1> QED
    BY <1>1, Invariance, PTL

\* A refused push disables the row of a user who is signed in and registered
\* only if that registration is newer than the push (processTickets).
THEOREM TicketsTrusted == Spec => TicketsDisableTheGone
<1>1. IInv /\ [Next]_vars
      => [\A p \in Push :
            /\ push[p].at = "error" /\ push'[p].at = "done"
            /\ row.state = "active" /\ row'.state = "inactive"
            /\ session = row.user /\ served = session
            => ~push[p].since]_vars
  <2> SUFFICES ASSUME IInv, Next, NEW p \in Push,
                      push[p].at = "error", push'[p].at = "done",
                      row.state = "active", row'.state = "inactive",
                      session = row.user, served = session, push[p].since
               PROVE  FALSE
    OBVIOUS
  <2>1. ProcessTickets(p)
    BY DEF Next, IInv, TypeOK, Login, UnregisterToken, LoseDelete, BeginLogout, Unregistered,
           ClearSession, SessionRefused, Restart, Uninstall, Reinstall, PostToken,
           GiveUp, FindToken, StoreToken, SendToUser, Ticket, ProcessTickets
  <2>2. push[p].error = "DeviceNotRegistered"
    BY <2>1 DEF ProcessTickets
  <2>3. served = NoUser
    BY <2>2 DEF IInv, RefusalIsOfTheGone
  <2>4. row.user # NoUser
    BY PushAssumption DEF IInv, TypeOK, Row, NoRow
  <2> QED
    BY <2>3, <2>4
<1> QED
    BY <1>1, Invariance, PTL DEF Spec, TicketsDisableTheGone

-----------------------------------------------------------------------------
(***************************************************************************)
(* Client, for any bound on queries, forms and presses.  A screen sends    *)
(* what was typed in one of two ways: it clears the form as it sends, or   *)
(* it keeps the form until the answer and has its button wait while the    *)
(* call it sent last is in flight.  That every press of every screen is of *)
(* its screen's way is Fits, shown screen by screen; that this keeps each  *)
(* draft to one call, whatever overtakes whatever, is DraftInv.  That a    *)
(* screen comes to show what its user did rests on the tables of the hooks *)
(* (Covers, FoundUnder): a call that may change a table drops all that is  *)
(* read from it.  OwnInv says which answers may be behind until then.      *)
(***************************************************************************)

\* The mutation whose form the screen keeps while the call is in flight.
Keeps(screen) ==
    CASE screen = "AddTransaction" -> "useCreateTransaction"
      [] screen = "SmsForward" -> "ingestSms"
      [] screen = "Login" -> "login"
      [] screen = "Register" -> "register"
      [] screen = "Settings" -> "useUpdateProfile"
      [] OTHER -> None

\* Press p on the screen's state u types nothing, and if it sends what a form
\* holds then it empties the form, or is the mutation the screen keeps it for,
\* which waits while it is busy.  What it sends is one of the client's mutations.
Fits(p, u, keeps, busy, ops) ==
    /\ p.op \in ops
    /\ p.ui \in Ui
    /\ \A g \in Forms : p.ui.full[g] \in {u.full[g], 0}
    /\ p.draft # 0 =>
          \E f \in Forms : /\ p.draft = u.full[f]
                           /\ p.op = keeps \/ (keeps = None /\ p.ui.full[f] = 0)
    /\ p.op = keeps /\ keeps # None => p.op \notin busy

\* A press that sends no draft fits if its mutation is not the one that waits.
LEMMA PressPlain ==
    ASSUME NEW u \in Ui, NEW v \in Ui, \A g \in Forms : v.full[g] \in {u.full[g], 0},
           NEW op, NEW i,
           NEW fields, NEW then, NEW keeps, NEW busy, NEW ops, op \in ops,
           op # keeps \/ keeps = None \/ op \notin busy
    PROVE  Fits(Press(v, op, i, fields, 0, then), u, keeps, busy, ops)
BY DEF Fits, Press, Ui

\* Closing a sheet leaves the forms as they are; clearing empties one.
LEMMA ClosedPlain ==
    ASSUME NEW u \in Ui
    PROVE  Closed(u) \in Ui /\ Closed(u).full = u.full
BY DEF Closed, Ui, Sheets

LEMMA ClearedPlain ==
    ASSUME NEW u \in Ui, NEW f \in Forms
    PROVE  Cleared(u, f) \in Ui /\ Cleared(u, f).full = [u.full EXCEPT ![f] = 0]
BY DEF Cleared, Ui

\* The presses screens are built from fit: those that send no draft,
LEMMA PressKinds ==
    ASSUME NEW u \in Ui, NEW keeps, NEW busy, NEW ops, None \in ops
    PROVE  /\ \A sheet \in Sheets, i \in Item \cup {0} :
                 Fits(Opens(u, sheet, i), u, keeps, busy, ops)
           /\ Fits(Closes(u), u, keeps, busy, ops)
           /\ \A form \in Forms :
                 /\ Fits(Becomes(Cleared(u, form)), u, keeps, busy, ops)
                 /\ Fits(Becomes(Closed(Cleared(u, form))), u, keeps, busy, ops)
                 /\ \A sheet \in Sheets :
                       Fits(Opens(Cleared(u, form), sheet, 0), u, keeps, busy, ops)
           /\ \A shows \in SUBSET {"all", "plain", "marked"} :
                 \A p \in Chooses(u, shows) : Fits(p, u, keeps, busy, ops)
           /\ \A op, i, fields, then : op \in ops /\ (op # keeps \/ keeps = None) =>
                 /\ Fits(Press(u, op, i, fields, 0, then), u, keeps, busy, ops)
                 /\ Fits(Press(Closed(u), op, i, fields, 0, then), u, keeps, busy, ops)
<1> DEFINE P(v, op, i, fields, then) == Fits(Press(v, op, i, fields, 0, then), u, keeps, busy, ops)
<1>1. \A v \in Ui : \A op, i, fields, then :
        (\A g \in Forms : v.full[g] \in {u.full[g], 0}) /\ op \in ops
        /\ (op # keeps \/ keeps = None)
            => P(v, op, i, fields, then)
    BY PressPlain
<1>2. \A sheet \in Sheets, i \in Item \cup {0} : Fits(Opens(u, sheet, i), u, keeps, busy, ops)
  <2> TAKE sheet \in Sheets, i \in Item \cup {0}
  <2>1. /\ [u EXCEPT !.sheet = sheet, !.on = i] \in Ui
        /\ [u EXCEPT !.sheet = sheet, !.on = i].full = u.full
    BY DEF Ui
  <2> QED BY <1>1, <2>1 DEF Opens, Becomes
<1>3. Closed(u) \in Ui /\ Closed(u).full = u.full
    BY ClosedPlain
<1>4. Fits(Closes(u), u, keeps, busy, ops)
    BY <1>1, <1>3 DEF Closes, Becomes
<1>5. ASSUME NEW shows \in SUBSET {"all", "plain", "marked"}, NEW p \in Chooses(u, shows)
      PROVE  Fits(p, u, keeps, busy, ops)
  <2>1. PICK f \in shows : p = Becomes([u EXCEPT !.show = f])
    BY <1>5 DEF Chooses
  <2>2. [u EXCEPT !.show = f] \in Ui /\ [u EXCEPT !.show = f].full = u.full
    BY DEF Ui
  <2> QED BY <1>1, <2>1, <2>2 DEF Becomes
<1>7. ASSUME NEW form \in Forms
      PROVE  /\ Fits(Becomes(Cleared(u, form)), u, keeps, busy, ops)
             /\ Fits(Becomes(Closed(Cleared(u, form))), u, keeps, busy, ops)
             /\ \A sheet \in Sheets :
                   Fits(Opens(Cleared(u, form), sheet, 0), u, keeps, busy, ops)
  <2> DEFINE v == Cleared(u, form)
  <2>1. v \in Ui /\ v.full = [u.full EXCEPT ![form] = 0] /\ u.full \in [Forms -> Nat]
    BY ClearedPlain DEF Ui
  <2>2. \A g \in Forms : v.full[g] \in {u.full[g], 0}
    BY <2>1
  <2> HIDE DEF v
  <2>3. Closed(v) \in Ui /\ Closed(v).full = v.full
    BY <2>1, ClosedPlain
  <2>4. ASSUME NEW sheet \in Sheets
        PROVE  /\ [v EXCEPT !.sheet = sheet, !.on = 0] \in Ui
               /\ [v EXCEPT !.sheet = sheet, !.on = 0].full = v.full
    BY <2>1 DEF Ui
  <2>5. P(v, None, 0, {}, None) /\ P(Closed(v), None, 0, {}, None)
    BY <1>1, <2>1, <2>2, <2>3
  <2>6. \A sheet \in Sheets : P([v EXCEPT !.sheet = sheet, !.on = 0], None, 0, {}, None)
    BY <1>1, <2>2, <2>4
  <2> QED BY <2>5, <2>6 DEF Becomes, Opens, v
<1>6. ASSUME NEW op, NEW i, NEW fields, NEW then, op \in ops,
             op # keeps \/ keeps = None
      PROVE  P(u, op, i, fields, then) /\ P(Closed(u), op, i, fields, then)
    BY <1>1, <1>3, <1>6
<1> QED BY <1>2, <1>4, <1>5, <1>6, <1>7

\* and the two ways to send one.
LEMMA SubmitKinds ==
    ASSUME NEW u \in Ui, NEW keeps, NEW busy, NEW ops, NEW form \in Forms,
           NEW op \in ops, NEW i, NEW fields, NEW then
    PROVE  /\ keeps = None =>
                 Fits(Submits(u, Cleared(u, form), form, op, i, fields, then), u, keeps, busy, ops)
           /\ op = keeps /\ op \notin busy =>
                 Fits(Submits(u, u, form, op, i, fields, then), u, keeps, busy, ops)
<1>1. ASSUME NEW v \in Ui, \A g \in Forms : v.full[g] \in {u.full[g], 0},
             op = keeps \/ (keeps = None /\ v.full[form] = 0), keeps # None => op \notin busy
      PROVE  Fits(Submits(u, v, form, op, i, fields, then), u, keeps, busy, ops)
    BY <1>1 DEF Fits, Submits, Press, Ui
<1>2. /\ Cleared(u, form) \in Ui
      /\ Cleared(u, form).full = [u.full EXCEPT ![form] = 0]
      /\ u.full \in [Forms -> Nat]
    BY ClearedPlain DEF Ui
<1>3. \A g \in Forms : Cleared(u, form).full[g] \in {u.full[g], 0}
    BY <1>2
<1>4. Cleared(u, form).full[form] = 0
    BY <1>2
<1>5. ASSUME keeps = None
      PROVE  Fits(Submits(u, Cleared(u, form), form, op, i, fields, then), u, keeps, busy, ops)
    BY <1>1, <1>2, <1>3, <1>4, <1>5
<1>6. ASSUME op = keeps, op \notin busy
      PROVE  Fits(Submits(u, u, form, op, i, fields, then), u, keeps, busy, ops)
    BY <1>6 DEF Fits, Submits, Press, Ui
<1> QED BY <1>5, <1>6

\* MobileApp and WebApp are instances of what they share with Client: the kinds
\* of presses are the same for each.
LEMMA MobileSame ==
    ASSUME NEW u
    PROVE
      /\ \A v, op, i, fields, draft, then :
          Mobile!Press(v, op, i, fields, draft, then) = Press(v, op, i, fields, draft, then)
      /\ \A v, after, form, op, i, fields, then :
          Mobile!Submits(v, after, form, op, i, fields, then)
          = Submits(v, after, form, op, i, fields, then)
      /\ \A v : Mobile!Closed(v) = Closed(v)
      /\ \A v : Mobile!Becomes(v) = Becomes(v)
      /\ \A form : Mobile!Cleared(u, form) = Cleared(u, form)
      /\ \A v, sheet, i : Mobile!Opens(v, sheet, i) = Opens(v, sheet, i)
      /\ Mobile!Closes(u) = Closes(u)
      /\ \A shows : Mobile!Chooses(u, shows) = Chooses(u, shows)
BY DEF Mobile!Press, Press, Mobile!Becomes, Becomes, Mobile!Opens, Opens,
   Mobile!Closes, Closes, Mobile!Closed, Closed, Mobile!Chooses, Chooses,
   Mobile!Refetch, Refetch, Mobile!Requery, Requery, Mobile!Calls, Calls,
   Mobile!Edits, Edits, Mobile!Submits, Submits, Mobile!Cleared, Cleared,
   Mobile!Typed, Typed, Mobile!None, None

LEMMA MobileKinds ==
    ASSUME NEW u \in Ui, NEW keeps, NEW busy, NEW ops, None \in ops
    PROVE  /\ \A sheet \in Sheets, i \in Item \cup {0} :
                 Fits(Mobile!Opens(u, sheet, i), u, keeps, busy, ops)
           /\ Fits(Mobile!Closes(u), u, keeps, busy, ops)
           /\ \A shows \in SUBSET {"all", "plain", "marked"} :
                 \A p \in Mobile!Chooses(u, shows) : Fits(p, u, keeps, busy, ops)
           /\ \A op, i, fields, then : op \in ops /\ (op # keeps \/ keeps = None) =>
                 /\ Fits(Mobile!Press(u, op, i, fields, 0, then), u, keeps, busy, ops)
                 /\ Fits(Mobile!Press(Mobile!Closed(u), op, i, fields, 0, then), u, keeps, busy, ops)
           /\ \A form \in Forms : \A op \in ops : \A i, fields, then :
                 /\ keeps = None =>
                       Fits(Mobile!Submits(u, Mobile!Cleared(u, form), form, op, i, fields, then),
                            u, keeps, busy, ops)
                 /\ op = keeps /\ op \notin busy =>
                       Fits(Mobile!Submits(u, u, form, op, i, fields, then), u, keeps, busy, ops)
<1>1. \A form \in Forms : \A op \in ops : \A i, fields, then :
        /\ keeps = None =>
              Fits(Submits(u, Cleared(u, form), form, op, i, fields, then), u, keeps, busy, ops)
        /\ op = keeps /\ op \notin busy =>
              Fits(Submits(u, u, form, op, i, fields, then), u, keeps, busy, ops)
    BY SubmitKinds
<1> HIDE DEF None
<1> QED BY <1>1, MobileSame, PressKinds

LEMMA MobileClears ==
    ASSUME NEW u \in Ui, NEW keeps, NEW busy, NEW ops, NEW form \in Forms, None \in ops
    PROVE  /\ Fits(Mobile!Becomes(Mobile!Cleared(u, form)), u, keeps, busy, ops)
           /\ Fits(Mobile!Becomes(Mobile!Closed(Mobile!Cleared(u, form))), u, keeps, busy, ops)
           /\ \A sheet \in Sheets :
                 Fits(Mobile!Opens(Mobile!Cleared(u, form), sheet, 0), u, keeps, busy, ops)
<1>1. /\ Mobile!Becomes(Mobile!Cleared(u, form)) = Becomes(Cleared(u, form))
      /\ Mobile!Becomes(Mobile!Closed(Mobile!Cleared(u, form))) = Becomes(Closed(Cleared(u, form)))
      /\ \A sheet : Mobile!Opens(Mobile!Cleared(u, form), sheet, 0) = Opens(Cleared(u, form), sheet, 0)
    BY MobileSame
<1>2. /\ Fits(Becomes(Cleared(u, form)), u, keeps, busy, ops)
      /\ Fits(Becomes(Closed(Cleared(u, form))), u, keeps, busy, ops)
      /\ \A sheet \in Sheets : Fits(Opens(Cleared(u, form), sheet, 0), u, keeps, busy, ops)
    BY PressKinds
<1> QED BY <1>1, <1>2

LEMMA WebSame ==
    ASSUME NEW u
    PROVE
      /\ \A v, op, i, fields, draft, then :
          Web!Press(v, op, i, fields, draft, then) = Press(v, op, i, fields, draft, then)
      /\ \A v, after, form, op, i, fields, then :
          Web!Submits(v, after, form, op, i, fields, then)
          = Submits(v, after, form, op, i, fields, then)
      /\ \A v : Web!Closed(v) = Closed(v)
      /\ \A v : Web!Becomes(v) = Becomes(v)
      /\ \A form : Web!Cleared(u, form) = Cleared(u, form)
      /\ \A v, sheet, i : Web!Opens(v, sheet, i) = Opens(v, sheet, i)
      /\ Web!Closes(u) = Closes(u)
      /\ \A shows : Web!Chooses(u, shows) = Chooses(u, shows)
BY DEF Web!Press, Press, Web!Becomes, Becomes, Web!Opens, Opens, Web!Closes,
   Closes, Web!Closed, Closed, Web!Chooses, Chooses, Web!Refetch, Refetch,
   Web!Requery, Requery, Web!Calls, Calls, Web!Edits, Edits, Web!Submits,
   Submits, Web!Cleared, Cleared, Web!Typed, Typed, Web!None, None

LEMMA WebKinds ==
    ASSUME NEW u \in Ui, NEW keeps, NEW busy, NEW ops, None \in ops
    PROVE  /\ \A sheet \in Sheets, i \in Item \cup {0} :
                 Fits(Web!Opens(u, sheet, i), u, keeps, busy, ops)
           /\ Fits(Web!Closes(u), u, keeps, busy, ops)
           /\ \A shows \in SUBSET {"all", "plain", "marked"} :
                 \A p \in Web!Chooses(u, shows) : Fits(p, u, keeps, busy, ops)
           /\ \A op, i, fields, then : op \in ops /\ (op # keeps \/ keeps = None) =>
                 /\ Fits(Web!Press(u, op, i, fields, 0, then), u, keeps, busy, ops)
                 /\ Fits(Web!Press(Web!Closed(u), op, i, fields, 0, then), u, keeps, busy, ops)
           /\ \A form \in Forms : \A op \in ops : \A i, fields, then :
                 /\ keeps = None =>
                       Fits(Web!Submits(u, Web!Cleared(u, form), form, op, i, fields, then),
                            u, keeps, busy, ops)
                 /\ op = keeps /\ op \notin busy =>
                       Fits(Web!Submits(u, u, form, op, i, fields, then), u, keeps, busy, ops)
<1>1. \A form \in Forms : \A op \in ops : \A i, fields, then :
        /\ keeps = None =>
              Fits(Submits(u, Cleared(u, form), form, op, i, fields, then), u, keeps, busy, ops)
        /\ op = keeps /\ op \notin busy =>
              Fits(Submits(u, u, form, op, i, fields, then), u, keeps, busy, ops)
    BY SubmitKinds
<1> HIDE DEF None
<1> QED BY <1>1, WebSame, PressKinds

LEMMA WebClears ==
    ASSUME NEW u \in Ui, NEW keeps, NEW busy, NEW ops, NEW form \in Forms, None \in ops
    PROVE  /\ Fits(Web!Becomes(Web!Cleared(u, form)), u, keeps, busy, ops)
           /\ Fits(Web!Becomes(Web!Closed(Web!Cleared(u, form))), u, keeps, busy, ops)
           /\ \A sheet \in Sheets :
                 Fits(Web!Opens(Web!Cleared(u, form), sheet, 0), u, keeps, busy, ops)
<1>1. /\ Web!Becomes(Web!Cleared(u, form)) = Becomes(Cleared(u, form))
      /\ Web!Becomes(Web!Closed(Web!Cleared(u, form))) = Becomes(Closed(Cleared(u, form)))
      /\ \A sheet : Web!Opens(Web!Cleared(u, form), sheet, 0) = Opens(Cleared(u, form), sheet, 0)
    BY WebSame
<1>2. /\ Fits(Becomes(Cleared(u, form)), u, keeps, busy, ops)
      /\ Fits(Becomes(Closed(Cleared(u, form))), u, keeps, busy, ops)
      /\ \A sheet \in Sheets : Fits(Opens(Cleared(u, form), sheet, 0), u, keeps, busy, ops)
    BY PressKinds
<1> QED BY <1>1, <1>2

\* What the screens of a client may send: its mutations, or a query again.
NoCalls == {None, "refetch", "requery"}
MobileOps == DOMAIN Mobile!Mutations \cup NoCalls
WebOps == DOMAIN Web!Mutations \cup NoCalls

LEMMA MobileUsed ==
    /\ None \in MobileOps /\ "refetch" \in MobileOps /\ "requery" \in MobileOps
    /\ "useCreateAccount" \in MobileOps /\ "useSetPrimaryAccount" \in MobileOps
    /\ "useRecomputeAccount" \in MobileOps /\ "useDeleteAccount" \in MobileOps
    /\ "useCreateGoal" \in MobileOps /\ "useContributeGoal" \in MobileOps
    /\ "useDeleteGoal" \in MobileOps /\ "useCreateBudget" \in MobileOps
    /\ "useDeleteBudget" \in MobileOps /\ "usePauseSubscription" \in MobileOps
    /\ "useCancelSubscription" \in MobileOps /\ "useCreateTransaction" \in MobileOps
    /\ "useUpdateTransaction" \in MobileOps /\ "useDeleteTransaction" \in MobileOps
    /\ "useMarkAsRead" \in MobileOps /\ "useMarkAllAsRead" \in MobileOps
    /\ "useGenerateWeeklySummary" \in MobileOps /\ "useAskAi" \in MobileOps
    /\ "login" \in MobileOps /\ "register" \in MobileOps /\ "ingestSms" \in MobileOps
    /\ "testPush" \in MobileOps
<1>1. {None, "refetch", "requery", "useCreateAccount", "useSetPrimaryAccount",
     "useRecomputeAccount", "useDeleteAccount", "useCreateGoal",
     "useContributeGoal", "useDeleteGoal", "useCreateBudget",
     "useDeleteBudget", "usePauseSubscription", "useCancelSubscription",
     "useCreateTransaction", "useUpdateTransaction", "useDeleteTransaction",
     "useMarkAsRead", "useMarkAllAsRead", "useGenerateWeeklySummary",
     "useAskAi", "login", "register", "ingestSms", "testPush"}
         \subseteq MobileOps
    BY DEF MobileOps, NoCalls, Mobile!Mutations, Mobile!Joined, Mobile!AccountMutations,
       Mobile!GoalMutations, Mobile!BudgetMutations, Mobile!SubscriptionMutations,
       Mobile!TransactionMutations, Mobile!NotificationMutations,
       Mobile!ActionCardMutations, Mobile!AiMutations, Mobile!WeeklySummaryMutations,
       Mobile!DirectCalls
<1> QED BY <1>1

LEMMA WebUsed ==
    /\ None \in WebOps /\ "refetch" \in WebOps /\ "requery" \in WebOps
    /\ "useCreateAccount" \in WebOps /\ "useSetPrimaryAccount" \in WebOps
    /\ "useSyncAccount" \in WebOps /\ "useDeleteAccount" \in WebOps
    /\ "useCreateGoal" \in WebOps /\ "useContributeGoal" \in WebOps
    /\ "useDeleteGoal" \in WebOps /\ "useCreateBudget" \in WebOps
    /\ "useDeleteBudget" \in WebOps /\ "usePauseSubscription" \in WebOps
    /\ "useCancelSubscription" \in WebOps /\ "useCreateTransaction" \in WebOps
    /\ "useUpdateTransaction" \in WebOps /\ "useDeleteTransaction" \in WebOps
    /\ "useMarkNotificationRead" \in WebOps /\ "useMarkAllNotificationsRead" \in WebOps
    /\ "useDeleteNotification" \in WebOps
    /\ "useUpdateNotificationPreferences" \in WebOps
    /\ "useGenerateWeeklySummary" \in WebOps /\ "useUpdateProfile" \in WebOps
    /\ "useSendTestPush" \in WebOps /\ "useAskAi" \in WebOps /\ "login" \in WebOps
    /\ "register" \in WebOps /\ "logout" \in WebOps
<1>1. {None, "refetch", "requery", "useCreateAccount", "useSetPrimaryAccount",
     "useSyncAccount", "useDeleteAccount", "useCreateGoal",
     "useContributeGoal", "useDeleteGoal", "useCreateBudget",
     "useDeleteBudget", "usePauseSubscription", "useCancelSubscription",
     "useCreateTransaction", "useUpdateTransaction", "useDeleteTransaction",
     "useMarkNotificationRead", "useMarkAllNotificationsRead",
     "useDeleteNotification", "useUpdateNotificationPreferences",
     "useGenerateWeeklySummary", "useUpdateProfile", "useSendTestPush",
     "useAskAi", "login", "register", "logout"}
         \subseteq WebOps
    BY DEF WebOps, NoCalls, Web!Mutations, Web!Joined, Web!AccountMutations,
       Web!GoalMutations, Web!BudgetMutations, Web!SubscriptionMutations,
       Web!TransactionMutations, Web!NotificationMutations,
       Web!WeeklySummaryMutations, Web!UserMutations, Web!AiMutations,
       Web!SessionCalls
<1> QED BY <1>1

\* Every press of every screen of the phone fits its screen, and so does every
\* one of the web.
LEMMA MobilePressesFit ==
    ASSUME NEW u \in Ui, NEW s, NEW screen \in DOMAIN Mobile!Uses,
           NEW p \in Mobile!Presses(screen, u, s)
    PROVE  Fits(p, u, Keeps(screen), s.busy, MobileOps)
<1> DEFINE Ok(q, keeps) == Fits(q, u, keeps, s.busy, MobileOps)
<1> USE DEF Forms, Sheets
<1>0. /\ \A table, flags : Mobile!Rows(table, flags) \subseteq Item
      /\ Mobile!Listed(u, s) \subseteq Item
      /\ u.on \in Item \cup {0}
    BY DEF Mobile!Listed, Mobile!Rows, Ui
<1>1. CASE screen = "Accounts"
  <2>0. /\ None \in MobileOps /\ "useCreateAccount" \in MobileOps
        /\ "useSetPrimaryAccount" \in MobileOps /\ "useRecomputeAccount" \in MobileOps
        /\ "useDeleteAccount" \in MobileOps
    BY MobileUsed
  <2>1. p \in Mobile!AccountsPresses(u, s)
    BY <1>1 DEF Mobile!Presses
  <2>2. /\ Ok(Mobile!Opens(u, "create", 0), None)
        /\ Ok(Mobile!Closes(u), None)
        /\ Ok(Mobile!Calls(Mobile!Closed(u), "useDeleteAccount", u.on), None)
    BY <1>0, MobileKinds, <2>0 DEF Mobile!Calls, Mobile!Edits, Mobile!Requery
  <2>3. \A q \in Mobile!AddAccountModal(u, s) : Ok(q, None)
    BY <1>0, MobileKinds, <2>0
    DEF Mobile!AddAccountModal, Mobile!If, Mobile!Calls, Mobile!Requery
  <2>4. \A i \in Item : \A q \in Mobile!AccountCard(u, s, i) : Ok(q, None)
    BY MobileKinds, <2>0 DEF Mobile!AccountCard, Mobile!If, Mobile!Calls, Mobile!Edits
  <2>5. Ok(p, None)
    BY <1>0, <2>1, <2>2, <2>3, <2>4
    DEF Mobile!AccountsPresses, Mobile!If, Mobile!In, Mobile!Uncovered,
       Mobile!Each
  <2>6. Keeps(screen) = None
    BY <1>1 DEF Keeps
  <2> QED BY <2>5, <2>6
<1>2. CASE screen = "Goals"
  <2>0. /\ None \in MobileOps /\ "useCreateGoal" \in MobileOps
        /\ "useContributeGoal" \in MobileOps /\ "useDeleteGoal" \in MobileOps
    BY MobileUsed
  <2>1. p \in Mobile!GoalsPresses(u, s)
    BY <1>2 DEF Mobile!Presses
  <2>2. /\ Ok(Mobile!Opens(u, "create", 0), None)
        /\ Ok(Mobile!Closes(u), None)
        /\ Ok(Mobile!Calls(Mobile!Closed(u), "useDeleteGoal", u.on), None)
    BY <1>0, MobileKinds, <2>0 DEF Mobile!Calls, Mobile!Edits, Mobile!Requery
  <2>3. \A q \in Mobile!CreateGoalModal(u, s) : Ok(q, None)
    BY <1>0, MobileKinds, <2>0
    DEF Mobile!CreateGoalModal, Mobile!If, Mobile!Calls, Mobile!Requery
  <2>4. \A q \in Mobile!ContributeModal(u, s) : Ok(q, None)
    BY <1>0, MobileKinds, <2>0
    DEF Mobile!ContributeModal, Mobile!If, Mobile!Calls, Mobile!Requery
  <2>5. \A i \in Item : \A q \in Mobile!GoalCard(u, s, i) : Ok(q, None)
    BY MobileKinds, <2>0 DEF Mobile!GoalCard, Mobile!If, Mobile!Calls, Mobile!Edits
  <2>6. \A q \in Mobile!Chooses(u, {"all", "plain", "marked"}) : Ok(q, None)
    BY MobileKinds, <2>0
  <2>7. Ok(p, None)
    BY <1>0, <2>1, <2>2, <2>3, <2>4, <2>5, <2>6
    DEF Mobile!GoalsPresses, Mobile!If, Mobile!In, Mobile!Uncovered, Mobile!Each
  <2>8. Keeps(screen) = None
    BY <1>2 DEF Keeps
  <2> QED BY <2>7, <2>8
<1>3. CASE screen = "Budgets"
  <2>0. /\ None \in MobileOps /\ "useCreateBudget" \in MobileOps
        /\ "useDeleteBudget" \in MobileOps
    BY MobileUsed
  <2>1. p \in Mobile!BudgetsPresses(u, s)
    BY <1>3 DEF Mobile!Presses
  <2>2. /\ Ok(Mobile!Opens(u, "create", 0), None)
        /\ Ok(Mobile!Closes(u), None)
        /\ Ok(Mobile!Calls(Mobile!Closed(u), "useDeleteBudget", u.on), None)
    BY <1>0, MobileKinds, <2>0 DEF Mobile!Calls, Mobile!Edits, Mobile!Requery
  <2>3. \A q \in Mobile!CreateBudgetModal(u, s) : Ok(q, None)
    BY <1>0, MobileKinds, <2>0
    DEF Mobile!CreateBudgetModal, Mobile!If, Mobile!Calls, Mobile!Requery
  <2>4. \A i \in Item : \A q \in Mobile!BudgetCard(u, s, i) : Ok(q, None)
    BY MobileKinds, <2>0 DEF Mobile!BudgetCard, Mobile!If, Mobile!Calls, Mobile!Edits
  <2>5. Ok(p, None)
    BY <1>0, <2>1, <2>2, <2>3, <2>4
    DEF Mobile!BudgetsPresses, Mobile!If, Mobile!In, Mobile!Uncovered,
       Mobile!Each
  <2>6. Keeps(screen) = None
    BY <1>3 DEF Keeps
  <2> QED BY <2>5, <2>6
<1>4. CASE screen = "Subscriptions"
  <2>0. /\ None \in MobileOps /\ "usePauseSubscription" \in MobileOps
        /\ "useCancelSubscription" \in MobileOps
    BY MobileUsed
  <2>1. p \in Mobile!SubscriptionsPresses(u, s)
    BY <1>4 DEF Mobile!Presses
  <2>2. /\ Ok(Mobile!Closes(u), None)
        /\ Ok(Mobile!Opens(u, "guide", u.on), None)
    BY <1>0, MobileKinds, <2>0 DEF Mobile!Calls, Mobile!Edits, Mobile!Requery
  <2>3. \A q \in Mobile!CancelGuideModal(u, s) : Ok(q, None)
    BY <1>0, MobileKinds, <2>0
    DEF Mobile!CancelGuideModal, Mobile!If, Mobile!Calls, Mobile!Requery
  <2>4. \A i \in Item : \A q \in Mobile!SubscriptionCard(u, s, i) : Ok(q, None)
    BY MobileKinds, <2>0
    DEF Mobile!SubscriptionCard, Mobile!If, Mobile!Calls, Mobile!Edits
  <2>5. Ok(p, None)
    BY <1>0, <2>1, <2>2, <2>3, <2>4
    DEF Mobile!SubscriptionsPresses, Mobile!If, Mobile!In, Mobile!Uncovered,
       Mobile!Each
  <2>6. Keeps(screen) = None
    BY <1>4 DEF Keeps
  <2> QED BY <2>5, <2>6
<1>5. CASE screen = "Transactions"
  <2>0. /\ None \in MobileOps /\ "requery" \in MobileOps
        /\ "useUpdateTransaction" \in MobileOps
    BY MobileUsed
  <2>1. p \in Mobile!TransactionsPresses(u, s)
    BY <1>5 DEF Mobile!Presses
  <2>2. /\ Ok(Mobile!Opens(u, "pick", 0), None)
        /\ Ok(Mobile!Requery(u), None)
    BY <1>0, MobileKinds, <2>0 DEF Mobile!Calls, Mobile!Edits, Mobile!Requery
  <2>3. \A q \in Mobile!FilterModal(u, s) : Ok(q, None)
    BY <1>0, MobileKinds, <2>0
    DEF Mobile!FilterModal, Mobile!If, Mobile!Calls, Mobile!Requery
  <2>4. \A i \in Item : \A q \in Mobile!TransactionRow(u, s, i) : Ok(q, None)
    BY MobileKinds, <2>0 DEF Mobile!TransactionRow, Mobile!If, Mobile!Calls, Mobile!Edits
  <2>5. Ok(p, None)
    BY <1>0, <2>1, <2>2, <2>3, <2>4
    DEF Mobile!TransactionsPresses, Mobile!If, Mobile!In, Mobile!Uncovered,
       Mobile!Each
  <2>6. Keeps(screen) = None
    BY <1>5 DEF Keeps
  <2> QED BY <2>5, <2>6
<1>6. CASE screen = "TransactionDetail"
  <2>0. /\ None \in MobileOps /\ "useUpdateTransaction" \in MobileOps
        /\ "useDeleteTransaction" \in MobileOps
    BY MobileUsed
  <2>1. p \in Mobile!TransactionDetailPresses(u, s)
    BY <1>6 DEF Mobile!Presses
  <2>2. /\ Ok(Mobile!Closes(u), None)
        /\ Ok(Mobile!Edits(Mobile!Closed(u), "useUpdateTransaction", u.on,
                             {Mobile!NamedCategory}), None)
        /\ Ok(Mobile!Edits(Mobile!Closed(u), "useUpdateTransaction", u.on,
                             {"description"}), None)
        /\ Ok(Mobile!Press(Mobile!Closed(u), "useDeleteTransaction", u.on, {}, 0,
                             Mobile!Leave), None)
    BY <1>0, MobileKinds, <2>0 DEF Mobile!Calls, Mobile!Edits, Mobile!Requery
  <2>3. \A i \in Item :
          \A q \in {Mobile!Opens(u, "confirm", i), Mobile!Opens(u, "pick", i),
             Mobile!Opens(u, "edit", i),
             Mobile!Edits(u, "useUpdateTransaction", i, {"isImpulse"})} :
             Ok(q, None)
    BY MobileKinds, <2>0 DEF Mobile!Calls, Mobile!Edits
  <2>4. Ok(p, None)
    BY <1>0, <2>1, <2>2, <2>3
    DEF Mobile!TransactionDetailPresses, Mobile!If, Mobile!In,
       Mobile!Uncovered, Mobile!Each
  <2>5. Keeps(screen) = None
    BY <1>6 DEF Keeps
  <2> QED BY <2>4, <2>5
<1>7. CASE screen = "Notifications"
  <2>0. /\ None \in MobileOps /\ "useMarkAsRead" \in MobileOps
        /\ "useMarkAllAsRead" \in MobileOps
    BY MobileUsed
  <2>1. p \in Mobile!NotificationsPresses(u, s)
    BY <1>7 DEF Mobile!Presses
  <2>2. Ok(Mobile!Calls(u, "useMarkAllAsRead", 0), None)
    BY <1>0, MobileKinds, <2>0 DEF Mobile!Calls, Mobile!Edits, Mobile!Requery
  <2>3. \A i \in Item : \A q \in Mobile!NotificationItem(u, s, i) : Ok(q, None)
    BY MobileKinds, <2>0
    DEF Mobile!NotificationItem, Mobile!If, Mobile!Calls, Mobile!Edits
  <2>4. \A q \in Mobile!Chooses(u, {"all", "plain"}) : Ok(q, None)
    BY MobileKinds, <2>0
  <2>5. Ok(p, None)
    BY <1>0, <2>1, <2>2, <2>3, <2>4
    DEF Mobile!NotificationsPresses, Mobile!If, Mobile!In, Mobile!Uncovered,
       Mobile!Each
  <2>6. Keeps(screen) = None
    BY <1>7 DEF Keeps
  <2> QED BY <2>5, <2>6
<1>8. CASE screen = "AddTransaction"
  <2>0. /\ None \in MobileOps /\ "useCreateTransaction" \in MobileOps
    BY MobileUsed
  <2>1. p \in Mobile!AddTransactionPresses(u, s)
    BY <1>8 DEF Mobile!Presses
  <2>2. Ok(p, "useCreateTransaction")
    BY <2>1, MobileKinds, <2>0
    DEF Mobile!AddTransactionPresses, Mobile!If, Mobile!Calls,
       Mobile!Refetch, Mobile!Requery, Mobile!Leave
  <2>3. Keeps(screen) = "useCreateTransaction"
    BY <1>8 DEF Keeps
  <2> QED BY <2>2, <2>3
<1>9. CASE screen = "WeeklySummary"
  <2>0. /\ None \in MobileOps /\ "useGenerateWeeklySummary" \in MobileOps
    BY MobileUsed
  <2>1. p \in Mobile!WeeklySummaryPresses(u, s)
    BY <1>9 DEF Mobile!Presses
  <2>2. Ok(p, None)
    BY <2>1, MobileKinds, <2>0
    DEF Mobile!WeeklySummaryPresses, Mobile!If, Mobile!Calls,
       Mobile!Refetch, Mobile!Requery, Mobile!Leave
  <2>3. Keeps(screen) = None
    BY <1>9 DEF Keeps
  <2> QED BY <2>2, <2>3
<1>10. CASE screen = "Insights"
  <2>0. /\ None \in MobileOps /\ "requery" \in MobileOps
    BY MobileUsed
  <2>1. p \in Mobile!InsightsPresses(u, s)
    BY <1>10 DEF Mobile!Presses
  <2>2. Ok(p, None)
    BY <2>1, MobileKinds, <2>0
    DEF Mobile!InsightsPresses, Mobile!If, Mobile!Calls, Mobile!Refetch,
       Mobile!Requery, Mobile!Leave
  <2>3. Keeps(screen) = None
    BY <1>10 DEF Keeps
  <2> QED BY <2>2, <2>3
<1>11. CASE screen = "MoneyLeaks"
  <2>0. /\ None \in MobileOps
    BY MobileUsed
  <2>1. p \in Mobile!MoneyLeaksPresses(u, s)
    BY <1>11 DEF Mobile!Presses
  <2>2. Ok(p, None)
    BY <2>1, MobileKinds, <2>0
    DEF Mobile!MoneyLeaksPresses, Mobile!If, Mobile!Calls, Mobile!Refetch,
       Mobile!Requery, Mobile!Leave
  <2>3. Keeps(screen) = None
    BY <1>11 DEF Keeps
  <2> QED BY <2>2, <2>3
<1>12. CASE screen = "HealthScore"
  <2>0. /\ None \in MobileOps /\ "refetch" \in MobileOps
    BY MobileUsed
  <2>1. p \in Mobile!HealthScorePresses(u, s)
    BY <1>12 DEF Mobile!Presses
  <2>2. Ok(p, None)
    BY <2>1, MobileKinds, <2>0
    DEF Mobile!HealthScorePresses, Mobile!If, Mobile!Calls, Mobile!Refetch,
       Mobile!Requery, Mobile!Leave
  <2>3. Keeps(screen) = None
    BY <1>12 DEF Keeps
  <2> QED BY <2>2, <2>3
<1>13. CASE screen = "AIAssistant"
  <2>0. /\ None \in MobileOps /\ "useAskAi" \in MobileOps
    BY MobileUsed
  <2>1. p \in Mobile!AIAssistantPresses(u, s)
    BY <1>13 DEF Mobile!Presses
  <2>2. Ok(p, None)
    BY <2>1, MobileKinds, <2>0
    DEF Mobile!AIAssistantPresses, Mobile!If, Mobile!Calls, Mobile!Refetch,
       Mobile!Requery, Mobile!Leave
  <2>3. Keeps(screen) = None
    BY <1>13 DEF Keeps
  <2> QED BY <2>2, <2>3
<1>14. CASE screen = "Home"
  <2>0. /\ None \in MobileOps /\ "refetch" \in MobileOps
    BY MobileUsed
  <2>1. p \in Mobile!HomePresses(u, s)
    BY <1>14 DEF Mobile!Presses
  <2>2. Ok(p, None)
    BY <2>1, MobileKinds, <2>0
    DEF Mobile!HomePresses, Mobile!If, Mobile!Calls, Mobile!Refetch,
       Mobile!Requery, Mobile!Leave
  <2>3. Keeps(screen) = None
    BY <1>14 DEF Keeps
  <2> QED BY <2>2, <2>3
<1>15. CASE screen = "Settings"
  <2>0. /\ None \in MobileOps /\ "testPush" \in MobileOps
    BY MobileUsed
  <2>1. p \in Mobile!SettingsPresses(u, s)
    BY <1>15 DEF Mobile!Presses
  <2>2. Ok(p, "useUpdateProfile")
    BY <2>1, MobileKinds, <2>0
    DEF Mobile!SettingsPresses, Mobile!If, Mobile!Calls, Mobile!Refetch,
       Mobile!Requery, Mobile!Leave
  <2>3. Keeps(screen) = "useUpdateProfile"
    BY <1>15 DEF Keeps
  <2> QED BY <2>2, <2>3
<1>16. CASE screen = "SmsForward"
  <2>0. /\ None \in MobileOps /\ "ingestSms" \in MobileOps
    BY MobileUsed
  <2>1. p \in Mobile!SmsForwardPresses(u, s)
    BY <1>16 DEF Mobile!Presses
  <2>2. Ok(p, "ingestSms")
    BY <2>1, MobileKinds, <2>0, MobileClears
    DEF Mobile!SmsForwardPresses, Mobile!If, Mobile!Calls, Mobile!Refetch,
       Mobile!Requery, Mobile!Leave
  <2>3. Keeps(screen) = "ingestSms"
    BY <1>16 DEF Keeps
  <2> QED BY <2>2, <2>3
<1>17. CASE screen = "Login"
  <2>0. /\ None \in MobileOps /\ "login" \in MobileOps
    BY MobileUsed
  <2>1. p \in Mobile!LoginPresses(u, s)
    BY <1>17 DEF Mobile!Presses
  <2>2. Ok(p, "login")
    BY <2>1, MobileKinds, <2>0
    DEF Mobile!LoginPresses, Mobile!If, Mobile!Calls, Mobile!Refetch,
       Mobile!Requery, Mobile!Leave
  <2>3. Keeps(screen) = "login"
    BY <1>17 DEF Keeps
  <2> QED BY <2>2, <2>3
<1>18. CASE screen = "Register"
  <2>0. /\ None \in MobileOps /\ "register" \in MobileOps
    BY MobileUsed
  <2>1. p \in Mobile!RegisterPresses(u, s)
    BY <1>18 DEF Mobile!Presses
  <2>2. Ok(p, "register")
    BY <2>1, MobileKinds, <2>0
    DEF Mobile!RegisterPresses, Mobile!If, Mobile!Calls, Mobile!Refetch,
       Mobile!Requery, Mobile!Leave
  <2>3. Keeps(screen) = "register"
    BY <1>18 DEF Keeps
  <2> QED BY <2>2, <2>3
<1> QED
    BY <1>1, <1>2, <1>3, <1>4, <1>5, <1>6, <1>7, <1>8, <1>9, <1>10, <1>11,
       <1>12, <1>13,
       <1>14, <1>15, <1>16, <1>17, <1>18
    DEF Mobile!Uses

LEMMA WebPressesFit ==
    ASSUME NEW u \in Ui, NEW s, NEW screen \in DOMAIN Web!Uses,
           NEW p \in Web!Presses(screen, u, s)
    PROVE  Fits(p, u, Keeps(screen), s.busy, WebOps)
<1> DEFINE Ok(q, keeps) == Fits(q, u, keeps, s.busy, WebOps)
<1> USE DEF Forms, Sheets
<1>0. /\ \A table, flags : Web!Rows(table, flags) \subseteq Item
      /\ Web!Listed(u, s) \subseteq Item
      /\ u.on \in Item \cup {0}
    BY DEF Web!Listed, Web!Rows, Ui
<1>1. CASE screen = "Accounts"
  <2>0. /\ None \in WebOps /\ "useCreateAccount" \in WebOps
        /\ "useSetPrimaryAccount" \in WebOps /\ "useSyncAccount" \in WebOps
        /\ "useDeleteAccount" \in WebOps
    BY WebUsed
  <2>1. p \in Web!AccountsPresses(u, s)
    BY <1>1 DEF Web!Presses
  <2>2. Ok(Web!Opens(u, "create", 0), None)
    BY <1>0, WebKinds, <2>0 DEF Web!Calls, Web!Edits, Web!Requery
  <2>3. \A q \in Web!CreateAccountModal(u, s) : Ok(q, None)
    BY <1>0, WebKinds, <2>0, WebClears
    DEF Web!CreateAccountModal, Web!If, Web!Unless, Web!Calls, Web!Requery,
       Web!Leaves
  <2>4. \A q \in Web!RemovalModal(u, s, "useDeleteAccount") : Ok(q, None)
    BY <1>0, WebKinds, <2>0
    DEF Web!RemovalModal, Web!If, Web!Unless, Web!Calls, Web!Requery,
       Web!Leaves
  <2>5. \A i \in Item : \A q \in Web!AccountCard(u, s, i) : Ok(q, None)
    BY WebKinds, <2>0 DEF Web!AccountCard, Web!If, Web!Calls, Web!Edits
  <2>6. Ok(p, None)
    BY <1>0, <2>1, <2>2, <2>3, <2>4, <2>5
    DEF Web!AccountsPresses, Web!If, Web!Unless, Web!In, Web!Uncovered, Web!Each
  <2>7. Keeps(screen) = None
    BY <1>1 DEF Keeps
  <2> QED BY <2>6, <2>7
<1>2. CASE screen = "Goals"
  <2>0. /\ None \in WebOps /\ "useCreateGoal" \in WebOps
        /\ "useContributeGoal" \in WebOps /\ "useDeleteGoal" \in WebOps
    BY WebUsed
  <2>1. p \in Web!GoalsPresses(u, s)
    BY <1>2 DEF Web!Presses
  <2>2. Ok(Web!Opens(u, "create", 0), None)
    BY <1>0, WebKinds, <2>0 DEF Web!Calls, Web!Edits, Web!Requery
  <2>3. \A q \in Web!CreateGoalModal(u, s) : Ok(q, None)
    BY <1>0, WebKinds, <2>0, WebClears
    DEF Web!CreateGoalModal, Web!If, Web!Unless, Web!Calls, Web!Requery,
       Web!Leaves
  <2>4. \A q \in Web!ContributeModal(u, s) : Ok(q, None)
    BY <1>0, WebKinds, <2>0, WebClears
    DEF Web!ContributeModal, Web!If, Web!Unless, Web!Calls, Web!Requery,
       Web!Leaves
  <2>5. \A q \in Web!RemovalModal(u, s, "useDeleteGoal") : Ok(q, None)
    BY <1>0, WebKinds, <2>0
    DEF Web!RemovalModal, Web!If, Web!Unless, Web!Calls, Web!Requery,
       Web!Leaves
  <2>6. \A i \in Item : \A q \in Web!GoalCard(u, s, i) : Ok(q, None)
    BY WebKinds, <2>0 DEF Web!GoalCard, Web!If, Web!Calls, Web!Edits
  <2>7. \A q \in Web!Chooses(u, {"all", "plain", "marked"}) : Ok(q, None)
    BY WebKinds, <2>0
  <2>8. Ok(p, None)
    BY <1>0, <2>1, <2>2, <2>3, <2>4, <2>5, <2>6, <2>7
    DEF Web!GoalsPresses, Web!If, Web!Unless, Web!In, Web!Uncovered, Web!Each
  <2>9. Keeps(screen) = None
    BY <1>2 DEF Keeps
  <2> QED BY <2>8, <2>9
<1>3. CASE screen = "Budgets"
  <2>0. /\ None \in WebOps /\ "useCreateBudget" \in WebOps
        /\ "useDeleteBudget" \in WebOps
    BY WebUsed
  <2>1. p \in Web!BudgetsPresses(u, s)
    BY <1>3 DEF Web!Presses
  <2>2. Ok(Web!Opens(u, "create", 0), None)
    BY <1>0, WebKinds, <2>0 DEF Web!Calls, Web!Edits, Web!Requery
  <2>3. \A q \in Web!CreateBudgetModal(u, s) : Ok(q, None)
    BY <1>0, WebKinds, <2>0, WebClears
    DEF Web!CreateBudgetModal, Web!If, Web!Unless, Web!Calls, Web!Requery,
       Web!Leaves
  <2>4. \A q \in Web!RemovalModal(u, s, "useDeleteBudget") : Ok(q, None)
    BY <1>0, WebKinds, <2>0
    DEF Web!RemovalModal, Web!If, Web!Unless, Web!Calls, Web!Requery,
       Web!Leaves
  <2>5. \A i \in Item : \A q \in Web!BudgetCard(u, s, i) : Ok(q, None)
    BY WebKinds, <2>0 DEF Web!BudgetCard, Web!If, Web!Calls, Web!Edits
  <2>6. Ok(p, None)
    BY <1>0, <2>1, <2>2, <2>3, <2>4, <2>5
    DEF Web!BudgetsPresses, Web!If, Web!Unless, Web!In, Web!Uncovered, Web!Each
  <2>7. Keeps(screen) = None
    BY <1>3 DEF Keeps
  <2> QED BY <2>6, <2>7
<1>4. CASE screen = "Subscriptions"
  <2>0. /\ None \in WebOps /\ "usePauseSubscription" \in WebOps
        /\ "useCancelSubscription" \in WebOps
    BY WebUsed
  <2>1. p \in Web!SubscriptionsPresses(u, s)
    BY <1>4 DEF Web!Presses
  <2>2. \A q \in Web!CancelGuideModal(u, s) : Ok(q, None)
    BY <1>0, WebKinds, <2>0
    DEF Web!CancelGuideModal, Web!If, Web!Unless, Web!Calls, Web!Requery,
       Web!Leaves
  <2>3. \A i \in Item : \A q \in Web!SubscriptionCard(u, s, i) : Ok(q, None)
    BY WebKinds, <2>0 DEF Web!SubscriptionCard, Web!If, Web!Calls, Web!Edits
  <2>4. Ok(p, None)
    BY <1>0, <2>1, <2>2, <2>3
    DEF Web!SubscriptionsPresses, Web!If, Web!Unless, Web!In, Web!Uncovered,
       Web!Each
  <2>5. Keeps(screen) = None
    BY <1>4 DEF Keeps
  <2> QED BY <2>4, <2>5
<1>5. CASE screen = "TransactionDetail"
  <2>0. /\ None \in WebOps /\ "useUpdateTransaction" \in WebOps
        /\ "useDeleteTransaction" \in WebOps
    BY WebUsed
  <2>1. p \in Web!TransactionDetailPresses(u, s)
    BY <1>5 DEF Web!Presses
  <2>2. /\ Ok(Web!Edits(Web!Closed(u), "useUpdateTransaction", u.on, {"category"}), None)
        /\ Ok(Web!Edits(Web!Closed(u), "useUpdateTransaction", u.on, {"description"}), None)
    BY <1>0, WebKinds, <2>0 DEF Web!Calls, Web!Edits, Web!Requery
  <2>3. \A i \in Item :
          \A q \in {Web!Opens(u, "pick", i), Web!Opens(u, "edit", i), Web!Closes(u),
             Web!Edits(u, "useUpdateTransaction", i, {"isImpulse"}),
             Web!Press(u, "useDeleteTransaction", i, {}, 0, Web!Leave)} :
             Ok(q, None)
    BY WebKinds, <2>0 DEF Web!Calls, Web!Edits
  <2>4. Ok(p, None)
    BY <1>0, <2>1, <2>2, <2>3
    DEF Web!TransactionDetailPresses, Web!If, Web!Unless, Web!In,
       Web!Uncovered, Web!Each
  <2>5. Keeps(screen) = None
    BY <1>5 DEF Keeps
  <2> QED BY <2>4, <2>5
<1>6. CASE screen = "Notifications"
  <2>0. /\ None \in WebOps /\ "useMarkNotificationRead" \in WebOps
        /\ "useMarkAllNotificationsRead" \in WebOps
        /\ "useDeleteNotification" \in WebOps
    BY WebUsed
  <2>1. p \in Web!NotificationsPresses(u, s)
    BY <1>6 DEF Web!Presses
  <2>2. Ok(Web!Calls(u, "useMarkAllNotificationsRead", 0), None)
    BY <1>0, WebKinds, <2>0 DEF Web!Calls, Web!Edits, Web!Requery
  <2>3. \A i \in Item : \A q \in Web!NotificationRow(u, s, i) : Ok(q, None)
    BY WebKinds, <2>0 DEF Web!NotificationRow, Web!If, Web!Calls, Web!Edits
  <2>4. \A q \in Web!Chooses(u, {"all", "plain"}) : Ok(q, None)
    BY WebKinds, <2>0
  <2>5. Ok(p, None)
    BY <1>0, <2>1, <2>2, <2>3, <2>4
    DEF Web!NotificationsPresses, Web!If, Web!Unless, Web!In, Web!Uncovered,
       Web!Each
  <2>6. Keeps(screen) = None
    BY <1>6 DEF Keeps
  <2> QED BY <2>5, <2>6
<1>7. CASE screen = "Settings"
  <2>0. /\ None \in WebOps /\ "useUpdateNotificationPreferences" \in WebOps
        /\ "useUpdateProfile" \in WebOps /\ "useSendTestPush" \in WebOps
        /\ "logout" \in WebOps
    BY WebUsed
  <2>1. p \in Web!SettingsPresses(u, s)
    BY <1>7 DEF Web!Presses
  <2>2. /\ Ok(Web!Opens(Web!Cleared(u, "edit"), "edit", 0), "useUpdateProfile")
        /\ Ok(Web!Opens(Web!Cleared(u, "create"), "create", 0), "useUpdateProfile")
        /\ Ok(Web!Opens(u, "confirm", 0), "useUpdateProfile")
        /\ Ok(Web!Calls(u, "useSendTestPush", 0), "useUpdateProfile")
        /\ Ok(Web!Closes(u), "useUpdateProfile")
        /\ Ok(Web!Press(Web!Closed(u), "logout", 0, {}, 0, Web!Leave), "useUpdateProfile")
    BY <1>0, WebKinds, <2>0, WebClears DEF Web!Calls, Web!Edits, Web!Requery
  <2>3. \A q \in Web!ProfileEditModal(u, s) : Ok(q, "useUpdateProfile")
    BY <1>0, WebKinds, <2>0, WebClears
    DEF Web!ProfileEditModal, Web!If, Web!Unless, Web!Calls, Web!Requery,
       Web!Leaves
  <2>4. \A q \in Web!PasswordModal(u, s) : Ok(q, "useUpdateProfile")
    BY <1>0, WebKinds, <2>0, WebClears
    DEF Web!PasswordModal, Web!If, Web!Unless, Web!Calls, Web!Requery,
       Web!Leaves
  <2>5. \A i \in Item : \A q \in Web!PreferenceSwitch(u, s, i) :
           Ok(q, "useUpdateProfile")
    BY WebKinds, <2>0 DEF Web!PreferenceSwitch, Web!If, Web!Calls, Web!Edits
  <2>6. Ok(p, "useUpdateProfile")
    BY <1>0, <2>1, <2>2, <2>3, <2>4, <2>5
    DEF Web!SettingsPresses, Web!If, Web!Unless, Web!In, Web!Uncovered, Web!Each
  <2>7. Keeps(screen) = "useUpdateProfile"
    BY <1>7 DEF Keeps
  <2> QED BY <2>6, <2>7
<1>8. CASE screen = "Transactions"
  <2>0. /\ None \in WebOps /\ "requery" \in WebOps
    BY WebUsed
  <2>1. p \in Web!TransactionsPresses(u, s)
    BY <1>8 DEF Web!Presses
  <2>2. Ok(p, None)
    BY <2>1, WebKinds, <2>0
    DEF Web!TransactionsPresses, Web!If, Web!Unless, Web!Calls, Web!Refetch,
       Web!Requery, Web!Leave
  <2>3. Keeps(screen) = None
    BY <1>8 DEF Keeps
  <2> QED BY <2>2, <2>3
<1>9. CASE screen = "AddTransaction"
  <2>0. /\ None \in WebOps /\ "useCreateTransaction" \in WebOps
    BY WebUsed
  <2>1. p \in Web!NewTransactionPresses(u, s)
    BY <1>9 DEF Web!Presses
  <2>2. Ok(p, "useCreateTransaction")
    BY <2>1, WebKinds, <2>0
    DEF Web!NewTransactionPresses, Web!If, Web!Unless, Web!Calls,
       Web!Refetch, Web!Requery, Web!Leave
  <2>3. Keeps(screen) = "useCreateTransaction"
    BY <1>9 DEF Keeps
  <2> QED BY <2>2, <2>3
<1>10. CASE screen = "WeeklySummary"
  <2>0. /\ None \in WebOps /\ "useGenerateWeeklySummary" \in WebOps
    BY WebUsed
  <2>1. p \in Web!WeeklySummaryPresses(u, s)
    BY <1>10 DEF Web!Presses
  <2>2. Ok(p, None)
    BY <2>1, WebKinds, <2>0
    DEF Web!WeeklySummaryPresses, Web!If, Web!Unless, Web!Calls,
       Web!Refetch, Web!Requery, Web!Leave
  <2>3. Keeps(screen) = None
    BY <1>10 DEF Keeps
  <2> QED BY <2>2, <2>3
<1>11. CASE screen = "Insights"
  <2>0. /\ None \in WebOps /\ "requery" \in WebOps
    BY WebUsed
  <2>1. p \in Web!InsightsPresses(u, s)
    BY <1>11 DEF Web!Presses
  <2>2. Ok(p, None)
    BY <2>1, WebKinds, <2>0
    DEF Web!InsightsPresses, Web!If, Web!Unless, Web!Calls, Web!Refetch,
       Web!Requery, Web!Leave
  <2>3. Keeps(screen) = None
    BY <1>11 DEF Keeps
  <2> QED BY <2>2, <2>3
<1>12. CASE screen = "MoneyLeaks"
  <2>0. /\ None \in WebOps
    BY WebUsed
  <2>1. p \in Web!MoneyLeaksPresses(u, s)
    BY <1>12 DEF Web!Presses
  <2>2. Ok(p, None)
    BY <2>1, WebKinds, <2>0
    DEF Web!MoneyLeaksPresses, Web!If, Web!Unless, Web!Calls, Web!Refetch,
       Web!Requery, Web!Leave
  <2>3. Keeps(screen) = None
    BY <1>12 DEF Keeps
  <2> QED BY <2>2, <2>3
<1>13. CASE screen = "AIAssistant"
  <2>0. /\ None \in WebOps /\ "useAskAi" \in WebOps
    BY WebUsed
  <2>1. p \in Web!AiCoachPresses(u, s)
    BY <1>13 DEF Web!Presses
  <2>2. Ok(p, None)
    BY <2>1, WebKinds, <2>0
    DEF Web!AiCoachPresses, Web!If, Web!Unless, Web!Calls, Web!Refetch,
       Web!Requery, Web!Leave
  <2>3. Keeps(screen) = None
    BY <1>13 DEF Keeps
  <2> QED BY <2>2, <2>3
<1>14. CASE screen = "Home"
  <2>0. /\ None \in WebOps /\ "refetch" \in WebOps
    BY WebUsed
  <2>1. p \in Web!DashboardPresses(u, s)
    BY <1>14 DEF Web!Presses
  <2>2. Ok(p, None)
    BY <2>1, WebKinds, <2>0
    DEF Web!DashboardPresses, Web!If, Web!Unless, Web!Calls, Web!Refetch,
       Web!Requery, Web!Leave
  <2>3. Keeps(screen) = None
    BY <1>14 DEF Keeps
  <2> QED BY <2>2, <2>3
<1>15. CASE screen = "Login"
  <2>0. /\ None \in WebOps /\ "login" \in WebOps
    BY WebUsed
  <2>1. p \in Web!LoginPresses(u, s)
    BY <1>15 DEF Web!Presses
  <2>2. Ok(p, "login")
    BY <2>1, WebKinds, <2>0
    DEF Web!LoginPresses, Web!If, Web!Unless, Web!Calls, Web!Refetch,
       Web!Requery, Web!Leave
  <2>3. Keeps(screen) = "login"
    BY <1>15 DEF Keeps
  <2> QED BY <2>2, <2>3
<1>16. CASE screen = "Register"
  <2>0. /\ None \in WebOps /\ "register" \in WebOps
    BY WebUsed
  <2>1. p \in Web!RegisterPresses(u, s)
    BY <1>16 DEF Web!Presses
  <2>2. Ok(p, "register")
    BY <2>1, WebKinds, <2>0
    DEF Web!RegisterPresses, Web!If, Web!Unless, Web!Calls, Web!Refetch,
       Web!Requery, Web!Leave
  <2>3. Keeps(screen) = "register"
    BY <1>16 DEF Keeps
  <2> QED BY <2>2, <2>3
<1>17. CASE screen = "HealthScore"
    BY <1>17 DEF Web!Presses
<1> QED
    BY <1>1, <1>2, <1>3, <1>4, <1>5, <1>6, <1>7, <1>8, <1>9, <1>10, <1>11,
       <1>12, <1>13,
       <1>14, <1>15, <1>16, <1>17
    DEF Web!Uses

-----------------------------------------------------------------------------
(* The tables of the hooks *)

\* The tables a mutation of a client may change, each with a list of its own
\* name in the cache; and one more, kept beside the notifications.
Lists == {"accounts", "goals", "budgets", "subscriptions", "transactions",
          "notifications", "weekly-summary"}
PreferenceKey == <<"notifications", "preferences">>

\* A mutation drops what is read from the table it may change.
Covers(m) ==
    LET request == m.request
        table == Resource(request)
    IN  /\ request \in [verb : {request.verb}, path : {request.path}, body : {request.body}]
        /\ table \in Lists => <<table>> \in m.drops
        /\ table = "preferences" => PreferenceKey \in m.drops
        /\ table \notin Lists => ~Created(request) /\ request.verb # "DELETE"

\* As Covers, for a table that has a list of its own.
CoversList(m, table) ==
    /\ m.request \in [verb : {m.request.verb}, path : {m.request.path},
                      body : {m.request.body}]
    /\ Resource(m.request) = table
    /\ <<table>> \in m.drops

\* A query keeps what it reads from a table where a mutation of it will look.
FoundUnder(q) ==
    LET table == Resource(q.request)
    IN  /\ table \in Lists => IsPrefix(<<table>>, q.key)
        /\ table = "preferences" => IsPrefix(PreferenceKey, q.key)

\* The table of a path of one, two or three parts; and the prefixes of a key.
LEMMA PathTables ==
    /\ \A request, a : a # "preferences" /\ request.path = <<a>> => Resource(request) = a
    /\ \A request, a, b : a # "preferences" /\ b # "preferences" /\ request.path = <<a, b>>
          => Resource(request) = a
    /\ \A request, a, b, c : a # "preferences" /\ b # "preferences" /\ c # "preferences"
             /\ request.path = <<a, b, c>>
          => Resource(request) = a
    /\ \A request, a : request.path = <<a, "preferences">> => Resource(request) = "preferences"
<1>1. ASSUME NEW request, NEW a, a # "preferences", request.path = <<a>>
      PROVE  Resource(request) = a
  <2>1. \A i \in DOMAIN <<a>> : <<a>>[i] # "preferences"
    BY <1>1
  <2>2. "preferences" \notin ToSet(<<a>>)
    BY <2>1 DEF ToSet
  <2> QED BY <1>1, <2>2 DEF Resource
<1>2. ASSUME NEW request, NEW a, NEW b, a # "preferences", b # "preferences",
             request.path = <<a, b>>
      PROVE  Resource(request) = a
  <2>1. \A i \in DOMAIN <<a, b>> : <<a, b>>[i] # "preferences"
    BY <1>2
  <2>2. "preferences" \notin ToSet(<<a, b>>)
    BY <2>1 DEF ToSet
  <2> QED BY <1>2, <2>2 DEF Resource
<1>3. ASSUME NEW request, NEW a, NEW b, NEW c, a # "preferences", b # "preferences",
             c # "preferences", request.path = <<a, b, c>>
      PROVE  Resource(request) = a
  <2>1. \A i \in DOMAIN <<a, b, c>> : <<a, b, c>>[i] # "preferences"
    BY <1>3
  <2>2. "preferences" \notin ToSet(<<a, b, c>>)
    BY <2>1 DEF ToSet
  <2> QED BY <1>3, <2>2 DEF Resource
<1>4. ASSUME NEW request, NEW a, request.path = <<a, "preferences">>
      PROVE  Resource(request) = "preferences"
  <2>1. 2 \in DOMAIN <<a, "preferences">> /\ <<a, "preferences">>[2] = "preferences"
    OBVIOUS
  <2>2. "preferences" \in ToSet(<<a, "preferences">>)
    BY <2>1 DEF ToSet
  <2> QED BY <1>4, <2>2 DEF Resource
<1> QED BY <1>1, <1>2, <1>3, <1>4

LEMMA KeyPrefixes ==
    /\ \A a : IsPrefix(<<a>>, <<a>>)
    /\ \A a, b : IsPrefix(<<a>>, <<a, b>>) /\ IsPrefix(<<a, b>>, <<a, b>>)
<1>1. ASSUME NEW a PROVE IsPrefix(<<a>>, <<a>>)
    BY DEF IsPrefix
<1>2. ASSUME NEW a, NEW b PROVE IsPrefix(<<a>>, <<a, b>>) /\ IsPrefix(<<a, b>>, <<a, b>>)
  <2>1. <<a>> \in Seq({a, b}) /\ <<a, b>> \in Seq({a, b})
    OBVIOUS
  <2>2. SubSeq(<<a>>, 1, 1) = <<a>> /\ SubSeq(<<a, b>>, 1, 2) = <<a, b>>
    BY <2>1, SubSeqFull
  <2>3. /\ SubSeq(<<a, b>>, 1, 1) \in Seq({a, b})
        /\ Len(SubSeq(<<a, b>>, 1, 1)) = 1
        /\ SubSeq(<<a, b>>, 1, 1)[1] = a
    <3>1. \A i \in 1..1 : <<a, b>>[i] \in {a, b}
      OBVIOUS
    <3> QED BY <3>1, SubSeqProperties
  <2>4. SubSeq(<<a, b>>, 1, 1) = <<a>>
    <3>1. Len(<<a>>) = 1 /\ \A i \in 1..1 : SubSeq(<<a, b>>, 1, 1)[i] = <<a>>[i]
      BY <2>3
    <3> QED BY <2>1, <2>3, <3>1, SeqEqual
  <2> QED BY <2>2, <2>4 DEF IsPrefix
<1> QED BY <1>1, <1>2

LEMMA ListCovered == \A m : \A table \in Lists : CoversList(m, table) => Covers(m)
BY DEF Lists, Covers, CoversList

\* The hooks of the phone, file by file, and those of the web.
LEMMA MobileMutationsCover ==
    \A op \in DOMAIN Mobile!Mutations : Covers(Mobile!Mutations[op])
<1> USE DEF Mobile!All, Mobile!One, Mobile!Mutation, Mobile!Optimistic, Mobile!Post,
       Mobile!Put, Mobile!Delete, Mobile!Carrying, Mobile!Id
<1>1. \A op \in DOMAIN Mobile!AccountMutations : Covers(Mobile!AccountMutations[op])
  <2> USE DEF Id
  <2>1. \A r : r.path \in {<<"accounts">>, <<"accounts", Id>>,
                       <<"accounts", Id, "set-primary">>,
                       <<"accounts", Id, "recompute">>}
           => Resource(r) = "accounts"
    BY PathTables
  <2>2. \A op \in DOMAIN Mobile!AccountMutations :
           CoversList(Mobile!AccountMutations[op], "accounts")
    BY <2>1 DEF Mobile!AccountMutations, Mobile!AccountsApi, CoversList
  <2>3. "accounts" \in Lists
    BY DEF Lists
  <2> QED BY <2>2, <2>3, ListCovered
<1>2. \A op \in DOMAIN Mobile!GoalMutations : Covers(Mobile!GoalMutations[op])
  <2> USE DEF Id
  <2>1. \A r : r.path \in {<<"goals">>, <<"goals", Id>>, <<"goals", Id, "contribute">>}
           => Resource(r) = "goals"
    BY PathTables
  <2>2. \A op \in DOMAIN Mobile!GoalMutations :
           CoversList(Mobile!GoalMutations[op], "goals")
    BY <2>1 DEF Mobile!GoalMutations, Mobile!GoalsApi, CoversList
  <2>3. "goals" \in Lists
    BY DEF Lists
  <2> QED BY <2>2, <2>3, ListCovered
<1>3. \A op \in DOMAIN Mobile!BudgetMutations : Covers(Mobile!BudgetMutations[op])
  <2> USE DEF Id
  <2>1. \A r : r.path \in {<<"budgets">>, <<"budgets", Id>>}
           => Resource(r) = "budgets"
    BY PathTables
  <2>2. \A op \in DOMAIN Mobile!BudgetMutations :
           CoversList(Mobile!BudgetMutations[op], "budgets")
    BY <2>1 DEF Mobile!BudgetMutations, Mobile!BudgetsApi, CoversList
  <2>3. "budgets" \in Lists
    BY DEF Lists
  <2> QED BY <2>2, <2>3, ListCovered
<1>4. \A op \in DOMAIN Mobile!SubscriptionMutations : Covers(Mobile!SubscriptionMutations[op])
  <2> USE DEF Id
  <2>1. \A r : r.path \in {<<"subscriptions", "detect">>,
                       <<"subscriptions", Id, "cancel">>,
                       <<"subscriptions", Id, "pause">>,
                       <<"subscriptions", Id, "resume">>}
           => Resource(r) = "subscriptions"
    BY PathTables
  <2>2. \A op \in DOMAIN Mobile!SubscriptionMutations :
           CoversList(Mobile!SubscriptionMutations[op], "subscriptions")
    BY <2>1 DEF Mobile!SubscriptionMutations, Mobile!SubscriptionsApi, CoversList
  <2>3. "subscriptions" \in Lists
    BY DEF Lists
  <2> QED BY <2>2, <2>3, ListCovered
<1>5. \A op \in DOMAIN Mobile!TransactionMutations : Covers(Mobile!TransactionMutations[op])
  <2> USE DEF Id
  <2>1. \A r : r.path \in {<<"transactions">>, <<"transactions", Id>>}
           => Resource(r) = "transactions"
    BY PathTables
  <2>2. \A op \in DOMAIN Mobile!TransactionMutations :
           CoversList(Mobile!TransactionMutations[op], "transactions")
    BY <2>1 DEF Mobile!TransactionMutations, Mobile!TransactionsApi, CoversList
  <2>3. "transactions" \in Lists
    BY DEF Lists
  <2> QED BY <2>2, <2>3, ListCovered
<1>6. \A op \in DOMAIN Mobile!NotificationMutations : Covers(Mobile!NotificationMutations[op])
    BY PathTables DEF Mobile!NotificationMutations, Mobile!NotificationsApi, Covers,
       Created, Lists, PreferenceKey
<1>7. \A op \in DOMAIN Mobile!ActionCardMutations : Covers(Mobile!ActionCardMutations[op])
    BY PathTables DEF Mobile!ActionCardMutations, Mobile!ActionCardsApi, Mobile!AiApi,
       Covers, Created, Lists, PreferenceKey
<1>8. \A op \in DOMAIN Mobile!AiMutations : Covers(Mobile!AiMutations[op])
    BY PathTables DEF Mobile!AiMutations, Mobile!AiApi, Covers, Created, Lists,
       PreferenceKey
<1>9. \A op \in DOMAIN Mobile!WeeklySummaryMutations : Covers(Mobile!WeeklySummaryMutations[op])
    BY PathTables DEF Mobile!WeeklySummaryMutations, Mobile!WeeklySummaryApi, Covers,
       Created, Lists, PreferenceKey
<1>10. \A op \in DOMAIN Mobile!DirectCalls : Covers(Mobile!DirectCalls[op])
    BY PathTables DEF Mobile!DirectCalls, Mobile!AuthApi, Mobile!SmsApi, Covers,
       Created, Lists, PreferenceKey
<1> HIDE DEF Mobile!All, Mobile!One, Mobile!Mutation, Mobile!Optimistic, Mobile!Post,
       Mobile!Put, Mobile!Delete, Mobile!Carrying, Mobile!Id
<1> QED BY <1>1, <1>2, <1>3, <1>4, <1>5, <1>6, <1>7, <1>8, <1>9, <1>10
        DEF Mobile!Mutations, Mobile!Joined

LEMMA MobileQueriesFound ==
    \A hook \in DOMAIN Mobile!Queries : FoundUnder(Mobile!Queries[hook])
<1> USE DEF Mobile!List, Mobile!One, Mobile!Query, Mobile!Get, Mobile!Post, Mobile!Id,
       FoundUnder, Lists, PreferenceKey
<1>1. \A hook \in DOMAIN Mobile!AccountQueries : FoundUnder(Mobile!AccountQueries[hook])
    BY PathTables, KeyPrefixes DEF Mobile!AccountQueries, Mobile!AccountsApi
<1>2. \A hook \in DOMAIN Mobile!GoalQueries : FoundUnder(Mobile!GoalQueries[hook])
    BY PathTables, KeyPrefixes DEF Mobile!GoalQueries, Mobile!GoalsApi
<1>3. \A hook \in DOMAIN Mobile!BudgetQueries : FoundUnder(Mobile!BudgetQueries[hook])
    BY PathTables, KeyPrefixes DEF Mobile!BudgetQueries, Mobile!BudgetsApi
<1>4. \A hook \in DOMAIN Mobile!SubscriptionQueries : FoundUnder(Mobile!SubscriptionQueries[hook])
    BY PathTables, KeyPrefixes DEF Mobile!SubscriptionQueries, Mobile!SubscriptionsApi
<1>5. \A hook \in DOMAIN Mobile!TransactionQueries : FoundUnder(Mobile!TransactionQueries[hook])
    BY PathTables, KeyPrefixes DEF Mobile!TransactionQueries, Mobile!TransactionsApi
<1>6. \A hook \in DOMAIN Mobile!NotificationQueries : FoundUnder(Mobile!NotificationQueries[hook])
    BY PathTables, KeyPrefixes DEF Mobile!NotificationQueries, Mobile!NotificationsApi
<1>7. \A hook \in DOMAIN Mobile!ActionCardQueries : FoundUnder(Mobile!ActionCardQueries[hook])
    BY PathTables, KeyPrefixes DEF Mobile!ActionCardQueries, Mobile!ActionCardsApi
<1>8. \A hook \in DOMAIN Mobile!AiQueries : FoundUnder(Mobile!AiQueries[hook])
    BY PathTables, KeyPrefixes DEF Mobile!AiQueries, Mobile!AiApi
<1>9. \A hook \in DOMAIN Mobile!InsightQueries : FoundUnder(Mobile!InsightQueries[hook])
    BY PathTables, KeyPrefixes DEF Mobile!InsightQueries, Mobile!InsightsApi
<1>10. \A hook \in DOMAIN Mobile!WeeklySummaryQueries : FoundUnder(Mobile!WeeklySummaryQueries[hook])
    BY PathTables, KeyPrefixes DEF Mobile!WeeklySummaryQueries, Mobile!WeeklySummaryApi
<1>11. \A hook \in DOMAIN Mobile!DashboardQueries : FoundUnder(Mobile!DashboardQueries[hook])
    BY PathTables, KeyPrefixes DEF Mobile!DashboardQueries, Mobile!DashboardApi
<1> HIDE DEF Mobile!List, Mobile!One, Mobile!Query, Mobile!Get, Mobile!Post, Mobile!Id,
       FoundUnder, Lists, PreferenceKey
<1> QED BY <1>1, <1>2, <1>3, <1>4, <1>5, <1>6, <1>7, <1>8, <1>9, <1>10, <1>11
        DEF Mobile!Queries, Mobile!Joined

LEMMA WebMutationsCover == \A op \in DOMAIN Web!Mutations : Covers(Web!Mutations[op])
<1> USE DEF Web!Mutation, Web!Optimistic, Web!Post, Web!Put, Web!Delete, Web!Carrying,
       Web!Id
<1>1. \A op \in DOMAIN Web!AccountMutations : Covers(Web!AccountMutations[op])
  <2> USE DEF Id
  <2>1. \A r : r.path \in {<<"accounts">>, <<"accounts", Id>>,
                       <<"accounts", Id, "primary">>, <<"accounts", Id, "sync">>}
           => Resource(r) = "accounts"
    BY PathTables
  <2>2. \A op \in DOMAIN Web!AccountMutations :
           CoversList(Web!AccountMutations[op], "accounts")
    BY <2>1 DEF Web!AccountMutations, Web!AccountsApi, Web!AccountsScope, CoversList
  <2>3. "accounts" \in Lists
    BY DEF Lists
  <2> QED BY <2>2, <2>3, ListCovered
<1>2. \A op \in DOMAIN Web!GoalMutations : Covers(Web!GoalMutations[op])
  <2> USE DEF Id
  <2>1. \A r : r.path \in {<<"goals">>, <<"goals", Id>>, <<"goals", Id, "contribute">>}
           => Resource(r) = "goals"
    BY PathTables
  <2>2. \A op \in DOMAIN Web!GoalMutations :
           CoversList(Web!GoalMutations[op], "goals")
    BY <2>1 DEF Web!GoalMutations, Web!GoalsApi, Web!GoalsScope, CoversList
  <2>3. "goals" \in Lists
    BY DEF Lists
  <2> QED BY <2>2, <2>3, ListCovered
<1>3. \A op \in DOMAIN Web!BudgetMutations : Covers(Web!BudgetMutations[op])
  <2> USE DEF Id
  <2>1. \A r : r.path \in {<<"budgets">>, <<"budgets", Id>>}
           => Resource(r) = "budgets"
    BY PathTables
  <2>2. \A op \in DOMAIN Web!BudgetMutations :
           CoversList(Web!BudgetMutations[op], "budgets")
    BY <2>1 DEF Web!BudgetMutations, Web!BudgetsApi, Web!BudgetScope, CoversList
  <2>3. "budgets" \in Lists
    BY DEF Lists
  <2> QED BY <2>2, <2>3, ListCovered
<1>4. \A op \in DOMAIN Web!SubscriptionMutations : Covers(Web!SubscriptionMutations[op])
  <2> USE DEF Id
  <2>1. \A r : r.path \in {<<"subscriptions", "detect">>,
                       <<"subscriptions", Id, "cancel">>,
                       <<"subscriptions", Id, "pause">>,
                       <<"subscriptions", Id, "resume">>}
           => Resource(r) = "subscriptions"
    BY PathTables
  <2>2. \A op \in DOMAIN Web!SubscriptionMutations :
           CoversList(Web!SubscriptionMutations[op], "subscriptions")
    BY <2>1 DEF Web!SubscriptionMutations, Web!SubscriptionsApi, Web!SubsScope,
       CoversList
  <2>3. "subscriptions" \in Lists
    BY DEF Lists
  <2> QED BY <2>2, <2>3, ListCovered
<1>5. \A op \in DOMAIN Web!TransactionMutations : Covers(Web!TransactionMutations[op])
  <2> USE DEF Id
  <2>1. \A r : r.path \in {<<"transactions">>, <<"transactions", Id>>}
           => Resource(r) = "transactions"
    BY PathTables
  <2>2. \A op \in DOMAIN Web!TransactionMutations :
           CoversList(Web!TransactionMutations[op], "transactions")
    BY <2>1 DEF Web!TransactionMutations, Web!TransactionsApi, Web!TxScope, CoversList
  <2>3. "transactions" \in Lists
    BY DEF Lists
  <2> QED BY <2>2, <2>3, ListCovered
<1>6. \A op \in DOMAIN Web!NotificationMutations : Covers(Web!NotificationMutations[op])
    BY PathTables DEF Web!NotificationMutations, Web!NotificationsApi, Covers, Created,
       Lists, PreferenceKey
<1>7. \A op \in DOMAIN Web!WeeklySummaryMutations : Covers(Web!WeeklySummaryMutations[op])
    BY PathTables DEF Web!WeeklySummaryMutations, Web!WeeklySummaryApi, Covers,
       Created, Lists, PreferenceKey
<1>8. \A op \in DOMAIN Web!UserMutations : Covers(Web!UserMutations[op])
    BY PathTables DEF Web!UserMutations, Web!UsersApi, Web!PushApi, Covers, Created,
       Lists, PreferenceKey
<1>9. \A op \in DOMAIN Web!AiMutations : Covers(Web!AiMutations[op])
    BY PathTables DEF Web!AiMutations, Web!AiApi, Covers, Created, Lists, PreferenceKey
<1>10. \A op \in DOMAIN Web!SessionCalls : Covers(Web!SessionCalls[op])
    BY PathTables DEF Web!SessionCalls, Web!AuthApi, Covers, Created, Lists,
       PreferenceKey
<1> HIDE DEF Web!Mutation, Web!Optimistic, Web!Post, Web!Put, Web!Delete, Web!Carrying,
       Web!Id
<1> QED BY <1>1, <1>2, <1>3, <1>4, <1>5, <1>6, <1>7, <1>8, <1>9, <1>10
        DEF Web!Mutations, Web!Joined

LEMMA WebQueriesFound == \A hook \in DOMAIN Web!Queries : FoundUnder(Web!Queries[hook])
<1> USE DEF Web!Query, Web!Get, Web!Post, Web!Id, FoundUnder, Lists, PreferenceKey
<1>1. \A hook \in DOMAIN Web!AccountQueries : FoundUnder(Web!AccountQueries[hook])
    BY PathTables, KeyPrefixes DEF Web!AccountQueries, Web!AccountsApi
<1>2. \A hook \in DOMAIN Web!GoalQueries : FoundUnder(Web!GoalQueries[hook])
    BY PathTables, KeyPrefixes DEF Web!GoalQueries, Web!GoalsApi
<1>3. \A hook \in DOMAIN Web!BudgetQueries : FoundUnder(Web!BudgetQueries[hook])
    BY PathTables, KeyPrefixes DEF Web!BudgetQueries, Web!BudgetsApi
<1>4. \A hook \in DOMAIN Web!SubscriptionQueries : FoundUnder(Web!SubscriptionQueries[hook])
    BY PathTables, KeyPrefixes DEF Web!SubscriptionQueries, Web!SubscriptionsApi
<1>5. \A hook \in DOMAIN Web!TransactionQueries : FoundUnder(Web!TransactionQueries[hook])
    BY PathTables, KeyPrefixes DEF Web!TransactionQueries, Web!TransactionsApi
<1>6. \A hook \in DOMAIN Web!NotificationQueries : FoundUnder(Web!NotificationQueries[hook])
    BY PathTables, KeyPrefixes DEF Web!NotificationQueries, Web!NotificationsApi
<1>7. \A hook \in DOMAIN Web!DashboardQueries : FoundUnder(Web!DashboardQueries[hook])
    BY PathTables, KeyPrefixes, SMTT(30) DEF Web!DashboardQueries, Web!DashboardApi, Web!AiApi,
       Web!ActionCardsApi, Web!SubscriptionsApi
<1>8. \A hook \in DOMAIN Web!InsightQueries : FoundUnder(Web!InsightQueries[hook])
    BY PathTables, KeyPrefixes DEF Web!InsightQueries, Web!InsightsApi, Web!AiApi
<1>9. \A hook \in DOMAIN Web!WeeklySummaryQueries : FoundUnder(Web!WeeklySummaryQueries[hook])
    BY PathTables, KeyPrefixes DEF Web!WeeklySummaryQueries, Web!WeeklySummaryApi
<1> HIDE DEF Web!Query, Web!Get, Web!Post, Web!Id, FoundUnder, Lists, PreferenceKey
<1> QED BY <1>1, <1>2, <1>3, <1>4, <1>5, <1>6, <1>7, <1>8, <1>9
        DEF Web!Queries, Web!Joined

\* The queries a screen uses, or the first few of them, are its client's.
LEMMA SubHooks ==
    ASSUME NEW S, NEW s \in Seq(S), NEW k \in 0..Len(s)
    PROVE  SubSeq(s, 1, k) \in Seq(S)
BY SubSeqProperties, LenProperties, ElementOfSeq

LEMMA MobileUses ==
    \A screen \in DOMAIN Mobile!Uses : Mobile!Uses[screen] \in Seq(DOMAIN Mobile!Queries)
<1> DEFINE hooks == {"useAccounts", "useGoals", "useBudgets", "useSubscriptions",
        "useTransactions", "useTransaction", "useNotifications", "useUnreadCount",
        "useCurrentWeeklySummary", "useSpendingInsights", "useBehaviorAnalysis",
        "useMoneyLeaks", "useHealthScore", "useDashboard", "useActionCards",
        "useUpcomingSubscriptions", "useArchetype"}
<1>1. hooks \subseteq DOMAIN Mobile!Queries
    BY DEF Mobile!Queries, Mobile!Joined, Mobile!AccountQueries, Mobile!GoalQueries,
       Mobile!BudgetQueries, Mobile!SubscriptionQueries, Mobile!TransactionQueries,
       Mobile!NotificationQueries, Mobile!ActionCardQueries, Mobile!AiQueries,
       Mobile!InsightQueries, Mobile!WeeklySummaryQueries, Mobile!DashboardQueries
<1> DEFINE home == <<"useDashboard", "useHealthScore", "useMoneyLeaks", "useActionCards",
           "useGoals", "useUpcomingSubscriptions", "useArchetype", "useSubscriptions">>
<1>2. /\ <<>> \in Seq(hooks)
      /\ \A h \in hooks : <<h>> \in Seq(hooks)
      /\ \A g, h \in hooks : <<g, h>> \in Seq(hooks)
  <2> HIDE DEF hooks
  <2> QED OBVIOUS
<1>3. home \in Seq(hooks)
    OBVIOUS
<1>4. \A screen \in DOMAIN Mobile!Uses :
        LET s == Mobile!Uses[screen]
        IN  \/ s = <<s[1]>> /\ s[1] \in hooks
            \/ s = <<s[1], s[2]>> /\ {s[1], s[2]} \subseteq hooks
            \/ s \in {<<>>, home}
    BY DEF Mobile!Uses
<1>5. \A screen \in DOMAIN Mobile!Uses : Mobile!Uses[screen] \in Seq(hooks)
  <2> HIDE DEF hooks, home
  <2> QED BY <1>2, <1>3, <1>4
<1> QED BY <1>1, <1>5, SeqMonotonic

LEMMA WebUses ==
    \A screen \in DOMAIN Web!Uses : Web!Uses[screen] \in Seq(DOMAIN Web!Queries)
<1> DEFINE hooks == {"useAccounts", "useGoals", "useBudgets", "useSubscriptions",
        "useTransactions", "useTransaction", "useNotifications", "useUnreadCount",
        "useCurrentWeeklySummary", "useWeeklySummaryHistory", "useSpendingInsights",
        "useBehaviorAnalysis", "useMoneyLeaks", "useHealthScore", "useDashboard",
        "useActionCards", "useUpcomingSubscriptions", "useActiveSubscriptions",
        "useArchetype", "useNotificationPreferences"}
<1>1. hooks \subseteq DOMAIN Web!Queries
    BY DEF Web!Queries, Web!Joined, Web!AccountQueries, Web!GoalQueries,
       Web!BudgetQueries, Web!SubscriptionQueries, Web!TransactionQueries,
       Web!NotificationQueries, Web!DashboardQueries, Web!InsightQueries,
       Web!WeeklySummaryQueries
<1> DEFINE home == <<"useDashboard", "useHealthScore", "useGoals", "useArchetype",
           "useMoneyLeaks", "useActionCards", "useUpcomingSubscriptions",
           "useActiveSubscriptions">>
<1>2. /\ <<>> \in Seq(hooks)
      /\ \A h \in hooks : <<h>> \in Seq(hooks)
      /\ \A g, h \in hooks : <<g, h>> \in Seq(hooks)
  <2> HIDE DEF hooks
  <2> QED OBVIOUS
<1>3. home \in Seq(hooks)
    OBVIOUS
<1>4. \A screen \in DOMAIN Web!Uses :
        LET s == Web!Uses[screen]
        IN  \/ s = <<s[1]>> /\ s[1] \in hooks
            \/ s = <<s[1], s[2]>> /\ {s[1], s[2]} \subseteq hooks
            \/ s \in {<<>>, home}
    BY DEF Web!Uses
<1>5. \A screen \in DOMAIN Web!Uses : Web!Uses[screen] \in Seq(hooks)
  <2> HIDE DEF hooks, home
  <2> QED BY <1>2, <1>3, <1>4
<1> QED BY <1>1, <1>5, SeqMonotonic

LEMMA HooksKnown ==
    ASSUME at \in Screens
    PROVE  Uses(at) \in Seq(DOMAIN Queries)
<1> DEFINE uses == IF at[1] = "web" THEN Web!Uses ELSE Mobile!Uses
<1>1. uses[at[2]] \in Seq(DOMAIN Queries)
  <2>1. CASE at[1] = "web"
    <3>1. at[2] \in DOMAIN Web!Uses /\ Queries = Web!Queries
      BY <2>1 DEF Screens, Queries, AllQueries
    <3> QED BY <2>1, <3>1, WebUses
  <2>2. CASE at[1] # "web"
    <3>1. at[2] \in DOMAIN Mobile!Uses /\ at[1] = "mobile"
      BY <2>2 DEF Screens
    <3>2. Queries = Mobile!Queries
      BY <3>1 DEF Queries, AllQueries
    <3> QED BY <2>2, <3>1, <3>2, MobileUses
  <2> QED BY <2>1, <2>2
<1>2. Len(uses[at[2]]) \in Nat
    BY <1>1, LenProperties
<1> DEFINE k == Min({MaxQueries, Len(uses[at[2]])})
<1> HIDE DEF uses
<1>3. k \in 0..Len(uses[at[2]])
  <2> DEFINE T == {MaxQueries, Len(uses[at[2]])}
  <2>1. \E x \in T : \A y \in T : x <= y
    BY <1>2, ClientAssumption
  <2>2. k \in T /\ \A y \in T : k <= y
    BY <2>1 DEF Min
  <2> QED BY <1>2, <2>2, ClientAssumption
<1>4. Uses(at) = SubSeq(uses[at[2]], 1, k)
    BY DEF Uses, uses
<1> QED BY <1>1, <1>3, <1>4, SubHooks

\* So the tables of hooks fit, whichever client the screen is of.
LEMMA Coverage ==
    ASSUME at \in Screens
    PROVE  /\ \A op \in DOMAIN Mutations : Covers(Mutations[op])
           /\ \A h \in DOMAIN Queries : FoundUnder(Queries[h])
<1>1. CASE at[1] = "web"
  <2>1. Queries = Web!Queries /\ Mutations = Web!Mutations
    BY <1>1 DEF Queries, AllQueries, Mutations, AllMutations
  <2> QED BY <2>1, WebMutationsCover, WebQueriesFound
<1>2. CASE at[1] = "mobile"
  <2>1. Queries = Mobile!Queries /\ Mutations = Mobile!Mutations
    BY <1>2 DEF Queries, AllQueries, Mutations, AllMutations
  <2> QED BY <2>1, MobileMutationsCover, MobileQueriesFound
<1> QED BY <1>1, <1>2 DEF Screens

\* What reaches the main query's table drops whatever is read from it.
LEMMA WritesDrop ==
    ASSUME at \in Screens, NEW op \in DOMAIN Mutations, NEW h \in DOMAIN Queries,
           Resource(Mutations[op].request) = Resource(Queries[h].request),
           \/ Resource(Mutations[op].request) \in Lists \cup {"preferences"}
           \/ Created(Mutations[op].request)
           \/ Mutations[op].request.verb = "DELETE"
    PROVE  \E d \in Mutations[op].drops : IsPrefix(d, Queries[h].key)
BY Coverage DEF Covers, FoundUnder

-----------------------------------------------------------------------------
(* Drafts *)

\* Lemmas about sequences: an element removed, and a sequence of its elements.
LEMMA RemovedAt ==
    ASSUME NEW S, NEW s \in Seq(S), NEW n \in 1..Len(s)
    PROVE  /\ RemoveAt(s, n) \in Seq(S)
           /\ Len(RemoveAt(s, n)) = Len(s) - 1
           /\ \A m \in 1..Len(s) - 1 :
                 RemoveAt(s, n)[m] = s[IF m < n THEN m ELSE m + 1]
<1> DEFINE a == SubSeq(s, 1, n - 1)
           b == SubSeq(s, n + 1, Len(s))
<1>1. Len(s) \in Nat /\ n \in Nat /\ n >= 1 /\ n <= Len(s)
    BY LenProperties
<1>2. a \in Seq(S) /\ Len(a) = n - 1 /\ \A m \in 1..n - 1 : a[m] = s[m]
    BY <1>1, SubSeqProperties
<1>3. b \in Seq(S) /\ Len(b) = Len(s) - n /\ \A m \in 1..Len(s) - n : b[m] = s[n + m]
    BY <1>1, SubSeqProperties
<1> HIDE DEF a, b
<1>4. /\ a \o b \in Seq(S)
      /\ Len(a \o b) = Len(a) + Len(b)
      /\ \A m \in 1..Len(a) + Len(b) :
            (a \o b)[m] = IF m <= Len(a) THEN a[m] ELSE b[m - Len(a)]
    BY <1>2, <1>3, ConcatProperties
<1>5. RemoveAt(s, n) = a \o b
    BY DEF RemoveAt, a, b
<1>6. ASSUME NEW m \in 1..Len(s) - 1
      PROVE  (a \o b)[m] = s[IF m < n THEN m ELSE m + 1]
  <2>1. CASE m < n
    BY <1>1, <1>2, <1>3, <1>4, <2>1
  <2>2. CASE ~(m < n)
    <3>1. (a \o b)[m] = b[m - (n - 1)]
      BY <1>1, <1>2, <1>3, <1>4, <2>2
    <3>2. m - (n - 1) \in 1..Len(s) - n /\ n + (m - (n - 1)) = m + 1
      BY <1>1, <2>2
    <3>3. b[m - (n - 1)] = s[n + (m - (n - 1))]
      BY <1>3, <3>2
    <3> QED BY <2>2, <3>1, <3>2, <3>3
  <2> QED BY <2>1, <2>2
<1>7. Len(a) + Len(b) = Len(s) - 1
    BY <1>1, <1>2, <1>3
<1> QED BY <1>4, <1>5, <1>6, <1>7

LEMMA SelfSeq ==
    ASSUME NEW S, NEW s \in Seq(S)
    PROVE  s \in Seq(ToSet(s)) /\ DOMAIN s = 1..Len(s) /\ Len(s) \in Nat
BY IsASeq, LenProperties DEF ToSet

\* A call is a record; only whether it was served and is observed may change.
CallsLike(op, on, fields, then, prev) ==
    [op : {op}, on : {on}, fields : {fields}, draft : Nat, then : {then}, prev : {prev},
     served : BOOLEAN, observed : BOOLEAN]
IsCall(c) == c \in CallsLike(c.op, c.on, c.fields, c.then, c.prev)

LEMMA FcnSeq ==
    ASSUME NEW k \in Nat, NEW f, DOMAIN f = 1..k, f = [i \in 1..k |-> f[i]]
    PROVE  f \in Seq(ToSet(f)) /\ Len(f) = k
<1>1. f \in [1..k -> ToSet(f)]
    BY DEF ToSet
<1>2. f \in Seq(ToSet(f))
    BY <1>1
<1> QED BY <1>2, LenProperties

\* Marking a call changes nothing else of it.
LEMMA MarkedIsCall ==
    ASSUME NEW c, IsCall(c)
    PROVE  IsCall([c EXCEPT !.served = TRUE]) /\ IsCall([c EXCEPT !.observed = FALSE])
<1>1. PICK op, on, fields, then, prev : c \in CallsLike(op, on, fields, then, prev)
    BY DEF IsCall
<1>2. \A d \in CallsLike(op, on, fields, then, prev) : IsCall(d)
    BY DEF CallsLike, IsCall
<1>3. [c EXCEPT !.served = TRUE] \in CallsLike(op, on, fields, then, prev)
    BY <1>1 DEF CallsLike
<1>4. [c EXCEPT !.observed = FALSE] \in CallsLike(op, on, fields, then, prev)
    BY <1>1 DEF CallsLike
<1> QED BY <1>2, <1>3, <1>4

LEMMA MarkedServed ==
    ASSUME NEW c, IsCall(c)
    PROVE  LET d == [c EXCEPT !.served = TRUE]
           IN  /\ d.op = c.op /\ d.draft = c.draft /\ d.prev = c.prev
               /\ d.observed = c.observed /\ d.served
<1> DEFINE d == [c EXCEPT !.served = TRUE]
<1>1. PICK op, on, fields, then, prev : c \in CallsLike(op, on, fields, then, prev)
    BY DEF IsCall
<1>2. d.op = c.op /\ d.draft = c.draft /\ d.prev = c.prev
    BY <1>1 DEF CallsLike
<1>3. d.observed = c.observed
    BY <1>1 DEF CallsLike
<1>4. d.served
    BY <1>1 DEF CallsLike
<1> HIDE DEF d
<1>5. d.op = c.op /\ d.draft = c.draft /\ d.prev = c.prev /\ d.observed = c.observed /\ d.served
    BY <1>2, <1>3, <1>4
<1> QED BY <1>5 DEF d

LEMMA MarkedUnobserved ==
    ASSUME NEW c, IsCall(c)
    PROVE  LET d == [c EXCEPT !.observed = FALSE]
           IN  d.op = c.op /\ d.draft = c.draft /\ d.prev = c.prev /\ d.served = c.served
<1>1. PICK op, on, fields, then, prev : c \in CallsLike(op, on, fields, then, prev)
    BY DEF IsCall
<1> QED BY <1>1 DEF CallsLike

\* No draft is typed into two forms or sent by two calls; a call that carries
\* what a form still holds is the one its screen's button waits for.
DraftInv ==
    /\ at \in Screens
    /\ ui \in Ui
    /\ drafts \in Nat
    /\ \A f \in Forms : ui.full[f] <= drafts
    /\ \A f, g \in Forms : f # g /\ ui.full[f] # 0 => ui.full[f] # ui.full[g]
    /\ calls \in Seq(ToSet(calls))
    /\ \A n \in DOMAIN calls :
          /\ IsCall(calls[n])
          /\ calls[n].op # None
          /\ calls[n].draft \in 0..drafts
    /\ \A n \in DOMAIN calls, f \in Forms :
          calls[n].draft # 0 /\ calls[n].draft = ui.full[f]
             => calls[n].op = Keeps(Screen) /\ calls[n].observed
    /\ OneCallPerDraft

\* A screen opens with its forms empty and nothing in flight.
LEMMA InitDrafts == ClientInit => DraftInv
<1> SUFFICES ASSUME ClientInit PROVE DraftInv
    OBVIOUS
<1>1. ui \in Ui /\ \A f \in Forms : ui.full[f] = 0
    BY DEF ClientInit, Mobile!Start, Web!Start, Mobile!Starts, Mobile!Shows,
       Web!Starts, Web!Shows, Ui, Sheets, Forms, Mobile!None, None,
       Web!None, Mobile!Forms, Web!Forms
<1>2. calls = <<>> /\ drafts = 0 /\ at \in Screens
    BY DEF ClientInit
<1> QED BY <1>1, <1>2, SelfSeq DEF DraftInv, OneCallPerDraft

\* So the presses of the screen that is open fit it.
LEMMA PressesFit ==
    ASSUME ui \in Ui, at \in Screens, NEW p \in Presses
    PROVE  Fits(p, ui, Keeps(Screen), View.busy, DOMAIN Mutations \cup NoCalls)
<1>1. CASE OnWeb
  <2>1. Screen \in DOMAIN Web!Uses /\ Mutations = Web!Mutations
    BY <1>1 DEF Screens, OnWeb, Screen, Mutations, AllMutations
  <2> QED BY <1>1, <2>1, WebPressesFit DEF Presses, WebOps
<1>2. CASE ~OnWeb
  <2>1. Screen \in DOMAIN Mobile!Uses /\ at[1] = "mobile"
    BY <1>2 DEF Screens, OnWeb, Screen
  <2>2. Mutations = Mobile!Mutations
    BY <2>1 DEF Mutations, AllMutations
  <2> QED BY <1>2, <2>1, <2>2, MobilePressesFit DEF Presses, MobileOps
<1> QED BY <1>1, <1>2

\* An answer closes sheets and empties no form.
LEMMA AfterKeepsDrafts ==
    ASSUME ui \in Ui, NEW c
    PROVE  After(c) \in Ui /\ After(c).full = ui.full
<1>1. Closed(ui) \in Ui /\ Closed(ui).full = ui.full
    BY ClosedPlain
<1>2. [ui EXCEPT !.sheet = Leave] \in Ui /\ [ui EXCEPT !.sheet = Leave].full = ui.full
    BY DEF Ui, Sheets
<1> QED BY <1>1, <1>2 DEF After

\* The step lemmas.  First, the calls of the new state are calls of the old
\* one, no two of them the same, and the forms held at least as much.
LEMMA CallsSurvive ==
    ASSUME DraftInv, UNCHANGED <<at, drafts>>, ui' \in Ui,
           \A f \in Forms : ui'.full[f] \in {ui.full[f], 0},
           calls' \in Seq(ToSet(calls')),
           NEW was \in [DOMAIN calls' -> DOMAIN calls],
           \A m, n \in DOMAIN calls' : was[m] = was[n] => m = n,
           \A n \in DOMAIN calls' :
              /\ IsCall(calls'[n])
              /\ calls'[n].op = calls[was[n]].op
              /\ calls'[n].draft = calls[was[n]].draft
              /\ calls'[n].observed = calls[was[n]].observed
    PROVE  DraftInv'
<1>1. \A f \in Forms : ui.full[f] \in Nat
    BY DEF DraftInv, Ui
<1>2. \A f \in Forms : ui'.full[f] <= drafts
    BY <1>1 DEF DraftInv
<1>3. \A f, g \in Forms : f # g /\ ui'.full[f] # 0 => ui'.full[f] # ui'.full[g]
  <2> TAKE f, g \in Forms
  <2>1. f # g /\ ui.full[f] # 0 => ui.full[f] # ui.full[g]
    BY DEF DraftInv
  <2>2. ui'.full[f] \in {ui.full[f], 0} /\ ui'.full[g] \in {ui.full[g], 0}
    OBVIOUS
  <2> QED BY <2>1, <2>2
<1>4. \A n \in DOMAIN calls' :
          /\ IsCall(calls'[n])
          /\ calls'[n].op # None
          /\ calls'[n].draft \in 0..drafts
  <2> TAKE n \in DOMAIN calls'
  <2>1. was[n] \in DOMAIN calls
    OBVIOUS
  <2>2. calls[was[n]].op # None /\ calls[was[n]].draft \in 0..drafts
    BY <2>1 DEF DraftInv
  <2> QED BY <2>2
<1>5. \A n \in DOMAIN calls', f \in Forms :
          calls'[n].draft # 0 /\ calls'[n].draft = ui'.full[f]
             => calls'[n].op = Keeps(Screen) /\ calls'[n].observed
  <2> TAKE n \in DOMAIN calls', f \in Forms
  <2>1. was[n] \in DOMAIN calls
    OBVIOUS
  <2>2. ui'.full[f] # 0 => ui'.full[f] = ui.full[f]
    OBVIOUS
  <2> QED BY <2>1, <2>2 DEF DraftInv
<1>6. OneCallPerDraft'
    BY DEF DraftInv, OneCallPerDraft
<1>7. Screen' = Screen
    BY DEF Screen
<1>8. at' \in Screens /\ drafts' \in Nat
    BY DEF DraftInv
<1> QED BY <1>2, <1>3, <1>4, <1>5, <1>6, <1>7, <1>8 DEF DraftInv

\* Its cases: a call ends, none changes, or one is marked served.
LEMMA CallEnds ==
    ASSUME DraftInv, UNCHANGED <<at, drafts>>, ui' \in Ui, ui'.full = ui.full,
           NEW n \in DOMAIN calls, calls' = RemoveAt(calls, n)
    PROVE  DraftInv'
<1>1. calls \in Seq(ToSet(calls)) /\ DOMAIN calls = 1..Len(calls) /\ Len(calls) \in Nat
    BY SelfSeq DEF DraftInv
<1>2. /\ calls' \in Seq(ToSet(calls))
      /\ Len(calls') = Len(calls) - 1
      /\ \A m \in 1..Len(calls) - 1 : calls'[m] = calls[IF m < n THEN m ELSE m + 1]
    BY <1>1, RemovedAt
<1>3. calls' \in Seq(ToSet(calls')) /\ DOMAIN calls' = 1..Len(calls) - 1
    BY <1>2, SelfSeq
<1> DEFINE was == [m \in DOMAIN calls' |-> IF m < n THEN m ELSE m + 1]
<1>4. was \in [DOMAIN calls' -> DOMAIN calls]
    BY <1>1, <1>3
<1>5. \A m, k \in DOMAIN calls' : was[m] = was[k] => m = k
    BY <1>1, <1>3
<1>6. \A m \in DOMAIN calls' : calls'[m] = calls[was[m]]
    BY <1>2, <1>3
<1> HIDE DEF was
<1>7. \A m \in DOMAIN calls' : IsCall(calls'[m])
    BY <1>4, <1>6 DEF DraftInv
<1> QED BY <1>3, <1>4, <1>5, <1>6, <1>7, CallsSurvive

LEMMA CallsSame ==
    ASSUME DraftInv, UNCHANGED <<at, drafts, calls>>, ui' \in Ui,
           \A f \in Forms : ui'.full[f] \in {ui.full[f], 0}
    PROVE  DraftInv'
<1> DEFINE was == [m \in DOMAIN calls' |-> m]
<1>4. was \in [DOMAIN calls' -> DOMAIN calls]
    OBVIOUS
<1>5. \A m, k \in DOMAIN calls' : was[m] = was[k] => m = k
    OBVIOUS
<1>6. \A m \in DOMAIN calls' : calls'[m] = calls[was[m]] /\ IsCall(calls'[m])
    BY DEF DraftInv
<1>7. calls' \in Seq(ToSet(calls'))
    BY DEF DraftInv
<1> HIDE DEF was
<1> QED BY <1>4, <1>5, <1>6, <1>7, CallsSurvive

LEMMA CallServed ==
    ASSUME DraftInv, UNCHANGED <<at, drafts, ui>>, NEW n \in DOMAIN calls,
           calls' = [calls EXCEPT ![n].served = TRUE]
    PROVE  DraftInv'
<1> DEFINE was == [m \in DOMAIN calls' |-> m]
<1>1. calls \in Seq(ToSet(calls)) /\ DOMAIN calls = 1..Len(calls) /\ Len(calls) \in Nat
    BY SelfSeq DEF DraftInv
<1>2. ASSUME NEW m \in DOMAIN calls
      PROVE  /\ IsCall(calls'[m])
             /\ calls'[m].op = calls[m].op
             /\ calls'[m].draft = calls[m].draft
             /\ calls'[m].observed = calls[m].observed
  <2>1. IsCall(calls[m])
    BY DEF DraftInv
  <2>2. calls'[m] = IF m = n THEN [calls[m] EXCEPT !.served = TRUE] ELSE calls[m]
    OBVIOUS
  <2>3. CASE m = n
    <3> DEFINE d == [calls[m] EXCEPT !.served = TRUE]
    <3>1. calls'[m] = d
      BY <2>2, <2>3
    <3>2. IsCall(d)
      BY <2>1, MarkedIsCall
    <3>3. d.op = calls[m].op /\ d.draft = calls[m].draft /\ d.observed = calls[m].observed
      BY <2>1, MarkedServed
    <3> HIDE DEF d
    <3> QED BY <3>1, <3>2, <3>3
  <2>4. CASE m # n
    <3>1. calls'[m] = calls[m]
      BY <2>2, <2>4
    <3> QED BY <2>1, <3>1
  <2> QED BY <2>3, <2>4
<1>3. DOMAIN calls' = DOMAIN calls
    OBVIOUS
<1>4. was \in [DOMAIN calls' -> DOMAIN calls]
    BY <1>3
<1>5. \A m, k \in DOMAIN calls' : was[m] = was[k] => m = k
    OBVIOUS
<1>6. calls' \in Seq(ToSet(calls'))
    BY <1>1, <1>3, FcnSeq
<1>7. /\ ui' \in Ui
      /\ \A f \in Forms : ui'.full[f] \in {ui.full[f], 0}
    BY DEF DraftInv
<1>8. \A m \in DOMAIN calls' :
             /\ IsCall(calls'[m])
             /\ calls'[m].op = calls[was[m]].op
             /\ calls'[m].draft = calls[was[m]].draft
             /\ calls'[m].observed = calls[was[m]].observed
    BY <1>2, <1>3
<1> HIDE DEF was
<1> QED BY <1>4, <1>5, <1>6, <1>7, <1>8, CallsSurvive

\* What is typed is a draft no call carries yet.
LEMMA TypeKeeps ==
    ASSUME DraftInv, NEW form \in Forms, Type(form) PROVE DraftInv'
<1>1. drafts' = drafts + 1 /\ ui' = [ui EXCEPT !.full[form] = drafts + 1]
      /\ UNCHANGED <<at, calls>>
    BY DEF Type
<1>2. /\ ui \in Ui /\ drafts \in Nat
      /\ \A f \in Forms : ui.full[f] \in Nat /\ ui.full[f] <= drafts
    BY DEF DraftInv, Ui
<1>3. ui' \in Ui /\ ui'.full = [ui.full EXCEPT ![form] = drafts + 1]
    BY <1>1, <1>2 DEF Ui
<1>4. \A f \in Forms : ui'.full[f] = IF f = form THEN drafts + 1 ELSE ui.full[f]
    BY <1>2, <1>3 DEF Ui
<1>5. \A f \in Forms : ui'.full[f] <= drafts'
    BY <1>1, <1>2, <1>4
<1>6. \A f, g \in Forms : f # g /\ ui'.full[f] # 0 => ui'.full[f] # ui'.full[g]
  <2> TAKE f, g \in Forms
  <2>1. f # g /\ ui.full[f] # 0 => ui.full[f] # ui.full[g]
    BY DEF DraftInv
  <2>2. ui.full[f] # drafts + 1 /\ ui.full[g] # drafts + 1
    BY <1>2
  <2> QED BY <1>4, <2>1, <2>2
<1>7. \A n \in DOMAIN calls : calls[n].draft \in 0..drafts
    BY DEF DraftInv
<1>8. \A n \in DOMAIN calls, f \in Forms :
        calls[n].draft # 0 /\ calls[n].draft = ui'.full[f]
           => calls[n].op = Keeps(Screen) /\ calls[n].observed
  <2> TAKE n \in DOMAIN calls, f \in Forms
  <2>1. calls[n].draft # drafts + 1
    BY <1>2, <1>7
  <2>2. calls[n].draft # 0 /\ calls[n].draft = ui.full[f]
          => calls[n].op = Keeps(Screen) /\ calls[n].observed
    BY DEF DraftInv
  <2> QED BY <1>4, <2>1, <2>2
<1>9. Screen' = Screen /\ OneCallPerDraft' = OneCallPerDraft
    BY <1>1 DEF Screen, OneCallPerDraft
<1>10. /\ at' \in Screens /\ drafts' \in Nat /\ OneCallPerDraft'
       /\ calls' \in Seq(ToSet(calls'))
    BY <1>1, <1>2, <1>9 DEF DraftInv
<1>11. \A n \in DOMAIN calls' :
          /\ IsCall(calls'[n])
          /\ calls'[n].op # None
          /\ calls'[n].draft \in 0..drafts'
  <2> TAKE n \in DOMAIN calls'
  <2>1. n \in DOMAIN calls /\ calls'[n] = calls[n]
    BY <1>1
  <2>2. IsCall(calls[n]) /\ calls[n].op # None /\ calls[n].draft \in 0..drafts
    BY <2>1 DEF DraftInv
  <2> QED BY <1>1, <1>2, <2>1, <2>2
<1> QED BY <1>1, <1>3, <1>5, <1>6, <1>8, <1>9, <1>10, <1>11 DEF DraftInv

\* Sending adds a call and takes the observers of its mutation's earlier calls.
LEMMA ActsSend ==
    ASSUME DraftInv, NEW p, Acts(p), p.draft \in Nat
    PROVE  LET k == Len(calls)
           IN  /\ calls' \in Seq(ToSet(calls'))
               /\ k \in Nat /\ DOMAIN calls = 1..k /\ DOMAIN calls' = 1..k + 1
               /\ IsCall(calls'[k + 1])
               /\ calls'[k + 1].op = p.op
               /\ calls'[k + 1].draft = p.draft
               /\ calls'[k + 1].observed
               /\ calls'[k + 1].prev # <<>> =>
                     Hooks # {} /\ calls'[k + 1].prev = cache[MainHook].data
               /\ \A n \in DOMAIN calls :
                     /\ IsCall(calls'[n])
                     /\ calls'[n].op = calls[n].op
                     /\ calls'[n].draft = calls[n].draft
                     /\ calls'[n].prev = calls[n].prev
                     /\ calls'[n].served = calls[n].served
                     /\ calls'[n].op # p.op => calls'[n].observed = calls[n].observed
<1> DEFINE k == Len(calls)
           f == [n \in DOMAIN calls |->
                   IF calls[n].op = p.op THEN [calls[n] EXCEPT !.observed = FALSE]
                   ELSE calls[n]]
           drops == Mutations[p.op].drops
           hooks == IF Mutations[p.op].optimistic THEN Dropped(drops) ELSE {}
           before == IF hooks = {} THEN <<>> ELSE cache[MainHook].data
           c == [op |-> p.op, on |-> p.on, fields |-> p.fields,
                         draft |-> p.draft, then |-> p.then, prev |-> before,
                         served |-> FALSE, observed |-> TRUE]
<1>1. calls' = Append(f, c)
    BY DEF Acts, Send, Sending
<1>2. before # <<>> => Hooks # {} /\ before = cache[MainHook].data
    BY DEF Dropped
<1> HIDE DEF before
<1>3. IsCall(c) /\ c.op = p.op /\ c.draft = p.draft /\ c.observed /\ c.prev = before
    BY DEF IsCall, CallsLike
<1>4. k \in Nat /\ DOMAIN calls = 1..k
    BY SelfSeq DEF DraftInv
<1>5. f \in Seq(ToSet(f)) /\ Len(f) = k
    BY <1>4, FcnSeq
<1>6. ASSUME NEW n \in DOMAIN calls
      PROVE  /\ IsCall(f[n])
             /\ f[n].op = calls[n].op
             /\ f[n].draft = calls[n].draft
             /\ f[n].prev = calls[n].prev
             /\ f[n].served = calls[n].served
             /\ f[n].op # p.op => f[n].observed = calls[n].observed
  <2>1. IsCall(calls[n])
    BY DEF DraftInv
  <2>2. f[n] = IF calls[n].op = p.op THEN [calls[n] EXCEPT !.observed = FALSE] ELSE calls[n]
    OBVIOUS
  <2> HIDE DEF f
  <2>3. CASE calls[n].op = p.op
    <3> DEFINE d == [calls[n] EXCEPT !.observed = FALSE]
    <3>1. f[n] = d
      BY <2>2, <2>3
    <3>2. IsCall(d)
      BY <2>1, MarkedIsCall
    <3>3. /\ d.op = calls[n].op /\ d.draft = calls[n].draft
          /\ d.prev = calls[n].prev /\ d.served = calls[n].served
      BY <2>1, MarkedUnobserved
    <3> HIDE DEF d
    <3> QED BY <2>3, <3>1, <3>2, <3>3
  <2>4. CASE calls[n].op # p.op
    <3>1. f[n] = calls[n]
      BY <2>2, <2>4
    <3> QED BY <2>1, <3>1
  <2> QED BY <2>3, <2>4
<1> HIDE DEF f, c
<1>7. /\ calls' \in Seq(ToSet(f) \cup {c})
      /\ Len(calls') = k + 1
      /\ \A n \in 1..k : calls'[n] = f[n]
      /\ calls'[k + 1] = c
  <2>1. f \in Seq(ToSet(f) \cup {c})
    BY <1>5, SeqMonotonic
  <2> QED BY <1>1, <1>4, <1>5, <2>1, AppendProperties
<1>8. calls' \in Seq(ToSet(calls')) /\ DOMAIN calls' = 1..k + 1
    BY <1>7, SelfSeq
<1>9. /\ IsCall(calls'[k + 1]) /\ calls'[k + 1].op = p.op
      /\ calls'[k + 1].draft = p.draft /\ calls'[k + 1].observed
      /\ calls'[k + 1].prev # <<>> =>
            Hooks # {} /\ calls'[k + 1].prev = cache[MainHook].data
    BY <1>2, <1>3, <1>7
<1>10. ASSUME NEW n \in DOMAIN calls
       PROVE  /\ IsCall(calls'[n])
              /\ calls'[n].op = calls[n].op
              /\ calls'[n].draft = calls[n].draft
              /\ calls'[n].prev = calls[n].prev
              /\ calls'[n].served = calls[n].served
              /\ calls'[n].op # p.op => calls'[n].observed = calls[n].observed
  <2>1. calls'[n] = f[n]
    BY <1>4, <1>7
  <2> QED BY <1>6, <2>1
<1> QED BY <1>4, <1>8, <1>9, <1>10

\* The press that sends: were its draft in a call already, that call would be
\* observed and of the screen's own mutation, whose button is busy.
LEMMA ActsKeeps ==
    ASSUME DraftInv, NEW p \in Presses, Acts(p) PROVE DraftInv'
<1> DEFINE k == Len(calls)
<1>1. Fits(p, ui, Keeps(Screen), View.busy, DOMAIN Mutations \cup NoCalls)
    BY PressesFit DEF DraftInv
<1>2. /\ ui' = p.ui /\ p.op # None
      /\ UNCHANGED <<at, drafts>>
    BY DEF Acts
<1>3. /\ ui' \in Ui
      /\ \A f \in Forms : ui'.full[f] \in {ui.full[f], 0}
      /\ p.draft # 0 =>
            \E f \in Forms :
               /\ p.draft = ui.full[f]
               /\ p.op = Keeps(Screen) \/ (Keeps(Screen) = None /\ ui'.full[f] = 0)
      /\ p.op = Keeps(Screen) => p.op \notin View.busy
    BY <1>1, <1>2 DEF Fits
<1>4. /\ ui \in Ui /\ drafts \in Nat
      /\ \A f \in Forms : ui.full[f] \in Nat /\ ui.full[f] <= drafts
    BY DEF DraftInv, Ui
<1>5. p.draft \in 0..drafts
    BY <1>3, <1>4
<1>6. /\ calls' \in Seq(ToSet(calls'))
      /\ k \in Nat /\ DOMAIN calls = 1..k /\ DOMAIN calls' = 1..k + 1
      /\ IsCall(calls'[k + 1])
      /\ calls'[k + 1].op = p.op
      /\ calls'[k + 1].draft = p.draft
      /\ calls'[k + 1].observed
      /\ \A n \in DOMAIN calls :
            /\ IsCall(calls'[n])
            /\ calls'[n].op = calls[n].op
            /\ calls'[n].draft = calls[n].draft
            /\ calls'[n].op # p.op => calls'[n].observed = calls[n].observed
    BY <1>5, ActsSend
<1> HIDE DEF k
\* A call that carries what is still typed is observed, so that its button waits.
<1>7. \A n \in DOMAIN calls, f \in Forms :
         calls[n].draft # 0 /\ calls[n].draft = ui.full[f]
            => calls[n].op = Keeps(Screen) /\ calls[n].observed /\ p.op # Keeps(Screen)
  <2> TAKE n \in DOMAIN calls, f \in Forms
  <2> HAVE calls[n].draft # 0 /\ calls[n].draft = ui.full[f]
  <2>1. calls[n].op = Keeps(Screen) /\ calls[n].observed
    BY DEF DraftInv
  <2>2. calls[n].op \in View.busy
    BY <2>1 DEF View
  <2> QED BY <1>3, <2>1, <2>2
<1>8. \A n \in DOMAIN calls : p.draft # 0 => calls[n].draft # p.draft
  <2> SUFFICES ASSUME NEW n \in DOMAIN calls, p.draft # 0, calls[n].draft = p.draft
               PROVE  FALSE
    OBVIOUS
  <2>1. PICK f \in Forms :
                 /\ p.draft = ui.full[f]
                 /\ p.op = Keeps(Screen) \/ (Keeps(Screen) = None /\ ui'.full[f] = 0)
    BY <1>3
  <2>2. calls[n].op = Keeps(Screen) /\ p.op # Keeps(Screen)
    BY <1>7, <2>1
  <2>3. calls[n].op # None
    BY DEF DraftInv
  <2> QED BY <2>1, <2>2, <2>3
<1>9. \A n \in DOMAIN calls' : n \in DOMAIN calls \/ n = k + 1
    BY <1>6
<1>10. OneCallPerDraft'
  <2> SUFFICES ASSUME NEW m \in DOMAIN calls', NEW n \in DOMAIN calls',
                      calls'[m].draft # 0, calls'[m].draft = calls'[n].draft
               PROVE  m = n
    BY DEF OneCallPerDraft
  <2>1. CASE m \in DOMAIN calls /\ n \in DOMAIN calls
    BY <1>6, <2>1 DEF DraftInv, OneCallPerDraft
  <2>2. CASE m = k + 1 /\ n \in DOMAIN calls
    BY <1>6, <1>8, <2>2
  <2>3. CASE n = k + 1 /\ m \in DOMAIN calls
    BY <1>6, <1>8, <2>3
  <2> QED BY <1>9, <2>1, <2>2, <2>3
<1>11. \A n \in DOMAIN calls' :
          /\ IsCall(calls'[n])
          /\ calls'[n].op # None
          /\ calls'[n].draft \in 0..drafts
  <2> TAKE n \in DOMAIN calls'
  <2>1. CASE n \in DOMAIN calls
    <3>1. calls[n].op # None /\ calls[n].draft \in 0..drafts
      BY <2>1 DEF DraftInv
    <3> QED BY <1>6, <2>1, <3>1
  <2>2. CASE n = k + 1
    BY <1>2, <1>5, <1>6, <2>2
  <2> QED BY <1>9, <2>1, <2>2
<1>12. \A f, g \in Forms : f # g /\ ui'.full[f] # 0 => ui'.full[f] # ui'.full[g]
    BY <1>3 DEF DraftInv
<1>13. \A n \in DOMAIN calls', f \in Forms :
          calls'[n].draft # 0 /\ calls'[n].draft = ui'.full[f]
             => calls'[n].op = Keeps(Screen) /\ calls'[n].observed
  <2> TAKE n \in DOMAIN calls', f \in Forms
  <2> HAVE calls'[n].draft # 0 /\ calls'[n].draft = ui'.full[f]
  <2>1. ui'.full[f] # 0 /\ ui'.full[f] = ui.full[f]
    BY <1>3
  <2>2. CASE n \in DOMAIN calls
    <3>1. calls[n].op = Keeps(Screen) /\ calls[n].observed /\ p.op # Keeps(Screen)
      BY <1>6, <1>7, <2>1, <2>2
    <3>2. /\ calls'[n].op = calls[n].op
          /\ calls'[n].op # p.op => calls'[n].observed = calls[n].observed
      BY <1>6, <2>2
    <3> QED BY <3>1, <3>2
  <2>3. CASE n = k + 1
    <3>1. p.draft = ui.full[f] /\ p.draft # 0
      BY <1>6, <2>1, <2>3
    <3>2. PICK g \in Forms :
                   /\ p.draft = ui.full[g]
                   /\ p.op = Keeps(Screen) \/ (Keeps(Screen) = None /\ ui'.full[g] = 0)
      BY <1>3, <3>1
    <3>3. f = g
      BY <3>1, <3>2 DEF DraftInv
    <3>4. p.op = Keeps(Screen)
      BY <2>1, <3>2, <3>3
    <3> QED BY <1>6, <2>3, <3>4
  <2> QED BY <1>9, <2>2, <2>3
<1>14. \A f \in Forms : ui'.full[f] <= drafts
    BY <1>3, <1>4
<1>15. Screen' = Screen /\ at' \in Screens /\ drafts' \in Nat
    BY <1>2 DEF Screen, DraftInv
<1> QED BY <1>2, <1>3, <1>6, <1>10, <1>11, <1>12, <1>13, <1>14, <1>15 DEF DraftInv

\* Every step keeps the invariant.
LEMMA NextDrafts == DraftInv /\ [ClientNext]_clientvars => DraftInv'
<1> SUFFICES ASSUME DraftInv, [ClientNext]_clientvars PROVE DraftInv'
    OBVIOUS
<1>0. ui \in Ui /\ \A f \in Forms : ui.full[f] \in {ui.full[f], 0}
    BY DEF DraftInv
<1>1. ASSUME NEW h \in Hooks, ServeFetch(h) \/ DeliverFetch(h) \/ FailFetch(h)
      PROVE  DraftInv'
    BY <1>0, <1>1, CallsSame DEF ServeFetch, DeliverFetch, FailFetch
<1>2. ASSUME NEW n \in DOMAIN calls, ServeCall(n) PROVE DraftInv'
    BY <1>2, CallServed DEF ServeCall
<1>3. ASSUME NEW n \in DOMAIN calls, AnswerCall(n) PROVE DraftInv'
  <2>1. ui' \in Ui /\ ui'.full = ui.full
    BY <1>0, <1>3, AfterKeepsDrafts DEF AnswerCall
  <2> QED BY <1>3, <2>1, CallEnds DEF AnswerCall
<1>4. ASSUME NEW n \in DOMAIN calls, FailCall(n) PROVE DraftInv'
    BY <1>0, <1>4, CallEnds DEF FailCall
<1>5. ASSUME NEW form \in Forms, Type(form) PROVE DraftInv'
    BY <1>5, TypeKeeps
<1>6. ASSUME NEW p \in Presses, Turns(p) PROVE DraftInv'
  <2>1. Fits(p, ui, Keeps(Screen), View.busy, DOMAIN Mutations \cup NoCalls)
    BY PressesFit DEF DraftInv
  <2>2. ui' \in Ui /\ \A f \in Forms : ui'.full[f] \in {ui.full[f], 0}
    BY <1>6, <2>1 DEF Fits, Turns
  <2> QED BY <1>6, <2>2, CallsSame DEF Turns
<1>7. ASSUME NEW p \in Presses, Looks(p) PROVE DraftInv'
    BY <1>0, <1>7, CallsSame DEF Looks
<1>8. ASSUME NEW p \in Presses, Acts(p) PROVE DraftInv'
    BY <1>8, ActsKeeps
<1>9. CASE UNCHANGED clientvars
    BY <1>0, <1>9, CallsSame DEF clientvars
<1> QED BY <1>1, <1>2, <1>3, <1>4, <1>5, <1>6, <1>7, <1>8, <1>9
        DEF ClientNext, BackendStep, FetchStep, CallStep, UserStep

-----------------------------------------------------------------------------
(* What a screen shows of its user's writes *)

\* What the cache holds for a hook.
Entry == [data : Answers, failed : BOOLEAN,
          fetch : {"idle", "asked", "read"}, got : Answers]

\* Only a fetch that was served carries an answer.
Carries(e) == e.got # <<>> <=> e.fetch = "read"

\* The state has its type, the calls are of the client's mutations, and the
\* hooks are those the screen opened with.
TypeInv ==
    /\ rows \in Table
    /\ Hooks = ToSet(Uses(at))
    /\ cache \in [Hooks -> Entry]
    /\ \A h \in Hooks : Carries(cache[h])
    /\ missed \subseteq Hooks
    /\ \A n \in DOMAIN calls : calls[n].op \in DOMAIN Mutations /\ calls[n].prev \in Answers

\* A call whose end will drop h: it has changed the table, or has shown h a
\* change, ahead of the other.
Reaches(op, h) == h \in Hooks /\ \E d \in Mutations[op].drops : IsPrefix(d, Queries[h].key)
Awaited(h) ==
    \E n \in DOMAIN calls :
        /\ Reaches(calls[n].op, h)
        /\ calls[n].served \/ Mutations[calls[n].op].optimistic

\* With none in flight, what h shows at rest is the table, and so is what is
\* on its way to h.
Settled(h) ==
    /\ cache[h].fetch = "idle" /\ Known(h) /\ ~cache[h].failed => cache[h].data = rows
    /\ cache[h].fetch = "read" => cache[h].got = rows
OwnInv == \A h \in Hooks \ missed : OwnTable(h) /\ ~Awaited(h) => Settled(h)

\* The inductive invariant.
ClientInv == DraftInv /\ TypeInv /\ OwnInv

\* A table is no missing answer; and what is asked again stays an entry.
LEMMA TableOpen == \A table \in Table : table # <<>>
BY ItemAssumption DEF Table

LEMMA AgainEntry ==
    ASSUME NEW e \in Entry, Carries(e)
    PROVE  /\ Again(e) \in Entry /\ Carries(Again(e))
           /\ e.fetch = "idle" \/ e.data # <<>> => Again(e).fetch = "asked"
           /\ ~(e.fetch = "idle" \/ e.data # <<>>) => Again(e) = e
<1>1. <<>> \in Answers
    BY DEF Answers
<1>2. CASE e.fetch = "idle" \/ e.data # <<>>
  <2>1. Again(e) = [e EXCEPT !.fetch = "asked", !.got = <<>>]
    BY <1>2 DEF Again
  <2>2. [e EXCEPT !.fetch = "asked", !.got = <<>>] \in Entry
    BY <1>1 DEF Entry
  <2>3. Again(e).fetch = "asked" /\ Again(e).got = <<>>
    BY <2>1 DEF Entry
  <2> QED BY <1>2, <2>1, <2>2, <2>3 DEF Carries
<1>3. CASE ~(e.fetch = "idle" \/ e.data # <<>>)
    BY <1>3 DEF Again
<1> QED BY <1>2, <1>3

\* The effects of a call are tables; and a call that may change the table is
\* of the main query's resource and one of those that drop it.
LEMMA EffectsAreTables ==
    ASSUME NEW table \in Table, NEW c, NEW t \in Effects(table, c)
    PROVE  t \in Table
<1>1. \A i, flag : flag \in Flags => [table EXCEPT ![i] = flag] \in Table
    BY DEF Table
<1>2. \A flag : Opposite(flag) \in Flags
    BY DEF Opposite, Flags
<1>3. ASSUME NEW i, NEW flag, flag \in Flags
      PROVE  Turned(table, i, flag) \subseteq Table
  <2>1. [table EXCEPT ![i] = flag] \in Table
    BY <1>1, <1>3
  <2> QED BY <2>1 DEF Turned
<1>4. {"absent", "plain", "marked"} \subseteq Flags
    BY DEF Flags
<1>5. Adding(table) \subseteq Table
    BY <1>1, <1>4 DEF Adding
<1>6. ASSUME NEW request
      PROVE  /\ AccountEffects(table, c, request) \subseteq Table
             /\ GoalEffects(table, c, request) \subseteq Table
             /\ SubscriptionEffects(table, c, request) \subseteq Table
             /\ TransactionEffects(table, c, request) \subseteq Table
             /\ NotificationEffects(table, c, request) \subseteq Table
             /\ PreferenceEffects(table, c) \subseteq Table
             /\ WeeklySummaryEffects(table) \subseteq Table
  <2>1. AccountEffects(table, c, request) \subseteq Table
    BY DEF AccountEffects, Table, Flags
  <2>2. GoalEffects(table, c, request) \subseteq Table
    BY <1>3, <1>4 DEF GoalEffects
  <2>3. SubscriptionEffects(table, c, request) \subseteq Table
    BY <1>3, <1>4 DEF SubscriptionEffects
  <2>4. TransactionEffects(table, c, request) \subseteq Table
    BY <1>3, <1>4 DEF TransactionEffects
  <2>5. NotificationEffects(table, c, request) \subseteq Table
    <3>1. [i \in Item |-> IF table[i] = "plain" THEN "marked" ELSE table[i]] \in Table
      BY DEF Table, Flags
    <3> QED BY <1>3, <1>4, <3>1 DEF NotificationEffects
  <2>6. PreferenceEffects(table, c) \subseteq Table
    BY <1>2, <1>3, <1>4 DEF PreferenceEffects
  <2>7. WeeklySummaryEffects(table) \subseteq Table
    BY <1>3, <1>4 DEF WeeklySummaryEffects
  <2> QED BY <2>1, <2>2, <2>3, <2>4, <2>5, <2>6, <2>7
<1>7. Turned(table, c.on, "absent") \subseteq Table
    BY <1>3, <1>4
<1> QED BY <1>5, <1>6, <1>7 DEF Effects

LEMMA EffectsAreWrites ==
    ASSUME NEW table, NEW c, NEW t \in Effects(table, c), t # table
    PROVE  /\ Uses(at) # <<>>
           /\ Resource(RequestOf(c)) = TableOf(MainHook)
           /\ \/ Resource(RequestOf(c)) \in Lists \cup {"preferences"}
              \/ Created(RequestOf(c))
              \/ RequestOf(c).verb = "DELETE"
BY DEF Effects, Lists

\* The fields a call carries leave its verb and path.
LEMMA RequestKept ==
    ASSUME at \in Screens, NEW c, c.op \in DOMAIN Mutations
    PROVE  /\ Resource(RequestOf(c)) = Resource(Mutations[c.op].request)
           /\ Created(RequestOf(c)) <=> Created(Mutations[c.op].request)
           /\ RequestOf(c).verb = Mutations[c.op].request.verb
<1> DEFINE request == Mutations[c.op].request
<1>1. request \in [verb : {request.verb}, path : {request.path}, body : {request.body}]
    BY Coverage DEF Covers
<1> HIDE DEF request
<1>2. /\ Carrying(request, c.fields).verb = request.verb
      /\ Carrying(request, c.fields).path = request.path
    BY <1>1 DEF Carrying
<1> QED BY <1>2 DEF RequestOf, Resource, Created, request

\* So a call that changes the table drops every query of the screen that
\* reads it.
LEMMA WritesReach ==
    ASSUME DraftInv, TypeInv, NEW n \in DOMAIN calls,
           NEW t \in Effects(rows, calls[n]), t # rows,
           NEW h \in Hooks, OwnTable(h)
    PROVE  Reaches(calls[n].op, h)
<1> DEFINE op == calls[n].op
<1>1. at \in Screens /\ op \in DOMAIN Mutations
    BY DEF DraftInv, TypeInv
<1>2. h \in DOMAIN Queries
  <2>1. Uses(at) \in Seq(DOMAIN Queries)
    BY <1>1, HooksKnown
  <2>2. ToSet(Uses(at)) \subseteq DOMAIN Queries
    BY <2>1, LenProperties DEF ToSet
  <2> QED BY <2>2 DEF TypeInv
<1>3. /\ Resource(Mutations[op].request) = TableOf(MainHook)
      /\ \/ Resource(Mutations[op].request) \in Lists \cup {"preferences"}
         \/ Created(Mutations[op].request)
         \/ Mutations[op].request.verb = "DELETE"
    BY <1>1, EffectsAreWrites, RequestKept
<1>4. Resource(Mutations[op].request) = Resource(Queries[h].request)
    BY <1>3 DEF OwnTable, TableOf, Asks
<1>5. \E d \in Mutations[op].drops : IsPrefix(d, Queries[h].key)
    BY <1>1, <1>2, <1>3, <1>4, WritesDrop
<1> QED BY <1>5 DEF Reaches

\* What is a matter of the screen and its hooks stays.
LEMMA SameScreen ==
    ASSUME at' = at, Hooks' = Hooks
    PROVE  /\ Mutations' = Mutations /\ Uses(at)' = Uses(at)
           /\ \A h : OwnTable(h)' <=> OwnTable(h)
           /\ \A h : Awaited(h)' <=>
                 \E n \in DOMAIN calls' :
                    /\ Reaches(calls'[n].op, h)
                    /\ calls'[n].served \/ Mutations[calls'[n].op].optimistic
<1>1. Mutations' = Mutations /\ Queries' = Queries /\ Uses(at)' = Uses(at)
    BY DEF Mutations, Queries, Uses
<1>2. \A h : OwnTable(h)' <=> OwnTable(h)
    BY <1>1 DEF OwnTable, TableOf, Asks, MainHook
<1> QED BY <1>1, <1>2 DEF Awaited, Reaches

\* A screen opens with every answer asked for.
LEMMA InitTypes == ClientInit => TypeInv /\ OwnInv
<1> SUFFICES ASSUME ClientInit PROVE TypeInv /\ OwnInv
    OBVIOUS
<1>1. /\ rows \in Table /\ cache = [h \in ToSet(Uses(at)) |-> Fresh]
      /\ calls = <<>> /\ missed = {}
    BY DEF ClientInit, FirstTables
<1>2. Fresh \in Entry /\ Fresh.fetch = "asked" /\ Carries(Fresh)
    BY DEF Fresh, Entry, Answers, Carries
<1>3. Hooks = ToSet(Uses(at))
    BY <1>1 DEF Hooks
<1>4. \A h \in Hooks : cache[h] = Fresh
    BY <1>1 DEF Hooks
<1>5. cache \in [Hooks -> Entry]
    BY <1>1, <1>2, <1>3
<1>6. TypeInv
    BY <1>1, <1>2, <1>3, <1>4, <1>5 DEF TypeInv
<1>7. OwnInv
    BY <1>2, <1>4 DEF OwnInv, Settled
<1> QED BY <1>6, <1>7

\* A step of the cache alone.
LEMMA FetchTypes ==
    ASSUME TypeInv, NEW h \in Hooks, NEW e \in Entry, Carries(e),
           cache' = [cache EXCEPT ![h] = e],
           missed' \subseteq missed, UNCHANGED <<at, rows, calls>>
    PROVE  /\ TypeInv'
           /\ Hooks' = Hooks
           /\ \A g \in Hooks : cache'[g] = IF g = h THEN e ELSE cache[g]
<1>1. Hooks' = Hooks /\ \A g \in Hooks : cache'[g] = IF g = h THEN e ELSE cache[g]
    BY DEF Hooks, TypeInv
<1>2. cache' \in [Hooks -> Entry]
    BY DEF TypeInv
<1>3. \A g \in Hooks : Carries(cache'[g])
    BY <1>1 DEF TypeInv
<1>4. Mutations' = Mutations /\ Uses(at)' = Uses(at)
    BY <1>1, SameScreen
<1> QED BY <1>1, <1>2, <1>3, <1>4 DEF TypeInv, Carries

\* A fetch reads the table as it is now.
LEMMA ServeFetchStep ==
    ASSUME ClientInv, NEW h \in Hooks, ServeFetch(h)
    PROVE  TypeInv' /\ OwnInv'
<1> DEFINE got == IF OwnTable(h) THEN rows ELSE NoRows
           e == [cache[h] EXCEPT !.fetch = "read", !.got = got]
<1>1. cache[h] \in Entry /\ cache' = [cache EXCEPT ![h] = e]
    BY DEF ClientInv, TypeInv, ServeFetch
<1>2. got \in Table /\ got # <<>>
    BY TableOpen DEF ClientInv, TypeInv, NoRows, Table, Flags
<1> HIDE DEF got
<1>3. e \in Entry /\ e.fetch = "read" /\ e.got = got
    BY <1>1, <1>2 DEF Entry, Answers
<1> HIDE DEF e
<1>4. Carries(e)
    BY <1>2, <1>3 DEF Carries
<1>5. missed' = missed \ {h} /\ UNCHANGED <<at, rows, calls>>
    BY DEF ServeFetch
<1>6. /\ TypeInv' /\ Hooks' = Hooks
      /\ \A g \in Hooks : cache'[g] = IF g = h THEN e ELSE cache[g]
    BY <1>1, <1>3, <1>4, <1>5, FetchTypes DEF ClientInv
<1>7. ASSUME NEW g \in Hooks \ missed', OwnTable(g), ~Awaited(g)'
      PROVE  Settled(g)'
  <2>1. CASE g = h
    <3>1. cache'[g].fetch = "read" /\ cache'[g].got = rows
      BY <1>3, <1>6, <1>7, <2>1 DEF got
    <3> QED BY <1>5, <3>1 DEF Settled
  <2>2. CASE g # h
    <3>1. ~Awaited(g)
      BY <1>5, <1>6, <1>7, SameScreen DEF Awaited
    <3>2. Settled(g)
      BY <1>5, <1>7, <2>2, <3>1 DEF ClientInv, OwnInv
    <3>3. cache'[g] = cache[g]
      BY <1>6, <2>2
    <3> QED BY <1>5, <3>2, <3>3 DEF Settled, Known
  <2> QED BY <2>1, <2>2
<1>8. \A g : OwnTable(g)' <=> OwnTable(g)
    BY <1>5, <1>6, SameScreen
<1> QED BY <1>6, <1>7, <1>8 DEF OwnInv

\* What a step has to keep for the state to stay typed.
LEMMA TypesKept ==
    ASSUME TypeInv, at' = at, rows' \in Table, missed' \subseteq Hooks,
           cache' \in [Hooks -> Entry], \A h \in Hooks : Carries(cache'[h]),
           \A n \in DOMAIN calls' :
              calls'[n].op \in DOMAIN Mutations /\ calls'[n].prev \in Answers
    PROVE  TypeInv' /\ Hooks' = Hooks
<1>1. Hooks' = Hooks
    BY DEF Hooks
<1>2. Mutations' = Mutations /\ Uses(at)' = Uses(at)
    BY <1>1, SameScreen
<1> QED BY <1>1, <1>2 DEF TypeInv, Carries

\* What a step may do to a hook for it to stay settled: await a call, ask
\* again, fail, show what was on its way, or nothing.
LEMMA OwnKept ==
    ASSUME OwnInv, at' = at, Hooks' = Hooks, rows' = rows,
           \A h \in Hooks \ missed' :
              \/ Awaited(h)'
              \/ cache'[h].fetch = "asked"
              \/ cache'[h].fetch = "idle" /\ cache'[h].failed
              \/ /\ h \notin missed /\ ~Awaited(h)
                 /\ \/ cache'[h] = cache[h]
                    \/ /\ cache[h].fetch = "read"
                       /\ cache'[h].fetch = "idle" /\ cache'[h].data = cache[h].got
    PROVE  OwnInv'
<1>1. ASSUME NEW h \in Hooks \ missed', OwnTable(h), ~Awaited(h)'
      PROVE  Settled(h)'
  <2>1. CASE cache'[h].fetch = "asked"
    BY <2>1 DEF Settled
  <2>2. CASE cache'[h].fetch = "idle" /\ cache'[h].failed
    BY <2>2 DEF Settled
  <2>3. CASE h \notin missed /\ ~Awaited(h)
    <3>1. Settled(h)
      BY <1>1, <2>3 DEF OwnInv
    <3>2. CASE cache'[h] = cache[h]
      BY <3>1, <3>2 DEF Settled, Known
    <3>3. CASE /\ cache[h].fetch = "read"
               /\ cache'[h].fetch = "idle" /\ cache'[h].data = cache[h].got
      BY <3>1, <3>3 DEF Settled
    <3> QED BY <1>1, <2>1, <2>2, <2>3, <3>2, <3>3
  <2> QED BY <1>1, <2>1, <2>2, <2>3
<1>2. \A h : OwnTable(h)' <=> OwnTable(h)
    BY SameScreen
<1> QED BY <1>1, <1>2 DEF OwnInv

\* The answer that arrives was settled on its way.
LEMMA DeliverFetchStep ==
    ASSUME ClientInv, NEW h \in Hooks, DeliverFetch(h)
    PROVE  TypeInv' /\ OwnInv'
<1> DEFINE e == [data |-> cache[h].got, failed |-> FALSE, fetch |-> "idle", got |-> <<>>]
<1>1. cache[h] \in Entry /\ cache[h].fetch = "read" /\ cache' = [cache EXCEPT ![h] = e]
    BY DEF ClientInv, TypeInv, DeliverFetch
<1>2. e \in Entry /\ Carries(e)
    BY <1>1 DEF Entry, Answers, Carries
<1>3. e.fetch = "idle" /\ e.data = cache[h].got
    OBVIOUS
<1> HIDE DEF e
<1>4. UNCHANGED <<at, rows, calls, missed>>
    BY DEF DeliverFetch
<1>5. /\ TypeInv' /\ Hooks' = Hooks
      /\ \A g \in Hooks : cache'[g] = IF g = h THEN e ELSE cache[g]
    BY <1>1, <1>2, <1>4, FetchTypes DEF ClientInv
<1>6. \A g : Awaited(g)' <=> Awaited(g)
    BY <1>4, <1>5, SameScreen DEF Awaited
<1>7. ASSUME NEW g \in Hooks, g \notin missed, ~Awaited(g)
      PROVE  \/ cache'[g] = cache[g]
             \/ /\ cache[g].fetch = "read"
                /\ cache'[g].fetch = "idle" /\ cache'[g].data = cache[g].got
    BY <1>1, <1>3, <1>5
<1> QED BY <1>4, <1>5, <1>6, <1>7, OwnKept DEF ClientInv

\* A query that failed promises nothing.
LEMMA FailFetchStep ==
    ASSUME ClientInv, NEW h \in Hooks, FailFetch(h)
    PROVE  TypeInv' /\ OwnInv'
<1> DEFINE e == [cache[h] EXCEPT !.failed = TRUE, !.fetch = "idle", !.got = <<>>]
<1>1. cache[h] \in Entry /\ cache' = [cache EXCEPT ![h] = e]
    BY DEF ClientInv, TypeInv, FailFetch
<1>2. e \in Entry /\ e.fetch = "idle" /\ e.got = <<>>
    BY <1>1 DEF Entry, Answers
<1>3. e.failed
    BY <1>1 DEF Entry
<1> HIDE DEF e
<1>4. Carries(e)
    BY <1>2 DEF Carries
<1>5. UNCHANGED <<at, rows, calls, missed>>
    BY DEF FailFetch
<1>6. /\ TypeInv' /\ Hooks' = Hooks
      /\ \A g \in Hooks : cache'[g] = IF g = h THEN e ELSE cache[g]
    BY <1>1, <1>2, <1>4, <1>5, FetchTypes DEF ClientInv
<1>7. \A g : Awaited(g)' <=> Awaited(g)
    BY <1>5, <1>6, SameScreen DEF Awaited
<1>8. ASSUME NEW g \in Hooks
      PROVE  cache'[g] = cache[g] \/ (cache'[g].fetch = "idle" /\ cache'[g].failed)
    BY <1>2, <1>3, <1>6
<1> QED BY <1>5, <1>6, <1>7, <1>8, OwnKept DEF ClientInv

\* A call that changes the table will drop what its client shows of it.
LEMMA ServeCallStep ==
    ASSUME ClientInv, NEW n \in DOMAIN calls, ServeCall(n)
    PROVE  TypeInv' /\ OwnInv'
<1>1. /\ rows' \in Effects(rows, calls[n])
      /\ calls' = [calls EXCEPT ![n].served = TRUE]
      /\ UNCHANGED <<at, cache, missed>>
    BY DEF ServeCall
<1>2. rows' \in Table
    BY <1>1, EffectsAreTables DEF ClientInv, TypeInv
<1>3. DOMAIN calls' = DOMAIN calls
    BY <1>1
<1>4. ASSUME NEW m \in DOMAIN calls
      PROVE  /\ calls'[m].op = calls[m].op /\ calls'[m].prev = calls[m].prev
             /\ calls[m].served \/ m = n => calls'[m].served
  <2>1. IsCall(calls[m])
    BY DEF ClientInv, DraftInv
  <2>2. CASE m = n
    <3> DEFINE d == [calls[m] EXCEPT !.served = TRUE]
    <3>1. calls'[m] = d
      BY <1>1, <2>2
    <3>2. d.op = calls[m].op /\ d.prev = calls[m].prev
      BY <2>1, MarkedServed
    <3>3. d.served
      BY <2>1, MarkedServed
    <3> HIDE DEF d
    <3> QED BY <2>2, <3>1, <3>2, <3>3
  <2>3. CASE m # n
    <3>1. calls'[m] = calls[m]
      BY <1>1, <2>3
    <3> QED BY <2>3, <3>1
  <2> QED BY <2>2, <2>3
<1>5. TypeInv' /\ Hooks' = Hooks
  <2>1. /\ cache' \in [Hooks -> Entry] /\ \A h \in Hooks : Carries(cache'[h])
        /\ missed' \subseteq Hooks
    BY <1>1 DEF ClientInv, TypeInv
  <2>2. \A m \in DOMAIN calls' :
           calls'[m].op \in DOMAIN Mutations /\ calls'[m].prev \in Answers
    BY <1>3, <1>4 DEF ClientInv, TypeInv
  <2> QED BY <1>1, <1>2, <2>1, <2>2, TypesKept DEF ClientInv
<1>6. \A h : Awaited(h) => Awaited(h)'
    BY <1>1, <1>3, <1>4, <1>5, SameScreen DEF Awaited
<1>7. CASE rows' = rows
    BY <1>1, <1>5, <1>6, <1>7, OwnKept DEF ClientInv
<1>8. CASE rows' # rows
  <2>1. ASSUME NEW h \in Hooks, OwnTable(h)
        PROVE  Awaited(h)'
    <3>1. Reaches(calls[n].op, h)
      BY <1>1, <1>8, <2>1, WritesReach DEF ClientInv
    <3>2. Reaches(calls'[n].op, h) /\ calls'[n].served
      BY <1>4, <3>1
    <3> QED BY <1>1, <1>3, <1>5, <3>2, SameScreen
  <2>2. \A h : OwnTable(h)' <=> OwnTable(h)
    BY <1>1, <1>5, SameScreen
  <2> QED BY <1>5, <2>1, <2>2 DEF OwnInv
<1> QED BY <1>5, <1>7, <1>8

\* The end of a call: the others stay, and only a hook it would drop may have
\* awaited it.
LEMMA CallGone ==
    ASSUME DraftInv, TypeInv, at' = at,
           NEW n \in DOMAIN calls, calls' = RemoveAt(calls, n)
    PROVE  /\ \A m \in DOMAIN calls' :
                 calls'[m].op \in DOMAIN Mutations /\ calls'[m].prev \in Answers
           /\ Hooks' = Hooks =>
                 \A h : Awaited(h) /\ ~Awaited(h)' =>
                    /\ Reaches(calls[n].op, h)
                    /\ calls[n].served \/ Mutations[calls[n].op].optimistic
<1>1. calls \in Seq(ToSet(calls)) /\ DOMAIN calls = 1..Len(calls) /\ Len(calls) \in Nat
    BY SelfSeq DEF DraftInv
<1>2. /\ calls' \in Seq(ToSet(calls))
      /\ Len(calls') = Len(calls) - 1
      /\ \A m \in 1..Len(calls) - 1 : calls'[m] = calls[IF m < n THEN m ELSE m + 1]
    BY <1>1, RemovedAt
<1>3. DOMAIN calls' = 1..Len(calls) - 1
    BY <1>2, LenProperties
<1>4. ASSUME NEW m \in DOMAIN calls'
      PROVE  calls'[m].op \in DOMAIN Mutations /\ calls'[m].prev \in Answers
  <2> DEFINE k == IF m < n THEN m ELSE m + 1
  <2>1. k \in DOMAIN calls /\ calls'[m] = calls[k]
    BY <1>1, <1>2, <1>3
  <2> HIDE DEF k
  <2> QED BY <2>1 DEF TypeInv
<1>5. ASSUME NEW m \in DOMAIN calls, m # n
      PROVE  LET k == IF m < n THEN m ELSE m - 1
             IN  k \in DOMAIN calls' /\ calls'[k] = calls[m]
  <2>1. CASE m < n
    <3>1. m \in 1..Len(calls) - 1
      BY <1>1, <2>1
    <3> QED BY <1>2, <1>3, <2>1, <3>1
  <2>2. CASE ~(m < n)
    <3>1. m - 1 \in 1..Len(calls) - 1 /\ ~(m - 1 < n) /\ (m - 1) + 1 = m
      BY <1>1, <1>5, <2>2
    <3> QED BY <1>2, <1>3, <2>2, <3>1
  <2> QED BY <2>1, <2>2
<1>6. ASSUME Hooks' = Hooks, NEW h, Awaited(h), ~Awaited(h)'
      PROVE  /\ Reaches(calls[n].op, h)
             /\ calls[n].served \/ Mutations[calls[n].op].optimistic
  <2>1. PICK m \in DOMAIN calls :
                 /\ Reaches(calls[m].op, h)
                 /\ calls[m].served \/ Mutations[calls[m].op].optimistic
    BY <1>6 DEF Awaited
  <2>2. CASE m = n
    BY <2>1, <2>2
  <2>3. CASE m # n
    <3> DEFINE k == IF m < n THEN m ELSE m - 1
    <3>1. k \in DOMAIN calls' /\ calls'[k] = calls[m]
      BY <1>5, <2>3
    <3> HIDE DEF k
    <3>2. /\ Reaches(calls'[k].op, h)
          /\ calls'[k].served \/ Mutations[calls'[k].op].optimistic
      BY <2>1, <3>1
    <3> QED BY <1>6, <3>1, <3>2, SameScreen
  <2> QED BY <2>2, <2>3
<1> QED BY <1>4, <1>6

\* The hooks a call drops are asked again, or had no answer that could be
\* old; a first fetch already under way may bring an old one, and is missed.
LEMMA AnswerCallStep ==
    ASSUME ClientInv, NEW n \in DOMAIN calls, AnswerCall(n)
    PROVE  TypeInv' /\ OwnInv'
<1> DEFINE hooks == Dropped(Mutations[calls[n].op].drops)
<1>1. /\ cache' = Afresh(hooks)
      /\ missed' = missed \cup {h \in hooks : ~Known(h) /\ cache[h].fetch = "read"}
      /\ calls' = RemoveAt(calls, n)
      /\ UNCHANGED <<at, rows>>
    BY DEF AnswerCall
<1>2. hooks \subseteq Hooks /\ \A h : h \in hooks <=> Reaches(calls[n].op, h)
    BY DEF Dropped, Reaches
<1> HIDE DEF hooks
<1>3. \A h \in Hooks : cache[h] \in Entry /\ Carries(cache[h])
    BY DEF ClientInv, TypeInv
<1>4. ASSUME NEW h \in Hooks
      PROVE  /\ cache'[h] \in Entry /\ Carries(cache'[h])
             /\ h \notin hooks => cache'[h] = cache[h]
             /\ h \in hooks => \/ cache'[h].fetch = "asked"
                               \/ h \in missed'
  <2>1. cache'[h] = IF h \in hooks THEN Again(cache[h]) ELSE cache[h]
    BY <1>1 DEF Afresh
  <2>2. CASE h \notin hooks
    BY <1>3, <2>1, <2>2
  <2>3. CASE h \in hooks
    <3>1. cache'[h] = Again(cache[h])
      BY <2>1, <2>3
    <3>2. cache'[h] \in Entry /\ Carries(cache'[h])
      BY <1>3, <3>1, AgainEntry
    <3>3. CASE cache[h].fetch = "idle" \/ Known(h)
      BY <1>3, <2>3, <3>1, <3>2, <3>3, AgainEntry DEF Known
    <3>4. CASE ~(cache[h].fetch = "idle" \/ Known(h))
      <4>1. cache'[h] = cache[h]
        BY <1>3, <3>1, <3>4, AgainEntry DEF Known
      <4>2. cache[h].fetch \in {"asked", "read"}
        BY <1>3, <3>4 DEF Entry
      <4>3. CASE cache[h].fetch = "asked"
        BY <2>3, <3>2, <4>1, <4>3
      <4>4. CASE cache[h].fetch = "read"
        BY <1>1, <2>3, <3>2, <3>4, <4>4
      <4> QED BY <4>2, <4>3, <4>4
    <3> QED BY <3>3, <3>4
  <2> QED BY <2>2, <2>3
<1>5. cache' \in [Hooks -> Entry]
  <2>1. cache' = [h \in Hooks |-> cache'[h]]
    BY <1>1 DEF Afresh
  <2> QED BY <1>4, <2>1
<1>6. missed' \subseteq Hooks
    BY <1>1, <1>2 DEF ClientInv, TypeInv
<1>7. \A m \in DOMAIN calls' :
         calls'[m].op \in DOMAIN Mutations /\ calls'[m].prev \in Answers
    BY <1>1, CallGone DEF ClientInv
<1>8. TypeInv' /\ Hooks' = Hooks
  <2>1. rows' \in Table /\ TypeInv
    BY <1>1 DEF ClientInv, TypeInv
  <2> QED BY <1>1, <1>4, <1>5, <1>6, <1>7, <2>1, TypesKept
<1>9. ASSUME NEW h \in Hooks \ missed'
      PROVE  \/ Awaited(h)'
             \/ cache'[h].fetch = "asked"
             \/ h \notin missed /\ ~Awaited(h) /\ cache'[h] = cache[h]
  <2>1. CASE h \in hooks
    BY <1>4, <1>9, <2>1
  <2>2. CASE h \notin hooks
    <3>1. cache'[h] = cache[h] /\ h \notin missed
      BY <1>1, <1>4, <1>9, <2>2
    <3>2. Awaited(h) => Awaited(h)'
      BY <1>1, <1>2, <1>8, <2>2, CallGone DEF ClientInv
    <3> QED BY <3>1, <3>2
  <2> QED BY <2>1, <2>2
<1> QED BY <1>1, <1>8, <1>9, OwnKept DEF ClientInv

\* The client cannot tell whether a call that failed was served, and drops
\* nothing; an optimistic one puts back what it had shown and asks again.
LEMMA FailCallStep ==
    ASSUME ClientInv, NEW n \in DOMAIN calls, FailCall(n)
    PROVE  TypeInv' /\ OwnInv'
<1> DEFINE m == Mutations[calls[n].op]
           hooks == Dropped(m.drops)
           before == calls[n].prev
<1>1. /\ calls' = RemoveAt(calls, n)
      /\ UNCHANGED <<at, rows>>
      /\ missed' = IF calls[n].served /\ ~m.optimistic THEN missed \cup hooks
                   ELSE missed \cup {h \in hooks : m.optimistic /\ ~Known(h)}
    BY DEF FailCall
<1>2. hooks \subseteq Hooks /\ \A h : h \in hooks <=> Reaches(calls[n].op, h)
    BY DEF Dropped, Reaches
<1>3. before \in Answers
    BY DEF ClientInv, TypeInv
<1>4. \A h \in Hooks : cache[h] \in Entry /\ Carries(cache[h])
    BY DEF ClientInv, TypeInv
<1>5. /\ m.optimistic =>
            \A h \in Hooks :
               cache'[h] = IF h \notin hooks THEN cache[h]
                           ELSE Again(IF before = <<>> THEN cache[h]
                                      ELSE [cache[h] EXCEPT !.data = before])
      /\ ~m.optimistic => cache' = cache
      /\ DOMAIN cache' = Hooks /\ cache' = [h \in Hooks |-> cache'[h]]
  <2>1. cache = [h \in Hooks |-> cache[h]]
    BY DEF ClientInv, TypeInv
  <2>2. CASE m.optimistic
    BY <2>2 DEF FailCall
  <2>3. CASE ~m.optimistic
    <3>1. cache' = cache
      BY <2>3 DEF FailCall
    <3> QED BY <2>1, <2>3, <3>1
  <2> QED BY <2>2, <2>3
<1> HIDE DEF m, hooks, before
<1>6. ASSUME NEW h \in Hooks
      PROVE  /\ cache'[h] \in Entry /\ Carries(cache'[h])
             /\ h \notin hooks \/ ~m.optimistic => cache'[h] = cache[h]
             /\ h \in hooks /\ m.optimistic => cache'[h].fetch = "asked" \/ h \in missed'
  <2>1. CASE ~m.optimistic
    BY <1>4, <1>5, <2>1
  <2>2. CASE m.optimistic /\ h \notin hooks
    BY <1>4, <1>5, <2>2
  <2>3. CASE m.optimistic /\ h \in hooks
    <3> DEFINE e == IF before = <<>> THEN cache[h] ELSE [cache[h] EXCEPT !.data = before]
    <3>1. cache'[h] = Again(e)
      BY <1>5, <2>3
    <3>2. /\ e \in Entry
          /\ e.got = cache[h].got /\ e.fetch = cache[h].fetch
          /\ Known(h) => e.data # <<>>
      BY <1>3, <1>4 DEF Entry, Known
    <3> HIDE DEF e
    <3>3. Carries(e)
      BY <1>4, <3>2 DEF Carries
    <3>4. cache'[h] \in Entry /\ Carries(cache'[h])
      BY <3>1, <3>2, <3>3, AgainEntry
    <3>5. CASE Known(h)
      <4>1. cache'[h].fetch = "asked"
        BY <3>1, <3>2, <3>3, <3>5, AgainEntry
      <4> QED BY <2>3, <3>4, <4>1
    <3>6. CASE ~Known(h)
      <4>1. h \in missed'
        BY <1>1, <2>3, <3>6
      <4> QED BY <2>3, <3>4, <4>1
    <3> QED BY <3>5, <3>6
  <2> QED BY <2>1, <2>2, <2>3
<1>7. cache' \in [Hooks -> Entry]
    BY <1>5, <1>6
<1>8. missed' \subseteq Hooks
    BY <1>1, <1>2 DEF ClientInv, TypeInv
<1>9. TypeInv' /\ Hooks' = Hooks
  <2>1. rows' \in Table /\ TypeInv
    BY <1>1 DEF ClientInv, TypeInv
  <2>2. \A k \in DOMAIN calls' :
           calls'[k].op \in DOMAIN Mutations /\ calls'[k].prev \in Answers
    BY <1>1, CallGone DEF ClientInv
  <2> QED BY <1>1, <1>6, <1>7, <1>8, <2>1, <2>2, TypesKept
<1>10. ASSUME NEW h \in Hooks \ missed'
       PROVE  \/ Awaited(h)'
              \/ cache'[h].fetch = "asked"
              \/ h \notin missed /\ ~Awaited(h) /\ cache'[h] = cache[h]
  <2>0. h \notin missed
    BY <1>1, <1>10
  <2>1. Awaited(h) /\ ~Awaited(h)' =>
            h \in hooks /\ (calls[n].served \/ m.optimistic)
    BY <1>1, <1>2, <1>9, CallGone DEF ClientInv, m
  <2>2. CASE h \in hooks /\ m.optimistic
    BY <1>6, <1>10, <2>2
  <2>3. CASE h \notin hooks
    BY <1>6, <2>0, <2>1, <2>3
  <2>4. CASE h \in hooks /\ ~m.optimistic
    <3>1. ~calls[n].served
      BY <1>1, <1>10, <2>4
    <3> QED BY <1>6, <2>0, <2>1, <2>4, <3>1
  <2> QED BY <2>2, <2>3, <2>4
<1> QED BY <1>1, <1>9, <1>10, OwnKept DEF ClientInv

\* The user's steps.  Typing and turning leave calls and cache alone.
LEMMA IdleStep ==
    ASSUME ClientInv, UNCHANGED <<at, rows, cache, calls, missed>>
    PROVE  TypeInv' /\ OwnInv'
<1>1. TypeInv' /\ Hooks' = Hooks
    BY TypesKept DEF ClientInv, TypeInv
<1>2. \A h : Awaited(h)' <=> Awaited(h)
    BY <1>1, SameScreen DEF Awaited
<1> QED BY <1>1, <1>2, OwnKept DEF ClientInv

\* A refetch or another key asks again.
LEMMA LooksStep ==
    ASSUME ClientInv, NEW p, Looks(p)
    PROVE  TypeInv' /\ OwnInv'
<1>1. UNCHANGED <<at, rows, calls, missed>>
    BY DEF Looks
<1>2. \A h \in Hooks : cache[h] \in Entry /\ Carries(cache[h])
    BY DEF ClientInv, TypeInv
<1>3. ASSUME NEW h \in Hooks
      PROVE  /\ cache'[h] \in Entry /\ Carries(cache'[h])
             /\ cache'[h].fetch = "asked" \/ cache'[h] = cache[h]
  <2>1. CASE p.op = "refetch"
    <3>1. cache'[h] = Again(cache[h])
      BY <2>1 DEF Looks, Afresh
    <3> QED BY <1>2, <3>1, AgainEntry
  <2>2. CASE p.op # "refetch"
    <3> DEFINE e == [data |-> <<>>, failed |-> FALSE, fetch |-> "asked", got |-> <<>>]
    <3>1. e \in Entry /\ Carries(e) /\ e.fetch = "asked"
      BY DEF Entry, Answers, Carries
    <3>2. cache' = [cache EXCEPT ![MainHook] = e]
      BY <2>2 DEF Looks
    <3> HIDE DEF e
    <3>3. cache'[h] = IF h = MainHook THEN e ELSE cache[h]
      BY <3>2 DEF ClientInv, TypeInv
    <3> QED BY <1>2, <3>1, <3>3
  <2> QED BY <2>1, <2>2
<1>4. cache' = [h \in Hooks |-> cache'[h]]
    BY DEF Looks, Afresh, ClientInv, TypeInv
<1>5. cache' \in [Hooks -> Entry]
    BY <1>3, <1>4
<1>6. TypeInv' /\ Hooks' = Hooks
    BY <1>1, <1>3, <1>5, TypesKept DEF ClientInv, TypeInv
<1>7. \A h : Awaited(h)' <=> Awaited(h)
    BY <1>1, <1>6, SameScreen DEF Awaited
<1> QED BY <1>1, <1>3, <1>6, <1>7, OwnKept DEF ClientInv

\* What an optimistic call shows before its answer is awaited from then on.
LEMMA ActsStep ==
    ASSUME ClientInv, NEW p \in Presses, Acts(p)
    PROVE  TypeInv' /\ OwnInv'
<1> DEFINE k == Len(calls)
           m == Mutations[p.op]
           hooks == IF m.optimistic THEN Dropped(m.drops) ELSE {}
<1>1. UNCHANGED <<at, rows, missed>> /\ cache' = IF hooks = {} THEN cache
                                                 ELSE Guessed(hooks, p.on)
    BY DEF Acts, Send
<1>2. p.op \in DOMAIN Mutations /\ p.draft \in Nat
  <2>1. Fits(p, ui, Keeps(Screen), View.busy, DOMAIN Mutations \cup NoCalls)
    BY PressesFit DEF ClientInv, DraftInv
  <2>2. p.op \in DOMAIN Mutations
    BY <2>1 DEF Fits, Acts, NoCalls, None
  <2>3. \A f \in Forms : ui.full[f] \in Nat
    BY DEF ClientInv, DraftInv, Ui
  <2>4. p.draft \in Nat
    BY <2>1, <2>3 DEF Fits
  <2> QED BY <2>2, <2>4
<1>3. /\ k \in Nat /\ DOMAIN calls = 1..k /\ DOMAIN calls' = 1..k + 1
      /\ calls'[k + 1].op = p.op
      /\ calls'[k + 1].prev # <<>> =>
            Hooks # {} /\ calls'[k + 1].prev = cache[MainHook].data
      /\ \A n \in DOMAIN calls :
            /\ calls'[n].op = calls[n].op
            /\ calls'[n].prev = calls[n].prev
            /\ calls'[n].served = calls[n].served
    BY <1>2, ActsSend DEF ClientInv
<1> HIDE DEF k
<1>4. \A h \in Hooks : cache[h] \in Entry /\ Carries(cache[h])
    BY DEF ClientInv, TypeInv
<1>5. Hooks # {} => MainHook \in Hooks
  <2>1. Uses(at) \in Seq(DOMAIN Queries) /\ Hooks = ToSet(Uses(at))
    BY HooksKnown DEF ClientInv, DraftInv, TypeInv
  <2> QED BY <2>1, LenProperties DEF MainHook, ToSet
<1>6. calls'[k + 1].prev \in Answers
  <2>1. CASE calls'[k + 1].prev = <<>>
    BY <2>1 DEF Answers
  <2>2. CASE calls'[k + 1].prev # <<>>
    BY <1>3, <1>4, <1>5, <2>2 DEF Entry
  <2> QED BY <2>1, <2>2
<1>7. hooks \subseteq Hooks
    BY DEF Dropped
<1>8. ASSUME NEW h \in Hooks
      PROVE  /\ cache'[h] \in Entry /\ Carries(cache'[h])
             /\ h \notin hooks => cache'[h] = cache[h]
  <2>1. CASE h \notin hooks
    <3>1. cache'[h] = cache[h]
      BY <1>1, <2>1 DEF Guessed
    <3> QED BY <1>4, <2>1, <3>1
  <2>2. CASE h \in hooks
    <3> DEFINE data == Flipped(cache[h].data, p.on)
               e == [cache[h] EXCEPT !.fetch = "idle", !.got = <<>>, !.data = data]
    <3>1. cache'[h] = e
      <4>1. cache' = Guessed(hooks, p.on)
        BY <1>1, <2>2
      <4> HIDE DEF hooks
      <4>2. Guessed(hooks, p.on)[h] = e
        BY <2>2 DEF Guessed
      <4> QED BY <4>1, <4>2
    <3>2. data \in Answers
      <4>1. cache[h].data \in Table \cup {<<>>}
        BY <1>4 DEF Entry, Answers
      <4>2. \A x : Opposite(x) \in Flags
        BY DEF Opposite, Flags
      <4>3. \A t \in Table, x \in Flags : [t EXCEPT ![p.on] = x] \in Table
        BY DEF Table
      <4> QED BY <4>1, <4>2, <4>3 DEF Answers, Flipped
    <3> HIDE DEF data
    <3>3. e \in Entry /\ e.fetch = "idle" /\ e.got = <<>>
      BY <1>4, <3>2 DEF Entry, Answers
    <3> HIDE DEF e
    <3>4. Carries(e)
      BY <3>3 DEF Carries
    <3> QED BY <2>2, <3>1, <3>3, <3>4
  <2> QED BY <2>1, <2>2
<1>9. cache' \in [Hooks -> Entry]
  <2>1. cache' = [h \in Hooks |-> cache'[h]]
    BY <1>1 DEF Guessed, ClientInv, TypeInv
  <2> QED BY <1>8, <2>1
<1>10. TypeInv' /\ Hooks' = Hooks
  <2>1. \A n \in DOMAIN calls' :
           calls'[n].op \in DOMAIN Mutations /\ calls'[n].prev \in Answers
    BY <1>2, <1>3, <1>6 DEF ClientInv, TypeInv
  <2>2. rows' \in Table /\ missed' \subseteq Hooks /\ TypeInv
    BY <1>1 DEF ClientInv, TypeInv
  <2> QED BY <1>1, <1>8, <1>9, <2>1, <2>2, TypesKept
<1>11. \A h : Awaited(h) => Awaited(h)'
  <2> SUFFICES ASSUME NEW h, NEW n \in DOMAIN calls, Reaches(calls[n].op, h),
                      calls[n].served \/ Mutations[calls[n].op].optimistic
               PROVE  Awaited(h)'
    BY DEF Awaited
  <2>1. n \in DOMAIN calls'
    BY <1>3
  <2>2. Reaches(calls'[n].op, h)
    BY <1>3
  <2>3. calls'[n].served \/ Mutations[calls'[n].op].optimistic
    BY <1>3
  <2> QED BY <1>1, <1>10, <2>1, <2>2, <2>3, SameScreen
<1>12. ASSUME NEW h \in hooks PROVE Awaited(h)'
  <2>1. m.optimistic /\ Reaches(p.op, h)
    BY <1>12 DEF Dropped, Reaches
  <2>2. k + 1 \in DOMAIN calls' /\ Reaches(calls'[k + 1].op, h)
    BY <1>3, <2>1
  <2>3. Mutations[calls'[k + 1].op].optimistic
    BY <1>3, <2>1
  <2> QED BY <1>1, <1>10, <2>2, <2>3, SameScreen
<1>13. ASSUME NEW h \in Hooks \ missed'
       PROVE  \/ Awaited(h)'
              \/ h \notin missed /\ ~Awaited(h) /\ cache'[h] = cache[h]
  <2> HIDE DEF hooks
  <2> QED BY <1>1, <1>8, <1>11, <1>12
<1> QED BY <1>1, <1>10, <1>13, OwnKept DEF ClientInv

\* Every step keeps the invariant.
LEMMA NextClient == ClientInv /\ [ClientNext]_clientvars => ClientInv'
<1> SUFFICES ASSUME ClientInv, [ClientNext]_clientvars PROVE ClientInv'
    OBVIOUS
<1>1. DraftInv'
    BY NextDrafts DEF ClientInv
<1>2. ASSUME BackendStep PROVE TypeInv' /\ OwnInv'
    BY <1>2, ServeFetchStep, ServeCallStep DEF BackendStep
<1>3. ASSUME FetchStep PROVE TypeInv' /\ OwnInv'
    BY <1>3, DeliverFetchStep, FailFetchStep DEF FetchStep
<1>4. ASSUME CallStep PROVE TypeInv' /\ OwnInv'
    BY <1>4, AnswerCallStep, FailCallStep DEF CallStep
<1>5. ASSUME UserStep PROVE TypeInv' /\ OwnInv'
  <2>1. ASSUME NEW form \in Forms, Type(form) PROVE TypeInv' /\ OwnInv'
    BY <2>1, IdleStep DEF Type
  <2>2. ASSUME NEW p \in Presses, Turns(p) PROVE TypeInv' /\ OwnInv'
    BY <2>2, IdleStep DEF Turns
  <2> QED BY <1>5, <2>1, <2>2, LooksStep, ActsStep DEF UserStep
<1>6. ASSUME UNCHANGED clientvars PROVE TypeInv' /\ OwnInv'
    BY <1>6, IdleStep DEF clientvars
<1>7. TypeInv' /\ OwnInv'
    BY <1>2, <1>3, <1>4, <1>5, <1>6 DEF ClientNext
<1> QED BY <1>1, <1>7 DEF ClientInv

\* And every screen opens in it.
LEMMA InitClient == ClientInit => ClientInv
BY InitDrafts, InitTypes DEF ClientInv

-----------------------------------------------------------------------------
(* The theorems about the screens *)

\* What was typed once is never in two calls at once, on any screen of either
\* client: the isPending of its button, or the form cleared as it sends, is
\* enough against second presses, reopened sheets and late answers.
THEOREM OneCallForADraft == ClientSpec => []OneCallPerDraft
<1>1. DraftInv => OneCallPerDraft
    BY DEF DraftInv
<1> QED BY InitDrafts, NextDrafts, <1>1, PTL DEF ClientSpec

\* Every state of every screen has its type: the cache holds an entry for each
\* query, an answer is on its way only for a fetch that was served, every call
\* is of a mutation of the client.
THEOREM ClientTyped == ClientSpec => []ClientTypeOK
<1>1. ASSUME ClientInv PROVE ClientTypeOK
  <2>1. /\ at \in Screens /\ rows \in Table /\ ui \in Ui /\ missed \subseteq Hooks
        /\ \A n \in DOMAIN calls : calls[n].op \in DOMAIN Mutations
    BY <1>1 DEF ClientInv, DraftInv, TypeInv
  <2>2. /\ cache \in [Hooks -> [data : Answers, failed : BOOLEAN,
                                fetch : {"idle", "asked", "read"}, got : Answers]]
        /\ \A h \in Hooks : (cache[h].got # <<>>) = (cache[h].fetch = "read")
    BY <1>1 DEF ClientInv, TypeInv, Entry, Carries
  <2>3. \A form \in Forms : ui.full[form] \in 0..drafts
    BY <1>1 DEF ClientInv, DraftInv, Ui
  <2> QED BY <2>1, <2>2, <2>3 DEF ClientTypeOK
<1> QED BY InitClient, NextClient, <1>1, PTL DEF ClientSpec

\* Once no call is in flight a query at rest shows the backend's table, on any
\* screen of either client, unless it failed or the change was missed: the
\* keys the mutations drop are those the queries are kept under.
THEOREM WritesShow == ClientSpec => []ShowsOwnWrites
<1>1. ASSUME ClientInv PROVE ShowsOwnWrites
  <2>1. calls = <<>> => \A h : ~Awaited(h)
    BY DEF Awaited
  <2> QED BY <1>1, <2>1 DEF ShowsOwnWrites, ClientInv, OwnInv, Settled
<1> QED BY InitClient, NextClient, <1>1, PTL DEF ClientSpec
=============================================================================
