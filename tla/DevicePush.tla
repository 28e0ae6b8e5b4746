----------------------------- MODULE DevicePush -----------------------------
(***************************************************************************)
(* Push notifications on one phone that several users may sign in on: the  *)
(* registration and unregistration of the app (services/push.ts, started   *)
(* by login and logout of the auth store), the DeviceToken row of the      *)
(* backend (PushService) and the pushes that NotificationService sends     *)
(* through Expo.  The phone has one Expo push token, which is valid while  *)
(* the app is installed; a reinstalled app gets it back.                   *)
(***************************************************************************)
EXTENDS Naturals

CONSTANTS
    User, NoUser,
    Registration,     \* runs of registerForPushNotifications
    Push,             \* notifications sent as pushes
    MaxLogins         \* bound: sign-ins in a behaviour

ASSUME PushAssumption == NoUser \notin User /\ MaxLogins \in Nat

VARIABLES
    session,      \* the user of the access token in the secure store
    cached,       \* whether cachedToken is set
    installed,    \* whether Expo can reach the app
    logout,       \* the logout in progress
    deletes,      \* users whose DELETE /push/tokens is on its way
    row,          \* the DeviceToken row of the phone's token
    reg,          \* the registrations
    push,         \* the pushes
    logins,       \* sign-ins so far
    served,       \* the user whose registration was stored last, if the app
                  \* has not been removed since
    excused,      \* users whose sign-out could not silence the phone
    stands        \* a registration of the signed-in user is stored, with no
                  \* call on its way that undoes it

vars == <<session, cached, installed, logout, deletes, row, reg, push, logins,
          served, excused, stands>>

-----------------------------------------------------------------------------
(* Types *)

NoRow == [state |-> "absent", user |-> NoUser]
Row == {NoRow} \cup [state : {"active", "inactive"}, user : User]

RegIdle == [at |-> "idle"]
\* "token": on the phone, before POST /push/register; "find" and "write": in
\* the backend, on behalf of the user whose access token went along.
Reg == {RegIdle} \cup [at : {"token"}]
       \cup [at : {"find"}, user : User]
       \cup [at : {"write"}, user : User, found : BOOLEAN]

PushIdle == [at |-> "idle"]
\* since: no registration has been stored after the tokens were read.
PushCall == {PushIdle, [at |-> "done"]}
       \cup [at : {"posted"}, since : BOOLEAN]
       \cup [at : {"error"}, since : BOOLEAN, error : {"DeviceNotRegistered", "other"}]

TypeOK ==
    /\ session \in User \cup {NoUser}
    /\ cached \in BOOLEAN
    /\ installed \in BOOLEAN
    /\ logout \in {"no", "unregister", "revoke"}
    /\ deletes \in SUBSET User
    /\ row \in Row
    /\ reg \in [Registration -> Reg]
    /\ push \in [Push -> PushCall]
    /\ logins \in 0 .. MaxLogins
    /\ served \in User \cup {NoUser}
    /\ excused \in SUBSET User
    /\ stands \in BOOLEAN

Init ==
    /\ session = NoUser
    /\ cached = FALSE
    /\ installed = TRUE
    /\ logout = "no"
    /\ deletes = {}
    /\ row = NoRow
    /\ reg = [r \in Registration |-> RegIdle]
    /\ push = [p \in Push |-> PushIdle]
    /\ logins = 0
    /\ served = NoUser
    /\ excused = {}
    /\ stands = FALSE

\* A registration that may still be stored for u.
Pending(u) ==
    \E r \in Registration :
        \/ reg[r].at = "token"
        \/ reg[r].at \in {"find", "write"} /\ reg[r].user = u

\* What can still take the phone from u: a registration of another user in the
\* backend, a DELETE of u's own, a push that Expo refused to the app as it was.
Threatened(u) ==
    \/ \E r \in Registration : reg[r].at \in {"find", "write"} /\ reg[r].user # u
    \/ u \in deletes
    \/ \E p \in Push : push[p].at = "error" /\ push[p].error = "DeviceNotRegistered"

-----------------------------------------------------------------------------
(* The phone *)

\* login and register store the tokens and start a registration, which they
\* do not wait for; one that lacks the permission ends at once.
Login(u) ==
    /\ session = NoUser
    /\ installed
    /\ logins < MaxLogins
    /\ session' = u
    /\ logins' = logins + 1
    /\ \/ \E r \in Registration :
              reg[r] = RegIdle /\ reg' = [reg EXCEPT ![r] = [at |-> "token"]]
       \/ UNCHANGED reg
    /\ excused' = excused \ {u}
    /\ stands' = FALSE
    /\ UNCHANGED <<cached, installed, logout, deletes, row, push, served>>

\* The token is in the cache or Expo gives one; the POST carries the access
\* token that is stored when it is sent, and without one it is refused.
PostToken(r) ==
    /\ reg[r].at = "token"
    /\ cached' = TRUE
    /\ reg' = [reg EXCEPT ![r] =
                 IF session = NoUser THEN RegIdle ELSE [at |-> "find", user |-> session]]
    /\ UNCHANGED <<session, installed, logout, deletes, row, push, logins, served,
                   excused, stands>>

\* Expo gives no token, or the POST does not get through: only logged.
GiveUp(r) ==
    /\ reg[r].at \in {"token", "find"}
    /\ \/ reg[r].at = "token" /\ UNCHANGED cached
       \/ cached' = TRUE
    /\ reg' = [reg EXCEPT ![r] = RegIdle]
    /\ UNCHANGED <<session, installed, logout, deletes, row, push, logins, served,
                   excused, stands>>

\* Mutant of BeginLogout: the cached token is dropped before it is used.
BeginLogoutForgetful ==
    /\ session # NoUser
    /\ logout = "no"
    /\ logout' = "revoke"
    /\ cached' = FALSE
    /\ excused' = IF cached THEN excused ELSE excused \cup {session}
    /\ stands' = FALSE
    /\ UNCHANGED <<session, installed, deletes, row, reg, push, logins, served>>

\* logout unregisters first; without a cached token, as after a restart of
\* the app, there is nothing to unregister.
BeginLogout ==
    /\ session # NoUser
    /\ logout = "no"
    /\ IF cached
       THEN /\ logout' = "unregister"
            /\ deletes' = deletes \cup {session}
            /\ UNCHANGED excused
       ELSE /\ logout' = "revoke"
            /\ excused' = excused \cup {session}
            /\ UNCHANGED deletes
    /\ stands' = FALSE
    /\ UNCHANGED <<session, cached, installed, row, reg, push, logins, served>>

\* The answer to the DELETE, or the client's timeout with the request still
\* on its way; cachedToken is cleared either way.
Unregistered ==
    /\ logout = "unregister"
    /\ logout' = "revoke"
    /\ cached' = FALSE
    /\ excused' = IF session \in deletes THEN excused \cup {session} ELSE excused
    /\ UNCHANGED <<session, installed, deletes, row, reg, push, logins, served, stands>>

\* The backend's logout is asked for and its answer ignored; the stored
\* tokens go, and with them the user.
ClearSession ==
    /\ logout = "revoke"
    /\ session' = NoUser
    /\ logout' = "no"
    /\ stands' = FALSE
    /\ UNCHANGED <<cached, installed, deletes, row, reg, push, logins, served, excused>>

\* loadUser finds the session refused and clears it, with no unregistration.
SessionRefused ==
    /\ session # NoUser
    /\ logout = "no"
    /\ session' = NoUser
    /\ excused' = excused \cup {session}
    /\ stands' = FALSE
    /\ UNCHANGED <<cached, installed, logout, deletes, row, reg, push, logins, served>>

\* The app is killed: the module's cache and whatever it was doing are gone,
\* the stored session is not.
Restart ==
    /\ cached \/ logout # "no" \/ \E r \in Registration : reg[r].at = "token"
    /\ cached' = FALSE
    /\ logout' = "no"
    /\ reg' = [r \in Registration |-> IF reg[r].at = "token" THEN RegIdle ELSE reg[r]]
    /\ UNCHANGED <<session, installed, deletes, row, push, logins, served, excused,
                   stands>>

Uninstall ==
    /\ installed
    /\ installed' = FALSE
    /\ session' = NoUser
    /\ cached' = FALSE
    /\ logout' = "no"
    /\ served' = NoUser
    /\ excused' = excused \cup ({session} \ {NoUser})
    /\ reg' = [r \in Registration |-> IF reg[r].at = "token" THEN RegIdle ELSE reg[r]]
    /\ stands' = FALSE
    /\ UNCHANGED <<deletes, row, push, logins>>

Reinstall ==
    /\ ~installed
    /\ installed' = TRUE
    /\ UNCHANGED <<session, cached, logout, deletes, row, reg, push, logins, served,
                   excused, stands>>

-----------------------------------------------------------------------------
(* The backend *)

FindToken(r) ==
    /\ reg[r].at = "find"
    /\ reg' = [reg EXCEPT ![r] =
                 [at |-> "write", user |-> reg[r].user, found |-> row # NoRow]]
    /\ UNCHANGED <<session, cached, installed, logout, deletes, row, push, logins,
                   served, excused, stands>>

\* A known token moves to the user and is active again; a new one is
\* created, unless another registration created it first (unique token).
StoreToken(r) ==
    /\ reg[r].at = "write"
    /\ IF reg[r].found \/ row = NoRow
       THEN /\ row' = [state |-> "active", user |-> reg[r].user]
            /\ served' = IF installed THEN reg[r].user ELSE NoUser
            /\ push' = [p \in Push |-> IF push[p].at \in {"posted", "error"}
                                       THEN [push[p] EXCEPT !.since = FALSE] ELSE push[p]]
            /\ stands' = IF reg[r].user = session
                         THEN logout = "no" /\ ~Threatened(session) ELSE stands
       ELSE UNCHANGED <<row, served, push, stands>>
    /\ reg' = [reg EXCEPT ![r] = RegIdle]
    /\ UNCHANGED <<session, cached, installed, logout, deletes, logins, excused>>

\* Mutant of UnregisterToken: a missing row is written all the same.
UnregisterBlindly(u) ==
    /\ u \in deletes
    /\ row' = IF row.user \in {u, NoUser} THEN [row EXCEPT !.state = "inactive"] ELSE row
    /\ deletes' = deletes \ {u}
    /\ UNCHANGED <<session, cached, installed, logout, reg, push, logins, served,
                   excused, stands>>

\* Mutant of UnregisterToken: the row is found by its token alone.
UnregisterWhosever(u) ==
    /\ u \in deletes
    /\ row' = IF row # NoRow THEN [row EXCEPT !.state = "inactive"] ELSE row
    /\ deletes' = deletes \ {u}
    /\ excused' = IF Pending(u) THEN excused \cup {u} ELSE excused
    /\ UNCHANGED <<session, cached, installed, logout, reg, push, logins, served, stands>>

\* unregisterToken touches the row only while it is the user's.
UnregisterToken(u) ==
    /\ u \in deletes
    /\ row' = IF row.user = u THEN [row EXCEPT !.state = "inactive"] ELSE row
    /\ deletes' = deletes \ {u}
    /\ excused' = IF Pending(u) THEN excused \cup {u} ELSE excused
    /\ UNCHANGED <<session, cached, installed, logout, reg, push, logins, served, stands>>

\* The DELETE is lost on its way.
LoseDelete(u) ==
    /\ u \in deletes
    /\ deletes' = deletes \ {u}
    /\ excused' = excused \cup {u}
    /\ UNCHANGED <<session, cached, installed, logout, row, reg, push, logins, served,
                   stands>>

\* create with sendPush: the user's active tokens are read and posted.
SendToUser(p) ==
    /\ push[p] = PushIdle
    /\ row.state = "active"
    /\ push' = [push EXCEPT ![p] = [at |-> "posted", since |-> TRUE]]
    /\ UNCHANGED <<session, cached, installed, logout, deletes, row, reg, logins,
                   served, excused, stands>>

\* Expo answers: it hands the push to the phone, refuses it, or the POST
\* fails and there are no tickets.
Ticket(p) ==
    /\ push[p].at = "posted"
    /\ \/ push' = [push EXCEPT ![p] = [at |-> "done"]]
       \/ \E e \in {"other"} \cup (IF installed THEN {} ELSE {"DeviceNotRegistered"}) :
              push' = [push EXCEPT ![p] = [at |-> "error", since |-> push[p].since,
                                           error |-> e]]
    /\ UNCHANGED <<session, cached, installed, logout, deletes, row, reg, logins,
                   served, excused, stands>>

\* Mutant of ProcessTickets: any refusal disables the token.
ProcessAnyTicket(p) ==
    /\ push[p].at = "error"
    /\ row' = [row EXCEPT !.state = "inactive"]
    /\ push' = [push EXCEPT ![p] = [at |-> "done"]]
    /\ UNCHANGED <<session, cached, installed, logout, deletes, reg, logins,
                   served, excused, stands>>

\* A token that is not registered any more is disabled by its row's id,
\* whoever it belongs to by now; other errors are logged.
ProcessTickets(p) ==
    /\ push[p].at = "error"
    /\ row' = IF push[p].error = "DeviceNotRegistered"
              THEN [row EXCEPT !.state = "inactive"] ELSE row
    /\ push' = [push EXCEPT ![p] = [at |-> "done"]]
    /\ UNCHANGED <<session, cached, installed, logout, deletes, reg, logins,
                   served, excused, stands>>

Next ==
    \/ \E u \in User : Login(u) \/ UnregisterToken(u) \/ LoseDelete(u)
    \/ BeginLogout \/ Unregistered \/ ClearSession \/ SessionRefused
    \/ Restart \/ Uninstall \/ Reinstall
    \/ \E r \in Registration : PostToken(r) \/ GiveUp(r) \/ FindToken(r) \/ StoreToken(r)
    \/ \E p \in Push : SendToUser(p) \/ Ticket(p) \/ ProcessTickets(p)

Spec == Init /\ [][Next]_vars

-----------------------------------------------------------------------------
(* Properties *)

\* A user who has signed out gets no more pushes on the phone, unless the
\* sign-out had no token to unregister (the app was restarted since the
\* registration), its DELETE failed or timed out, a registration was still
\* under way, or the session ended without a logout (auth.store logout,
\* loadUser; unregisterPushToken).
QuietAfterLogout ==
    \A u \in User \ excused :
        session # u /\ row.user = u => row.state = "inactive"

\* A refused push takes the phone of a user who is signed in and registered
\* out of service only if the registration was stored after the push was
\* posted: the refusal was for the app as it was before, but the row is
\* disabled by its id (PushService.processTickets).
TicketsDisableTheGone ==
    [][\A p \in Push :
          /\ push[p].at = "error" /\ push'[p].at = "done"
          /\ row.state = "active" /\ row'.state = "inactive"
          /\ session = row.user /\ served = session
          => ~push[p].since]_vars

\* Once a registration of the signed-in user is stored, the phone is theirs
\* until they sign out.  What its other users left under way takes it from
\* nobody: a DELETE that arrives late, pushes and their refusals, a registration
\* that had not been posted yet or that lost the race to create the row.  What
\* could take it was in the backend when the registration was stored
\* (Threatened), and the phone does not count as theirs then
\* (PushService.unregisterToken, registerToken, processTickets; auth.store).
SignedInIsServed == stands => row = [state |-> "active", user |-> session]
=============================================================================
