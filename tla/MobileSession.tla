---------------------------- MODULE MobileSession ----------------------------
(***************************************************************************)
(* The mobile app's side of a session: the axios client with its refresh   *)
(* interceptor, and the auth store.  Tokens live in SecureStore, whose      *)
(* reads and writes are awaits of their own; the auth store holds a copy    *)
(* of the refresh token made at login.  The first request that gets a 401   *)
(* leads the refresh, those that get one meanwhile share its promise.       *)
(***************************************************************************)
EXTENDS SessionBackend

CONSTANTS
    Calls,    \* the app's API calls, each made once
    Logins,   \* its logins (registrations are the same)
    Logouts,  \* its logouts
    NoReq,    \* no refresh is in flight
    Faults    \* "network": a call or its answer gets lost; "backend": it fails
              \* inside a refresh; "revoke": logout everywhere elsewhere

Req == Calls \cup Logins \cup Logouts

ASSUME MobileAssumption ==
    /\ Calls \cap Logins = {}
    /\ Calls \cap Logouts = {}
    /\ Logins \cap Logouts = {}
    /\ NoReq \notin Req
    /\ Faults \subseteq {"network", "backend", "revoke"}

VARIABLES
    secure,   \* accessToken and refreshToken in SecureStore
    store,    \* refreshToken and isAuthenticated of the auth store
    promise,  \* refreshPromise: the request that leads the refresh
    req,      \* the requests in flight
    effects,  \* how often the backend has run each request
    ended     \* pairs a logout or a fault has cost the app; auxiliary

vars == <<rows, admitted, minted, root, secure, store, promise, req, effects,
          ended>>

-----------------------------------------------------------------------------
(* Types *)

Token == Pair \cup {NoPair}
Kind  == {"none", "call", "login", "logout"}
Pc    == {"idle", "sent", "waiting", "readRt", "refresh", "writeAt", "writeRt",
          "resend", "dropAt", "dropRt", "loginAt", "loginRt", "loginSet",
          "wipeAt", "wipeRt", "signOut", "ok", "error", "unauthorized"}

\* at: the token of the next send, or the new pair; rt: the refresh token the
\* leader presents; body: the one a logout names; tried: _retried.
Request == [kind : Kind, pc : Pc, at : Token, rt : Token, body : Token,
            tried : {"no", "yes"}]

TypeOK ==
    /\ BackendTypeOK
    /\ secure \in [at : Token, rt : Token]
    /\ store \in [rt : Token, auth : BOOLEAN]
    /\ promise \in Req \cup {NoReq}
    /\ req \in [Req -> Request]
    /\ effects \in [Req -> Nat]
    /\ ended \in SUBSET Pair

Goto(q, pc) == req' = [req EXCEPT ![q].pc = pc]

\* The request r as it goes on to `pc` with the token `at`.
At(r, pc, at) == [kind |-> r.kind, pc |-> pc, at |-> at, rt |-> r.rt,
                  body |-> r.body, tried |-> r.tried]

\* How a request ends: a logout ignores the outcome and wipes the tokens.
Settled(r, outcome) == IF r.kind = "logout" THEN "wipeAt" ELSE outcome

-----------------------------------------------------------------------------
(* Sending.  The request interceptor reads the access token. *)

Start(q, kind, body) ==
    /\ req[q].pc = "idle"
    /\ req' = [req EXCEPT ![q] = [kind |-> kind, pc |-> "sent",
                                  at |-> secure.at, rt |-> NoPair,
                                  body |-> body, tried |-> "no"]]
    /\ UNCHANGED <<backend, secure, store, promise, effects, ended>>

Call(q) == q \in Calls /\ store.auth /\ Start(q, "call", NoPair)

\* useAuthStore.login; register is the same.
LogIn(q) == q \in Logins /\ ~store.auth /\ Start(q, "login", NoPair)

\* useAuthStore.logout; without a refresh token it calls nobody.
LogOut(q) ==
    /\ q \in Logouts
    /\ store.auth
    /\ store.rt # NoPair
    /\ Start(q, "logout", store.rt)

\* The replay passes the request interceptor again.
Resend(q) ==
    /\ req[q].pc = "resend"
    /\ req' = [req EXCEPT ![q] =
                 [kind |-> @.kind, pc |-> "sent",
                  at |-> IF secure.at # NoPair THEN secure.at ELSE @.at,
                  rt |-> @.rt, body |-> @.body, tried |-> "yes"]]
    /\ UNCHANGED <<backend, secure, store, promise, effects, ended>>

-----------------------------------------------------------------------------
(* The backend's answer *)

\* An admitted call runs, or fails with something but a 401.
ServeCall(q) ==
    /\ req[q].pc = "sent"
    /\ req[q].kind = "call"
    /\ req[q].at \in admitted
    /\ \/ effects' = [effects EXCEPT ![q] = @ + 1] /\ Goto(q, "ok")
       \/ UNCHANGED effects /\ Goto(q, "error")
    /\ UNCHANGED <<backend, secure, store, promise, ended>>

ServeLogin(q) ==
    /\ req[q].pc = "sent"
    /\ req[q].kind = "login"
    /\ Login
    /\ req' = [req EXCEPT ![q] = At(@, "loginAt", Latest)]
    /\ UNCHANGED <<secure, store, promise, effects, ended>>

ServeLogout(q) ==
    /\ req[q].pc = "sent"
    /\ req[q].kind = "logout"
    /\ req[q].at \in admitted
    /\ Revoke(req[q].body)
    /\ ended' = ended \cup {req[q].body}
    /\ Goto(q, "wipeAt")
    /\ UNCHANGED <<secure, store, promise, effects>>

\* Mutant of Refused: every 401 starts a refresh of its own.
RefusedAlone(q) ==
    /\ req[q].pc = "sent"
    /\ req[q].kind # "login" => req[q].at \notin admitted
    /\ \/ req[q].tried = "yes"
          /\ Goto(q, Settled(req[q], "unauthorized"))
          /\ UNCHANGED promise
       \/ req[q].tried = "no" /\ Goto(q, "readRt") /\ promise' = q
    /\ UNCHANGED <<backend, secure, store, effects, ended>>

\* A 401: a token that is not admitted, or a wrong password.
Refused(q) ==
    /\ req[q].pc = "sent"
    /\ req[q].kind # "login" => req[q].at \notin admitted
    /\ \/ /\ req[q].tried = "yes"
          /\ Goto(q, Settled(req[q], "unauthorized"))
          /\ UNCHANGED promise
       \/ /\ req[q].tried = "no"
          /\ promise = NoReq
          /\ promise' = q
          /\ Goto(q, "readRt")
       \/ /\ req[q].tried = "no"
          /\ promise # NoReq
          /\ Goto(q, "waiting")
          /\ UNCHANGED promise
    /\ UNCHANGED <<backend, secure, store, effects, ended>>

\* Mutant of Unreachable: a timeout is retried like a 401.
UnreachableRetries(q) ==
    /\ "network" \in Faults
    /\ req[q].pc = "sent"
    /\ IF req[q].tried = "no" THEN Goto(q, "resend")
                              ELSE Goto(q, Settled(req[q], "error"))
    /\ \/ UNCHANGED <<backend, effects, ended>>
       \/ /\ req[q].kind = "call"
          /\ req[q].at \in admitted
          /\ effects' = [effects EXCEPT ![q] = @ + 1]
          /\ UNCHANGED <<backend, ended>>
    /\ UNCHANGED <<secure, store, promise>>

\* A timeout or a lost connection, before or after the backend ran the call.
Unreachable(q) ==
    /\ "network" \in Faults
    /\ req[q].pc = "sent"
    /\ Goto(q, Settled(req[q], "error"))
    /\ \/ UNCHANGED <<backend, effects, ended>>
       \/ /\ req[q].kind = "call"
          /\ req[q].at \in admitted
          /\ effects' = [effects EXCEPT ![q] = @ + 1]
          /\ UNCHANGED <<backend, ended>>
       \/ req[q].kind = "login" /\ Login /\ UNCHANGED <<effects, ended>>
       \/ /\ req[q].kind = "logout"
          /\ req[q].at \in admitted
          /\ Revoke(req[q].body)
          /\ ended' = ended \cup {req[q].body}
          /\ UNCHANGED effects
    /\ UNCHANGED <<secure, store, promise>>

-----------------------------------------------------------------------------
(* refreshAccessToken.  When the promise settles, the leader and everyone   *)
(* who waits for it go on: to replay with a new token, to fail as the       *)
(* original request did, or to drop both tokens first.                      *)

Sharing(q, r) == r = q \/ req[r].pc = "waiting"

Settle(q, next) ==
    /\ promise' = NoReq
    /\ req' = [r \in Req |-> IF Sharing(q, r) THEN next[r] ELSE req[r]]

ReadRefreshToken(q) ==
    /\ req[q].pc = "readRt"
    /\ IF secure.rt = NoPair
         THEN Settle(q, [r \in Req |-> At(req[r], Settled(req[r], "unauthorized"),
                                     req[r].at)])
         ELSE /\ req' = [req EXCEPT ![q] =
                           [kind |-> @.kind, pc |-> "refresh", at |-> @.at,
                            rt |-> secure.rt, body |-> @.body,
                            tried |-> @.tried]]
              /\ UNCHANGED promise
    /\ UNCHANGED <<backend, secure, store, effects, ended>>

RefreshAccepted(q) ==
    /\ req[q].pc = "refresh"
    /\ Rotate(req[q].rt)
    /\ req' = [req EXCEPT ![q] = At(@, "writeAt", Latest)]
    /\ UNCHANGED <<secure, store, promise, effects, ended>>

RefreshFailed(q) ==
    /\ req[q].pc = "refresh"
    /\ \/ req[q].rt \notin rows /\ UNCHANGED <<backend, ended>>
       \/ /\ \/ "network" \in Faults /\ (Rotate(req[q].rt) \/ UNCHANGED backend)
             \/ "backend" \in Faults /\ RotateInVain(req[q].rt)
          /\ ended' = ended \cup {req[q].rt}
    /\ Settle(q, [r \in Req |-> At(req[r], "dropAt", req[r].at)])
    /\ UNCHANGED <<secure, store, effects>>

\* Mutant of WriteAccessToken: the tokens are looked for outside the envelope,
\* and undefined (-1 here) is stored.
WriteAccessTokenUndefined(q) ==
    /\ req[q].pc = "writeAt"
    /\ secure' = [secure EXCEPT !.at = -1]
    /\ Goto(q, "writeRt")
    /\ UNCHANGED <<backend, store, promise, effects, ended>>

WriteAccessToken(q) ==
    /\ req[q].pc = "writeAt"
    /\ secure' = [secure EXCEPT !.at = req[q].at]
    /\ Goto(q, "writeRt")
    /\ UNCHANGED <<backend, store, promise, effects, ended>>

\* Mutant of WriteRefreshToken: only the access token is stored.
WriteRefreshTokenForgets(q) ==
    /\ req[q].pc = "writeRt"
    /\ Settle(q, [r \in Req |-> At(req[r], "resend", req[q].at)])
    /\ UNCHANGED <<backend, secure, store, effects, ended>>

WriteRefreshToken(q) ==
    /\ req[q].pc = "writeRt"
    /\ secure' = [secure EXCEPT !.rt = req[q].at]
    /\ Settle(q, [r \in Req |-> At(req[r], "resend", req[q].at)])
    /\ UNCHANGED <<backend, store, effects, ended>>

\* Every request whose refresh failed deletes both tokens.
DropTokens(q) ==
    /\ \/ /\ req[q].pc = "dropAt"
          /\ secure' = [secure EXCEPT !.at = NoPair]
          /\ Goto(q, "dropRt")
       \/ /\ req[q].pc = "dropRt"
          /\ secure' = [secure EXCEPT !.rt = NoPair]
          /\ Goto(q, Settled(req[q], "unauthorized"))
    /\ UNCHANGED <<backend, store, promise, effects, ended>>

-----------------------------------------------------------------------------
(* The rest of login and logout *)

FinishLogin(q) ==
    /\ \/ /\ req[q].pc = "loginAt"
          /\ secure' = [secure EXCEPT !.at = req[q].at]
          /\ Goto(q, "loginRt")
          /\ UNCHANGED store
       \/ /\ req[q].pc = "loginRt"
          /\ secure' = [secure EXCEPT !.rt = req[q].at]
          /\ Goto(q, "loginSet")
          /\ UNCHANGED store
       \/ /\ req[q].pc = "loginSet"
          /\ store' = [rt |-> req[q].at, auth |-> TRUE]
          /\ Goto(q, "ok")
          /\ UNCHANGED secure
    /\ UNCHANGED <<backend, promise, effects, ended>>

FinishLogout(q) ==
    /\ \/ /\ req[q].pc = "wipeAt"
          /\ secure' = [secure EXCEPT !.at = NoPair]
          /\ Goto(q, "wipeRt")
          /\ UNCHANGED store
       \/ /\ req[q].pc = "wipeRt"
          /\ secure' = [secure EXCEPT !.rt = NoPair]
          /\ Goto(q, "signOut")
          /\ UNCHANGED store
       \/ /\ req[q].pc = "signOut"
          /\ store' = [rt |-> NoPair, auth |-> FALSE]
          /\ Goto(q, "ok")
          /\ UNCHANGED secure
    /\ UNCHANGED <<backend, promise, effects, ended>>

-----------------------------------------------------------------------------
(* Elsewhere *)

AccessTokenExpires ==
    /\ \E n \in Pair : AgeOut(n)
    /\ UNCHANGED <<secure, store, promise, req, effects, ended>>

LogoutEverywhere ==
    /\ "revoke" \in Faults
    /\ RevokeAll
    /\ ended' = ended \cup rows
    /\ UNCHANGED <<secure, store, promise, req, effects>>

Init ==
    /\ BackendInit
    /\ secure = [at |-> NoPair, rt |-> NoPair]
    /\ store = [rt |-> NoPair, auth |-> FALSE]
    /\ promise = NoReq
    /\ req = [q \in Req |-> [kind |-> "none", pc |-> "idle", at |-> NoPair,
                             rt |-> NoPair, body |-> NoPair, tried |-> "no"]]
    /\ effects = [q \in Req |-> 0]
    /\ ended = {}

Step(q) ==
    \/ Call(q) \/ LogIn(q) \/ LogOut(q) \/ Resend(q)
    \/ ServeCall(q) \/ ServeLogin(q) \/ ServeLogout(q)
    \/ Refused(q) \/ Unreachable(q)
    \/ ReadRefreshToken(q) \/ RefreshAccepted(q) \/ RefreshFailed(q)
    \/ WriteAccessToken(q) \/ WriteRefreshToken(q) \/ DropTokens(q)
    \/ FinishLogin(q) \/ FinishLogout(q)

Next ==
    \/ \E q \in Req : Step(q)
    \/ AccessTokenExpires
    \/ LogoutEverywhere

Spec == Init /\ [][Next]_vars

-----------------------------------------------------------------------------
(* Properties *)

\* The replay after a refresh never repeats a call the backend has run; a call
\* that succeeds ran once, one that fails with a 401 not at all.
ReplayRunsOnce ==
    \A q \in Req : req[q].kind = "call" =>
        /\ effects[q] <= 1
        /\ req[q].pc = "ok" => effects[q] = 1
        /\ req[q].pc = "unauthorized" => effects[q] = 0

\* The app never sits on a refresh token that its own refresh has used up,
\* unless the new pair is just being written or was lost to a fault.
DeadTokenExplained ==
    secure.rt # NoPair /\ secure.rt \notin rows =>
        \/ secure.rt \in ended
        \/ \E q \in Req : /\ req[q].pc \in {"writeAt", "writeRt"}
                          /\ req[q].rt = secure.rt

\* Sharing the promise is serialisation enough: a refresh never presents a
\* token that another request of the app has used up.
NeverReplaysRefreshToken ==
    \A q \in Req : req[q].pc = "refresh" /\ req[q].rt \notin rows
        => req[q].rt \in ended
=============================================================================
