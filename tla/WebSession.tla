----------------------------- MODULE WebSession -----------------------------
(***************************************************************************)
(* The web app's server side: the route handlers that stand between a      *)
(* browser and the backend.  The browser keeps both tokens of a pair in    *)
(* httpOnly cookies; a handler works on the cookies its request carried    *)
(* and tells the browser what to do with them in its answer.  Requests     *)
(* run in parallel and their answers arrive in any order.                  *)
(***************************************************************************)
EXTENDS SessionBackend

CONSTANTS
    Req,      \* requests of the browser, each sent once
    Faults    \* "network": calls to the backend and answers get lost;
              \* "backend": it fails inside a refresh; "revoke": the user logs
              \* out everywhere on another device

ASSUME FaultAssumption == Faults \subseteq {"network", "backend", "revoke"}

VARIABLES
    jar,      \* the cookies mm_at and mm_rt
    req,      \* the handlers' local state
    effects   \* how often the backend has run each forwarded call

vars == <<rows, admitted, minted, root, jar, req, effects>>

-----------------------------------------------------------------------------
(* Types *)

Token == Pair \cup {NoPair}
Keep  == -1                 \* no Set-Cookie in the answer; NoPair clears
Kind  == {"none", "proxy", "login", "logout", "me"}
Pc    == {"idle", "forward", "refresh", "retry", "login", "logout", "me",
          "answered", "done"}
Answer == {"none", "ok", "error", "badGateway", "unauthorized"}

TypeOK ==
    /\ BackendTypeOK
    /\ jar \in [at : Token, rt : Token]
    /\ req \in [Req -> [kind : Kind, pc : Pc, at : Token, rt : Token,
                        new : Token, answer : Answer,
                        cookie : Token \cup {Keep}]]
    /\ effects \in [Req -> Nat]

\* The handler goes on, with the pair it has refreshed so far.
Continue(q, pc, new) ==
    req' = [req EXCEPT ![q] =
              [kind |-> @.kind, pc |-> pc, at |-> @.at, rt |-> @.rt,
               new |-> new, answer |-> "none", cookie |-> Keep]]

\* The handler returns.
Reply(q, answer, cookie) ==
    req' = [req EXCEPT ![q] =
              [kind |-> @.kind, pc |-> "answered", at |-> @.at, rt |-> @.rt,
               new |-> @.new, answer |-> answer, cookie |-> cookie]]

-----------------------------------------------------------------------------
(* The proxy.  An admitted call runs in the backend and succeeds or fails;  *)
(* its answer may be lost, or the call before it.                           *)

Ran(q, token) ==
    /\ token \in admitted
    /\ effects' = [effects EXCEPT ![q] = @ + 1]

Send(q, kind, pc) ==
    /\ req[q].pc = "idle"
    /\ req' = [req EXCEPT ![q] =
                 [kind |-> kind, pc |-> pc, at |-> jar.at, rt |-> jar.rt,
                  new |-> NoPair, answer |-> "none", cookie |-> Keep]]
    /\ UNCHANGED <<backend, jar, effects>>

SendProxy(q) ==
    /\ jar.at # NoPair \/ jar.rt # NoPair
    /\ Send(q, "proxy", IF jar.at # NoPair THEN "forward" ELSE "refresh")

Refused(q) ==
    IF req[q].rt # NoPair /\ req[q].new = NoPair
      THEN Continue(q, "refresh", NoPair)
      ELSE Reply(q, "unauthorized", Keep)

\* Mutant of Forward: every failure refreshes and retries, not only a 401.
ForwardRetriesAll(q) ==
    LET token == IF req[q].at # NoPair THEN req[q].at ELSE req[q].new IN
    /\ req[q].pc = "forward"
    /\ \/ /\ Ran(q, token)
          /\ Reply(q, "ok", IF req[q].new # NoPair THEN req[q].new ELSE Keep)
       \/ /\ token \in admitted
          /\ Ran(q, token) \/ UNCHANGED effects
          /\ Reply(q, "error", Keep)
       \/ token \notin admitted /\ UNCHANGED effects /\ Refused(q)
       \/ "network" \in Faults /\ Refused(q)
                               /\ (Ran(q, token) \/ UNCHANGED effects)
    /\ UNCHANGED <<backend, jar>>

\* Error answers do not hand on a pair that was refreshed before the call.
Forward(q) ==
    LET token == IF req[q].at # NoPair THEN req[q].at ELSE req[q].new IN
    /\ req[q].pc = "forward"
    /\ \/ /\ Ran(q, token)
          /\ Reply(q, "ok", IF req[q].new # NoPair THEN req[q].new ELSE Keep)
       \/ /\ token \in admitted
          /\ Ran(q, token) \/ UNCHANGED effects
          /\ Reply(q, "error", Keep)
       \/ token \notin admitted /\ UNCHANGED effects /\ Refused(q)
       \/ "network" \in Faults /\ Reply(q, "badGateway", Keep)
                               /\ (Ran(q, token) \/ UNCHANGED effects)
    /\ UNCHANGED <<backend, jar>>

\* attemptRefresh: any failure is null, and the cookies are cleared.
Refresh(q) ==
    /\ req[q].pc = "refresh"
    /\ \/ /\ Rotate(req[q].rt)
          /\ Continue(q, IF req[q].at = NoPair THEN "forward" ELSE "retry", Latest)
       \/ /\ Reply(q, "unauthorized", NoPair)
          /\ \/ req[q].rt \notin rows /\ UNCHANGED backend
             \/ "backend" \in Faults /\ RotateInVain(req[q].rt)
             \/ "network" \in Faults /\ (Rotate(req[q].rt) \/ UNCHANGED backend)
    /\ UNCHANGED <<jar, effects>>

Retry(q) ==
    /\ req[q].pc = "retry"
    /\ \/ Ran(q, req[q].new) /\ Reply(q, "ok", req[q].new)
       \/ /\ req[q].new \in admitted
          /\ Ran(q, req[q].new) \/ UNCHANGED effects
          /\ Reply(q, "error", req[q].new)
       \/ /\ req[q].new \notin admitted
          /\ UNCHANGED effects
          /\ Reply(q, "unauthorized", req[q].new)
       \/ "network" \in Faults /\ Reply(q, "badGateway", Keep)
                               /\ (Ran(q, req[q].new) \/ UNCHANGED effects)
    /\ UNCHANGED <<backend, jar>>

-----------------------------------------------------------------------------
(* The /api/auth routes *)

\* Login and register: the backend issues a session, or refuses to.
LoginRoute(q) ==
    /\ req[q].pc = "login"
    /\ \/ Login /\ Reply(q, "ok", Latest)
       \/ UNCHANGED backend /\ Reply(q, "error", Keep)
       \/ "network" \in Faults /\ Login /\ Reply(q, "error", Keep)
    /\ UNCHANGED <<jar, effects>>

\* The call to /auth/logout carries no access token: the guard refuses it and
\* the route ignores that.
LogoutRoute(q) ==
    /\ req[q].pc = "logout"
    /\ Reply(q, "ok", NoPair)
    /\ UNCHANGED <<backend, jar, effects>>

\* /api/auth/me does not refresh: a refused access token clears both cookies.
MeRoute(q) ==
    /\ req[q].pc = "me"
    /\ CASE req[q].at = NoPair -> Reply(q, "unauthorized", Keep)
         [] req[q].at \in admitted -> Reply(q, "ok", Keep)
         [] OTHER -> Reply(q, "unauthorized", NoPair)
    /\ UNCHANGED <<backend, jar, effects>>

MeFails(q) ==
    /\ "network" \in Faults
    /\ req[q].pc = "me"
    /\ req[q].at # NoPair
    /\ Reply(q, "error", Keep)
    /\ UNCHANGED <<backend, jar, effects>>

-----------------------------------------------------------------------------
(* The browser *)

\* Mutant of StoredBy: clearing sets the cookies to a value that is no token.
StoredByEmptying(cookie) ==
    LET value == IF cookie = NoPair THEN Keep ELSE cookie
    IN  [at |-> value, rt |-> value]

\* applyAuthCookies and clearAuthCookies write both cookies.
StoredBy(cookie) == [at |-> cookie, rt |-> cookie]

Deliver(q) ==
    /\ req[q].pc = "answered"
    /\ jar' = IF req[q].cookie = Keep THEN jar ELSE StoredBy(req[q].cookie)
    /\ req' = [req EXCEPT ![q].pc = "done"]
    /\ UNCHANGED <<backend, effects>>

LoseAnswer(q) ==
    /\ "network" \in Faults
    /\ req[q].pc = "answered"
    /\ req' = [req EXCEPT ![q].pc = "done"]
    /\ UNCHANGED <<backend, jar, effects>>

\* The access cookie's max-age runs out after its token has expired.
AccessCookieExpires ==
    /\ jar.at # NoPair
    /\ jar.at \notin admitted
    /\ jar' = [jar EXCEPT !.at = NoPair]
    /\ UNCHANGED <<backend, req, effects>>

AccessTokenExpires ==
    /\ \E n \in Pair : AgeOut(n)
    /\ UNCHANGED <<jar, req, effects>>

LogoutEverywhere ==
    /\ "revoke" \in Faults
    /\ RevokeAll
    /\ UNCHANGED <<jar, req, effects>>

-----------------------------------------------------------------------------

Init ==
    /\ BackendInit
    /\ jar = [at |-> NoPair, rt |-> NoPair]
    /\ req = [q \in Req |-> [kind |-> "none", pc |-> "idle", at |-> NoPair,
                             rt |-> NoPair, new |-> NoPair, answer |-> "none",
                             cookie |-> Keep]]
    /\ effects = [q \in Req |-> 0]

Browser(q) ==
    \/ SendProxy(q)
    \/ \E kind \in {"login", "logout", "me"} : Send(q, kind, kind)
    \/ Deliver(q)
    \/ LoseAnswer(q)

Handler(q) ==
    \/ Forward(q)
    \/ Refresh(q)
    \/ Retry(q)
    \/ LoginRoute(q)
    \/ LogoutRoute(q)
    \/ MeRoute(q)
    \/ MeFails(q)

Next ==
    \/ \E q \in Req : Browser(q) \/ Handler(q)
    \/ AccessCookieExpires
    \/ AccessTokenExpires
    \/ LogoutEverywhere

Spec == Init /\ [][Next]_vars

-----------------------------------------------------------------------------
(* Properties *)

\* The retry never repeats a call that the backend has run, and the browser is
\* told the truth: "ok" for a call that ran, a 401 for one that did not.
AnswerMatchesEffect ==
    \A q \in Req :
        /\ effects[q] <= 1
        /\ req[q].kind = "proxy" /\ req[q].answer = "ok" => effects[q] = 1
        /\ req[q].answer = "unauthorized" => effects[q] = 0

\* A late answer never rolls the browser back to an earlier token of the same
\* login: parallel refreshes of one token have one winner.
NoRollback ==
    [][jar'.rt # NoPair /\ jar'.rt < jar.rt => root[jar'.rt] # root[jar.rt]]_vars

=============================================================================
