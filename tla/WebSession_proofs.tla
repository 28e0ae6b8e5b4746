-------------------------- MODULE WebSession_proofs --------------------------
(***************************************************************************)
(* Theorems about WebSession for any number of parallel requests and of    *)
(* pairs.  That no answer rolls the browser back rests on two facts: the   *)
(* pairs of one login form a chain of which the backend stores at most the *)
(* last link, and a pair that a handler has got and the browser has not    *)
(* cannot be presented by anyone, so that it stays the last.               *)
(***************************************************************************)
EXTENDS WebSession, TLAPS

(* What a handler does to the backend *)

\* A handler has run nothing before it answers, and the routes of a session
\* are not proxied calls.
NothingRunYet ==
    \A q \in Req :
        /\ req[q].pc \notin {"answered", "done"}
             => effects[q] = 0 /\ req[q].answer = "none"
        /\ req[q].pc \in {"login", "logout", "me"} => req[q].kind # "proxy"

(* The chain of a login *)

Made == 1 .. minted

\* The pair n is the last of its login.
Tip(n) == \A m \in Made : root[m] = root[n] => m <= n

\* Handler q has got the pair n, which may yet reach the browser.
Holds(q, n) ==
    \/ req[q].pc \in {"forward", "retry"} /\ req[q].new = n
    \/ req[q].pc = "answered" /\ req[q].cookie = n

\* Every pair descends from a login that has taken place.
RootsMade == \A n \in Made : root[n] \in Made

\* No token is seen before it is minted.
TokensMade ==
    /\ rows \subseteq Made
    /\ jar.rt \in Made \cup {NoPair}
    /\ \A q \in Req : /\ req[q].rt \in Made \cup {NoPair}
                      /\ \A n \in Pair : Holds(q, n) => n \in Made

\* The backend stores no pair but the last of its login.
RowsAreTips == \A n \in rows : Tip(n)

\* A pair on its way to the browser is known to one handler only.
HeldByOne ==
    \A q \in Req, n \in Pair : Holds(q, n) =>
        /\ n # jar.rt
        /\ \A p \in Req : req[p].rt # n /\ (Holds(p, n) => p = q)

\* A pair on its way to the browser is the last of its login.
HeldIsTip == \A q \in Req, n \in Pair : Holds(q, n) => Tip(n)

IInv ==
    /\ TypeOK
    /\ NothingRunYet
    /\ AnswerMatchesEffect
    /\ RootsMade
    /\ TokensMade
    /\ RowsAreTips
    /\ HeldByOne
    /\ HeldIsTip

-----------------------------------------------------------------------------

\* The browser has no cookies, and no pair has been minted.
LEMMA InitIInv == Init => IInv
<1> SUFFICES ASSUME Init PROVE IInv
    OBVIOUS
<1> USE PairAssumption, FaultAssumption
    DEF Init, BackendInit, Pair, NoPair, Keep, Made
<1>1. TypeOK
    BY DEF TypeOK, BackendTypeOK, Token, Kind, Pc, Answer
<1>2. NothingRunYet /\ AnswerMatchesEffect
    BY DEF NothingRunYet, AnswerMatchesEffect
<1>3. RootsMade /\ TokensMade /\ RowsAreTips /\ HeldByOne /\ HeldIsTip
    BY DEF RootsMade, TokensMade, RowsAreTips, HeldByOne, HeldIsTip, Holds
<1> QED
    BY <1>1, <1>2, <1>3 DEF IInv

(* Types *)

Handlers ==
    [Req -> [kind : Kind, pc : Pc, at : Token, rt : Token, new : Token,
             answer : Answer, cookie : Token \cup {Keep}]]

\* A handler that goes on or returns stays one.
LEMMA ReplyType ==
    ASSUME TypeOK, NEW q \in Req, NEW answer \in Answer,
           NEW cookie \in Token \cup {Keep}, Reply(q, answer, cookie)
    PROVE  req' \in Handlers
    BY DEF TypeOK, Reply, Handlers, Pc

LEMMA ContinueType ==
    ASSUME TypeOK, NEW q \in Req, NEW pc \in Pc, NEW new \in Token,
           Continue(q, pc, new)
    PROVE  req' \in Handlers
    BY DEF TypeOK, Continue, Handlers, Answer

LEMMA RefusedType ==
    ASSUME TypeOK, NEW q \in Req, Refused(q)
    PROVE  req' \in Handlers
<1>1. CASE Continue(q, "refresh", NoPair)
    BY <1>1, ContinueType DEF Pc, Token
<1>2. CASE Reply(q, "unauthorized", Keep)
    BY <1>2, ReplyType DEF Answer
<1> QED
    BY <1>1, <1>2 DEF Refused

LEMMA RanType ==
    ASSUME TypeOK, NEW q \in Req, NEW token,
           Ran(q, token) \/ UNCHANGED effects
    PROVE  effects' \in [Req -> Nat]
    BY DEF TypeOK, Ran

\* What the session service does to its state keeps it typed.
LEMMA MintType ==
    ASSUME TypeOK, NEW login \in Pair \cup {NoPair}, NEW kept \in SUBSET Pair,
           Mint(login, kept)
    PROVE  BackendTypeOK' /\ Latest \in Pair
<1> USE PairAssumption DEF TypeOK, BackendTypeOK, Mint, Latest, Pair
<1>1. Latest \in Pair /\ minted' \in 0 .. MaxPair
    OBVIOUS
<1>2. rows' \in SUBSET Pair /\ admitted' \in SUBSET Pair
    BY <1>1
<1>3. root' \in [Pair -> Pair \cup {NoPair}]
    OBVIOUS
<1> QED
    BY <1>1, <1>2, <1>3

LEMMA RotateType ==
    ASSUME TypeOK, NEW rt, Rotate(rt)
    PROVE  BackendTypeOK' /\ Latest \in Pair
<1>1. root[rt] \in Pair \cup {NoPair} /\ rows \ {rt} \in SUBSET Pair
    BY DEF Rotate, TypeOK, BackendTypeOK
<1> QED
    BY <1>1, MintType DEF Rotate

LEMMA LoginType ==
    ASSUME TypeOK, Login
    PROVE  BackendTypeOK' /\ Latest \in Pair
<1>1. Latest \in Pair /\ rows \in SUBSET Pair
    BY PairAssumption DEF Login, Mint, Latest, TypeOK, BackendTypeOK, Pair
<1> QED
    BY <1>1, MintType DEF Login

LEMMA SameBackendType ==
    ASSUME TypeOK,
           UNCHANGED backend \/ \E rt \in Pair : RotateInVain(rt)
    PROVE  BackendTypeOK'
    BY DEF TypeOK, BackendTypeOK, backend, RotateInVain

\* Every step keeps the types.
LEMMA TypeStep ==
    ASSUME TypeOK, [Next]_vars
    PROVE  TypeOK'
<1> SUFFICES BackendTypeOK' /\ jar' \in [at : Token, rt : Token]
                /\ req' \in Handlers /\ effects' \in [Req -> Nat]
    BY DEF TypeOK, BackendTypeOK, Handlers
<1>1. UNCHANGED jar => jar' \in [at : Token, rt : Token]
    BY DEF TypeOK
<1>2. UNCHANGED effects => effects' \in [Req -> Nat]
    BY DEF TypeOK
<1>3. UNCHANGED req => req' \in Handlers
    BY DEF TypeOK, Handlers
<1>4. UNCHANGED backend => BackendTypeOK'
    BY SameBackendType
<1>5. ASSUME NEW q \in Req, NEW kind \in Kind, NEW pc \in Pc, Send(q, kind, pc)
      PROVE  req' \in Handlers /\ UNCHANGED <<backend, jar, effects>>
    BY <1>5 DEF Send, TypeOK, Handlers, Token, Answer
<1>6. ASSUME NEW q \in Req, Browser(q)
      PROVE  BackendTypeOK' /\ jar' \in [at : Token, rt : Token]
                /\ req' \in Handlers /\ effects' \in [Req -> Nat]
  <2>1. CASE SendProxy(q)
      BY <2>1, <1>1, <1>2, <1>4, <1>5 DEF SendProxy, Kind, Pc
  <2>2. ASSUME NEW kind \in {"login", "logout", "me"}, Send(q, kind, kind)
        PROVE  BackendTypeOK' /\ jar' \in [at : Token, rt : Token]
                  /\ req' \in Handlers /\ effects' \in [Req -> Nat]
      BY <2>2, <1>1, <1>2, <1>4, <1>5 DEF Kind, Pc
  <2>3. CASE Deliver(q)
    <3>1. req[q].cookie \in Token \cup {Keep}
        BY DEF TypeOK
    <3>2. jar' \in [at : Token, rt : Token]
        BY <2>3, <3>1, <1>1 DEF Deliver, StoredBy
    <3>3. req' \in Handlers
        BY <2>3 DEF Deliver, TypeOK, Handlers, Pc
    <3> QED
        BY <2>3, <3>2, <3>3, <1>2, <1>4 DEF Deliver
  <2>4. CASE LoseAnswer(q)
    <3>1. req' \in Handlers
        BY <2>4 DEF LoseAnswer, TypeOK, Handlers, Pc
    <3> QED
        BY <2>4, <3>1, <1>1, <1>2, <1>4 DEF LoseAnswer
  <2> QED
      BY <1>6, <2>1, <2>2, <2>3, <2>4 DEF Browser
<1>7. ASSUME NEW q \in Req, Handler(q)
      PROVE  BackendTypeOK' /\ jar' \in [at : Token, rt : Token]
                /\ req' \in Handlers /\ effects' \in [Req -> Nat]
  <2>1. /\ {"ok", "error", "unauthorized", "badGateway"} \subseteq Answer
        /\ {Keep, NoPair, req[q].new} \subseteq Token \cup {Keep}
        /\ req[q].rt \in Token
      BY DEF TypeOK, Answer, Token
  <2>2. CASE Forward(q)
    <3>1. req' \in Handlers
        BY <2>1, <2>2, ReplyType, RefusedType DEF Forward
    <3>2. effects' \in [Req -> Nat]
        BY <2>2, RanType DEF Forward
    <3> QED
        BY <2>2, <3>1, <3>2, <1>1, <1>4 DEF Forward
  <2>3. CASE Refresh(q)
    <3>1. CASE Rotate(req[q].rt)
               /\ Continue(q, IF req[q].at = NoPair THEN "forward" ELSE "retry",
                           Latest)
      <4>1. req' \in Handlers
          BY <3>1, RotateType, ContinueType DEF Pc, Token
      <4> QED
          BY <2>3, <3>1, <4>1, RotateType, <1>1, <1>2 DEF Refresh
    <3>2. CASE Reply(q, "unauthorized", NoPair)
      <4>1. req' \in Handlers
          BY <2>1, <3>2, ReplyType
      <4>2. ASSUME RotateInVain(req[q].rt) PROVE BackendTypeOK'
          BY <4>2 DEF RotateInVain, TypeOK, BackendTypeOK
      <4>3. BackendTypeOK'
          BY <2>3, <3>2, <4>2, <1>4, RotateType DEF Refresh
      <4> QED
          BY <2>3, <4>1, <4>3, <1>1, <1>2 DEF Refresh
    <3> QED
        BY <2>3, <3>1, <3>2 DEF Refresh
  <2>4. CASE Retry(q)
    <3>1. req' \in Handlers
        BY <2>1, <2>4, ReplyType DEF Retry
    <3>2. effects' \in [Req -> Nat]
        BY <2>4, RanType DEF Retry
    <3> QED
        BY <2>4, <3>1, <3>2, <1>1, <1>4 DEF Retry
  <2>5. CASE LoginRoute(q)
    <3>1. req' \in Handlers
        BY <2>1, <2>5, ReplyType, LoginType DEF LoginRoute, Token
    <3>2. BackendTypeOK'
        BY <2>5, LoginType, <1>4 DEF LoginRoute
    <3> QED
        BY <2>5, <3>1, <3>2, <1>1, <1>2 DEF LoginRoute
  <2>6. CASE LogoutRoute(q)
      BY <2>1, <2>6, ReplyType, <1>1, <1>2, <1>4 DEF LogoutRoute
  <2>7. CASE MeRoute(q)
    <3>1. req' \in Handlers
        BY <2>1, <2>7, ReplyType DEF MeRoute
    <3> QED
        BY <2>7, <3>1, <1>1, <1>2, <1>4 DEF MeRoute
  <2>8. CASE MeFails(q)
      BY <2>1, <2>8, ReplyType, <1>1, <1>2, <1>4 DEF MeFails
  <2> QED
      BY <1>7, <2>2, <2>3, <2>4, <2>5, <2>6, <2>7, <2>8 DEF Handler
<1>8. CASE AccessCookieExpires
  <2>1. jar' \in [at : Token, rt : Token]
      BY <1>8 DEF AccessCookieExpires, TypeOK, Token
  <2> QED
      BY <1>8, <2>1, <1>2, <1>3, <1>4 DEF AccessCookieExpires
<1>9. CASE AccessTokenExpires
  <2>1. BackendTypeOK'
      BY <1>9 DEF AccessTokenExpires, AgeOut, TypeOK, BackendTypeOK
  <2> QED
      BY <1>9, <2>1, <1>1, <1>2, <1>3 DEF AccessTokenExpires
<1>10. CASE LogoutEverywhere
  <2>1. BackendTypeOK'
      BY <1>10 DEF LogoutEverywhere, RevokeAll, TypeOK, BackendTypeOK
  <2> QED
      BY <1>10, <2>1, <1>1, <1>2, <1>3 DEF LogoutEverywhere
<1>11. CASE UNCHANGED vars
    BY <1>11, <1>1, <1>2, <1>3, <1>4 DEF vars, backend
<1> QED
    BY <1>6, <1>7, <1>8, <1>9, <1>10, <1>11 DEF Next

\* A handler that runs a call answers in the same step.
LEMMA NothingRunYetStep ==
    ASSUME TypeOK, NothingRunYet, [Next]_vars
    PROVE  NothingRunYet'
<1> USE FaultAssumption DEF TypeOK, Kind, NothingRunYet
<1>1. ASSUME NEW q \in Req, SendProxy(q) PROVE NothingRunYet'
    BY <1>1 DEF SendProxy, Send, backend
<1>2. ASSUME NEW q \in Req, NEW kind \in {"login", "logout", "me"},
             Send(q, kind, kind)
      PROVE  NothingRunYet'
    BY <1>2 DEF Send, backend
<1>3. ASSUME NEW q \in Req, Deliver(q) PROVE NothingRunYet'
    BY <1>3 DEF Deliver, StoredBy, backend
<1>4. ASSUME NEW q \in Req, LoseAnswer(q) PROVE NothingRunYet'
    BY <1>4 DEF LoseAnswer, backend
<1>5. ASSUME NEW q \in Req, Forward(q) PROVE NothingRunYet'
    BY <1>5 DEF Forward, Ran, Refused, Reply, Continue, backend
<1>6. ASSUME NEW q \in Req, Refresh(q) PROVE NothingRunYet'
    BY <1>6 DEF Refresh, Rotate, RotateInVain, Mint, Latest, Reply, Continue, backend
<1>7. ASSUME NEW q \in Req, Retry(q) PROVE NothingRunYet'
    BY <1>7 DEF Retry, Ran, Reply, backend
<1>8. ASSUME NEW q \in Req, LoginRoute(q) PROVE NothingRunYet'
    BY <1>8 DEF LoginRoute, Login, Mint, Latest, Reply, backend
<1>9. ASSUME NEW q \in Req, LogoutRoute(q) PROVE NothingRunYet'
    BY <1>9 DEF LogoutRoute, Reply, backend
<1>10. ASSUME NEW q \in Req, MeRoute(q) PROVE NothingRunYet'
    BY <1>10 DEF MeRoute, Reply, backend
<1>11. ASSUME NEW q \in Req, MeFails(q) PROVE NothingRunYet'
    BY <1>11 DEF MeFails, Reply, backend
<1>12. CASE AccessCookieExpires
    BY <1>12 DEF AccessCookieExpires, backend
<1>13. CASE AccessTokenExpires
    BY <1>13 DEF AccessTokenExpires, AgeOut
<1>14. CASE LogoutEverywhere
    BY <1>14 DEF LogoutEverywhere, RevokeAll
<1>15. CASE UNCHANGED vars
    BY <1>15 DEF vars
<1> QED
    BY <1>1, <1>2, <1>3, <1>4, <1>5, <1>6, <1>7, <1>8, <1>9, <1>10, <1>11,
       <1>12, <1>13, <1>14, <1>15 DEF Next, Browser, Handler

\* A call is forwarded again only after a refusal, and the answer says whether
\* it ran.
LEMMA AnswerStep ==
    ASSUME TypeOK, NothingRunYet, AnswerMatchesEffect, [Next]_vars
    PROVE  AnswerMatchesEffect'
<1> USE FaultAssumption DEF TypeOK, NothingRunYet, AnswerMatchesEffect
<1>1. ASSUME NEW q \in Req, SendProxy(q) PROVE AnswerMatchesEffect'
    BY <1>1 DEF SendProxy, Send, backend
<1>2. ASSUME NEW q \in Req, NEW kind \in {"login", "logout", "me"},
             Send(q, kind, kind)
      PROVE  AnswerMatchesEffect'
    BY <1>2 DEF Send, backend
<1>3. ASSUME NEW q \in Req, Deliver(q) PROVE AnswerMatchesEffect'
    BY <1>3 DEF Deliver, StoredBy, backend
<1>4. ASSUME NEW q \in Req, LoseAnswer(q) PROVE AnswerMatchesEffect'
    BY <1>4 DEF LoseAnswer, backend
<1>5. ASSUME NEW q \in Req, Forward(q) PROVE AnswerMatchesEffect'
    BY <1>5 DEF Forward, Ran, Refused, Reply, Continue, backend
<1>6. ASSUME NEW q \in Req, Refresh(q) PROVE AnswerMatchesEffect'
    BY <1>6 DEF Refresh, Rotate, RotateInVain, Mint, Latest, Reply, Continue, backend
<1>7. ASSUME NEW q \in Req, Retry(q) PROVE AnswerMatchesEffect'
    BY <1>7 DEF Retry, Ran, Reply, backend
<1>8. ASSUME NEW q \in Req, LoginRoute(q) PROVE AnswerMatchesEffect'
    BY <1>8 DEF LoginRoute, Login, Mint, Latest, Reply, backend
<1>9. ASSUME NEW q \in Req, LogoutRoute(q) PROVE AnswerMatchesEffect'
    BY <1>9 DEF LogoutRoute, Reply, backend
<1>10. ASSUME NEW q \in Req, MeRoute(q) PROVE AnswerMatchesEffect'
    BY <1>10 DEF MeRoute, Reply, backend
<1>11. ASSUME NEW q \in Req, MeFails(q) PROVE AnswerMatchesEffect'
    BY <1>11 DEF MeFails, Reply, backend
<1>12. CASE AccessCookieExpires
    BY <1>12 DEF AccessCookieExpires, backend
<1>13. CASE AccessTokenExpires
    BY <1>13 DEF AccessTokenExpires, AgeOut
<1>14. CASE LogoutEverywhere
    BY <1>14 DEF LogoutEverywhere, RevokeAll
<1>15. CASE UNCHANGED vars
    BY <1>15 DEF vars
<1> QED
    BY <1>1, <1>2, <1>3, <1>4, <1>5, <1>6, <1>7, <1>8, <1>9, <1>10, <1>11,
       <1>12, <1>13, <1>14, <1>15 DEF Next, Browser, Handler

-----------------------------------------------------------------------------

\* A step that mints nothing: pairs are only dropped, or move from the jar to
\* a handler's cookies, or from the handler that held one to the jar.
Quiet ==
    /\ UNCHANGED <<minted, root>>
    /\ rows' \subseteq rows
    /\ \A p \in Req : req'[p].rt \in {req[p].rt, jar.rt}
    /\ \A p \in Req, n \in Pair : Holds(p, n)' => Holds(p, n)
    /\ \/ jar'.rt \in {jar.rt, NoPair}
       \/ \E p \in Req, n \in Pair :
            n = jar'.rt /\ Holds(p, n) /\ ~ Holds(p, n)'

\* A step that mints a pair, which handler q may come to hold.
MintsFor(q) ==
    /\ Login \/ Rotate(req[q].rt)
    /\ UNCHANGED jar
    /\ \A p \in Req : req'[p].rt = req[p].rt
    /\ \A p \in Req, n \in Pair :
         Holds(p, n)' => Holds(p, n) \/ (p = q /\ n = Latest)

\* There are no other steps.
LEMMA QuietOrMints ==
    ASSUME TypeOK, [Next]_vars
    PROVE  Quiet \/ \E q \in Req : MintsFor(q)
<1> USE DEF TypeOK, BackendTypeOK, Token, Keep, NoPair, Pair, Holds, backend
<1>1. ASSUME NEW q \in Req, SendProxy(q) PROVE Quiet
    BY <1>1 DEF SendProxy, Send, Quiet
<1>2. ASSUME NEW q \in Req, NEW kind \in {"login", "logout", "me"},
             Send(q, kind, kind)
      PROVE  Quiet
    BY <1>2 DEF Send, Quiet
<1>3. ASSUME NEW q \in Req, Deliver(q) PROVE Quiet
  <2>1. UNCHANGED <<minted, root, rows>>
      BY <1>3 DEF Deliver
  <2>2. \A p \in Req : req'[p].rt = req[p].rt
      BY <1>3 DEF Deliver
  <2>3. \A p \in Req, n \in Pair : Holds(p, n)' => Holds(p, n) /\ p # q
      BY <1>3 DEF Deliver
  <2>4. CASE req[q].cookie \in {Keep, NoPair}
    <3>1. jar'.rt \in {jar.rt, NoPair}
        BY <1>3, <2>4 DEF Deliver, StoredBy
    <3> QED
        BY <2>1, <2>2, <2>3, <3>1 DEF Quiet
  <2>5. CASE req[q].cookie \in Pair
    <3>1. PICK n \in Pair : n = req[q].cookie
        BY <2>5
    <3>2. n = jar'.rt /\ Holds(q, n) /\ ~ Holds(q, n)'
        BY <1>3, <2>3, <3>1 DEF Deliver, StoredBy
    <3> QED
        BY <2>1, <2>2, <2>3, <3>2 DEF Quiet
  <2> QED
      BY <2>4, <2>5
<1>4. ASSUME NEW q \in Req, LoseAnswer(q) PROVE Quiet
    BY <1>4 DEF LoseAnswer, Quiet
<1>5. ASSUME NEW q \in Req, Forward(q) PROVE Quiet
  <2>1. CASE \E answer : \E cookie \in {req[q].new, Keep} :
               Reply(q, answer, cookie)
      BY <1>5, <2>1 DEF Forward, Reply, Quiet
  <2>2. CASE Continue(q, "refresh", NoPair)
      BY <1>5, <2>2 DEF Forward, Continue, Quiet
  <2>3. \/ \E answer : \E cookie \in {req[q].new, Keep} :
             Reply(q, answer, cookie)
        \/ Continue(q, "refresh", NoPair)
    <3>1. CASE req[q].new # NoPair
        BY <1>5, <3>1 DEF Forward, Refused
    <3>2. CASE req[q].new = NoPair
        BY <1>5, <3>2 DEF Forward, Refused
    <3> QED
        BY <3>1, <3>2
  <2> QED
      BY <2>1, <2>2, <2>3
<1>6. ASSUME NEW q \in Req, Refresh(q) PROVE Quiet \/ MintsFor(q)
  <2>1. CASE \E pc \in {"forward", "retry"} : Continue(q, pc, Latest)
    <3>1. \A p \in Req : req'[p].rt = req[p].rt
        BY <2>1 DEF Continue
    <3>2. \A p \in Req, n \in Pair :
            Holds(p, n)' => Holds(p, n) \/ (p = q /\ n = Latest)
        BY <2>1 DEF Continue
    <3>3. ~ Reply(q, "unauthorized", NoPair)
        BY <2>1 DEF Continue, Reply
    <3> QED
        BY <1>6, <3>1, <3>2, <3>3 DEF Refresh, MintsFor
  <2>2. CASE Reply(q, "unauthorized", NoPair)
    <3>1. \A p \in Req : req'[p].rt = req[p].rt
        BY <2>2 DEF Reply
    <3>2. \A p \in Req, n \in Pair : Holds(p, n)' => Holds(p, n)
        BY <2>2 DEF Reply
    <3>3. UNCHANGED backend \/ RotateInVain(req[q].rt) => Quiet
        BY <1>6, <3>1, <3>2 DEF Refresh, RotateInVain, Quiet
    <3>4. Rotate(req[q].rt) => MintsFor(q)
        BY <1>6, <3>1, <3>2 DEF Refresh, MintsFor
    <3> QED
        BY <1>6, <3>3, <3>4 DEF Refresh
  <2> QED
      BY <1>6, <2>1, <2>2 DEF Refresh
<1>7. ASSUME NEW q \in Req, Retry(q) PROVE Quiet
  <2>1. PICK answer, cookie : Reply(q, answer, cookie)
                              /\ cookie \in {req[q].new, Keep}
      BY <1>7 DEF Retry
  <2> QED
      BY <1>7, <2>1 DEF Retry, Reply, Quiet
<1>8. ASSUME NEW q \in Req, LoginRoute(q) PROVE Quiet \/ MintsFor(q)
  <2>1. PICK answer, cookie : Reply(q, answer, cookie)
                              /\ (cookie = Keep \/ (Login /\ cookie = Latest))
      BY <1>8 DEF LoginRoute
  <2>2. \A p \in Req : req'[p].rt = req[p].rt
      BY <2>1 DEF Reply
  <2>3. \A p \in Req, n \in Pair :
          Holds(p, n)' => Holds(p, n) \/ (Login /\ p = q /\ n = Latest)
      BY <2>1 DEF Reply
  <2>4. Login => MintsFor(q)
      BY <1>8, <2>2, <2>3 DEF LoginRoute, MintsFor
  <2>5. UNCHANGED backend /\ ~ Login => Quiet
      BY <1>8, <2>2, <2>3 DEF LoginRoute, Quiet
  <2> QED
      BY <1>8, <2>4, <2>5 DEF LoginRoute
<1>9. ASSUME NEW q \in Req, LogoutRoute(q) PROVE Quiet
    BY <1>9 DEF LogoutRoute, Reply, Quiet
<1>10. ASSUME NEW q \in Req, MeRoute(q) PROVE Quiet
  <2>1. PICK answer, cookie : Reply(q, answer, cookie)
                              /\ cookie \in {NoPair, Keep}
      BY <1>10 DEF MeRoute
  <2> QED
      BY <1>10, <2>1 DEF MeRoute, Reply, Quiet
<1>11. ASSUME NEW q \in Req, MeFails(q) PROVE Quiet
    BY <1>11 DEF MeFails, Reply, Quiet
<1>12. CASE AccessCookieExpires
    BY <1>12 DEF AccessCookieExpires, Quiet
<1>13. CASE AccessTokenExpires
    BY <1>13 DEF AccessTokenExpires, AgeOut, Quiet
<1>14. CASE LogoutEverywhere
    BY <1>14 DEF LogoutEverywhere, RevokeAll, Quiet
<1>15. CASE UNCHANGED vars
    BY <1>15 DEF vars, Quiet
<1> QED
    BY <1>1, <1>2, <1>3, <1>4, <1>5, <1>6, <1>7, <1>8, <1>9, <1>10, <1>11,
       <1>12, <1>13, <1>14, <1>15 DEF Next, Browser, Handler

Chain ==
    /\ RootsMade
    /\ TokensMade
    /\ RowsAreTips
    /\ HeldByOne
    /\ HeldIsTip

LEMMA QuietStep ==
    ASSUME TypeOK, TypeOK', Chain, Quiet
    PROVE  Chain'
<1> USE DEF Quiet, Chain, RootsMade, TokensMade, RowsAreTips, HeldByOne,
            HeldIsTip, Made, Tip
<1>1. minted \in Nat /\ minted' = minted /\ root' = root
    BY PairAssumption DEF TypeOK, BackendTypeOK
<1>2. RootsMade' /\ RowsAreTips'
    BY <1>1
<1>3. \A p \in Req, n \in Pair : Holds(p, n)' => Holds(p, n)
    OBVIOUS
<1>4. TokensMade'
  <2>1. rows' \subseteq Made'
      BY <1>1
  <2>2. jar'.rt \in Made' \cup {NoPair}
      BY <1>1
  <2>3. \A q \in Req : req'[q].rt \in Made' \cup {NoPair}
      BY <1>1
  <2>4. \A q \in Req, n \in Pair : Holds(q, n)' => n \in Made'
      BY <1>1, <1>3
  <2> QED
      BY <2>1, <2>2, <2>3, <2>4
<1>5. HeldByOne'
  <2> SUFFICES ASSUME NEW q \in Req, NEW n \in Pair, Holds(q, n)'
               PROVE  /\ n # jar'.rt
                      /\ \A p \in Req : req'[p].rt # n /\ (Holds(p, n)' => p = q)
      OBVIOUS
  <2>1. Holds(q, n)
      BY <1>3
  <2>2. n # jar'.rt
    <3>1. CASE jar'.rt \in {jar.rt, NoPair}
        BY <2>1, <3>1 DEF Pair, NoPair
    <3>2. CASE \E p \in Req, m \in Pair :
                 m = jar'.rt /\ Holds(p, m) /\ ~ Holds(p, m)'
        BY <2>1, <3>2
    <3> QED
        BY <3>1, <3>2
  <2>3. \A p \in Req : req'[p].rt # n
      BY <2>1
  <2>4. \A p \in Req : Holds(p, n)' => p = q
      BY <2>1, <1>3
  <2> QED
      BY <2>2, <2>3, <2>4
<1>6. HeldIsTip'
    BY <1>1, <1>3
<1> QED
    BY <1>2, <1>4, <1>5, <1>6

LEMMA MintStep ==
    ASSUME TypeOK, TypeOK', Chain, NEW q \in Req, MintsFor(q)
    PROVE  Chain'
<1> USE DEF RootsMade, TokensMade, RowsAreTips, HeldByOne, HeldIsTip, Chain
<1>0. PICK top : top = Latest
    OBVIOUS
<1>1. PICK login, kept :
        /\ Mint(login, kept)
        /\ \/ login = top /\ kept = rows
           \/ /\ req[q].rt \in rows
              /\ login = root[req[q].rt]
              /\ kept = rows \ {req[q].rt}
    BY <1>0 DEF MintsFor, Login, Rotate
<1>2. /\ minted \in Nat /\ top \in Pair /\ Made \subseteq Pair
      /\ top \notin Made /\ Made' = Made \cup {top}
      /\ \A n \in Made : n < top
    BY <1>0, <1>1, PairAssumption DEF Mint, Latest, Made, Pair, TypeOK, BackendTypeOK
<1>3. root'[top] = login /\ \A n \in Made : root'[n] = root[n]
    BY <1>0, <1>1, <1>2 DEF Mint, TypeOK, BackendTypeOK
<1>4. login \in Made \cup {top}
    BY <1>1
<1>5. RootsMade'
    BY <1>2, <1>3, <1>4
\* The pairs of other logins stay the last of theirs.
<1>6. ASSUME NEW n \in Made, Tip(n), root[n] # login
      PROVE  Tip(n)'
    BY <1>2, <1>3, <1>6 DEF Tip
<1>7. Tip(top)'
    BY <1>2 DEF Tip, Made, Pair
\* Of one login no two pairs are the last.
<1>8. ASSUME NEW m \in Made, NEW n \in Made, Tip(m), Tip(n), root[m] = root[n]
      PROVE  m = n
    BY <1>8, <1>2 DEF Tip, Made
<1>9. RowsAreTips'
  <2>1. \A n \in kept : n \in Made /\ Tip(n) /\ root[n] # login
    <3>1. CASE login = top /\ kept = rows
        BY <3>1, <1>2
    <3>2. CASE /\ req[q].rt \in rows
               /\ login = root[req[q].rt]
               /\ kept = rows \ {req[q].rt}
        BY <3>2, <1>8
    <3> QED
        BY <1>1, <3>1, <3>2
  <2>2. rows' = kept \cup {top}
      BY <1>0, <1>1 DEF Mint
  <2> QED
      BY <2>1, <2>2, <1>6, <1>7
<1>10. \A p \in Req, n \in Pair :
         Holds(p, n)' => Holds(p, n) \/ (p = q /\ n = top)
    BY <1>0 DEF MintsFor
<1>11. ASSUME NEW p \in Req, NEW n \in Pair, Holds(p, n)
       PROVE  n \in Made /\ Tip(n) /\ root[n] # login
    BY <1>1, <1>2, <1>8, <1>11
<1>12. TokensMade'
  <2>1. rows' \subseteq Made'
      BY <1>0, <1>1, <1>2 DEF Mint
  <2>2. \A p \in Req, n \in Pair : Holds(p, n)' => n \in Made'
      BY <1>2, <1>10, <1>11
  <2> QED
      BY <1>2, <2>1, <2>2 DEF MintsFor
<1>13. HeldByOne'
  <2>1. jar'.rt # top /\ \A p \in Req : req'[p].rt # top
      BY <1>2 DEF MintsFor, Pair, NoPair
  <2>2. \A p \in Req : ~ Holds(p, top)
      BY <1>2, <1>11
  <2> QED
      BY <2>1, <2>2, <1>10 DEF MintsFor
<1>14. HeldIsTip'
    BY <1>6, <1>7, <1>10, <1>11
<1> QED
    BY <1>5, <1>9, <1>12, <1>13, <1>14

\* The chain of a login survives every step.
LEMMA ChainStep ==
    ASSUME TypeOK, TypeOK', Chain, [Next]_vars
    PROVE  Chain'
    BY QuietOrMints, QuietStep, MintStep

-----------------------------------------------------------------------------
(* Theorems *)

\* The facts above hold in every state.
THEOREM Invariance == Spec => []IInv
<1>1. ASSUME IInv, [Next]_vars PROVE IInv'
    BY <1>1, TypeStep, NothingRunYetStep, AnswerStep, ChainStep DEF IInv, Chain
<1> QED
    BY <1>1, InitIInv, PTL DEF Spec

\* The handlers keep their state well formed.
THEOREM TypeCorrect == Spec => []TypeOK
    BY Invariance, PTL DEF IInv

\* A forwarded call runs at most once, and the browser is told whether it ran,
\* however many requests refresh and retry in parallel (route.ts).
THEOREM AnswerTellsTruth == Spec => []AnswerMatchesEffect
    BY Invariance, PTL DEF IInv

\* No answer that arrives late puts back an earlier token of the same login
\* (applyAuthCookies writes whatever it is given).
THEOREM NeverRolledBack == Spec => NoRollback
<1>1. ASSUME IInv, [Next]_vars
      PROVE  [jar'.rt # NoPair /\ jar'.rt < jar.rt
                => root[jar'.rt] # root[jar.rt]]_vars
  <2>1. Quiet \/ \E q \in Req : MintsFor(q)
      BY <1>1, QuietOrMints DEF IInv
  <2>2. jar.rt \in 0 .. minted /\ minted \in Nat
      BY <1>1, PairAssumption
      DEF IInv, TokensMade, Made, TypeOK, BackendTypeOK, NoPair
  <2>3. CASE jar'.rt \in {jar.rt, NoPair}
      BY <2>2, <2>3
  <2>4. CASE \E p \in Req, n \in Pair : n = jar'.rt /\ Holds(p, n)
    <3>1. Tip(jar'.rt) /\ jar'.rt \in Pair
        BY <1>1, <2>4 DEF IInv, HeldIsTip
    <3> QED
        BY <2>2, <3>1 DEF Tip, Made, Pair
  <2> QED
      BY <2>1, <2>3, <2>4 DEF Quiet, MintsFor
<1> QED
    BY <1>1, Invariance, PTL DEF Spec, NoRollback
=============================================================================
