------------------------- MODULE MobileSession_proofs -------------------------
(***************************************************************************)
(* Theorems about MobileSession for any number of calls, logins, logouts   *)
(* and pairs.  What makes the shared promise serialise the refreshes: its  *)
(* leader is the only request that reads, presents and replaces the        *)
(* refresh token, and a pair that a request has got and not yet written to *)
(* SecureStore cannot be presented by any other.                           *)
(***************************************************************************)
EXTENDS MobileSession, TLAPS

(* What a request is *)

\* The steps of a login are taken by logins and those of a logout by logouts,
\* and only a logout's body and the leader's refresh token are surely tokens.
RequestsFit ==
    \A q \in Req :
        /\ req[q].pc \in {"loginAt", "loginRt", "loginSet"}
             => req[q].kind = "login"
        /\ req[q].pc \in {"wipeAt", "wipeRt", "signOut"}
             => req[q].kind = "logout"
        /\ req[q].kind = "logout" => req[q].body \in Pair
        /\ req[q].pc \in {"refresh", "writeAt", "writeRt"} => req[q].rt \in Pair

\* The backend has run nothing for a request that is still on its way.
NothingRunYet ==
    \A q \in Req :
        /\ req[q].pc = "idle" => effects[q] = 0
        /\ req[q].kind = "call" /\ req[q].pc \notin {"ok", "error"}
             => effects[q] = 0

(* The shared promise *)

Refreshing == {"readRt", "refresh", "writeAt", "writeRt"}

\* Whoever refreshes leads the promise.
OneLeader == \A q \in Req : req[q].pc \in Refreshing => promise = q

(* The pairs *)

Made == 1 .. minted

Writing == {"writeAt", "writeRt"}
Holding == Writing \cup {"loginAt", "loginRt"}

\* Request q has got the pair n and not yet stored its refresh token.
Holds(q, n) == req[q].pc \in Holding /\ req[q].at = n

\* No token is seen before it is minted.
TokensMade ==
    /\ secure.rt \in Made \cup {NoPair}
    /\ \A q \in Req : /\ req[q].rt \in Made \cup {NoPair}
                      /\ \A n \in Pair : Holds(q, n) => n \in Made

\* A pair that is not yet stored is known to one request only.
HeldByOne ==
    \A q \in Req, n \in Pair : Holds(q, n) =>
        /\ n # secure.rt
        /\ \A p \in Req : req[p].rt # n /\ (Holds(p, n) => p = q)

\* A pair that is not yet stored is good, unless a fault has ended it.
HeldGood == \A q \in Req, n \in Pair : Holds(q, n) => n \in rows \cup ended

IInv ==
    /\ TypeOK
    /\ RequestsFit
    /\ NothingRunYet
    /\ ReplayRunsOnce
    /\ OneLeader
    /\ TokensMade
    /\ HeldByOne
    /\ HeldGood
    /\ NeverReplaysRefreshToken
    /\ DeadTokenExplained

-----------------------------------------------------------------------------

\* Nobody is logged in and nothing has been sent.
LEMMA InitIInv == Init => IInv
<1> SUFFICES ASSUME Init PROVE IInv
    OBVIOUS
<1> USE PairAssumption, MobileAssumption
    DEF Init, BackendInit, Pair, NoPair, Made
<1>1. TypeOK
    BY DEF TypeOK, BackendTypeOK, Token, Kind, Pc, Request
<1>2. RequestsFit /\ NothingRunYet /\ ReplayRunsOnce
    BY DEF RequestsFit, NothingRunYet, ReplayRunsOnce
<1>3. OneLeader /\ NeverReplaysRefreshToken /\ DeadTokenExplained
    BY DEF OneLeader, Refreshing, NeverReplaysRefreshToken, DeadTokenExplained
<1>4. TokensMade /\ HeldByOne /\ HeldGood
    BY DEF TokensMade, HeldByOne, HeldGood, Holds, Holding, Writing
<1> QED
    BY <1>1, <1>2, <1>3, <1>4 DEF IInv

(* How a request goes on *)

\* Goto changes one request's step.
LEMMA GotoRequest ==
    ASSUME TypeOK, NEW q \in Req, NEW pc, Goto(q, pc)
    PROVE  /\ \A r \in Req : /\ req'[r].pc = IF r = q THEN pc ELSE req[r].pc
                             /\ req'[r].at = req[r].at
                             /\ req'[r].rt = req[r].rt
           /\ pc \in Pc => req' \in [Req -> Request]
    BY DEF TypeOK, Goto, Request

\* At changes one request's step and token.
LEMMA AtRequest ==
    ASSUME TypeOK, NEW q \in Req, NEW pc \in Pc, NEW at \in Token,
           req' = [req EXCEPT ![q] = At(@, pc, at)]
    PROVE  /\ \A r \in Req : /\ req'[r].pc = IF r = q THEN pc ELSE req[r].pc
                             /\ req'[r].at = IF r = q THEN at ELSE req[r].at
                             /\ req'[r].rt = req[r].rt
           /\ req' \in [Req -> Request]
    BY DEF TypeOK, At, Request

Over == {"resend", "dropAt", "wipeAt", "error", "unauthorized"}

LEMMA SettledPc ==
    ASSUME NEW r, NEW outcome \in {"error", "unauthorized"}
    PROVE  Settled(r, outcome) \in Over /\ Settled(r, outcome) \in Pc
    BY DEF Settled, Pc, Over

\* Settle ends the refresh for its leader and those who wait for it.
LEMMA SettleRequests ==
    ASSUME TypeOK, NEW q \in Req, NEW next, Settle(q, next),
           \A r \in Req : \E pc \in Over, at \in Token : next[r] = At(req[r], pc, at)
    PROVE  /\ \A r \in Req :
                /\ req'[r].rt = req[r].rt
                /\ IF Sharing(q, r) THEN req'[r].pc \in Over ELSE req'[r] = req[r]
           /\ req' \in [Req -> Request]
           /\ promise' = NoReq
<1>1. ASSUME NEW r \in Req
      PROVE  /\ req'[r].rt = req[r].rt
             /\ IF Sharing(q, r) THEN req'[r].pc \in Over ELSE req'[r] = req[r]
             /\ req'[r] \in Request
  <2>1. req'[r] = IF Sharing(q, r) THEN next[r] ELSE req[r]
      BY DEF Settle
  <2>2. req[r] \in Request
      BY DEF TypeOK
  <2>3. PICK pc \in Over, at \in Token : next[r] = At(req[r], pc, at)
      OBVIOUS
  <2> QED
      BY <2>1, <2>2, <2>3 DEF At, Request, Over, Pc
<1> QED
    BY <1>1 DEF Settle

\* Every step leaves the requests fit.
LEMMA RequestsFitStep ==
    ASSUME TypeOK, RequestsFit, [Next]_vars
    PROVE  RequestsFit'
<1> USE DEF TypeOK, Request, Kind, Token, NoPair, RequestsFit
<1>1. ASSUME NEW q \in Req, Call(q) PROVE RequestsFit'
    BY <1>1 DEF Call, Start, backend
<1>2. ASSUME NEW q \in Req, LogIn(q) PROVE RequestsFit'
    BY <1>2 DEF LogIn, Start, backend
<1>3. ASSUME NEW q \in Req, LogOut(q) PROVE RequestsFit'
    BY <1>3 DEF LogOut, Start, backend
<1>4. ASSUME NEW q \in Req, Resend(q) PROVE RequestsFit'
    BY <1>4 DEF Resend, backend
<1>5. ASSUME NEW q \in Req, ServeCall(q) PROVE RequestsFit'
    BY <1>5 DEF ServeCall, Goto, backend
<1>6. ASSUME NEW q \in Req, ServeLogin(q) PROVE RequestsFit'
    BY <1>6 DEF ServeLogin, At, Login, Mint, Latest, backend
<1>7. ASSUME NEW q \in Req, ServeLogout(q) PROVE RequestsFit'
    BY <1>7 DEF ServeLogout, Goto, Revoke, backend
<1>8. ASSUME NEW q \in Req, Refused(q) PROVE RequestsFit'
    BY <1>8 DEF Refused, Goto, Settled, backend
<1>9. ASSUME NEW q \in Req, Unreachable(q) PROVE RequestsFit'
    BY <1>9 DEF Unreachable, Goto, Settled, Login, Mint, Latest, Revoke,
       backend
<1>10. ASSUME NEW q \in Req, ReadRefreshToken(q) PROVE RequestsFit'
    BY <1>10 DEF ReadRefreshToken, Settle, Sharing, At, Settled, backend
<1>11. ASSUME NEW q \in Req, RefreshAccepted(q) PROVE RequestsFit'
    BY <1>11 DEF RefreshAccepted, At, Rotate, Mint, Latest, backend
<1>12. ASSUME NEW q \in Req, RefreshFailed(q) PROVE RequestsFit'
    BY <1>12 DEF RefreshFailed, Settle, Sharing, At, Rotate, RotateInVain,
       Mint, Latest, backend
<1>13. ASSUME NEW q \in Req, WriteAccessToken(q) PROVE RequestsFit'
    BY <1>13 DEF WriteAccessToken, Goto, backend
<1>14. ASSUME NEW q \in Req, WriteRefreshToken(q) PROVE RequestsFit'
    BY <1>14 DEF WriteRefreshToken, Settle, Sharing, At, backend
<1>15. ASSUME NEW q \in Req, DropTokens(q) PROVE RequestsFit'
    BY <1>15 DEF DropTokens, Goto, Settled, backend
<1>16. ASSUME NEW q \in Req, FinishLogin(q) PROVE RequestsFit'
    BY <1>16 DEF FinishLogin, Goto, backend
<1>17. ASSUME NEW q \in Req, FinishLogout(q) PROVE RequestsFit'
    BY <1>17 DEF FinishLogout, Goto, backend
<1>18. CASE AccessTokenExpires
    BY <1>18 DEF AccessTokenExpires, AgeOut, backend
<1>19. CASE LogoutEverywhere
    BY <1>19 DEF LogoutEverywhere, RevokeAll, backend
<1>20. CASE UNCHANGED vars
    BY <1>20 DEF vars, backend
<1> QED
    BY <1>1, <1>2, <1>3, <1>4, <1>5, <1>6, <1>7, <1>8, <1>9, <1>10, <1>11,
       <1>12, <1>13, <1>14, <1>15, <1>16, <1>17, <1>18, <1>19, <1>20 DEF Next,
       Step

\* A call the backend runs is over.
LEMMA NothingRunYetStep ==
    ASSUME TypeOK, RequestsFit, NothingRunYet, [Next]_vars
    PROVE  NothingRunYet'
<1> USE DEF TypeOK, Request, RequestsFit, NothingRunYet
<1>1. ASSUME NEW q \in Req, Call(q) PROVE NothingRunYet'
    BY <1>1 DEF Call, Start, backend
<1>2. ASSUME NEW q \in Req, LogIn(q) PROVE NothingRunYet'
    BY <1>2 DEF LogIn, Start, backend
<1>3. ASSUME NEW q \in Req, LogOut(q) PROVE NothingRunYet'
    BY <1>3 DEF LogOut, Start, backend
<1>4. ASSUME NEW q \in Req, Resend(q) PROVE NothingRunYet'
    BY <1>4 DEF Resend, backend
<1>5. ASSUME NEW q \in Req, ServeCall(q) PROVE NothingRunYet'
    BY <1>5 DEF ServeCall, Goto, backend
<1>6. ASSUME NEW q \in Req, ServeLogin(q) PROVE NothingRunYet'
    BY <1>6 DEF ServeLogin, At, Login, Mint, Latest, backend
<1>7. ASSUME NEW q \in Req, ServeLogout(q) PROVE NothingRunYet'
    BY <1>7 DEF ServeLogout, Goto, Revoke, backend
<1>8. ASSUME NEW q \in Req, Refused(q) PROVE NothingRunYet'
    BY <1>8 DEF Refused, Goto, Settled, backend
<1>9. ASSUME NEW q \in Req, Unreachable(q) PROVE NothingRunYet'
    BY <1>9 DEF Unreachable, Goto, Settled, Login, Mint, Latest, Revoke,
       backend
<1>10. ASSUME NEW q \in Req, ReadRefreshToken(q) PROVE NothingRunYet'
    BY <1>10 DEF ReadRefreshToken, Settle, Sharing, At, Settled, backend
<1>11. ASSUME NEW q \in Req, RefreshAccepted(q) PROVE NothingRunYet'
    BY <1>11 DEF RefreshAccepted, At, Rotate, Mint, Latest, backend
<1>12. ASSUME NEW q \in Req, RefreshFailed(q) PROVE NothingRunYet'
    BY <1>12 DEF RefreshFailed, Settle, Sharing, At, Rotate, RotateInVain,
       Mint, Latest, backend
<1>13. ASSUME NEW q \in Req, WriteAccessToken(q) PROVE NothingRunYet'
    BY <1>13 DEF WriteAccessToken, Goto, backend
<1>14. ASSUME NEW q \in Req, WriteRefreshToken(q) PROVE NothingRunYet'
    BY <1>14 DEF WriteRefreshToken, Settle, Sharing, At, backend
<1>15. ASSUME NEW q \in Req, DropTokens(q) PROVE NothingRunYet'
    BY <1>15 DEF DropTokens, Goto, Settled, backend
<1>16. ASSUME NEW q \in Req, FinishLogin(q) PROVE NothingRunYet'
    BY <1>16 DEF FinishLogin, Goto, backend
<1>17. ASSUME NEW q \in Req, FinishLogout(q) PROVE NothingRunYet'
    BY <1>17 DEF FinishLogout, Goto, backend
<1>18. CASE AccessTokenExpires
    BY <1>18 DEF AccessTokenExpires, AgeOut, backend
<1>19. CASE LogoutEverywhere
    BY <1>19 DEF LogoutEverywhere, RevokeAll, backend
<1>20. CASE UNCHANGED vars
    BY <1>20 DEF vars, backend
<1> QED
    BY <1>1, <1>2, <1>3, <1>4, <1>5, <1>6, <1>7, <1>8, <1>9, <1>10, <1>11,
       <1>12, <1>13, <1>14, <1>15, <1>16, <1>17, <1>18, <1>19, <1>20 DEF Next,
       Step

\* A call is replayed only after a refusal.
LEMMA ReplayStep ==
    ASSUME TypeOK, RequestsFit, NothingRunYet, ReplayRunsOnce, [Next]_vars
    PROVE  ReplayRunsOnce'
<1> USE DEF TypeOK, Request, RequestsFit, NothingRunYet, ReplayRunsOnce
<1>1. ASSUME NEW q \in Req, Call(q) PROVE ReplayRunsOnce'
    BY <1>1 DEF Call, Start, backend
<1>2. ASSUME NEW q \in Req, LogIn(q) PROVE ReplayRunsOnce'
    BY <1>2 DEF LogIn, Start, backend
<1>3. ASSUME NEW q \in Req, LogOut(q) PROVE ReplayRunsOnce'
    BY <1>3 DEF LogOut, Start, backend
<1>4. ASSUME NEW q \in Req, Resend(q) PROVE ReplayRunsOnce'
    BY <1>4 DEF Resend, backend
<1>5. ASSUME NEW q \in Req, ServeCall(q) PROVE ReplayRunsOnce'
    BY <1>5 DEF ServeCall, Goto, backend
<1>6. ASSUME NEW q \in Req, ServeLogin(q) PROVE ReplayRunsOnce'
    BY <1>6 DEF ServeLogin, At, Login, Mint, Latest, backend
<1>7. ASSUME NEW q \in Req, ServeLogout(q) PROVE ReplayRunsOnce'
    BY <1>7 DEF ServeLogout, Goto, Revoke, backend
<1>8. ASSUME NEW q \in Req, Refused(q) PROVE ReplayRunsOnce'
    BY <1>8 DEF Refused, Goto, Settled, backend
<1>9. ASSUME NEW q \in Req, Unreachable(q) PROVE ReplayRunsOnce'
    BY <1>9 DEF Unreachable, Goto, Settled, Login, Mint, Latest, Revoke,
       backend
<1>10. ASSUME NEW q \in Req, ReadRefreshToken(q) PROVE ReplayRunsOnce'
    BY <1>10 DEF ReadRefreshToken, Settle, Sharing, At, Settled, backend
<1>11. ASSUME NEW q \in Req, RefreshAccepted(q) PROVE ReplayRunsOnce'
    BY <1>11 DEF RefreshAccepted, At, Rotate, Mint, Latest, backend
<1>12. ASSUME NEW q \in Req, RefreshFailed(q) PROVE ReplayRunsOnce'
    BY <1>12 DEF RefreshFailed, Settle, Sharing, At, Rotate, RotateInVain,
       Mint, Latest, backend
<1>13. ASSUME NEW q \in Req, WriteAccessToken(q) PROVE ReplayRunsOnce'
    BY <1>13 DEF WriteAccessToken, Goto, backend
<1>14. ASSUME NEW q \in Req, WriteRefreshToken(q) PROVE ReplayRunsOnce'
    BY <1>14 DEF WriteRefreshToken, Settle, Sharing, At, backend
<1>15. ASSUME NEW q \in Req, DropTokens(q) PROVE ReplayRunsOnce'
    BY <1>15 DEF DropTokens, Goto, Settled, backend
<1>16. ASSUME NEW q \in Req, FinishLogin(q) PROVE ReplayRunsOnce'
    BY <1>16 DEF FinishLogin, Goto, backend
<1>17. ASSUME NEW q \in Req, FinishLogout(q) PROVE ReplayRunsOnce'
    BY <1>17 DEF FinishLogout, Goto, backend
<1>18. CASE AccessTokenExpires
    BY <1>18 DEF AccessTokenExpires, AgeOut, backend
<1>19. CASE LogoutEverywhere
    BY <1>19 DEF LogoutEverywhere, RevokeAll, backend
<1>20. CASE UNCHANGED vars
    BY <1>20 DEF vars, backend
<1> QED
    BY <1>1, <1>2, <1>3, <1>4, <1>5, <1>6, <1>7, <1>8, <1>9, <1>10, <1>11,
       <1>12, <1>13, <1>14, <1>15, <1>16, <1>17, <1>18, <1>19, <1>20 DEF Next,
       Step

\* Nobody starts a refresh while another leads one.
LEMMA OneLeaderStep ==
    ASSUME TypeOK, OneLeader, [Next]_vars
    PROVE  OneLeader'
<1> USE MobileAssumption DEF TypeOK, Request, OneLeader, Refreshing
<1>1. ASSUME NEW q \in Req, Call(q) PROVE OneLeader'
    BY <1>1 DEF Call, Start, backend
<1>2. ASSUME NEW q \in Req, LogIn(q) PROVE OneLeader'
    BY <1>2 DEF LogIn, Start, backend
<1>3. ASSUME NEW q \in Req, LogOut(q) PROVE OneLeader'
    BY <1>3 DEF LogOut, Start, backend
<1>4. ASSUME NEW q \in Req, Resend(q) PROVE OneLeader'
    BY <1>4 DEF Resend, backend
<1>5. ASSUME NEW q \in Req, ServeCall(q) PROVE OneLeader'
    BY <1>5 DEF ServeCall, Goto, backend
<1>6. ASSUME NEW q \in Req, ServeLogin(q) PROVE OneLeader'
    BY <1>6 DEF ServeLogin, At, Login, Mint, Latest, backend
<1>7. ASSUME NEW q \in Req, ServeLogout(q) PROVE OneLeader'
    BY <1>7 DEF ServeLogout, Goto, Revoke, backend
<1>8. ASSUME NEW q \in Req, Refused(q) PROVE OneLeader'
    BY <1>8 DEF Refused, Goto, Settled, backend
<1>9. ASSUME NEW q \in Req, Unreachable(q) PROVE OneLeader'
    BY <1>9 DEF Unreachable, Goto, Settled, Login, Mint, Latest, Revoke,
       backend
<1>10. ASSUME NEW q \in Req, ReadRefreshToken(q) PROVE OneLeader'
    BY <1>10 DEF ReadRefreshToken, Settle, Sharing, At, Settled, backend
<1>11. ASSUME NEW q \in Req, RefreshAccepted(q) PROVE OneLeader'
    BY <1>11 DEF RefreshAccepted, At, Rotate, Mint, Latest, backend
<1>12. ASSUME NEW q \in Req, RefreshFailed(q) PROVE OneLeader'
    BY <1>12 DEF RefreshFailed, Settle, Sharing, At, Rotate, RotateInVain,
       Mint, Latest, backend
<1>13. ASSUME NEW q \in Req, WriteAccessToken(q) PROVE OneLeader'
    BY <1>13 DEF WriteAccessToken, Goto, backend
<1>14. ASSUME NEW q \in Req, WriteRefreshToken(q) PROVE OneLeader'
    BY <1>14 DEF WriteRefreshToken, Settle, Sharing, At, backend
<1>15. ASSUME NEW q \in Req, DropTokens(q) PROVE OneLeader'
    BY <1>15 DEF DropTokens, Goto, Settled, backend
<1>16. ASSUME NEW q \in Req, FinishLogin(q) PROVE OneLeader'
    BY <1>16 DEF FinishLogin, Goto, backend
<1>17. ASSUME NEW q \in Req, FinishLogout(q) PROVE OneLeader'
    BY <1>17 DEF FinishLogout, Goto, backend
<1>18. CASE AccessTokenExpires
    BY <1>18 DEF AccessTokenExpires, AgeOut, backend
<1>19. CASE LogoutEverywhere
    BY <1>19 DEF LogoutEverywhere, RevokeAll, backend
<1>20. CASE UNCHANGED vars
    BY <1>20 DEF vars, backend
<1> QED
    BY <1>1, <1>2, <1>3, <1>4, <1>5, <1>6, <1>7, <1>8, <1>9, <1>10, <1>11,
       <1>12, <1>13, <1>14, <1>15, <1>16, <1>17, <1>18, <1>19, <1>20 DEF Next,
       Step

(* Types *)

LEMMA MintType ==
    ASSUME BackendTypeOK, NEW login \in Pair \cup {NoPair},
           NEW kept \in SUBSET Pair, Mint(login, kept)
    PROVE  BackendTypeOK' /\ Latest \in Pair
<1> USE PairAssumption DEF BackendTypeOK, Mint, Latest, Pair
<1>1. Latest \in Pair /\ minted' \in 0 .. MaxPair
    OBVIOUS
<1>2. rows' \in SUBSET Pair /\ admitted' \in SUBSET Pair
    BY <1>1
<1>3. root' \in [Pair -> Pair \cup {NoPair}]
    OBVIOUS
<1> QED
    BY <1>1, <1>2, <1>3

LEMMA LoginType ==
    ASSUME BackendTypeOK, Login
    PROVE  BackendTypeOK' /\ Latest \in Pair
<1>1. Latest \in Pair /\ rows \in SUBSET Pair
    BY PairAssumption DEF Login, Mint, Latest, BackendTypeOK, Pair
<1> QED
    BY <1>1, MintType DEF Login

LEMMA RotateType ==
    ASSUME BackendTypeOK, NEW rt, Rotate(rt)
    PROVE  BackendTypeOK' /\ Latest \in Pair
<1>1. root[rt] \in Pair \cup {NoPair} /\ rows \ {rt} \in SUBSET Pair
    BY DEF Rotate, BackendTypeOK
<1> QED
    BY <1>1, MintType DEF Rotate

LEMMA QuietBackendType ==
    ASSUME BackendTypeOK,
           \/ UNCHANGED backend
           \/ RevokeAll
           \/ \E rt : RotateInVain(rt) \/ Revoke(rt)
           \/ \E n : AgeOut(n)
    PROVE  BackendTypeOK'
    BY DEF BackendTypeOK, backend, RevokeAll, RotateInVain, Revoke, AgeOut

\* Every step keeps the types.
LEMMA TypeStep ==
    ASSUME TypeOK, RequestsFit, [Next]_vars
    PROVE  TypeOK'
<1>1. BackendTypeOK /\ (UNCHANGED backend => BackendTypeOK')
    BY QuietBackendType DEF TypeOK
<1>2. /\ UNCHANGED secure => secure' \in [at : Token, rt : Token]
      /\ UNCHANGED store => store' \in [rt : Token, auth : BOOLEAN]
      /\ UNCHANGED promise => promise' \in Req \cup {NoReq}
      /\ UNCHANGED req => req' \in [Req -> Request]
      /\ UNCHANGED effects => effects' \in [Req -> Nat]
      /\ UNCHANGED ended => ended' \in SUBSET Pair
    BY DEF TypeOK
<1>3. \A q \in Req : req[q].at \in Token /\ req[q].rt \in Token
    BY DEF TypeOK, Request
<1>4. ASSUME NEW at \in Token,
             \/ secure' = [secure EXCEPT !.at = at]
             \/ secure' = [secure EXCEPT !.rt = at]
      PROVE  secure' \in [at : Token, rt : Token]
    BY <1>4 DEF TypeOK
<1>5. ASSUME NEW q \in Req, effects' = [effects EXCEPT ![q] = @ + 1]
      PROVE  effects' \in [Req -> Nat]
    BY <1>5 DEF TypeOK
<1>6. ASSUME NEW q \in Req, Call(q) \/ LogIn(q) \/ LogOut(q)
      PROVE  TypeOK'
  <2>1. PICK kind \in Kind, body \in Token : Start(q, kind, body)
      BY <1>6 DEF Call, LogIn, LogOut, Kind, Token, TypeOK
  <2>2. req' \in [Req -> Request]
      BY <2>1 DEF Start, TypeOK, Request, Token, Pc
  <2> QED
      BY <2>1, <2>2, <1>1, <1>2 DEF Start, TypeOK
<1>7. ASSUME NEW q \in Req, Resend(q) PROVE TypeOK'
  <2>1. req' \in [Req -> Request]
      BY <1>7 DEF Resend, TypeOK, Request, Pc
  <2> QED
      BY <1>7, <2>1, <1>1, <1>2 DEF Resend, TypeOK
<1>8. ASSUME NEW q \in Req, ServeCall(q) PROVE TypeOK'
  <2>1. req' \in [Req -> Request]
      BY <1>8, GotoRequest DEF ServeCall, Pc
  <2> QED
      BY <1>8, <2>1, <1>1, <1>2, <1>5 DEF ServeCall, TypeOK
<1>9. ASSUME NEW q \in Req, ServeLogin(q) PROVE TypeOK'
  <2>1. BackendTypeOK' /\ Latest \in Token
      BY <1>9, <1>1, LoginType DEF ServeLogin, Token
  <2>2. req' \in [Req -> Request]
      BY <1>9, <2>1, AtRequest DEF ServeLogin, Pc
  <2> QED
      BY <1>9, <2>1, <2>2, <1>2 DEF ServeLogin, TypeOK
<1>10. ASSUME NEW q \in Req, ServeLogout(q) PROVE TypeOK'
  <2>1. req' \in [Req -> Request]
      BY <1>10, GotoRequest DEF ServeLogout, Pc
  <2>2. req[q].body \in Pair /\ BackendTypeOK'
      BY <1>10, <1>1, QuietBackendType DEF ServeLogout, RequestsFit
  <2>3. ended' \in SUBSET Pair
      BY <1>10, <2>2 DEF ServeLogout, TypeOK
  <2> QED
      BY <1>10, <2>1, <2>2, <2>3, <1>2 DEF ServeLogout, TypeOK
<1>11. ASSUME NEW q \in Req, Refused(q) PROVE TypeOK'
  <2>1. req' \in [Req -> Request]
      BY <1>11, GotoRequest, SettledPc DEF Refused, Pc
  <2>2. promise' \in Req \cup {NoReq}
      BY <1>11 DEF Refused, TypeOK
  <2> QED
      BY <1>11, <2>1, <2>2, <1>1, <1>2 DEF Refused, TypeOK
<1>12. ASSUME NEW q \in Req, Unreachable(q) PROVE TypeOK'
  <2>1. req' \in [Req -> Request]
      BY <1>12, GotoRequest, SettledPc DEF Unreachable
  <2>2. BackendTypeOK'
      BY <1>12, <1>1, LoginType, QuietBackendType DEF Unreachable
  <2>3. effects' \in [Req -> Nat]
      BY <1>12, <1>2, <1>5 DEF Unreachable
  <2>4. ended' \in SUBSET Pair
      BY <1>12, <1>2 DEF Unreachable, RequestsFit, TypeOK
  <2> QED
      BY <1>12, <2>1, <2>2, <2>3, <2>4, <1>2 DEF Unreachable, TypeOK
<1>13. ASSUME NEW q \in Req, ReadRefreshToken(q) PROVE TypeOK'
  <2>1. CASE secure.rt = NoPair
    <3>1. req' \in [Req -> Request] /\ promise' = NoReq
        BY <1>13, <2>1, <1>3, SettleRequests, SettledPc DEF ReadRefreshToken
    <3> QED
        BY <1>13, <3>1, <1>1, <1>2 DEF ReadRefreshToken, TypeOK
  <2>2. CASE secure.rt # NoPair
    <3>1. req' \in [Req -> Request]
        BY <1>13, <2>2 DEF ReadRefreshToken, TypeOK, Request, Pc
    <3> QED
        BY <1>13, <2>2, <3>1, <1>1, <1>2 DEF ReadRefreshToken, TypeOK
  <2> QED
      BY <2>1, <2>2
<1>14. ASSUME NEW q \in Req, RefreshAccepted(q) PROVE TypeOK'
  <2>1. BackendTypeOK' /\ Latest \in Token
      BY <1>14, <1>1, RotateType DEF RefreshAccepted, Token
  <2>2. req' \in [Req -> Request]
      BY <1>14, <2>1, AtRequest DEF RefreshAccepted, Pc
  <2> QED
      BY <1>14, <2>1, <2>2, <1>2 DEF RefreshAccepted, TypeOK
<1>15. ASSUME NEW q \in Req, RefreshFailed(q) PROVE TypeOK'
  <2>1. req' \in [Req -> Request] /\ promise' = NoReq
      BY <1>15, <1>3, SettleRequests DEF RefreshFailed, Over
  <2>2. BackendTypeOK'
      BY <1>15, <1>1, RotateType, QuietBackendType DEF RefreshFailed
  <2>3. ended' \in SUBSET Pair
      BY <1>15, <1>2 DEF RefreshFailed, RequestsFit, TypeOK
  <2> QED
      BY <1>15, <2>1, <2>2, <2>3, <1>2 DEF RefreshFailed, TypeOK
<1>16. ASSUME NEW q \in Req, WriteAccessToken(q) PROVE TypeOK'
  <2>1. req' \in [Req -> Request]
      BY <1>16, GotoRequest DEF WriteAccessToken, Pc
  <2>2. secure' \in [at : Token, rt : Token]
      BY <1>16, <1>3, <1>4 DEF WriteAccessToken
  <2> QED
      BY <1>16, <2>1, <2>2, <1>1, <1>2 DEF WriteAccessToken, TypeOK
<1>17. ASSUME NEW q \in Req, WriteRefreshToken(q) PROVE TypeOK'
  <2>1. req' \in [Req -> Request] /\ promise' = NoReq
      BY <1>17, <1>3, SettleRequests DEF WriteRefreshToken, Over
  <2>2. secure' \in [at : Token, rt : Token]
      BY <1>17, <1>3, <1>4 DEF WriteRefreshToken
  <2> QED
      BY <1>17, <2>1, <2>2, <1>1, <1>2 DEF WriteRefreshToken, TypeOK
<1>18. ASSUME NEW q \in Req, DropTokens(q) PROVE TypeOK'
  <2>1. req' \in [Req -> Request]
      BY <1>18, GotoRequest, SettledPc DEF DropTokens, Pc
  <2>2. secure' \in [at : Token, rt : Token]
      BY <1>18, <1>4 DEF DropTokens, Token
  <2> QED
      BY <1>18, <2>1, <2>2, <1>1, <1>2 DEF DropTokens, TypeOK
<1>19. ASSUME NEW q \in Req, FinishLogin(q) PROVE TypeOK'
  <2>1. req' \in [Req -> Request]
      BY <1>19, GotoRequest DEF FinishLogin, Pc
  <2>2. secure' \in [at : Token, rt : Token]
      BY <1>19, <1>2, <1>3, <1>4 DEF FinishLogin
  <2>3. store' \in [rt : Token, auth : BOOLEAN]
    <3>1. UNCHANGED store \/ store' = [rt |-> req[q].at, auth |-> TRUE]
        BY <1>19 DEF FinishLogin
    <3>2. [rt |-> req[q].at, auth |-> TRUE] \in [rt : Token, auth : BOOLEAN]
        BY <1>3 DEF Token
    <3> QED
        BY <1>2, <3>1, <3>2
  <2> QED
      BY <1>19, <2>1, <2>2, <2>3, <1>1, <1>2 DEF FinishLogin, TypeOK
<1>20. ASSUME NEW q \in Req, FinishLogout(q) PROVE TypeOK'
  <2>1. req' \in [Req -> Request]
      BY <1>20, GotoRequest DEF FinishLogout, Pc
  <2>2. secure' \in [at : Token, rt : Token]
      BY <1>20, <1>2, <1>4 DEF FinishLogout, Token
  <2>3. store' \in [rt : Token, auth : BOOLEAN]
    <3>1. UNCHANGED store \/ store' = [rt |-> NoPair, auth |-> FALSE]
        BY <1>20 DEF FinishLogout
    <3>2. [rt |-> NoPair, auth |-> FALSE] \in [rt : Token, auth : BOOLEAN]
        BY <1>3 DEF Token
    <3> QED
        BY <1>2, <3>1, <3>2
  <2> QED
      BY <1>20, <2>1, <2>2, <2>3, <1>1, <1>2 DEF FinishLogout, TypeOK
<1>21. CASE AccessTokenExpires
    BY <1>21, <1>1, <1>2, QuietBackendType DEF AccessTokenExpires, TypeOK
<1>22. CASE LogoutEverywhere
  <2>1. BackendTypeOK' /\ ended' \in SUBSET Pair
      BY <1>22, <1>1, QuietBackendType DEF LogoutEverywhere, BackendTypeOK, TypeOK
  <2> QED
      BY <1>22, <2>1, <1>2 DEF LogoutEverywhere, TypeOK
<1>23. CASE UNCHANGED vars
    BY <1>23, <1>1, <1>2 DEF vars, backend, TypeOK
<1> QED
    BY <1>6, <1>7, <1>8, <1>9, <1>10, <1>11, <1>12, <1>13, <1>14, <1>15, <1>16,
       <1>17, <1>18, <1>19, <1>20, <1>21, <1>22, <1>23 DEF Next, Step

-----------------------------------------------------------------------------
(* What a step does to the pairs *)

\* Request p gets no pair and presents none it has not presented before.
Continues(p) ==
    /\ req'[p].pc \in Holding => req[p].pc \in Holding /\ req'[p].at = req[p].at
    /\ req'[p].pc = "refresh" => req[p].pc = "refresh" /\ req'[p].rt = req[p].rt

\* A pair that is being written is still being written.
KeepsWriting(p) ==
    req[p].pc \in Writing => req'[p].pc \in Writing /\ req'[p].rt = req[p].rt

\* The backend mints nothing, and what it drops has been ended.
Drops ==
    /\ UNCHANGED minted
    /\ rows' \subseteq rows
    /\ ended \subseteq ended'
    /\ rows \ rows' \subseteq ended'

\* Pairs are only dropped.
Quiet ==
    /\ Drops
    /\ secure'.rt \in {secure.rt, NoPair}
    /\ \A p \in Req : /\ req'[p].rt \in {req[p].rt, NoPair}
                      /\ Continues(p)
                      /\ KeepsWriting(p)

\* The leader q reads the token it is going to present.
Reads(q) ==
    /\ req[q].pc = "readRt"
    /\ secure.rt # NoPair
    /\ UNCHANGED <<minted, rows, ended, secure>>
    /\ req'[q].rt = secure.rt
    /\ req'[q].pc = "refresh"
    /\ \A p \in Req \ {q} : req'[p] = req[p]

\* The backend mints a pair, which q may get; the one that q has presented
\* for it is being replaced, or has been lost.
MintsFor(q) ==
    /\ \/ Login
       \/ /\ req[q].pc = "refresh"
          /\ Rotate(req[q].rt)
          /\ req'[q].pc # "refresh"
          /\ req'[q].pc \in Writing \/ req[q].rt \in ended'
    /\ UNCHANGED secure
    /\ ended \subseteq ended'
    /\ \A p \in Req : /\ req'[p].rt = req[p].rt
                      /\ Continues(p) \/ (p = q /\ req'[p].at = Latest
                                                /\ req'[p].pc # "refresh")
                      /\ KeepsWriting(p)

\* Request q stores the refresh token it has got.
Stores(q) ==
    /\ req[q].pc \in Holding
    /\ req'[q].pc \notin Holding
    /\ secure'.rt = req[q].at
    /\ UNCHANGED <<minted, rows, ended>>
    /\ \A p \in Req : /\ req'[p].rt = req[p].rt
                      /\ Continues(p)
                      /\ p # q => KeepsWriting(p)

Pairs ==
    /\ TokensMade
    /\ HeldByOne
    /\ HeldGood
    /\ NeverReplaysRefreshToken
    /\ DeadTokenExplained

LEMMA QuietStep ==
    ASSUME TypeOK, TypeOK', Pairs, Quiet
    PROVE  Pairs'
<1> USE DEF Pairs, Quiet
<1>1. \A p \in Req, n \in Pair : Holds(p, n)' => Holds(p, n)
    BY DEF Holds, Continues
<1>2. minted' = minted
    BY DEF Drops
<1>3. TokensMade'
    BY <1>1, <1>2 DEF TokensMade, Made
<1>4. HeldByOne'
    BY <1>1 DEF HeldByOne, Pair, NoPair
<1>5. HeldGood'
    BY <1>1 DEF HeldGood, Drops
<1>6. NeverReplaysRefreshToken'
    BY DEF NeverReplaysRefreshToken, Continues, Drops
<1>7. DeadTokenExplained'
    BY DEF DeadTokenExplained, KeepsWriting, Writing, Drops
<1> QED
    BY <1>3, <1>4, <1>5, <1>6, <1>7

LEMMA ReadStep ==
    ASSUME TypeOK, OneLeader, Pairs, NEW q \in Req, Reads(q)
    PROVE  Pairs'
<1> USE DEF Pairs, Reads
<1>1. \A p \in Req, n \in Pair : Holds(p, n)' => Holds(p, n) /\ p # q
    BY DEF Holds, Holding, Writing
<1>2. minted' = minted
    OBVIOUS
<1>3. TokensMade'
    BY <1>1, <1>2 DEF TokensMade, Made
<1>4. HeldByOne'
    BY <1>1 DEF HeldByOne
<1>5. HeldGood'
    BY <1>1 DEF HeldGood
<1>6. \A p \in Req : req[p].pc \notin {"writeAt", "writeRt"}
    BY DEF OneLeader, Refreshing
<1>7. NeverReplaysRefreshToken'
  <2>1. secure.rt \notin rows => secure.rt \in ended
      BY <1>6 DEF DeadTokenExplained
  <2> QED
      BY <2>1 DEF NeverReplaysRefreshToken
<1>8. DeadTokenExplained'
    BY <1>6 DEF DeadTokenExplained
<1> QED
    BY <1>3, <1>4, <1>5, <1>7, <1>8

LEMMA MintStep ==
    ASSUME TypeOK, TypeOK', OneLeader, Pairs, NEW q \in Req, MintsFor(q)
    PROVE  Pairs'
<1> USE DEF Pairs
<1>1. PICK top : top = Latest
    OBVIOUS
<1>2. PICK login, kept :
        /\ Mint(login, kept)
        /\ \/ kept = rows
           \/ /\ req[q].pc = "refresh"
              /\ req'[q].pc # "refresh"
              /\ req'[q].pc \in Writing \/ req[q].rt \in ended'
              /\ kept = rows \ {req[q].rt}
    BY DEF MintsFor, Login, Rotate
<1>3. /\ top \in Pair /\ top \notin Made /\ Made' = Made \cup {top}
      /\ rows' = kept \cup {top}
    BY <1>1, <1>2, PairAssumption
    DEF Mint, Latest, Made, Pair, TypeOK, BackendTypeOK
<1>4. ASSUME NEW n \in rows, n \notin rows'
      PROVE  /\ n = req[q].rt
             /\ req[q].pc = "refresh" /\ req'[q].pc # "refresh"
             /\ req'[q].pc \in Writing \/ n \in ended'
    BY <1>2, <1>3, <1>4
<1>5. ended \subseteq ended' /\ secure' = secure
    BY DEF MintsFor
<1>6. \A p \in Req, n \in Pair :
        Holds(p, n)' => Holds(p, n) \/ (p = q /\ n = top)
    BY <1>1 DEF MintsFor, Continues, Holds
<1>7. \A p \in Req : req'[p].rt = req[p].rt
    BY DEF MintsFor
<1>8. TokensMade'
    BY <1>3, <1>5, <1>6, <1>7 DEF TokensMade
<1>9. HeldByOne'
  <2>1. secure.rt # top /\ \A p \in Req : req[p].rt # top /\ ~ Holds(p, top)
      BY <1>3 DEF TokensMade, Pair, NoPair
  <2> QED
      BY <2>1, <1>5, <1>6, <1>7 DEF HeldByOne
<1>10. HeldGood'
  <2> SUFFICES ASSUME NEW p \in Req, NEW n \in Pair, Holds(p, n)'
               PROVE  n \in rows' \cup ended'
      BY DEF HeldGood
  <2>1. CASE n = top
      BY <2>1, <1>3
  <2>2. CASE Holds(p, n)
    <3>1. n \in rows \cup ended /\ n # req[q].rt
        BY <2>2 DEF HeldGood, HeldByOne
    <3> QED
        BY <3>1, <1>4, <1>5
  <2> QED
      BY <2>1, <2>2, <1>6
<1>11. NeverReplaysRefreshToken'
  <2> SUFFICES ASSUME NEW p \in Req, req'[p].pc = "refresh",
                      req'[p].rt \notin rows'
               PROVE  req'[p].rt \in ended'
      BY DEF NeverReplaysRefreshToken
  <2>1. req[p].pc = "refresh" /\ req'[p].rt = req[p].rt
      BY DEF MintsFor, Continues
  <2>2. CASE req[p].rt \in rows
      BY <2>1, <2>2, <1>4 DEF OneLeader, Refreshing
  <2>3. CASE req[p].rt \notin rows
      BY <2>1, <2>3, <1>5 DEF NeverReplaysRefreshToken
  <2> QED
      BY <2>2, <2>3
<1>12. DeadTokenExplained'
  <2> SUFFICES ASSUME secure.rt # NoPair, secure.rt \notin rows',
                      secure.rt \notin ended'
               PROVE  \E p \in Req : /\ req'[p].pc \in Writing
                                     /\ req'[p].rt = secure.rt
      BY <1>5 DEF DeadTokenExplained, Writing
  <2>1. CASE secure.rt \in rows
      BY <2>1, <1>4, <1>7
  <2>2. CASE secure.rt \notin rows
    <3>1. PICK p \in Req : req[p].pc \in Writing /\ req[p].rt = secure.rt
        BY <2>2, <1>5 DEF DeadTokenExplained, Writing
    <3> QED
        BY <3>1 DEF MintsFor, KeepsWriting
  <2> QED
      BY <2>1, <2>2
<1> QED
    BY <1>8, <1>9, <1>10, <1>11, <1>12

LEMMA StoreStep ==
    ASSUME TypeOK, TypeOK', Pairs, NEW q \in Req, Stores(q)
    PROVE  Pairs'
<1> USE DEF Pairs, Stores
<1>1. \A p \in Req, n \in Pair : Holds(p, n)' => Holds(p, n) /\ p # q
    BY DEF Holds, Continues
<1>2. minted' = minted
    OBVIOUS
<1>3. \/ secure'.rt = NoPair
      \/ secure'.rt \in Pair /\ Holds(q, req[q].at)
    BY DEF TypeOK, Request, Token, Holds
<1>4. TokensMade'
  <2>1. secure'.rt \in Made \cup {NoPair}
      BY <1>3 DEF TokensMade
  <2> QED
      BY <2>1, <1>1, <1>2 DEF TokensMade, Made
<1>5. HeldByOne'
  <2> SUFFICES ASSUME NEW p \in Req, NEW n \in Pair, Holds(p, n)'
               PROVE  /\ n # secure'.rt
                      /\ \A r \in Req : req'[r].rt # n /\ (Holds(r, n)' => r = p)
      BY DEF HeldByOne
  <2>1. Holds(p, n) /\ p # q
      BY <1>1
  <2>2. n # secure'.rt
      BY <2>1, <1>3 DEF HeldByOne, Pair, NoPair
  <2> QED
      BY <2>1, <2>2, <1>1 DEF HeldByOne
<1>6. HeldGood'
    BY <1>1 DEF HeldGood
<1>7. NeverReplaysRefreshToken'
    BY DEF NeverReplaysRefreshToken, Continues
<1>8. DeadTokenExplained'
  <2>1. secure'.rt = NoPair \/ secure'.rt \in rows \cup ended
      BY <1>3 DEF HeldGood
  <2> QED
      BY <2>1 DEF DeadTokenExplained
<1> QED
    BY <1>4, <1>5, <1>6, <1>7, <1>8

\* A request that goes on without a token of its own.
LEMMA GotoQuiet ==
    ASSUME TypeOK, NEW q \in Req, NEW pc, Goto(q, pc), pc # "refresh",
           pc \in Holding => req[q].pc \in Holding,
           req[q].pc \in Writing => pc \in Writing
    PROVE  \A p \in Req : /\ req'[p].rt = req[p].rt
                          /\ Continues(p)
                          /\ KeepsWriting(p)
    BY GotoRequest DEF Continues, KeepsWriting

\* A refresh that ends without a pair.
LEMMA SettleQuiet ==
    ASSUME TypeOK, NEW q \in Req, NEW next, Settle(q, next),
           \A r \in Req : \E pc \in Over, at \in Token : next[r] = At(req[r], pc, at)
    PROVE  \A p \in Req : /\ req'[p].rt = req[p].rt
                          /\ Continues(p)
                          /\ p # q => KeepsWriting(p)
                          /\ req[p].pc \notin Writing => KeepsWriting(p)
                          /\ p = q => req'[p].pc \in Over
<1>1. ASSUME NEW p \in Req
      PROVE  IF p = q \/ req[p].pc = "waiting" THEN req'[p].pc \in Over
                                               ELSE req'[p] = req[p]
    BY SettleRequests DEF Sharing
<1>2. \A p \in Req : req'[p].rt = req[p].rt
    BY SettleRequests
<1> QED
    BY <1>1, <1>2 DEF Continues, KeepsWriting, Over, Holding, Writing

\* Every step is one of the four kinds.
LEMMA StepKinds ==
    ASSUME TypeOK, [Next]_vars
    PROVE  Quiet \/ \E q \in Req : Reads(q) \/ MintsFor(q) \/ Stores(q)
<1>1. UNCHANGED backend /\ UNCHANGED ended => Drops
    BY DEF Drops, backend
<1>2. UNCHANGED secure => secure'.rt \in {secure.rt, NoPair}
    OBVIOUS
<1>3. \A q \in Req : req[q].at \in Token
    BY DEF TypeOK, Request
<1>4. UNCHANGED req => \A p \in Req : /\ req'[p].rt = req[p].rt
                                      /\ Continues(p)
                                      /\ KeepsWriting(p)
    BY DEF Continues, KeepsWriting
<1>5. ASSUME NEW value, secure' = [secure EXCEPT !.at = value]
      PROVE  secure'.rt = secure.rt
    BY <1>5 DEF TypeOK
<1>6. ASSUME NEW value, secure' = [secure EXCEPT !.rt = value]
      PROVE  secure'.rt = value
    BY <1>6 DEF TypeOK
<1>7. ASSUME NEW q \in Req, Call(q) \/ LogIn(q) \/ LogOut(q)
      PROVE  Quiet
  <2>1. PICK kind, body : Start(q, kind, body)
      BY <1>7 DEF Call, LogIn, LogOut
  <2>2. \A p \in Req : /\ req'[p].rt \in {req[p].rt, NoPair}
                       /\ Continues(p)
                       /\ KeepsWriting(p)
      BY <2>1 DEF Start, TypeOK, Continues, KeepsWriting, Holding, Writing
  <2> QED
      BY <2>1, <2>2, <1>1, <1>2 DEF Start, Quiet
<1>8. ASSUME NEW q \in Req, Resend(q) PROVE Quiet
  <2>1. \A p \in Req : /\ req'[p].rt = req[p].rt
                       /\ Continues(p)
                       /\ KeepsWriting(p)
      BY <1>8 DEF Resend, TypeOK, Continues, KeepsWriting, Holding, Writing
  <2> QED
      BY <1>8, <2>1, <1>1, <1>2 DEF Resend, Quiet
<1>9. ASSUME NEW q \in Req, ServeCall(q) PROVE Quiet
  <2>1. \A p \in Req : /\ req'[p].rt = req[p].rt
                       /\ Continues(p)
                       /\ KeepsWriting(p)
      BY <1>9, GotoQuiet DEF ServeCall, Holding, Writing
  <2> QED
      BY <1>9, <2>1, <1>1, <1>2 DEF ServeCall, Quiet
<1>10. ASSUME NEW q \in Req, ServeLogin(q) PROVE MintsFor(q)
  <2>1. Latest \in Token
      BY <1>10, LoginType DEF ServeLogin, TypeOK, Token
  <2>2. \A r \in Req : /\ req'[r].pc = IF r = q THEN "loginAt" ELSE req[r].pc
                       /\ req'[r].at = IF r = q THEN Latest ELSE req[r].at
                       /\ req'[r].rt = req[r].rt
    <3>1. req' = [req EXCEPT ![q] = At(@, "loginAt", Latest)]
        BY <1>10 DEF ServeLogin
    <3>2. "loginAt" \in Pc
        BY DEF Pc
    <3> QED
        BY <2>1, <3>1, <3>2, AtRequest
  <2> QED
      BY <1>10, <2>2 DEF ServeLogin, MintsFor, Continues, KeepsWriting, Writing
<1>11. ASSUME NEW q \in Req, ServeLogout(q) PROVE Quiet
  <2>1. \A p \in Req : /\ req'[p].rt = req[p].rt
                       /\ Continues(p)
                       /\ KeepsWriting(p)
      BY <1>11, GotoQuiet DEF ServeLogout, Holding, Writing
  <2>2. Drops
      BY <1>11 DEF ServeLogout, Revoke, Drops
  <2> QED
      BY <1>11, <2>1, <2>2, <1>2 DEF ServeLogout, Quiet
<1>12. ASSUME NEW q \in Req, Refused(q) PROVE Quiet
  <2>1. PICK pc \in Over \cup {"readRt", "waiting"} : Goto(q, pc)
      BY <1>12, SettledPc DEF Refused
  <2>2. \A p \in Req : /\ req'[p].rt = req[p].rt
                       /\ Continues(p)
                       /\ KeepsWriting(p)
      BY <1>12, <2>1, GotoQuiet DEF Refused, Over, Holding, Writing
  <2> QED
      BY <1>12, <2>2, <1>1, <1>2 DEF Refused, Quiet
<1>13. ASSUME NEW q \in Req, Unreachable(q) PROVE Quiet \/ MintsFor(q)
  <2>1. PICK pc \in Over : Goto(q, pc)
      BY <1>13, SettledPc DEF Unreachable
  <2>2. \A p \in Req : /\ req'[p].rt = req[p].rt
                       /\ Continues(p)
                       /\ KeepsWriting(p)
      BY <1>13, <2>1, GotoQuiet DEF Unreachable, Over, Holding, Writing
  <2>3. CASE Login /\ UNCHANGED ended
      BY <1>13, <2>2, <2>3 DEF Unreachable, MintsFor
  <2>4. CASE ~ Login
    <3>1. Drops
        BY <1>13, <2>4, <1>1 DEF Unreachable, Revoke, Drops
    <3> QED
        BY <1>13, <2>2, <3>1, <1>2 DEF Unreachable, Quiet
  <2>5. Login => UNCHANGED ended
    <3>1. Login => minted' # minted
        BY PairAssumption DEF Login, Mint, Latest, TypeOK, BackendTypeOK
    <3> QED
        BY <1>13, <3>1 DEF Unreachable, Revoke, backend
  <2> QED
      BY <2>3, <2>4, <2>5
<1>14. ASSUME NEW q \in Req, ReadRefreshToken(q) PROVE Quiet \/ Reads(q)
  <2>1. CASE secure.rt = NoPair
    <3>1. \A p \in Req : /\ req'[p].rt = req[p].rt
                         /\ Continues(p)
                         /\ KeepsWriting(p)
        BY <1>14, <2>1, <1>3, SettleQuiet, SettledPc DEF ReadRefreshToken, Writing
    <3> QED
        BY <1>14, <3>1, <1>1, <1>2 DEF ReadRefreshToken, Quiet
  <2>2. CASE secure.rt # NoPair
    <3>1. /\ req'[q].rt = secure.rt
          /\ req'[q].pc = "refresh"
          /\ \A p \in Req \ {q} : req'[p] = req[p]
        BY <1>14, <2>2 DEF ReadRefreshToken, TypeOK
    <3> QED
        BY <1>14, <2>2, <3>1 DEF ReadRefreshToken, Reads, backend
  <2> QED
      BY <2>1, <2>2
<1>15. ASSUME NEW q \in Req, RefreshAccepted(q) PROVE MintsFor(q)
  <2>1. Latest \in Token
      BY <1>15, RotateType DEF RefreshAccepted, TypeOK, Token
  <2>2. \A r \in Req : /\ req'[r].pc = IF r = q THEN "writeAt" ELSE req[r].pc
                       /\ req'[r].at = IF r = q THEN Latest ELSE req[r].at
                       /\ req'[r].rt = req[r].rt
    <3>1. PICK top \in Token : top = Latest
        BY <2>1
    <3>2. req' = [req EXCEPT ![q] = At(@, "writeAt", top)]
        BY <1>15, <3>1 DEF RefreshAccepted
    <3>3. "writeAt" \in Pc
        BY DEF Pc
    <3> QED
        BY <3>1, <3>2, <3>3, AtRequest
  <2> QED
      BY <1>15, <2>2 DEF RefreshAccepted, MintsFor, Continues, KeepsWriting, Writing
<1>16. ASSUME NEW q \in Req, RefreshFailed(q) PROVE Quiet \/ MintsFor(q)
  <2>1. \A p \in Req : /\ req'[p].rt = req[p].rt
                       /\ Continues(p)
                       /\ KeepsWriting(p)
                       /\ p = q => req'[p].pc \in Over
      BY <1>16, <1>3, SettleQuiet DEF RefreshFailed, Over, Writing
  <2>2. CASE Rotate(req[q].rt) /\ ended' = ended \cup {req[q].rt}
      BY <1>16, <2>1, <2>2 DEF RefreshFailed, MintsFor, Over
  <2>3. CASE ~ Rotate(req[q].rt)
    <3>1. Drops
        BY <1>16, <2>3, <1>1 DEF RefreshFailed, RotateInVain, Drops, backend
    <3> QED
        BY <1>16, <2>1, <3>1, <1>2 DEF RefreshFailed, Quiet
  <2> QED
      BY <1>16, <2>2, <2>3 DEF RefreshFailed, Rotate
<1>17. ASSUME NEW q \in Req, WriteAccessToken(q) PROVE Quiet
  <2>1. \A p \in Req : /\ req'[p].rt = req[p].rt
                       /\ Continues(p)
                       /\ KeepsWriting(p)
      BY <1>17, GotoQuiet DEF WriteAccessToken, Holding, Writing
  <2> QED
      BY <1>17, <2>1, <1>1, <1>5 DEF WriteAccessToken, Quiet
<1>18. ASSUME NEW q \in Req, WriteRefreshToken(q) PROVE Stores(q)
  <2>1. \A p \in Req : /\ req'[p].rt = req[p].rt
                       /\ Continues(p)
                       /\ p # q => KeepsWriting(p)
                       /\ p = q => req'[p].pc \in Over
      BY <1>18, <1>3, SettleQuiet DEF WriteRefreshToken, Over
  <2>2. secure'.rt = req[q].at
      BY <1>18, <1>6 DEF WriteRefreshToken
  <2> QED
      BY <1>18, <2>1, <2>2
      DEF WriteRefreshToken, Stores, backend, Holding, Writing, Over
<1>19. ASSUME NEW q \in Req, DropTokens(q) PROVE Quiet
  <2>1. PICK pc \in Over \cup {"dropRt"} : Goto(q, pc)
      BY <1>19, SettledPc DEF DropTokens
  <2>2. \A p \in Req : /\ req'[p].rt = req[p].rt
                       /\ Continues(p)
                       /\ KeepsWriting(p)
      BY <1>19, <2>1, GotoQuiet DEF DropTokens, Over, Holding, Writing
  <2>3. secure'.rt \in {secure.rt, NoPair}
      BY <1>19, <1>5, <1>6 DEF DropTokens
  <2> QED
      BY <1>19, <2>2, <2>3, <1>1 DEF DropTokens, Quiet
<1>20. ASSUME NEW q \in Req, FinishLogin(q) PROVE Quiet \/ Stores(q)
  <2>1. PICK pc \in {"loginRt", "loginSet", "ok"} :
          Goto(q, pc) /\ (pc = "loginRt" <=> req[q].pc = "loginAt")
      BY <1>20 DEF FinishLogin
  <2>2. \A p \in Req : /\ req'[p].rt = req[p].rt
                       /\ Continues(p)
                       /\ KeepsWriting(p)
      BY <1>20, <2>1, GotoQuiet DEF FinishLogin, Holding, Writing
  <2>3. CASE req[q].pc = "loginRt"
    <3>1. secure'.rt = req[q].at
        BY <1>20, <2>3, <1>6 DEF FinishLogin
    <3>2. req'[q].pc \notin Holding
        BY <2>1, <2>3, GotoRequest DEF Holding, Writing
    <3> QED
        BY <1>20, <2>2, <2>3, <3>1, <3>2 DEF FinishLogin, Stores, backend, Holding
  <2>4. CASE req[q].pc # "loginRt"
    <3>1. secure'.rt = secure.rt
        BY <1>20, <2>4, <1>5 DEF FinishLogin
    <3> QED
        BY <1>20, <2>2, <3>1, <1>1 DEF FinishLogin, Quiet
  <2> QED
      BY <2>3, <2>4
<1>21. ASSUME NEW q \in Req, FinishLogout(q) PROVE Quiet
  <2>1. PICK pc \in {"wipeRt", "signOut", "ok"} : Goto(q, pc)
      BY <1>21 DEF FinishLogout
  <2>2. \A p \in Req : /\ req'[p].rt = req[p].rt
                       /\ Continues(p)
                       /\ KeepsWriting(p)
      BY <1>21, <2>1, GotoQuiet DEF FinishLogout, Holding, Writing
  <2>3. secure'.rt \in {secure.rt, NoPair}
      BY <1>21, <1>5, <1>6 DEF FinishLogout
  <2> QED
      BY <1>21, <2>2, <2>3, <1>1 DEF FinishLogout, Quiet
<1>22. CASE AccessTokenExpires
  <2>1. Drops
      BY <1>22 DEF AccessTokenExpires, AgeOut, Drops
  <2> QED
      BY <1>22, <2>1, <1>2, <1>4 DEF AccessTokenExpires, Quiet
<1>23. CASE LogoutEverywhere
  <2>1. Drops
      BY <1>23 DEF LogoutEverywhere, RevokeAll, Drops
  <2> QED
      BY <1>23, <2>1, <1>2, <1>4 DEF LogoutEverywhere, Quiet
<1>24. CASE UNCHANGED vars
    BY <1>24, <1>1, <1>2, <1>4 DEF vars, backend, Quiet
<1> QED
    BY <1>7, <1>8, <1>9, <1>10, <1>11, <1>12, <1>13, <1>14, <1>15, <1>16, <1>17,
       <1>18, <1>19, <1>20, <1>21, <1>22, <1>23, <1>24 DEF Next, Step

-----------------------------------------------------------------------------
(* Theorems *)

\* The facts above hold in every state.
THEOREM Invariance == Spec => []IInv
<1>1. ASSUME IInv, [Next]_vars PROVE IInv'
  <2> USE <1>1 DEF IInv
  <2>1. TypeOK' /\ RequestsFit'
      BY TypeStep, RequestsFitStep
  <2>2. NothingRunYet' /\ ReplayRunsOnce' /\ OneLeader'
      BY NothingRunYetStep, ReplayStep, OneLeaderStep
  <2>3. Pairs'
      BY <2>1, StepKinds, QuietStep, ReadStep, MintStep, StoreStep DEF Pairs
  <2> QED
      BY <2>1, <2>2, <2>3 DEF Pairs
<1> QED
    BY <1>1, InitIInv, PTL DEF Spec

\* The app keeps its state well formed.
THEOREM TypeCorrect == Spec => []TypeOK
    BY Invariance, PTL DEF IInv

\* The replay after a refresh repeats no call, and an outcome tells whether the
\* call ran (the response interceptor of api.ts).
THEOREM ReplayedOnce == Spec => []ReplayRunsOnce
    BY Invariance, PTL DEF IInv

\* The shared promise is serialisation enough: no refresh presents a token that
\* another request of the app has used up (refreshPromise of api.ts).
THEOREM PromiseSerialises == Spec => []NeverReplaysRefreshToken
    BY Invariance, PTL DEF IInv

\* A dead refresh token in SecureStore is one that a logout or a fault has ended,
\* or one that is just being replaced.
THEOREM DeadTokensExplained == Spec => []DeadTokenExplained
    BY Invariance, PTL DEF IInv
=============================================================================
