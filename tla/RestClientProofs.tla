-------------------------- MODULE RestClientProofs --------------------------
(* What holds of the REST client for any number of requests, page loads,   *)
(* expired tokens and lost answers.                                        *)
EXTENDS RestClient, FiniteSetTheorems, SequenceTheorems, TLAPS

USE RequestAssumption, BoundAssumption

-----------------------------------------------------------------------------
\* Types.

\* A request that goes out again keeps its mark.
LEMMA SentIsRequest ==
    ASSUME TypeOK, NEW r \in Requests, NEW token \in Token
    PROVE  /\ Sent(r, token) \in Request
           /\ Sent(r, token).st = "sent"
           /\ Sent(r, token).retry = reqs[r].retry
           /\ Sent(r, token).why = reqs[r].why
           /\ Sent(r, token).bearer = token
           /\ Sent(r, token).fresh <=> token > reqs[r].bearer
<1> DEFINE later == token > reqs[r].bearer
<1>1. reqs[r] \in Request
  BY DEF TypeOK, ClientTypes
<1>2. later \in BOOLEAN
  OBVIOUS
<1>3. Sent(r, token) = [reqs[r] EXCEPT !.st = "sent", !.bearer = token, !.fresh = later]
  BY DEF Sent
<1> HIDE DEF later
<1>4. Sent(r, token) \in Request /\ Sent(r, token).fresh = later
  BY <1>1, <1>2, <1>3 DEF Request
<1>5. QED
  BY <1>1, <1>3, <1>4 DEF Request, later

\* A request that was answered is a request.
LEMMA AnsweredIsRequest ==
    ASSUME NEW q \in Request
    PROVE  /\ [q EXCEPT !.st = "ok"] \in Request
           /\ [q EXCEPT !.st = "denied"] \in Request
           /\ [q EXCEPT !.st = "failed", !.why = "network"] \in Request
  BY DEF Request

\* A granted token is a new one within the bound.
LEMMA GrantedIsToken ==
    ASSUME TypeOK, Grant
    PROVE  /\ granted + 1 \in Token /\ granted' \in Token
           /\ accepted' \subseteq Token \ {0}
<1>1. granted + 1 \in Token \ {0}
  BY DEF TypeOK, ServerTypes, Grant, Token
<1>2. QED
  BY <1>1 DEF TypeOK, ServerTypes, Grant

\* Faults are counted.
LEMMA FaultIsCounted ==
    ASSUME TypeOK, Fault
    PROVE  faults' \in 0..MaxFaults
  BY DEF TypeOK, BoundTypes, Fault

\* What a page starts with.
LEMMA NothingIsTyped ==
    /\ NewRequest \in Request
    /\ NewRequest.st = "idle" /\ NewRequest.retry = FALSE /\ NewRequest.why = ""
    /\ NewRequest.bearer = 0
    /\ NoRefresh \in Refresh
    /\ NoRefresh.by = None /\ NoRefresh.reply = "none"
    /\ 0 \in Token /\ 0 \in Nat /\ <<>> \in Seq(Requests)
  BY DEF NewRequest, Request, Refresh, NoRefresh, Token

\* Where the guard of the administration leads is a path of the page.
LEMMA GuardIsPath ==
    ASSUME NEW path \in Paths, NEW token PROVE AdminGuard(path, token) \in Paths
  BY DEF AdminGuard, Paths

\* What useAuth leaves of a token, and what else it touches.
LEMMA AuthIsTyped ==
    ASSUME TypeOK, NEW path, NEW token \in Token, UseAuth(path, token)
    PROVE  /\ StoreTypes'
           /\ (accessToken' = 0 /\ timedOut') \/ (accessToken' = token /\ timedOut' = timedOut)
           /\ logoutCall' \in BOOLEAN /\ timedOut' \in BOOLEAN
<1>1. CASE path # "/auth" /\ token \in 1..expired
  <2>1. accessToken' = 0 /\ user' = FALSE /\ logoutCall' = TRUE /\ timedOut' = TRUE
    BY <1>1, Zenon DEF UseAuth, SignOut
  <2>2. StoreTypes'
    BY <2>1, NothingIsTyped DEF StoreTypes
  <2>3. logoutCall' \in BOOLEAN /\ timedOut' \in BOOLEAN
    BY <2>1
  <2>4. accessToken' = 0 /\ timedOut'
    BY <2>1
  <2>5. QED
    BY <2>2, <2>3, <2>4, Zenon
<1>2. CASE ~(path # "/auth" /\ token \in 1..expired)
  <2>1. accessToken' = token /\ UNCHANGED <<user, logoutCall, timedOut>>
    BY <1>2, Zenon DEF UseAuth
  <2>2. user \in BOOLEAN /\ logoutCall \in BOOLEAN /\ timedOut \in BOOLEAN
    BY Zenon DEF TypeOK, StoreTypes, ServerTypes, BoundTypes
  <2>3. StoreTypes'
    BY <2>1, <2>2, Zenon DEF StoreTypes
  <2>4. QED
    BY <2>1, <2>2, <2>3, Zenon
<1>3. QED
  BY <1>1, <1>2

LEMMA LoadKeepsTypes ==
    ASSUME TypeOK, NEW path \in Paths, Load(path)
    PROVE  TypeOK'
<1>1. StoreTypes'
  BY NothingIsTyped DEF Load, StoreTypes
<1>2. PageTypes'
  BY NothingIsTyped DEF Load, PageTypes
<1>3. ClientTypes'
  <2>1. reqs' \in [Requests -> Request] /\ failedQueue' \in Seq(Requests) /\ refreshes' \in Nat
    BY NothingIsTyped, Zenon DEF Load
  <2>2. isRefreshing' \in BOOLEAN /\ refresh' \in Refresh
    BY NothingIsTyped, Zenon DEF Load
  <2>3. QED
    BY <2>1, <2>2 DEF ClientTypes
<1>4. ServerTypes'
  BY NothingIsTyped DEF Load, TypeOK, ServerTypes
<1>5. BoundTypes'
  <2>1. sound' \in BOOLEAN /\ timedOut' \in BOOLEAN
    BY Zenon DEF Load, TypeOK, ServerTypes
  <2>2. loads' \in 1..MaxLoads /\ faults' \in 0..MaxFaults
    BY DEF Load, TypeOK, BoundTypes
  <2>3. QED
    BY <2>1, <2>2 DEF BoundTypes
<1>6. QED
  BY <1>1, <1>2, <1>3, <1>4, <1>5 DEF TypeOK

\* The variables keep their types.
LEMMA StepKeepsTypes == TypeOK /\ [Next]_vars => TypeOK'
<1> SUFFICES ASSUME TypeOK, [Next]_vars PROVE TypeOK'
  OBVIOUS
<1>1. ASSUME BootRefresh PROVE TypeOK'
  <2>1. StoreTypes'
    BY <1>1, GrantedIsToken DEF BootRefresh, TypeOK, StoreTypes, Token, storeVars
  <2>2. PageTypes'
    BY <1>1 DEF BootRefresh, TypeOK, PageTypes, pageVars
  <2>3. ClientTypes'
    BY <1>1 DEF BootRefresh, TypeOK, ClientTypes, clientVars
  <2>4. ServerTypes'
    BY <1>1, GrantedIsToken DEF BootRefresh, TypeOK, ServerTypes, serverVars
  <2>5. BoundTypes'
    BY <1>1, FaultIsCounted DEF BootRefresh, TypeOK, BoundTypes, bounds, histVars
  <2>6. QED
    BY <2>1, <2>2, <2>3, <2>4, <2>5 DEF TypeOK
<1>2. ASSUME BootMe PROVE TypeOK'
  <2>1. StoreTypes'
    <3>1. accessToken' \in Token
      BY <1>2 DEF BootMe, TypeOK, StoreTypes, Token, storeVars
    <3>2. user' \in BOOLEAN
      BY <1>2, Zenon DEF BootMe, TypeOK, StoreTypes, storeVars
    <3>3. QED
      BY <3>1, <3>2 DEF StoreTypes
  <2>2. PageTypes'
    BY <1>2 DEF BootMe, TypeOK, PageTypes, pageVars
  <2>3. ClientTypes'
    BY <1>2 DEF BootMe, TypeOK, ClientTypes, clientVars
  <2>4. ServerTypes'
    BY <1>2 DEF BootMe, TypeOK, ServerTypes, serverVars
  <2>5. BoundTypes'
    BY <1>2 DEF BootMe, TypeOK, BoundTypes, bounds, histVars
  <2>6. QED
    BY <2>1, <2>2, <2>3, <2>4, <2>5 DEF TypeOK
<1>3. ASSUME Initialize PROVE TypeOK'
  <2>1. StoreTypes'
    <3>1. accessToken' \in Token
      BY <1>3, GrantedIsToken, NothingIsTyped, Zenon DEF Initialize, SignOut
    <3>2. user' \in BOOLEAN
      BY <1>3, Zenon DEF Initialize, TypeOK, StoreTypes, SignOut, storeVars
    <3>3. QED
      BY <3>1, <3>2 DEF StoreTypes
  <2>2. PageTypes'
    BY <1>3, GuardIsPath DEF Initialize, TypeOK, PageTypes
  <2>3. ClientTypes'
    BY <1>3 DEF Initialize, TypeOK, ClientTypes, clientVars
  <2>4. ServerTypes'
    BY <1>3, GrantedIsToken DEF Initialize, TypeOK, ServerTypes, SignOut, serverVars
  <2>5. BoundTypes'
    BY <1>3, FaultIsCounted DEF Initialize, TypeOK, BoundTypes, bounds, histVars
  <2>6. QED
    BY <2>1, <2>2, <2>3, <2>4, <2>5 DEF TypeOK
<1>4. ASSUME Unload PROVE TypeOK'
  <2>1. leaving \in Paths
    BY <1>4 DEF Unload, TypeOK, PageTypes, Paths
  <2>2. QED
    BY <1>4, <2>1, LoadKeepsTypes DEF Unload
<1>5. ASSUME Reload PROVE TypeOK'
  BY <1>5, LoadKeepsTypes DEF Reload
<1>6. ASSUME NEW r \in Requests, Issue(r) PROVE TypeOK'
  <2>1. StoreTypes'
    BY <1>6 DEF Issue, TypeOK, StoreTypes, storeVars
  <2>2. PageTypes'
    BY <1>6 DEF Issue, TypeOK, PageTypes, pageVars
  <2>3. ClientTypes'
    BY <1>6, SentIsRequest DEF Issue, TypeOK, StoreTypes, ClientTypes
  <2>4. ServerTypes'
    BY <1>6 DEF Issue, TypeOK, ServerTypes, serverVars
  <2>5. BoundTypes'
    BY <1>6 DEF Issue, TypeOK, BoundTypes, bounds, histVars
  <2>6. QED
    BY <2>1, <2>2, <2>3, <2>4, <2>5 DEF TypeOK
<1>7. ASSUME NEW r \in Requests, Answer(r) PROVE TypeOK'
  <2>1. StoreTypes'
    BY <1>7 DEF Answer, TypeOK, StoreTypes, storeVars
  <2>2. PageTypes'
    BY <1>7 DEF Answer, TypeOK, PageTypes, pageVars
  <2>3. ClientTypes'
    <3>1. reqs \in [Requests -> Request]
      BY DEF TypeOK, ClientTypes
    <3>2. reqs[r] \in Request
      BY <3>1
    <3>3. \E q \in Request : reqs' = [reqs EXCEPT ![r] = q]
      <4>1. CASE reqs' = [reqs EXCEPT ![r].st = "failed", ![r].why = "network"]
        <5>1. reqs' = [reqs EXCEPT ![r] = [reqs[r] EXCEPT !.st = "failed", !.why = "network"]]
          BY <3>1, <4>1
        <5>2. QED
          BY <3>2, <5>1, AnsweredIsRequest
      <4>2. CASE reqs' = [reqs EXCEPT ![r].st = "ok"]
        <5>1. reqs' = [reqs EXCEPT ![r] = [reqs[r] EXCEPT !.st = "ok"]]
          BY <3>1, <4>2
        <5>2. QED
          BY <3>2, <5>1, AnsweredIsRequest
      <4>3. CASE reqs' = [reqs EXCEPT ![r].st = "denied"]
        <5>1. reqs' = [reqs EXCEPT ![r] = [reqs[r] EXCEPT !.st = "denied"]]
          BY <3>1, <4>3
        <5>2. QED
          BY <3>2, <5>1, AnsweredIsRequest
      <4>4. QED
        <5>1. CASE reqs[r].bearer \in accepted
          BY <1>7, <4>1, <4>2, <5>1 DEF Answer
        <5>2. CASE reqs[r].bearer \notin accepted
          BY <1>7, <4>1, <4>3, <5>2 DEF Answer
        <5>3. QED
          BY <5>1, <5>2
    <3>4. reqs' \in [Requests -> Request]
      BY <3>1, <3>3
    <3>5. QED
      BY <1>7, <3>4, Zenon DEF Answer, TypeOK, ClientTypes
  <2>4. ServerTypes'
    BY <1>7 DEF Answer, TypeOK, ServerTypes, serverVars
  <2>5. BoundTypes'
    BY <1>7, FaultIsCounted DEF Answer, TypeOK, BoundTypes, bounds, histVars
  <2>6. QED
    BY <2>1, <2>2, <2>3, <2>4, <2>5 DEF TypeOK
<1>8. ASSUME NEW r \in Requests, Succeed(r) PROVE TypeOK'
  <2>1. StoreTypes'
    <3>1. accessToken' \in Token
      BY <1>8 DEF Succeed, TypeOK, StoreTypes, PageTypes, storeVars
    <3>2. user' \in BOOLEAN
      BY <1>8, Zenon DEF Succeed, TypeOK, StoreTypes, storeVars
    <3>3. QED
      BY <3>1, <3>2 DEF StoreTypes
  <2>2. PageTypes'
    BY <1>8 DEF Succeed, TypeOK, PageTypes, Token, pageVars
  <2>3. ClientTypes'
    BY ZenonT(60), <1>8 DEF Succeed, TypeOK, ClientTypes, Request, clientVars
  <2>4. ServerTypes'
    BY <1>8 DEF Succeed, TypeOK, ServerTypes, serverVars
  <2>5. BoundTypes'
    BY <1>8 DEF Succeed, TypeOK, BoundTypes, bounds, histVars
  <2>6. QED
    BY <2>1, <2>2, <2>3, <2>4, <2>5 DEF TypeOK
<1>9. ASSUME NEW r \in Requests, Queue(r) PROVE TypeOK'
  <2>1. StoreTypes'
    BY <1>9 DEF Queue, TypeOK, StoreTypes, storeVars
  <2>2. PageTypes'
    BY <1>9 DEF Queue, TypeOK, PageTypes, pageVars
  <2>3. ClientTypes'
    <3>1. reqs' \in [Requests -> Request]
      BY ZenonT(60), <1>9 DEF Queue, TypeOK, ClientTypes, Request
    <3>2. failedQueue' \in Seq(Requests)
      BY <1>9 DEF Queue, TypeOK, ClientTypes
    <3>3. QED
      BY <1>9, <3>1, <3>2, Zenon DEF Queue, TypeOK, ClientTypes
  <2>4. ServerTypes'
    BY <1>9 DEF Queue, TypeOK, ServerTypes, serverVars
  <2>5. BoundTypes'
    BY <1>9 DEF Queue, TypeOK, BoundTypes, bounds, histVars
  <2>6. QED
    BY <2>1, <2>2, <2>3, <2>4, <2>5 DEF TypeOK
<1>10. ASSUME NEW r \in Requests, StartRefresh(r) PROVE TypeOK'
  <2>1. StoreTypes'
    BY <1>10 DEF StartRefresh, TypeOK, StoreTypes, storeVars
  <2>2. PageTypes'
    BY <1>10 DEF StartRefresh, TypeOK, PageTypes, pageVars
  <2>3. ClientTypes'
    <3>1. reqs' \in [Requests -> Request]
      BY ZenonT(60), <1>10 DEF StartRefresh, TypeOK, ClientTypes, Request
    <3>2. refresh' \in Refresh
      BY <1>10 DEF StartRefresh, Refresh, Token
    <3>3. refreshes' \in Nat
      BY <1>10 DEF StartRefresh, TypeOK, ClientTypes
    <3>4. isRefreshing' \in BOOLEAN /\ failedQueue' \in Seq(Requests)
      BY <1>10, Zenon DEF StartRefresh, TypeOK, ClientTypes
    <3>5. QED
      BY <3>1, <3>2, <3>3, <3>4 DEF ClientTypes
  <2>4. ServerTypes'
    BY <1>10 DEF StartRefresh, TypeOK, ServerTypes, serverVars
  <2>5. BoundTypes'
    BY <1>10 DEF StartRefresh, TypeOK, BoundTypes, bounds, histVars
  <2>6. QED
    BY <2>1, <2>2, <2>3, <2>4, <2>5 DEF TypeOK
<1>11. ASSUME NEW r \in Requests, Reject(r) PROVE TypeOK'
  <2>1. StoreTypes'
    BY <1>11 DEF Reject, TypeOK, StoreTypes, storeVars
  <2>2. PageTypes'
    BY <1>11 DEF Reject, TypeOK, PageTypes, pageVars
  <2>3. ClientTypes'
    BY ZenonT(60), <1>11 DEF Reject, TypeOK, ClientTypes, Request, clientVars
  <2>4. ServerTypes'
    BY <1>11 DEF Reject, TypeOK, ServerTypes, serverVars
  <2>5. BoundTypes'
    BY <1>11 DEF Reject, TypeOK, BoundTypes, bounds, histVars
  <2>6. QED
    BY <2>1, <2>2, <2>3, <2>4, <2>5 DEF TypeOK
<1>12. ASSUME AnswerRefresh PROVE TypeOK'
  <2>1. StoreTypes'
    BY <1>12 DEF AnswerRefresh, TypeOK, StoreTypes, storeVars
  <2>2. PageTypes'
    BY <1>12 DEF AnswerRefresh, TypeOK, PageTypes, pageVars
  <2>3. ClientTypes'
    BY <1>12, GrantedIsToken DEF AnswerRefresh, TypeOK, ClientTypes, Refresh, Token, clientVars
  <2>4. ServerTypes'
    BY <1>12, GrantedIsToken DEF AnswerRefresh, TypeOK, ServerTypes, serverVars
  <2>5. BoundTypes'
    BY <1>12, FaultIsCounted DEF AnswerRefresh, TypeOK, BoundTypes, bounds, histVars
  <2>6. QED
    BY <2>1, <2>2, <2>3, <2>4, <2>5 DEF TypeOK
<1>13. ASSUME Refreshed PROVE TypeOK'
  <2>0. refresh.token \in Token
    BY DEF TypeOK, ClientTypes, Refresh
  <2>a. UseAuth(route, refresh.token)
    BY <1>13 DEF Refreshed
  <2>1. StoreTypes' /\ logoutCall' \in BOOLEAN /\ timedOut' \in BOOLEAN
    BY <2>0, <2>a, AuthIsTyped
  <2>2. PageTypes'
    BY <1>13, GuardIsPath DEF Refreshed, TypeOK, PageTypes
  <2>3. ClientTypes'
    <3>2. reqs' \in [Requests -> Request]
      BY <1>13, <2>0, SentIsRequest DEF Refreshed, TypeOK, ClientTypes
    <3>3. failedQueue' \in Seq(Requests)
      BY <1>13 DEF Refreshed
    <3>4. refresh' \in Refresh /\ isRefreshing' \in BOOLEAN /\ refreshes' \in Nat
      BY <1>13, NothingIsTyped, Zenon DEF Refreshed, TypeOK, ClientTypes
    <3>5. QED
      BY <3>2, <3>3, <3>4 DEF ClientTypes
  <2>4. ServerTypes'
    BY <1>13, <2>1 DEF Refreshed, TypeOK, ServerTypes
  <2>5. BoundTypes'
    BY <1>13, <2>1 DEF Refreshed, TypeOK, BoundTypes, bounds
  <2>6. QED
    BY <2>1, <2>2, <2>3, <2>4, <2>5 DEF TypeOK
<1>14. ASSUME RefreshFailed PROVE TypeOK'
  <2>1. StoreTypes'
    <3>1. accessToken' \in Token
      BY <1>14, NothingIsTyped, Zenon DEF RefreshFailed
    <3>2. user' \in BOOLEAN
      BY <1>14, Zenon DEF RefreshFailed, TypeOK, StoreTypes, storeVars
    <3>3. QED
      BY <3>1, <3>2 DEF StoreTypes
  <2>2. PageTypes'
    BY <1>14, GuardIsPath DEF RefreshFailed, TypeOK, PageTypes
  <2>3. ClientTypes'
    <3>1. reqs' \in [Requests -> Request]
      BY ZenonT(60), <1>14 DEF RefreshFailed, TypeOK, ClientTypes, Request
    <3>2. failedQueue' \in Seq(Requests)
      BY <1>14, NothingIsTyped, Zenon DEF RefreshFailed
    <3>3. refresh' \in Refresh /\ isRefreshing' \in BOOLEAN /\ refreshes' \in Nat
      BY <1>14, NothingIsTyped, Zenon DEF RefreshFailed, TypeOK, ClientTypes, pageVars, serverVars
    <3>4. QED
      BY <3>1, <3>2, <3>3 DEF ClientTypes
  <2>4. ServerTypes'
    BY <1>14 DEF RefreshFailed, TypeOK, ServerTypes, serverVars
  <2>5. BoundTypes'
    BY <1>14 DEF RefreshFailed, TypeOK, BoundTypes, bounds, histVars
  <2>6. QED
    BY <2>1, <2>2, <2>3, <2>4, <2>5 DEF TypeOK
<1>15. ASSUME HandleSubmit PROVE TypeOK'
  <2>1. StoreTypes'
    BY <1>15 DEF HandleSubmit, TypeOK, StoreTypes, storeVars
  <2>2. PageTypes'
    BY <1>15, GrantedIsToken
    DEF HandleSubmit, LoginAndGetAccessToken, RegisterAndGetAccessToken, TypeOK, PageTypes
  <2>3. ClientTypes'
    <3>1. Sent(Me, accessToken) \in Request
      BY SentIsRequest DEF TypeOK, StoreTypes
    <3>2. QED
      BY <1>15, <3>1 DEF HandleSubmit, TypeOK, ClientTypes
  <2>4. ServerTypes'
    BY <1>15, GrantedIsToken
    DEF HandleSubmit, LoginAndGetAccessToken, RegisterAndGetAccessToken, TypeOK, ServerTypes
  <2>5. BoundTypes'
    BY <1>15 DEF HandleSubmit, TypeOK, BoundTypes, bounds, histVars
  <2>6. QED
    BY <2>1, <2>2, <2>3, <2>4, <2>5 DEF TypeOK
<1>16. ASSUME HandleGoogleSuccess PROVE TypeOK'
  <2>1. StoreTypes'
    BY <1>16, GrantedIsToken DEF HandleGoogleSuccess, TypeOK, StoreTypes, storeVars
  <2>2. PageTypes'
    BY <1>16 DEF HandleGoogleSuccess, TypeOK, PageTypes, pageVars
  <2>3. ClientTypes'
    BY <1>16 DEF HandleGoogleSuccess, TypeOK, ClientTypes, clientVars
  <2>4. ServerTypes'
    BY <1>16, GrantedIsToken DEF HandleGoogleSuccess, TypeOK, ServerTypes, serverVars
  <2>5. BoundTypes'
    BY <1>16 DEF HandleGoogleSuccess, TypeOK, BoundTypes, bounds, histVars
  <2>6. QED
    BY <2>1, <2>2, <2>3, <2>4, <2>5 DEF TypeOK
<1>17. ASSUME LoginFails PROVE TypeOK'
  <2>1. StoreTypes'
    BY <1>17 DEF LoginFails, TypeOK, StoreTypes, storeVars
  <2>2. PageTypes'
    BY <1>17 DEF LoginFails, TypeOK, PageTypes, Token, pageVars
  <2>3. ClientTypes'
    BY <1>17 DEF LoginFails, TypeOK, ClientTypes, clientVars
  <2>4. ServerTypes'
    BY <1>17 DEF LoginFails, TypeOK, ServerTypes, serverVars
  <2>5. BoundTypes'
    BY <1>17 DEF LoginFails, TypeOK, BoundTypes, bounds, histVars
  <2>6. QED
    BY <2>1, <2>2, <2>3, <2>4, <2>5 DEF TypeOK
<1>18. ASSUME Logout PROVE TypeOK'
  <2>1. StoreTypes'
    <3>1. accessToken' \in Token
      BY <1>18 DEF Logout, TypeOK, StoreTypes, SignOut, Token, storeVars
    <3>2. user' \in BOOLEAN
      BY <1>18, Zenon DEF Logout, TypeOK, StoreTypes, SignOut, storeVars
    <3>3. QED
      BY <3>1, <3>2 DEF StoreTypes
  <2>2. PageTypes'
    BY <1>18 DEF Logout, TypeOK, PageTypes, pageVars
  <2>3. ClientTypes'
    BY <1>18 DEF Logout, TypeOK, ClientTypes, clientVars
  <2>4. ServerTypes'
    BY <1>18 DEF Logout, TypeOK, ServerTypes, SignOut, serverVars
  <2>5. BoundTypes'
    BY <1>18 DEF Logout, TypeOK, BoundTypes, bounds, histVars
  <2>6. QED
    BY <2>1, <2>2, <2>3, <2>4, <2>5 DEF TypeOK
<1>19. ASSUME LogoutAnswered PROVE TypeOK'
  <2>1. StoreTypes'
    BY <1>19 DEF LogoutAnswered, TypeOK, StoreTypes, storeVars
  <2>2. PageTypes'
    BY <1>19 DEF LogoutAnswered, TypeOK, PageTypes, pageVars
  <2>3. ClientTypes'
    BY <1>19 DEF LogoutAnswered, TypeOK, ClientTypes, clientVars
  <2>4. ServerTypes'
    BY <1>19 DEF LogoutAnswered, TypeOK, ServerTypes, serverVars
  <2>5. BoundTypes'
    BY <1>19 DEF LogoutAnswered, TypeOK, BoundTypes, bounds, histVars
  <2>6. QED
    BY <2>1, <2>2, <2>3, <2>4, <2>5 DEF TypeOK
<1>20. ASSUME Expire PROVE TypeOK'
  <2>1. StoreTypes'
    BY <1>20 DEF Expire, TypeOK, StoreTypes, storeVars
  <2>2. PageTypes'
    BY <1>20 DEF Expire, TypeOK, PageTypes, pageVars
  <2>3. ClientTypes'
    BY <1>20 DEF Expire, TypeOK, ClientTypes, clientVars
  <2>4. ServerTypes'
    BY <1>20 DEF Expire, TypeOK, ServerTypes, serverVars
  <2>5. BoundTypes'
    BY <1>20, FaultIsCounted DEF Expire, TypeOK, BoundTypes, bounds, histVars
  <2>6. QED
    BY <2>1, <2>2, <2>3, <2>4, <2>5 DEF TypeOK
<1>21. ASSUME AnswerRegistration PROVE TypeOK'
  <2>1. StoreTypes'
    BY <1>21 DEF AnswerRegistration, TypeOK, StoreTypes, storeVars
  <2>2. PageTypes'
    BY <1>21, GrantedIsToken DEF AnswerRegistration, TypeOK, PageTypes
  <2>3. ClientTypes'
    <3>1. reqs \in [Requests -> Request]
      BY DEF TypeOK, ClientTypes
    <3>2. reqs' \in [Requests -> Request]
      <4>1. CASE reqs' = [reqs EXCEPT ![Me].st = "ok"]
        BY ZenonT(60), <3>1, <4>1 DEF Request
      <4>2. CASE reqs' = [reqs EXCEPT ![Me].st = "denied"]
        BY ZenonT(60), <3>1, <4>2 DEF Request
      <4>3. QED
        BY <1>21, <4>1, <4>2, Zenon DEF AnswerRegistration
    <3>3. QED
      BY <1>21, <3>2, Zenon DEF AnswerRegistration, TypeOK, ClientTypes
  <2>4. ServerTypes'
    BY <1>21, GrantedIsToken DEF AnswerRegistration, TypeOK, ServerTypes
  <2>5. BoundTypes'
    BY <1>21 DEF AnswerRegistration, TypeOK, BoundTypes, bounds, histVars
  <2>6. QED
    BY <2>1, <2>2, <2>3, <2>4, <2>5 DEF TypeOK
<1>22. ASSUME NEW path \in Paths, FollowLink(path) PROVE TypeOK'
  <2>0. accessToken \in Token /\ UseAuth(path, accessToken)
    BY <1>22 DEF FollowLink, TypeOK, StoreTypes
  <2>1. StoreTypes' /\ logoutCall' \in BOOLEAN /\ timedOut' \in BOOLEAN
    BY <2>0, AuthIsTyped
  <2>2. PageTypes'
    BY <1>22, GuardIsPath DEF FollowLink, TypeOK, PageTypes
  <2>3. ClientTypes'
    BY <1>22 DEF FollowLink, TypeOK, ClientTypes, clientVars
  <2>4. ServerTypes'
    BY <1>22, <2>1 DEF FollowLink, TypeOK, ServerTypes
  <2>5. BoundTypes'
    BY <1>22, <2>1 DEF FollowLink, TypeOK, BoundTypes, bounds
  <2>6. QED
    BY <2>1, <2>2, <2>3, <2>4, <2>5 DEF TypeOK
<1>23. CASE UNCHANGED vars
  BY <1>23 DEF vars, TypeOK, StoreTypes, PageTypes, ClientTypes, ServerTypes, BoundTypes,
              storeVars, pageVars, clientVars, serverVars, histVars, bounds
<1>24. QED
  BY <1>1, <1>2, <1>3, <1>4, <1>5, <1>6, <1>7, <1>8, <1>9, <1>10, <1>11, <1>12,
     <1>13, <1>14, <1>15, <1>16, <1>17, <1>18, <1>19, <1>20, <1>21, <1>22, <1>23
  DEF Next, LoadStep, Interceptor

LEMMA InitTypes == Init => TypeOK
<1> SUFFICES ASSUME Init PROVE TypeOK
  OBVIOUS
<1>1. StoreTypes
  BY NothingIsTyped DEF Init, StoreTypes
<1>2. PageTypes
  BY NothingIsTyped DEF Init, PageTypes
<1>3. ClientTypes
  <2>1. reqs \in [Requests -> Request] /\ failedQueue \in Seq(Requests) /\ refreshes \in Nat
    BY NothingIsTyped, Zenon DEF Init
  <2>2. isRefreshing \in BOOLEAN /\ refresh \in Refresh
    BY NothingIsTyped, Zenon DEF Init
  <2>3. QED
    BY <2>1, <2>2 DEF ClientTypes
<1>4. ServerTypes
  BY NothingIsTyped DEF Init, ServerTypes
<1>5. BoundTypes
  <2>1. sound \in BOOLEAN /\ timedOut \in BOOLEAN
    BY Zenon DEF Init
  <2>2. loads \in 1..MaxLoads /\ faults \in 0..MaxFaults
    BY DEF Init
  <2>3. QED
    BY <2>1, <2>2 DEF BoundTypes
<1>6. QED
  BY <1>1, <1>2, <1>3, <1>4, <1>5 DEF TypeOK

\* The variables have their types in every reachable state, whatever the
\* service, the network and the user do.
THEOREM TypeCorrect == Spec => []TypeOK
  BY InitTypes, StepKeepsTypes, PTL DEF Spec

-----------------------------------------------------------------------------
\* Who waits.

\* A sequence without repetitions is as long as its set is large.
LEMMA DistinctLength ==
    ASSUME NEW S, NEW q \in Seq(S), \A i, j \in DOMAIN q : q[i] = q[j] => i = j
    PROVE  Len(q) = Cardinality(ToSet(q))
<1> DEFINE D == 1..Len(q)
<1>1. DOMAIN q = D /\ Len(q) \in Nat /\ q \in [D -> S]
  OBVIOUS
<1>2. ToSet(q) = {q[i] : i \in D}
  BY <1>1 DEF ToSet
<1>3. IsFiniteSet(D) /\ Cardinality(D) = Len(q)
  BY SMTT(40), <1>1, FS_Interval
<1>4. q \in Bijection(D, ToSet(q))
  BY <1>1, <1>2 DEF Bijection, Injection, Surjection, IsInjective
<1>5. ExistsBijection(D, ToSet(q))
  BY <1>4 DEF ExistsBijection
<1>6. QED
  BY <1>3, <1>5, FS_Bijection

\* Who joins the queue is in it, once.
LEMMA AppendIsQueued ==
    ASSUME NEW S, NEW q \in Seq(S), NEW x \in S, x \notin ToSet(q),
           \A i, j \in DOMAIN q : q[i] = q[j] => i = j
    PROVE  /\ ToSet(Append(q, x)) = ToSet(q) \cup {x}
           /\ \A i, j \in DOMAIN Append(q, x) :
                  Append(q, x)[i] = Append(q, x)[j] => i = j
<1> DEFINE a == Append(q, x)
           n == Len(q)
<1>1. n \in Nat /\ DOMAIN q = 1..n /\ DOMAIN a = 1..(n + 1)
  OBVIOUS
<1>2. a[n + 1] = x /\ \A i \in 1..n : a[i] = q[i]
  OBVIOUS
<1>3. ToSet(a) = ToSet(q) \cup {x}
  BY <1>1, <1>2 DEF ToSet
<1>4. \A i \in 1..n : q[i] # x
  BY <1>1 DEF ToSet
<1>5. QED
  BY <1>1, <1>2, <1>3, <1>4

\* A step that leaves the refresh and its queue alone, and nobody starts or
\* ceases to wait.
LEMMA WaitersStay ==
    ASSUME IInv, TypeOK', UNCHANGED <<isRefreshing, failedQueue, refresh>>,
           \A r \in Requests : /\ reqs'[r].st = "queued" <=> reqs[r].st = "queued"
                               /\ reqs'[r].st = "waiting" <=> reqs[r].st = "waiting"
    PROVE  IInv'
  BY DEF IInv, WaitersAreKnown, InQueue, RefreshIsOwned, QueuedOnce

\* With an empty queue and no refresh, nobody may wait.
LEMMA NobodyIsLeft ==
    ASSUME TypeOK', isRefreshing' = FALSE, failedQueue' = <<>>, refresh' = NoRefresh,
           \A r \in Requests : reqs'[r].st \notin {"queued", "waiting"}
    PROVE  IInv'
<1>1. ToSet(failedQueue') = {} /\ DOMAIN failedQueue' = {}
  BY DEF ToSet
<1>2. WaitersAreKnown'
  BY <1>1, NothingIsTyped DEF WaitersAreKnown, InQueue
<1>3. RefreshIsOwned' /\ QueuedOnce'
  BY <1>1, NothingIsTyped DEF RefreshIsOwned, QueuedOnce
<1>4. QED
  BY <1>2, <1>3 DEF IInv

LEMMA StepKeepsWaiters == IInv /\ [Next]_vars => IInv'
<1> SUFFICES ASSUME IInv, [Next]_vars PROVE IInv'
  OBVIOUS
<1>0. TypeOK /\ TypeOK'
  BY StepKeepsTypes DEF IInv
<1>t. reqs \in [Requests -> Request] /\ failedQueue \in Seq(Requests)
  BY <1>0 DEF TypeOK, ClientTypes
<1>1. CASE UNCHANGED clientVars
  BY <1>0, <1>1, WaitersStay DEF clientVars
<1>2. ASSUME NEW path \in Paths, Load(path) PROVE IInv'
  <2>1. \A r \in Requests : reqs'[r].st = "idle"
    BY <1>2, NothingIsTyped DEF Load
  <2>2. QED
    BY <1>0, <1>2, <2>1, NobodyIsLeft DEF Load
<1>3. ASSUME NEW r \in Requests, Issue(r) PROVE IInv'
  <2>1. \A x \in Requests \ {r} : reqs'[x] = reqs[x]
    BY <1>3, <1>t DEF Issue
  <2>2. reqs'[r].st = "sent" /\ reqs[r].st = "idle"
    BY <1>3, <1>t DEF Issue, Sent, Request
  <2>3. QED
    BY <1>0, <1>3, <2>1, <2>2, WaitersStay DEF Issue
<1>4. ASSUME NEW r \in Requests, Answer(r) PROVE IInv'
  <2>1. \A x \in Requests \ {r} : reqs'[x] = reqs[x]
    BY <1>4, <1>t DEF Answer
  <2>2. reqs'[r].st \in {"ok", "denied", "failed"} /\ reqs[r].st = "sent"
    BY ZenonT(60), <1>4, <1>t DEF Answer, Request
  <2>3. QED
    BY <1>0, <1>4, <2>1, <2>2, WaitersStay DEF Answer
<1>5. ASSUME NEW r \in Requests, Succeed(r) PROVE IInv'
  <2>1. \A x \in Requests \ {r} : reqs'[x] = reqs[x]
    BY <1>5, <1>t DEF Succeed
  <2>2. reqs'[r].st = "done" /\ reqs[r].st = "ok"
    BY <1>5, <1>t DEF Succeed, Request
  <2>3. QED
    BY <1>0, <1>5, <2>1, <2>2, WaitersStay DEF Succeed
<1>6. ASSUME NEW r \in Requests, Queue(r) PROVE IInv'
  <2>1. \A x \in Requests \ {r} : reqs'[x] = reqs[x]
    BY <1>6, <1>t DEF Queue
  <2>2. reqs'[r].st = "queued" /\ reqs[r].st = "denied"
    BY <1>6, <1>t DEF Queue, Request
  <2>3. r \notin ToSet(failedQueue)
    BY <2>2 DEF IInv, WaitersAreKnown, InQueue
  <2>4. ToSet(failedQueue') = ToSet(failedQueue) \cup {r} /\ QueuedOnce'
    BY <1>6, <1>t, <2>3, AppendIsQueued DEF IInv, QueuedOnce, Queue
  <2>5. refresh' = refresh /\ isRefreshing' = isRefreshing /\ isRefreshing
    BY <1>6 DEF Queue
  <2>6. WaitersAreKnown'
    BY <2>1, <2>2, <2>4, <2>5 DEF IInv, WaitersAreKnown, InQueue
  <2>7. QED
    BY <1>0, <2>4, <2>5, <2>6 DEF IInv, RefreshIsOwned
<1>7. ASSUME NEW r \in Requests, StartRefresh(r) PROVE IInv'
  <2>1. \A x \in Requests \ {r} : reqs'[x] = reqs[x]
    BY <1>7, <1>t DEF StartRefresh
  <2>2. reqs'[r].st = "waiting" /\ reqs[r].st = "denied"
    BY <1>7, <1>t DEF StartRefresh, Request
  <2>3. refresh'.by = r /\ refresh'.reply = "awaited"
    BY <1>7 DEF StartRefresh
  <2>4. ~isRefreshing /\ isRefreshing' /\ failedQueue' = failedQueue
    BY <1>7 DEF StartRefresh
  <2>5. WaitersAreKnown'
    BY <2>1, <2>2, <2>3, <2>4 DEF IInv, WaitersAreKnown, InQueue
  <2>6. QED
    BY <1>0, <2>3, <2>4, <2>5 DEF IInv, RefreshIsOwned, QueuedOnce
<1>8. ASSUME NEW r \in Requests, Reject(r) PROVE IInv'
  <2>1. \A x \in Requests \ {r} : reqs'[x] = reqs[x]
    BY <1>8, <1>t DEF Reject
  <2>2. reqs'[r].st = "failed" /\ reqs[r].st = "denied"
    BY <1>8, <1>t DEF Reject, Request
  <2>3. QED
    BY <1>0, <1>8, <2>1, <2>2, WaitersStay DEF Reject
<1>9. ASSUME AnswerRefresh PROVE IInv'
  <2>1. refresh'.by = refresh.by /\ refresh'.reply \in {"granted", "refused"}
    BY <1>0, <1>9 DEF AnswerRefresh, TypeOK, ClientTypes, Refresh
  <2>2. refresh.reply = "awaited" /\ UNCHANGED <<reqs, isRefreshing, failedQueue>>
    BY <1>9 DEF AnswerRefresh
  <2>3. QED
    BY <1>0, <2>1, <2>2 DEF IInv, WaitersAreKnown, InQueue, RefreshIsOwned, QueuedOnce
<1>10. ASSUME Refreshed PROVE IInv'
  <2>1. ASSUME NEW x \in Requests PROVE reqs'[x].st \notin {"queued", "waiting"}
    <3>1. CASE InQueue(x) \/ x = refresh.by
      <4>1. reqs'[x] = Sent(x, refresh.token)
        BY <1>10, <3>1 DEF Refreshed
      <4>2. QED
        BY <1>0, <4>1, SentIsRequest DEF TypeOK, ClientTypes, Refresh
    <3>2. CASE ~(InQueue(x) \/ x = refresh.by)
      BY <1>10, <3>2 DEF Refreshed, IInv, WaitersAreKnown
    <3>3. QED
      BY <3>1, <3>2
  <2>2. QED
    BY <1>0, <1>10, <2>1, NobodyIsLeft, Zenon DEF Refreshed
<1>11. ASSUME RefreshFailed PROVE IInv'
  <2>1. ASSUME NEW x \in Requests PROVE reqs'[x].st \notin {"queued", "waiting"}
    <3>1. CASE InQueue(x) \/ x = refresh.by
      <4>1. reqs'[x] = [reqs[x] EXCEPT !.st = "failed", !.why = "refresh"]
        BY <1>11, <3>1 DEF RefreshFailed
      <4>2. QED
        BY <1>t, <4>1 DEF Request
    <3>2. CASE ~(InQueue(x) \/ x = refresh.by)
      BY <1>11, <3>2 DEF RefreshFailed, IInv, WaitersAreKnown
    <3>3. QED
      BY <3>1, <3>2
  <2>2. QED
    BY <1>0, <1>11, <2>1, NobodyIsLeft, Zenon DEF RefreshFailed
<1>12. ASSUME HandleSubmit PROVE IInv'
  <2>1. \A x \in Requests \ {Me} : reqs'[x] = reqs[x]
    BY <1>12, <1>t DEF HandleSubmit
  <2>2. reqs'[Me].st = "sent" /\ reqs[Me].st = "idle"
    BY <1>12, <1>t DEF HandleSubmit, MaySubmit, Sent, Request
  <2>3. QED
    BY <1>0, <1>12, <2>1, <2>2, WaitersStay DEF HandleSubmit
<1>a. ASSUME AnswerRegistration PROVE IInv'
  <2>1. \A x \in Requests \ {Me} : reqs'[x] = reqs[x]
    BY <1>a, <1>t DEF AnswerRegistration
  <2>2. reqs'[Me].st \in {"ok", "denied"} /\ reqs[Me].st = "sent"
    BY ZenonT(60), <1>a, <1>t DEF AnswerRegistration, Request
  <2>3. QED
    BY <1>0, <1>a, <2>1, <2>2, WaitersStay DEF AnswerRegistration
<1>13. CASE Unload
  <2>1. leaving \in Paths
    BY <1>0, <1>13 DEF Unload, TypeOK, PageTypes, Paths
  <2>2. QED
    BY <1>2, <1>13, <2>1 DEF Unload
<1>14. CASE Reload
  BY <1>2, <1>14 DEF Reload
<1>15. CASE LoadStep
  BY <1>1, <1>15 DEF LoadStep, BootRefresh, BootMe, Initialize
<1>16. CASE HandleGoogleSuccess \/ LoginFails \/ Logout \/ LogoutAnswered \/ Expire
  BY <1>1, <1>16 DEF HandleGoogleSuccess, LoginFails, Logout, LogoutAnswered, Expire
<1>b. CASE \E path \in Paths : FollowLink(path)
  BY <1>1, <1>b DEF FollowLink
<1>17. CASE UNCHANGED vars
  BY <1>1, <1>17 DEF vars
<1>18. QED
  BY <1>3, <1>4, <1>5, <1>6, <1>7, <1>8, <1>9, <1>10, <1>11, <1>12, <1>13, <1>14,
     <1>15, <1>16, <1>17, <1>a, <1>b
  DEF Next, Interceptor

LEMMA InitIsIdle == Init => IInv
<1> SUFFICES ASSUME Init PROVE IInv
  OBVIOUS
<1>1. TypeOK
  BY InitTypes
<1>2. \A r \in Requests : reqs[r].st = "idle"
  BY NothingIsTyped DEF Init
<1>3. failedQueue = <<>> /\ refresh = NoRefresh /\ isRefreshing = FALSE
  BY Zenon DEF Init
<1>4. ToSet(failedQueue) = {} /\ DOMAIN failedQueue = {}
  BY <1>3 DEF ToSet
<1>5. QED
  BY <1>1, <1>2, <1>3, <1>4, NothingIsTyped
  DEF IInv, WaitersAreKnown, InQueue, RefreshIsOwned, QueuedOnce

\* Who waits, waits for the refresh that is under way, and is waited for once:
\* for any number of requests, however their answers, the refresh, the login
\* form and page loads interleave.
THEOREM WaitersKnown == Spec => []NobodyWaitsForNothing
<1>1. IInv => NobodyWaitsForNothing
  BY DistinctLength DEF IInv, TypeOK, ClientTypes, QueuedOnce, NobodyWaitsForNothing
<1>2. QED
  BY <1>1, InitIsIdle, StepKeepsWaiters, PTL DEF Spec

-----------------------------------------------------------------------------
\* How often the client refreshes.

MarkedInv == TypeOK /\ RefreshesAreBounded

\* A step after which requests have the marks they had.
LEMMA MarksStay ==
    ASSUME MarkedInv, TypeOK', refreshes' = refreshes,
           \A r \in Requests : reqs'[r].retry = reqs[r].retry
    PROVE  MarkedInv'
<1>1. {r \in Requests : reqs'[r].retry} = {r \in Requests : reqs[r].retry}
  OBVIOUS
<1>2. QED
  BY <1>1 DEF MarkedInv, RefreshesAreBounded

LEMMA StepKeepsMarks == MarkedInv /\ [Next]_vars => MarkedInv'
<1> SUFFICES ASSUME MarkedInv, [Next]_vars PROVE MarkedInv'
  OBVIOUS
<1>0. TypeOK /\ TypeOK'
  BY StepKeepsTypes DEF MarkedInv
<1>t. reqs \in [Requests -> Request]
  BY <1>0 DEF TypeOK, ClientTypes
<1> DEFINE Marked == {r \in Requests : reqs[r].retry}
<1>f. IsFiniteSet(Marked) /\ Cardinality(Marked) \in Nat
  BY FiniteAssumption, FS_Subset, FS_CardinalityType
<1>1. CASE UNCHANGED clientVars
  BY <1>0, <1>1, MarksStay DEF clientVars
<1>2. ASSUME NEW path \in Paths, Load(path) PROVE MarkedInv'
  <2>1. \A r \in Requests : reqs'[r].retry = FALSE
    BY <1>2, NothingIsTyped DEF Load
  <2>2. {r \in Requests : reqs'[r].retry} = {}
    BY <2>1
  <2>3. RefreshesAreBounded'
    <3>1. refreshes' = 0
      BY <1>2, Zenon DEF Load
    <3>2. Cardinality({r \in Requests : reqs'[r].retry}) = 0
      BY <2>2, FS_EmptySet, Zenon
    <3>3. QED
      BY <3>1, <3>2 DEF RefreshesAreBounded
  <2>4. QED
    BY <1>0, <2>1, <2>3 DEF MarkedInv
<1>3. ASSUME NEW r \in Requests, Issue(r) PROVE MarkedInv'
  <2>1. \A x \in Requests \ {r} : reqs'[x] = reqs[x]
    BY <1>3, <1>t DEF Issue
  <2>2. reqs'[r].retry = reqs[r].retry
    BY <1>3, <1>t DEF Issue, Sent, Request
  <2>3. QED
    BY <1>0, <1>3, <2>1, <2>2, MarksStay DEF Issue
<1>4. ASSUME NEW r \in Requests, Answer(r) PROVE MarkedInv'
  <2>1. \A x \in Requests \ {r} : reqs'[x] = reqs[x]
    BY <1>4, <1>t DEF Answer
  <2>2. reqs'[r].retry = reqs[r].retry
    <3>1. reqs[r] \in Request
      BY <1>t
    <3>2. \/ reqs'[r] = [reqs[r] EXCEPT !.st = IF reqs[r].bearer \in accepted THEN "ok" ELSE "denied"]
          \/ reqs'[r] = [reqs[r] EXCEPT !.st = "failed", !.why = "network"]
      BY <1>4, <1>t DEF Answer
    <3>3. QED
      BY <3>1, <3>2 DEF Request
  <2>3. QED
    BY <1>0, <1>4, <2>1, <2>2, MarksStay DEF Answer
<1>5. ASSUME NEW r \in Requests, Succeed(r) PROVE MarkedInv'
  <2>1. \A x \in Requests \ {r} : reqs'[x] = reqs[x]
    BY <1>5, <1>t DEF Succeed
  <2>2. reqs'[r].retry = reqs[r].retry
    BY <1>5, <1>t DEF Succeed, Request
  <2>3. QED
    BY <1>0, <1>5, <2>1, <2>2, MarksStay DEF Succeed
<1>6. ASSUME NEW r \in Requests, Queue(r) PROVE MarkedInv'
  <2>1. \A x \in Requests \ {r} : reqs'[x] = reqs[x]
    BY <1>6, <1>t DEF Queue
  <2>2. reqs'[r].retry = reqs[r].retry
    BY <1>6, <1>t DEF Queue, Request
  <2>3. QED
    BY <1>0, <1>6, <2>1, <2>2, MarksStay DEF Queue
<1>7. ASSUME NEW r \in Requests, StartRefresh(r) PROVE MarkedInv'
  <2>1. \A x \in Requests \ {r} : reqs'[x] = reqs[x]
    BY <1>7, <1>t DEF StartRefresh
  <2>2. ~reqs[r].retry /\ reqs'[r].retry
    BY <1>7, <1>t DEF StartRefresh, Request
  <2>3. {x \in Requests : reqs'[x].retry} = Marked \cup {r} /\ r \notin Marked
    BY <2>1, <2>2
  <2>4. Cardinality(Marked \cup {r}) = Cardinality(Marked) + 1
    BY <1>f, <2>3, FS_AddElement
  <2>5. refreshes' = refreshes + 1 /\ refreshes \in Nat
    BY <1>0, <1>7 DEF StartRefresh, TypeOK, ClientTypes
  <2>6. RefreshesAreBounded'
    BY <1>f, <2>3, <2>4, <2>5 DEF MarkedInv, RefreshesAreBounded
  <2>7. QED
    BY <1>0, <2>6 DEF MarkedInv
<1>8. ASSUME NEW r \in Requests, Reject(r) PROVE MarkedInv'
  <2>1. \A x \in Requests \ {r} : reqs'[x] = reqs[x]
    BY <1>8, <1>t DEF Reject
  <2>2. reqs'[r].retry = reqs[r].retry
    BY <1>8, <1>t DEF Reject, Request
  <2>3. QED
    BY <1>0, <1>8, <2>1, <2>2, MarksStay DEF Reject
<1>9. ASSUME AnswerRefresh PROVE MarkedInv'
  BY <1>0, <1>9, MarksStay DEF AnswerRefresh
<1>10. ASSUME Refreshed PROVE MarkedInv'
  <2>1. refresh.token \in Token
    BY <1>0 DEF TypeOK, ClientTypes, Refresh
  <2>2. \A x \in Requests : reqs'[x] \in {reqs[x], Sent(x, refresh.token)}
    BY <1>10 DEF Refreshed
  <2>3. \A x \in Requests : reqs'[x].retry = reqs[x].retry
    BY <1>0, <2>1, <2>2, SentIsRequest
  <2>4. QED
    BY <1>0, <1>10, <2>3, MarksStay DEF Refreshed
<1>11. ASSUME RefreshFailed PROVE MarkedInv'
  <2>1. \A x \in Requests :
          reqs'[x] \in {reqs[x], [reqs[x] EXCEPT !.st = "failed", !.why = "refresh"]}
    BY <1>11 DEF RefreshFailed
  <2>2. ASSUME NEW x \in Requests
        PROVE  reqs'[x].retry = reqs[x].retry
    <3>1. CASE reqs'[x] = reqs[x]
      BY <3>1
    <3>2. CASE reqs'[x] = [reqs[x] EXCEPT !.st = "failed", !.why = "refresh"]
      <4>1. reqs[x] \in Request
        BY <1>t
      <4>2. QED
        BY <3>2, <4>1 DEF Request
    <3>3. QED
      BY <2>1, <3>1, <3>2
  <2>3. QED
    BY <1>0, <1>11, <2>2, MarksStay DEF RefreshFailed
<1>12. ASSUME HandleSubmit PROVE MarkedInv'
  <2>1. \A x \in Requests \ {Me} : reqs'[x] = reqs[x]
    BY <1>12, <1>t DEF HandleSubmit
  <2>2. reqs'[Me].retry = reqs[Me].retry
    BY <1>12, <1>t DEF HandleSubmit, Sent, Request
  <2>3. QED
    BY <1>0, <1>12, <2>1, <2>2, MarksStay DEF HandleSubmit
<1>a. ASSUME AnswerRegistration PROVE MarkedInv'
  <2>1. \A x \in Requests \ {Me} : reqs'[x] = reqs[x]
    BY <1>a, <1>t DEF AnswerRegistration
  <2>2. reqs'[Me].retry = reqs[Me].retry
    BY ZenonT(60), <1>a, <1>t DEF AnswerRegistration, Request
  <2>3. QED
    BY <1>0, <1>a, <2>1, <2>2, MarksStay DEF AnswerRegistration
<1>13. CASE Unload
  <2>1. leaving \in Paths
    BY <1>0, <1>13 DEF Unload, TypeOK, PageTypes, Paths
  <2>2. QED
    BY <1>2, <1>13, <2>1 DEF Unload
<1>14. CASE Reload
  BY <1>2, <1>14 DEF Reload
<1>15. CASE LoadStep
  BY <1>1, <1>15 DEF LoadStep, BootRefresh, BootMe, Initialize
<1>16. CASE HandleGoogleSuccess \/ LoginFails \/ Logout \/ LogoutAnswered \/ Expire
  BY <1>1, <1>16 DEF HandleGoogleSuccess, LoginFails, Logout, LogoutAnswered, Expire
<1>b. CASE \E path \in Paths : FollowLink(path)
  BY <1>1, <1>b DEF FollowLink
<1>17. CASE UNCHANGED vars
  BY <1>1, <1>17 DEF vars
<1>18. QED
  BY <1>3, <1>4, <1>5, <1>6, <1>7, <1>8, <1>9, <1>10, <1>11, <1>12, <1>13, <1>14,
     <1>15, <1>16, <1>17, <1>a, <1>b
  DEF Next, Interceptor

LEMMA InitIsUnmarked == Init => MarkedInv
<1> SUFFICES ASSUME Init PROVE MarkedInv
  OBVIOUS
<1>1. \A r \in Requests : reqs[r].retry = FALSE
  BY NothingIsTyped DEF Init
<1>2. {r \in Requests : reqs[r].retry} = {} /\ refreshes = 0
  BY <1>1, Zenon DEF Init
<1>3. RefreshesAreBounded
  BY <1>2, FS_EmptySet DEF RefreshesAreBounded
<1>4. QED
  BY <1>1, <1>3, InitTypes DEF MarkedInv

\* Between two loads of the page every request starts one refresh at most,
\* however often the server denies it.
THEOREM RefreshesBounded == Spec => []RefreshesAreBounded
<1>1. MarkedInv => RefreshesAreBounded
  BY DEF MarkedInv
<1>2. QED
  BY <1>1, InitIsUnmarked, StepKeepsMarks, PTL DEF Spec

-----------------------------------------------------------------------------
\* Denied twice.

\* Every token the page or a request holds was granted.
TokensAreGranted ==
    /\ accessToken <= granted /\ loginToken <= granted
    /\ refresh.reply = "granted" => refresh.token <= granted
    /\ \A r \in Requests : reqs[r].bearer <= granted

\* What a refresh has brought is later than what any request went with, and than
\* what the page could send one with.
RefreshIsLater ==
    refresh.reply = "granted" =>
        /\ \A r \in Requests : reqs[r].bearer < refresh.token
        /\ accessToken < refresh.token \/ (route = "/auth" /\ leaving # "stay")

\* The requests belong to a page that is there, the form's to the login page.
PageIsThere ==
    /\ phase # "ready" => refresh.reply = "none" /\ \A r \in Requests : reqs[r].st = "idle"
    /\ reqs[Me].st # "idle" => route = "/auth"

\* A marked request is fresh once it was sent again.
ResentIsFresh ==
    \A r \in Requests :
        /\ reqs[r].st = "idle" => ~reqs[r].retry /\ reqs[r].why = ""
        /\ reqs[r].retry /\ reqs[r].st \in {"sent", "ok", "denied"} => reqs[r].fresh
        /\ reqs[r].why = "denied" => reqs[r].retry /\ reqs[r].fresh

TokensInv == IInv /\ TokensAreGranted /\ RefreshIsLater /\ PageIsThere /\ ResentIsFresh

\* Tokens are numbers, and requests are requests.
LEMMA TokensAreNumbers ==
    ASSUME TypeOK
    PROVE  /\ accessToken \in Nat /\ loginToken \in Nat /\ granted \in Nat
           /\ refresh.token \in Nat
           /\ reqs \in [Requests -> Request]
           /\ \A r \in Requests : reqs[r] \in Request /\ reqs[r].bearer \in Nat
<1>1. accessToken \in Nat /\ loginToken \in Nat /\ granted \in Nat
  BY DEF TypeOK, StoreTypes, PageTypes, ServerTypes, Token
<1>2. refresh.token \in Nat
  BY DEF TypeOK, ClientTypes, Refresh, Token
<1>3. reqs \in [Requests -> Request]
  BY DEF TypeOK, ClientTypes
<1>4. ASSUME NEW q \in Request PROVE q.bearer \in Nat
  <2>1. q.bearer \in Token
    BY DEF Request
  <2>2. QED
    BY <2>1 DEF Token
<1>5. QED
  BY <1>1, <1>2, <1>3, <1>4

\* A step that leaves the tokens of the page and of the requests alone.
LEMMA TokensStay ==
    ASSUME TypeOK, TypeOK', TokensAreGranted, RefreshIsLater,
           UNCHANGED <<accessToken, refresh, route, leaving>>,
           granted' \in {granted, granted + 1}, loginToken' <= granted',
           \A r \in Requests : reqs'[r].bearer = reqs[r].bearer
    PROVE  TokensAreGranted' /\ RefreshIsLater'
<1>1. TokensAreGranted'
  BY TokensAreNumbers DEF TokensAreGranted
<1>2. RefreshIsLater'
  BY DEF RefreshIsLater
<1>3. QED
  BY <1>1, <1>2

\* A step that goes on with one request on its way.
LEMMA RequestGoesOn ==
    ASSUME TypeOK, TypeOK', TokensInv, NEW r \in Requests, NEW q \in Request,
           reqs' = [reqs EXCEPT ![r] = q],
           reqs[r].st \in {"sent", "ok", "denied"}, q.st # "idle",
           q.bearer = reqs[r].bearer, q.fresh = reqs[r].fresh,
           q.retry = reqs[r].retry \/ q.st = "waiting",
           q.why = "denied" => q.retry /\ q.fresh,
           UNCHANGED <<phase, route>>
    PROVE  /\ \A x \in Requests : reqs'[x].bearer = reqs[x].bearer
           /\ PageIsThere' /\ ResentIsFresh'
<1>1. \A x \in Requests : reqs'[x] = IF x = r THEN q ELSE reqs[x]
  BY TokensAreNumbers
<1>2. \A x \in Requests : reqs'[x].bearer = reqs[x].bearer
  BY <1>1
<1>3. phase = "ready"
  BY DEF TokensInv, PageIsThere
<1>4. PageIsThere'
  BY <1>1, <1>3 DEF TokensInv, PageIsThere
<1>5. ASSUME NEW x \in Requests
      PROVE  /\ reqs'[x].st = "idle" => ~reqs'[x].retry /\ reqs'[x].why = ""
             /\ reqs'[x].retry /\ reqs'[x].st \in {"sent", "ok", "denied"} => reqs'[x].fresh
             /\ reqs'[x].why = "denied" => reqs'[x].retry /\ reqs'[x].fresh
  <2>1. CASE x = r
    <3>1. reqs'[x] = q
      BY <1>1, <2>1
    <3>2. reqs[r].retry => reqs[r].fresh
      BY DEF TokensInv, ResentIsFresh
    <3>3. q.retry /\ q.st # "waiting" => q.fresh
      BY <3>2
    <3>4. QED
      BY <3>1, <3>3, Zenon
  <2>2. CASE x # r
    <3>1. reqs'[x] = reqs[x]
      BY <1>1, <2>2
    <3>2. QED
      BY <3>1 DEF TokensInv, ResentIsFresh
  <2>3. QED
    BY <2>1, <2>2
<1>6. ResentIsFresh'
  BY <1>5 DEF ResentIsFresh
<1>7. QED
  BY <1>2, <1>4, <1>6

\* A step that sends a request for the first time.
LEMMA RequestIsSent ==
    ASSUME TypeOK, TypeOK', TokensInv, NEW r \in Requests, NEW token \in Token,
           reqs' = [reqs EXCEPT ![r] = Sent(r, token)], token <= granted',
           reqs[r].st = "idle", phase = "ready", r = Me => route = "/auth",
           refresh.reply = "granted" => token < refresh.token,
           UNCHANGED <<accessToken, phase, route, leaving, refresh>>,
           granted' \in {granted, granted + 1}, loginToken' <= granted'
    PROVE  TokensAreGranted' /\ RefreshIsLater' /\ PageIsThere' /\ ResentIsFresh'
<1>1. \A x \in Requests : reqs'[x] = IF x = r THEN Sent(r, token) ELSE reqs[x]
  BY TokensAreNumbers
<1>2. /\ Sent(r, token).bearer = token /\ Sent(r, token).st = "sent"
      /\ Sent(r, token).retry = reqs[r].retry /\ Sent(r, token).why = reqs[r].why
  BY SentIsRequest
<1>3. \A x \in Requests : reqs'[x].bearer = IF x = r THEN token ELSE reqs[x].bearer
  BY <1>1, <1>2
<1>4. TokensAreGranted'
  BY <1>3, TokensAreNumbers DEF TokensInv, TokensAreGranted
<1>5. RefreshIsLater'
  BY <1>3 DEF TokensInv, RefreshIsLater
<1>6. PageIsThere'
  BY <1>1 DEF TokensInv, PageIsThere
<1>7. ASSUME NEW x \in Requests
      PROVE  /\ reqs'[x].st = "idle" => ~reqs'[x].retry /\ reqs'[x].why = ""
             /\ reqs'[x].retry /\ reqs'[x].st \in {"sent", "ok", "denied"} => reqs'[x].fresh
             /\ reqs'[x].why = "denied" => reqs'[x].retry /\ reqs'[x].fresh
  <2>1. CASE x = r
    <3>1. ~reqs[r].retry /\ reqs[r].why = ""
      BY DEF TokensInv, ResentIsFresh
    <3>2. reqs'[x].st = "sent" /\ reqs'[x].retry = reqs[r].retry /\ reqs'[x].why = reqs[r].why
      BY <1>1, <1>2, <2>1
    <3>3. ~reqs'[x].retry /\ reqs'[x].why = ""
      BY <3>1, <3>2, Zenon
    <3>4. QED
      BY <3>2, <3>3
  <2>2. CASE x # r
    <3>1. reqs'[x] = reqs[x]
      BY <1>1, <2>2
    <3>2. QED
      BY <3>1 DEF TokensInv, ResentIsFresh
  <2>3. QED
    BY <2>1, <2>2
<1>8. ResentIsFresh'
  BY <1>7 DEF ResentIsFresh
<1>9. QED
  BY <1>4, <1>5, <1>6, <1>8

\* A new page holds no tokens and has no requests.
LEMMA NewPage ==
    ASSUME accessToken = 0, loginToken = 0, granted = 0, refresh = NoRefresh,
           \A r \in Requests : reqs[r] = NewRequest
    PROVE  TokensAreGranted /\ RefreshIsLater /\ PageIsThere /\ ResentIsFresh
<1>1. refresh.reply = "none"
  BY NothingIsTyped
<1>2. \A r \in Requests :
        reqs[r].st = "idle" /\ ~reqs[r].retry /\ reqs[r].why = "" /\ reqs[r].bearer = 0
  BY NothingIsTyped, Zenon
<1>3. TokensAreGranted
  <2>1. 0 <= 0
    OBVIOUS
  <2>2. QED
    BY <1>1, <1>2, <2>1, Zenon DEF TokensAreGranted
<1>4. RefreshIsLater /\ PageIsThere
  BY <1>1, <1>2 DEF RefreshIsLater, PageIsThere
<1>5. ResentIsFresh
  BY <1>2, Zenon DEF ResentIsFresh
<1>6. QED
  BY <1>3, <1>4, <1>5

LEMMA NewPageKeeps ==
    ASSUME accessToken' = 0, loginToken' = 0, granted' = 0, refresh' = NoRefresh,
           \A r \in Requests : reqs'[r] = NewRequest
    PROVE  TokensAreGranted' /\ RefreshIsLater' /\ PageIsThere' /\ ResentIsFresh'
<1>1. refresh'.reply = "none"
  BY NothingIsTyped
<1>2. \A r \in Requests :
        reqs'[r].st = "idle" /\ ~reqs'[r].retry /\ reqs'[r].why = "" /\ reqs'[r].bearer = 0
  BY NothingIsTyped, Zenon
<1>3. TokensAreGranted'
  <2>1. 0 <= 0
    OBVIOUS
  <2>2. QED
    BY <1>1, <1>2, <2>1, Zenon DEF TokensAreGranted
<1>4. RefreshIsLater' /\ PageIsThere'
  BY <1>1, <1>2 DEF RefreshIsLater, PageIsThere
<1>5. ResentIsFresh'
  BY <1>2, Zenon DEF ResentIsFresh
<1>6. QED
  BY <1>3, <1>4, <1>5

\* The login form is shown on its own path only.
LEMMA LoginIsThere ==
    ASSUME TypeOK, Screen = "login"
    PROVE  phase = "ready" /\ route = "/auth"
<1>1. phase = "ready"
  BY Zenon DEF Screen
<1>2. route \in {"/", "/auth", "/admin"}
  BY DEF TypeOK, PageTypes, Paths
<1>3. CASE route = "/"
  BY <1>1, <1>3 DEF Screen, PrivateRoute
<1>4. CASE route = "/admin"
  BY <1>1, <1>4 DEF Screen
<1>5. QED
  BY <1>1, <1>2, <1>3, <1>4

LEMMA StepKeepsTokens == TokensInv /\ [Next]_vars => TokensInv'
<1> SUFFICES ASSUME TokensInv, [Next]_vars PROVE TokensInv'
  OBVIOUS
<1>0. IInv /\ IInv' /\ TypeOK /\ TypeOK'
  BY StepKeepsWaiters DEF TokensInv, IInv
<1>n. /\ accessToken \in Nat /\ loginToken \in Nat /\ granted \in Nat /\ refresh.token \in Nat
      /\ reqs \in [Requests -> Request]
      /\ \A r \in Requests : reqs[r] \in Request /\ reqs[r].bearer \in Nat
  BY <1>0, TokensAreNumbers
<1>h. TokensAreGranted /\ RefreshIsLater /\ PageIsThere /\ ResentIsFresh
  BY DEF TokensInv
<1> DEFINE Kept == TokensAreGranted' /\ RefreshIsLater' /\ PageIsThere' /\ ResentIsFresh'
<1> SUFFICES Kept
  BY <1>0 DEF TokensInv
<1> USE DEF clientVars
<1>1. ASSUME LoadStep PROVE Kept
  <2>1. /\ phase # "ready" /\ UNCHANGED <<reqs, refresh, loginToken>>
        /\ accessToken' \in {0, accessToken, granted'}
        /\ granted' = granted \/ granted' = granted + 1
    BY <1>1, Zenon DEF LoadStep, BootRefresh, BootMe, Initialize, Grant, SignOut, storeVars,
       serverVars
  <2>2. refresh.reply = "none" /\ \A r \in Requests : reqs[r].st = "idle"
    BY <1>h, <2>1 DEF PageIsThere
  <2>3. TokensAreGranted'
    BY <1>n, <1>h, <2>1 DEF TokensAreGranted
  <2>4. RefreshIsLater' /\ PageIsThere' /\ ResentIsFresh'
    BY <1>h, <2>1, <2>2 DEF RefreshIsLater, PageIsThere, ResentIsFresh
  <2>5. QED
    BY <2>3, <2>4
<1>2. ASSUME NEW path \in Paths, Load(path) PROVE Kept
  <2>1. /\ accessToken' = 0 /\ loginToken' = 0 /\ granted' = 0
        /\ refresh' = NoRefresh /\ \A r \in Requests : reqs'[r] = NewRequest
    BY <1>2 DEF Load
  <2>2. QED
    BY <2>1, NewPageKeeps, Zenon
<1>3. ASSUME Unload PROVE Kept
  <2>1. leaving \in Paths
    BY <1>0, <1>3 DEF Unload, TypeOK, PageTypes, Paths
  <2>2. QED
    BY <1>2, <1>3, <2>1 DEF Unload
<1>4. ASSUME Reload PROVE Kept
  BY <1>2, <1>4 DEF Reload
<1>5. ASSUME NEW path \in Paths, FollowLink(path) PROVE Kept
  <2>1. phase = "ready" /\ route # "/auth"
    BY <1>5, Zenon DEF FollowLink, Screen, PrivateRoute
  <2>2. UNCHANGED <<phase, reqs, refresh, loginToken, granted>>
    BY <1>5 DEF FollowLink
  <2>3. accessToken' = 0 \/ accessToken' = accessToken
    BY <1>0, <1>5, AuthIsTyped DEF FollowLink, TypeOK, StoreTypes
  <2>4. TokensAreGranted'
    BY <1>n, <1>h, <2>2, <2>3 DEF TokensAreGranted
  <2>5. RefreshIsLater'
    BY <1>n, <1>h, <2>1, <2>2, <2>3 DEF RefreshIsLater
  <2>6. PageIsThere' /\ ResentIsFresh'
    BY <1>h, <2>1, <2>2 DEF PageIsThere, ResentIsFresh
  <2>7. QED
    BY <2>4, <2>5, <2>6
<1>6. ASSUME NEW r \in Requests, Issue(r) PROVE Kept
  <2>1. phase = "ready" /\ route # "/auth"
    BY <1>6, Zenon DEF Issue, Screen, PrivateRoute
  <2>2. refresh.reply = "granted" => accessToken < refresh.token
    BY <1>h, <2>1 DEF RefreshIsLater
  <2>3. accessToken \in Token /\ accessToken <= granted /\ loginToken <= granted
    BY <1>0, <1>h DEF TypeOK, StoreTypes, TokensAreGranted
  <2>4. QED
    BY <1>0, <1>6, <2>1, <2>2, <2>3, RequestIsSent
    DEF Issue, storeVars, pageVars, serverVars
<1>7. ASSUME HandleSubmit PROVE Kept
  <2>1. phase = "ready" /\ route = "/auth" /\ leaving = "stay"
    BY <1>0, <1>7, LoginIsThere DEF HandleSubmit, MaySubmit
  <2>2. refresh.reply = "granted" => accessToken < refresh.token
    BY <1>h, <2>1 DEF RefreshIsLater
  <2>3. /\ granted' \in {granted, granted + 1} /\ loginToken' \in {loginToken, granted'}
        /\ reqs[Me].st = "idle"
    BY <1>7
    DEF HandleSubmit, MaySubmit, LoginAndGetAccessToken, RegisterAndGetAccessToken, Grant
  <2>4. accessToken \in Token /\ accessToken <= granted' /\ loginToken' <= granted'
    BY <1>0, <1>n, <1>h, <2>3 DEF TypeOK, StoreTypes, TokensAreGranted
  <2>5. UNCHANGED <<accessToken, phase, route, leaving, refresh>>
    BY <1>7 DEF HandleSubmit, storeVars
  <2>6. reqs' = [reqs EXCEPT ![Me] = Sent(Me, accessToken)]
    BY <1>7 DEF HandleSubmit
  <2>7. QED
    BY <1>0, <2>1, <2>2, <2>3, <2>4, <2>5, <2>6, RequestIsSent
<1>8. ASSUME NEW r \in Requests, NEW q \in Request,
             reqs' = [reqs EXCEPT ![r] = q],
             reqs[r].st \in {"sent", "ok", "denied"}, q.st # "idle",
             q.bearer = reqs[r].bearer, q.fresh = reqs[r].fresh,
             q.retry = reqs[r].retry \/ q.st = "waiting",
             q.why = "denied" => q.retry /\ q.fresh,
             UNCHANGED <<accessToken, phase, route, leaving, refresh>>,
             granted' \in {granted, granted + 1}, loginToken' <= granted'
      PROVE  Kept
  <2>1. /\ \A x \in Requests : reqs'[x].bearer = reqs[x].bearer
        /\ PageIsThere' /\ ResentIsFresh'
    BY <1>0, <1>8, RequestGoesOn
  <2>2. TokensAreGranted' /\ RefreshIsLater'
    BY <1>0, <1>h, <1>8, <2>1, TokensStay
  <2>3. QED
    BY <2>1, <2>2
<1>g. loginToken <= granted
  BY <1>h DEF TokensAreGranted
<1>9. ASSUME NEW r \in Requests, Answer(r) PROVE Kept
  <2>1. PICK q \in {[reqs[r] EXCEPT !.st = "ok"], [reqs[r] EXCEPT !.st = "denied"],
                    [reqs[r] EXCEPT !.st = "failed", !.why = "network"]} :
          reqs' = [reqs EXCEPT ![r] = q]
    <3>1. \/ reqs' = [reqs EXCEPT ![r].st = "ok"]
          \/ reqs' = [reqs EXCEPT ![r].st = "denied"]
          \/ reqs' = [reqs EXCEPT ![r].st = "failed", ![r].why = "network"]
      BY <1>9 DEF Answer
    <3>2. QED
      BY <1>n, <3>1
  <2>2. reqs[r].st = "sent"
    BY <1>9 DEF Answer
  <2>3. q \in Request
    <3>1. reqs[r] \in Request
      BY <1>n
    <3>2. /\ [reqs[r] EXCEPT !.st = "ok"] \in Request
          /\ [reqs[r] EXCEPT !.st = "denied"] \in Request
          /\ [reqs[r] EXCEPT !.st = "failed", !.why = "network"] \in Request
      BY <3>1, AnsweredIsRequest
    <3>3. QED
      BY <2>1, <3>2, Zenon
  <2>4. /\ q.st # "idle" /\ q.bearer = reqs[r].bearer /\ q.fresh = reqs[r].fresh
        /\ q.retry = reqs[r].retry /\ q.why \in {reqs[r].why, "network"}
    BY ZenonT(60), <1>n, <2>1 DEF Request
  <2>5. q.why = "denied" => q.retry /\ q.fresh
    BY <1>h, <2>4 DEF ResentIsFresh
  <2>6. UNCHANGED <<accessToken, phase, route, leaving, refresh, granted, loginToken>>
    BY <1>9 DEF Answer, storeVars, pageVars, serverVars
  <2>7. QED
    BY <1>8, <1>g, <2>1, <2>2, <2>3, <2>4, <2>5, <2>6
<1>10. ASSUME AnswerRegistration PROVE Kept
  <2>1. PICK q \in {[reqs[Me] EXCEPT !.st = "ok"], [reqs[Me] EXCEPT !.st = "denied"]} :
          reqs' = [reqs EXCEPT ![Me] = q]
    <3>1. \/ reqs' = [reqs EXCEPT ![Me].st = "ok"]
          \/ reqs' = [reqs EXCEPT ![Me].st = "denied"]
      BY <1>10 DEF AnswerRegistration
    <3>2. QED
      BY <1>n, <3>1
  <2>2. reqs[Me].st = "sent"
    BY <1>10 DEF AnswerRegistration
  <2>3. q \in Request
    <3>1. reqs[Me] \in Request
      BY <1>n
    <3>2. /\ [reqs[Me] EXCEPT !.st = "ok"] \in Request
          /\ [reqs[Me] EXCEPT !.st = "denied"] \in Request
      BY <3>1, AnsweredIsRequest
    <3>3. QED
      BY <2>1, <3>2, Zenon
  <2>4. /\ q.st # "idle" /\ q.bearer = reqs[Me].bearer /\ q.fresh = reqs[Me].fresh
        /\ q.retry = reqs[Me].retry /\ q.why = reqs[Me].why
    BY <1>n, <2>1 DEF Request
  <2>5. q.why = "denied" => q.retry /\ q.fresh
    BY <1>h, <2>4 DEF ResentIsFresh
  <2>6. UNCHANGED <<accessToken, phase, route, leaving, refresh>>
    BY <1>10 DEF AnswerRegistration, storeVars
  <2>7. granted' \in {granted, granted + 1} /\ loginToken' \in {loginToken, granted'}
        /\ (granted' = granted => loginToken' = loginToken \/ loginToken' = granted)
    BY <1>10, <1>n DEF AnswerRegistration, Grant
  <2>8. loginToken' <= granted'
    BY <1>g, <1>n, <2>7
  <2>9. QED
    BY <1>8, <2>1, <2>2, <2>3, <2>4, <2>5, <2>6, <2>7, <2>8
<1>11. ASSUME NEW r \in Requests, Succeed(r) PROVE Kept
  <2>1. reqs[r].st = "ok" /\ UNCHANGED <<phase, route, refresh, granted>>
    BY <1>11 DEF Succeed, serverVars
  <2>2. reqs' = [reqs EXCEPT ![r] = [reqs[r] EXCEPT !.st = "done"]]
    BY <1>11, <1>n DEF Succeed
  <2>3. [reqs[r] EXCEPT !.st = "done"] \in Request
    BY <1>n DEF Request
  <2>4. [reqs[r] EXCEPT !.st = "done"].why = "denied" => reqs[r].retry /\ reqs[r].fresh
    BY <1>h, <1>n DEF ResentIsFresh, Request
  <2>5. /\ \A x \in Requests : reqs'[x].bearer = reqs[x].bearer
        /\ PageIsThere' /\ ResentIsFresh'
    <3> DEFINE q == [reqs[r] EXCEPT !.st = "done"]
    <3>1. /\ q \in Request /\ q.st # "idle" /\ q.bearer = reqs[r].bearer
          /\ q.fresh = reqs[r].fresh /\ q.retry = reqs[r].retry
          /\ (q.why = "denied" => q.retry /\ q.fresh)
      BY <1>n, <2>3, <2>4 DEF Request
    <3>2. reqs' = [reqs EXCEPT ![r] = q]
      BY <2>2
    <3> HIDE DEF q
    <3>3. QED
      BY <1>0, <2>1, <3>1, <3>2, RequestGoesOn
  <2>6. CASE r # Me
    <3>1. UNCHANGED <<accessToken, loginToken, leaving>>
      BY <1>11, <2>6 DEF Succeed, storeVars
    <3>2. QED
      BY <1>0, <1>g, <1>h, <2>1, <2>5, <3>1, TokensStay
  <2>7. CASE r = Me
    <3>1. accessToken' = loginToken /\ loginToken' = 0 /\ leaving' = "/"
      BY <1>11, <2>7 DEF Succeed
    <3>2. route' = "/auth"
      BY <1>h, <2>1, <2>7 DEF PageIsThere
    <3>3. TokensAreGranted'
      BY <1>h, <1>n, <2>1, <2>5, <3>1 DEF TokensAreGranted
    <3>4. RefreshIsLater'
      BY <1>h, <2>1, <2>5, <3>1, <3>2 DEF RefreshIsLater
    <3>5. QED
      BY <2>5, <3>3, <3>4
  <2>8. QED
    BY <2>6, <2>7
<1>12. ASSUME NEW r \in Requests, Interceptor(r) PROVE Kept
  <2>1. /\ reqs[r].st = "denied"
        /\ UNCHANGED <<accessToken, phase, route, leaving, granted, loginToken>>
    BY <1>12
    DEF Interceptor, Queue, StartRefresh, Reject, storeVars, pageVars, serverVars
  <2>2. PICK q \in {[reqs[r] EXCEPT !.st = "queued"],
                    [reqs[r] EXCEPT !.st = "waiting", !.retry = TRUE],
                    [reqs[r] EXCEPT !.st = "failed", !.why = "denied"]} :
          /\ reqs' = [reqs EXCEPT ![r] = q]
          /\ q = [reqs[r] EXCEPT !.st = "failed", !.why = "denied"] => reqs[r].retry
    <3>1. CASE Queue(r)
      <4>1. reqs' = [reqs EXCEPT ![r] = [reqs[r] EXCEPT !.st = "queued"]]
        BY <1>n, <3>1 DEF Queue
      <4>2. [reqs[r] EXCEPT !.st = "queued"] # [reqs[r] EXCEPT !.st = "failed", !.why = "denied"]
        BY ZenonT(60), <1>n DEF Request
      <4>3. QED
        BY <4>1, <4>2
    <3>2. CASE StartRefresh(r)
      <4>1. reqs' = [reqs EXCEPT ![r] = [reqs[r] EXCEPT !.st = "waiting", !.retry = TRUE]]
        BY <1>n, <3>2 DEF StartRefresh
      <4>2. [reqs[r] EXCEPT !.st = "waiting", !.retry = TRUE]
              # [reqs[r] EXCEPT !.st = "failed", !.why = "denied"]
        BY ZenonT(60), <1>n DEF Request
      <4>3. QED
        BY <4>1, <4>2
    <3>3. CASE Reject(r)
      <4>1. /\ reqs' = [reqs EXCEPT ![r] = [reqs[r] EXCEPT !.st = "failed", !.why = "denied"]]
            /\ reqs[r].retry
        BY <1>n, <3>3 DEF Reject
      <4>2. QED
        BY <4>1
    <3>4. QED
      BY <1>12, <3>1, <3>2, <3>3 DEF Interceptor
  <2>3. /\ q \in Request /\ q.st # "idle" /\ q.bearer = reqs[r].bearer
        /\ q.fresh = reqs[r].fresh /\ (q.retry = reqs[r].retry \/ q.st = "waiting")
    <3>1. reqs[r] \in Request
      BY <1>n
    <3>2. CASE q = [reqs[r] EXCEPT !.st = "queued"]
      BY <3>1, <3>2 DEF Request
    <3>3. CASE q = [reqs[r] EXCEPT !.st = "waiting", !.retry = TRUE]
      BY <3>1, <3>3 DEF Request
    <3>4. CASE q = [reqs[r] EXCEPT !.st = "failed", !.why = "denied"]
      BY <3>1, <3>4 DEF Request
    <3>5. QED
      BY <2>2, <3>2, <3>3, <3>4
  <2>4. reqs[r].retry => reqs[r].fresh
    BY <1>h, <2>1 DEF ResentIsFresh
  <2>5. reqs[r].why = "denied" => reqs[r].retry /\ reqs[r].fresh
    BY <1>h DEF ResentIsFresh
  <2>6. q.why = "denied" => q.retry /\ q.fresh
    BY ZenonT(60), <1>n, <2>2, <2>4, <2>5 DEF Request
  <2>7. CASE UNCHANGED refresh
    BY <1>8, <1>g, <2>1, <2>2, <2>3, <2>6, <2>7
  <2>8. CASE StartRefresh(r)
    <3>1. refresh'.reply # "granted"
      BY <2>8 DEF StartRefresh
    <3>2. /\ \A x \in Requests : reqs'[x].bearer = reqs[x].bearer
          /\ PageIsThere' /\ ResentIsFresh'
      BY <1>0, <2>1, <2>2, <2>3, <2>6, RequestGoesOn
    <3>3. TokensAreGranted' /\ RefreshIsLater'
      BY <1>h, <2>1, <3>1, <3>2 DEF TokensAreGranted, RefreshIsLater
    <3>4. QED
      BY <3>2, <3>3
  <2>9. QED
    BY <1>12, <2>7, <2>8 DEF Interceptor, Queue, Reject
<1>13. ASSUME AnswerRefresh PROVE Kept
  <2>1. /\ UNCHANGED <<accessToken, loginToken, reqs, phase, route, leaving>>
        /\ refresh.reply # "none"
        /\ granted' = granted \/ granted' = granted + 1
        /\ refresh'.reply = "granted" =>
             granted' = granted + 1 /\ refresh'.token = granted + 1
    BY <1>0, <1>13
    DEF AnswerRefresh, storeVars, pageVars, Grant, TypeOK, ClientTypes, Refresh
  <2>2. TokensAreGranted' /\ RefreshIsLater'
    BY <1>h, <1>n, <2>1 DEF TokensAreGranted, RefreshIsLater
  <2>3. PageIsThere' /\ ResentIsFresh'
    BY <1>h, <2>1 DEF PageIsThere, ResentIsFresh
  <2>4. QED
    BY <2>2, <2>3
<1>14. ASSUME Refreshed PROVE Kept
  <2>1. /\ refresh.reply = "granted" /\ refresh' = NoRefresh
        /\ UNCHANGED <<phase, loginToken, granted>>
    BY <1>14 DEF Refreshed
  <2>2. phase = "ready"
    BY <1>h, <2>1 DEF PageIsThere
  <2>3. refresh.token \in Token
    BY <1>0 DEF TypeOK, ClientTypes, Refresh
  <2>4. ASSUME NEW r \in Requests
        PROVE  \/ reqs'[r] = reqs[r]
               \/ reqs'[r] = Sent(r, refresh.token) /\ reqs[r].st \in {"queued", "waiting"}
    <3>1. reqs'[r] = IF InQueue(r) \/ r = refresh.by THEN Sent(r, refresh.token) ELSE reqs[r]
      BY <1>14 DEF Refreshed
    <3>2. InQueue(r) \/ r = refresh.by => reqs[r].st \in {"queued", "waiting"}
      BY <1>0 DEF IInv, WaitersAreKnown
    <3>3. QED
      BY <3>1, <3>2
  <2>5. \A r \in Requests :
          /\ Sent(r, refresh.token).bearer = refresh.token
          /\ Sent(r, refresh.token).fresh /\ Sent(r, refresh.token).st = "sent"
          /\ Sent(r, refresh.token).retry = reqs[r].retry
          /\ Sent(r, refresh.token).why = reqs[r].why
    BY <1>0, <1>h, <1>n, <2>1, <2>3, SentIsRequest DEF RefreshIsLater
  <2>6. accessToken' \in {0, refresh.token}
    BY <1>0, <1>14, <2>3, AuthIsTyped DEF Refreshed
  <2>7. TokensAreGranted'
    <3>1. refresh.token <= granted /\ loginToken <= granted
      BY <1>h, <2>1 DEF TokensAreGranted
    <3>2. accessToken' <= granted' /\ loginToken' <= granted'
      BY <1>n, <2>1, <2>6, <3>1
    <3>3. ASSUME NEW r \in Requests PROVE reqs'[r].bearer <= granted'
      <4>1. reqs'[r].bearer \in {reqs[r].bearer, refresh.token}
        BY <2>4, <2>5
      <4>2. QED
        BY <1>h, <2>1, <3>1, <4>1 DEF TokensAreGranted
    <3>4. refresh'.reply # "granted"
      BY <2>1, NothingIsTyped
    <3>5. QED
      BY <3>2, <3>3, <3>4 DEF TokensAreGranted
  <2>8. RefreshIsLater'
    BY <2>1, NothingIsTyped DEF RefreshIsLater
  <2>9. PageIsThere'
    <3>1. route = "/auth" => route' = "/auth"
      BY <1>14 DEF Refreshed, AdminGuard
    <3>2. reqs'[Me].st # "idle" => reqs[Me].st # "idle"
      BY <2>4
    <3>3. QED
      BY <1>h, <2>1, <2>2, <3>1, <3>2 DEF PageIsThere
  <2>10. ResentIsFresh'
    <3>1. ASSUME NEW r \in Requests
          PROVE  /\ reqs'[r].st = "idle" => ~reqs'[r].retry /\ reqs'[r].why = ""
                 /\ reqs'[r].retry /\ reqs'[r].st \in {"sent", "ok", "denied"} => reqs'[r].fresh
                 /\ reqs'[r].why = "denied" => reqs'[r].retry /\ reqs'[r].fresh
      <4>1. CASE reqs'[r] = reqs[r]
        BY <1>h, <4>1 DEF ResentIsFresh
      <4>2. CASE reqs'[r] = Sent(r, refresh.token)
        BY ZenonT(60), <1>h, <2>5, <4>2 DEF ResentIsFresh
      <4>3. QED
        BY <2>4, <4>1, <4>2
    <3>2. QED
      BY <3>1 DEF ResentIsFresh
  <2>11. QED
    BY <2>7, <2>8, <2>9, <2>10
<1>15. ASSUME RefreshFailed PROVE Kept
  <2>1. /\ refresh.reply = "refused" /\ refresh' = NoRefresh /\ accessToken' = 0
        /\ UNCHANGED <<phase, loginToken, granted>>
    BY <1>15 DEF RefreshFailed, serverVars
  <2>2. phase = "ready"
    BY <1>h, <2>1 DEF PageIsThere
  <2>3. ASSUME NEW r \in Requests
        PROVE  \/ reqs'[r] = reqs[r]
               \/ /\ reqs[r].st \in {"queued", "waiting"}
                  /\ reqs'[r].st = "failed" /\ reqs'[r].why = "refresh"
                  /\ reqs'[r].bearer = reqs[r].bearer
    <3>1. reqs'[r] = IF InQueue(r) \/ r = refresh.by
                       THEN [reqs[r] EXCEPT !.st = "failed", !.why = "refresh"] ELSE reqs[r]
      BY <1>15 DEF RefreshFailed
    <3>2. InQueue(r) \/ r = refresh.by => reqs[r].st \in {"queued", "waiting"}
      BY <1>0 DEF IInv, WaitersAreKnown
    <3>3. QED
      BY <1>n, <3>1, <3>2 DEF Request
  <2>4. TokensAreGranted'
    <3>1. refresh'.reply # "granted" /\ \A r \in Requests : reqs'[r].bearer = reqs[r].bearer
      BY <2>1, <2>3, NothingIsTyped
    <3>2. QED
      BY <1>h, <1>n, <2>1, <3>1 DEF TokensAreGranted
  <2>5. RefreshIsLater'
    BY <2>1, NothingIsTyped DEF RefreshIsLater
  <2>6. PageIsThere'
    <3>1. route = "/auth" => route' = "/auth"
      BY <1>15 DEF RefreshFailed, AdminGuard
    <3>2. reqs'[Me].st # "idle" => reqs[Me].st # "idle"
      BY <2>3
    <3>3. QED
      BY <1>h, <2>1, <2>2, <3>1, <3>2 DEF PageIsThere
  <2>7. ResentIsFresh'
    BY ZenonT(60), <1>h, <2>3 DEF ResentIsFresh
  <2>8. QED
    BY <2>4, <2>5, <2>6, <2>7
<1>16. ASSUME HandleGoogleSuccess PROVE Kept
  <2>1. /\ UNCHANGED <<phase, route, loginToken, reqs, refresh>>
        /\ granted' = granted + 1 /\ accessToken' = granted' /\ leaving' = "/"
    BY <1>16 DEF HandleGoogleSuccess, Grant
  <2>2. route = "/auth"
    BY <1>0, <1>16, LoginIsThere DEF HandleGoogleSuccess, MaySubmit
  <2>3. TokensAreGranted' /\ RefreshIsLater'
    BY <1>h, <1>n, <2>1, <2>2 DEF TokensAreGranted, RefreshIsLater
  <2>4. PageIsThere' /\ ResentIsFresh'
    BY <1>h, <2>1 DEF PageIsThere, ResentIsFresh
  <2>5. QED
    BY <2>3, <2>4
<1>17. ASSUME LoginFails \/ Logout \/ LogoutAnswered \/ Expire \/ UNCHANGED vars PROVE Kept
  <2>1. /\ UNCHANGED <<phase, route, leaving, reqs, refresh, granted>>
        /\ loginToken' \in {0, loginToken} /\ accessToken' \in {0, accessToken}
    BY <1>17
    DEF LoginFails, Logout, LogoutAnswered, Expire, SignOut, storeVars, pageVars, serverVars, vars
  <2>2. TokensAreGranted'
    BY <1>h, <1>n, <2>1 DEF TokensAreGranted
  <2>3. RefreshIsLater'
    BY <1>h, <1>n, <2>1 DEF RefreshIsLater
  <2>4. PageIsThere' /\ ResentIsFresh'
    BY <1>h, <2>1 DEF PageIsThere, ResentIsFresh
  <2>5. QED
    BY <2>2, <2>3, <2>4
<1>18. QED
  BY <1>1, <1>3, <1>4, <1>5, <1>6, <1>7, <1>9, <1>10, <1>11, <1>12, <1>13, <1>14, <1>15,
     <1>16, <1>17, Zenon
  DEF Next

\* Once a component sees a 401, the server has refused the request with a later
\* token too, whatever refreshes, logins and page loads come in between.
THEOREM DeniedWithFreshToken == Spec => []DeniedOnlyWithFreshToken
<1>1. Init => TokensInv
  <2> SUFFICES ASSUME Init PROVE TokensInv
    OBVIOUS
  <2>1. /\ accessToken = 0 /\ loginToken = 0 /\ granted = 0 /\ refresh = NoRefresh
        /\ \A r \in Requests : reqs[r] = NewRequest
    BY DEF Init
  <2>2. QED
    BY <2>1, InitIsIdle, NewPage, Zenon DEF TokensInv
<1>2. TokensInv => DeniedOnlyWithFreshToken
  BY DEF TokensInv, ResentIsFresh, DeniedOnlyWithFreshToken
<1>3. QED
  BY <1>1, <1>2, StepKeepsTokens, PTL DEF Spec

-----------------------------------------------------------------------------
\* The session.

\* A refresh is refused only to a session that has ended already.
RefusalIsEarned ==
    /\ sound => cookie
    /\ refresh.reply = "refused" => ~sound
    /\ refresh.reply = "granted" => refresh.token # 0

\* The login form knows what it waits for, and keeps the token of a login while
\* it waits for the user's data.
LoginHasToken == Open(Me) => form # "idle" /\ (form = "login" => loginToken # 0)

SessionInv == IInv /\ RefusalIsEarned /\ LoginHasToken /\ SessionSurvives

\* A granted token is not null.
LEMMA GrantedIsNotNull ==
    ASSUME TypeOK
    PROVE  granted + 1 # 0
  BY DEF TypeOK, ServerTypes, Token

\* Waiting or not, a request is open.
LEMMA OpenStays ==
    ASSUME LoginHasToken, UNCHANGED <<form, loginToken>>, Open(Me)' => Open(Me)
    PROVE  LoginHasToken'
  BY DEF LoginHasToken

LEMMA SessionStays ==
    ASSUME SessionSurvives, UNCHANGED <<phase, accessToken, timedOut>>, sound' => sound
    PROVE  SessionSurvives'
  BY DEF SessionSurvives

LEMMA StepKeepsSession == SessionInv /\ [Next]_vars => SessionInv'
<1> SUFFICES ASSUME SessionInv, [Next]_vars PROVE SessionInv'
  OBVIOUS
<1>0. IInv' /\ TypeOK /\ TypeOK'
  BY StepKeepsWaiters DEF SessionInv, IInv
<1>t. reqs \in [Requests -> Request] /\ Me \in Requests
  BY <1>0 DEF TypeOK, ClientTypes
<1>h. RefusalIsEarned /\ LoginHasToken /\ SessionSurvives /\ IInv
  BY DEF SessionInv
<1> SUFFICES RefusalIsEarned' /\ LoginHasToken' /\ SessionSurvives'
  BY <1>0 DEF SessionInv
<1> USE DEF storeVars, pageVars, clientVars, serverVars, histVars, bounds
<1>1. ASSUME BootRefresh
        PROVE  RefusalIsEarned' /\ LoginHasToken' /\ SessionSurvives'
  <2>1. RefusalIsEarned'
    BY <1>1, <1>h DEF BootRefresh, RefusalIsEarned
  <2>2. LoginHasToken'
    BY <1>1, <1>h DEF BootRefresh, LoginHasToken, Open
  <2>3. SessionSurvives'
    BY <1>1, <1>h DEF BootRefresh, SessionSurvives
  <2>4. QED
    BY <2>1, <2>2, <2>3
<1>2. ASSUME BootMe
        PROVE  RefusalIsEarned' /\ LoginHasToken' /\ SessionSurvives'
  <2>1. RefusalIsEarned'
    BY <1>2, <1>h DEF BootMe, RefusalIsEarned
  <2>2. LoginHasToken'
    BY <1>2, <1>h DEF BootMe, LoginHasToken, Open
  <2>3. SessionSurvives'
    BY <1>2, <1>h DEF BootMe, SessionSurvives
  <2>4. QED
    BY <2>1, <2>2, <2>3
<1>3. ASSUME Initialize
        PROVE  RefusalIsEarned' /\ LoginHasToken' /\ SessionSurvives'
  <2>1. RefusalIsEarned'
    <3>1. (sound' = sound \/ sound' = FALSE) /\ cookie' = cookie /\ refresh' = refresh
      BY <1>3 DEF Initialize
    <3>2. QED
      BY <1>h, <3>1 DEF RefusalIsEarned
  <2>2. LoginHasToken'
    BY <1>3, <1>h DEF Initialize, LoginHasToken, Open
  <2>3. SessionSurvives'
    BY <1>3, <1>0, <1>h, GrantedIsNotNull DEF Initialize, SessionSurvives, RefusalIsEarned, SignOut
  <2>4. QED
    BY <2>1, <2>2, <2>3
<1>4. ASSUME NEW path \in Paths, Load(path)
        PROVE  RefusalIsEarned' /\ LoginHasToken' /\ SessionSurvives'
  <2>1. reqs'[Me].st = "idle" /\ refresh'.reply = "none"
    BY <1>4, <1>t, NothingIsTyped DEF Load
  <2>2. phase' = "bootstrap" /\ sound' = cookie /\ cookie' = cookie
    BY <1>4, Zenon DEF Load
  <2>3. QED
    BY <2>1, <2>2 DEF RefusalIsEarned, LoginHasToken, Open, SessionSurvives
<1>5. ASSUME NEW r \in Requests, Issue(r)
        PROVE  RefusalIsEarned' /\ LoginHasToken' /\ SessionSurvives'
  <2>1. RefusalIsEarned'
    BY <1>5, <1>h DEF Issue, RefusalIsEarned
  <2>2. LoginHasToken'
    <3>1. reqs'[Me] = reqs[Me]
      BY <1>5, <1>t DEF Issue
    <3>2. QED
      BY <1>5, <1>h, <3>1, OpenStays DEF Issue, Open
  <2>3. SessionSurvives'
    BY <1>5, <1>h DEF Issue, SessionSurvives
  <2>4. QED
    BY <2>1, <2>2, <2>3
<1>6. ASSUME NEW r \in Requests, Answer(r)
        PROVE  RefusalIsEarned' /\ LoginHasToken' /\ SessionSurvives'
  <2>1. RefusalIsEarned'
    BY <1>6, <1>h DEF Answer, RefusalIsEarned
  <2>2. LoginHasToken'
    <3>1. reqs'[Me].st = reqs[Me].st \/ (r = Me /\ Open(Me))
      BY <1>6, <1>t DEF Answer, Open, Request
    <3>2. QED
      BY <1>6, <1>h, <3>1, OpenStays DEF Answer, Open
  <2>3. SessionSurvives'
    BY <1>6, <1>h DEF Answer, SessionSurvives
  <2>4. QED
    BY <2>1, <2>2, <2>3
<1>7. ASSUME NEW r \in Requests, Succeed(r)
        PROVE  RefusalIsEarned' /\ LoginHasToken' /\ SessionSurvives'
  <2>1. RefusalIsEarned'
    BY <1>7, <1>h DEF Succeed, RefusalIsEarned
  <2>2. LoginHasToken'
    <3>1. CASE r = Me
      <4>1. reqs'[Me].st = "done"
        BY <1>7, <1>t, <3>1 DEF Succeed, Request
      <4>2. QED
        BY <4>1 DEF LoginHasToken, Open
    <3>2. CASE r # Me
      <4>1. reqs'[Me] = reqs[Me] /\ UNCHANGED <<form, loginToken>>
        BY <1>7, <1>t, <3>2 DEF Succeed
      <4>2. QED
        BY <1>h, <4>1, OpenStays DEF Open
    <3>3. QED
      BY <3>1, <3>2
  <2>3. SessionSurvives'
    <3>1. CASE r = Me
      <4>1. sound' => sound /\ accessToken' # 0
        BY <1>7, <1>h, <3>1, Zenon DEF Succeed, LoginHasToken, Open
      <4>2. QED
        BY <4>1, Zenon DEF SessionSurvives
    <3>2. CASE r # Me
      BY <1>7, <1>h, <3>2, SessionStays DEF Succeed
    <3>3. QED
      BY <3>1, <3>2
  <2>4. QED
    BY <2>1, <2>2, <2>3
<1>8. ASSUME NEW r \in Requests, Queue(r)
        PROVE  RefusalIsEarned' /\ LoginHasToken' /\ SessionSurvives'
  <2>1. RefusalIsEarned'
    BY <1>8, <1>h DEF Queue, RefusalIsEarned
  <2>2. LoginHasToken'
    <3>1. reqs'[Me].st = reqs[Me].st \/ (r = Me /\ Open(Me))
      BY <1>8, <1>t DEF Queue, Open, Request
    <3>2. QED
      BY <1>8, <1>h, <3>1, OpenStays DEF Queue, Open
  <2>3. SessionSurvives'
    BY <1>8, <1>h DEF Queue, SessionSurvives
  <2>4. QED
    BY <2>1, <2>2, <2>3
<1>9. ASSUME NEW r \in Requests, StartRefresh(r)
        PROVE  RefusalIsEarned' /\ LoginHasToken' /\ SessionSurvives'
  <2>1. RefusalIsEarned'
    BY <1>9, <1>h DEF StartRefresh, RefusalIsEarned
  <2>2. LoginHasToken'
    <3>1. reqs'[Me].st = reqs[Me].st \/ (r = Me /\ Open(Me))
      BY <1>9, <1>t DEF StartRefresh, Open, Request
    <3>2. QED
      BY <1>9, <1>h, <3>1, OpenStays DEF StartRefresh, Open
  <2>3. SessionSurvives'
    BY <1>9, <1>h DEF StartRefresh, SessionSurvives
  <2>4. QED
    BY <2>1, <2>2, <2>3
<1>10. ASSUME NEW r \in Requests, Reject(r)
        PROVE  RefusalIsEarned' /\ LoginHasToken' /\ SessionSurvives'
  <2>1. RefusalIsEarned'
    BY <1>10, <1>h DEF Reject, RefusalIsEarned
  <2>2. LoginHasToken'
    <3>1. reqs'[Me].st = reqs[Me].st \/ (r = Me /\ Open(Me))
      BY <1>10, <1>t DEF Reject, Open, Request
    <3>2. QED
      BY <1>10, <1>h, <3>1, OpenStays DEF Reject, Open
  <2>3. SessionSurvives'
    BY <1>10, <1>h DEF Reject, SessionSurvives
  <2>4. QED
    BY <2>1, <2>2, <2>3
<1>11. ASSUME AnswerRefresh
        PROVE  RefusalIsEarned' /\ LoginHasToken' /\ SessionSurvives'
  <2>1. RefusalIsEarned'
    <3>1. cookie' = cookie /\ (sound' = sound \/ sound' = FALSE)
      BY <1>11 DEF AnswerRefresh
    <3>2. \/ refresh'.reply = "granted" /\ refresh'.token # 0
          \/ refresh'.reply = "refused" /\ ~sound'
      <4>1. refresh \in Refresh
        BY <1>0 DEF TypeOK, ClientTypes
      <4>2. CASE refresh' = [refresh EXCEPT !.reply = "granted", !.token = granted + 1]
        BY <1>0, <4>1, <4>2, GrantedIsNotNull DEF Refresh
      <4>3. CASE refresh' = [refresh EXCEPT !.reply = "refused"] /\ ((~cookie /\ sound' = sound) \/ ~sound')
        BY <1>h, <4>1, <4>3 DEF Refresh, RefusalIsEarned
      <4>4. QED
        BY <1>11, <4>2, <4>3, Zenon DEF AnswerRefresh
    <3>3. QED
      BY <1>h, <3>1, <3>2 DEF RefusalIsEarned
  <2>2. LoginHasToken'
    BY <1>11, <1>h DEF AnswerRefresh, LoginHasToken, Open
  <2>3. SessionSurvives'
    BY <1>11, <1>h DEF AnswerRefresh, SessionSurvives
  <2>4. QED
    BY <2>1, <2>2, <2>3
<1>12. ASSUME Refreshed
        PROVE  RefusalIsEarned' /\ LoginHasToken' /\ SessionSurvives'
  <2>1. RefusalIsEarned'
    BY <1>12, <1>h, NothingIsTyped DEF Refreshed, RefusalIsEarned
  <2>2. LoginHasToken'
    <3>1. Open(Me)' => Open(Me)
      <4>1. CASE InQueue(Me) \/ Me = refresh.by
        BY <1>h, <1>t, <4>1 DEF IInv, WaitersAreKnown, Open
      <4>2. CASE ~(InQueue(Me) \/ Me = refresh.by)
        BY <1>12, <1>t, <4>2 DEF Refreshed, Open
      <4>3. QED
        BY <4>1, <4>2
    <3>2. QED
      BY <1>12, <1>h, <3>1, OpenStays DEF Refreshed
  <2>3. SessionSurvives'
    <3>1. refresh.token \in Token /\ refresh.token # 0 /\ UseAuth(route, refresh.token)
      BY <1>0, <1>12, <1>h DEF Refreshed, RefusalIsEarned, TypeOK, ClientTypes, Refresh
    <3>2. accessToken' # 0 \/ timedOut'
      BY <1>0, <3>1, AuthIsTyped
    <3>3. QED
      BY <3>2 DEF SessionSurvives
  <2>4. QED
    BY <2>1, <2>2, <2>3
<1>13. ASSUME RefreshFailed
        PROVE  RefusalIsEarned' /\ LoginHasToken' /\ SessionSurvives'
  <2>1. RefusalIsEarned'
    BY <1>13, <1>h, NothingIsTyped DEF RefreshFailed, RefusalIsEarned
  <2>2. LoginHasToken'
    <3>1. Open(Me)' => Open(Me)
      <4>1. CASE InQueue(Me) \/ Me = refresh.by
        BY <1>h, <1>t, <4>1 DEF IInv, WaitersAreKnown, Open
      <4>2. CASE ~(InQueue(Me) \/ Me = refresh.by)
        BY <1>13, <1>t, <4>2 DEF RefreshFailed, Open
      <4>3. QED
        BY <4>1, <4>2
    <3>2. QED
      BY <1>13, <1>h, <3>1, OpenStays DEF RefreshFailed
  <2>3. SessionSurvives'
    BY <1>13, <1>h DEF RefreshFailed, SessionSurvives, RefusalIsEarned
  <2>4. QED
    BY <2>1, <2>2, <2>3
<1>14. ASSUME HandleSubmit
        PROVE  RefusalIsEarned' /\ LoginHasToken' /\ SessionSurvives'
  <2>1. RefusalIsEarned'
    <3>1. sound' = sound /\ refresh' = refresh /\ (cookie' = cookie \/ cookie' = TRUE)
      BY <1>14 DEF HandleSubmit, LoginAndGetAccessToken, RegisterAndGetAccessToken
    <3>2. QED
      BY <1>h, <3>1 DEF RefusalIsEarned
  <2>2. LoginHasToken'
    <3>1. CASE LoginAndGetAccessToken
      BY <1>0, <3>1, GrantedIsNotNull DEF LoginAndGetAccessToken, LoginHasToken
    <3>2. CASE RegisterAndGetAccessToken
      BY <3>2 DEF RegisterAndGetAccessToken, LoginHasToken
    <3>3. QED
      BY <1>14, <3>1, <3>2 DEF HandleSubmit
  <2>3. SessionSurvives'
    BY <1>14, <1>h, SessionStays DEF HandleSubmit
  <2>4. QED
    BY <2>1, <2>2, <2>3
<1>15. ASSUME HandleGoogleSuccess
        PROVE  RefusalIsEarned' /\ LoginHasToken' /\ SessionSurvives'
  <2>1. RefusalIsEarned'
    BY <1>15, <1>h DEF HandleGoogleSuccess, RefusalIsEarned
  <2>2. LoginHasToken'
    BY <1>15, <1>h DEF HandleGoogleSuccess, LoginHasToken, Open
  <2>3. SessionSurvives'
    BY <1>15, <1>0, GrantedIsNotNull DEF HandleGoogleSuccess, SessionSurvives
  <2>4. QED
    BY <2>1, <2>2, <2>3
<1>16. ASSUME LoginFails
        PROVE  RefusalIsEarned' /\ LoginHasToken' /\ SessionSurvives'
  <2>1. RefusalIsEarned'
    BY <1>16, <1>h DEF LoginFails, RefusalIsEarned
  <2>2. LoginHasToken'
    BY <1>16 DEF LoginFails, LoginHasToken, Open
  <2>3. SessionSurvives'
    BY <1>16, <1>h DEF LoginFails, SessionSurvives
  <2>4. QED
    BY <2>1, <2>2, <2>3
<1>17. ASSUME Logout
        PROVE  RefusalIsEarned' /\ LoginHasToken' /\ SessionSurvives'
  <2>1. RefusalIsEarned'
    BY <1>17, <1>h DEF Logout, RefusalIsEarned
  <2>2. LoginHasToken'
    BY <1>17, <1>h DEF Logout, LoginHasToken, Open
  <2>3. SessionSurvives'
    BY <1>17, Zenon DEF Logout, SessionSurvives
  <2>4. QED
    BY <2>1, <2>2, <2>3
<1>18. ASSUME LogoutAnswered
        PROVE  RefusalIsEarned' /\ LoginHasToken' /\ SessionSurvives'
  <2>1. RefusalIsEarned'
    BY <1>18, <1>h, Zenon DEF LogoutAnswered, RefusalIsEarned
  <2>2. LoginHasToken'
    BY <1>18, <1>h DEF LogoutAnswered, LoginHasToken, Open
  <2>3. SessionSurvives'
    BY <1>18, <1>h, Zenon DEF LogoutAnswered, SessionSurvives
  <2>4. QED
    BY <2>1, <2>2, <2>3
<1>19. ASSUME Expire
        PROVE  RefusalIsEarned' /\ LoginHasToken' /\ SessionSurvives'
  <2>1. RefusalIsEarned'
    BY <1>19, <1>h DEF Expire, RefusalIsEarned
  <2>2. LoginHasToken'
    BY <1>19, <1>h DEF Expire, LoginHasToken, Open
  <2>3. SessionSurvives'
    BY <1>19, <1>h DEF Expire, SessionSurvives
  <2>4. QED
    BY <2>1, <2>2, <2>3
<1>20. CASE Unload
  <2>1. leaving \in Paths
    BY <1>0, <1>20 DEF Unload, TypeOK, PageTypes, Paths
  <2>2. QED
    BY <1>4, <1>20, <2>1 DEF Unload
<1>21. CASE Reload
  BY <1>4, <1>21 DEF Reload
<1>22. ASSUME AnswerRegistration
        PROVE  RefusalIsEarned' /\ LoginHasToken' /\ SessionSurvives'
  <2>1. RefusalIsEarned'
    <3>1. sound' = sound /\ refresh' = refresh /\ (cookie' = cookie \/ cookie' = TRUE)
      BY <1>22 DEF AnswerRegistration
    <3>2. QED
      BY <1>h, <3>1 DEF RefusalIsEarned
  <2>2. LoginHasToken'
    <3>1. form' = "register"
      BY <1>22 DEF AnswerRegistration, Registers
    <3>2. QED
      BY <3>1 DEF LoginHasToken
  <2>3. SessionSurvives'
    BY <1>22, <1>h, SessionStays DEF AnswerRegistration
  <2>4. QED
    BY <2>1, <2>2, <2>3
<1>23. ASSUME NEW path \in Paths, FollowLink(path)
        PROVE  RefusalIsEarned' /\ LoginHasToken' /\ SessionSurvives'
  <2>1. RefusalIsEarned'
    BY <1>23, <1>h DEF FollowLink, RefusalIsEarned
  <2>2. LoginHasToken'
    BY <1>23, <1>h, OpenStays DEF FollowLink, Open
  <2>3. SessionSurvives'
    <3>1. accessToken \in Token /\ UseAuth(path, accessToken)
      BY <1>0, <1>23 DEF FollowLink, TypeOK, StoreTypes
    <3>2. timedOut' = TRUE \/ (accessToken' = accessToken /\ timedOut' = timedOut)
      BY <1>0, <3>1, AuthIsTyped
    <3>3. QED
      BY <1>23, <1>h, <3>2 DEF FollowLink, SessionSurvives
  <2>4. QED
    BY <2>1, <2>2, <2>3
<1>24. CASE UNCHANGED vars
  BY <1>24, <1>h DEF vars, RefusalIsEarned, LoginHasToken, Open, SessionSurvives
<1>25. QED
  BY <1>1, <1>2, <1>3, <1>5, <1>6, <1>7, <1>8, <1>9, <1>10, <1>11, <1>12, <1>13,
     <1>14, <1>15, <1>16, <1>17, <1>18, <1>19, <1>20, <1>21, <1>22, <1>23, <1>24
  DEF Next, LoadStep, Interceptor

\* A page that was loaded with a valid cookie stays signed in until the user
\* signs out, the cookie goes or the service fails: expired tokens, refreshes
\* and logins in between do not end the session.
THEOREM SessionLasts == Spec => []SessionSurvives
<1>1. Init => SessionInv
  <2> SUFFICES ASSUME Init PROVE SessionInv
    OBVIOUS
  <2>1. reqs[Me].st = "idle" /\ refresh.reply = "none"
    BY NothingIsTyped DEF Init
  <2>2. phase = "bootstrap" /\ sound = cookie
    BY Zenon DEF Init
  <2>3. QED
    BY <2>1, <2>2, InitIsIdle
    DEF SessionInv, RefusalIsEarned, LoginHasToken, Open, SessionSurvives
<1>2. SessionInv => SessionSurvives
  BY DEF SessionInv
<1>3. QED
  BY <1>1, <1>2, StepKeepsSession, PTL DEF Spec
=============================================================================
