----------------------------- MODULE RestClient -----------------------------
(***************************************************************************)
(* The signed-in state of a page and its REST client: the token in the     *)
(* store, the response interceptor of axiosClient that refreshes it, how a *)
(* page load restores the session, the login form, signing out, and the    *)
(* way between the chat and the administration, whose guard looks at the   *)
(* token.                                                                  *)
(*                                                                         *)
(* The identity service is abstract: it accepts a set of access tokens,    *)
(* which it may stop accepting at any time, and grants new ones as long as *)
(* the refresh cookie is valid.  Tokens are numbered as they are granted   *)
(* since the page was loaded, which keeps none of the earlier ones; 0 is   *)
(* null.  The page can tell that a token has run out by its exp, and       *)
(* cannot tell that one was revoked.                                       *)
(***************************************************************************)
EXTENDS Naturals, Sequences, FiniteSets, SequencesExt

CONSTANTS
    Requests,   \* requests through axiosClient
    Me,         \* the one among them that the login form sends
    None,       \* no request
    MaxTokens,  \* access tokens granted to a page
    MaxFaults,  \* tokens expired, answers lost by the network
    MaxLoads    \* page loads

ASSUME RequestAssumption == Me \in Requests /\ None \notin Requests
ASSUME FiniteAssumption == IsFiniteSet(Requests)
ASSUME BoundAssumption == MaxTokens \in Nat /\ MaxFaults \in Nat /\ MaxLoads \in Nat \ {0}

VARIABLES
    accessToken,  \* of the store
    user,         \* the store knows the user
    phase,        \* what the page load waits for, "ready" afterwards
    route,        \* the path of the page
    leaving,      \* the path assigned to window.location, or None
    reqs,         \* the requests
    isRefreshing,
    failedQueue,
    refresh,      \* refreshAccessToken: who awaits it, and the reply
    form,         \* what the login form waits for
    loginToken,   \* token of a login or registration that is not stored yet
    admin,        \* the tokens of the user have the role of administrators
    accepted,     \* tokens the service accepts
    granted,      \* tokens granted so far
    expired,      \* the exp of the tokens up to this one has passed
    cookie,       \* the refresh cookie is valid
    logoutCall,   \* a sign-out is on its way to the service
    refreshes,    \* refreshes of this load (history)
    sound,        \* nothing since the load ends the session (history)
    timedOut,     \* the page of this load has seen its token run out (history)
    loads, faults

storeVars  == <<accessToken, user>>
pageVars   == <<phase, route, leaving, form, loginToken>>
clientVars == <<reqs, isRefreshing, failedQueue, refresh, refreshes>>
serverVars == <<admin, accepted, granted, expired, cookie, logoutCall>>
histVars   == <<sound, timedOut>>
bounds     == <<loads, faults>>
vars == <<storeVars, pageVars, clientVars, serverVars, histVars, bounds>>

Token == 0..MaxTokens
Paths == {"/", "/auth", "/admin"}

\* A request on its way, with the answer of the server, queued for a refresh,
\* waiting for the refresh it has started, or settled.  It is fresh if it was
\* sent with a later token than the time before (history).
Request == [st : {"idle", "sent", "ok", "denied", "queued", "waiting", "done", "failed"},
            bearer : Token, fresh : BOOLEAN,
            retry : BOOLEAN,
            why : {"", "denied", "refresh", "network"}]

NewRequest == [st |-> "idle", bearer |-> 0, fresh |-> FALSE, retry |-> FALSE, why |-> ""]
NoRefresh  == [by |-> None, reply |-> "none", token |-> 0]

Init ==
    /\ accessToken = 0 /\ user = FALSE
    /\ phase = "bootstrap" /\ route \in Paths /\ leaving = "stay"
    /\ reqs = [r \in Requests |-> NewRequest]
    /\ isRefreshing = FALSE /\ failedQueue = <<>> /\ refresh = NoRefresh
    /\ form = "idle" /\ loginToken = 0
    /\ admin \in BOOLEAN /\ cookie \in BOOLEAN
    /\ accepted = {} /\ granted = 0 /\ expired = 0 /\ logoutCall = FALSE
    /\ refreshes = 0 /\ sound = cookie /\ timedOut = FALSE
    /\ loads = 1 /\ faults = 0

-----------------------------------------------------------------------------
\* The service grants a token to the holder of the cookie.
Grant ==
    /\ granted < MaxTokens
    /\ granted' = granted + 1
    /\ accepted' = accepted \cup {granted + 1}

Fault == faults < MaxFaults /\ faults' = faults + 1

\* bootstrapAuth: refresh, with plain axios ...
BootRefresh ==
    /\ phase = "bootstrap"
    /\ \/ /\ cookie /\ Grant
          /\ accessToken' = granted + 1
          /\ phase' = "bootstrap-me"
          /\ UNCHANGED <<sound, faults>>
       \/ /\ ~cookie
          /\ accessToken' = 0
          /\ phase' = "initialize"
          /\ UNCHANGED <<accepted, granted, sound, faults>>
       \/ /\ Fault
          /\ accessToken' = 0
          /\ phase' = "initialize"
          /\ sound' = FALSE
          /\ UNCHANGED <<accepted, granted>>
    /\ UNCHANGED <<user, route, leaving, form, loginToken, clientVars, admin, expired,
                   cookie, logoutCall, timedOut, loads>>

\* ... then the user's data, with a client that does not refresh.
BootMe ==
    /\ phase = "bootstrap-me"
    /\ phase' = "initialize"
    /\ IF accessToken \in accepted
         THEN user' = TRUE /\ UNCHANGED accessToken
         ELSE accessToken' = 0 /\ UNCHANGED user
    /\ UNCHANGED <<route, leaving, form, loginToken, clientVars, serverVars, histVars, bounds>>

\* Faulty: the token becomes undefined instead of null.
SignOutUndefined ==
    /\ accessToken' = None /\ user' = FALSE
    /\ logoutCall' = TRUE

\* logout of the store.
SignOut ==
    /\ accessToken' = 0 /\ user' = FALSE
    /\ logoutCall' = TRUE

\* Faulty: a page that was bootstrapped is not initialised.
InitializeTrustsBootstrap ==
    /\ phase = "initialize"
    /\ phase' = "ready"
    /\ UNCHANGED <<storeVars, route, leaving, form, loginToken, clientVars, serverVars,
                   histVars, bounds>>

\* AdminGuard sends those away who are not signed in, and those who are no
\* administrators.
AdminGuard(path, token) ==
    IF path # "/admin" \/ (token # 0 /\ admin) THEN path
    ELSE IF token = 0 THEN "/auth" ELSE "/"

\* AuthInitializer refreshes once more; the reply may carry the user.  The page
\* appears.
Initialize ==
    /\ phase = "initialize"
    /\ phase' = "ready"
    /\ \/ /\ cookie /\ Grant
          /\ accessToken' = granted + 1
          /\ user' \in {user, TRUE}
          /\ UNCHANGED <<logoutCall, sound, faults>>
       \/ /\ ~cookie /\ SignOut
          /\ UNCHANGED <<accepted, granted, sound, faults>>
       \/ /\ Fault /\ SignOut
          /\ sound' = FALSE
          /\ UNCHANGED <<accepted, granted>>
    /\ route' = AdminGuard(route, accessToken')
    /\ UNCHANGED <<leaving, form, loginToken, clientVars, admin, expired, cookie, timedOut, loads>>

\* Without a token the browser is sent to "/authfd", which no route but "*"
\* matches, and that sends it back.
PrivateRoute == IF accessToken = 0 THEN "redirecting" ELSE "chat"

\* What App shows.
Screen ==
    IF phase # "ready" THEN "loading"
    ELSE CASE route = "/auth"  -> "login"
           [] route = "/admin" -> "admin"
           [] route = "/"      -> PrivateRoute

\* A new page: what the old one kept in memory is gone.
Load(path) ==
    /\ loads < MaxLoads
    /\ loads' = loads + 1
    /\ route' = path /\ leaving' = "stay" /\ phase' = "bootstrap"
    /\ accessToken' = 0 /\ user' = FALSE
    /\ form' = "idle" /\ loginToken' = 0
    /\ reqs' = [r \in Requests |-> NewRequest]
    /\ isRefreshing' = FALSE /\ failedQueue' = <<>> /\ refresh' = NoRefresh
    /\ accepted' = {} /\ granted' = 0 /\ expired' = 0
    /\ refreshes' = 0 /\ sound' = cookie /\ timedOut' = FALSE
    /\ UNCHANGED <<admin, cookie, logoutCall, faults>>

Unload == leaving # "stay" /\ Load(leaving)

\* The user reloads the page or enters an address.
Reload == \E path \in Paths : phase = "ready" /\ Load(path)

\* useAuth, in the chat and in the guard of the administration: when they are
\* mounted or the token changes, one that has run out signs the user out.
UseAuth(path, token) ==
    IF path # "/auth" /\ token \in 1..expired
      THEN SignOut /\ timedOut' = TRUE
      ELSE accessToken' = token /\ UNCHANGED <<user, logoutCall, timedOut>>

\* The link to the administration, which the chat shows to administrators, and
\* the link back.
FollowLink(path) ==
    /\ \/ Screen = "chat" /\ admin /\ path = "/admin"
       \/ Screen = "admin" /\ path = "/"
    /\ UseAuth(path, accessToken)
    /\ route' = AdminGuard(path, accessToken')
    /\ UNCHANGED <<phase, leaving, form, loginToken, clientVars, admin, accepted, granted,
                   expired, cookie, sound, bounds>>

-----------------------------------------------------------------------------
\* axiosClient(config): the interceptor takes the token of the store.
Sent(r, token) == [reqs[r] EXCEPT !.st = "sent", !.bearer = token, !.fresh = token > reqs[r].bearer]

Issue(r) ==
    /\ Screen = "chat" /\ r # Me
    /\ reqs[r].st = "idle"
    /\ reqs' = [reqs EXCEPT ![r] = Sent(r, accessToken)]
    /\ UNCHANGED <<storeVars, pageVars, isRefreshing, failedQueue, refresh, refreshes,
                   serverVars, histVars, bounds>>

Registers(r) == r = Me /\ form = "register"

\* The server answers by the token; a lost answer rejects the request.
Answer(r) ==
    /\ reqs[r].st = "sent"
    /\ \/ /\ ~Registers(r)
          /\ reqs' = [reqs EXCEPT ![r].st = IF reqs[r].bearer \in accepted THEN "ok" ELSE "denied"]
          /\ UNCHANGED faults
       \/ Fault /\ reqs' = [reqs EXCEPT ![r].st = "failed", ![r].why = "network"]
    /\ UNCHANGED <<storeVars, pageVars, isRefreshing, failedQueue, refresh, refreshes,
                   serverVars, histVars, loads>>

\* A registration needs no token, but a bad one is refused; the reply carries a
\* token, as a rule.
AnswerRegistration ==
    /\ reqs[Me].st = "sent" /\ Registers(Me)
    /\ \/ /\ reqs' = [reqs EXCEPT ![Me].st = "ok"]
          /\ Grant /\ cookie' = TRUE
          /\ loginToken' = granted + 1
       \/ /\ reqs' = [reqs EXCEPT ![Me].st = "ok"]
          /\ UNCHANGED <<accepted, granted, cookie, loginToken>>
       \/ /\ reqs[Me].bearer \notin accepted \cup {0}
          /\ reqs' = [reqs EXCEPT ![Me].st = "denied"]
          /\ UNCHANGED <<accepted, granted, cookie, loginToken>>
    /\ UNCHANGED <<storeVars, phase, route, leaving, form, isRefreshing, failedQueue, refresh,
                   refreshes, admin, expired, logoutCall, histVars, bounds>>

\* The answer arrives; the form then stores its token, or null, and leaves.
Succeed(r) ==
    /\ reqs[r].st = "ok"
    /\ reqs' = [reqs EXCEPT ![r].st = "done"]
    /\ IF r = Me
         THEN /\ accessToken' = loginToken /\ user' = (user \/ form = "login")
              /\ loginToken' = 0 /\ form' = "idle" /\ leaving' = "/"
              /\ sound' = (sound /\ (form = "login" \/ loginToken # 0))
         ELSE UNCHANGED <<storeVars, loginToken, form, leaving, sound>>
    /\ UNCHANGED <<phase, route, isRefreshing, failedQueue, refresh, refreshes,
                   serverVars, timedOut, bounds>>

\* The response interceptor at a 401: queue while a refresh is under way ...
Queue(r) ==
    /\ reqs[r].st = "denied" /\ ~reqs[r].retry /\ isRefreshing
    /\ reqs' = [reqs EXCEPT ![r].st = "queued"]
    /\ failedQueue' = Append(failedQueue, r)
    /\ UNCHANGED <<storeVars, pageVars, isRefreshing, refresh, refreshes, serverVars, histVars, bounds>>

\* Faulty: the request is not marked as retried.
StartRefreshUnmarked(r) ==
    /\ reqs[r].st = "denied" /\ ~reqs[r].retry /\ ~isRefreshing
    /\ reqs' = [reqs EXCEPT ![r].st = "waiting"]
    /\ isRefreshing' = TRUE
    /\ refresh' = [by |-> r, reply |-> "awaited", token |-> 0]
    /\ refreshes' = refreshes + 1
    /\ UNCHANGED <<storeVars, pageVars, failedQueue, serverVars, histVars, bounds>>

\* ... start one ...
StartRefresh(r) ==
    /\ reqs[r].st = "denied" /\ ~reqs[r].retry /\ ~isRefreshing
    /\ reqs' = [reqs EXCEPT ![r].st = "waiting", ![r].retry = TRUE]
    /\ isRefreshing' = TRUE
    /\ refresh' = [by |-> r, reply |-> "awaited", token |-> 0]
    /\ refreshes' = refreshes + 1
    /\ UNCHANGED <<storeVars, pageVars, failedQueue, serverVars, histVars, bounds>>

\* ... or give up.
Reject(r) ==
    /\ reqs[r].st = "denied" /\ reqs[r].retry
    /\ reqs' = [reqs EXCEPT ![r].st = "failed", ![r].why = "denied"]
    /\ UNCHANGED <<storeVars, pageVars, isRefreshing, failedQueue, refresh, refreshes,
                   serverVars, histVars, bounds>>

AnswerRefresh ==
    /\ refresh.reply = "awaited"
    /\ \/ /\ cookie /\ Grant
          /\ refresh' = [refresh EXCEPT !.reply = "granted", !.token = granted + 1]
          /\ UNCHANGED <<sound, faults>>
       \/ /\ ~cookie
          /\ refresh' = [refresh EXCEPT !.reply = "refused"]
          /\ UNCHANGED <<accepted, granted, sound, faults>>
       \/ /\ Fault
          /\ refresh' = [refresh EXCEPT !.reply = "refused"]
          /\ sound' = FALSE
          /\ UNCHANGED <<accepted, granted>>
    /\ UNCHANGED <<storeVars, pageVars, reqs, isRefreshing, failedQueue, refreshes,
                   admin, expired, cookie, logoutCall, timedOut, loads>>

InQueue(r) == r \in ToSet(failedQueue)

\* Faulty: only the request that started the refresh goes again.
RefreshedForgetsQueue ==
    /\ refresh.reply = "granted"
    /\ UseAuth(route, refresh.token)
    /\ route' = AdminGuard(route, accessToken')
    /\ reqs' = [reqs EXCEPT ![refresh.by] = Sent(refresh.by, refresh.token)]
    /\ isRefreshing' = FALSE /\ refresh' = NoRefresh
    /\ UNCHANGED <<phase, leaving, form, loginToken, failedQueue, refreshes, admin, accepted,
                   granted, expired, cookie, sound, bounds>>

\* Faulty: the requests go again as they went before.
RefreshedKeepsHeaders ==
    /\ refresh.reply = "granted"
    /\ UseAuth(route, refresh.token)
    /\ route' = AdminGuard(route, accessToken')
    /\ reqs' = [r \in Requests |-> IF InQueue(r) \/ r = refresh.by
                                     THEN Sent(r, reqs[r].bearer) ELSE reqs[r]]
    /\ failedQueue' = <<>>
    /\ isRefreshing' = FALSE /\ refresh' = NoRefresh
    /\ UNCHANGED <<phase, leaving, form, loginToken, refreshes, admin, accepted, granted,
                   expired, cookie, sound, bounds>>

\* The refresh succeeds: the queue and the request that started it go again.
Refreshed ==
    /\ refresh.reply = "granted"
    /\ UseAuth(route, refresh.token)
    /\ route' = AdminGuard(route, accessToken')
    /\ reqs' = [r \in Requests |-> IF InQueue(r) \/ r = refresh.by
                                     THEN Sent(r, refresh.token) ELSE reqs[r]]
    /\ failedQueue' = <<>>
    /\ isRefreshing' = FALSE /\ refresh' = NoRefresh
    /\ UNCHANGED <<phase, leaving, form, loginToken, refreshes, admin, accepted, granted,
                   expired, cookie, sound, bounds>>

\* It fails: all of them are rejected and the page leaves for "/auth".
RefreshFailed ==
    /\ refresh.reply = "refused"
    /\ accessToken' = 0
    /\ reqs' = [r \in Requests |-> IF InQueue(r) \/ r = refresh.by
                                     THEN [reqs[r] EXCEPT !.st = "failed", !.why = "refresh"]
                                     ELSE reqs[r]]
    /\ failedQueue' = <<>>
    /\ isRefreshing' = FALSE /\ refresh' = NoRefresh
    /\ leaving' = "/auth" /\ route' = AdminGuard(route, 0)
    /\ UNCHANGED <<user, phase, form, loginToken, refreshes, serverVars, histVars, bounds>>

-----------------------------------------------------------------------------
\* The login form; one submission per load.
MaySubmit ==
    /\ Screen = "login" /\ leaving = "stay" /\ form = "idle"
    /\ reqs[Me].st = "idle"

\* With a password, the user's data are asked for before the token is stored.
LoginAndGetAccessToken ==
    /\ form' = "login"
    /\ Grant /\ cookie' = TRUE
    /\ loginToken' = granted + 1

\* A registration goes through the interceptor like any request.
RegisterAndGetAccessToken ==
    /\ form' = "register"
    /\ UNCHANGED <<accepted, granted, cookie, loginToken>>

HandleSubmit ==
    /\ MaySubmit
    /\ LoginAndGetAccessToken \/ RegisterAndGetAccessToken
    /\ reqs' = [reqs EXCEPT ![Me] = Sent(Me, accessToken)]
    /\ UNCHANGED <<storeVars, phase, route, leaving, isRefreshing, failedQueue, refresh,
                   refreshes, admin, expired, logoutCall, histVars, bounds>>

HandleGoogleSuccess ==
    /\ MaySubmit
    /\ Grant /\ cookie' = TRUE
    /\ accessToken' = granted + 1 /\ user' \in {user, TRUE}
    /\ leaving' = "/"
    /\ UNCHANGED <<phase, route, form, loginToken, clientVars, admin, expired, logoutCall,
                   histVars, bounds>>

\* The form shows an error.
LoginFails ==
    /\ form # "idle" /\ reqs[Me].st = "failed"
    /\ form' = "idle" /\ loginToken' = 0
    /\ UNCHANGED <<storeVars, phase, route, leaving, clientVars, serverVars, histVars, bounds>>

\* handleLogout of MessengerPage.
Logout ==
    /\ Screen = "chat"
    /\ SignOut
    /\ sound' = FALSE
    /\ UNCHANGED <<pageVars, clientVars, admin, accepted, granted, expired, cookie, timedOut,
                   bounds>>

\* The sign-out deletes the cookie, or does not get there.
LogoutAnswered ==
    /\ logoutCall
    /\ logoutCall' = FALSE
    /\ cookie' \in {cookie, FALSE}
    /\ sound' = (sound /\ cookie')
    /\ UNCHANGED <<storeVars, pageVars, clientVars, admin, accepted, granted, expired, timedOut,
                   bounds>>

\* Tokens run out or are revoked.
Expire ==
    /\ accepted # {} /\ Fault
    /\ accepted' = {}
    /\ expired' \in {expired, granted}
    /\ UNCHANGED <<storeVars, pageVars, clientVars, admin, granted, cookie, logoutCall, histVars,
                   loads>>

-----------------------------------------------------------------------------
Interceptor(r) == Queue(r) \/ StartRefresh(r) \/ Reject(r)

LoadStep == BootRefresh \/ BootMe \/ Initialize

Next ==
    \/ LoadStep
    \/ Unload
    \/ Reload
    \/ \E path \in Paths : FollowLink(path)
    \/ \E r \in Requests : Issue(r) \/ Answer(r) \/ Succeed(r) \/ Interceptor(r)
    \/ AnswerRegistration
    \/ AnswerRefresh
    \/ Refreshed
    \/ RefreshFailed
    \/ HandleSubmit
    \/ HandleGoogleSuccess
    \/ LoginFails
    \/ Logout
    \/ LogoutAnswered
    \/ Expire

Spec == Init /\ [][Next]_vars

\* The server answers and promises run; nobody has to click.
FairSpec ==
    /\ Spec
    /\ \A r \in Requests : WF_vars(Answer(r)) /\ WF_vars(Succeed(r)) /\ WF_vars(Interceptor(r))
    /\ WF_vars(AnswerRegistration) /\ WF_vars(AnswerRefresh) /\ WF_vars(Refreshed) /\ WF_vars(RefreshFailed)

-----------------------------------------------------------------------------
\* The variables have the values the client and the pages give them.
StoreTypes == accessToken \in Token /\ user \in BOOLEAN

PageTypes ==
    /\ phase \in {"bootstrap", "bootstrap-me", "initialize", "ready"}
    /\ route \in Paths /\ leaving \in {"stay", "/", "/auth"}
    /\ form \in {"idle", "login", "register"} /\ loginToken \in Token

Refresh == [by : Requests \cup {None},
            reply : {"none", "awaited", "granted", "refused"}, token : Token]

ClientTypes ==
    /\ reqs \in [Requests -> Request]
    /\ isRefreshing \in BOOLEAN
    /\ failedQueue \in Seq(Requests)
    /\ refresh \in Refresh /\ refreshes \in Nat

ServerTypes ==
    /\ admin \in BOOLEAN
    /\ accepted \subseteq Token \ {0} /\ granted \in Token /\ expired \in Token
    /\ cookie \in BOOLEAN /\ logoutCall \in BOOLEAN

BoundTypes ==
    /\ sound \in BOOLEAN /\ timedOut \in BOOLEAN
    /\ loads \in 1..MaxLoads /\ faults \in 0..MaxFaults

TypeOK == StoreTypes /\ PageTypes /\ ClientTypes /\ ServerTypes /\ BoundTypes

\* Who waits, waits for something: requests queue, each of them once, only
\* while the refresh is under way that will release them, and that is awaited
\* by one request (isRefreshing, failedQueue and processQueue of axiosClient).
WaitersAreKnown ==
    /\ isRefreshing <=> refresh.by # None
    /\ failedQueue # <<>> => isRefreshing
    /\ \A r \in Requests : reqs[r].st = "queued" <=> InQueue(r)
    /\ \A r \in Requests : reqs[r].st = "waiting" <=> r = refresh.by

\* And nobody waits there twice, so that processQueue settles each promise once.
NobodyWaitsForNothing ==
    WaitersAreKnown /\ Len(failedQueue) = Cardinality(ToSet(failedQueue))

\* The inductive invariant behind it: the refresh under way belongs to
\* somebody, and no place of the queue repeats another.
RefreshIsOwned == refresh.reply = "none" <=> refresh.by = None

QueuedOnce ==
    \A i, j \in DOMAIN failedQueue : failedQueue[i] = failedQueue[j] => i = j

IInv == TypeOK /\ WaitersAreKnown /\ RefreshIsOwned /\ QueuedOnce

\* A request starts at most one refresh, so requests the server keeps denying
\* do not refresh for ever, although those from the queue are not marked.
RefreshesAreBounded == refreshes <= Cardinality({r \in Requests : reqs[r].retry})

\* No component sees a 401 unless the request was refused twice: after the
\* first refusal it was sent again with a token of a later refresh, its own or
\* the one it queued for, and that was refused too (interceptor of axiosClient).
DeniedOnlyWithFreshToken ==
    \A r \in Requests : reqs[r].why = "denied" =>
        reqs[r].retry /\ reqs[r].fresh

\* A page that was loaded with a valid cookie is signed in until the user signs
\* out, the cookie is deleted, the service fails, or the page itself finds that
\* its token has run out while it opens the administration, comes back from it
\* or takes a late refresh (useAuth).  Short of that an expired or revoked token
\* costs the session nothing, between the steps of the load and between refreshes.
SessionSurvives == phase = "ready" /\ sound => accessToken # 0 \/ timedOut

\* Whatever requests are open, there comes a time when none is, or the page is
\* left: no promise of the interceptor stays open, whatever refreshes and denials
\* come in between.
Open(r) == reqs[r].st \in {"sent", "ok", "denied", "queued", "waiting"}
EveryRequestSettles == (\E r \in Requests : Open(r)) ~> (\A r \in Requests : ~Open(r))
=============================================================================
