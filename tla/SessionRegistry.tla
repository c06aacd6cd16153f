-------------------------- MODULE SessionRegistry --------------------------
(***************************************************************************)
(* The registry of live WebSocket sessions and the two parties that change *)
(* it: the container's connect and close callbacks, one thread per         *)
(* session, and the administrator's "lock account" request.                *)
(*                                                                         *)
(* The registry is a ConcurrentHashMap from users to CopyOnWriteArraySets. *)
(* Each call on the map or on a set is atomic, a method that makes several *)
(* of them is not, so every call is an action of its own and the thread's  *)
(* program counter remembers how far it came.  Set objects have identity:  *)
(* a thread may hold a set that the map has dropped meanwhile.  A set is   *)
(* named by the session whose add() created it, as each add creates at     *)
(* most one.                                                               *)
(***************************************************************************)
CONSTANTS
    Users,      \* user ids
    Sessions,   \* WebSocketSession objects; each is connected at most once
    OwnerOf,    \* the user whose token opened the session
    Admins,     \* request threads of AdminUserServiceImpl.toggleLock
    None        \* Java's null

ASSUME OwnerAssumption == OwnerOf \in [Sessions -> Users]
ASSUME NoneAssumption  == None \notin Sessions

VARIABLES
    registry,   \* WsSessionRegistry.sessions: user -> set object or None
    members,    \* contents of each set object
    home,       \* the set object computeIfAbsent returned to the session
    ref,        \* the set object get returned to the session's remove()
    pc,         \* where the session's callback thread stands
    sock,       \* the socket under the session
    enabled,    \* users.enabled as committed in the database
    adm         \* toggleLock requests in progress

threadVars == <<home, ref, pc, sock>>
vars == <<registry, members, home, ref, pc, sock, enabled, adm>>

SetRef == Sessions \union {None}

\* Before its AddCompute a session has no set.
Unadded == {"new", "refused", "upgraded"}
\* Its close callback has started.
Closing == {"removing", "checking", "dropping", "gone"}

\* A toggleLock request: its local variables, and the sessions that the
\* loop of disconnectUser set out to close.
Request ==
    [pc     : {"idle", "get", "check", "iterate", "close", "commit"},
     target : Users,
     locked : BOOLEAN,      \* the argument
     was    : BOOLEAN,      \* enabled, as read
     set    : SetRef,       \* userSessions
     seen   : SUBSET Sessions,
     todo   : SUBSET Sessions]

Idle(a) == adm[a].pc = "idle"

\* A request thread between two requests.
Rest(request) ==
    [request EXCEPT !.pc = "idle", !.locked = FALSE, !.was = TRUE,
                    !.set = None, !.seen = {}, !.todo = {}]

\* Types, and no thread holds null where it is about to call a set.
TypeOK ==
    /\ registry \in [Users -> SetRef]
    /\ members \in [Sessions -> SUBSET Sessions]
    /\ home \in [Sessions -> SetRef]
    /\ ref \in [Sessions -> SetRef]
    /\ pc \in [Sessions -> Unadded \union {"adding", "open"} \union Closing]
    /\ sock \in [Sessions -> {"none", "open", "closed"}]
    /\ enabled \in [Users -> BOOLEAN]
    /\ adm \in [Admins -> Request]
    \* no call on a set that is null
    /\ \A s \in Sessions :
         /\ pc[s] = "adding" => home[s] # None
         /\ pc[s] \in {"removing", "checking"} => ref[s] # None
    /\ \A a \in Admins : adm[a].pc \in {"check", "iterate"} => adm[a].set # None

Init ==
    /\ registry = [u \in Users |-> None]
    /\ members = [k \in Sessions |-> {}]
    /\ home = [s \in Sessions |-> None]
    /\ ref = [s \in Sessions |-> None]
    /\ pc = [s \in Sessions |-> "new"]
    /\ sock = [s \in Sessions |-> "none"]
    /\ enabled = [u \in Users |-> TRUE]
    /\ adm \in [Admins -> {Rest(request) : request \in Request}]

-----------------------------------------------------------------------------
(* The session's own thread: handshake, connect callback, close callback.  *)

\* beforeHandshake reads the account once.  The principal it stores is the
\* only copy of "enabled" the session ever consults again.
Handshake(s) ==
    /\ pc[s] = "new"
    /\ \/ /\ enabled[OwnerOf[s]]
          /\ pc' = [pc EXCEPT ![s] = "upgraded"]
          /\ sock' = [sock EXCEPT ![s] = "open"]
       \/ /\ ~enabled[OwnerOf[s]]
          /\ pc' = [pc EXCEPT ![s] = "refused"]
          /\ UNCHANGED sock
    /\ UNCHANGED <<registry, members, home, ref, enabled, adm>>

\* add(), first half: sessions.computeIfAbsent(userId, new set).
AddCompute(s) ==
    /\ pc[s] = "upgraded"
    /\ LET u == OwnerOf[s]
           k == IF registry[u] = None THEN s ELSE registry[u]
       IN  /\ registry' = [registry EXCEPT ![u] = k]
           /\ home' = [home EXCEPT ![s] = k]
    /\ pc' = [pc EXCEPT ![s] = "adding"]
    /\ UNCHANGED <<members, ref, sock, enabled, adm>>

\* Faulty variant: add() maps the set again, "in case it was dropped".
AddInsertMapsAgain(s) ==
    /\ pc[s] = "adding"
    /\ members' = [members EXCEPT ![home[s]] = @ \union {s}]
    /\ registry' = [registry EXCEPT ![OwnerOf[s]] = home[s]]
    /\ pc' = [pc EXCEPT ![s] = "open"]
    /\ UNCHANGED <<home, ref, sock, enabled, adm>>

\* add(), second half: .add(session) on the set it was given.
AddInsert(s) ==
    /\ pc[s] = "adding"
    /\ members' = [members EXCEPT ![home[s]] = @ \union {s}]
    /\ pc' = [pc EXCEPT ![s] = "open"]
    /\ UNCHANGED <<registry, home, ref, sock, enabled, adm>>

\* The peer closes, or the connection is found dead.
SocketClosed(s) ==
    /\ sock[s] = "open"
    /\ sock' = [sock EXCEPT ![s] = "closed"]
    /\ UNCHANGED <<registry, members, home, ref, pc, enabled, adm>>

\* Faulty variant: remove() without the null test.
RemoveGetUnchecked(s) ==
    /\ pc[s] = "open"
    /\ sock[s] = "closed"
    /\ ref' = [ref EXCEPT ![s] = registry[OwnerOf[s]]]
    /\ pc' = [pc EXCEPT ![s] = "removing"]
    /\ UNCHANGED <<registry, members, home, sock, enabled, adm>>

\* afterConnectionClosed -> remove(): sessions.get(userId).  The container
\* delivers the close callback only after the connect callback returned.
RemoveGet(s) ==
    /\ pc[s] = "open"
    /\ sock[s] = "closed"
    /\ ref' = [ref EXCEPT ![s] = registry[OwnerOf[s]]]
    /\ pc' = [pc EXCEPT ![s] =
                IF registry[OwnerOf[s]] = None THEN "gone" ELSE "removing"]
    /\ UNCHANGED <<registry, members, home, sock, enabled, adm>>

\* Faulty variant: the last session is left to the removal of the key.
RemoveFromSetUnlessLast(s) ==
    /\ pc[s] = "removing"
    /\ members' = [members EXCEPT ![ref[s]] = IF @ = {s} THEN @ ELSE @ \ {s}]
    /\ pc' = [pc EXCEPT ![s] = "checking"]
    /\ UNCHANGED <<registry, home, ref, sock, enabled, adm>>

\* remove(): set.remove(session).
RemoveFromSet(s) ==
    /\ pc[s] = "removing"
    /\ members' = [members EXCEPT ![ref[s]] = @ \ {s}]
    /\ pc' = [pc EXCEPT ![s] = "checking"]
    /\ UNCHANGED <<registry, home, ref, sock, enabled, adm>>

\* Faulty variant: the test is made as if the session were still inside.
CheckLast(s) ==
    /\ pc[s] = "checking"
    /\ pc' = [pc EXCEPT ![s] =
                IF members[ref[s]] = {s} THEN "dropping" ELSE "gone"]
    /\ UNCHANGED <<registry, members, home, ref, sock, enabled, adm>>

\* remove(): if (set.isEmpty()).
CheckEmpty(s) ==
    /\ pc[s] = "checking"
    /\ pc' = [pc EXCEPT ![s] =
                IF members[ref[s]] = {} THEN "dropping" ELSE "gone"]
    /\ UNCHANGED <<registry, members, home, ref, sock, enabled, adm>>

\* remove(): sessions.remove(userId), whatever set is mapped by now.
RemoveKey(s) ==
    /\ pc[s] = "dropping"
    /\ registry' = [registry EXCEPT ![OwnerOf[s]] = None]
    /\ pc' = [pc EXCEPT ![s] = "gone"]
    /\ UNCHANGED <<members, home, ref, sock, enabled, adm>>

-----------------------------------------------------------------------------
(* The administrator's thread: toggleLock and, for a lock, disconnectUser. *)

\* findById and setEnabled.  The entity is written at commit, and then only
\* if the new value differs from the one that was read.  Locking goes on to
\* disconnectUser, unlocking straight to the commit.
ToggleLock(a, u, locked) ==
    /\ Idle(a)
    /\ adm' = [adm EXCEPT ![a] =
                 [pc |-> IF locked THEN "get" ELSE "commit", target |-> u,
                  locked |-> locked, was |-> enabled[u], set |-> None,
                  seen |-> {}, todo |-> {}]]
    /\ UNCHANGED <<registry, members, threadVars, enabled>>

\* disconnectUser: sessions.get(userId); null returns at once.
DisconnectGet(a) ==
    /\ adm[a].pc = "get"
    /\ LET k == registry[adm[a].target]
       IN  adm' = [adm EXCEPT ![a].set = k,
                              ![a].pc = IF k = None THEN "commit" ELSE "check"]
    /\ UNCHANGED <<registry, members, threadVars, enabled>>

\* disconnectUser: an empty set returns as well, and its key stays.
DisconnectCheck(a) ==
    /\ adm[a].pc = "check"
    /\ adm' = [adm EXCEPT ![a].pc =
                 IF members[adm[a].set] = {} THEN "commit" ELSE "iterate"]
    /\ UNCHANGED <<registry, members, threadVars, enabled>>

\* disconnectUser: the loop runs over the set as it is at this moment.
DisconnectIterate(a) ==
    /\ adm[a].pc = "iterate"
    /\ adm' = [adm EXCEPT ![a].seen = members[adm[a].set],
                          ![a].todo = members[adm[a].set],
                          ![a].pc = "close"]
    /\ UNCHANGED <<registry, members, threadVars, enabled>>

\* Faulty variant: the catch is around the loop, so a failure ends it.
DisconnectCloseOrQuit(a, s) ==
    /\ adm[a].pc = "close"
    /\ s \in adm[a].todo
    /\ sock' = [sock EXCEPT ![s] = "closed"]
    /\ \/ adm' = [adm EXCEPT ![a].todo = @ \ {s}]
       \/ adm' = [adm EXCEPT ![a].todo = {}]
    /\ UNCHANGED <<registry, members, home, ref, pc, enabled>>

\* disconnectUser: one turn of the loop.  A failing close() is caught per
\* session; the socket counts as closed from the call on either way.
DisconnectClose(a, s) ==
    /\ adm[a].pc = "close"
    /\ s \in adm[a].todo
    /\ sock' = [sock EXCEPT ![s] = "closed"]
    /\ adm' = [adm EXCEPT ![a].todo = @ \ {s}]
    /\ UNCHANGED <<registry, members, home, ref, pc, enabled>>

\* disconnectUser: sessions.remove(userId) after the loop.
DisconnectRemoveKey(a) ==
    /\ adm[a].pc = "close"
    /\ adm[a].todo = {}
    /\ registry' = [registry EXCEPT ![adm[a].target] = None]
    /\ adm' = [adm EXCEPT ![a].pc = "commit"]
    /\ UNCHANGED <<members, threadVars, enabled>>

\* The transaction around toggleLock commits after the method returned.
LockCommit(a) ==
    /\ adm[a].pc = "commit"
    /\ enabled' = [enabled EXCEPT ![adm[a].target] =
                     IF adm[a].was = adm[a].locked THEN ~adm[a].locked ELSE @]
    /\ adm' = [adm EXCEPT ![a] = Rest(@)]
    /\ UNCHANGED <<registry, members, threadVars>>

\* The token store fails before disconnectUser, or the commit fails: the
\* transaction rolls back, sessions closed meanwhile stay closed.
LockAbort(a) ==
    /\ adm[a].pc \in {"get", "commit"}
    /\ adm' = [adm EXCEPT ![a] = Rest(@)]
    /\ UNCHANGED <<registry, members, threadVars, enabled>>

-----------------------------------------------------------------------------
SessionStep(s) ==
    \/ Handshake(s) \/ AddCompute(s) \/ AddInsert(s)
    \/ RemoveGet(s) \/ RemoveFromSet(s) \/ CheckEmpty(s) \/ RemoveKey(s)

DisconnectStep(a) ==
    \/ DisconnectGet(a) \/ DisconnectCheck(a) \/ DisconnectIterate(a)
    \/ \E s \in Sessions : DisconnectClose(a, s)
    \/ DisconnectRemoveKey(a)

LockStep(a) ==
    DisconnectStep(a) \/ LockCommit(a) \/ LockAbort(a)

Next ==
    \/ \E s \in Sessions : SessionStep(s) \/ SocketClosed(s)
    \/ \E a \in Admins : LockStep(a)
    \/ \E a \in Admins, u \in Users, locked \in BOOLEAN : ToggleLock(a, u, locked)

\* A callback thread that has started runs on, and so does a request thread.
\* Nobody is obliged to connect, to close a socket or to lock an account.
Fairness ==
    /\ \A s \in Sessions : WF_vars(SessionStep(s) /\ pc[s] # "new")
    /\ \A a \in Admins : WF_vars(LockStep(a))

Spec == Init /\ [][Next]_vars
FairSpec == Spec /\ Fairness

-----------------------------------------------------------------------------
SessionsOf(u) == {s \in Sessions : OwnerOf[s] = u}

\* What get(userId) lets a sender reach.
Listed(s) ==
    LET k == registry[OwnerOf[s]] IN k # None /\ s \in members[k]

\* Its callback has finished and no other thread of the user is under way.
Quiet(u) ==
    /\ \A s \in SessionsOf(u) : pc[s] \notin {"adding", "removing", "checking", "dropping"}
    /\ \A a \in Admins : adm[a].target = u => Idle(a)

\* Once the close callback of a session has returned, no sender can reach
\* the session through the registry any more: remove() is never undone,
\* whichever set object the racing threads hold.
NoGhostSession == \A s \in Sessions : pc[s] = "gone" => ~Listed(s)

\* An empty set under a key is a leak unless some thread is still about to
\* fill it or to drop the key: remove() cleans up behind the last session.
NoEmptyEntryLeak ==
    \A u \in Users :
        LET k == registry[u]
        IN  (k # None /\ Quiet(u)) => members[k] # {}

\* When disconnectUser leaves its loop, every session that it found in the
\* user's set is closed, also if one of the close() calls failed.
LockClosedWhatItSaw ==
    \A a \in Admins :
        adm[a].pc = "commit" => \A s \in adm[a].seen : sock[s] = "closed"

\* The registry drains: when all sessions of a user have closed, the user's
\* key disappears, in whatever order the close callbacks interleave.
RegistryDrains ==
    \A u \in Users :
        (\A s \in SessionsOf(u) : sock[s] = "closed") ~> (registry[u] = None)

\* Seen from the senders every session is listed for one uninterrupted
\* period: the detailed steps implement the abstract listing.
Phase ==
    [s \in Sessions |->
        IF pc[s] \in Unadded \union {"adding"} THEN "before"
        ELSE IF Listed(s) THEN "listed" ELSE "after"]

Listing == INSTANCE ListedOnce WITH phase <- Phase

ListedOnlyOnce == Listing!Spec

\* The inductive invariant behind the three properties above.  A set object
\* comes into being in the add() of the session it is named after, and a
\* key only ever receives a set that is new: a set that was dropped stays
\* dropped, however many threads still hold it.
SetsBelong ==
    /\ \A u \in Users :
         registry[u] # None => OwnerOf[registry[u]] = u /\ pc[registry[u]] \notin Unadded
    /\ \A s \in Sessions :
         pc[s] \notin Unadded =>
            home[s] # None /\ OwnerOf[home[s]] = OwnerOf[s] /\ pc[home[s]] \notin Unadded
    /\ \A s \in Sessions :
         pc[s] \in {"removing", "checking"} => OwnerOf[ref[s]] = OwnerOf[s]

MembersAtHome ==
    \A k, s \in Sessions :
        s \in members[k] => home[s] = k /\ pc[s] \in {"open"} \union Closing

\* remove() found another set than the one its session is in, or has taken
\* the session out: either way that set is no longer the mapped one.
LeftForGood ==
    \A s \in Sessions :
        /\ pc[s] = "removing" /\ ref[s] # home[s]
             => registry[OwnerOf[s]] # home[s]
        /\ pc[s] \in {"checking", "dropping", "gone"} /\ s \in members[home[s]]
             => registry[OwnerOf[s]] # home[s]

\* Whoever leaves an empty set under a key is still about to see to it.
EmptyIsAttended ==
    \A u \in Users :
        registry[u] # None /\ members[registry[u]] = {} =>
            \E s \in SessionsOf(u) :
                \/ pc[s] = "adding" /\ home[s] = registry[u]
                \/ pc[s] = "checking" /\ ref[s] = registry[u]
                \/ pc[s] = "dropping"

LockProgress ==
    \A a \in Admins :
        /\ adm[a].pc \in {"get", "check", "iterate"} => adm[a].seen = {}
        /\ \A s \in adm[a].seen : pc[s] \notin Unadded
        /\ adm[a].pc = "close" =>
             \A s \in adm[a].seen \ adm[a].todo : sock[s] = "closed"
        /\ adm[a].pc = "commit" => \A s \in adm[a].seen : sock[s] = "closed"

IInv ==
    TypeOK /\ SetsBelong /\ MembersAtHome /\ LeftForGood
    /\ EmptyIsAttended /\ LockProgress

-----------------------------------------------------------------------------
\* Expected of the code by its comments, and refuted by TLC (see the README).

\* The senders' comments promise delivery to all sessions of the receiver.
\* That needs every open session to be listed when nothing is under way.
OpenSessionIsListed ==
    \A s \in Sessions :
        (pc[s] = "open" /\ sock[s] = "open" /\ Quiet(OwnerOf[s])) => Listed(s)

\* A locked account has no session whose messages the handler would take.
LockedUserIsDisconnected ==
    \A s \in Sessions :
        (~enabled[OwnerOf[s]] /\ Quiet(OwnerOf[s]))
            => ~(pc[s] = "open" /\ sock[s] = "open")
=============================================================================
