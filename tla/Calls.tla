-------------------------------- MODULE Calls -------------------------------
(***************************************************************************)
(* Video calls between pages: GlobalCallListener decides which session a   *)
(* page shows, a session owns one instance of the hook useWebRTC, and the  *)
(* server relays the signals 20 to 24 from user to user.  One page per     *)
(* user.                                                                   *)
(*                                                                         *)
(* A hook outlives its session: promises it waits for go on after React    *)
(* has unmounted it, so every page keeps a sequence of hooks, and only the *)
(* last one can be mounted.  Each await of the code is a step boundary.    *)
(***************************************************************************)
EXTENDS Naturals, Sequences, SequencesExt

CONSTANTS
    Users,
    None,        \* nobody
    MaxCalls,    \* clicks on the call button
    MaxNoise,    \* candidates found, connections lost and idle timers before
                 \* their Dismiss, together
    MaxAnswers   \* clicks on one answer button

ASSUME NobodyAssumption == None \notin Users
ASSUME BoundAssumption == MaxCalls \in Nat /\ MaxNoise \in Nat /\ MaxAnswers \in Nat

VARIABLES
    outgoingCall, \* per page: outgoingCall.otherUserId of the call store
    callData,     \* per page: callData.otherUserId
    hooks,        \* per page: the hooks with anything left to do
    mounted,      \* per page: the last of them is mounted
    online,       \* per page: the socket is open
    wire,         \* signals under way from one user to another
    missed,       \* a signal had no taker, see Miss below (history)
    calls, noise

vars == <<outgoingCall, callData, hooks, mounted, online, wire, missed, calls, noise>>

Signal == {"offer", "answer", "candidate", "hangUp", "reject"}

(***************************************************************************)
(* pc is peerConnectionRef.current: "offered" and "asked" hold a local or  *)
(* a remote offer, "stable" both descriptions.  job is the function that   *)
(* waits: startCall for the camera ("media") and for createOffer           *)
(* ("offering", or "broken" when its connection has been closed),          *)
(* receiveOffer or an answer for setRemoteDescription ("asking",           *)
(* "answered") and for the candidates it adds then ("drainOffer",          *)
(* "drainAnswer").  camera is the stream in currentStreamRef, leaked that  *)
(* a live stream has been overwritten there.  heard counts the candidates  *)
(* for the present connection (history).                                   *)
(***************************************************************************)
Hook == [kind : {"out", "in"}, peer : Users,
         status : {"idle", "calling", "ringing", "connected", "ended"},
         isCallActive : BOOLEAN, isIncomingCall : BOOLEAN, idleTimer : BOOLEAN,
         pc : {"none", "new", "offered", "asked", "stable"},
         job : {"none", "media", "offering", "broken", "asking", "answered",
                "drainOffer", "drainAnswer"},
         answers : 0..MaxAnswers, making : 0..MaxAnswers,
         camera : BOOLEAN, leaked : BOOLEAN,
         pending : Nat, added : Nat, heard : Nat]

\* The hook of a session that has just been mounted: an OutgoingSession calls
\* startCall (after 100 ms), a CallSession receiveOffer.
NewHook(kind, peer) ==
    [kind |-> kind, peer |-> peer, status |-> "idle",
     isCallActive |-> FALSE, isIncomingCall |-> FALSE, idleTimer |-> FALSE,
     pc |-> IF kind = "out" THEN "none" ELSE "new",
     job |-> IF kind = "out" THEN "media" ELSE "asking",
     answers |-> 0, making |-> 0,
     camera |-> FALSE, leaked |-> FALSE,
     pending |-> 0, added |-> 0, heard |-> 0]

Init ==
    /\ outgoingCall = [u \in Users |-> None]
    /\ callData = [u \in Users |-> None]
    /\ hooks = [u \in Users |-> <<>>]
    /\ mounted = [u \in Users |-> FALSE]
    /\ online = [u \in Users |-> TRUE]
    /\ wire = [u \in Users |-> [v \in Users |-> <<>>]]
    /\ missed = FALSE
    /\ calls = 0 /\ noise = 0

-----------------------------------------------------------------------------
\* The functions of the hook, on its record.
StopMediaTracks(h) == [h EXCEPT !.camera = FALSE]

GotMedia(h) == [h EXCEPT !.camera = TRUE, !.leaked = @ \/ h.camera]

\* Faulty: the connection is left to the garbage collector.
CleanupKeepsPc(h) ==
    [h EXCEPT !.camera = FALSE, !.isCallActive = FALSE, !.isIncomingCall = FALSE,
              !.status = "ended", !.idleTimer = TRUE]

\* Closing a connection settles what waits for it: setRemoteDescription never
\* returns, createOffer fails.
CleanupCall(h) ==
    [StopMediaTracks(h) EXCEPT
        !.pc = "none", !.pending = 0, !.added = 0, !.heard = 0,
        !.isCallActive = FALSE, !.isIncomingCall = FALSE,
        !.status = "ended", !.idleTimer = TRUE,
        !.job = CASE @ \in {"asking", "answered"} -> "none"
                  [] @ = "offering" -> "broken"
                  [] OTHER -> @]

CreatePeerConnection(h) == IF h.pc = "none" THEN [h EXCEPT !.pc = "new"] ELSE h

HasRemote(h) == h.pc \in {"asked", "stable"}

\* Faulty: what waits is dropped once the description is set.
DrainDrops(h) == [h EXCEPT !.pending = 0, !.job = "none"]

\* The candidates that waited are added, unless the connection is gone.
Drain(h) ==
    [h EXCEPT !.added = IF HasRemote(h) THEN @ + h.pending ELSE @,
              !.pending = 0, !.job = "none"]

\* An answer that finds no local offer fails without a trace.
HandleWebRTCSignal(h, m) ==
    LET o == CreatePeerConnection(h) IN
    CASE m = "offer" -> o
      [] m = "answer" -> IF o.pc = "offered" /\ o.job = "none"
                           THEN [o EXCEPT !.job = "answered"] ELSE o
      [] m = "candidate" -> IF HasRemote(o)
                              THEN [o EXCEPT !.heard = @ + 1, !.added = @ + 1]
                              ELSE [o EXCEPT !.heard = @ + 1, !.pending = @ + 1]
      [] m \in {"hangUp", "reject"} -> CleanupCall(o)

-----------------------------------------------------------------------------
\* What the listener wants on the page, and what is there.
Want(u) ==
    IF outgoingCall[u] # None THEN [kind |-> "out", peer |-> outgoingCall[u]]
    ELSE IF callData[u] # None THEN [kind |-> "in", peer |-> callData[u]]
    ELSE [kind |-> "none", peer |-> None]

Session(u) == Last(hooks[u])

Shown(u) ==
    IF mounted[u] THEN [kind |-> Session(u).kind, peer |-> Session(u).peer]
    ELSE [kind |-> "none", peer |-> None]

Settled(u) == mounted[u] /\ Want(u) = Shown(u)
IsSession(u, i) == mounted[u] /\ i = Len(hooks[u])

\* Sent by sendWebRTCMessage and relayed, if both have a socket.
Send(u, v, m) ==
    wire' = IF online[u] /\ online[v] THEN [wire EXCEPT ![u][v] = Append(@, m)] ELSE wire

Lost(u, v) == ~(online[u] /\ online[v])

(***************************************************************************)
(* History: a signal is missed if a socket is down, if an offer leaves a   *)
(* hook whose session is gone, if a hang-up arrives while its session is   *)
(* not mounted yet, or if the offer of a third user displaces a call.      *)
(***************************************************************************)
Miss(cond) == missed' = (missed \/ cond)

\* React forgets the state of an unmounted component; refs stay.
Detached(h) == [h EXCEPT !.status = "idle", !.idleTimer = FALSE,
                         !.isCallActive = FALSE, !.isIncomingCall = FALSE]

\* A hook that nothing refers to any more.
Inert(h) == /\ h.job = "none" /\ h.answers = 0 /\ h.making = 0
            /\ h.pc = "none" /\ ~h.camera /\ ~h.leaked

\* The other hooks of a page; their order says nothing.
Remaining(s) ==
    LET kept == SetToSeq({i \in DOMAIN s : ~Inert(Detached(s[i]))})
    IN [k \in DOMAIN kept |-> Detached(s[kept[k]])]

PutSession(u, h) == hooks' = [hooks EXCEPT ![u][Len(hooks[u])] = h]

Put(u, i, h) ==
    hooks' = [hooks EXCEPT ![u] =
                IF IsSession(u, i) THEN [@ EXCEPT ![i] = h]
                ELSE IF Inert(h) THEN RemoveAt(@, i)
                ELSE [@ EXCEPT ![i] = Detached(h)]]

\* React commits what the listener renders.
Render(u) ==
    /\ Want(u) # Shown(u)
    /\ IF Want(u).kind = "none" THEN
         /\ mounted' = [mounted EXCEPT ![u] = FALSE]
         /\ hooks' = [hooks EXCEPT ![u] = Remaining(@)]
       ELSE IF Want(u).kind # Shown(u).kind THEN
         /\ mounted' = [mounted EXCEPT ![u] = TRUE]
         /\ hooks' = [hooks EXCEPT ![u] =
                         Append(Remaining(@), NewHook(Want(u).kind, Want(u).peer))]
       ELSE \* the mounted session gets new props
         /\ PutSession(u, [Session(u) EXCEPT !.peer = Want(u).peer])
         /\ UNCHANGED mounted
    /\ UNCHANGED <<outgoingCall, callData, online, wire, missed, calls, noise>>

\* The modal covers the page, so the button is there only without a session.
CallClick(u, v) ==
    /\ calls < MaxCalls /\ v # u /\ online[u]
    /\ Want(u).kind = "none" /\ ~mounted[u]
    /\ outgoingCall' = [outgoingCall EXCEPT ![u] = v]
    /\ calls' = calls + 1
    /\ UNCHANGED <<callData, hooks, mounted, online, wire, missed, noise>>

-----------------------------------------------------------------------------
\* startCall, from getUserMedia on.
MediaForCall(u, i) ==
    LET h == hooks[u][i] IN
    /\ h.job = "media"
    /\ \/ Put(u, i, [CreatePeerConnection(GotMedia(h)) EXCEPT !.job = "offering"])
       \/ Put(u, i, [CleanupCall(h) EXCEPT !.job = "none"])
    /\ UNCHANGED <<outgoingCall, callData, mounted, online, wire, missed, calls, noise>>

OfferMade(u, i) ==
    LET h == hooks[u][i] IN
    /\ h.job = "offering"
    /\ Put(u, i, [h EXCEPT !.job = "none", !.pc = "offered",
                           !.isCallActive = TRUE, !.status = "calling"])
    /\ Send(u, h.peer, "offer")
    /\ Miss(Lost(u, h.peer) \/ ~(IsSession(u, i) /\ Settled(u)))
    /\ UNCHANGED <<outgoingCall, callData, mounted, online, calls, noise>>

OfferFails(u, i) ==
    /\ hooks[u][i].job = "broken"
    /\ Put(u, i, [CleanupCall(hooks[u][i]) EXCEPT !.job = "none"])
    /\ UNCHANGED <<outgoingCall, callData, mounted, online, wire, missed, calls, noise>>

\* receiveOffer and the answer case: the remote description is set, unless the
\* browser refuses an offer, ...
RemoteSet(u, i) ==
    LET h == hooks[u][i] IN
    /\ h.job \in {"asking", "answered"}
    /\ \/ Put(u, i, IF h.job = "asking" THEN [h EXCEPT !.pc = "asked", !.job = "drainOffer"]
                                        ELSE [h EXCEPT !.pc = "stable", !.job = "drainAnswer"])
       \/ h.job = "asking" /\ Put(u, i, CleanupCall(h))
    /\ UNCHANGED <<outgoingCall, callData, mounted, online, wire, missed, calls, noise>>

\* ... and the candidates are added, whatever happened meanwhile.
Drained(u, i) ==
    LET h == hooks[u][i] IN
    /\ h.job \in {"drainOffer", "drainAnswer"}
    /\ Put(u, i, IF h.job = "drainOffer"
                   THEN [Drain(h) EXCEPT !.isIncomingCall = TRUE, !.isCallActive = TRUE,
                                         !.status = "ringing"]
                   ELSE [Drain(h) EXCEPT !.status = "connected"])
    /\ UNCHANGED <<outgoingCall, callData, mounted, online, wire, missed, calls, noise>>

\* answerCall: the button stays until the answer is made.
AnswerClick(u) ==
    /\ Settled(u) /\ Session(u).isIncomingCall
    /\ Session(u).answers + Session(u).making < MaxAnswers
    /\ PutSession(u, [StopMediaTracks(Session(u)) EXCEPT !.answers = @ + 1])
    /\ UNCHANGED <<outgoingCall, callData, mounted, online, wire, missed, calls, noise>>

\* Faulty: one answer to the prompt is used twice.
MediaForAnswerAgain(u, i) ==
    LET h == hooks[u][i] IN
    /\ h.answers > 0
    /\ Put(u, i, IF h.pc = "none" THEN CleanupCall(GotMedia(h))
                                  ELSE [GotMedia(h) EXCEPT !.making = @ + 1])
    /\ UNCHANGED <<outgoingCall, callData, mounted, online, wire, missed, calls, noise>>

MediaForAnswer(u, i) ==
    LET h == [hooks[u][i] EXCEPT !.answers = @ - 1] IN
    /\ hooks[u][i].answers > 0
    /\ \/ Put(u, i, IF h.pc = "none" THEN CleanupCall(GotMedia(h))
                                     ELSE [GotMedia(h) EXCEPT !.making = @ + 1])
       \/ Put(u, i, CleanupCall(h))
    /\ UNCHANGED <<outgoingCall, callData, mounted, online, wire, missed, calls, noise>>

AnswerMade(u, i) ==
    LET h == [hooks[u][i] EXCEPT !.making = @ - 1] IN
    /\ hooks[u][i].making > 0
    /\ IF h.pc = "asked" THEN
         /\ Put(u, i, [h EXCEPT !.pc = "stable", !.isIncomingCall = FALSE,
                                !.status = "connected"])
         /\ Send(u, h.peer, "answer")
         /\ Miss(Lost(u, h.peer))
       ELSE
         /\ Put(u, i, CleanupCall(h))
         /\ UNCHANGED <<wire, missed>>
    /\ UNCHANGED <<outgoingCall, callData, mounted, online, calls, noise>>

\* The connection has found a candidate.
OnIceCandidate(u, i) ==
    LET h == hooks[u][i] IN
    /\ h.pc \in {"offered", "stable"} /\ noise < MaxNoise
    /\ noise' = noise + 1
    /\ Send(u, h.peer, "candidate")
    /\ UNCHANGED <<outgoingCall, callData, hooks, mounted, online, missed, calls>>

\* onconnectionstatechange: the media flow, or stop.
OnConnectionStateChange(u, i) ==
    LET h == hooks[u][i] IN
    /\ h.pc = "stable"
    /\ \/ h.status # "connected" /\ Put(u, i, [h EXCEPT !.status = "connected"])
       \/ Put(u, i, CleanupCall(h))
    /\ UNCHANGED <<outgoingCall, callData, mounted, online, wire, missed, calls, noise>>

-----------------------------------------------------------------------------
\* onEnd of the session.
OnEnd(u) ==
    IF Session(u).kind = "out"
      THEN /\ outgoingCall' = [outgoingCall EXCEPT ![u] = None]
           /\ UNCHANGED callData
      ELSE /\ callData' = [callData EXCEPT ![u] = None]
           /\ UNCHANGED outgoingCall

SayAndCleanup(u, m) ==
    /\ Send(u, Session(u).peer, m)
    /\ Miss(Lost(u, Session(u).peer))
    /\ PutSession(u, CleanupCall(Session(u)))

\* The red button; clicks on a call that has ended already are left out.
HangUpClick(u) ==
    /\ Settled(u) /\ ~Session(u).isIncomingCall /\ Session(u).status # "ended"
    /\ SayAndCleanup(u, "hangUp")
    /\ IF Session(u).kind = "in" THEN OnEnd(u) ELSE UNCHANGED <<outgoingCall, callData>>
    /\ UNCHANGED <<mounted, online, calls, noise>>

RejectClick(u) ==
    /\ Settled(u) /\ Session(u).isIncomingCall
    /\ SayAndCleanup(u, "reject")
    /\ OnEnd(u)
    /\ UNCHANGED <<mounted, online, calls, noise>>

HasEnded(h) ==
    \/ h.status = "ended"
    \/ h.kind = "in" /\ ~h.isCallActive /\ h.status \notin {"idle", "ringing"}

\* Faulty: the session is dismissed without another hang-up.
DismissSilently(u) ==
    /\ Settled(u) /\ HasEnded(Session(u))
    /\ OnEnd(u)
    /\ UNCHANGED <<hooks, mounted, online, wire, missed, calls, noise>>

\* 500 ms after the end.
Dismiss(u) ==
    /\ Settled(u) /\ HasEnded(Session(u))
    /\ SayAndCleanup(u, "hangUp")
    /\ OnEnd(u)
    /\ UNCHANGED <<mounted, online, calls, noise>>

\* 1000 ms after cleanupCall, thus after Dismiss if that is due; unless the
\* window renders meanwhile, which starts the 500 ms of Dismiss anew.  Then
\* Dismiss does not come.
IdleTimer(u) ==
    /\ mounted[u] /\ Session(u).idleTimer
    /\ PutSession(u, [Session(u) EXCEPT !.idleTimer = FALSE, !.status = "idle"])
    /\ IF HasEnded(Session(u)) THEN noise < MaxNoise /\ noise' = noise + 1
                               ELSE UNCHANGED noise
    /\ UNCHANGED <<outgoingCall, callData, mounted, online, wire, missed, calls>>

\* The listener and the mounted session both see a signal of u.
Deliver(u, v) ==
    /\ wire[u][v] # <<>>
    /\ LET m == Head(wire[u][v])
           heard == mounted[v] /\ Session(v).peer = u
       IN /\ IF m = "offer"
               THEN /\ outgoingCall' = [outgoingCall EXCEPT ![v] = None]
                    /\ callData' = [callData EXCEPT ![v] = u]
               ELSE UNCHANGED <<outgoingCall, callData>>
          /\ IF heard THEN PutSession(v, HandleWebRTCSignal(Session(v), m)) ELSE UNCHANGED hooks
          /\ Miss(\/ m = "offer" /\ Want(v).peer \notin {None, u}
                  \/ m \in {"hangUp", "reject"} /\ Want(v) # Shown(v) /\ Want(v).peer = u)
    /\ wire' = [wire EXCEPT ![u][v] = Tail(@)]
    /\ UNCHANGED <<mounted, online, calls, noise>>

\* The socket of u breaks, and is there again.
Disconnect(u) ==
    /\ online[u] /\ noise < MaxNoise
    /\ online' = [online EXCEPT ![u] = FALSE]
    /\ noise' = noise + 1
    /\ Miss(\E v \in Users : wire[v][u] # <<>>)
    /\ wire' = [v \in Users |-> [wire[v] EXCEPT ![u] = <<>>]]
    /\ UNCHANGED <<outgoingCall, callData, hooks, mounted, calls>>

Reconnect(u) ==
    /\ ~online[u]
    /\ online' = [online EXCEPT ![u] = TRUE]
    /\ UNCHANGED <<outgoingCall, callData, hooks, mounted, wire, missed, calls, noise>>

-----------------------------------------------------------------------------
HookStep(u, i) ==
    \/ MediaForCall(u, i)
    \/ OfferMade(u, i)
    \/ OfferFails(u, i)
    \/ RemoteSet(u, i)
    \/ Drained(u, i)
    \/ MediaForAnswer(u, i)
    \/ AnswerMade(u, i)
    \/ OnIceCandidate(u, i)
    \/ OnConnectionStateChange(u, i)

UserStep(u) ==
    \/ \E v \in Users : CallClick(u, v)
    \/ AnswerClick(u)
    \/ HangUpClick(u)
    \/ RejectClick(u)

Next ==
    \E u \in Users :
        \/ UserStep(u)
        \/ \E i \in DOMAIN hooks[u] : HookStep(u, i)
        \/ Render(u)
        \/ Dismiss(u)
        \/ IdleTimer(u)
        \/ \E v \in Users : Deliver(u, v)
        \/ Disconnect(u)
        \/ Reconnect(u)

Spec == Init /\ [][Next]_vars

-----------------------------------------------------------------------------
\* The hooks and stores have the shapes the components give them, and a page
\* has a session mounted only if it has a hook.
TypeOK ==
    /\ outgoingCall \in [Users -> Users \cup {None}]
    /\ callData \in [Users -> Users \cup {None}]
    /\ hooks \in [Users -> Seq(Hook)]
    /\ mounted \in [Users -> BOOLEAN]
    /\ \A u \in Users : mounted[u] => hooks[u] # <<>>
    /\ online \in [Users -> BOOLEAN]
    /\ wire \in [Users -> [Users -> Seq(Signal)]]
    /\ missed \in BOOLEAN
    /\ calls \in 0..MaxCalls /\ noise \in 0..MaxNoise

\* A connection with a remote description has been given every candidate its
\* hook heard, but for those the drain under way still holds: whichever of
\* setRemoteDescription and the candidates comes first (receiveOffer and
\* handleWebRTCSignal of useWebRTC).
NoCandidateIsStranded ==
    \A u \in Users : \A i \in DOMAIN hooks[u] :
        LET h == hooks[u][i] IN
        HasRemote(h) =>
            /\ h.added + h.pending = h.heard
            /\ h.pending > 0 => h.job \in {"drainOffer", "drainAnswer"}

\* When a CallSession is gone and its prompts are answered, the camera is off
\* and no negotiated connection is left, however late the prompt is answered
\* (answerCall finds no connection and cleans up).  Not so the stream that a
\* second click on the answer button has overwritten, nor the empty connection
\* a late candidate makes.
CalleeLetsGo ==
    \A u \in Users : \A i \in DOMAIN hooks[u] :
        LET h == hooks[u][i] IN
        h.kind = "in" /\ ~IsSession(u, i) /\ h.answers = 0 /\ h.making = 0
            => h.pc \in {"none", "new"} /\ ~h.camera

\* When no signal is under way, React has rendered and what has ended is
\* dismissed, no page calls or talks to a user whose page has no call: the
\* hang-up, the rejection or the offer got there, unless a signal was missed.
\* Redials, glare and the second hang-up of every session are included.
Quiet ==
    /\ \A u, v \in Users : wire[u][v] = <<>>
    /\ \A u \in Users : Want(u) = Shown(u)
    /\ \A u \in Users : mounted[u] => ~HasEnded(Session(u))

LeftAlone(u) ==
    /\ mounted[u] /\ Session(u).isCallActive /\ ~Session(u).isIncomingCall
    /\ ~mounted[Session(u).peer]

NobodyIsLeftAlone == Quiet /\ ~missed => ~\E u \in Users : LeftAlone(u)

\* What the comment at the end of useWebRTC relies on to have no cleanup on
\* unmount: hanging up or the signals 23 and 24 clean up.  Once its session is
\* gone and nothing is under way, a hook holds neither camera nor connection.
EveryHookIsCleanedUp ==
    \A u \in Users : \A i \in DOMAIN hooks[u] :
        LET h == hooks[u][i] IN
        ~IsSession(u, i) /\ h.job = "none" /\ h.answers = 0 /\ h.making = 0
            => h.pc = "none" /\ ~h.camera /\ ~h.leaked
=============================================================================
