---------------------------- MODULE ClientSocket ----------------------------
(***************************************************************************)
(* The socket of one signed-in page: WebSocketProvider.  The provider      *)
(* keeps a reference to the socket it uses, a queue of messages that wait  *)
(* for a connection, and two timers.  Handlers of several WebSocket        *)
(* objects may be alive at once: a token change opens the next one while   *)
(* the previous one is still closing.                                      *)
(*                                                                         *)
(* A JavaScript task is one action.  The network and the server decide     *)
(* when a socket opens, fails, breaks or is closed by its peer; these are  *)
(* bounded by MaxFaults.  A socket is numbered in order of creation, a     *)
(* message by its place among the calls of sendMessage.                    *)
(***************************************************************************)
EXTENDS Naturals, Sequences, SequencesExt

CONSTANTS
    MaxFaults,  \* failed attempts and lost connections in one behaviour
    MaxTokens,  \* access tokens the page gets one after the other
    MaxMsgs     \* calls of sendMessage

ASSUME BoundAssumption ==
    MaxFaults \in Nat /\ MaxTokens \in Nat \ {0} /\ MaxMsgs \in Nat

VARIABLES
    token,        \* accessToken of the store; 0 is null
    mounted,      \* the provider is part of the page
    isMounted,    \* isMountedRef, which its cleanup timer clears
    sock,         \* the WebSocket objects created so far
    socketRef,    \* the one in use, or None
    isConnected,  \* the state the components see
    closeTimer,   \* closeTimeoutRef is set and its timer runs
    retry,        \* reconnectTimeoutRef, its timer and the connect it calls
    queue,        \* queueRef: messages that wait for a connection
    wire,         \* messages handed to a WebSocket, in order, and to which
    handed,       \* number of calls of sendMessage
    faults,       \* number of faults so far
    failed        \* attempts have failed since a socket opened (history)

socketVars == <<token, mounted, isMounted, sock, socketRef, isConnected,
                closeTimer, retry, queue, wire, handed, faults, failed>>

None == 0
Sockets == DOMAIN sock

\* readyState CLOSING is "closing" after our close(1000) and "dropping"
\* after the close frame of the server.
SocketState == {"connecting", "open", "closing", "dropping", "closed"}

NoRetry == [handle |-> FALSE, armed |-> FALSE, token |-> 0]

State(s) == IF s = None THEN "null" ELSE sock[s].state
Alive(s) == State(s) \in {"connecting", "open"}

InUse == State(socketRef)

SocketInit ==
    /\ token = 1
    /\ mounted = TRUE
    /\ isMounted = TRUE
    /\ sock = <<[state |-> "connecting", token |-> 1]>>
    /\ socketRef = 1
    /\ isConnected = FALSE
    /\ closeTimer = FALSE
    /\ retry = NoRetry
    /\ queue = <<>>
    /\ wire = <<>>
    /\ handed = 0
    /\ faults = 0
    /\ failed = FALSE

-----------------------------------------------------------------------------
\* connect() as closed over the token t; without a token it does nothing.
Connect(t) ==
    /\ t # 0
    /\ closeTimer' = FALSE
    /\ IF Alive(socketRef)
         THEN UNCHANGED <<sock, socketRef>>
         ELSE /\ sock' = Append(sock, [state |-> "connecting", token |-> t])
              /\ socketRef' = Len(sock) + 1

\* The store gets another token: React runs the cleanup of the effect,
\* which starts the close timer, and the effect again, which stops it.
TokenChange ==
    /\ mounted
    /\ token < MaxTokens
    /\ token' = token + 1
    /\ Connect(token')
    /\ UNCHANGED <<mounted, isMounted, isConnected, retry, queue, wire,
                   handed, faults, failed>>

\* Logout: the token goes and PrivateRoute takes the provider off the page.
SignOut ==
    /\ mounted
    /\ token' = 0
    /\ mounted' = FALSE
    /\ closeTimer' = TRUE
    /\ UNCHANGED <<isMounted, sock, socketRef, isConnected, retry, queue,
                   wire, handed, faults, failed>>

\* Faulty: the cleanup timer leaves the reconnect timer running.
CloseTimerKeepsRetry ==
    /\ closeTimer
    /\ isMounted' = FALSE
    /\ sock' = IF Alive(socketRef)
                 THEN [sock EXCEPT ![socketRef].state = "closing"] ELSE sock
    /\ socketRef' = None
    /\ closeTimer' = FALSE
    /\ UNCHANGED <<token, mounted, isConnected, retry, queue, wire, handed,
                   faults, failed>>

\* The 300 ms after the cleanup are over.
CloseTimerFires ==
    /\ closeTimer
    /\ isMounted' = FALSE
    /\ sock' = IF Alive(socketRef)
                 THEN [sock EXCEPT ![socketRef].state = "closing"] ELSE sock
    /\ socketRef' = None
    /\ retry' = NoRetry
    /\ closeTimer' = FALSE
    /\ UNCHANGED <<token, mounted, isConnected, queue, wire, handed, faults,
                   failed>>

\* The 3 s after a lost connection are over; the handle stays.
RetryFires ==
    /\ retry.armed
    /\ retry' = [retry EXCEPT !.armed = FALSE]
    /\ Connect(retry.token)
    /\ UNCHANGED <<token, mounted, isMounted, isConnected, queue, wire,
                   handed, faults, failed>>

-----------------------------------------------------------------------------
OnWire(m, s) == [msg |-> m, sock |-> s]

\* Faulty: flushes before readyState is OPEN.
FlushTooEarly(s) ==
    IF InUse = "open"
      THEN /\ wire' = wire \o [i \in DOMAIN queue |-> OnWire(queue[i], socketRef)]
           /\ queue' = <<>>
      ELSE UNCHANGED <<wire, queue>>

\* Faulty: sends the queue without emptying it.
FlushKeepsQueue(s) ==
    /\ wire' = IF socketRef # None /\ (socketRef = s \/ InUse = "open")
                 THEN wire \o [i \in DOMAIN queue |-> OnWire(queue[i], socketRef)]
                 ELSE wire
    /\ UNCHANGED queue

\* flushQueue, where socket s has just opened.
Flush(s) ==
    IF socketRef # None /\ (socketRef = s \/ InUse = "open")
      THEN /\ wire' = wire \o [i \in DOMAIN queue |-> OnWire(queue[i], socketRef)]
           /\ queue' = <<>>
      ELSE UNCHANGED <<wire, queue>>

\* Faulty: onopen does not clear the handle of the reconnect timer.
OpensKeepsHandle(s) ==
    /\ State(s) = "connecting"
    /\ sock' = [sock EXCEPT ![s].state = "open"]
    /\ isConnected' = TRUE
    /\ Flush(s)
    /\ failed' = FALSE
    /\ UNCHANGED <<token, mounted, isMounted, socketRef, closeTimer, retry,
                   handed, faults>>

\* readyState changes and onopen runs in one task.
Opens(s) ==
    /\ State(s) = "connecting"
    /\ sock' = [sock EXCEPT ![s].state = "open"]
    /\ isConnected' = TRUE
    /\ Flush(s)
    /\ retry' = NoRetry
    /\ failed' = FALSE
    /\ UNCHANGED <<token, mounted, isMounted, socketRef, closeTimer, handed,
                   faults>>

\* onclose of socket s, whichever socket is in use by then.
OnClose(s, normal) ==
    /\ sock' = [sock EXCEPT ![s].state = "closed"]
    /\ isConnected' = FALSE
    /\ socketRef' = None
    /\ retry' = IF isMounted /\ ~normal /\ ~retry.handle
                  THEN [handle |-> TRUE, armed |-> TRUE, token |-> sock[s].token]
                  ELSE retry
    /\ UNCHANGED <<token, mounted, isMounted, closeTimer, queue, wire, handed>>

Fault == faults < MaxFaults /\ faults' = faults + 1

\* The attempt fails: onerror, whose close() has no effect, and onclose.
Fails(s) ==
    /\ State(s) = "connecting"
    /\ Fault
    /\ failed' = TRUE
    /\ OnClose(s, FALSE)

\* The connection breaks.
Breaks(s) ==
    /\ State(s) = "open"
    /\ Fault
    /\ OnClose(s, FALSE)
    /\ UNCHANGED failed

\* The server's close frame arrives (a restart, or disconnectUser).
PeerCloses(s) ==
    /\ State(s) = "open"
    /\ Fault
    /\ sock' = [sock EXCEPT ![s].state = "dropping"]
    /\ UNCHANGED <<token, mounted, isMounted, socketRef, isConnected,
                   closeTimer, retry, queue, wire, handed, failed>>

\* The closing handshake is over; the server never uses code 1000.
Closed(s) ==
    /\ State(s) \in {"closing", "dropping"}
    /\ OnClose(s, State(s) = "closing")
    /\ UNCHANGED <<faults, failed>>

-----------------------------------------------------------------------------
\* sendMessage: on the wire if the socket in use is open, else queued.
Send ==
    /\ mounted
    /\ handed < MaxMsgs
    /\ handed' = handed + 1
    /\ IF InUse = "open"
         THEN wire' = Append(wire, OnWire(handed', socketRef)) /\ UNCHANGED queue
         ELSE queue' = Append(queue, handed') /\ UNCHANGED wire
    /\ UNCHANGED <<token, mounted, isMounted, sock, socketRef, isConnected,
                   closeTimer, retry, faults, failed>>

SocketNext ==
    \/ TokenChange \/ SignOut \/ CloseTimerFires \/ RetryFires \/ Send
    \/ \E s \in Sockets :
          Opens(s) \/ Fails(s) \/ Breaks(s) \/ PeerCloses(s) \/ Closed(s)

Spec == SocketInit /\ [][SocketNext]_socketVars

\* A token change and a fault are what creates another socket.
MaxSockets == MaxFaults + MaxTokens

\* Timers fire, attempts and closing handshakes end.  Nothing is assumed of
\* the user, and faults may always happen until MaxFaults.
Fairness ==
    /\ WF_socketVars(CloseTimerFires)
    /\ WF_socketVars(RetryFires)
    /\ \A s \in 1..MaxSockets :
          /\ WF_socketVars(s \in Sockets /\ (Opens(s) \/ Fails(s)))
          /\ WF_socketVars(s \in Sockets /\ Closed(s))

FairSpec == Spec /\ Fairness

-----------------------------------------------------------------------------
FlagTypes ==
    /\ mounted \in BOOLEAN /\ isMounted \in BOOLEAN
    /\ isConnected \in BOOLEAN /\ closeTimer \in BOOLEAN /\ failed \in BOOLEAN

SockTypes ==
    /\ token \in 0..MaxTokens
    /\ sock \in Seq([state : SocketState, token : 1..MaxTokens])
    /\ socketRef \in 0..Len(sock)
    /\ retry \in [handle : BOOLEAN, armed : BOOLEAN, token : 0..MaxTokens]

DataTypes ==
    /\ queue \in Seq(1..MaxMsgs)
    /\ wire \in Seq([msg : 1..MaxMsgs, sock : Sockets])
    /\ handed \in 0..MaxMsgs
    /\ faults \in 0..MaxFaults

SocketTypeOK == FlagTypes /\ SockTypes /\ DataTypes

\* Messages leave the page in the order in which they were handed over and
\* none is skipped or sent twice, whatever reconnections, overlapping
\* sockets and token changes come in between (sendMessage, flushQueue).
SentInOrder ==
    [i \in DOMAIN wire |-> wire[i].msg] \o queue = [i \in 1..handed |-> i]

\* A message waits only while the socket in use is not open: nothing is
\* left in the queue that only the next connection would send (onopen).
QueueOnlyWhileDown == InUse = "open" => queue = <<>>

\* After its cleanup timer fired the provider holds no socket and will not
\* open one, though sockets of its own may close later (effect cleanup).
TornDownStaysDown == ~isMounted => socketRef = None /\ ~retry.armed

\* A connection that had been established and is lost is followed by a new
\* attempt unless the user leaves (onclose; that the attempt may fail and be
\* the last is another matter).
DropIsRetried ==
    (mounted /\ ~failed /\ \A s \in Sockets : State(s) = "closed")
        ~> (~mounted \/ \E s \in Sockets : Alive(s))

-----------------------------------------------------------------------------
\* Expected of the code by its comments, and refuted by TLC (see the README).

\* While the page stays and faults have an end, it gets connected again, as
\* the windows tell their users (reconnectTimeoutRef).
ReconnectsWhenServerIsBack == (mounted /\ ~isConnected) ~> (isConnected \/ ~mounted)
=============================================================================
