---------------------------- MODULE AiChatProofs ----------------------------
(* What holds of the socket of a page, and of the AI panel that uses it,   *)
(* for any number of messages, questions, chunks, tokens and faults of the *)
(* network.                                                                *)
EXTENDS AiChat, FiniteSetTheorems, SequenceTheorems, TLAPS

USE BoundAssumption, AskAssumption

-----------------------------------------------------------------------------
(* The socket (ClientSocket).                                              *)
-----------------------------------------------------------------------------

SocketRecord == [state : SocketState, token : 1..MaxTokens]

-----------------------------------------------------------------------------
\* Types.

\* connect() leaves the sockets there are alone and at most adds one, which
\* is the one in use then and not open yet.
LEMMA ConnectAdds ==
    ASSUME SockTypes, NEW t \in 0..MaxTokens, Connect(t)
    PROVE  /\ sock' \in Seq(SocketRecord) /\ socketRef' \in 0..Len(sock')
           /\ Sockets \subseteq Sockets'
           /\ closeTimer' = FALSE
           /\ InUse' = "open" => InUse = "open"
<1>0. sock \in Seq(SocketRecord) /\ socketRef \in 0..Len(sock)
  BY DEF SockTypes, SocketRecord
<1>1. CASE Alive(socketRef)
  <2>1. UNCHANGED <<sock, socketRef>> /\ closeTimer' = FALSE
    BY <1>1, Zenon DEF Connect
  <2>2. QED
    BY <1>0, <2>1 DEF Sockets, InUse, State
<1>2. CASE ~Alive(socketRef)
  <2> DEFINE new == [state |-> "connecting", token |-> t]
  <2>1. sock' = Append(sock, new) /\ socketRef' = Len(sock) + 1
    BY <1>2 DEF Connect
  <2>2. new \in SocketRecord
    BY DEF Connect, SocketRecord, SocketState
  <2>3. sock' \in Seq(SocketRecord) /\ Len(sock') = Len(sock) + 1
    BY <1>0, <2>1, <2>2
  <2>4. sock'[socketRef'].state = "connecting" /\ socketRef' # None
    BY <1>0, <2>1 DEF None
  <2>5. InUse' = "connecting"
    BY <2>4 DEF InUse, State
  <2>6. Sockets \subseteq Sockets'
    BY <1>0, <2>3 DEF Sockets
  <2>7. closeTimer' = FALSE
    BY Zenon DEF Connect
  <2>8. QED
    BY <2>1, <2>3, <2>5, <2>6, <2>7
<1>3. QED
  BY <1>1, <1>2

\* A change of state leaves the number of sockets.
LEMMA StateChanges ==
    ASSUME SockTypes, NEW s \in Sockets, NEW st \in SocketState,
           sock' = [sock EXCEPT ![s].state = st]
    PROVE  /\ sock' \in Seq(SocketRecord) /\ Len(sock') = Len(sock)
           /\ Sockets' = Sockets
           /\ sock'[s].state = st
           /\ \A x \in Sockets \ {s} : sock'[x] = sock[x]
<1>0. sock \in Seq(SocketRecord)
  BY DEF SockTypes, SocketRecord
<1>1. DOMAIN sock = 1..Len(sock) /\ sock[s] \in SocketRecord
  BY <1>0, ElementOfSeq, LenProperties DEF Sockets
<1>2. [sock[s] EXCEPT !.state = st] \in SocketRecord /\ [sock[s] EXCEPT !.state = st].state = st
  BY <1>1 DEF SocketRecord
<1>3. sock' = [sock EXCEPT ![s] = [sock[s] EXCEPT !.state = st]]
  BY <1>0
<1>4. s \in 1..Len(sock)
  BY <1>1 DEF Sockets
<1>5. /\ sock' \in Seq(SocketRecord) /\ Len(sock') = Len(sock)
      /\ \A j \in 1..Len(sock) :
            sock'[j] = IF j = s THEN [sock[s] EXCEPT !.state = st] ELSE sock[j]
  BY <1>0, <1>2, <1>3, <1>4, ExceptSeq
<1>6. Sockets' = Sockets
  BY <1>1, <1>5, LenProperties DEF Sockets
<1>7. QED
  BY <1>1, <1>2, <1>4, <1>5, <1>6 DEF Sockets

LEMMA CloseKeepsTypes ==
    ASSUME SockTypes, NEW s \in Sockets, NEW normal \in BOOLEAN, OnClose(s, normal)
    PROVE  SockTypes' /\ Sockets' = Sockets
<1>1. sock' \in Seq(SocketRecord) /\ Sockets' = Sockets /\ Len(sock') = Len(sock)
  BY StateChanges DEF OnClose, SocketState
<1>2. socketRef' \in 0..Len(sock') /\ token' \in 0..MaxTokens
  BY <1>1 DEF OnClose, None, SockTypes
<1>3. sock[s].token \in 1..MaxTokens
  <2>1. sock \in Seq(SocketRecord)
    BY DEF SockTypes, SocketRecord
  <2>2. sock[s] \in SocketRecord
    BY <2>1, ElementOfSeq, LenProperties DEF Sockets
  <2>3. QED
    BY <2>2 DEF SocketRecord
<1>4. retry' \in [handle : BOOLEAN, armed : BOOLEAN, token : 0..MaxTokens]
  <2>1. [handle |-> TRUE, armed |-> TRUE, token |-> sock[s].token]
          \in [handle : BOOLEAN, armed : BOOLEAN, token : 0..MaxTokens]
    BY <1>3
  <2>2. QED
    BY <2>1 DEF OnClose, SockTypes
<1>5. QED
  BY <1>1, <1>2, <1>4 DEF SockTypes, SocketRecord

LEMMA WireGrows ==
    ASSUME DataTypes, Sockets \subseteq Sockets', UNCHANGED <<queue, wire, handed>>,
           faults' \in 0..MaxFaults
    PROVE  DataTypes'
<1>1. [msg : 1..MaxMsgs, sock : Sockets] \subseteq [msg : 1..MaxMsgs, sock : Sockets']
  OBVIOUS
<1>2. wire \in Seq([msg : 1..MaxMsgs, sock : Sockets'])
  BY <1>1, SeqMonotonic DEF DataTypes
<1>3. QED
  BY <1>2 DEF DataTypes

\* The flush empties the queue onto the wire or leaves both.
LEMMA FlushKeepsTypes ==
    ASSUME SockTypes, DataTypes, NEW s \in Sockets, Flush(s), Sockets' = Sockets
    PROVE  /\ queue' \in Seq(1..MaxMsgs)
           /\ wire' \in Seq([msg : 1..MaxMsgs, sock : Sockets'])
<1>1. CASE UNCHANGED <<wire, queue>>
  BY <1>1 DEF DataTypes
<1>2. CASE /\ socketRef # None
           /\ wire' = wire \o [i \in DOMAIN queue |-> OnWire(queue[i], socketRef)]
           /\ queue' = <<>>
  <2>1. socketRef \in Sockets
    BY <1>2 DEF SockTypes, Sockets, None
  <2>2. \A i \in DOMAIN queue :
          OnWire(queue[i], socketRef) \in [msg : 1..MaxMsgs, sock : Sockets]
    BY <2>1 DEF DataTypes, OnWire
  <2>3. [i \in DOMAIN queue |-> OnWire(queue[i], socketRef)]
          \in Seq([msg : 1..MaxMsgs, sock : Sockets])
    <3>1. queue \in Seq(1..MaxMsgs)
      BY DEF DataTypes
    <3>2. DOMAIN queue = 1..Len(queue) /\ Len(queue) \in Nat
      BY <3>1, LenProperties
    <3>3. [i \in DOMAIN queue |-> OnWire(queue[i], socketRef)]
            \in [1..Len(queue) -> [msg : 1..MaxMsgs, sock : Sockets]]
      BY <2>2, <3>2
    <3>4. QED
      BY <3>2, <3>3, SeqDef
  <2>4. QED
    BY <1>2, <2>3 DEF DataTypes
<1>3. QED
  BY <1>1, <1>2 DEF Flush

LEMMA StepKeepsTypes == SocketTypeOK /\ [SocketNext]_socketVars => SocketTypeOK'
<1> SUFFICES ASSUME SocketTypeOK, [SocketNext]_socketVars PROVE SocketTypeOK'
  OBVIOUS
<1>0. FlagTypes /\ SockTypes /\ DataTypes
  BY DEF SocketTypeOK
<1>1. ASSUME TokenChange PROVE SocketTypeOK'
  <2>1. token' \in 0..MaxTokens /\ Connect(token')
    BY <1>0, <1>1 DEF TokenChange, SockTypes
  <2>2. /\ sock' \in Seq(SocketRecord) /\ socketRef' \in 0..Len(sock')
        /\ Sockets \subseteq Sockets' /\ closeTimer' = FALSE
    BY <1>0, <2>1, ConnectAdds
  <2>3. SockTypes'
    BY <1>0, <1>1, <2>1, <2>2 DEF TokenChange, SockTypes, SocketRecord
  <2>4. DataTypes'
    BY <1>0, <1>1, <2>2, WireGrows DEF TokenChange, DataTypes
  <2>5. FlagTypes'
    BY <1>0, <1>1, <2>2 DEF TokenChange, FlagTypes
  <2>6. QED
    BY <2>3, <2>4, <2>5 DEF SocketTypeOK
<1>2. ASSUME SignOut PROVE SocketTypeOK'
  <2>1. SockTypes'
    BY <1>0, <1>2 DEF SignOut, SockTypes
  <2>2. DataTypes'
    BY <1>0, <1>2 DEF SignOut, DataTypes, Sockets
  <2>3. FlagTypes'
    BY <1>0, <1>2 DEF SignOut, FlagTypes
  <2>4. QED
    BY <2>1, <2>2, <2>3 DEF SocketTypeOK
<1>3. ASSUME CloseTimerFires PROVE SocketTypeOK'
  <2>1. sock' \in Seq(SocketRecord) /\ Sockets' = Sockets
    <3>1. CASE Alive(socketRef)
      <4>1. socketRef \in Sockets
        BY <1>0, <3>1 DEF Alive, State, SockTypes, Sockets, None
      <4>2. QED
        BY <1>0, <1>3, <3>1, <4>1, StateChanges DEF CloseTimerFires, SocketState
    <3>2. CASE ~Alive(socketRef)
      BY <1>0, <1>3, <3>2 DEF CloseTimerFires, SockTypes, SocketRecord, Sockets
    <3>3. QED
      BY <3>1, <3>2
  <2>2. socketRef' = 0 /\ Len(sock') \in Nat
    BY <1>3, <2>1 DEF CloseTimerFires, None
  <2>3. NoRetry \in [handle : BOOLEAN, armed : BOOLEAN, token : 0..MaxTokens]
    BY DEF NoRetry
  <2>4. SockTypes'
    BY <1>0, <1>3, <2>1, <2>2, <2>3 DEF CloseTimerFires, SockTypes, SocketRecord
  <2>5. DataTypes'
    BY <1>0, <1>3, <2>1, WireGrows DEF CloseTimerFires, DataTypes
  <2>6. FlagTypes'
    BY <1>0, <1>3 DEF CloseTimerFires, FlagTypes
  <2>7. QED
    BY <2>4, <2>5, <2>6 DEF SocketTypeOK
<1>4. ASSUME RetryFires PROVE SocketTypeOK'
  <2>1. retry.token \in 0..MaxTokens /\ Connect(retry.token)
    BY <1>0, <1>4 DEF RetryFires, SockTypes
  <2>2. /\ sock' \in Seq(SocketRecord) /\ socketRef' \in 0..Len(sock')
        /\ Sockets \subseteq Sockets' /\ closeTimer' = FALSE
    BY <1>0, <2>1, ConnectAdds
  <2>3. retry' \in [handle : BOOLEAN, armed : BOOLEAN, token : 0..MaxTokens]
    BY <1>0, <1>4 DEF RetryFires, SockTypes
  <2>4. SockTypes'
    BY <1>0, <1>4, <2>2, <2>3 DEF RetryFires, SockTypes, SocketRecord
  <2>5. DataTypes'
    BY <1>0, <1>4, <2>2, WireGrows DEF RetryFires, DataTypes
  <2>6. FlagTypes'
    BY <1>0, <1>4, <2>2 DEF RetryFires, FlagTypes
  <2>7. QED
    BY <2>4, <2>5, <2>6 DEF SocketTypeOK
<1>5. ASSUME Send PROVE SocketTypeOK'
  <2>1. handed' \in 1..MaxMsgs
    BY <1>0, <1>5 DEF Send, DataTypes
  <2>2. Sockets' = Sockets /\ SockTypes'
    BY <1>0, <1>5 DEF Send, SockTypes, Sockets
  <2>3. DataTypes'
    <3>1. CASE InUse = "open"
      <4>1. socketRef \in Sockets
        BY <1>0, <3>1 DEF InUse, State, SockTypes, Sockets, None
      <4>2. OnWire(handed', socketRef) \in [msg : 1..MaxMsgs, sock : Sockets]
        BY <2>1, <4>1 DEF OnWire
      <4>3. wire' = Append(wire, OnWire(handed', socketRef)) /\ UNCHANGED <<queue, faults>>
        BY <1>5, <3>1 DEF Send
      <4>4. QED
        BY <1>0, <2>1, <2>2, <4>2, <4>3 DEF DataTypes
    <3>2. CASE InUse # "open"
      <4>1. queue' = Append(queue, handed') /\ UNCHANGED <<wire, faults>>
        BY <1>5, <3>2 DEF Send
      <4>2. QED
        BY <1>0, <2>1, <2>2, <4>1 DEF DataTypes
    <3>3. QED
      BY <3>1, <3>2
  <2>4. FlagTypes'
    BY <1>0, <1>5 DEF Send, FlagTypes
  <2>5. QED
    BY <2>2, <2>3, <2>4 DEF SocketTypeOK
<1>6. ASSUME NEW s \in Sockets, Opens(s) PROVE SocketTypeOK'
  <2>1. sock' \in Seq(SocketRecord) /\ Sockets' = Sockets /\ Len(sock') = Len(sock)
    BY <1>0, <1>6, StateChanges DEF Opens, SocketState
  <2>2. NoRetry \in [handle : BOOLEAN, armed : BOOLEAN, token : 0..MaxTokens]
    BY DEF NoRetry
  <2>3. SockTypes'
    BY <1>0, <1>6, <2>1, <2>2 DEF Opens, SockTypes, SocketRecord
  <2>4. Flush(s)
    BY <1>6 DEF Opens
  <2>5. DataTypes'
    BY <1>0, <1>6, <2>1, <2>4, FlushKeepsTypes DEF Opens, DataTypes
  <2>6. FlagTypes'
    BY <1>0, <1>6 DEF Opens, FlagTypes
  <2>7. QED
    BY <2>3, <2>5, <2>6 DEF SocketTypeOK
<1>7. ASSUME NEW s \in Sockets, Fails(s) PROVE SocketTypeOK'
  <2>1. SockTypes' /\ Sockets' = Sockets
    BY <1>0, <1>7, CloseKeepsTypes DEF Fails
  <2>2. DataTypes'
    BY <1>0, <1>7, <2>1, WireGrows DEF Fails, OnClose, Fault, DataTypes
  <2>3. FlagTypes'
    BY <1>0, <1>7 DEF Fails, OnClose, FlagTypes
  <2>4. QED
    BY <2>1, <2>2, <2>3 DEF SocketTypeOK
<1>8. ASSUME NEW s \in Sockets, Breaks(s) PROVE SocketTypeOK'
  <2>1. SockTypes' /\ Sockets' = Sockets
    BY <1>0, <1>8, CloseKeepsTypes DEF Breaks
  <2>2. DataTypes'
    BY <1>0, <1>8, <2>1, WireGrows DEF Breaks, OnClose, Fault, DataTypes
  <2>3. FlagTypes'
    BY <1>0, <1>8 DEF Breaks, OnClose, FlagTypes
  <2>4. QED
    BY <2>1, <2>2, <2>3 DEF SocketTypeOK
<1>9. ASSUME NEW s \in Sockets, PeerCloses(s) PROVE SocketTypeOK'
  <2>1. sock' \in Seq(SocketRecord) /\ Sockets' = Sockets /\ Len(sock') = Len(sock)
    BY <1>0, <1>9, StateChanges DEF PeerCloses, SocketState
  <2>2. SockTypes'
    BY <1>0, <1>9, <2>1 DEF PeerCloses, SockTypes, SocketRecord
  <2>3. DataTypes'
    BY <1>0, <1>9, <2>1, WireGrows DEF PeerCloses, Fault, DataTypes
  <2>4. FlagTypes'
    BY <1>0, <1>9 DEF PeerCloses, FlagTypes
  <2>5. QED
    BY <2>2, <2>3, <2>4 DEF SocketTypeOK
<1>10. ASSUME NEW s \in Sockets, Closed(s) PROVE SocketTypeOK'
  <2>1. SockTypes' /\ Sockets' = Sockets
    BY <1>0, <1>10, CloseKeepsTypes DEF Closed
  <2>2. DataTypes'
    BY <1>0, <1>10, <2>1, WireGrows DEF Closed, OnClose, DataTypes
  <2>3. FlagTypes'
    BY <1>0, <1>10 DEF Closed, OnClose, FlagTypes
  <2>4. QED
    BY <2>1, <2>2, <2>3 DEF SocketTypeOK
<1>11. CASE UNCHANGED socketVars
  BY <1>0, <1>11 DEF socketVars, SocketTypeOK, FlagTypes, SockTypes, DataTypes, Sockets
<1>12. QED
  BY <1>1, <1>2, <1>3, <1>4, <1>5, <1>6, <1>7, <1>8, <1>9, <1>10, <1>11 DEF SocketNext

\* The socket record, the timers and the queue keep their types.
LEMMA InitTypes == SocketInit => SocketTypeOK
<1> SUFFICES ASSUME SocketInit PROVE SocketTypeOK
  OBVIOUS
<1>1. [state |-> "connecting", token |-> 1] \in SocketRecord
  BY DEF SocketRecord, SocketState
<1>2. sock \in Seq(SocketRecord) /\ Len(sock) = 1
  BY <1>1 DEF SocketInit
<1>3. NoRetry \in [handle : BOOLEAN, armed : BOOLEAN, token : 0..MaxTokens]
  BY DEF NoRetry
<1>4. SockTypes
  BY <1>2, <1>3 DEF SocketInit, SockTypes, SocketRecord
<1>5. DataTypes
  BY DEF SocketInit, DataTypes
<1>6. FlagTypes
  BY DEF SocketInit, FlagTypes
<1>7. QED
  BY <1>4, <1>5, <1>6 DEF SocketTypeOK

-----------------------------------------------------------------------------
\* The order of messages.

\* SentInOrder place by place, with the length.
InOrder ==
    /\ Len(wire) + Len(queue) = handed
    /\ \A i \in 1..Len(wire) : wire[i].msg = i
    /\ \A j \in 1..Len(queue) : queue[j] = Len(wire) + j

OrderInv == SocketTypeOK /\ InOrder /\ QueueOnlyWhileDown

LEMMA OrderReads ==
    ASSUME SocketTypeOK, InOrder
    PROVE  SentInOrder
<1> DEFINE ids == [i \in DOMAIN wire |-> wire[i].msg]
           all == [i \in 1..handed |-> i]
<1>1. /\ Len(wire) \in Nat /\ DOMAIN wire = 1..Len(wire)
      /\ Len(queue) \in Nat /\ DOMAIN queue = 1..Len(queue)
      /\ handed \in Nat
  BY LenProperties DEF SocketTypeOK, DataTypes
<1>2. ids \in Seq(Nat) /\ Len(ids) = Len(wire)
  <2>1. ids = [i \in 1..Len(wire) |-> i]
    BY <1>1 DEF InOrder
  <2>2. ids \in [1..Len(wire) -> Nat]
    BY <1>1, <2>1
  <2>3. ids \in Seq(Nat)
    BY <1>1, <2>2, SeqDef
  <2>4. QED
    BY <1>1, <2>3
<1>3. queue \in Seq(Nat)
  <2>1. 1..MaxMsgs \subseteq Nat
    OBVIOUS
  <2>2. QED
    BY <2>1, SeqMonotonic DEF SocketTypeOK, DataTypes
<1>4. all \in Seq(Nat) /\ Len(all) = handed
  <2>1. all \in [1..handed -> Nat]
    BY <1>1
  <2>2. all \in Seq(Nat)
    BY <1>1, <2>1, SeqDef
  <2>3. QED
    BY <1>1, <2>2
<1>i. \A i \in 1..Len(wire) : ids[i] = i
  BY <1>1 DEF InOrder
<1>a. \A i \in 1..handed : all[i] = i
  OBVIOUS
<1>q. \A j \in 1..Len(queue) : queue[j] = Len(wire) + j
  BY DEF InOrder
<1>h. Len(wire) + Len(queue) = handed
  BY DEF InOrder
<1>s. SentInOrder <=> ids \o queue = all
  BY DEF SentInOrder
<1> HIDE DEF ids, all
<1>5. ids \o queue \in Seq(Nat) /\ Len(ids \o queue) = handed
  BY <1>1, <1>2, <1>3, ConcatProperties DEF InOrder
<1>6. ASSUME NEW i \in 1..handed PROVE (ids \o queue)[i] = all[i]
  <2>1. (ids \o queue)[i] = IF i <= Len(ids) THEN ids[i] ELSE queue[i - Len(ids)]
    <3>1. i \in 1..(Len(ids) + Len(queue))
      BY <1>2, <1>h
    <3>2. QED
      BY <1>2, <1>3, <3>1, ConcatProperties
  <2>n. i \in Nat /\ i >= 1 /\ i <= handed /\ all[i] = i
    BY <1>1, <1>a
  <2>2. CASE i <= Len(wire)
    <3>1. ids[i] = i
      BY <1>1, <1>i, <2>n, <2>2
    <3>2. QED
      BY <1>2, <2>1, <2>2, <2>n, <3>1
  <2>3. CASE ~(i <= Len(wire))
    <3>1. i - Len(wire) \in 1..Len(queue)
      BY <1>1, <1>h, <2>3, <2>n
    <3>2. queue[i - Len(wire)] = i
      BY <1>1, <1>q, <2>n, <3>1
    <3>3. QED
      BY <1>2, <2>1, <2>3, <2>n, <3>2
  <2>4. QED
    BY <2>2, <2>3
<1>7. ids \o queue = all
  BY <1>4, <1>5, <1>6, SeqEqual
<1>8. QED
  BY <1>7, <1>s

LEMMA OrderStays ==
    ASSUME OrderInv, SocketTypeOK', UNCHANGED <<wire, queue, handed>>,
           InUse' = "open" => InUse = "open"
    PROVE  OrderInv'
  BY DEF OrderInv, InOrder, QueueOnlyWhileDown

\* A queue that is flushed follows what is on the wire.
LEMMA FlushKeepsOrder ==
    ASSUME OrderInv, NEW s \in Sockets, Flush(s), UNCHANGED handed, SocketTypeOK'
    PROVE  InOrder'
<1>1. CASE UNCHANGED <<wire, queue>>
  BY <1>1 DEF OrderInv, InOrder
<1>2. CASE /\ wire' = wire \o [i \in DOMAIN queue |-> OnWire(queue[i], socketRef)]
           /\ queue' = <<>>
  <2> DEFINE late == [i \in DOMAIN queue |-> OnWire(queue[i], socketRef)]
             W == [msg : Nat, sock : Nat]
  <2>1. /\ wire \in Seq(W) /\ Len(wire) \in Nat
        /\ queue \in Seq(1..MaxMsgs) /\ Len(queue) \in Nat /\ DOMAIN queue = 1..Len(queue)
        /\ socketRef \in Nat
    <3>1. Sockets \subseteq Nat /\ socketRef \in Nat
      BY LenProperties DEF OrderInv, SocketTypeOK, SockTypes, Sockets
    <3>2. ASSUME NEW w \in [msg : 1..MaxMsgs, sock : Sockets] PROVE w \in W
      <4>1. w.msg \in 1..MaxMsgs /\ w.sock \in Sockets
        OBVIOUS
      <4>2. w.msg \in Nat /\ w.sock \in Nat
        <5> DEFINE m == w.msg
                   k == w.sock
        <5>1. m \in 1..MaxMsgs /\ k \in Sockets
          BY <4>1
        <5> HIDE DEF m, k
        <5>2. m \in Nat
          BY <5>1
        <5>3. k \in Nat
          BY <3>1, <5>1, Zenon
        <5>4. QED
          BY <5>2, <5>3 DEF m, k
      <4>3. w = [msg |-> w.msg, sock |-> w.sock]
        BY Zenon
      <4>4. QED
        BY <4>2, <4>3
    <3>3. wire \in Seq(W)
      <4>1. [msg : 1..MaxMsgs, sock : Sockets] \subseteq W
        BY <3>2, Zenon
      <4>2. wire \in Seq([msg : 1..MaxMsgs, sock : Sockets])
        BY DEF OrderInv, SocketTypeOK, DataTypes
      <4> HIDE DEF W
      <4>3. QED
        BY <4>1, <4>2, SeqMonotonic, Zenon
    <3>4. QED
      BY <3>1, <3>3, LenProperties DEF OrderInv, SocketTypeOK, DataTypes
  <2>2. \A j \in 1..Len(queue) : queue[j] \in Nat
    BY <2>1, ElementOfSeq
  <2>3. late \in [1..Len(queue) -> W]
    BY <2>1, <2>2 DEF OnWire
  <2>4. late \in Seq(W) /\ Len(late) = Len(queue)
    <3>1. late \in Seq(W)
      BY <2>1, <2>3, SeqDef
    <3>2. DOMAIN late = 1..Len(queue)
      BY <2>1
    <3>3. QED
      BY <2>1, <3>1, <3>2, LenProperties
  <2>5. \A j \in 1..Len(queue) : late[j].msg = Len(wire) + j
    BY <2>1 DEF OnWire, OrderInv, InOrder
  <2>6. Len(wire') = Len(wire) + Len(queue) /\ Len(queue') = 0
    BY <1>2, <2>1, <2>4, ConcatProperties
  <2>7. ASSUME NEW i \in 1..Len(wire') PROVE wire'[i].msg = i
    <3>1. wire'[i] = IF i <= Len(wire) THEN wire[i] ELSE late[i - Len(wire)]
      BY <1>2, <2>1, <2>4, <2>6, ConcatProperties
    <3>2. CASE i <= Len(wire)
      BY <2>1, <3>1, <3>2 DEF OrderInv, InOrder
    <3>3. CASE i > Len(wire)
      <4>1. i - Len(wire) \in 1..Len(queue)
        BY <2>1, <2>6, <3>3
      <4>2. late[i - Len(wire)].msg = Len(wire) + (i - Len(wire))
        BY <2>5, <4>1, Zenon
      <4>3. i \in Nat /\ Len(wire) + (i - Len(wire)) = i
        BY <2>1, <2>6
      <4>4. wire'[i] = late[i - Len(wire)]
        BY <2>1, <3>1, <3>3, <4>3
      <4>5. QED
        BY <4>2, <4>3, <4>4, Zenon
    <3>4. QED
      BY <2>1, <2>6, <3>2, <3>3
  <2>8. QED
    BY <2>1, <2>6, <2>7 DEF OrderInv, InOrder
<1>3. QED
  BY <1>1, <1>2 DEF Flush

LEMMA StepKeepsOrder == OrderInv /\ [SocketNext]_socketVars => OrderInv'
<1> SUFFICES ASSUME OrderInv, [SocketNext]_socketVars PROVE OrderInv'
  OBVIOUS
<1>0. SocketTypeOK /\ SocketTypeOK' /\ FlagTypes /\ SockTypes /\ DataTypes
  BY StepKeepsTypes DEF OrderInv, SocketTypeOK
<1>1. ASSUME TokenChange PROVE OrderInv'
  <2>1. token' \in 0..MaxTokens /\ Connect(token')
    BY <1>0, <1>1 DEF TokenChange, SockTypes
  <2>2. QED
    BY <1>0, <1>1, <2>1, ConnectAdds, OrderStays DEF TokenChange
<1>2. ASSUME SignOut PROVE OrderInv'
  BY <1>0, <1>2, OrderStays DEF SignOut, InUse, State
<1>3. ASSUME CloseTimerFires PROVE OrderInv'
  <2>1. InUse' = "null"
    BY <1>3 DEF CloseTimerFires, InUse, State
  <2>2. QED
    BY <1>0, <1>3, <2>1, OrderStays DEF CloseTimerFires
<1>4. ASSUME RetryFires PROVE OrderInv'
  <2>1. retry.token \in 0..MaxTokens /\ Connect(retry.token)
    BY <1>0, <1>4 DEF RetryFires, SockTypes
  <2>2. QED
    BY <1>0, <1>4, <2>1, ConnectAdds, OrderStays DEF RetryFires
<1>5. ASSUME Send PROVE OrderInv'
  <2>0. /\ Len(wire) \in Nat /\ Len(queue) \in Nat
        /\ handed' = handed + 1 /\ handed \in Nat
    BY <1>0, <1>5, LenProperties DEF Send, DataTypes
  <2>u. InUse' = InUse
    BY <1>5 DEF Send, InUse, State
  <2>1. CASE InUse = "open"
    <3>1. wire' = Append(wire, OnWire(handed', socketRef)) /\ queue' = queue /\ queue = <<>>
      BY <1>5, <2>1 DEF Send, OrderInv, QueueOnlyWhileDown
    <3>2. Len(wire') = Len(wire) + 1 /\ Len(queue) = 0
      BY <1>0, <3>1 DEF DataTypes
    <3>3. wire'[Len(wire) + 1].msg = handed + 1
      BY <1>0, <2>0, <3>1 DEF DataTypes, OnWire
    <3>4. \A i \in 1..Len(wire) : wire'[i] = wire[i]
      BY <1>0, <3>1 DEF DataTypes
    <3>5. InOrder'
      BY <2>0, <3>1, <3>2, <3>3, <3>4 DEF OrderInv, InOrder
    <3>6. QED
      BY <1>0, <3>1, <3>5 DEF OrderInv, QueueOnlyWhileDown
  <2>2. CASE InUse # "open"
    <3>1. queue' = Append(queue, handed') /\ wire' = wire
      BY <1>5, <2>2 DEF Send
    <3>2. Len(queue') = Len(queue) + 1 /\ queue'[Len(queue) + 1] = handed + 1
      BY <1>0, <2>0, <3>1 DEF DataTypes
    <3>3. \A j \in 1..Len(queue) : queue'[j] = queue[j]
      BY <1>0, <3>1 DEF DataTypes
    <3>4. InOrder'
      <4>1. /\ Len(wire) + Len(queue) = handed
            /\ \A i \in 1..Len(wire) : wire[i].msg = i
            /\ \A j \in 1..Len(queue) : queue[j] = Len(wire) + j
        BY DEF OrderInv, InOrder
      <4>2. Len(wire') = Len(wire) /\ Len(wire') + Len(queue') = handed'
        BY <2>0, <3>1, <3>2, <4>1
      <4>3. \A i \in 1..Len(wire') : wire'[i].msg = i
        BY <3>1, <4>1
      <4>4. ASSUME NEW j \in 1..Len(queue') PROVE queue'[j] = Len(wire') + j
        <5>1. j \in 1..Len(queue) \/ j = Len(queue) + 1
          BY <2>0, <3>2
        <5>2. CASE j \in 1..Len(queue)
          BY <3>3, <4>1, <4>2, <5>2
        <5>3. CASE j = Len(queue) + 1
          BY <2>0, <3>2, <4>1, <4>2, <5>3
        <5>4. QED
          BY <5>1, <5>2, <5>3
      <4>5. QED
        BY <4>2, <4>3, <4>4 DEF InOrder
    <3>5. QED
      BY <1>0, <2>2, <2>u, <3>4 DEF OrderInv, QueueOnlyWhileDown
  <2>3. QED
    BY <2>1, <2>2
<1>6. ASSUME NEW s \in Sockets, Opens(s) PROVE OrderInv'
  <2>1. InOrder'
    BY <1>0, <1>6, FlushKeepsOrder DEF Opens
  <2>2. QueueOnlyWhileDown'
    <3>1. socketRef' = socketRef /\ Flush(s)
      BY <1>6 DEF Opens
    <3>2. CASE socketRef = None
      BY <3>1, <3>2 DEF QueueOnlyWhileDown, InUse, State
    <3>3. CASE socketRef = s /\ socketRef # None
      BY <3>1, <3>3 DEF Flush, QueueOnlyWhileDown
    <3>4. CASE socketRef # s /\ socketRef # None
      <4>1. socketRef \in Sockets
        BY <1>0, <3>4 DEF SockTypes, Sockets, None
      <4>2. sock'[socketRef] = sock[socketRef]
        BY <1>0, <1>6, <3>4, <4>1, StateChanges DEF Opens, SocketState
      <4>3. InUse' = InUse
        BY <3>1, <4>2 DEF InUse, State
      <4>4. CASE InUse = "open"
        BY <3>1, <3>4, <4>4 DEF Flush, QueueOnlyWhileDown
      <4>5. CASE InUse # "open"
        BY <4>3, <4>5 DEF QueueOnlyWhileDown
      <4>6. QED
        BY <4>4, <4>5
    <3>5. QED
      BY <3>2, <3>3, <3>4
  <2>3. QED
    BY <1>0, <2>1, <2>2 DEF OrderInv
<1>7. ASSUME NEW s \in Sockets, NEW normal \in BOOLEAN, OnClose(s, normal) PROVE OrderInv'
  <2>1. InUse' = "null"
    BY <1>7 DEF OnClose, InUse, State
  <2>2. QED
    BY <1>0, <1>7, <2>1, OrderStays DEF OnClose
<1>8. ASSUME NEW s \in Sockets, PeerCloses(s) PROVE OrderInv'
  <2>1. sock'[s].state = "dropping" /\ \A x \in Sockets \ {s} : sock'[x] = sock[x]
    BY <1>0, <1>8, StateChanges DEF PeerCloses, SocketState
  <2>2. socketRef' = socketRef /\ (socketRef = None \/ socketRef \in Sockets)
    BY <1>0, <1>8 DEF PeerCloses, SockTypes, Sockets, None
  <2>3. InUse' = "open" => InUse = "open"
    BY <2>1, <2>2 DEF InUse, State
  <2>4. QED
    BY <1>0, <1>8, <2>3, OrderStays DEF PeerCloses
<1>9. CASE UNCHANGED socketVars
  BY <1>0, <1>9, OrderStays DEF socketVars, InUse, State
<1>10. QED
  BY <1>1, <1>2, <1>3, <1>4, <1>5, <1>6, <1>7, <1>8, <1>9
  DEF SocketNext, Fails, Breaks, Closed

LEMMA InitIsOrdered == SocketInit => OrderInv
  BY InitTypes DEF SocketInit, OrderInv, InOrder, QueueOnlyWhileDown

\* Messages leave in the order in which they were handed over, each once, for
\* any number of messages, sockets, token changes and faults.
THEOREM MessagesInOrder == Spec => []SentInOrder
<1>1. OrderInv => SentInOrder
  BY OrderReads DEF OrderInv
<1>2. QED
  BY <1>1, InitIsOrdered, StepKeepsOrder, PTL DEF Spec

\* While the socket in use is open nothing waits in the queue.
THEOREM QueueDrained == Spec => []QueueOnlyWhileDown
<1>1. OrderInv => QueueOnlyWhileDown
  BY DEF OrderInv
<1>2. QED
  BY <1>1, InitIsOrdered, StepKeepsOrder, PTL DEF Spec

-----------------------------------------------------------------------------
\* The tear-down.

\* The cleanup timer runs only after the provider was taken off the page.
TornInv ==
    /\ mounted => isMounted
    /\ closeTimer => ~mounted
    /\ TornDownStaysDown

\* After the tear-down no timer is left and no socket is in use, whichever
\* sockets close afterwards.
THEOREM TornDown == Spec => []TornDownStaysDown
<1>1. SocketInit => TornInv
  BY DEF SocketInit, TornInv, TornDownStaysDown, NoRetry
<1>2. TornInv /\ [SocketNext]_socketVars => TornInv'
  <2> SUFFICES ASSUME TornInv, [SocketNext]_socketVars PROVE TornInv'
    OBVIOUS
  <2> USE DEF TornInv, TornDownStaysDown
  <2>1. CASE TokenChange
    BY <2>1 DEF TokenChange, Connect
  <2>2. CASE SignOut
    BY <2>2 DEF SignOut
  <2>3. CASE CloseTimerFires
    BY <2>3 DEF CloseTimerFires, NoRetry
  <2>4. CASE RetryFires
    BY <2>4 DEF RetryFires, Connect
  <2>5. CASE Send
    BY <2>5 DEF Send
  <2>6. ASSUME NEW s \in Sockets, Opens(s) PROVE TornInv'
    BY <2>6 DEF Opens, NoRetry
  <2>7. ASSUME NEW s \in Sockets, NEW normal \in BOOLEAN, OnClose(s, normal) PROVE TornInv'
    BY <2>7 DEF OnClose
  <2>8. ASSUME NEW s \in Sockets, PeerCloses(s) PROVE TornInv'
    BY <2>8 DEF PeerCloses
  <2>9. CASE UNCHANGED socketVars
    BY <2>9 DEF socketVars
  <2>10. QED
    BY <2>1, <2>2, <2>3, <2>4, <2>5, <2>6, <2>7, <2>8, <2>9
    DEF SocketNext, Fails, Breaks, Closed
<1>3. TornInv => TornDownStaysDown
  BY DEF TornInv
<1>4. QED
  BY <1>1, <1>2, <1>3, PTL DEF Spec

-----------------------------------------------------------------------------
(* The AI panel (AiChat).                                                  *)
-----------------------------------------------------------------------------
\* How many sockets there can be.

Dropping == {s \in Sockets : sock[s].state = "dropping"}
Armed    == IF retry.armed THEN 1 ELSE 0
Left     == IF mounted THEN MaxTokens - token ELSE 0

\* Every socket but the first has been paid for: by a token that is no longer
\* to come, or by a fault whose reconnection is not pending any more.
SocketBudget ==
    Len(sock) + Armed + Cardinality(Dropping) + Left <= MaxTokens + faults

LEMMA SocketFacts ==
    ASSUME SocketTypeOK
    PROVE  /\ sock \in Seq(SocketRecord) /\ Len(sock) \in Nat /\ Sockets = 1..Len(sock)
           /\ socketRef \in 0..Len(sock) /\ token \in 0..MaxTokens
           /\ IsFiniteSet(Dropping) /\ Cardinality(Dropping) \in Nat
           /\ Armed \in 0..1 /\ Left \in 0..MaxTokens /\ faults \in 0..MaxFaults
<1>1. /\ sock \in Seq(SocketRecord) /\ socketRef \in 0..Len(sock) /\ token \in 0..MaxTokens
      /\ faults \in 0..MaxFaults
  BY DEF SocketTypeOK, SockTypes, DataTypes, SocketRecord
<1>2. Len(sock) \in Nat /\ Sockets = 1..Len(sock)
  BY <1>1, LenProperties DEF Sockets
<1>3. IsFiniteSet(1..Len(sock)) /\ Dropping \subseteq 1..Len(sock)
  <2>1. IsFiniteSet(1..Len(sock))
    BY <1>2, FS_Interval
  <2>2. QED
    BY <1>2, <2>1 DEF Dropping
<1>4. IsFiniteSet(Dropping) /\ Cardinality(Dropping) \in Nat
  BY <1>3, FS_Subset, FS_CardinalityType
<1>5. Armed \in 0..1 /\ Left \in 0..MaxTokens
  BY <1>1 DEF Armed, Left
<1>6. QED
  BY <1>1, <1>2, <1>4, <1>5

LEMMA DroppingChanges ==
    ASSUME SocketTypeOK, NEW s \in Sockets, NEW st \in SocketState,
           sock' = [sock EXCEPT ![s].state = st]
    PROVE  /\ Len(sock') = Len(sock)
           /\ Dropping' = IF st = "dropping" THEN Dropping \union {s} ELSE Dropping \ {s}
<1>1. /\ Len(sock') = Len(sock) /\ Sockets' = Sockets
      /\ sock'[s].state = st /\ \A x \in Sockets \ {s} : sock'[x] = sock[x]
  BY StateChanges DEF SocketTypeOK
<1>2. QED
  BY <1>1 DEF Dropping

LEMMA ConnectBudget ==
    ASSUME SocketTypeOK, NEW t \in 0..MaxTokens, Connect(t)
    PROVE  /\ Len(sock') \in Len(sock)..(Len(sock) + 1)
           /\ \A x \in Sockets : x \in Sockets' /\ sock'[x] = sock[x]
           /\ Dropping' = Dropping
<1>1. sock \in Seq(SocketRecord) /\ Len(sock) \in Nat /\ Sockets = 1..Len(sock)
  BY SocketFacts
<1>2. CASE Alive(socketRef)
  <2>1. sock' = sock
    BY <1>2 DEF Connect
  <2>2. QED
    BY <1>1, <2>1 DEF Dropping, Sockets
<1>3. CASE ~Alive(socketRef)
  <2> DEFINE new == [state |-> "connecting", token |-> t]
  <2>1. sock' = Append(sock, new) /\ new.state = "connecting"
    BY <1>3 DEF Connect
  <2>2. new \in SocketRecord
    BY DEF Connect, SocketRecord, SocketState
  <2> HIDE DEF new
  <2>3. /\ Len(sock') = Len(sock) + 1 /\ Sockets' = 1..(Len(sock) + 1)
        /\ \A x \in 1..Len(sock) : sock'[x] = sock[x]
        /\ sock'[Len(sock) + 1] = new
    BY <1>1, <2>1, <2>2, AppendProperties, LenProperties DEF Sockets
  <2>4. \A x \in Sockets' : x \in Sockets \/ x = Len(sock) + 1
    BY <1>1, <2>3
  <2>5. Dropping' = Dropping
    <3>1. \A x \in Sockets : x \in Sockets'
      BY <1>1, <2>3
    <3>2. QED
      BY <1>1, <2>1, <2>3, <2>4, <3>1 DEF Dropping
  <2>6. QED
    BY <1>1, <2>3, <2>5
<1>4. QED
  BY <1>2, <1>3

LEMMA CloseBudget ==
    ASSUME SocketTypeOK, NEW s \in Sockets, NEW normal \in BOOLEAN, OnClose(s, normal)
    PROVE  /\ Len(sock') = Len(sock) /\ Dropping' = Dropping \ {s}
           /\ Armed' \in 0..1 /\ (normal => Armed' = Armed) /\ Left' = Left
<1>1. sock' = [sock EXCEPT ![s].state = "closed"] /\ UNCHANGED <<mounted, token>>
  BY DEF OnClose
<1>2. Len(sock') = Len(sock) /\ Dropping' = Dropping \ {s}
  BY <1>1, DroppingChanges DEF SocketState
<1>3. Left' = Left
  BY <1>1 DEF Left
<1>4. Armed' \in 0..1
  BY DEF Armed
<1>5. normal => retry' = retry
  BY DEF OnClose
<1>6. normal => Armed' = Armed
  BY <1>5 DEF Armed
<1>7. QED
  BY <1>2, <1>3, <1>4, <1>6

LEMMA BudgetKept ==
    SocketTypeOK /\ SocketBudget /\ [SocketNext]_socketVars => SocketBudget'
<1> SUFFICES ASSUME SocketTypeOK, SocketBudget, [SocketNext]_socketVars PROVE SocketBudget'
  OBVIOUS
<1> DEFINE d == Cardinality(Dropping)
<1>0. /\ Len(sock) \in Nat /\ d \in Nat /\ Armed \in 0..1 /\ Left \in 0..MaxTokens
      /\ faults \in Nat /\ Len(sock) + Armed + d + Left <= MaxTokens + faults
      /\ token \in 0..MaxTokens /\ IsFiniteSet(Dropping)
  BY SocketFacts DEF SocketBudget
<1>a. Dropping' = Dropping => Cardinality(Dropping)' = d
  OBVIOUS
<1> HIDE DEF d
<1>1. CASE TokenChange
  <2>1. token' = token + 1 /\ token' \in 0..MaxTokens /\ Connect(token')
        /\ UNCHANGED <<mounted, retry, faults>> /\ mounted
    BY <1>0, <1>1 DEF TokenChange
  <2>2. Len(sock') \in Len(sock)..(Len(sock) + 1) /\ Dropping' = Dropping
    BY <2>1, ConnectBudget
  <2>3. Left = MaxTokens - token /\ Left' = MaxTokens - (token + 1) /\ Armed' = Armed
    BY <2>1 DEF Left, Armed
  <2>4. QED
    BY <1>0, <1>a, <2>1, <2>2, <2>3 DEF SocketBudget
<1>2. CASE SignOut
  <2>1. UNCHANGED <<sock, retry, faults>> /\ mounted' = FALSE
    BY <1>2 DEF SignOut
  <2>2. Dropping' = Dropping /\ Armed' = Armed /\ Left' = 0 /\ Len(sock') = Len(sock)
    BY <2>1 DEF Dropping, Sockets, Armed, Left
  <2>3. QED
    BY <1>0, <1>a, <2>1, <2>2 DEF SocketBudget
<1>3. CASE CloseTimerFires
  <2>1. UNCHANGED <<token, mounted, faults>> /\ retry' = NoRetry
        /\ sock' = IF Alive(socketRef)
                     THEN [sock EXCEPT ![socketRef].state = "closing"] ELSE sock
    BY <1>3 DEF CloseTimerFires
  <2>2. Armed' = 0 /\ Left' = Left
    BY <2>1 DEF Armed, Left, NoRetry
  <2>3. Dropping' = Dropping /\ Len(sock') = Len(sock)
    <3>1. CASE Alive(socketRef)
      <4>1. socketRef \in Sockets /\ socketRef \notin Dropping
        BY <3>1, SocketFacts DEF Alive, State, None, Dropping
      <4>2. Dropping' = Dropping \ {socketRef} /\ Len(sock') = Len(sock)
        BY <2>1, <3>1, <4>1, DroppingChanges DEF SocketState
      <4>3. QED
        BY <4>1, <4>2
    <3>2. CASE ~Alive(socketRef)
      BY <2>1, <3>2 DEF Dropping, Sockets
    <3>3. QED
      BY <3>1, <3>2
  <2>4. QED
    BY <1>0, <1>a, <2>1, <2>2, <2>3 DEF SocketBudget
<1>4. CASE RetryFires
  <2>1. /\ retry.armed /\ retry' = [retry EXCEPT !.armed = FALSE]
        /\ retry.token \in 0..MaxTokens /\ Connect(retry.token)
        /\ UNCHANGED <<token, mounted, faults>>
    BY <1>4 DEF RetryFires, SocketTypeOK, SockTypes
  <2>2. Len(sock') \in Len(sock)..(Len(sock) + 1) /\ Dropping' = Dropping
    BY <2>1, ConnectBudget
  <2>3. Armed = 1 /\ Armed' = 0 /\ Left' = Left
    <3>1. retry \in [handle : BOOLEAN, armed : BOOLEAN, token : 0..MaxTokens]
      BY DEF SocketTypeOK, SockTypes
    <3>2. retry'.armed = FALSE
      BY <2>1, <3>1
    <3>3. QED
      BY <2>1, <3>2 DEF Armed, Left
  <2>4. QED
    BY <1>0, <1>a, <2>1, <2>2, <2>3 DEF SocketBudget
<1>5. CASE Send
  <2>1. UNCHANGED <<sock, retry, faults, mounted, token>>
    BY <1>5 DEF Send
  <2>2. QED
    BY <2>1 DEF SocketBudget, Dropping, Sockets, Armed, Left
<1>6. ASSUME NEW s \in Sockets, Opens(s) PROVE SocketBudget'
  <2>1. UNCHANGED <<token, mounted, faults>> /\ retry' = NoRetry
        /\ sock' = [sock EXCEPT ![s].state = "open"] /\ State(s) = "connecting"
    BY <1>6 DEF Opens
  <2>2. s \notin Dropping
    BY <2>1, SocketFacts DEF Dropping, State, None
  <2>3. Dropping' = Dropping /\ Len(sock') = Len(sock)
    <3>1. Dropping' = Dropping \ {s} /\ Len(sock') = Len(sock)
      BY <2>1, DroppingChanges DEF SocketState
    <3>2. QED
      BY <2>2, <3>1
  <2>4. Armed' = 0 /\ Left' = Left
    BY <2>1 DEF Armed, Left, NoRetry
  <2>5. QED
    BY <1>0, <1>a, <2>1, <2>3, <2>4 DEF SocketBudget
<1>7. ASSUME NEW s \in Sockets, Fails(s) \/ Breaks(s) PROVE SocketBudget'
  <2>1. faults' = faults + 1 /\ OnClose(s, FALSE) /\ State(s) \in {"connecting", "open"}
    BY <1>7 DEF Fails, Breaks, Fault
  <2>2. s \notin Dropping
    BY <2>1, SocketFacts DEF Dropping, State, None
  <2>3. /\ Len(sock') = Len(sock) /\ Dropping' = Dropping \ {s}
        /\ Armed' \in 0..1 /\ Left' = Left
    BY <2>1, CloseBudget
  <2>4. Dropping' = Dropping
    BY <2>2, <2>3
  <2>5. QED
    BY <1>0, <1>a, <2>1, <2>3, <2>4 DEF SocketBudget
<1>8. ASSUME NEW s \in Sockets, PeerCloses(s) PROVE SocketBudget'
  <2>1. /\ faults' = faults + 1 /\ UNCHANGED <<token, mounted, retry>>
        /\ sock' = [sock EXCEPT ![s].state = "dropping"] /\ State(s) = "open"
    BY <1>8 DEF PeerCloses, Fault
  <2>2. s \notin Dropping
    BY <2>1, SocketFacts DEF Dropping, State, None
  <2>3. Dropping' = Dropping \union {s} /\ Len(sock') = Len(sock)
    BY <2>1, DroppingChanges DEF SocketState
  <2>4. Cardinality(Dropping)' = d + 1
    BY <1>0, <2>2, <2>3, FS_AddElement DEF d
  <2>5. Armed' = Armed /\ Left' = Left
    BY <2>1 DEF Armed, Left
  <2>6. Len(sock') + Armed' + (d + 1) + Left' <= MaxTokens + faults'
    <3>1. faults' = faults + 1 /\ Len(sock') = Len(sock)
      BY <2>1, <2>3
    <3> HIDE DEF Armed, Left
    <3>2. QED
      BY <1>0, <2>5, <3>1
  <2>7. QED
    BY <2>4, <2>6 DEF SocketBudget
<1>9. ASSUME NEW s \in Sockets, Closed(s) PROVE SocketBudget'
  <2>1. faults' = faults /\ OnClose(s, State(s) = "closing")
        /\ State(s) \in {"closing", "dropping"}
    BY <1>9 DEF Closed
  <2>2. /\ Len(sock') = Len(sock) /\ Dropping' = Dropping \ {s}
        /\ Armed' \in 0..1 /\ (State(s) = "closing" => Armed' = Armed) /\ Left' = Left
    <3>1. (State(s) = "closing") \in BOOLEAN
      OBVIOUS
    <3>2. QED
      BY <2>1, <3>1, CloseBudget
  <2>3. CASE State(s) = "closing"
    <3>1. s \notin Dropping
      BY <2>3, SocketFacts DEF Dropping, State, None
    <3>2. Dropping' = Dropping
      BY <2>2, <3>1
    <3>3. QED
      BY <1>0, <1>a, <2>1, <2>2, <2>3, <3>2 DEF SocketBudget
  <2>4. CASE State(s) = "dropping"
    <3>1. s \in Dropping
      BY <2>4, SocketFacts DEF Dropping, State, None
    <3>2. Cardinality(Dropping)' = d - 1
      BY <1>0, <2>2, <3>1, FS_RemoveElement DEF d
    <3>3. QED
      BY <1>0, <2>1, <2>2, <3>2 DEF SocketBudget
  <2>5. QED
    BY <2>1, <2>3, <2>4
<1>10. CASE UNCHANGED socketVars
  BY <1>10 DEF socketVars, SocketBudget, Dropping, Sockets, Armed, Left
<1>11. QED
  BY <1>1, <1>2, <1>3, <1>4, <1>5, <1>6, <1>7, <1>8, <1>9, <1>10 DEF SocketNext

\* A socket that is no longer connecting never is again, nor opens again.
Steady ==
    \A s \in Sockets :
       /\ s \in Sockets'
       /\ sock[s].state # "connecting" =>
             /\ sock'[s].state # "connecting"
             /\ sock'[s].state = "open" => sock[s].state = "open"

LEMMA SocketsSteady == SocketTypeOK /\ [SocketNext]_socketVars => Steady
<1> SUFFICES ASSUME SocketTypeOK, [SocketNext]_socketVars PROVE Steady
  OBVIOUS
<1>1. CASE sock' = sock
  BY <1>1 DEF Steady, Sockets
<1>2. ASSUME NEW t \in 0..MaxTokens, Connect(t) PROVE Steady
  BY <1>2, ConnectBudget DEF Steady
<1>3. ASSUME NEW s \in Sockets, NEW st \in SocketState,
             sock' = [sock EXCEPT ![s].state = st],
             st # "connecting", st = "open" => sock[s].state = "connecting"
      PROVE  Steady
  <2>1. /\ Sockets' = Sockets /\ sock'[s].state = st
        /\ \A x \in Sockets \ {s} : sock'[x] = sock[x]
    BY <1>3, StateChanges DEF SocketTypeOK
  <2>2. QED
    BY <1>3, <2>1 DEF Steady
<1>4. CASE TokenChange
  <2>1. token' \in 0..MaxTokens /\ Connect(token')
    BY <1>4, SocketFacts DEF TokenChange
  <2>2. QED
    BY <1>2, <2>1
<1>5. CASE RetryFires
  <2>1. retry.token \in 0..MaxTokens /\ Connect(retry.token)
    BY <1>5 DEF RetryFires, SocketTypeOK, SockTypes
  <2>2. QED
    BY <1>2, <2>1
<1>6. CASE CloseTimerFires
  <2>1. CASE Alive(socketRef)
    <3>1. socketRef \in Sockets
      BY <2>1, SocketFacts DEF Alive, State, None
    <3>2. sock' = [sock EXCEPT ![socketRef].state = "closing"]
      BY <1>6, <2>1 DEF CloseTimerFires
    <3>3. QED
      BY <1>3, <3>1, <3>2 DEF SocketState
  <2>2. CASE ~Alive(socketRef)
    BY <1>1, <1>6, <2>2 DEF CloseTimerFires
  <2>3. QED
    BY <2>1, <2>2
<1>7. CASE SignOut \/ Send \/ UNCHANGED socketVars
  BY <1>1, <1>7 DEF SignOut, Send, socketVars
<1>8. ASSUME NEW s \in Sockets, Opens(s) PROVE Steady
  <2>1. sock' = [sock EXCEPT ![s].state = "open"] /\ sock[s].state = "connecting"
    BY <1>8, SocketFacts DEF Opens, State, None
  <2>2. QED
    BY <1>3, <2>1 DEF SocketState
<1>9. ASSUME NEW s \in Sockets, Fails(s) \/ Breaks(s) \/ PeerCloses(s) \/ Closed(s) PROVE Steady
  <2>1. PICK st \in {"closed", "dropping"} : sock' = [sock EXCEPT ![s].state = st]
    BY <1>9 DEF Fails, Breaks, PeerCloses, Closed, OnClose
  <2>2. QED
    BY <1>3, <2>1 DEF SocketState
<1>10. QED
  BY <1>4, <1>5, <1>6, <1>7, <1>8, <1>9 DEF SocketNext

-----------------------------------------------------------------------------
\* What the panel, the streams and the frames know of each other.

FrameRecord  == [type : {"RESPONSE", "COMPLETE", "ERROR"}, ask : 0..MaxAsks,
                 chunk : 0..MaxChunks]
StreamRecord == [sock : 0..MaxSockets, sent : 0..MaxChunks, running : BOOLEAN]

PanelTypes ==
    /\ panel \in BOOLEAN /\ isTyping \in BOOLEAN
    /\ messages \in Seq(Bubble) /\ asks \in 0..MaxAsks

ServerTypes ==
    /\ stream \in [Asks -> StreamRecord]
    /\ frames \in [1..MaxSockets -> Seq(FrameRecord)]
    /\ alerts \in 0..MaxMsgs

\* A stream belongs to a question that was asked, and to a session that was
\* open then.
StreamsTrue ==
    \A r \in Asks :
       /\ r > asks => stream[r] = NoStream
       /\ stream[r].sock \in 0..Len(sock)
       /\ \A s \in Sockets : s = stream[r].sock => sock[s].state # "connecting"

IsChunk(f, r) == f.type = "RESPONSE" /\ f.ask = r

\* The chunks k to n of r are among the frames q.
AllFrom(q, r, k, n) == \A l \in k..n : \E j \in 1..Len(q) : q[j] = Chunk(r, l)

\* The frames q under way on socket s: the newest chunks of the answers (the
\* streams st) that are bound to it, each in its order.
LineTrue(st, s, q) ==
    \A i \in 1..Len(q) : q[i].type = "RESPONSE" =>
       /\ q[i].ask \in Asks
       /\ st[q[i].ask].sock = s
       /\ q[i].chunk \in 1..st[q[i].ask].sent
       /\ \A j \in 1..Len(q) : i < j /\ IsChunk(q[j], q[i].ask) => q[i].chunk < q[j].chunk
       /\ AllFrom(q, q[i].ask, q[i].chunk, st[q[i].ask].sent)

LinesTrue == \A s \in 1..MaxSockets : LineTrue(stream, s, frames[s])

\* After chunk k of r, of which n were sent, those that follow it are under way.
Awaits(q, r, k, n) ==
    /\ AllFrom(q, r, k + 1, n)
    /\ \A j \in 1..Len(q) : IsChunk(q[j], r) => k < q[j].chunk

OpenSockets == {s \in Sockets : sock[s].state = "open"}

Newest(m) == m.chunks[Len(m.chunks)]

\* A reply has consecutive chunks, and while its session is open the next one
\* to arrive is the one that is missing.
ReplyTrue(st, fr, open, m) ==
    m.role = "ai" =>
       /\ m.ask \in Asks /\ Len(m.chunks) >= 1
       /\ Newest(m) \in 1..st[m.ask].sent
       /\ \A k \in 2..Len(m.chunks) : m.chunks[k] = m.chunks[k - 1] + 1
       /\ st[m.ask].sock \in open =>
             Awaits(fr[st[m.ask].sock], m.ask, Newest(m), st[m.ask].sent)

RepliesTrue ==
    \A i \in 1..Len(messages) : ReplyTrue(stream, frames, OpenSockets, messages[i])

\* No question has two replies.
RepliesApart(list) ==
    \A i, j \in 1..Len(list) : list[i].role = "ai" /\ IsReply(list[j], list[i].ask) => i = j

BubblesTrue == RepliesTrue /\ RepliesApart(messages) /\ (~panel => messages = <<>>)

Known == StreamsTrue /\ LinesTrue /\ BubblesTrue

AiInv == SocketTypeOK /\ SocketBudget /\ PanelTypes /\ ServerTypes /\ Known

LEMMA AiFacts ==
    ASSUME AiInv
    PROVE  /\ Len(sock) \in 0..MaxSockets /\ Sockets = 1..Len(sock)
           /\ MaxSockets \in Nat /\ Sockets \subseteq 1..MaxSockets
           /\ OpenSockets \subseteq 1..MaxSockets
           /\ asks \in 0..MaxAsks /\ Asks = 1..MaxAsks
           /\ messages \in Seq(Bubble) /\ Len(messages) \in Nat
           /\ \A i \in 1..Len(messages) : messages[i] \in Bubble
           /\ \A r \in Asks : /\ stream[r] \in StreamRecord
                              /\ stream[r].sock \in 0..MaxSockets
                              /\ stream[r].sent \in 0..MaxChunks
           /\ \A s \in 1..MaxSockets : /\ frames[s] \in Seq(FrameRecord)
                                       /\ Len(frames[s]) \in Nat
<1>1. Len(sock) \in 0..MaxSockets /\ Sockets = 1..Len(sock) /\ MaxSockets \in Nat
  <2>1. /\ Len(sock) \in Nat /\ Cardinality(Dropping) \in Nat /\ Armed \in 0..1
        /\ Left \in 0..MaxTokens /\ faults \in 0..MaxFaults /\ Sockets = 1..Len(sock)
    BY SocketFacts DEF AiInv
  <2>2. Len(sock) + Armed + Cardinality(Dropping) + Left <= MaxTokens + faults
    BY DEF AiInv, SocketBudget
  <2> HIDE DEF Armed, Left
  <2>3. QED
    BY <2>1, <2>2 DEF MaxSockets
<1>2. /\ messages \in Seq(Bubble) /\ asks \in 0..MaxAsks /\ Asks = 1..MaxAsks
  BY DEF AiInv, PanelTypes, Asks
<1>3. Len(messages) \in Nat /\ \A i \in 1..Len(messages) : messages[i] \in Bubble
  BY <1>2, LenProperties, ElementOfSeq
<1>4. ASSUME NEW r \in Asks
      PROVE  /\ stream[r] \in StreamRecord
             /\ stream[r].sock \in 0..MaxSockets /\ stream[r].sent \in 0..MaxChunks
  <2>1. stream[r] \in StreamRecord
    BY DEF AiInv, ServerTypes
  <2>2. QED
    BY <2>1 DEF StreamRecord
<1>5. \A s \in 1..MaxSockets : frames[s] \in Seq(FrameRecord) /\ Len(frames[s]) \in Nat
  BY LenProperties DEF AiInv, ServerTypes
<1>6. OpenSockets \subseteq 1..MaxSockets
  BY <1>1 DEF OpenSockets
<1>7. QED
  BY <1>1, <1>2, <1>3, <1>4, <1>5, <1>6

LEMMA AiInit == Init => AiInv
<1> SUFFICES ASSUME Init PROVE AiInv
  OBVIOUS
<1>1. SocketTypeOK
  BY InitTypes DEF Init
<1>2. SocketBudget
  <2>1. /\ sock = <<[state |-> "connecting", token |-> 1]>> /\ mounted = TRUE /\ token = 1
        /\ retry = NoRetry /\ faults = 0
    BY DEF Init, SocketInit
  <2>2. Len(sock) = 1 /\ Sockets = {1} /\ sock[1].state = "connecting"
    BY <2>1 DEF Sockets
  <2>3. Dropping = {}
    BY <2>2 DEF Dropping
  <2>4. Cardinality(Dropping) = 0 /\ Armed = 0 /\ Left = MaxTokens - 1
    BY <2>1, <2>3, FS_EmptySet DEF Armed, Left, NoRetry
  <2>5. QED
    BY <2>1, <2>2, <2>4 DEF SocketBudget
<1>3. MaxSockets \in Nat /\ Len(<<>>) = 0
  BY DEF MaxSockets
<1>4. PanelTypes
  <2>1. <<>> \in Seq(Bubble)
    BY EmptySeq
  <2>2. messages = <<>> /\ panel = FALSE /\ isTyping = FALSE /\ asks = 0
    BY DEF Init
  <2>3. asks \in 0..MaxAsks
    BY <2>2
  <2>4. QED
    BY <2>1, <2>2, <2>3 DEF PanelTypes
<1>5. ServerTypes
  <2>1. <<>> \in Seq(FrameRecord)
    BY EmptySeq
  <2>2. NoStream \in StreamRecord
    BY <1>3 DEF NoStream, StreamRecord, None
  <2>3. QED
    BY <2>1, <2>2 DEF Init, ServerTypes
<1>6. StreamsTrue
  <2>1. \A r \in Asks : stream[r] = NoStream
    BY DEF Init
  <2>2. Len(sock) = 1 /\ Sockets = 1..1
    BY DEF Init, SocketInit, Sockets
  <2>3. QED
    BY <2>1, <2>2 DEF StreamsTrue, NoStream, None
<1>7. LinesTrue
  BY <1>3 DEF Init, LinesTrue, LineTrue
<1>8. BubblesTrue
  BY <1>3 DEF Init, BubblesTrue, RepliesTrue, RepliesApart
<1>9. QED
  BY <1>1, <1>2, <1>4, <1>5, <1>6, <1>7, <1>8 DEF AiInv, Known

-----------------------------------------------------------------------------
\* The sockets move and the streams stay.

\* A reply needs less when fewer sessions are open.
LEMMA FewerOpen ==
    ASSUME NEW st, NEW fr, NEW open, NEW fewer, fewer \subseteq open, NEW m,
           ReplyTrue(st, fr, open, m)
    PROVE  ReplyTrue(st, fr, fewer, m)
BY DEF ReplyTrue

\* A stream's session that is open now was open before.
LEMMA StreamsSteady ==
    ASSUME AiInv, Steady, SocketTypeOK'
    PROVE  /\ \A r \in Asks : /\ stream[r].sock \in 0..Len(sock')
                              /\ \A s \in Sockets' : s = stream[r].sock =>
                                    sock'[s].state # "connecting"
           /\ \A r \in Asks : stream[r].sock \in OpenSockets' => stream[r].sock \in OpenSockets
<1>1. Len(sock') \in Nat /\ Sockets' = 1..Len(sock')
  BY LenProperties DEF Sockets, SocketTypeOK, SockTypes
<1>2. Len(sock) \in Nat /\ Sockets = 1..Len(sock)
  BY AiFacts
<1> SUFFICES ASSUME NEW r \in Asks, NEW s, s = stream[r].sock
             PROVE  /\ s \in 0..Len(sock') /\ (s \in Sockets' => sock'[s].state # "connecting")
                    /\ s \in OpenSockets' => s \in OpenSockets
  OBVIOUS
<1>3. s \in 0..Len(sock) /\ (s \in Sockets => sock[s].state # "connecting")
  BY DEF AiInv, Known, StreamsTrue
<1>4. CASE s = 0
  BY <1>1, <1>4 DEF OpenSockets
<1>5. CASE s # 0
  <2>1. s \in Sockets
    BY <1>2, <1>3, <1>5
  <2>2. /\ s \in Sockets' /\ sock'[s].state # "connecting"
        /\ sock'[s].state = "open" => sock[s].state = "open"
    BY <1>3, <2>1 DEF Steady
  <2>3. QED
    BY <1>1, <2>1, <2>2 DEF OpenSockets
<1>6. QED
  BY <1>4, <1>5

\* A reply remains true when sessions close.
LEMMA ReplySteady ==
    ASSUME AiInv, Steady, SocketTypeOK', NEW m, ReplyTrue(stream, frames, OpenSockets, m)
    PROVE  ReplyTrue(stream, frames, OpenSockets', m)
BY StreamsSteady DEF ReplyTrue

\* A step that leaves the answers alone and keeps the bubbles or drops them all.
LEMMA Idle ==
    ASSUME AiInv, Steady, SocketTypeOK', UNCHANGED <<asks, stream, frames>>,
           messages' = <<>> \/ (messages' = messages /\ (panel' \/ ~panel))
    PROVE  Known'
<1>1. StreamsTrue'
  BY StreamsSteady DEF AiInv, Known, StreamsTrue
<1>2. LinesTrue'
  BY DEF AiInv, Known, LinesTrue
<1>3. BubblesTrue'
  <2>1. CASE messages' = <<>>
    <3>1. Len(messages') = 0
      BY <2>1
    <3>2. QED
      BY <2>1, <3>1 DEF BubblesTrue, RepliesTrue, RepliesApart
  <2>2. CASE messages' = messages /\ (panel' \/ ~panel)
    <3>1. RepliesTrue'
      BY <2>2, ReplySteady DEF AiInv, Known, BubblesTrue, RepliesTrue
    <3>2. QED
      BY <2>2, <3>1 DEF AiInv, Known, BubblesTrue
  <2>3. QED
    BY <2>1, <2>2
<1>4. QED
  BY <1>1, <1>2, <1>3 DEF Known

\* The frames of a closed socket are lost.
LEMMA LoseKept ==
    ASSUME AiInv, Steady, SocketTypeOK', NEW s \in Sockets, Lose(s), s \notin OpenSockets'
    PROVE  ServerTypes' /\ PanelTypes' /\ Known'
<1>1. /\ frames' = [frames EXCEPT ![s] = <<>>]
      /\ UNCHANGED <<panel, isTyping, messages, asks, stream, alerts>>
  BY DEF Lose, panelVars
<1>2. s \in 1..MaxSockets
  BY AiFacts
<1>3. /\ frames' \in [1..MaxSockets -> Seq(FrameRecord)]
      /\ frames'[s] = <<>> /\ \A t \in (1..MaxSockets) \ {s} : frames'[t] = frames[t]
  BY <1>1, <1>2, EmptySeq DEF AiInv, ServerTypes
<1>4. ServerTypes' /\ PanelTypes'
  BY <1>1, <1>3 DEF AiInv, ServerTypes, PanelTypes
<1>5. StreamsTrue'
  BY <1>1, StreamsSteady DEF AiInv, Known, StreamsTrue
<1>6. LinesTrue'
  <2>1. LineTrue(stream, s, <<>>)
    <3>1. Len(<<>>) = 0
      OBVIOUS
    <3>2. QED
      BY <3>1 DEF LineTrue
  <2>2. QED
    BY <1>1, <1>3, <2>1 DEF AiInv, Known, LinesTrue
<1>7. BubblesTrue'
  <2>1. ASSUME NEW m, ReplyTrue(stream, frames, OpenSockets, m)
        PROVE  ReplyTrue(stream, frames', OpenSockets', m)
    <3>1. ReplyTrue(stream, frames, OpenSockets', m)
      BY <2>1, ReplySteady
    <3>2. \A t \in OpenSockets' : t \in Sockets /\ t = stream[m.ask].sock => frames'[t] = frames[t]
      BY <1>3, AiFacts
    <3>3. m.role = "ai" /\ stream[m.ask].sock \in OpenSockets' => stream[m.ask].sock \in OpenSockets
      BY <2>1, StreamsSteady DEF ReplyTrue
    <3>4. QED
      BY <3>1, <3>2, <3>3 DEF ReplyTrue, OpenSockets
  <2>2. RepliesTrue'
    BY <1>1, <2>1 DEF AiInv, Known, BubblesTrue, RepliesTrue
  <2>3. QED
    BY <1>1, <2>2 DEF AiInv, Known, BubblesTrue
<1>8. QED
  BY <1>4, <1>5, <1>6, <1>7 DEF Known

-----------------------------------------------------------------------------
\* A frame is sent: the next chunk of a stream, or none.

\* Frame f leaves on socket s, which makes st2 of the streams st.
Sends(st, s, f, st2) ==
    /\ st \in [Asks -> StreamRecord] /\ st2 \in [Asks -> StreamRecord]
    /\ \A r \in Asks : /\ st2[r].sock = st[r].sock
                       /\ st2[r].sent = IF IsChunk(f, r) THEN st[r].sent + 1
                                        ELSE st[r].sent
    /\ f \in FrameRecord
    /\ f.type = "RESPONSE" => /\ f.ask \in Asks /\ st[f.ask].sock = s
                              /\ f.chunk = st[f.ask].sent + 1

LEMMA AppendFrame ==
    ASSUME NEW q \in Seq(FrameRecord), NEW f \in FrameRecord
    PROVE  /\ Append(q, f) \in Seq(FrameRecord)
           /\ Len(q) \in Nat /\ Len(Append(q, f)) = Len(q) + 1
           /\ \A i \in 1..Len(q) : Append(q, f)[i] = q[i]
           /\ Append(q, f)[Len(q) + 1] = f
           /\ \A i \in 1..Len(Append(q, f)) : i \in 1..Len(q) \/ i = Len(q) + 1
BY AppendProperties, LenProperties

LEMMA AppendAllFrom ==
    ASSUME NEW q \in Seq(FrameRecord), NEW f \in FrameRecord, NEW r, NEW k \in Nat,
           NEW n \in Nat, AllFrom(q, r, k, n), NEW n2 \in Nat,
           n2 = n \/ (n2 = n + 1 /\ f = Chunk(r, n2))
    PROVE  AllFrom(Append(q, f), r, k, n2)
<1> DEFINE p == Append(q, f)
<1>1. /\ Len(q) \in Nat /\ Len(p) = Len(q) + 1
      /\ \A i \in 1..Len(q) : p[i] = q[i]
      /\ p[Len(q) + 1] = f
  BY AppendFrame
<1> HIDE DEF p
<1>2. SUFFICES ASSUME NEW l \in k..n2 PROVE \E j \in 1..Len(p) : p[j] = Chunk(r, l)
  BY DEF AllFrom, p
<1>3. CASE l \in k..n
  <2>1. PICK j \in 1..Len(q) : q[j] = Chunk(r, l)
    BY <1>3 DEF AllFrom
  <2>2. j \in 1..Len(p) /\ p[j] = Chunk(r, l)
    BY <1>1, <2>1
  <2>3. QED
    BY <2>2
<1>4. CASE l \notin k..n
  <2>1. n2 = n + 1 /\ l = n2
    BY <1>2, <1>4
  <2>2. Len(q) + 1 \in 1..Len(p) /\ p[Len(q) + 1] = Chunk(r, l)
    BY <1>1, <2>1
  <2>3. QED
    BY <2>2
<1>5. QED
  BY <1>3, <1>4

LEMMA SendsFacts ==
    ASSUME NEW st, NEW s, NEW f, NEW st2, Sends(st, s, f, st2)
    PROVE  /\ f.type = "RESPONSE" => f = Chunk(f.ask, f.chunk)
           /\ \A r \in Asks : /\ st[r].sent \in Nat /\ st2[r].sent \in Nat
                              /\ st2[r].sent \in st[r].sent..(st[r].sent + 1)
                              /\ \/ st2[r].sent = st[r].sent
                                 \/ /\ st2[r].sent = st[r].sent + 1
                                    /\ f = Chunk(r, st2[r].sent)
<1>1. f.type = "RESPONSE" => f = Chunk(f.ask, f.chunk)
  BY DEF Sends, FrameRecord, Chunk
<1>2. ASSUME NEW r \in Asks
      PROVE  /\ st[r].sent \in Nat /\ st2[r].sent \in Nat
             /\ st2[r].sent \in st[r].sent..(st[r].sent + 1)
             /\ \/ st2[r].sent = st[r].sent
                \/ /\ st2[r].sent = st[r].sent + 1
                   /\ f = Chunk(r, st2[r].sent)
  <2>1. st[r].sent \in Nat /\ st2[r].sent \in Nat
    BY DEF Sends, StreamRecord
  <2>2. CASE IsChunk(f, r)
    <3>1. st2[r].sent = st[r].sent + 1 /\ f.chunk = st2[r].sent /\ f.ask = r
      BY <2>2 DEF Sends, IsChunk
    <3>2. f = Chunk(r, st2[r].sent)
      BY <1>1, <2>2, <3>1 DEF IsChunk
    <3>3. QED
      BY <2>1, <3>1, <3>2
  <2>3. CASE ~IsChunk(f, r)
    <3>1. st2[r].sent = st[r].sent
      BY <2>3 DEF Sends
    <3>2. QED
      BY <2>1, <3>1
  <2>4. QED
    BY <2>2, <2>3
<1>3. QED
  BY <1>1, <1>2

LEMMA LineSends ==
    ASSUME NEW st, NEW s, NEW f, NEW st2, Sends(st, s, f, st2),
           NEW q \in Seq(FrameRecord), LineTrue(st, s, q)
    PROVE  LineTrue(st2, s, Append(q, f))
<1> DEFINE p == Append(q, f)
<1>0. f \in FrameRecord
  BY DEF Sends
<1>1. /\ Len(q) \in Nat /\ Len(p) = Len(q) + 1
      /\ \A i \in 1..Len(q) : p[i] = q[i]
      /\ p[Len(q) + 1] = f
      /\ \A i \in 1..Len(p) : i \in 1..Len(q) \/ i = Len(q) + 1
  BY <1>0, AppendFrame
<1> HIDE DEF p
<1>2. SUFFICES ASSUME NEW i \in 1..Len(p), p[i].type = "RESPONSE", NEW r, r = p[i].ask,
                      NEW c, c = p[i].chunk
      PROVE  /\ r \in Asks /\ st2[r].sock = s /\ c \in 1..st2[r].sent
             /\ \A j \in 1..Len(p) : i < j /\ IsChunk(p[j], r) => c < p[j].chunk
             /\ AllFrom(p, r, c, st2[r].sent)
  BY DEF LineTrue, p
<1>3. CASE i \in 1..Len(q)
  <2>1. /\ r \in Asks /\ st[r].sock = s /\ c \in 1..st[r].sent
        /\ \A j \in 1..Len(q) : i < j /\ IsChunk(q[j], r) => c < q[j].chunk
        /\ AllFrom(q, r, c, st[r].sent)
    BY <1>1, <1>2, <1>3 DEF LineTrue
  <2>2. st2[r].sock = s /\ c \in 1..st2[r].sent /\ c \in Nat
    <3>1. st2[r].sock = s
      BY <2>1 DEF Sends
    <3>2. /\ st[r].sent \in Nat /\ st2[r].sent \in Nat
          /\ st2[r].sent \in st[r].sent..(st[r].sent + 1)
      BY <2>1, SendsFacts
    <3>3. QED
      BY <2>1, <3>1, <3>2
  <2>3. ASSUME NEW j \in 1..Len(p), i < j, IsChunk(p[j], r) PROVE c < p[j].chunk
    <3>1. CASE j \in 1..Len(q)
      BY <1>1, <2>1, <2>3, <3>1
    <3>2. CASE j = Len(q) + 1
      <4>1. p[j] = f /\ f.type = "RESPONSE" /\ f.ask = r
        BY <1>1, <2>3, <3>2 DEF IsChunk
      <4>2. p[j].chunk = st[r].sent + 1
        BY <4>1 DEF Sends
      <4>3. st[r].sent \in Nat
        BY <2>1, SendsFacts
      <4>4. QED
        BY <2>1, <4>2, <4>3
    <3>3. QED
      BY <1>1, <3>1, <3>2
  <2>4. AllFrom(p, r, c, st2[r].sent)
    <3>1. /\ st[r].sent \in Nat /\ st2[r].sent \in Nat
          /\ \/ st2[r].sent = st[r].sent
             \/ st2[r].sent = st[r].sent + 1 /\ f = Chunk(r, st2[r].sent)
      BY <2>1, SendsFacts
    <3>2. QED
      BY <1>0, <2>1, <2>2, <3>1, AppendAllFrom DEF p
  <2>5. QED
    BY <2>1, <2>2, <2>3, <2>4
<1>4. CASE i = Len(q) + 1
  <2>1. p[i] = f /\ f.type = "RESPONSE" /\ IsChunk(f, r) /\ f.ask = r /\ f.chunk = c
    BY <1>1, <1>2, <1>4 DEF IsChunk
  <2>2. /\ r \in Asks /\ st2[r].sock = s /\ c = st[r].sent + 1
        /\ st2[r].sent = st[r].sent + 1
    BY <2>1 DEF Sends
  <2>3. st[r].sent \in Nat
    BY <2>2, SendsFacts
  <2>4. c \in 1..st2[r].sent /\ \A l \in c..st2[r].sent : l = c
    BY <2>2, <2>3
  <2>5. \A j \in 1..Len(p) : ~(i < j)
    BY <1>1, <1>4
  <2>6. p[i] = Chunk(r, c)
    BY <2>1, SendsFacts
  <2>7. AllFrom(p, r, c, st2[r].sent)
    BY <2>4, <2>6 DEF AllFrom
  <2>8. QED
    BY <2>2, <2>4, <2>5, <2>7
<1>5. QED
  BY <1>1, <1>3, <1>4

LEMMA LineElsewhere ==
    ASSUME NEW st, NEW s, NEW f, NEW st2, Sends(st, s, f, st2),
           NEW t, t # s, NEW q, LineTrue(st, t, q)
    PROVE  LineTrue(st2, t, q)
<1>1. ASSUME NEW i \in 1..Len(q), q[i].type = "RESPONSE"
      PROVE  /\ st2[q[i].ask].sock = st[q[i].ask].sock
             /\ st2[q[i].ask].sent = st[q[i].ask].sent
  <2>1. q[i].ask \in Asks /\ st[q[i].ask].sock # s
    BY <1>1 DEF LineTrue
  <2>2. ~IsChunk(f, q[i].ask)
    BY <2>1 DEF Sends, IsChunk
  <2>3. QED
    BY <2>1, <2>2 DEF Sends
<1>2. QED
  BY <1>1 DEF LineTrue

LEMMA ReplySends ==
    ASSUME NEW st, NEW s, NEW f, NEW st2, Sends(st, s, f, st2),
           NEW fr \in [1..MaxSockets -> Seq(FrameRecord)], s \in 1..MaxSockets,
           NEW open, open \subseteq 1..MaxSockets, NEW m, ReplyTrue(st, fr, open, m)
    PROVE  ReplyTrue(st2, [fr EXCEPT ![s] = Append(@, f)], open, m)
<1> DEFINE fr2 == [fr EXCEPT ![s] = Append(@, f)]
<1>0. fr2[s] = Append(fr[s], f) /\ \A t \in (1..MaxSockets) \ {s} : fr2[t] = fr[t]
  OBVIOUS
<1> HIDE DEF fr2
<1>1. SUFFICES ASSUME m.role = "ai", NEW r, r = m.ask, NEW k, k = Newest(m),
                      NEW t, t = st[r].sock
      PROVE  /\ st2[r].sock = t /\ k \in 1..st2[r].sent
             /\ t \in open => Awaits(fr2[t], r, k, st2[r].sent)
  BY DEF ReplyTrue, fr2
<1>2. /\ r \in Asks /\ k \in 1..st[r].sent
      /\ t \in open => Awaits(fr[t], r, k, st[r].sent)
  BY <1>1 DEF ReplyTrue
<1>3. /\ st[r].sent \in Nat /\ st2[r].sent \in Nat /\ st2[r].sent \in st[r].sent..(st[r].sent + 1)
      /\ \/ st2[r].sent = st[r].sent
         \/ st2[r].sent = st[r].sent + 1 /\ f = Chunk(r, st2[r].sent)
  BY <1>2, SendsFacts
<1>4. st2[r].sock = t /\ k \in 1..st2[r].sent /\ k \in Nat
  BY <1>1, <1>2, <1>3 DEF Sends
<1>5. ASSUME t \in open, t # s PROVE Awaits(fr2[t], r, k, st2[r].sent)
  <2>1. ~IsChunk(f, r)
    BY <1>1, <1>5 DEF Sends, IsChunk
  <2>2. st2[r].sent = st[r].sent
    BY <1>2, <2>1 DEF Sends
  <2>3. fr2[t] = fr[t]
    BY <1>0, <1>5
  <2>4. QED
    BY <1>2, <1>5, <2>2, <2>3
<1>6. ASSUME t \in open, t = s PROVE Awaits(fr2[t], r, k, st2[r].sent)
  <2> DEFINE q == fr[s]
             p == Append(q, f)
  <2>0. q \in Seq(FrameRecord) /\ f \in FrameRecord
    BY DEF Sends
  <2>1. /\ Len(q) \in Nat
        /\ \A i \in 1..Len(q) : p[i] = q[i]
        /\ p[Len(q) + 1] = f
        /\ \A i \in 1..Len(p) : i \in 1..Len(q) \/ i = Len(q) + 1
    BY <2>0, AppendFrame
  <2>2. Awaits(q, r, k, st[r].sent)
    BY <1>2, <1>6
  <2> HIDE DEF q
  <2>3. AllFrom(p, r, k + 1, st2[r].sent)
    <3>1. AllFrom(q, r, k + 1, st[r].sent) /\ k + 1 \in Nat
      BY <1>4, <2>2 DEF Awaits
    <3>2. QED
      BY <1>3, <2>0, <3>1, AppendAllFrom
  <2> HIDE DEF p
  <2>4. ASSUME NEW j \in 1..Len(p), IsChunk(p[j], r) PROVE k < p[j].chunk
    <3>1. CASE j \in 1..Len(q)
      BY <2>1, <2>2, <2>4, <3>1 DEF Awaits
    <3>2. CASE j = Len(q) + 1
      <4>1. p[j].chunk = st[r].sent + 1
        BY <2>1, <2>4, <3>2 DEF IsChunk, Sends
      <4>2. QED
        BY <1>2, <1>3, <4>1
    <3>3. QED
      BY <2>1, <3>1, <3>2
  <2>5. fr2[t] = p
    BY <1>0, <1>6 DEF p, q
  <2>6. QED
    BY <2>3, <2>4, <2>5 DEF Awaits
<1>7. QED
  BY <1>4, <1>5, <1>6

\* A step of the panel or of the streams leaves the sockets alone.
LEMMA SocketsRest ==
    ASSUME AiInv, UNCHANGED socketVars
    PROVE  /\ SocketTypeOK' /\ SocketBudget' /\ Steady
           /\ Sockets' = Sockets /\ OpenSockets' = OpenSockets /\ sock' = sock
<1>1. SocketTypeOK'
  BY StepKeepsTypes DEF AiInv
<1>2. SocketBudget'
  BY BudgetKept DEF AiInv
<1>3. Steady
  BY SocketsSteady DEF AiInv
<1>4. sock' = sock
  BY DEF socketVars
<1>5. QED
  BY <1>1, <1>2, <1>3, <1>4 DEF Sockets, OpenSockets

LEMMA EmitKept ==
    ASSUME AiInv, UNCHANGED <<socketVars, panel, isTyping, messages, asks>>,
           NEW s \in Sockets, NEW f, frames' = [frames EXCEPT ![s] = Append(@, f)],
           Sends(stream, s, f, stream'),
           \A r \in Asks : r > asks => stream'[r] = stream[r],
           alerts' \in 0..MaxMsgs
    PROVE  AiInv'
<1>1. s \in 1..MaxSockets /\ frames[s] \in Seq(FrameRecord) /\ f \in FrameRecord
  BY AiFacts DEF Sends
<1>2. Append(frames[s], f) \in Seq(FrameRecord)
  BY <1>1
<1>3. /\ frames' \in [1..MaxSockets -> Seq(FrameRecord)]
      /\ frames'[s] = Append(frames[s], f)
      /\ \A t \in (1..MaxSockets) \ {s} : frames'[t] = frames[t]
  BY <1>1, <1>2 DEF AiInv, ServerTypes
<1>4. ServerTypes' /\ PanelTypes'
  BY <1>3 DEF AiInv, ServerTypes, PanelTypes, Sends
<1>5. /\ SocketTypeOK' /\ SocketBudget' /\ Sockets' = Sockets /\ sock' = sock
      /\ OpenSockets' = OpenSockets
  BY SocketsRest
<1>6. StreamsTrue'
  BY <1>5 DEF AiInv, Known, StreamsTrue, Sends
<1>7. LinesTrue'
  <2>1. SUFFICES ASSUME NEW t \in 1..MaxSockets PROVE LineTrue(stream', t, frames'[t])
    BY DEF LinesTrue
  <2>2. LineTrue(stream, t, frames[t])
    BY DEF AiInv, Known, LinesTrue
  <2>3. CASE t = s
    BY <1>1, <1>3, <2>2, <2>3, LineSends
  <2>4. CASE t # s
    BY <1>3, <2>2, <2>4, LineElsewhere
  <2>5. QED
    BY <2>3, <2>4
<1>8. BubblesTrue'
  <2>1. ASSUME NEW i \in 1..Len(messages)
        PROVE  ReplyTrue(stream', frames', OpenSockets, messages[i])
    <3>1. ReplyTrue(stream, frames, OpenSockets, messages[i])
      BY DEF AiInv, Known, BubblesTrue, RepliesTrue
    <3>2. frames \in [1..MaxSockets -> Seq(FrameRecord)] /\ OpenSockets \subseteq 1..MaxSockets
      BY AiFacts DEF AiInv, ServerTypes
    <3>3. QED
      BY <1>1, <3>1, <3>2, ReplySends
  <2>2. RepliesTrue'
    BY <1>5, <2>1 DEF RepliesTrue
  <2>3. QED
    BY <2>2 DEF AiInv, Known, BubblesTrue
<1>9. QED
  BY <1>4, <1>5, <1>6, <1>7, <1>8 DEF AiInv, Known

\* Chunks, ends of answers and alerts.
LEMMA ServerKept ==
    ASSUME AiInv, \/ \E r \in Asks : SendChunk(r) \/ EndStream(r)
                  \/ \E s \in Sockets : AlertSender(s)
    PROVE  AiInv'
<1>0. stream \in [Asks -> StreamRecord] /\ alerts \in 0..MaxMsgs /\ Asks = 1..MaxAsks
  BY DEF AiInv, ServerTypes, Asks
<1>1. ASSUME NEW r \in Asks, NEW f, Emit(r, f), NEW s, s = stream[r].sock
      PROVE  /\ s \in Sockets /\ frames' = [frames EXCEPT ![s] = Append(@, f)] /\ r <= asks
             /\ UNCHANGED <<socketVars, panel, isTyping, messages, asks, alerts>>
  <2>1. s \in 0..Len(sock) /\ Sockets = 1..Len(sock) /\ Len(sock) \in Nat
    BY <1>1, AiFacts DEF AiInv, Known, StreamsTrue
  <2>2. State(s) = "open" /\ stream[r].running
    BY <1>1 DEF Emit
  <2>3. s # 0
    BY <2>2 DEF State, None
  <2>4. r <= asks
    <3>1. ~(r > asks)
      BY <2>2 DEF AiInv, Known, StreamsTrue, NoStream
    <3>2. QED
      BY <1>0, <3>1, AiFacts
  <2>5. QED
    BY <1>1, <2>1, <2>3, <2>4 DEF Emit, panelVars
<1>2. ASSUME NEW r \in Asks, SendChunk(r) PROVE AiInv'
  <2> DEFINE f == Chunk(r, stream[r].sent + 1)
  <2>1. PICK s : s = stream[r].sock
    OBVIOUS
  <2>2. /\ stream[r].sent < MaxChunks /\ Emit(r, f)
        /\ stream' = [stream EXCEPT ![r].sent = @ + 1]
    BY <1>2 DEF SendChunk
  <2>3. stream[r].sent \in 0..MaxChunks /\ stream[r].sent + 1 \in 0..MaxChunks
    <3>1. stream[r].sent \in 0..MaxChunks
      BY AiFacts
    <3>2. QED
      BY <2>2, <3>1, AskAssumption
  <2>4. f \in FrameRecord /\ f.type = "RESPONSE" /\ f.ask = r /\ f.chunk = stream[r].sent + 1
    BY <1>0, <2>3 DEF FrameRecord, Chunk
  <2>5. /\ s \in Sockets /\ frames' = [frames EXCEPT ![s] = Append(@, f)] /\ r <= asks
        /\ UNCHANGED <<socketVars, panel, isTyping, messages, asks, alerts>>
    BY <1>1, <2>1, <2>2
  <2> HIDE DEF f
  <2>6. /\ stream' \in [Asks -> StreamRecord]
        /\ stream'[r].sent = stream[r].sent + 1 /\ stream'[r].sock = stream[r].sock
        /\ \A x \in Asks \ {r} : stream'[x] = stream[x]
    BY <1>0, <2>2, <2>3 DEF StreamRecord
  <2>7. \A x \in Asks : IsChunk(f, x) <=> x = r
    BY <2>4 DEF IsChunk
  <2>8. Sends(stream, s, f, stream')
    BY <1>0, <2>1, <2>4, <2>6, <2>7 DEF Sends
  <2>9. \A x \in Asks : x > asks => stream'[x] = stream[x]
    BY <1>0, <2>5, <2>6, AiFacts
  <2>10. QED
    BY <1>0, <2>5, <2>8, <2>9, EmitKept
<1>3. ASSUME NEW r \in Asks, EndStream(r) PROVE AiInv'
  <2>0. PICK s : s = stream[r].sock
    OBVIOUS
  <2>1. PICK f \in {Complete(r), Error(r)} : Emit(r, f)
    BY <1>3 DEF EndStream
  <2>2. stream' = [stream EXCEPT ![r].running = FALSE]
    BY <1>3 DEF EndStream
  <2>3. f \in FrameRecord /\ f.type # "RESPONSE"
    BY <1>0, <2>1 DEF FrameRecord, Complete, Error
  <2>4. /\ s \in Sockets /\ frames' = [frames EXCEPT ![s] = Append(@, f)] /\ r <= asks
        /\ UNCHANGED <<socketVars, panel, isTyping, messages, asks, alerts>>
    BY <1>1, <2>0, <2>1
  <2>5. /\ stream' \in [Asks -> StreamRecord]
        /\ stream'[r].sent = stream[r].sent /\ stream'[r].sock = stream[r].sock
        /\ \A x \in Asks \ {r} : stream'[x] = stream[x]
    BY <1>0, <2>2 DEF StreamRecord
  <2>6. Sends(stream, s, f, stream')
    BY <1>0, <2>3, <2>5 DEF Sends, IsChunk
  <2>7. \A x \in Asks : x > asks => stream'[x] = stream[x]
    BY <1>0, <2>4, <2>5, AiFacts
  <2>8. QED
    BY <1>0, <2>4, <2>6, <2>7, EmitKept
<1>4. ASSUME NEW s \in Sockets, AlertSender(s) PROVE AiInv'
  <2> DEFINE f == Error(0)
  <2>1. /\ alerts < MaxMsgs /\ frames' = [frames EXCEPT ![s] = Append(@, f)]
        /\ alerts' = alerts + 1
        /\ UNCHANGED <<socketVars, panel, isTyping, messages, asks, stream>>
    BY <1>4 DEF AlertSender, panelVars
  <2>2. f \in FrameRecord /\ f.type # "RESPONSE"
    BY DEF FrameRecord, Error
  <2> HIDE DEF f
  <2>3. Sends(stream, s, f, stream')
    BY <1>0, <2>1, <2>2 DEF Sends, IsChunk
  <2>4. alerts' \in 0..MaxMsgs
    BY <1>0, <2>1
  <2>5. QED
    BY <2>1, <2>3, <2>4, EmitKept
<1>5. QED
  BY <1>2, <1>3, <1>4

-----------------------------------------------------------------------------
\* A question is asked.

LEMMA AskKept == AiInv /\ Ask => AiInv'
<1> SUFFICES ASSUME AiInv, Ask PROVE AiInv'
  OBVIOUS
<1> DEFINE r == asks + 1
<1>0. /\ panel /\ asks < MaxAsks /\ asks' = r
      /\ UNCHANGED <<socketVars, panel, frames, alerts>>
  BY DEF Ask, CanAsk
<1>1. r \in Asks /\ r \in 0..MaxAsks /\ asks \in Nat
  BY <1>0, AiFacts
<1> HIDE DEF r
<1>2. /\ SocketTypeOK' /\ SocketBudget' /\ Sockets' = Sockets /\ sock' = sock
      /\ OpenSockets' = OpenSockets
  BY <1>0, SocketsRest
<1>3. /\ isTyping' \in BOOLEAN
      /\ \E m \in {Notice, User(r)} : messages' = Append(messages, m)
      /\ stream' = stream \/ Transmit(r)
  BY <1>0 DEF Ask, AiInv, PanelTypes
<1>4. PICK m \in {Notice, User(r)} : messages' = Append(messages, m)
  BY <1>3
<1>5. m \in Bubble /\ m.role # "ai"
  <2>1. <<>> \in Seq(1..MaxChunks)
    BY EmptySeq
  <2>2. 0 \in 0..MaxAsks
    OBVIOUS
  <2>3. Notice \in Bubble /\ Notice.role = "err"
    BY <2>1, <2>2 DEF Bubble, Notice
  <2>4. User(r) \in Bubble /\ User(r).role = "user"
    BY <1>1, <2>1 DEF Bubble, User
  <2>5. QED
    BY <1>4, <2>3, <2>4
<1>6. /\ messages' \in Seq(Bubble) /\ Len(messages) \in Nat
      /\ Len(messages') = Len(messages) + 1
      /\ \A i \in 1..Len(messages) : messages'[i] = messages[i]
      /\ messages'[Len(messages) + 1] = m
      /\ \A i \in 1..Len(messages') : i \in 1..Len(messages) \/ i = Len(messages) + 1
  BY <1>4, <1>5, AiFacts, AppendProperties
<1>7. stream[r] = NoStream
  BY <1>1 DEF AiInv, Known, StreamsTrue, r
<1>8. PICK t \in 0..Len(sock) :
         /\ t \in Sockets => sock[t].state = "open"
         /\ \/ stream' = stream
            \/ stream' = [stream EXCEPT ![r] = [sock |-> t, sent |-> 0, running |-> TRUE]]
  <2>1. Len(sock) \in Nat /\ socketRef \in 0..Len(sock) /\ Sockets = 1..Len(sock)
    BY SocketFacts DEF AiInv
  <2>2. CASE stream' = stream
    <3>1. 0 \in 0..Len(sock) /\ 0 \notin Sockets
      BY <2>1
    <3>2. QED
      BY <2>2, <3>1
  <2>3. CASE stream' # stream
    <3>1. /\ InUse = "open"
          /\ stream' = [stream EXCEPT ![r] = [sock |-> socketRef, sent |-> 0, running |-> TRUE]]
      BY <1>3, <2>3 DEF Transmit, NoStream
    <3>2. socketRef \in Sockets => sock[socketRef].state = "open"
      BY <2>1, <3>1 DEF InUse, State, None
    <3>3. QED
      BY <2>1, <3>1, <3>2
  <2>4. QED
    BY <2>2, <2>3
<1>9. /\ stream' \in [Asks -> StreamRecord]
      /\ \A x \in Asks \ {r} : stream'[x] = stream[x]
      /\ stream'[r] = stream[r] \/ stream'[r] = [sock |-> t, sent |-> 0, running |-> TRUE]
  <2>1. stream \in [Asks -> StreamRecord]
    BY DEF AiInv, ServerTypes
  <2>2. t \in 0..MaxSockets
    BY <1>8, AiFacts
  <2>3. [sock |-> t, sent |-> 0, running |-> TRUE] \in StreamRecord
    BY <2>2 DEF StreamRecord
  <2>4. QED
    BY <1>1, <1>8, <2>1, <2>3
<1>10. PanelTypes' /\ ServerTypes'
  BY <1>0, <1>1, <1>3, <1>6, <1>9 DEF AiInv, PanelTypes, ServerTypes
<1>11. StreamsTrue'
  <2>1. ASSUME NEW x \in Asks, x # r
        PROVE  /\ x > r => stream'[x] = NoStream
               /\ stream'[x].sock \in 0..Len(sock)
               /\ \A s \in Sockets : s = stream'[x].sock => sock[s].state # "connecting"
    <3>1. x > r => x > asks
      BY <1>1, <2>1, AiFacts DEF r
    <3>2. QED
      BY <1>9, <2>1, <3>1 DEF AiInv, Known, StreamsTrue
  <2>2. /\ ~(r > r)
        /\ stream'[r].sock \in 0..Len(sock)
        /\ \A s \in Sockets : s = stream'[r].sock => sock[s].state # "connecting"
    <3>1. ~(r > r)
      BY <1>1, AiFacts
    <3>2. QED
      BY <1>1, <1>8, <1>9, <3>1 DEF AiInv, Known, StreamsTrue
  <2>3. QED
    BY <1>0, <1>2, <2>1, <2>2 DEF StreamsTrue
<1>12. \A q, s : LineTrue(stream, s, q) => LineTrue(stream', s, q)
  <2>1. SUFFICES ASSUME NEW q, NEW s, LineTrue(stream, s, q) PROVE LineTrue(stream', s, q)
    OBVIOUS
  <2>2. \A i \in 1..Len(q) : q[i].type = "RESPONSE" => q[i].ask \in Asks \ {r}
    BY <1>7, <2>1 DEF LineTrue, NoStream
  <2>3. QED
    BY <1>9, <2>1, <2>2 DEF LineTrue
<1>13. LinesTrue'
  BY <1>0, <1>12 DEF AiInv, Known, LinesTrue
<1>14. BubblesTrue'
  <2>1. ASSUME NEW i \in 1..Len(messages)
        PROVE  ReplyTrue(stream', frames, OpenSockets, messages[i])
    <3>1. ReplyTrue(stream, frames, OpenSockets, messages[i])
      BY DEF AiInv, Known, BubblesTrue, RepliesTrue
    <3>2. messages[i].role = "ai" => messages[i].ask \in Asks \ {r}
      BY <1>7, <3>1 DEF ReplyTrue, NoStream
    <3>3. QED
      BY <1>9, <3>1, <3>2 DEF ReplyTrue
  <2>2. RepliesTrue'
    BY <1>0, <1>2, <1>5, <1>6, <2>1 DEF RepliesTrue, ReplyTrue
  <2>3. RepliesApart(messages')
    BY <1>5, <1>6 DEF AiInv, Known, BubblesTrue, RepliesApart, IsReply
  <2>4. QED
    BY <1>0, <2>2, <2>3 DEF BubblesTrue
<1>15. QED
  BY <1>2, <1>10, <1>11, <1>13, <1>14 DEF AiInv, Known

-----------------------------------------------------------------------------
\* A frame arrives.

LEMMA TailFrame ==
    ASSUME NEW q \in Seq(FrameRecord), q # <<>>
    PROVE  /\ Tail(q) \in Seq(FrameRecord) /\ Head(q) \in FrameRecord /\ Head(q) = q[1]
           /\ Len(q) \in Nat \ {0} /\ Len(Tail(q)) = Len(q) - 1
           /\ \A i \in 1..Len(Tail(q)) : i + 1 \in 1..Len(q) /\ Tail(q)[i] = q[i + 1]
           /\ \A i \in 1..Len(q) : i # 1 => i - 1 \in 1..Len(Tail(q)) /\ Tail(q)[i - 1] = q[i]
<1>1. Len(q) \in Nat \ {0}
  BY LenProperties, EmptySeq
<1>2. /\ Tail(q) \in Seq(FrameRecord) /\ Len(Tail(q)) = Len(q) - 1
      /\ \A i \in 1..Len(Tail(q)) : Tail(q)[i] = q[i + 1]
      /\ Head(q) \in FrameRecord /\ Head(q) = q[1]
  BY HeadTailProperties
<1>3. ASSUME NEW i \in 1..Len(q), i # 1
      PROVE  i - 1 \in 1..Len(Tail(q)) /\ Tail(q)[i - 1] = q[i]
  <2>1. i - 1 \in 1..Len(Tail(q)) /\ (i - 1) + 1 = i
    BY <1>1, <1>2, <1>3
  <2>2. QED
    BY <1>2, <2>1
<1>4. QED
  BY <1>1, <1>2, <1>3

LEMMA LineTail ==
    ASSUME NEW st, NEW s, NEW q \in Seq(FrameRecord), q # <<>>, LineTrue(st, s, q),
           \A r \in Asks : st[r].sent \in Nat
    PROVE  LineTrue(st, s, Tail(q))
<1> DEFINE p == Tail(q)
<1>1. /\ Len(q) \in Nat \ {0}
      /\ \A i \in 1..Len(p) : i \in Nat /\ i + 1 \in 1..Len(q) /\ p[i] = q[i + 1]
      /\ \A i \in 1..Len(q) : i # 1 => i - 1 \in 1..Len(p) /\ p[i - 1] = q[i]
  BY TailFrame
<1> HIDE DEF p
<1>2. SUFFICES ASSUME NEW i \in 1..Len(p), p[i].type = "RESPONSE", NEW r, r = p[i].ask,
                      NEW c, c = p[i].chunk
      PROVE  /\ r \in Asks /\ st[r].sock = s /\ c \in 1..st[r].sent
             /\ \A j \in 1..Len(p) : i < j /\ IsChunk(p[j], r) => c < p[j].chunk
             /\ AllFrom(p, r, c, st[r].sent)
  BY DEF LineTrue, p
<1>3. /\ r \in Asks /\ st[r].sock = s /\ c \in 1..st[r].sent
      /\ \A j \in 1..Len(q) : i + 1 < j /\ IsChunk(q[j], r) => c < q[j].chunk
      /\ AllFrom(q, r, c, st[r].sent)
  <2>1. PICK i1 \in 1..Len(q) : i1 = i + 1 /\ q[i1] = p[i]
    BY <1>1
  <2>2. q[i1].type = "RESPONSE" /\ q[i1].ask = r /\ q[i1].chunk = c
    BY <1>2, <2>1
  <2>3. /\ r \in Asks /\ st[r].sock = s /\ c \in 1..st[r].sent
        /\ \A j \in 1..Len(q) : i1 < j /\ IsChunk(q[j], r) => c < q[j].chunk
        /\ AllFrom(q, r, c, st[r].sent)
    BY <2>2 DEF LineTrue
  <2>4. QED
    BY <2>1, <2>3
<1>4. ASSUME NEW j \in 1..Len(p), i < j, IsChunk(p[j], r) PROVE c < p[j].chunk
  <2>1. i + 1 < j + 1 /\ j + 1 \in 1..Len(q) /\ p[j] = q[j + 1]
    BY <1>1, <1>4
  <2>2. QED
    BY <1>3, <1>4, <2>1
<1>5. ASSUME NEW l \in c..st[r].sent PROVE \E j \in 1..Len(p) : p[j] = Chunk(r, l)
  <2>1. PICK j \in 1..Len(q) : q[j] = Chunk(r, l)
    BY <1>3, <1>5 DEF AllFrom
  <2>2. j # 1
    <3>1. SUFFICES ASSUME j = 1 PROVE FALSE
      OBVIOUS
    <3>2. q[1].type = "RESPONSE" /\ q[1].ask = r /\ q[1].chunk = l
      BY <2>1, <3>1 DEF Chunk
    <3>3. 1 \in 1..Len(q) /\ i + 1 \in 1..Len(q) /\ 1 < i + 1 /\ q[i + 1] = p[i]
      BY <1>1
    <3>4. IsChunk(q[i + 1], r) /\ q[i + 1].chunk = c
      BY <1>2, <3>3 DEF IsChunk
    <3>5. l < c
      BY <3>2, <3>3, <3>4 DEF LineTrue
    <3>6. QED
      BY <1>3, <1>5, <3>5
  <2>3. QED
    BY <1>1, <2>1, <2>2
<1>6. QED
  BY <1>3, <1>4, <1>5 DEF AllFrom

\* The chunk of r that arrives is the one its reply awaits.
LEMMA ChunkIsNext ==
    ASSUME NEW st, NEW s, NEW q \in Seq(FrameRecord), q # <<>>, LineTrue(st, s, q),
           \A r \in Asks : st[r].sent \in Nat,
           NEW r, IsChunk(Head(q), r), NEW c, c = Head(q).chunk
    PROVE  /\ r \in Asks /\ st[r].sock = s /\ c \in 1..st[r].sent
           /\ Awaits(Tail(q), r, c, st[r].sent)
           /\ \A k \in 1..st[r].sent : Awaits(q, r, k, st[r].sent) => c = k + 1
<1> DEFINE p == Tail(q)
<1>1. /\ Len(q) \in Nat \ {0} /\ Head(q) = q[1] /\ 1 \in 1..Len(q)
      /\ \A i \in 1..Len(p) : i \in Nat /\ i + 1 \in 1..Len(q) /\ p[i] = q[i + 1]
      /\ \A i \in 1..Len(q) : i # 1 => i - 1 \in 1..Len(p) /\ p[i - 1] = q[i] /\ 1 < i
  BY TailFrame
<1> HIDE DEF p
<1>2. q[1].type = "RESPONSE" /\ q[1].ask = r /\ q[1].chunk = c /\ IsChunk(q[1], r)
  BY <1>1 DEF IsChunk
<1>3. /\ r \in Asks /\ st[r].sock = s /\ c \in 1..st[r].sent
      /\ \A j \in 1..Len(q) : 1 < j /\ IsChunk(q[j], r) => c < q[j].chunk
      /\ AllFrom(q, r, c, st[r].sent)
  BY <1>1, <1>2 DEF LineTrue
<1>4. Awaits(p, r, c, st[r].sent)
  <2>1. ASSUME NEW l \in (c + 1)..st[r].sent PROVE \E j \in 1..Len(p) : p[j] = Chunk(r, l)
    <3>1. l \in c..st[r].sent /\ l # c
      BY <1>3, <2>1
    <3>2. PICK j \in 1..Len(q) : q[j] = Chunk(r, l)
      BY <1>3, <3>1 DEF AllFrom
    <3>3. j # 1
      BY <1>2, <3>1, <3>2 DEF Chunk
    <3>4. QED
      BY <1>1, <3>2, <3>3
  <2>2. ASSUME NEW j \in 1..Len(p), IsChunk(p[j], r) PROVE c < p[j].chunk
    <3>1. j + 1 \in 1..Len(q) /\ 1 < j + 1 /\ p[j] = q[j + 1]
      BY <1>1
    <3>2. QED
      BY <1>3, <2>2, <3>1
  <2>3. QED
    BY <2>1, <2>2 DEF Awaits, AllFrom
<1>5. ASSUME NEW k \in 1..st[r].sent, Awaits(q, r, k, st[r].sent) PROVE c = k + 1
  <2>1. k < c
    BY <1>1, <1>2, <1>5 DEF Awaits
  <2>2. k + 1 \in (k + 1)..st[r].sent
    BY <1>3, <2>1
  <2>3. PICK j \in 1..Len(q) : q[j] = Chunk(r, k + 1)
    BY <1>5, <2>2 DEF Awaits, AllFrom
  <2>4. q[j].chunk = k + 1 /\ IsChunk(q[j], r)
    BY <2>3 DEF Chunk, IsChunk
  <2>5. j = 1 \/ c < k + 1
    BY <1>1, <1>3, <2>4
  <2>6. QED
    BY <1>2, <1>3, <2>1, <2>4, <2>5
<1>6. QED
  BY <1>3, <1>4, <1>5 DEF p

\* Other replies do not miss the frame that arrived.
LEMMA ReplyTail ==
    ASSUME NEW st, NEW fr \in [1..MaxSockets -> Seq(FrameRecord)], NEW s \in 1..MaxSockets,
           NEW open, open \subseteq 1..MaxSockets, NEW m, ReplyTrue(st, fr, open, m),
           fr[s] # <<>>, m.role = "ai" => ~IsChunk(Head(fr[s]), m.ask)
    PROVE  ReplyTrue(st, [fr EXCEPT ![s] = Tail(@)], open, m)
<1> DEFINE fr2 == [fr EXCEPT ![s] = Tail(@)]
           q   == fr[s]
           p   == Tail(q)
<1>0. fr2[s] = p /\ \A t \in (1..MaxSockets) \ {s} : fr2[t] = fr[t]
  OBVIOUS
<1>1. /\ Len(q) \in Nat \ {0} /\ Head(q) = q[1]
      /\ \A i \in 1..Len(p) : i \in Nat /\ i + 1 \in 1..Len(q) /\ p[i] = q[i + 1]
      /\ \A i \in 1..Len(q) : i # 1 => i - 1 \in 1..Len(p) /\ p[i - 1] = q[i]
  <2>1. q \in Seq(FrameRecord)
    OBVIOUS
  <2>2. QED
    BY <2>1, TailFrame
<1> HIDE DEF fr2, p
<1>2. SUFFICES ASSUME m.role = "ai", NEW r, r = m.ask, NEW t, t = st[r].sock, t \in open,
                      NEW k, k = Newest(m), NEW n, n = st[r].sent
               PROVE  Awaits(fr2[t], r, k, n)
  BY DEF ReplyTrue, fr2
<1>3. Awaits(fr[t], r, k, n)
  BY <1>2 DEF ReplyTrue
<1>4. CASE t # s
  BY <1>0, <1>2, <1>3, <1>4
<1>5. CASE t = s
  <2>1. Awaits(q, r, k, n)
    BY <1>3, <1>5
  <2> HIDE DEF q
  <2>2. ASSUME NEW l \in (k + 1)..n PROVE \E j \in 1..Len(p) : p[j] = Chunk(r, l)
    <3>1. PICK j \in 1..Len(q) : q[j] = Chunk(r, l)
      BY <2>1, <2>2 DEF Awaits, AllFrom
    <3>2. j # 1
      BY <1>1, <1>2, <3>1 DEF Chunk, IsChunk, q
    <3>3. QED
      BY <1>1, <3>1, <3>2
  <2>3. ASSUME NEW j \in 1..Len(p), IsChunk(p[j], r) PROVE k < p[j].chunk
    BY <1>1, <2>1, <2>3 DEF Awaits
  <2>4. QED
    BY <1>0, <1>5, <2>2, <2>3 DEF Awaits, AllFrom
<1>6. QED
  BY <1>4, <1>5

\* The panel has handled chunk c of r: the reply got it, or it begins one.
LEMMA ChunkHandled ==
    ASSUME NEW list \in Seq(Bubble), RepliesApart(list),
           NEW r \in Asks, NEW c \in 1..MaxChunks
    PROVE  /\ AddChunk(list, r, c) \in Seq(Bubble)
           /\ RepliesApart(AddChunk(list, r, c))
           /\ \A j \in 1..Len(AddChunk(list, r, c)) :
                 LET m == AddChunk(list, r, c)[j] IN
                 \/ j \in 1..Len(list) /\ m = list[j] /\ ~IsReply(m, r)
                 \/ /\ j \in 1..Len(list) /\ IsReply(list[j], r) /\ m.role = "ai" /\ m.ask = r
                    /\ m.chunks = Append(list[j].chunks, c)
                 \/ m = Reply(r, c)
<1> DEFINE new == AddChunk(list, r, c)
<1>0. Len(list) \in Nat /\ DOMAIN list = 1..Len(list) /\ \A j \in 1..Len(list) : list[j] \in Bubble
  BY LenProperties, ElementOfSeq
<1>1. CASE \E i \in DOMAIN list : IsReply(list[i], r)
  <2>1. PICK i \in 1..Len(list) : IsReply(list[i], r)
    BY <1>0, <1>1
  <2>2. \A j \in 1..Len(list) : IsReply(list[j], r) <=> j = i
    BY <2>1 DEF RepliesApart, IsReply
  <2>3. SelectInSeq(list, LAMBDA m : IsReply(m, r)) = i
    <3>1. {j \in 1..Len(list) : IsReply(list[j], r)} = {i}
      BY <2>2
    <3>2. (CHOOSE x \in {i} : \A y \in {i} : x <= y) = i
      BY <1>0
    <3>3. QED
      BY <3>1, <3>2 DEF SelectInSeq, Min
  <2>4. new = [list EXCEPT ![i].chunks = Append(@, c), ![i].isStreaming = TRUE]
    BY <1>1, <2>3 DEF AddChunk
  <2> HIDE DEF new
  <2> DEFINE m == [list[i] EXCEPT !.chunks = Append(@, c), !.isStreaming = TRUE]
  <2>5. new = [list EXCEPT ![i] = m]
    BY <1>0, <2>4
  <2>6. m \in Bubble /\ m.role = "ai" /\ m.ask = r /\ m.chunks = Append(list[i].chunks, c)
    <3>1. list[i] \in Bubble /\ list[i].role = "ai" /\ list[i].ask = r
      BY <1>0, <2>1 DEF IsReply
    <3>2. list[i].chunks \in Seq(1..MaxChunks)
      BY <3>1 DEF Bubble
    <3>3. Append(list[i].chunks, c) \in Seq(1..MaxChunks)
      BY <3>2
    <3>4. QED
      BY <3>1, <3>3 DEF Bubble
  <2> HIDE DEF m
  <2>7. new \in Seq(Bubble) /\ Len(new) = Len(list) /\ new[i] = m
        /\ \A j \in 1..Len(list) : j # i => new[j] = list[j]
    BY <1>0, <2>5, <2>6, ExceptSeq
  <2>8. \A j \in 1..Len(list) : IsReply(new[j], r) <=> j = i
    BY <2>2, <2>6, <2>7 DEF IsReply
  <2>9. RepliesApart(new)
    BY <2>6, <2>7, <2>8 DEF RepliesApart, IsReply
  <2>10. QED
    BY <2>1, <2>2, <2>6, <2>7, <2>9 DEF new
<1>2. CASE ~\E i \in DOMAIN list : IsReply(list[i], r)
  <2> DEFINE m == Reply(r, c)
  <2>1. new = Append(list, m)
    BY <1>2 DEF AddChunk
  <2>2. m \in Bubble /\ m.role = "ai" /\ m.ask = r
    <3>1. <<c>> \in Seq(1..MaxChunks) /\ r \in 0..MaxAsks
      BY DEF Asks
    <3>2. QED
      BY <3>1 DEF Reply, Bubble
  <2> HIDE DEF new
  <2>3. /\ new \in Seq(Bubble) /\ Len(new) = Len(list) + 1
        /\ \A i \in 1..Len(list) : new[i] = list[i]
        /\ new[Len(list) + 1] = Reply(r, c)
        /\ \A i \in 1..Len(new) : i \in 1..Len(list) \/ i = Len(list) + 1
    BY <1>0, <2>1, <2>2, AppendProperties
  <2> HIDE DEF m
  <2>4. RepliesApart(new)
    BY <1>0, <1>2, <2>2, <2>3 DEF RepliesApart, IsReply, m
  <2>5. QED
    BY <1>0, <1>2, <2>3, <2>4 DEF new
<1>3. QED
  BY <1>1, <1>2

\* What a frame other than a chunk does to the bubbles.
LEMMA OtherHandled ==
    ASSUME NEW list \in Seq(Bubble), RepliesApart(list), NEW r,
           NEW new, new = Finish(list, r) \/ new = Append(list, Notice)
    PROVE  /\ new \in Seq(Bubble) /\ RepliesApart(new)
           /\ \A j \in 1..Len(new) :
                 \/ /\ j \in 1..Len(list) /\ new[j].role = list[j].role
                    /\ new[j].ask = list[j].ask /\ new[j].chunks = list[j].chunks
                 \/ new[j].role # "ai"
<1>0. Len(list) \in Nat /\ DOMAIN list = 1..Len(list) /\ \A j \in 1..Len(list) : list[j] \in Bubble
  BY LenProperties, ElementOfSeq
<1>1. CASE new = Finish(list, r)
  <2>1. ASSUME NEW j \in 1..Len(list)
        PROVE  /\ new[j] \in Bubble /\ new[j].role = list[j].role
               /\ new[j].ask = list[j].ask /\ new[j].chunks = list[j].chunks
    <3>1. new[j] = list[j] \/ new[j] = [list[j] EXCEPT !.isStreaming = FALSE]
      BY <1>0, <1>1 DEF Finish
    <3>2. QED
      BY <1>0, <3>1 DEF Bubble
  <2>2. new = [j \in 1..Len(list) |-> new[j]]
    BY <1>0, <1>1 DEF Finish
  <2>3. new \in Seq(Bubble) /\ Len(new) = Len(list)
    <3>1. \A j \in 1..Len(list) : new[j] \in Bubble
      BY <2>1
    <3>2. new \in [1..Len(list) -> Bubble]
      BY <2>2, <3>1, Zenon
    <3>3. new \in Seq(Bubble)
      <4>1. PICK n \in Nat : n = Len(list)
        BY <1>0
      <4>2. new \in [1..n -> Bubble]
        BY <3>2, <4>1
      <4>3. Seq(Bubble) = UNION {[1..k -> Bubble] : k \in Nat}
        BY SeqDef
      <4>4. QED
        BY <4>2, <4>3, Zenon
    <3>4. Len(new) = Len(list)
      <4>1. DOMAIN new = 1..Len(list) /\ DOMAIN new = 1..Len(new) /\ Len(new) \in Nat
        BY <2>2, <3>3, LenProperties
      <4>2. PICK a \in Nat, b \in Nat : a = Len(list) /\ b = Len(new)
        BY <1>0, <4>1
      <4>3. 1..a = 1..b
        BY <4>1, <4>2
      <4>4. (a \in 1..a => a \in 1..b) /\ (b \in 1..b => b \in 1..a)
        BY <4>3
      <4>5. a = b
        BY <4>4
      <4>6. QED
        BY <4>2, <4>5
    <3>5. QED
      BY <3>3, <3>4
  <2>4. QED
    BY <2>1, <2>3 DEF RepliesApart, IsReply
<1>2. CASE new = Append(list, Notice)
  <2>1. Notice \in Bubble /\ Notice.role # "ai"
    <3>1. <<>> \in Seq(1..MaxChunks) /\ 0 \in 0..MaxAsks
      BY EmptySeq
    <3>2. QED
      BY <3>1 DEF Notice, Bubble
  <2>2. /\ new \in Seq(Bubble) /\ Len(new) = Len(list) + 1
        /\ \A i \in 1..Len(list) : new[i] = list[i]
        /\ new[Len(list) + 1] = Notice
        /\ \A i \in 1..Len(new) : i \in 1..Len(list) \/ i = Len(list) + 1
    BY <1>0, <1>2, <2>1, AppendProperties
  <2>3. RepliesApart(new)
    BY <2>1, <2>2 DEF RepliesApart, IsReply
  <2>4. QED
    BY <2>1, <2>2, <2>3
<1>3. QED
  BY <1>1, <1>2

LEMMA ReceiveKept == AiInv /\ (\E s \in Sockets : Receive(s)) => AiInv'
<1> SUFFICES ASSUME AiInv, NEW s \in Sockets, Receive(s) PROVE AiInv'
  OBVIOUS
<1> DEFINE q == frames[s]
           f == Head(q)
<1>1. /\ s \in 1..MaxSockets /\ q \in Seq(FrameRecord) /\ q # <<>>
      /\ State(s) = "open" /\ frames' = [frames EXCEPT ![s] = Tail(@)]
      /\ UNCHANGED <<socketVars, panel, asks, stream, alerts>>
      /\ IF panel THEN Handle(f) ELSE UNCHANGED <<isTyping, messages>>
  BY AiFacts DEF Receive
<1>2. /\ SocketTypeOK' /\ SocketBudget' /\ Sockets' = Sockets /\ sock' = sock
      /\ OpenSockets' = OpenSockets /\ OpenSockets \subseteq 1..MaxSockets
  BY <1>1, SocketsRest, AiFacts
<1>3. s \in OpenSockets
  BY <1>1, AiFacts DEF OpenSockets, State, None
<1>4. /\ Tail(q) \in Seq(FrameRecord) /\ f \in FrameRecord
      /\ frames' \in [1..MaxSockets -> Seq(FrameRecord)]
      /\ frames'[s] = Tail(q) /\ \A t \in (1..MaxSockets) \ {s} : frames'[t] = frames[t]
  <2>1. Tail(q) \in Seq(FrameRecord) /\ f \in FrameRecord
    BY <1>1, TailFrame
  <2>2. QED
    BY <1>1, <2>1 DEF AiInv, ServerTypes
<1>5. /\ \A r \in Asks : stream[r].sent \in Nat
      /\ LineTrue(stream, s, q)
  BY <1>1, AiFacts DEF AiInv, Known, LinesTrue
<1> HIDE DEF q, f
<1>6. ServerTypes'
  BY <1>1, <1>4 DEF AiInv, ServerTypes
<1>7. StreamsTrue'
  BY <1>1, <1>2 DEF AiInv, Known, StreamsTrue
<1>8. LinesTrue'
  <2>1. LineTrue(stream, s, Tail(q))
    BY <1>1, <1>5, LineTail
  <2>2. QED
    BY <1>1, <1>4, <2>1 DEF AiInv, Known, LinesTrue
<1>9. /\ messages \in Seq(Bubble) /\ RepliesApart(messages) /\ isTyping \in BOOLEAN
      /\ panel \in BOOLEAN /\ asks \in 0..MaxAsks /\ (~panel => messages = <<>>)
      /\ \A i \in 1..Len(messages) : ReplyTrue(stream, frames, OpenSockets, messages[i])
  BY DEF AiInv, PanelTypes, Known, BubblesTrue, RepliesTrue
<1>10. ASSUME NEW m, ReplyTrue(stream, frames, OpenSockets, m),
              m.role = "ai" => ~IsChunk(f, m.ask)
       PROVE  ReplyTrue(stream, frames', OpenSockets, m)
  <2>1. frames \in [1..MaxSockets -> Seq(FrameRecord)]
    BY DEF AiInv, ServerTypes
  <2>2. QED
    BY <1>1, <1>2, <1>10, <2>1, ReplyTail DEF f, q
<1>11. /\ messages' \in Seq(Bubble) /\ isTyping' \in BOOLEAN /\ RepliesApart(messages')
       /\ (~panel => messages' = <<>>)
       /\ \A i \in 1..Len(messages') : ReplyTrue(stream, frames', OpenSockets, messages'[i])
  <2>1. CASE ~panel
    <3>1. messages' = <<>> /\ isTyping' = isTyping /\ Len(messages') = 0
      BY <1>1, <1>9, <2>1
    <3>2. QED
      BY <1>9, <3>1, EmptySeq DEF RepliesApart
  <2>2. CASE panel /\ f.type = "RESPONSE"
    <3> DEFINE r == f.ask
               c == f.chunk
               new == AddChunk(messages, r, c)
    <3>1. messages' = new /\ isTyping' \in BOOLEAN
      BY <1>1, <1>9, <2>2 DEF Handle
    <3>2. IsChunk(Head(q), r) /\ c = Head(q).chunk
      BY <2>2 DEF IsChunk, f
    <3> HIDE DEF r, c
    <3>3. /\ r \in Asks /\ stream[r].sock = s /\ c \in 1..stream[r].sent
          /\ Awaits(Tail(q), r, c, stream[r].sent)
          /\ \A k \in 1..stream[r].sent : Awaits(q, r, k, stream[r].sent) => c = k + 1
      BY <1>1, <1>5, <3>2, ChunkIsNext
    <3>4. c \in 1..MaxChunks
      BY <3>3, AiFacts
    <3>5. /\ new \in Seq(Bubble) /\ RepliesApart(new)
          /\ \A j \in 1..Len(new) :
                \/ j \in 1..Len(messages) /\ new[j] = messages[j] /\ ~IsReply(messages[j], r)
                \/ /\ j \in 1..Len(messages) /\ IsReply(messages[j], r)
                   /\ new[j].role = "ai" /\ new[j].ask = r
                   /\ new[j].chunks = Append(messages[j].chunks, c)
                \/ new[j] = Reply(r, c)
      BY <1>9, <3>3, <3>4, ChunkHandled
    <3> HIDE DEF new
    <3>6. ASSUME NEW j \in 1..Len(new) PROVE ReplyTrue(stream, frames', OpenSockets, new[j])
      <4>1. CASE j \in 1..Len(messages) /\ new[j] = messages[j] /\ ~IsReply(messages[j], r)
        <5>1. messages[j].role = "ai" => ~IsChunk(f, messages[j].ask)
          BY <4>1 DEF IsReply, IsChunk, r
        <5>2. QED
          BY <1>9, <1>10, <4>1, <5>1
      <4>2. CASE /\ j \in 1..Len(messages) /\ IsReply(messages[j], r)
                 /\ new[j].role = "ai" /\ new[j].ask = r
                 /\ new[j].chunks = Append(messages[j].chunks, c)
        <5> DEFINE old == messages[j].chunks
                   n   == Len(old)
        <5>1. ReplyTrue(stream, frames, OpenSockets, messages[j]) /\ messages[j] \in Bubble
          BY <1>9, <4>2, AiFacts
        <5>2. old \in Seq(1..MaxChunks) /\ n \in Nat
          <6>1. old \in Seq(1..MaxChunks)
            BY <5>1 DEF Bubble
          <6>2. QED
            BY <6>1, LenProperties
        <5>3. /\ n >= 1 /\ old[n] \in 1..stream[r].sent
              /\ \A k \in 2..n : old[k] = old[k - 1] + 1
              /\ Awaits(q, r, old[n], stream[r].sent)
          BY <1>3, <3>3, <4>2, <5>1 DEF ReplyTrue, IsReply, Newest, q
        <5>4. c = old[n] + 1
          BY <3>3, <5>3
        <5> DEFINE now == Append(old, c)
        <5>5. /\ Len(now) = n + 1 /\ now[n + 1] = c /\ \A k \in 1..n : now[k] = old[k]
          BY <3>4, <5>2, AppendProperties
        <5> HIDE DEF old, n, now
        <5>6. new[j].chunks = now
          BY <4>2 DEF now, old
        <5>7. \A k \in 2..Len(now) : now[k] = now[k - 1] + 1
          <6>1. SUFFICES ASSUME NEW k \in 2..(n + 1) PROVE now[k] = now[k - 1] + 1
            BY <5>5
          <6>2. CASE k \in 2..n
            <7>1. k - 1 \in 1..n /\ k \in 1..n
              BY <5>2, <6>2
            <7>2. QED
              BY <5>3, <5>5, <6>2, <7>1
          <6>3. CASE k = n + 1
            <7>1. k - 1 = n /\ n \in 1..n
              BY <5>2, <5>3, <6>3
            <7>2. QED
              BY <5>4, <5>5, <6>3, <7>1
          <6>4. QED
            BY <5>2, <6>2, <6>3
        <5>8. Newest(new[j]) = c /\ Len(new[j].chunks) >= 1
          BY <5>2, <5>5, <5>6 DEF Newest
        <5>9. QED
          BY <1>4, <3>3, <4>2, <5>6, <5>7, <5>8 DEF ReplyTrue
      <4>3. CASE new[j] = Reply(r, c)
        <5>1. /\ new[j].ask = r /\ new[j].chunks = <<c>> /\ Len(<<c>>) = 1 /\ <<c>>[1] = c
          BY <4>3 DEF Reply
        <5>2. Newest(new[j]) = c /\ Len(new[j].chunks) = 1
          BY <5>1 DEF Newest
        <5>3. Awaits(frames'[s], r, c, stream[r].sent)
          BY <1>4, <3>3
        <5>4. \A k \in 2..Len(new[j].chunks) :
                 new[j].chunks[k] = new[j].chunks[k - 1] + 1
          BY <5>2
        <5>5. QED
          BY <3>3, <5>1, <5>2, <5>3, <5>4 DEF ReplyTrue
      <4>4. QED
        BY <3>5, <4>1, <4>2, <4>3
    <3>7. QED
      BY <2>2, <3>1, <3>5, <3>6
  <2>3. CASE panel /\ f.type # "RESPONSE"
    <3>1. /\ isTyping' \in BOOLEAN
          /\ messages' = Finish(messages, f.ask) \/ messages' = Append(messages, Notice)
      <4>1. f.type \in {"COMPLETE", "ERROR"}
        BY <1>4, <2>3 DEF FrameRecord
      <4>2. QED
        BY <1>1, <1>9, <2>3, <4>1 DEF Handle
    <3>2. /\ messages' \in Seq(Bubble) /\ RepliesApart(messages')
          /\ \A j \in 1..Len(messages') :
                \/ /\ j \in 1..Len(messages) /\ messages'[j].role = messages[j].role
                   /\ messages'[j].ask = messages[j].ask
                   /\ messages'[j].chunks = messages[j].chunks
                \/ messages'[j].role # "ai"
      BY <1>9, <3>1, OtherHandled
    <3>3. ASSUME NEW j \in 1..Len(messages'), j \in 1..Len(messages)
          PROVE  ReplyTrue(stream, frames', OpenSockets, messages[j])
      <4>1. ~IsChunk(f, messages[j].ask)
        BY <2>3 DEF IsChunk
      <4>2. QED
        BY <1>9, <1>10, <3>3, <4>1
    <3>4. \A j \in 1..Len(messages') : ReplyTrue(stream, frames', OpenSockets, messages'[j])
      BY <3>2, <3>3 DEF ReplyTrue, Newest
    <3>5. QED
      BY <2>3, <3>1, <3>2, <3>4
  <2>4. QED
    BY <2>1, <2>2, <2>3
<1>12. PanelTypes' /\ BubblesTrue'
  BY <1>1, <1>2, <1>9, <1>11 DEF PanelTypes, BubblesTrue, RepliesTrue
<1>13. QED
  BY <1>2, <1>6, <1>7, <1>8, <1>12 DEF AiInv, Known

-----------------------------------------------------------------------------
\* Every step.

LEMMA SocketStepKept == AiInv /\ SocketStep => AiInv'
<1> SUFFICES ASSUME AiInv, SocketStep PROVE AiInv'
  OBVIOUS
<1>1. SocketNext
  BY Zenon DEF SocketStep, SocketNext
<1>2. SocketTypeOK' /\ SocketBudget' /\ Steady
  BY <1>1, StepKeepsTypes, BudgetKept, SocketsSteady DEF AiInv
<1>3. CASE UNCHANGED aiVars
  <2>1. UNCHANGED <<panel, isTyping, messages, asks, stream, frames, alerts>>
    BY <1>3 DEF aiVars, panelVars, serverVars
  <2>2. Known'
    <3>1. panel' \/ ~panel
      BY <2>1
    <3>2. QED
      BY <1>2, <2>1, <3>1, Idle
  <2>3. QED
    BY <1>2, <2>1, <2>2 DEF AiInv, PanelTypes, ServerTypes
<1>4. CASE SignOut /\ Unmount /\ UNCHANGED <<asks, serverVars>>
  <2>1. /\ panel' = FALSE /\ isTyping' = FALSE /\ messages' = <<>>
        /\ UNCHANGED <<asks, stream, frames, alerts>>
    BY <1>4 DEF Unmount, serverVars
  <2>2. Known'
    BY <1>2, <2>1, Idle
  <2>3. QED
    BY <1>2, <2>1, <2>2, EmptySeq DEF AiInv, PanelTypes, ServerTypes
<1>5. ASSUME NEW s \in Sockets, Breaks(s) \/ Closed(s), Lose(s) PROVE AiInv'
  <2>1. sock' = [sock EXCEPT ![s].state = "closed"]
    BY <1>5 DEF Breaks, Closed, OnClose
  <2>2. sock'[s].state = "closed"
    BY <2>1, StateChanges DEF AiInv, SocketTypeOK, SocketState
  <2>3. s \notin OpenSockets'
    BY <2>2 DEF OpenSockets
  <2>4. QED
    BY <1>2, <1>5, <2>3, LoseKept DEF AiInv
<1>6. QED
  BY <1>3, <1>4, <1>5, Zenon DEF SocketStep

LEMMA AiStepKept == AiInv /\ AiStep => AiInv'
<1> SUFFICES ASSUME AiInv, AiStep PROVE AiInv'
  OBVIOUS
<1>1. CASE OpenPanel \/ ClosePanel \/ Clear
  <2>1. /\ UNCHANGED <<socketVars, asks, stream, frames, alerts>>
        /\ panel' \in BOOLEAN /\ isTyping' \in BOOLEAN
        /\ messages' = <<>> \/ (messages' = messages /\ panel')
    BY <1>1 DEF OpenPanel, ClosePanel, Clear, Unmount, serverVars, AiInv, PanelTypes
  <2>2. SocketTypeOK' /\ SocketBudget' /\ Steady
    BY <2>1, SocketsRest
  <2>3. Known'
    BY <2>1, <2>2, Idle
  <2>4. messages' \in Seq(Bubble)
    BY <2>1, EmptySeq, AiFacts
  <2>5. QED
    BY <2>1, <2>2, <2>3, <2>4 DEF AiInv, PanelTypes, ServerTypes
<1>2. CASE Ask
  BY <1>2, AskKept
<1>3. CASE \/ \E r \in Asks : SendChunk(r) \/ EndStream(r)
           \/ \E s \in Sockets : AlertSender(s)
  BY <1>3, ServerKept
<1>4. CASE \E s \in Sockets : Receive(s)
  BY <1>4, ReceiveKept
<1>5. QED
  BY <1>1, <1>2, <1>3, <1>4, Zenon DEF AiStep

LEMMA AiKept == AiInv /\ [Next]_vars => AiInv'
<1> SUFFICES ASSUME AiInv, [Next]_vars PROVE AiInv'
  OBVIOUS
<1>1. CASE Next
  BY <1>1, SocketStepKept, AiStepKept, Zenon DEF Next
<1>2. CASE UNCHANGED vars
  <2>1. UNCHANGED <<socketVars, panel, isTyping, messages, asks, stream, frames, alerts>>
    BY <1>2 DEF vars, aiVars, panelVars, serverVars
  <2>2. SocketTypeOK' /\ SocketBudget' /\ Steady
    BY <2>1, SocketsRest
  <2>3. Known'
    <3>1. panel' \/ ~panel
      BY <2>1
    <3>2. QED
      BY <2>1, <2>2, <3>1, Idle
  <2>4. QED
    BY <2>1, <2>2, <2>3 DEF AiInv, PanelTypes, ServerTypes
<1>3. QED
  BY <1>1, <1>2

LEMMA AiInductive == AiSpec => []AiInv
<1>1. QED
  BY AiInit, AiKept, PTL DEF AiSpec

-----------------------------------------------------------------------------
\* The panel's state, the streams and the frames under way have their types.
\* In particular a stream is bound to one of at most MaxSockets sockets: every
\* socket but the first was paid for by a token or by a fault.
THEOREM AiTypeCorrect == AiSpec => []TypeOK
<1>1. AiInv => TypeOK
  <2> SUFFICES ASSUME AiInv PROVE TypeOK
    OBVIOUS
  <2>1. {panel, isTyping} \subseteq BOOLEAN
    BY DEF AiInv, PanelTypes
  <2>2. /\ stream \in [Asks -> [sock : 0..MaxSockets, sent : 0..MaxChunks, running : BOOLEAN]]
        /\ DOMAIN frames = 1..MaxSockets
        /\ \A s \in DOMAIN frames : frames[s] \in
              Seq([type : {"RESPONSE", "COMPLETE", "ERROR"}, ask : 0..MaxAsks,
                   chunk : 0..MaxChunks])
        /\ alerts \in 0..MaxMsgs
    BY DEF AiInv, ServerTypes, StreamRecord, FrameRecord
  <2>3. QED
    BY <2>1, <2>2 DEF TypeOK, AiInv, PanelTypes
<1>2. QED
  BY <1>1, AiInductive, PTL

\* A question has at most one bubble that answers it, and the bubble holds
\* consecutive chunks of that answer, whatever answers overlap, connections
\* break and panels are cleared (subscriber of useAiChat).
THEOREM ReplyHasNoHoleHolds == AiSpec => []ReplyHasNoHole
<1>1. AiInv => ReplyHasNoHole
  <2> SUFFICES ASSUME AiInv PROVE ReplyHasNoHole
    OBVIOUS
  <2>1. DOMAIN messages = 1..Len(messages)
    BY AiFacts, LenProperties
  <2>2. RepliesApart(messages) /\ RepliesTrue
    BY DEF AiInv, Known, BubblesTrue
  <2>3. QED
    BY <2>1, <2>2 DEF ReplyHasNoHole, RepliesApart, RepliesTrue, ReplyTrue
<1>2. QED
  BY <1>1, AiInductive, PTL
=============================================================================
