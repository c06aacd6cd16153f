------------------------------- MODULE AiChat -------------------------------
(***************************************************************************)
(* The AI panel of the messenger page on top of the page's socket, and the *)
(* streams of the server that answer it.  A request goes to the socket in  *)
(* use at once or nowhere; its answer is bound to the session it came in   *)
(* by, and the panel finds the bubble of a chunk by the request's id.      *)
(* Alerts about ordinary messages carry the same type as AI errors.        *)
(***************************************************************************)
EXTENDS ClientSocket

CONSTANTS
    MaxAsks,    \* questions in one behaviour, also those not sent
    MaxChunks   \* chunks of an answer

ASSUME AskAssumption == MaxAsks \in Nat /\ MaxChunks \in Nat

VARIABLES
    panel,      \* AiChatPanel is on the page
    isTyping,   \* an answer is expected; blocks further questions
    messages,   \* the bubbles of the panel, in order
    asks,       \* questions so far
    stream,     \* per question: the stream that answers it
    frames,     \* per socket: frames under way to the page
    alerts     \* alerts sent about chat messages

panelVars == <<panel, isTyping, messages>>
serverVars == <<stream, frames, alerts>>
aiVars == <<panelVars, asks, serverVars>>
vars == <<socketVars, aiVars>>

Asks == 1..MaxAsks

\* A bubble; question 0 marks the messages that belong to none.
User(r)     == [role |-> "user", ask |-> r, chunks |-> <<>>, isStreaming |-> FALSE]
Reply(r, c) == [role |-> "ai",   ask |-> r, chunks |-> <<c>>, isStreaming |-> TRUE]
Notice      == [role |-> "err",  ask |-> 0, chunks |-> <<>>, isStreaming |-> FALSE]

Chunk(r, c)  == [type |-> "RESPONSE", ask |-> r, chunk |-> c]
Complete(r)  == [type |-> "COMPLETE", ask |-> r, chunk |-> 0]
Error(r)     == [type |-> "ERROR",    ask |-> r, chunk |-> 0]

NoStream == [sock |-> None, sent |-> 0, running |-> FALSE]

Init ==
    /\ SocketInit
    /\ panel = FALSE /\ isTyping = FALSE /\ messages = <<>>
    /\ asks = 0
    /\ stream = [r \in Asks |-> NoStream]
    /\ frames = [s \in 1..MaxSockets |-> <<>>]
    /\ alerts = 0

-----------------------------------------------------------------------------
\* The panel goes on the page; the button of MessengerPage.
OpenPanel ==
    /\ mounted /\ ~panel
    /\ panel' = TRUE
    /\ UNCHANGED <<socketVars, isTyping, messages, asks, serverVars>>

\* Its state goes with it.
Unmount == panel' = FALSE /\ isTyping' = FALSE /\ messages' = <<>>

ClosePanel ==
    /\ panel
    /\ Unmount
    /\ UNCHANGED <<socketVars, asks, serverVars>>

\* clearMessages; an answer under way goes on.
Clear ==
    /\ panel
    /\ isTyping' = FALSE /\ messages' = <<>>
    /\ UNCHANGED <<socketVars, panel, asks, serverVars>>

\* sendAiMessage: no queue; if the socket in use is not open, only the
\* console hears of it.
Transmit(r) ==
    stream' = IF InUse = "open"
                THEN [stream EXCEPT ![r] = [NoStream EXCEPT !.sock = socketRef,
                                                            !.running = TRUE]]
                ELSE stream

\* The button and the Enter key do nothing while an answer is expected.
CanAsk == panel /\ ~isTyping /\ asks < MaxAsks

\* sendMessage of useAiChat.
Ask ==
    /\ CanAsk
    /\ asks' = asks + 1
    /\ \/ /\ ~isConnected
          /\ messages' = Append(messages, Notice)
          /\ UNCHANGED <<isTyping, stream>>
       \/ /\ isConnected
          /\ messages' = Append(messages, User(asks'))
          /\ isTyping' = TRUE
          /\ Transmit(asks')
    /\ UNCHANGED <<socketVars, panel, frames, alerts>>

-----------------------------------------------------------------------------
\* A stream sends on its session, as long as that is open.
Emit(r, frame) ==
    /\ stream[r].running
    /\ State(stream[r].sock) = "open"
    /\ frames' = [frames EXCEPT ![stream[r].sock] = Append(@, frame)]
    /\ UNCHANGED <<socketVars, panelVars, asks, alerts>>

SendChunk(r) ==
    /\ stream[r].sent < MaxChunks
    /\ Emit(r, Chunk(r, stream[r].sent + 1))
    /\ stream' = [stream EXCEPT ![r].sent = @ + 1]

\* onComplete and onError of the stream.
EndStream(r) ==
    /\ \E frame \in {Complete(r), Error(r)} : Emit(r, frame)
    /\ stream' = [stream EXCEPT ![r].running = FALSE]

\* The blacklist filter masks a chat message and alerts its sender, with a
\* frame of the same type as an AI error.
AlertSender(s) ==
    /\ alerts < MaxMsgs
    /\ State(s) = "open"
    /\ \E i \in DOMAIN wire : wire[i].sock = s
    /\ frames' = [frames EXCEPT ![s] = Append(@, Error(0))]
    /\ alerts' = alerts + 1
    /\ UNCHANGED <<socketVars, panelVars, asks, stream>>

\* The bubble a chunk of question r belongs to.
IsReply(m, r) == m.role = "ai" /\ m.ask = r

\* Faulty: takes the last reply for the one the chunk belongs to.
AddChunkToLast(list, r, c) ==
    IF list # <<>> /\ Last(list).role = "ai"
      THEN [list EXCEPT ![Len(list)].chunks = Append(@, c)]
      ELSE Append(list, Reply(r, c))

\* AI_CHAT_RESPONSE: to the reply's bubble, or a new one at the end.
AddChunk(list, r, c) ==
    IF \E i \in DOMAIN list : IsReply(list[i], r)
      THEN LET i == SelectInSeq(list, LAMBDA m : IsReply(m, r))
           IN [list EXCEPT ![i].chunks = Append(@, c), ![i].isStreaming = TRUE]
      ELSE Append(list, Reply(r, c))

\* AI_CHAT_COMPLETE.
Finish(list, r) ==
    [i \in DOMAIN list |->
        IF IsReply(list[i], r) THEN [list[i] EXCEPT !.isStreaming = FALSE] ELSE list[i]]

\* Faulty: only a completion ends the wait.
HandleErrorKeepsTyping(f) ==
    /\ isTyping' = (isTyping /\ f.type # "COMPLETE")
    /\ messages' = CASE f.type = "RESPONSE" -> AddChunk(messages, f.ask, f.chunk)
                     [] f.type = "COMPLETE" -> Finish(messages, f.ask)
                     [] f.type = "ERROR"    -> Append(messages, Notice)

\* Faulty: the empty content of a completion counts as a chunk.
HandleCompleteAsChunk(f) ==
    /\ isTyping' = (isTyping /\ f.type = "RESPONSE")
    /\ messages' = IF f.type = "ERROR" THEN Append(messages, Notice)
                   ELSE AddChunk(messages, f.ask, f.chunk)

\* The subscriber of useAiChat.
Handle(f) ==
    /\ isTyping' = (isTyping /\ f.type = "RESPONSE")
    /\ messages' = CASE f.type = "RESPONSE" -> AddChunk(messages, f.ask, f.chunk)
                     [] f.type = "COMPLETE" -> Finish(messages, f.ask)
                     [] f.type = "ERROR"    -> Append(messages, Notice)

\* onmessage: every subscriber gets the frame; without the panel there is
\* none for it.
Receive(s) ==
    /\ State(s) = "open"
    /\ frames[s] # <<>>
    /\ frames' = [frames EXCEPT ![s] = Tail(@)]
    /\ IF panel THEN Handle(Head(frames[s])) ELSE UNCHANGED <<isTyping, messages>>
    /\ UNCHANGED <<socketVars, panel, asks, stream, alerts>>

-----------------------------------------------------------------------------
\* Frames under way are lost with their connection.
Lose(s) ==
    /\ frames' = [frames EXCEPT ![s] = <<>>]
    /\ UNCHANGED <<panelVars, asks, stream, alerts>>

\* A step of the socket.  The server's close frame comes after its others.
SocketStep ==
    \/ /\ \/ TokenChange \/ CloseTimerFires \/ RetryFires \/ Send
          \/ \E s \in Sockets : Opens(s) \/ Fails(s)
          \/ \E s \in Sockets : PeerCloses(s) /\ frames[s] = <<>>
       /\ UNCHANGED aiVars
    \/ SignOut /\ Unmount /\ UNCHANGED <<asks, serverVars>>
    \/ \E s \in Sockets : (Breaks(s) \/ Closed(s)) /\ Lose(s)

AiStep ==
    \/ OpenPanel \/ ClosePanel \/ Clear \/ Ask
    \/ \E r \in Asks : SendChunk(r) \/ EndStream(r)
    \/ \E s \in Sockets : AlertSender(s) \/ Receive(s)

Next == SocketStep \/ AiStep

AiSpec == Init /\ [][Next]_vars

\* The fairness of the socket's timers and attempts, frames that arrive, and
\* streams of the AI service that end.  Nothing is assumed of the user.
AiFairness ==
    /\ WF_vars(CloseTimerFires /\ UNCHANGED aiVars)
    /\ WF_vars(RetryFires /\ UNCHANGED aiVars)
    /\ \A s \in 1..MaxSockets :
          /\ WF_vars(s \in Sockets /\ (Opens(s) \/ Fails(s)) /\ UNCHANGED aiVars)
          /\ WF_vars(s \in Sockets /\ Closed(s) /\ Lose(s))
          /\ WF_vars(s \in Sockets /\ Receive(s))
    /\ \A r \in Asks : WF_vars(EndStream(r))

AiFairSpec == AiSpec /\ AiFairness

-----------------------------------------------------------------------------
Bubble == [role : {"user", "ai", "err"}, ask : 0..MaxAsks,
           chunks : Seq(1..MaxChunks), isStreaming : BOOLEAN]

TypeOK ==
    /\ SocketTypeOK
    /\ {panel, isTyping} \subseteq BOOLEAN
    /\ messages \in Seq(Bubble)
    /\ asks \in 0..MaxAsks
    /\ stream \in [Asks -> [sock : 0..MaxSockets, sent : 0..MaxChunks, running : BOOLEAN]]
    /\ DOMAIN frames = 1..MaxSockets
    /\ \A s \in DOMAIN frames : frames[s] \in
           Seq([type : {"RESPONSE", "COMPLETE", "ERROR"}, ask : 0..MaxAsks, chunk : 0..MaxChunks])
    /\ alerts \in 0..MaxMsgs

\* A reply is shown in one bubble and without a hole: whatever answers
\* overlap, wherever the panel was cleared or the connection lost, the
\* bubble of a question holds consecutive chunks of its answer and of no
\* other (subscriber of useAiChat, handleAiChatRequest).
ReplyHasNoHole ==
    \A i \in DOMAIN messages : messages[i].role = "ai" =>
        /\ \A k \in 2..Len(messages[i].chunks) :
              messages[i].chunks[k] = messages[i].chunks[k - 1] + 1
        /\ \A j \in DOMAIN messages : IsReply(messages[j], messages[i].ask) => i = j

\* A panel that waits for an answer that is being streamed is released,
\* unless the connection of the request is lost first (subscriber,
\* sendAiComplete, sendAiError).
AnsweredIsReleased ==
    \A r \in Asks :
        (isTyping /\ stream[r].running) ~> (~isTyping \/ State(stream[r].sock) # "open")
=============================================================================
