---------------------------- MODULE PrivateChat ----------------------------
(***************************************************************************)
(* Conversations between two users: how ChatServiceImpl starts, accepts    *)
(* and deletes them, stores a message, and how the WebSocket handler then  *)
(* broadcasts it.                                                          *)
(*                                                                         *)
(* startPrivateChat runs in no transaction: each of its writes commits on  *)
(* its own.  The other operations read first and write at their commit,    *)
(* which fails if a row they read has been deleted since.  A request that  *)
(* is refused at its first check changes nothing and is not modelled.      *)
(* No code creates a group or sets a participant BLOCKED or LEFT.          *)
(***************************************************************************)
EXTENDS Integers, Sequences, FiniteSets

CONSTANTS
    Users,
    Workers,    \* server threads
    MaxConvs,   \* bound on the conversations ever created
    MaxMsgs     \* bound on the messages ever stored

ASSUME BoundsAssumption == MaxConvs \in Nat /\ MaxMsgs \in Nat
ASSUME UsersAssumption == Users # {}

VARIABLES
    nextConv,   \* the identity column of conversations
    part,       \* participants: part[c][u] is the status, or none
    messages,   \* the stored messages, by id
    work        \* the request each worker is processing

vars == <<nextConv, part, messages, work>>

Convs == 1 .. MaxConvs
Opened == {c \in Convs : c < nextConv}

\* A message, with the participants of its conversation when it was stored
\* and those its broadcast has been sent to.
Message ==
    [conv : Convs, from : Users, via : {"ws", "rest"},
     audience : SUBSET Users, reached : SUBSET Users, done : BOOLEAN]

\* The local variables of a request: in accept, the users whose rows the
\* transaction changes to ACCEPTED; in todo, the rest of the broadcast.
Request ==
    [pc : {"idle", "create", "joinMe", "joinOther", "accept", "store", "read", "push"},
     me : Users, other : Users, conv : Convs \union {0}, via : {"ws", "rest"},
     accept : SUBSET Users, msg : Nat, todo : SUBSET Users]

TypeOK ==
    /\ nextConv \in 1 .. MaxConvs + 1
    /\ part \in [Convs -> [Users -> {"none", "PENDING", "ACCEPTED"}]]
    /\ messages \in Seq(Message)
    /\ work \in [Workers -> Request]
    /\ \A w \in Workers :
         /\ work[w].pc \notin {"idle", "create"} => work[w].conv \in Opened
         /\ work[w].pc \in {"read", "push"} => work[w].msg \in 1 .. Len(messages)

Members(c) == {u \in Users : part[c][u] # "none"}
Pending(c) == {u \in Users : part[c][u] = "PENDING"}

\* Faulty variant: only conversations that the other user has not left open.
SharedByStarter(u, v) == {c \in Opened : part[c][u] = "ACCEPTED" /\ part[c][v] # "none"}

\* findExistingPrivateConversation
Shared(u, v) == {c \in Opened : {u, v} \subseteq Members(c)}

\* A thread between two requests; whose request was last does not matter.
Rest ==
    LET nobody == CHOOSE u \in Users : TRUE
    IN  [pc |-> "idle", me |-> nobody, other |-> nobody, conv |-> 0, via |-> "ws",
         accept |-> {}, msg |-> 0, todo |-> {}]

Init ==
    /\ nextConv = 1
    /\ part = [c \in Convs |-> [u \in Users |-> "none"]]
    /\ messages = <<>>
    /\ work = [w \in Workers |-> Rest]

-----------------------------------------------------------------------------
Idle(w) == work[w].pc = "idle"

Goto(w, pc) == work' = [work EXCEPT ![w].pc = pc]
Return(w) == work' = [work EXCEPT ![w] = Rest]

\* A step throws, or the server goes down: what was committed stays.
Fail(w) ==
    /\ ~Idle(w)
    /\ Return(w)
    /\ UNCHANGED <<nextConv, part, messages>>

\* startPrivateChat(u, v): look for a conversation.  One is returned as it
\* is, two make the query throw; only with none the method goes on.
StartFind(w, u, v) ==
    /\ Idle(w) /\ u # v
    /\ Shared(u, v) = {}
    /\ work' = [work EXCEPT ![w] = [Rest EXCEPT !.pc = "create", !.me = u, !.other = v]]
    /\ UNCHANGED <<nextConv, part, messages>>

\* Faulty variant: the id is read after the identity column has moved on.
StartCreateNextId(w) ==
    /\ work[w].pc = "create"
    /\ nextConv <= MaxConvs
    /\ nextConv' = nextConv + 1
    /\ work' = [work EXCEPT ![w].pc = "joinMe", ![w].conv = nextConv']
    /\ UNCHANGED <<part, messages>>

\* conversationRepository.save
StartCreate(w) ==
    /\ work[w].pc = "create"
    /\ nextConv <= MaxConvs
    /\ nextConv' = nextConv + 1
    /\ work' = [work EXCEPT ![w].pc = "joinMe", ![w].conv = nextConv]
    /\ UNCHANGED <<part, messages>>

\* Faulty variant: everyone begins with a request to accept.
StartJoinMePending(w) ==
    /\ work[w].pc = "joinMe"
    /\ part' = [part EXCEPT ![work[w].conv][work[w].me] = "PENDING"]
    /\ Goto(w, "joinOther")
    /\ UNCHANGED <<nextConv, messages>>

\* createParticipant for the sender
StartJoinMe(w) ==
    /\ work[w].pc = "joinMe"
    /\ part' = [part EXCEPT ![work[w].conv][work[w].me] = "ACCEPTED"]
    /\ Goto(w, "joinOther")
    /\ UNCHANGED <<nextConv, messages>>

\* createParticipant for the receiver, whom isFriend decides about
StartJoinOther(w, status) ==
    /\ work[w].pc = "joinOther"
    /\ part' = [part EXCEPT ![work[w].conv][work[w].other] = status]
    /\ Return(w)
    /\ UNCHANGED <<nextConv, messages>>

-----------------------------------------------------------------------------
\* acceptMessageRequest: the user's own row must be PENDING; the row of the
\* other user is set too.  Hibernate writes the rows that really change.
AcceptFind(w, u, c) ==
    /\ Idle(w)
    /\ part[c][u] = "PENDING"
    /\ work' = [work EXCEPT ![w] = [Rest EXCEPT !.pc = "accept", !.me = u, !.conv = c,
                                                  !.accept = Pending(c)]]
    /\ UNCHANGED <<nextConv, part, messages>>

\* The rows a transaction read are still there, and are written.
Written(q) ==
    /\ q.accept \subseteq Members(q.conv)
    /\ part' = [part EXCEPT ![q.conv] =
                  [u \in Users |-> IF u \in q.accept THEN "ACCEPTED" ELSE @[u]]]

AcceptCommit(w) ==
    /\ work[w].pc = "accept"
    /\ Written(work[w])
    /\ Return(w)
    /\ UNCHANGED <<nextConv, messages>>

\* deleteConversation: the user's own row goes, nothing else.
Delete(u, c) ==
    /\ part[c][u] # "none"
    /\ part' = [part EXCEPT ![c][u] = "none"]
    /\ UNCHANGED <<nextConv, messages, work>>

-----------------------------------------------------------------------------
\* Faulty variant: a pending member sends without accepting.
SendFindAsIs(w, u, c, via) ==
    /\ Idle(w)
    /\ u \in Members(c)
    /\ work' = [work EXCEPT ![w] = [Rest EXCEPT !.pc = "store", !.me = u, !.conv = c,
                                                  !.via = via]]
    /\ UNCHANGED <<nextConv, part, messages>>

\* sendMessage (REST) and saveBinaryMessage (WebSocket): the membership
\* checks, taken as one; only the REST operation wants a receiver as well.
\* A member who was PENDING accepts by sending.
SendFind(w, u, c, via) ==
    /\ Idle(w)
    /\ u \in Members(c)
    /\ via = "rest" => Members(c) \ {u} # {}
    /\ work' = [work EXCEPT ![w] = [Rest EXCEPT !.pc = "store", !.me = u, !.conv = c,
                                                  !.via = via,
                                                  !.accept = Pending(c) \intersect {u}]]
    /\ UNCHANGED <<nextConv, part, messages>>

\* The message is stored.  A REST request is done, the handler broadcasts.
SendStore(w) ==
    LET q == work[w]
        message == [conv |-> q.conv, from |-> q.me, via |-> q.via,
                    audience |-> Members(q.conv), reached |-> {}, done |-> FALSE]
    IN  /\ q.pc = "store"
        /\ Len(messages) < MaxMsgs
        /\ Written(q)
        /\ messages' = Append(messages, message)
        /\ work' = [work EXCEPT ![w] =
                      IF q.via = "rest" THEN Rest
                      ELSE [q EXCEPT !.pc = "read", !.msg = Len(messages) + 1]]
        /\ UNCHANGED nextConv

\* Faulty variant: those who still have to accept are left out.
BroadcastReadAccepted(w) ==
    LET q == work[w]
    IN  /\ q.pc = "read"
        /\ work' = [work EXCEPT ![w].pc = "push",
                                ![w].todo = Members(q.conv) \ Pending(q.conv)]
        /\ UNCHANGED <<nextConv, part, messages>>

\* broadcastMessage: the participants as they are now ...
BroadcastRead(w) ==
    /\ work[w].pc = "read"
    /\ work' = [work EXCEPT ![w].pc = "push", ![w].todo = Members(work[w].conv)]
    /\ UNCHANGED <<nextConv, part, messages>>

\* ... one after the other: the sessions of one user are served.
Push(w, u) ==
    LET q == work[w]
    IN  /\ q.pc = "push"
        /\ u \in q.todo
        /\ messages' = [messages EXCEPT ![q.msg].reached = @ \union {u}]
        /\ work' = [work EXCEPT ![w].todo = @ \ {u}]
        /\ UNCHANGED <<nextConv, part>>

BroadcastEnd(w) ==
    LET q == work[w]
    IN  /\ q.pc = "push"
        /\ q.todo = {}
        /\ messages' = [messages EXCEPT ![q.msg].done = TRUE]
        /\ Return(w)
        /\ UNCHANGED <<nextConv, part>>

-----------------------------------------------------------------------------
WorkStep(w) ==
    \/ StartCreate(w) \/ StartJoinMe(w)
    \/ \E status \in {"PENDING", "ACCEPTED"} : StartJoinOther(w, status)
    \/ AcceptCommit(w) \/ SendStore(w)
    \/ BroadcastRead(w) \/ (\E u \in Users : Push(w, u)) \/ BroadcastEnd(w)
    \/ Fail(w)

Call(w) ==
    \/ \E u, v \in Users : StartFind(w, u, v)
    \/ \E u \in Users, c \in Opened :
         AcceptFind(w, u, c) \/ \E via \in {"ws", "rest"} : SendFind(w, u, c, via)

Next ==
    \/ \E w \in Workers : WorkStep(w) \/ Call(w)
    \/ \E u \in Users, c \in Opened : Delete(u, c)

Spec == Init /\ [][Next]_vars

-----------------------------------------------------------------------------
\* Who has sent into a conversation has accepted it: however requests race,
\* no stored message is from a user whose own row still says PENDING.
SendersHaveAccepted ==
    \A i \in 1 .. Len(messages) : part[messages[i].conv][messages[i].from] # "PENDING"

\* A row of participants has one life.  It appears only while its
\* conversation is being started, so who has left never comes back; and a
\* PENDING user becomes ACCEPTED by a request of their own, although accept
\* writes the other user's row too.
RowStep ==
    \A c \in Convs, u \in Users :
        part'[c][u] # part[c][u] =>
            \/ part'[c][u] = "none"
            \/ /\ part[c][u] = "none"
               /\ \E w \in Workers :
                    /\ work[w].conv = c
                    /\ \/ work[w].pc = "joinMe" /\ u = work[w].me
                       \/ work[w].pc = "joinOther" /\ u = work[w].other
            \/ /\ part[c][u] = "PENDING"
               /\ \E w \in Workers :
                    /\ work[w].conv = c /\ work[w].me = u
                    /\ work[w].pc \in {"accept", "store"}

ParticipantLifecycle == [][RowStep]_vars

\* A completed broadcast has been sent to everyone who was a participant
\* when the message was stored and still is one.
BroadcastReachesMembers ==
    \A i \in 1 .. Len(messages) :
        LET m == messages[i]
        IN  m.done => m.audience \intersect Members(m.conv) \subseteq m.reached

\* The inductive invariant behind the three properties above.  Who is still to
\* get a row in a conversation has had no part in it.
Joining(w) == work[w].pc \in {"joinMe", "joinOther"}
ToJoin(w, u) ==
    \/ work[w].pc = "joinMe" /\ u = work[w].me
    \/ Joining(w) /\ u = work[w].other

Writing == {"accept", "store"}

Newcomers ==
    \A w \in Workers, u \in Users :
        LET c == work[w].conv
        IN  ToJoin(w, u) =>
            /\ part[c][u] = "none"
            /\ \A i \in 1 .. Len(messages) :
                 messages[i].conv = c => u # messages[i].from /\ u \notin messages[i].audience
            /\ \A v \in Workers :
                 work[v].pc \in Writing /\ work[v].conv = c => u # work[v].me

\* Each conversation is started by one thread, and an id not given out yet
\* has no rows.
StartedByOne ==
    /\ \A w, v \in Workers :
         Joining(w) /\ Joining(v) /\ work[w].conv = work[v].conv => w = v
    /\ \A w \in Workers :
         work[w].pc \in {"create", "joinMe", "joinOther"} => work[w].me # work[w].other
    /\ \A c \in Convs \ Opened :
         /\ Members(c) = {}
         /\ \A i \in 1 .. Len(messages) : messages[i].conv # c

\* At most one participant is PENDING, so nobody accepts for somebody else.
OwnAcceptance ==
    /\ \A c \in Convs : \A u, v \in Pending(c) : u = v
    /\ \A w \in Workers :
         /\ Joining(w) => Pending(work[w].conv) = {}
         /\ work[w].pc \in Writing => work[w].accept \subseteq {work[w].me}
         /\ work[w].pc = "store" /\ work[w].accept = {} =>
              part[work[w].conv][work[w].me] # "PENDING"

BroadcastUnderway ==
    \A w \in Workers :
        LET m == messages[work[w].msg]
        IN  /\ work[w].pc \in {"read", "push"} => m.conv = work[w].conv
            /\ work[w].pc = "push" =>
                 m.audience \intersect Members(m.conv) \subseteq m.reached \union work[w].todo

IInv ==
    /\ TypeOK /\ Newcomers /\ StartedByOne /\ OwnAcceptance
    /\ SendersHaveAccepted /\ BroadcastUnderway /\ BroadcastReachesMembers

\* "Return luôn cái cũ": two users share at most one conversation, which
\* every later start returns.
OneChatPerPair ==
    \A u, v \in Users : u # v => Cardinality(Shared(u, v)) <= 1

-----------------------------------------------------------------------------
\* Expected of the code by its comments, and refuted by TLC (see the README).

\* "Không tìm thấy người nhận": no message into a conversation without a
\* receiver is stored.
MessageHasReceiver ==
    \A i \in 1 .. Len(messages) : messages[i].audience \ {messages[i].from} # {}
=============================================================================
