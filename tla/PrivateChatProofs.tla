------------------------- MODULE PrivateChatProofs -------------------------
(***************************************************************************)
(* Proofs about PrivateChat, for any number of users, server threads,      *)
(* conversations and messages.                                             *)
(***************************************************************************)
EXTENDS PrivateChat, SequenceTheorems, FiniteSetTheorems, TLAPS

\* A resting thread is well typed.
LEMMA RestType ==
    /\ Rest \in Request
    /\ Rest.pc = "idle"
<1>1. (CHOOSE u \in Users : TRUE) \in Users  BY UsersAssumption
<1> QED  BY <1>1 DEF Rest, Request

-----------------------------------------------------------------------------
\* A step that changes nothing but one request, which does not join anybody,
\* keeps the invariant if the request has read what it plans from the rows.
LEMMA RequestStep ==
    ASSUME IInv, NEW w \in Workers, NEW q \in Request,
           work' = [work EXCEPT ![w] = q],
           UNCHANGED <<nextConv, part, messages>>,
           q.pc \notin {"joinMe", "joinOther"},
           q.pc = "create" => q.me # q.other,
           q.pc \notin {"idle", "create"} => q.conv \in Opened,
           q.pc \in Writing => /\ q.me \in Members(q.conv)
                               /\ q.accept \subseteq {q.me},
           q.pc = "store" /\ q.accept = {} => part[q.conv][q.me] # "PENDING",
           q.pc \in {"read", "push"} => /\ q.msg \in 1 .. Len(messages)
                                        /\ messages[q.msg].conv = q.conv,
           q.pc = "push" => Members(q.conv) \subseteq q.todo
    PROVE  IInv'
<1> USE DEF IInv
<1>0. /\ work \in [Workers -> Request] /\ work' \in [Workers -> Request]
      /\ work'[w] = q /\ \A v \in Workers : v # w => work'[v] = work[v]
  BY DEF TypeOK
<1>1. TypeOK'
  BY <1>0 DEF TypeOK, Opened
<1>2. Newcomers'
  BY <1>0 DEF Newcomers, ToJoin, Joining, Members, Writing
<1>3. StartedByOne'
  BY <1>0 DEF StartedByOne, Joining, Members, Opened
<1>4. OwnAcceptance'
  BY <1>0 DEF OwnAcceptance, Joining, Pending, Writing
<1>5. SendersHaveAccepted' /\ BroadcastReachesMembers'
  BY DEF SendersHaveAccepted, BroadcastReachesMembers, Members
<1>6. BroadcastUnderway'
  BY <1>0 DEF BroadcastUnderway, Members
<1> QED  BY <1>1, <1>2, <1>3, <1>4, <1>5, <1>6

LEMMA ReturnStep ==
    ASSUME IInv, NEW w \in Workers, Return(w),
           UNCHANGED <<nextConv, part, messages>>
    PROVE  IInv'
BY RestType, RequestStep DEF Return, Writing

LEMMA FindSteps ==
    ASSUME IInv, NEW w \in Workers,
           \/ \E u, v \in Users : StartFind(w, u, v)
           \/ \E u \in Users, c \in Opened : AcceptFind(w, u, c)
           \/ \E u \in Users, c \in Opened, via \in {"ws", "rest"} : SendFind(w, u, c, via)
           \/ BroadcastRead(w)
    PROVE  IInv'
<1>1. ASSUME NEW u \in Users, NEW v \in Users, StartFind(w, u, v)
      PROVE  IInv'
  <2> DEFINE q == [Rest EXCEPT !.pc = "create", !.me = u, !.other = v]
  <2>1. q \in Request /\ q.pc = "create" /\ q.me # q.other
    BY <1>1, RestType DEF Request, StartFind
  <2>2. work' = [work EXCEPT ![w] = q] /\ UNCHANGED <<nextConv, part, messages>>
    BY <1>1 DEF StartFind
  <2> HIDE DEF q
  <2> QED  BY <2>1, <2>2, RequestStep DEF Writing
<1>2. ASSUME NEW u \in Users, NEW c \in Opened, AcceptFind(w, u, c)
      PROVE  IInv'
  <2> DEFINE q == [Rest EXCEPT !.pc = "accept", !.me = u, !.conv = c, !.accept = Pending(c)]
  <2>1. c \in Convs /\ Pending(c) \subseteq Users  BY DEF Opened, Pending
  <2>2. /\ q \in Request /\ q.pc = "accept" /\ q.me = u /\ q.conv = c
        /\ q.accept = Pending(c)
    BY <2>1, RestType DEF Request
  <2>3. work' = [work EXCEPT ![w] = q] /\ UNCHANGED <<nextConv, part, messages>>
    BY <1>2 DEF AcceptFind
  <2>4. u \in Members(c) /\ Pending(c) \subseteq {u}
    BY <1>2, <2>1 DEF AcceptFind, Members, Pending, IInv, OwnAcceptance
  <2> HIDE DEF q
  <2> QED  BY <2>2, <2>3, <2>4, RequestStep DEF Writing
<1>3. ASSUME NEW u \in Users, NEW c \in Opened, NEW via \in {"ws", "rest"},
             SendFind(w, u, c, via)
      PROVE  IInv'
  <2> DEFINE q == [Rest EXCEPT !.pc = "store", !.me = u, !.conv = c, !.via = via,
                               !.accept = Pending(c) \intersect {u}]
  <2>1. c \in Convs /\ u \in Members(c)  BY <1>3 DEF Opened, SendFind
  <2>2. /\ q \in Request /\ q.pc = "store" /\ q.me = u /\ q.conv = c
        /\ q.accept = Pending(c) \intersect {u}
    BY <2>1, RestType DEF Request
  <2>3. work' = [work EXCEPT ![w] = q] /\ UNCHANGED <<nextConv, part, messages>>
    BY <1>3 DEF SendFind
  <2>4. Pending(c) \intersect {u} = {} => part[c][u] # "PENDING"
    BY DEF Pending
  <2> HIDE DEF q
  <2> QED  BY <2>1, <2>2, <2>3, <2>4, RequestStep DEF Writing
<1>4. CASE BroadcastRead(w)
  <2> DEFINE q == [work[w] EXCEPT !.pc = "push", !.todo = Members(work[w].conv)]
  <2>1. work[w] \in Request /\ work[w].pc = "read"
    BY <1>4 DEF BroadcastRead, IInv, TypeOK
  <2>2. /\ q \in Request /\ q.pc = "push" /\ q.conv = work[w].conv
        /\ q.msg = work[w].msg /\ q.todo = Members(work[w].conv)
    BY <2>1 DEF Request, Members
  <2>3. work' = [work EXCEPT ![w] = q] /\ UNCHANGED <<nextConv, part, messages>>
    BY <1>4 DEF BroadcastRead, IInv, TypeOK
  <2>4. /\ work[w].conv \in Opened /\ work[w].msg \in 1 .. Len(messages)
        /\ messages[work[w].msg].conv = work[w].conv
    BY <2>1 DEF IInv, TypeOK, BroadcastUnderway
  <2> HIDE DEF q
  <2> QED  BY <2>2, <2>3, <2>4, RequestStep DEF Writing
<1> QED  BY <1>1, <1>2, <1>3, <1>4

-----------------------------------------------------------------------------
\* The three steps that create a conversation and its rows.
LEMMA CreateStep ==
    ASSUME IInv, NEW w \in Workers, StartCreate(w)
    PROVE  IInv'
<1> USE DEF IInv
<1> DEFINE q == [work[w] EXCEPT !.pc = "joinMe", !.conv = nextConv]
<1>0. /\ nextConv \in Convs /\ nextConv \notin Opened
      /\ Opened' = Opened \union {nextConv}
      /\ UNCHANGED <<part, messages>>
  BY BoundsAssumption DEF StartCreate, TypeOK, Convs, Opened
<1>1. work[w] \in Request /\ work[w].pc = "create"  BY DEF StartCreate, TypeOK
<1>2. /\ q \in Request /\ q.pc = "joinMe" /\ q.conv = nextConv
      /\ q.me = work[w].me /\ q.other = work[w].other
  BY <1>0, <1>1 DEF Request
<1>3. work' = [work EXCEPT ![w] = q]  BY DEF StartCreate, TypeOK
<1> HIDE DEF q
<1>4. /\ work' \in [Workers -> Request] /\ work'[w] = q
      /\ \A v \in Workers : v # w => work'[v] = work[v]
  BY <1>2, <1>3 DEF TypeOK
<1>5. \A v \in Workers : work[v].pc \notin {"idle", "create"} => work[v].conv # nextConv
  BY <1>0 DEF TypeOK
<1>6. /\ \A u \in Users : part[nextConv][u] = "none"
      /\ \A i \in 1 .. Len(messages) : messages[i].conv # nextConv
  BY <1>0 DEF StartedByOne, Members
<1>7. TypeOK'
  BY <1>0, <1>2, <1>4, BoundsAssumption DEF TypeOK, StartCreate
<1>8. Newcomers'
  BY <1>0, <1>2, <1>4, <1>5, <1>6 DEF Newcomers, ToJoin, Joining, Writing
<1>9. StartedByOne'
  BY <1>0, <1>1, <1>2, <1>4, <1>5, <1>6 DEF StartedByOne, Joining, Members
<1>10. OwnAcceptance'
  BY <1>0, <1>2, <1>4, <1>6 DEF OwnAcceptance, Joining, Pending, Writing
<1>11. SendersHaveAccepted' /\ BroadcastReachesMembers'
  BY <1>0 DEF SendersHaveAccepted, BroadcastReachesMembers, Members
<1>12. BroadcastUnderway'
  BY <1>0, <1>2, <1>4 DEF BroadcastUnderway, Members
<1> QED  BY <1>7, <1>8, <1>9, <1>10, <1>11, <1>12

LEMMA JoinSteps ==
    ASSUME IInv, NEW w \in Workers,
           StartJoinMe(w) \/ \E status \in {"PENDING", "ACCEPTED"} : StartJoinOther(w, status)
    PROVE  IInv'
<1> USE DEF IInv
<1> DEFINE Joined(c, u, status, q) ==
         /\ c = work[w].conv /\ ToJoin(w, u) /\ Joining(w)
         /\ part' = [part EXCEPT ![c][u] = status]
         /\ work' = [work EXCEPT ![w] = q]
         /\ UNCHANGED <<nextConv, messages>>
         /\ \/ /\ work[w].pc = "joinMe" /\ u = work[w].me /\ status = "ACCEPTED"
               /\ q.pc = "joinOther" /\ q.me = work[w].me /\ q.other = work[w].other
               /\ q.conv = work[w].conv
            \/ q.pc = "idle"
<1>1. PICK c \in Opened, u \in Users, status \in {"PENDING", "ACCEPTED"}, q \in Request :
         Joined(c, u, status, q)
  <2>1. work[w] \in Request /\ work \in [Workers -> Request]  BY DEF TypeOK
  <2>2. CASE StartJoinMe(w)
    <3> DEFINE q == [work[w] EXCEPT !.pc = "joinOther"]
    <3>1. q \in Request /\ q.pc = "joinOther" /\ q.me = work[w].me
          /\ q.other = work[w].other /\ q.conv = work[w].conv
      BY <2>1 DEF Request
    <3>2. work' = [work EXCEPT ![w] = q]  BY <2>1, <2>2 DEF StartJoinMe, Goto
    <3>3. work[w].pc = "joinMe" /\ work[w].conv \in Opened /\ work[w].me \in Users
      BY <2>1, <2>2 DEF StartJoinMe, TypeOK, Request
    <3> HIDE DEF q
    <3>4. Joined(work[w].conv, work[w].me, "ACCEPTED", q)
      BY <2>2, <3>1, <3>2, <3>3 DEF StartJoinMe, ToJoin, Joining
    <3> QED  BY <3>1, <3>3, <3>4
  <2>3. ASSUME NEW status \in {"PENDING", "ACCEPTED"}, StartJoinOther(w, status)
        PROVE  \E c \in Opened, u \in Users, q \in Request : Joined(c, u, status, q)
    <3>1. work[w].pc = "joinOther" /\ work[w].conv \in Opened /\ work[w].other \in Users
      BY <2>1, <2>3 DEF StartJoinOther, TypeOK, Request
    <3>2. Joined(work[w].conv, work[w].other, status, Rest)
      BY <2>3, <3>1, RestType DEF StartJoinOther, Return, ToJoin, Joining
    <3> QED  BY <3>1, <3>2, RestType
  <2> QED  BY <2>2, <2>3
<1>2. /\ work \in [Workers -> Request] /\ work' \in [Workers -> Request] /\ work'[w] = q
      /\ \A v \in Workers : v # w => work'[v] = work[v]
      /\ c \in Convs
  BY <1>1 DEF TypeOK, Opened
<1>3. /\ part' \in [Convs -> [Users -> {"none", "PENDING", "ACCEPTED"}]]
      /\ part'[c][u] = status
      /\ \A d \in Convs, x \in Users : d # c \/ x # u => part'[d][x] = part[d][x]
  BY <1>1, <1>2 DEF TypeOK
<1>4. /\ part[c][u] = "none"
      /\ \A i \in 1 .. Len(messages) :
           messages[i].conv = c => u # messages[i].from /\ u \notin messages[i].audience
      /\ \A v \in Workers :
           work[v].pc \in Writing /\ work[v].conv = c => u # work[v].me
  BY <1>1, <1>2 DEF Newcomers
<1>5. \A v \in Workers : v # w /\ Joining(v) => work[v].conv # c
  BY <1>1 DEF StartedByOne
<1>6. \A x \in Users : part[c][x] # "PENDING"
  BY <1>1 DEF OwnAcceptance, Pending
<1>7. q.pc = "joinOther" => u # q.other /\ status = "ACCEPTED"
  BY <1>1, <1>2 DEF StartedByOne
<1>8. Opened' = Opened  BY <1>1 DEF Opened
<1>m. messages \in Seq(Message) /\ messages' = messages
      /\ \A i \in 1 .. Len(messages) : /\ messages[i].conv \in Convs /\ messages[i].from \in Users
                                       /\ messages[i].audience \subseteq Users
  <2>1. messages \in Seq(Message) /\ messages' = messages  BY <1>1 DEF TypeOK
  <2>2. \A i \in 1 .. Len(messages) : messages[i] \in Message  BY <2>1, ElementOfSeq
  <2> QED  BY <2>1, <2>2 DEF Message
<1>9. TypeOK'
  BY <1>1, <1>2, <1>3, <1>8 DEF TypeOK
<1>10. Newcomers'
  <2> SUFFICES ASSUME NEW v \in Workers, NEW x \in Users, ToJoin(v, x)'
               PROVE  /\ part'[work'[v].conv][x] = "none"
                      /\ \A i \in 1 .. Len(messages) :
                           messages[i].conv = work'[v].conv =>
                               x # messages[i].from /\ x \notin messages[i].audience
                      /\ \A t \in Workers :
                           work'[t].pc \in Writing /\ work'[t].conv = work'[v].conv =>
                               x # work'[t].me
    BY <1>m DEF Newcomers
  <2>1. ToJoin(v, x) /\ work'[v].conv = work[v].conv
    BY <1>1, <1>2 DEF ToJoin, Joining
  <2>2. work[v].conv \in Convs /\ (work[v].conv # c \/ x # u)
    BY <1>1, <1>2, <1>5, <1>7 DEF ToJoin, Joining, TypeOK, Opened
  <2>3. work'[w].pc \notin Writing  BY <1>1, <1>2 DEF Writing
  <2> QED  BY <1>2, <1>3, <2>1, <2>2, <2>3 DEF Newcomers
<1>11. StartedByOne'
  <2>1. \A v \in Workers : Joining(v)' => Joining(v) /\ work'[v].conv = work[v].conv
    BY <1>1, <1>2 DEF Joining
  <2>2. \A v \in Workers : work'[v].pc \in {"create", "joinMe", "joinOther"} =>
            /\ work[v].pc \in {"create", "joinMe", "joinOther"}
            /\ work'[v].me = work[v].me /\ work'[v].other = work[v].other
    BY <1>1, <1>2 DEF Joining
  <2>3. \A d \in Convs \ Opened : Members(d)' = Members(d)
    BY <1>1, <1>3 DEF Members
  <2> QED  BY <1>8, <1>m, <2>1, <2>2, <2>3 DEF StartedByOne
<1>12. OwnAcceptance'
  <2>1. \A d \in Convs : d # c => Pending(d)' = Pending(d)
    BY <1>3 DEF Pending
  <2>2. Pending(c)' \subseteq {u} /\ (status = "ACCEPTED" => Pending(c)' = {})
    BY <1>2, <1>3, <1>6 DEF Pending
  <2>3. \A v \in Workers : Joining(v)' => /\ Joining(v) /\ work'[v].conv = work[v].conv
                                          /\ v = w => status = "ACCEPTED"
    BY <1>1, <1>2 DEF Joining
  <2>4. \A v \in Workers : Joining(v)' => Pending(work[v].conv)' = {}
    <3> SUFFICES ASSUME NEW v \in Workers, Joining(v)'
                 PROVE  Pending(work[v].conv)' = {}
      OBVIOUS
    <3>1. work[v].conv \in Convs  BY <2>3 DEF Joining, TypeOK, Opened
    <3>2. Pending(work[v].conv) = {}  BY <2>3 DEF OwnAcceptance
    <3> QED  BY <1>1, <1>5, <2>1, <2>2, <2>3, <3>1, <3>2
  <2>5. \A v \in Workers : work'[v].pc \in Writing => v # w /\ work'[v] = work[v]
    BY <1>1, <1>2 DEF Writing
  <2>6. ASSUME NEW v \in Workers, work[v].pc = "store", work[v].accept = {}
        PROVE  part'[work[v].conv][work[v].me] # "PENDING"
    <3>1. work[v].conv \in Convs /\ work[v].me \in Users
      BY <1>2, <2>6 DEF TypeOK, Opened, Request
    <3>2. work[v].conv # c \/ work[v].me # u  BY <1>4, <2>6 DEF Writing
    <3> QED  BY <1>3, <2>6, <3>1, <3>2 DEF OwnAcceptance
  <2> QED  BY <2>1, <2>2, <2>3, <2>4, <2>5, <2>6 DEF OwnAcceptance, Writing
<1>13. SendersHaveAccepted'
  BY <1>3, <1>4, <1>m DEF SendersHaveAccepted
<1>14. ASSUME NEW i \in 1 .. Len(messages)
       PROVE  messages[i].audience \intersect Members(messages[i].conv)'
                \subseteq messages[i].audience \intersect Members(messages[i].conv)
  BY <1>3, <1>4, <1>m DEF Members
<1>15. BroadcastReachesMembers'
  BY <1>14, <1>m DEF BroadcastReachesMembers
<1>16. BroadcastUnderway'
  <2> SUFFICES ASSUME NEW v \in Workers, work'[v].pc \in {"read", "push"}
               PROVE  (LET m == messages[work[v].msg]
                       IN  /\ m.conv = work[v].conv
                           /\ work[v].pc = "push" =>
                                m.audience \intersect Members(m.conv)
                                  \subseteq m.reached \union work[v].todo)'
    BY DEF BroadcastUnderway
  <2>1. work'[v] = work[v] /\ work[v].msg \in 1 .. Len(messages)
    BY <1>1, <1>2 DEF TypeOK
  <2>2. messages[work[v].msg].audience \intersect Members(messages[work[v].msg].conv)'
          \subseteq messages[work[v].msg].audience \intersect Members(messages[work[v].msg].conv)
    BY <1>3, <1>4, <1>m, <2>1 DEF Members
  <2> QED  BY <1>m, <2>1, <2>2 DEF BroadcastUnderway
<1> QED  BY <1>9, <1>10, <1>11, <1>12, <1>13, <1>15, <1>16

-----------------------------------------------------------------------------
\* A step that only takes rows or PENDING marks away, and lets some threads
\* rest, keeps the invariant.
LEMMA ShrinkStep ==
    ASSUME IInv, UNCHANGED <<nextConv, messages>>,
           part' \in [Convs -> [Users -> {"none", "PENDING", "ACCEPTED"}]],
           \A c \in Convs : /\ Members(c)' \subseteq Members(c)
                            /\ Pending(c)' \subseteq Pending(c),
           work' \in [Workers -> Request],
           \A v \in Workers : work'[v] = work[v] \/ work'[v] = Rest
    PROVE  IInv'
<1> USE DEF IInv
<1>0. Opened' = Opened /\ Opened \subseteq Convs  BY DEF Opened
<1>1. \A v \in Workers : work'[v].pc # "idle" => work'[v] = work[v]
  BY RestType
<1>2. \A c \in Convs, u \in Users :
         /\ part[c][u] = "none" => part'[c][u] = "none"
         /\ part'[c][u] = "PENDING" => part[c][u] = "PENDING"
  BY DEF Members, Pending
<1>m. messages \in Seq(Message) /\ messages' = messages
      /\ \A i \in 1 .. Len(messages) : messages[i].conv \in Convs /\ messages[i].from \in Users
  <2>1. messages \in Seq(Message) /\ messages' = messages  BY DEF TypeOK
  <2>2. \A i \in 1 .. Len(messages) : messages[i] \in Message  BY <2>1, ElementOfSeq
  <2> QED  BY <2>1, <2>2 DEF Message
<1>3. TypeOK'
  BY <1>0, <1>1 DEF TypeOK
<1>4. Newcomers'
  <2> SUFFICES ASSUME NEW v \in Workers, NEW x \in Users, ToJoin(v, x)'
               PROVE  /\ part'[work'[v].conv][x] = "none"
                      /\ \A i \in 1 .. Len(messages) :
                           messages[i].conv = work'[v].conv =>
                               x # messages[i].from /\ x \notin messages[i].audience
                      /\ \A t \in Workers :
                           work'[t].pc \in Writing /\ work'[t].conv = work'[v].conv =>
                               x # work'[t].me
    BY <1>m DEF Newcomers
  <2>1. work'[v] = work[v] /\ ToJoin(v, x) /\ work[v].conv \in Convs
    BY <1>0, <1>1 DEF ToJoin, Joining, TypeOK
  <2>2. \A t \in Workers : work'[t].pc \in Writing => work'[t] = work[t]
    BY <1>1 DEF Writing
  <2> QED  BY <1>2, <2>1, <2>2 DEF Newcomers
<1>5. StartedByOne'
  <2>1. \A v \in Workers : Joining(v)' => Joining(v) /\ work'[v] = work[v]
    BY <1>1 DEF Joining
  <2> QED  BY <1>0, <1>1, <1>m, <2>1 DEF StartedByOne
<1>6. OwnAcceptance'
  <2>1. \A v \in Workers : Joining(v)' =>
           Joining(v) /\ work'[v] = work[v] /\ work[v].conv \in Convs
    BY <1>0, <1>1 DEF Joining, TypeOK
  <2>2. \A v \in Workers : work'[v].pc \in Writing =>
           work'[v] = work[v] /\ work[v].conv \in Convs /\ work[v].me \in Users
    BY <1>0, <1>1 DEF Writing, TypeOK, Request
  <2>3. \A d \in Convs : \A u, v \in Pending(d)' : u = v
    BY DEF OwnAcceptance
  <2>4. \A v \in Workers : Joining(v)' => Pending(work[v].conv)' = {}
    BY <2>1 DEF OwnAcceptance
  <2>5. \A v \in Workers : work'[v].pc \in Writing => work'[v].accept \subseteq {work'[v].me}
    BY <2>2 DEF OwnAcceptance
  <2>6. ASSUME NEW v \in Workers, work'[v].pc = "store", work'[v].accept = {}
        PROVE  part'[work'[v].conv][work'[v].me] # "PENDING"
    BY <1>2, <2>2, <2>6 DEF OwnAcceptance, Writing
  <2> QED  BY <2>3, <2>4, <2>5, <2>6 DEF OwnAcceptance
<1>7. SendersHaveAccepted'
  BY <1>2, <1>m DEF SendersHaveAccepted
<1>8. BroadcastReachesMembers'
  BY <1>m DEF BroadcastReachesMembers
<1>9. BroadcastUnderway'
  <2> SUFFICES ASSUME NEW v \in Workers, work'[v].pc \in {"read", "push"}
               PROVE  (LET m == messages[work[v].msg]
                       IN  /\ m.conv = work[v].conv
                           /\ work[v].pc = "push" =>
                                m.audience \intersect Members(m.conv)
                                  \subseteq m.reached \union work[v].todo)'
    BY DEF BroadcastUnderway
  <2>1. work'[v] = work[v] /\ work[v].msg \in 1 .. Len(messages)
    BY <1>1 DEF TypeOK
  <2>2. Members(messages[work[v].msg].conv)' \subseteq Members(messages[work[v].msg].conv)
    BY <1>m, <2>1
  <2> QED  BY <1>m, <2>1, <2>2 DEF BroadcastUnderway
<1> QED  BY <1>3, <1>4, <1>5, <1>6, <1>7, <1>8, <1>9

LEMMA DeleteStep ==
    ASSUME IInv, NEW u \in Users, NEW c \in Opened, Delete(u, c)
    PROVE  IInv'
<1>1. c \in Convs  BY DEF Opened
<1>2. part' \in [Convs -> [Users -> {"none", "PENDING", "ACCEPTED"}]]
  BY <1>1 DEF Delete, IInv, TypeOK
<1>3. \A d \in Convs : Members(d)' \subseteq Members(d) /\ Pending(d)' \subseteq Pending(d)
  BY <1>1 DEF Delete, IInv, TypeOK, Members, Pending
<1> QED  BY <1>2, <1>3, ShrinkStep DEF Delete, IInv, TypeOK

\* What a transaction writes are acceptances of its own user.
LEMMA WrittenRows ==
    ASSUME IInv, NEW w \in Workers, work[w].pc \in Writing, Written(work[w])
    PROVE  /\ part' \in [Convs -> [Users -> {"none", "PENDING", "ACCEPTED"}]]
           /\ \A c \in Convs, u \in Users :
                \/ part'[c][u] = part[c][u]
                \/ /\ c = work[w].conv /\ u = work[w].me
                   /\ part[c][u] # "none" /\ part'[c][u] = "ACCEPTED"
           /\ \A c \in Convs : Members(c)' = Members(c) /\ Pending(c)' \subseteq Pending(c)
           /\ work[w].accept # {} => part'[work[w].conv][work[w].me] = "ACCEPTED"
<1>1. work[w] \in Request /\ work[w].conv \in Convs /\ work[w].accept \subseteq {work[w].me}
  BY DEF IInv, TypeOK, OwnAcceptance, Writing, Opened
<1>2. part' \in [Convs -> [Users -> {"none", "PENDING", "ACCEPTED"}]]
  BY <1>1 DEF Written, IInv, TypeOK
<1>3. \A c \in Convs, u \in Users :
         \/ part'[c][u] = part[c][u]
         \/ /\ c = work[w].conv /\ u = work[w].me
            /\ part[c][u] # "none" /\ part'[c][u] = "ACCEPTED"
  BY <1>1 DEF Written, IInv, TypeOK, Members
<1>4. \A c \in Convs : Members(c)' = Members(c) /\ Pending(c)' \subseteq Pending(c)
  BY <1>3 DEF Members, Pending
<1>5. work[w].accept # {} => part'[work[w].conv][work[w].me] = "ACCEPTED"
  BY <1>1 DEF Written, IInv, TypeOK, Request
<1> QED  BY <1>2, <1>3, <1>4, <1>5

LEMMA AcceptStep ==
    ASSUME IInv, NEW w \in Workers, AcceptCommit(w)
    PROVE  IInv'
<1>1. work[w].pc \in Writing /\ Written(work[w])  BY DEF AcceptCommit, Writing
<1>2. work' \in [Workers -> Request] /\ \A v \in Workers : work'[v] = work[v] \/ work'[v] = Rest
  BY RestType DEF AcceptCommit, Return, IInv, TypeOK
<1> QED  BY <1>1, <1>2, WrittenRows, ShrinkStep DEF AcceptCommit

LEMMA StoreStep ==
    ASSUME IInv, NEW w \in Workers, SendStore(w)
    PROVE  IInv'
<1> USE DEF IInv
<1> DEFINE c == work[w].conv
           me == work[w].me
           message == [conv |-> c, from |-> me, via |-> work[w].via,
                       audience |-> Members(c), reached |-> {}, done |-> FALSE]
           n == Len(messages) + 1
           q == IF work[w].via = "rest" THEN Rest
                ELSE [work[w] EXCEPT !.pc = "read", !.msg = n]
<1>1. /\ work[w] \in Request /\ work[w].pc = "store" /\ c \in Opened /\ c \in Convs
      /\ me \in Users /\ messages \in Seq(Message) /\ Len(messages) \in Nat
  BY DEF SendStore, TypeOK, Opened, Request
<1>2. message \in Message
  BY <1>1 DEF Message, Request, Members
<1>3. /\ messages' = Append(messages, message)
      /\ messages' \in Seq(Message) /\ Len(messages') = n
      /\ messages'[n] = message
      /\ \A i \in 1 .. Len(messages) : messages'[i] = messages[i]
  BY <1>1, <1>2, AppendProperties DEF SendStore
<1>4. \A i \in 1 .. Len(messages) : /\ messages[i].conv \in Convs /\ messages[i].from \in Users
                                    /\ messages[i].audience \subseteq Users
  <2>1. \A i \in 1 .. Len(messages) : messages[i] \in Message  BY <1>1, ElementOfSeq
  <2> QED  BY <2>1 DEF Message
<1>5. /\ q \in Request /\ q.pc \in {"idle", "read"}
      /\ q.pc = "read" => q.conv = c /\ q.msg = n
  <2>1. CASE work[w].via = "rest"  BY <2>1, RestType
  <2>2. CASE work[w].via # "rest"
    <3>1. q = [work[w] EXCEPT !.pc = "read", !.msg = n]  BY <2>2
    <3>2. n \in Nat  BY <1>1
    <3> HIDE DEF n
    <3> QED  BY <1>1, <3>1, <3>2 DEF Request
  <2> QED  BY <2>1, <2>2
<1>6. work' = [work EXCEPT ![w] = q]
  BY DEF SendStore, TypeOK
<1>7. /\ message.conv = c /\ message.from = me /\ message.audience = Members(c)
      /\ message.done = FALSE
  OBVIOUS
<1> HIDE DEF q, message
<1>8. /\ work \in [Workers -> Request] /\ work' \in [Workers -> Request] /\ work'[w] = q
      /\ \A v \in Workers : v # w => work'[v] = work[v]
  BY <1>5, <1>6 DEF TypeOK
<1>9. /\ part' \in [Convs -> [Users -> {"none", "PENDING", "ACCEPTED"}]]
      /\ \A d \in Convs, u \in Users :
           \/ part'[d][u] = part[d][u]
           \/ /\ d = c /\ u = me /\ part[d][u] # "none" /\ part'[d][u] = "ACCEPTED"
      /\ \A d \in Convs : Members(d)' = Members(d) /\ Pending(d)' \subseteq Pending(d)
      /\ work[w].accept # {} => part'[c][me] = "ACCEPTED"
  <2>1. work[w].pc \in Writing /\ Written(work[w])  BY DEF SendStore, Writing
  <2> QED  BY <2>1, WrittenRows
<1>10. part'[c][me] # "PENDING"
  BY <1>1, <1>9 DEF OwnAcceptance
<1>11. nextConv' = nextConv /\ Opened' = Opened /\ Opened \subseteq Convs
  BY DEF SendStore, Opened
<1>12. \A v \in Workers : Joining(v)' => v # w /\ Joining(v) /\ work'[v] = work[v] /\ work[v].conv \in Convs
  BY <1>5, <1>8, <1>11 DEF Joining, TypeOK
<1>13. TypeOK'
  BY <1>1, <1>3, <1>5, <1>8, <1>9, <1>11 DEF TypeOK
<1>14. Newcomers'
  <2> SUFFICES ASSUME NEW v \in Workers, NEW x \in Users, ToJoin(v, x)'
               PROVE  (LET d == work[v].conv
                       IN  /\ part[d][x] = "none"
                           /\ \A i \in 1 .. Len(messages) :
                                messages[i].conv = d =>
                                    x # messages[i].from /\ x \notin messages[i].audience
                           /\ \A t \in Workers :
                                work[t].pc \in Writing /\ work[t].conv = d => x # work[t].me)'
    BY DEF Newcomers
  <2>1. v # w /\ work'[v] = work[v] /\ ToJoin(v, x) /\ work[v].conv \in Convs
    BY <1>12 DEF ToJoin, Joining
  <2>2. part[work[v].conv][x] = "none"  BY <2>1 DEF Newcomers
  <2>3. part'[work[v].conv][x] = "none"  BY <1>9, <2>1, <2>2
  <2>4. work[v].conv = c => x # me /\ x \notin Members(c)
    BY <1>1, <2>1, <2>2 DEF Newcomers, Writing, Members
  <2>5. ASSUME NEW i \in 1 .. n, messages'[i].conv = work[v].conv
        PROVE  x # messages'[i].from /\ x \notin messages'[i].audience
    <3>1. CASE i = n  BY <1>3, <1>7, <2>4, <2>5, <3>1
    <3>2. CASE i \in 1 .. Len(messages)
      BY <1>3, <2>1, <2>5, <3>2 DEF Newcomers
    <3> QED  BY <1>1, <3>1, <3>2
  <2>6. ASSUME NEW t \in Workers, work'[t].pc \in Writing, work'[t].conv = work[v].conv
        PROVE  x # work'[t].me
    <3>1. t # w /\ work'[t] = work[t]  BY <1>5, <1>8, <2>6 DEF Writing
    <3> QED  BY <2>1, <2>6, <3>1 DEF Newcomers
  <2> QED  BY <1>3, <2>1, <2>3, <2>5, <2>6
<1>15. StartedByOne'
  <2>1. ASSUME NEW d \in Convs \ Opened, NEW i \in 1 .. n
        PROVE  messages'[i].conv # d
    <3>1. CASE i = n  BY <1>1, <1>3, <1>7, <3>1
    <3>2. CASE i \in 1 .. Len(messages)  BY <1>3, <3>2 DEF StartedByOne
    <3> QED  BY <1>1, <3>1, <3>2
  <2>2. \A v \in Workers : work'[v].pc \in {"create", "joinMe", "joinOther"} => work'[v] = work[v]
    BY <1>5, <1>8
  <2> QED  BY <1>3, <1>9, <1>11, <1>12, <2>1, <2>2 DEF StartedByOne
<1>16. OwnAcceptance'
  <2>1. \A v \in Workers : work'[v].pc \in Writing =>
           /\ work'[v] = work[v] /\ work[v].conv \in Convs /\ work[v].me \in Users
    BY <1>5, <1>8, <1>11 DEF Writing, TypeOK, Request
  <2>2. \A d \in Convs, u \in Users : part'[d][u] = "PENDING" => part[d][u] = "PENDING"
    BY <1>9
  <2>3. \A d \in Convs : \A u, v \in Pending(d)' : u = v
    BY <1>9 DEF OwnAcceptance
  <2>4. \A v \in Workers : Joining(v)' => Pending(work[v].conv)' = {}
    BY <1>9, <1>12 DEF OwnAcceptance
  <2>5. \A v \in Workers : work'[v].pc \in Writing => work'[v].accept \subseteq {work'[v].me}
    BY <2>1 DEF OwnAcceptance
  <2>6. ASSUME NEW v \in Workers, work'[v].pc = "store", work'[v].accept = {}
        PROVE  part'[work'[v].conv][work'[v].me] # "PENDING"
    BY <2>1, <2>2, <2>6 DEF OwnAcceptance, Writing
  <2> QED  BY <2>3, <2>4, <2>5, <2>6 DEF OwnAcceptance
<1>17. SendersHaveAccepted'
  <2>1. ASSUME NEW i \in 1 .. n
        PROVE  part'[messages'[i].conv][messages'[i].from] # "PENDING"
    <3>1. CASE i = n  BY <1>3, <1>7, <1>10, <3>1
    <3>2. CASE i \in 1 .. Len(messages)
      BY <1>3, <1>4, <1>9, <3>2 DEF SendersHaveAccepted
    <3> QED  BY <1>1, <3>1, <3>2
  <2> QED  BY <1>3, <2>1 DEF SendersHaveAccepted
<1>18. BroadcastReachesMembers'
  <2>1. ASSUME NEW i \in 1 .. n, messages'[i].done
        PROVE  messages'[i].audience \intersect Members(messages[i].conv)' \subseteq messages'[i].reached
    <3>1. i # n  BY <1>3, <1>7, <2>1
    <3>2. i \in 1 .. Len(messages) /\ messages'[i] = messages[i]  BY <1>1, <1>3, <3>1
    <3> QED  BY <1>4, <1>9, <2>1, <3>2 DEF BroadcastReachesMembers
  <2> QED  BY <1>3, <2>1 DEF BroadcastReachesMembers
<1>19. BroadcastUnderway'
  <2> SUFFICES ASSUME NEW v \in Workers, work'[v].pc \in {"read", "push"}
               PROVE  (LET m == messages[work[v].msg]
                       IN  /\ m.conv = work[v].conv
                           /\ work[v].pc = "push" =>
                                m.audience \intersect Members(m.conv)
                                  \subseteq m.reached \union work[v].todo)'
    BY DEF BroadcastUnderway
  <2>1. CASE v = w
    <3>1. work'[v] = q /\ q.pc = "read" /\ q.conv = c /\ q.msg = n
      BY <1>5, <1>8, <2>1
    <3> QED  BY <1>3, <1>7, <3>1
  <2>2. CASE v # w
    <3>1. work'[v] = work[v] /\ work[v].msg \in 1 .. Len(messages)
      BY <1>8, <2>2 DEF TypeOK
    <3>2. /\ messages'[work[v].msg] = messages[work[v].msg]
          /\ messages[work[v].msg].conv \in Convs
      BY <1>3, <1>4, <3>1
    <3>3. Members(messages[work[v].msg].conv)' = Members(messages[work[v].msg].conv)
      BY <1>9, <3>1, <3>2 DEF Members
    <3> QED  BY <3>1, <3>2, <3>3 DEF BroadcastUnderway
  <2> QED  BY <2>1, <2>2
<1> QED  BY <1>13, <1>14, <1>15, <1>16, <1>17, <1>18, <1>19

\* Sending to one participant, and the end of a broadcast, change what one
\* message records of its broadcast and nothing else about the messages.
LEMMA BroadcastSteps ==
    ASSUME IInv, NEW w \in Workers,
           BroadcastEnd(w) \/ \E u \in Users : Push(w, u)
    PROVE  IInv'
<1> USE DEF IInv
<1> DEFINE k == work[w].msg
           Sent(m, q) ==
             /\ m.conv = messages[k].conv /\ m.from = messages[k].from
             /\ m.audience = messages[k].audience
             /\ messages[k].reached \subseteq m.reached
             /\ m.done => messages[k].done \/ work[w].todo = {}
             /\ messages' = [messages EXCEPT ![k] = m]
             /\ work' = [work EXCEPT ![w] = q]
             /\ \/ q = Rest
                \/ /\ q.pc = "push" /\ q.conv = work[w].conv /\ q.msg = k
                   /\ work[w].todo \subseteq m.reached \union q.todo
<1>1. /\ work[w] \in Request /\ work[w].pc = "push" /\ k \in 1 .. Len(messages)
      /\ messages \in Seq(Message) /\ Len(messages) \in Nat
      /\ \A i \in 1 .. Len(messages) : messages[i] \in Message
  <2>1. work[w] \in Request /\ work[w].pc = "push" /\ messages \in Seq(Message)
    BY DEF BroadcastEnd, Push, TypeOK
  <2>2. k \in 1 .. Len(messages)  BY <2>1 DEF TypeOK
  <2> QED  BY <2>1, <2>2, ElementOfSeq
<1>2. PICK m \in Message, q \in Request : Sent(m, q)
  <2>1. messages[k] \in Message  BY <1>1
  <2>2. CASE BroadcastEnd(w)
    <3> DEFINE m == [messages[k] EXCEPT !.done = TRUE]
    <3>1. m \in Message  BY <2>1 DEF Message
    <3>2. /\ m.conv = messages[k].conv /\ m.from = messages[k].from
          /\ m.audience = messages[k].audience /\ m.reached = messages[k].reached
      BY <2>1 DEF Message
    <3>3. messages' = [messages EXCEPT ![k] = m] /\ work' = [work EXCEPT ![w] = Rest]
      BY <1>1, <2>2 DEF BroadcastEnd, Return, TypeOK
    <3>4. work[w].todo = {}  BY <2>2 DEF BroadcastEnd
    <3> HIDE DEF m
    <3>5. Sent(m, Rest)  BY <3>2, <3>3, <3>4
    <3> QED  BY <3>1, <3>5, RestType
  <2>3. ASSUME NEW u \in Users, Push(w, u)
        PROVE  \E m \in Message, q \in Request : Sent(m, q)
    <3> DEFINE m == [messages[k] EXCEPT !.reached = @ \union {u}]
               q == [work[w] EXCEPT !.todo = @ \ {u}]
    <3>1. m \in Message  BY <2>1 DEF Message
    <3>2. /\ m.conv = messages[k].conv /\ m.from = messages[k].from
          /\ m.audience = messages[k].audience /\ m.done = messages[k].done
          /\ m.reached = messages[k].reached \union {u}
      BY <2>1 DEF Message
    <3>3. /\ q \in Request /\ q.pc = "push" /\ q.conv = work[w].conv /\ q.msg = k
          /\ q.todo = work[w].todo \ {u}
      BY <1>1 DEF Request
    <3>4. messages' = [messages EXCEPT ![k] = m] /\ work' = [work EXCEPT ![w] = q]
      BY <1>1, <2>3 DEF Push, TypeOK
    <3> HIDE DEF m, q
    <3>5. Sent(m, q)  BY <3>2, <3>3, <3>4
    <3> QED  BY <3>1, <3>3, <3>5
  <2> QED  BY <2>2, <2>3
<1>3. /\ messages' \in Seq(Message) /\ Len(messages') = Len(messages)
      /\ messages'[k] = m
      /\ \A i \in 1 .. Len(messages) : i # k => messages'[i] = messages[i]
  <2>1. messages' = [messages EXCEPT ![k] = m]  BY <1>2
  <2> QED  BY <1>1, <2>1, ExceptSeq
<1>4. \A i \in 1 .. Len(messages) :
         /\ messages'[i].conv = messages[i].conv /\ messages'[i].from = messages[i].from
         /\ messages'[i].audience = messages[i].audience
         /\ messages[i].reached \subseteq messages'[i].reached
         /\ messages[i].conv \in Convs
  BY <1>1, <1>2, <1>3 DEF Message
<1>5. UNCHANGED <<nextConv, part>> /\ Opened' = Opened /\ Opened \subseteq Convs
  BY DEF BroadcastEnd, Push, Opened
<1>6. /\ work \in [Workers -> Request] /\ work' \in [Workers -> Request] /\ work'[w] = q
      /\ \A v \in Workers : v # w => work'[v] = work[v]
      /\ q.pc \in {"idle", "push"}
  BY <1>2, RestType DEF TypeOK
<1>7. TypeOK'
  <2>1. q.pc = "push" => q.conv \in Opened /\ q.msg \in 1 .. Len(messages)
    BY <1>1, <1>2, RestType DEF TypeOK
  <2> QED  BY <1>3, <1>5, <1>6, <2>1 DEF TypeOK
<1>8. Newcomers'
  BY <1>3, <1>4, <1>5, <1>6 DEF Newcomers, ToJoin, Joining, Writing
<1>9. StartedByOne'
  BY <1>3, <1>4, <1>5, <1>6 DEF StartedByOne, Joining, Members
<1>10. OwnAcceptance'
  BY <1>5, <1>6 DEF OwnAcceptance, Joining, Writing, Pending
<1>11. SendersHaveAccepted'
  BY <1>3, <1>4, <1>5 DEF SendersHaveAccepted
<1>12. messages[k].audience \intersect Members(messages[k].conv)
         \subseteq messages[k].reached \union work[w].todo
  BY <1>1 DEF BroadcastUnderway
<1>13. ASSUME NEW i \in 1 .. Len(messages), messages'[i].done
       PROVE  messages[i].audience \intersect Members(messages[i].conv) \subseteq messages'[i].reached
  <2>1. CASE messages[i].done
    BY <1>4, <2>1 DEF BroadcastReachesMembers
  <2>2. CASE ~ messages[i].done
    <3>1. i = k  BY <1>3, <1>13, <2>2
    <3>2. work[w].todo = {}  BY <1>2, <1>3, <1>13, <2>2, <3>1
    <3> QED  BY <1>4, <1>12, <3>1, <3>2
  <2> QED  BY <2>1, <2>2
<1>14. BroadcastReachesMembers'
  BY <1>3, <1>4, <1>5, <1>13 DEF BroadcastReachesMembers, Members
<1>15. BroadcastUnderway'
  <2> SUFFICES ASSUME NEW v \in Workers, work'[v].pc \in {"read", "push"}
               PROVE  (LET t == messages[work[v].msg]
                       IN  /\ t.conv = work[v].conv
                           /\ work[v].pc = "push" =>
                                t.audience \intersect Members(t.conv)
                                  \subseteq t.reached \union work[v].todo)'
    BY DEF BroadcastUnderway
  <2>1. CASE v = w
    <3>1. /\ work'[v] = q /\ q.pc = "push" /\ q.conv = work[w].conv /\ q.msg = k
          /\ work[w].todo \subseteq m.reached \union q.todo
      BY <1>2, <1>6, <2>1, RestType
    <3>2. m.conv = work[w].conv  BY <1>1, <1>2 DEF BroadcastUnderway
    <3>3. Members(m.conv)' = Members(messages[k].conv)
      BY <1>2, <1>5 DEF Members
    <3>4. m.audience \intersect Members(messages[k].conv) \subseteq m.reached \union q.todo
      BY <1>2, <1>12, <3>1
    <3>5. messages'[work'[v].msg] = m /\ work'[v].conv = m.conv  BY <1>3, <3>1, <3>2
    <3>6. m.audience \intersect {u \in Users : part'[m.conv][u] # "none"}
            \subseteq m.reached \union work'[v].todo
      BY <1>2, <1>5, <3>1, <3>4 DEF Members
    <3> HIDE DEF Sent, k
    <3> QED  BY <3>5, <3>6 DEF Members
  <2>2. CASE v # w
    <3>1. work'[v] = work[v] /\ work[v].msg \in 1 .. Len(messages)
      BY <1>6, <2>2 DEF TypeOK
    <3> QED  BY <1>4, <1>5, <3>1 DEF BroadcastUnderway, Members
  <2> QED  BY <2>1, <2>2
<1> QED  BY <1>7, <1>8, <1>9, <1>10, <1>11, <1>14, <1>15

-----------------------------------------------------------------------------
LEMMA StepKeepsIInv ==
    ASSUME IInv, [Next]_vars
    PROVE  IInv'
<1>1. CASE UNCHANGED vars
  <2>1. /\ TypeOK' = TypeOK /\ Newcomers' = Newcomers /\ StartedByOne' = StartedByOne
        /\ OwnAcceptance' = OwnAcceptance /\ SendersHaveAccepted' = SendersHaveAccepted
        /\ BroadcastUnderway' = BroadcastUnderway
        /\ BroadcastReachesMembers' = BroadcastReachesMembers
    BY <1>1 DEF vars, TypeOK, Opened, Newcomers, ToJoin, Joining, StartedByOne, Members,
       OwnAcceptance, Pending, SendersHaveAccepted, BroadcastUnderway, BroadcastReachesMembers
  <2> QED  BY <2>1 DEF IInv
<1>2. ASSUME NEW w \in Workers, WorkStep(w)  PROVE IInv'
  <2>1. CASE Fail(w)  BY <2>1, ReturnStep DEF Fail
  <2> QED
    BY <1>2, <2>1, CreateStep, JoinSteps, AcceptStep, StoreStep, FindSteps, BroadcastSteps
    DEF WorkStep
<1>3. ASSUME NEW w \in Workers, Call(w)  PROVE IInv'
  BY <1>3, FindSteps DEF Call
<1>4. ASSUME NEW u \in Users, NEW c \in Opened, Delete(u, c)  PROVE IInv'
  BY <1>4, DeleteStep
<1> QED  BY <1>1, <1>2, <1>3, <1>4 DEF Next

\* The invariant holds in every reachable state, for all constants.
THEOREM InductiveInvariant == Spec => []IInv
<1>1. Init => IInv
  <2> SUFFICES ASSUME Init PROVE IInv  OBVIOUS
  <2>1. /\ nextConv = 1 /\ Opened = {} /\ messages = <<>> /\ Len(messages) = 0
        /\ messages \in Seq(Message)
        /\ \A c \in Convs, u \in Users : part[c][u] = "none"
        /\ \A w \in Workers : work[w] = Rest
    BY EmptySeq DEF Init, Opened, Convs
  <2>2. \A w \in Workers : work[w].pc = "idle"  BY <2>1, RestType
  <2>3. TypeOK
    BY <2>1, <2>2, RestType, BoundsAssumption DEF Init, TypeOK
  <2>4. Newcomers /\ StartedByOne /\ OwnAcceptance /\ BroadcastUnderway
    BY <2>1, <2>2 DEF Newcomers, ToJoin, Joining, StartedByOne, Members, OwnAcceptance,
       Pending, Writing, BroadcastUnderway
  <2>5. SendersHaveAccepted /\ BroadcastReachesMembers
    BY <2>1 DEF SendersHaveAccepted, BroadcastReachesMembers
  <2> QED  BY <2>3, <2>4, <2>5 DEF IInv
<1>2. IInv /\ [Next]_vars => IInv'  BY StepKeepsIInv
<1> QED  BY <1>1, <1>2, PTL DEF Spec

\* The variables keep their types.
THEOREM TypeCorrect == Spec => []TypeOK
<1>1. IInv => TypeOK  BY DEF IInv
<1> QED  BY <1>1, InductiveInvariant, PTL

\* No stored message is from a user whose own row still says PENDING.
THEOREM SendersAccepted == Spec => []SendersHaveAccepted
<1>1. IInv => SendersHaveAccepted  BY DEF IInv
<1> QED  BY <1>1, InductiveInvariant, PTL

\* A completed broadcast has reached the participants who were there when
\* the message was stored and have stayed.
THEOREM BroadcastComplete == Spec => []BroadcastReachesMembers
<1>1. IInv => BroadcastReachesMembers  BY DEF IInv
<1> QED  BY <1>1, InductiveInvariant, PTL

-----------------------------------------------------------------------------
LEMMA StepIsRowStep ==
    ASSUME IInv, [Next]_vars
    PROVE  RowStep
<1>1. CASE part' = part  BY <1>1 DEF RowStep
<1>2. ASSUME NEW w \in Workers,
             StartJoinMe(w) \/ \E status \in {"PENDING", "ACCEPTED"} : StartJoinOther(w, status)
      PROVE  RowStep
  <2>1. /\ work[w] \in Request /\ work[w].conv \in Convs
        /\ work[w].pc \in {"joinMe", "joinOther"}
    BY <1>2 DEF StartJoinMe, StartJoinOther, IInv, TypeOK, Opened
  <2>2. PICK u \in Users, status \in {"PENDING", "ACCEPTED"} :
           /\ part' = [part EXCEPT ![work[w].conv][u] = status]
           /\ ToJoin(w, u)
           /\ \/ work[w].pc = "joinMe" /\ u = work[w].me
              \/ work[w].pc = "joinOther" /\ u = work[w].other
    BY <1>2, <2>1 DEF StartJoinMe, StartJoinOther, ToJoin, Joining, Request
  <2>3. part[work[w].conv][u] = "none"  BY <2>2 DEF IInv, Newcomers
  <2>4. \A c \in Convs, x \in Users :
           part'[c][x] # part[c][x] => c = work[w].conv /\ x = u
    BY <2>1, <2>2 DEF IInv, TypeOK
  <2> QED  BY <2>2, <2>3, <2>4 DEF RowStep
<1>3. ASSUME NEW w \in Workers, AcceptCommit(w) \/ SendStore(w)
      PROVE  RowStep
  <2>1. work[w].pc \in Writing /\ Written(work[w])
    BY <1>3 DEF AcceptCommit, SendStore, Writing
  <2>2. \A c \in Convs, u \in Users :
           part'[c][u] # part[c][u] =>
             /\ c = work[w].conv /\ u = work[w].me
             /\ part[c][u] # "none" /\ part'[c][u] = "ACCEPTED"
    BY <2>1, WrittenRows
  <2>3. \A c \in Convs, u \in Users : part[c][u] \in {"none", "PENDING", "ACCEPTED"}
    BY DEF IInv, TypeOK
  <2> QED  BY <2>1, <2>2, <2>3 DEF RowStep, Writing
<1>4. ASSUME NEW u \in Users, NEW c \in Opened, Delete(u, c)
      PROVE  RowStep
  <2>1. c \in Convs  BY DEF Opened
  <2>2. \A d \in Convs, x \in Users : part'[d][x] # part[d][x] => part'[d][x] = "none"
    BY <1>4, <2>1 DEF Delete, IInv, TypeOK
  <2> QED  BY <2>2 DEF RowStep
<1>5. ASSUME NEW w \in Workers, WorkStep(w)
      PROVE  RowStep
  <2>1. CASE StartCreate(w) \/ BroadcastRead(w) \/ (\E u \in Users : Push(w, u))
               \/ BroadcastEnd(w) \/ Fail(w)
    BY <1>1, <2>1 DEF StartCreate, BroadcastRead, Push, BroadcastEnd, Fail
  <2> QED  BY <1>2, <1>3, <1>5, <2>1 DEF WorkStep
<1>6. ASSUME NEW w \in Workers, Call(w)
      PROVE  RowStep
  BY <1>1, <1>6 DEF Call, StartFind, AcceptFind, SendFind
<1> QED  BY <1>1, <1>4, <1>5, <1>6 DEF Next, vars

\* A participant's row appears once, while its conversation is started, and
\* only its user's own requests turn PENDING into ACCEPTED.
THEOREM RowsLiveOnce == Spec => ParticipantLifecycle
<1>1. IInv /\ [Next]_vars => [RowStep]_vars  BY StepIsRowStep
<1> QED  BY <1>1, InductiveInvariant, PTL DEF Spec, ParticipantLifecycle

-----------------------------------------------------------------------------
\* One server thread: while it starts a conversation the pair has no other
\* one, and nobody but the sender is in the new one.
Starting == {"create", "joinMe", "joinOther"}

SharedOne ==
    \A u, v \in Users, c, d \in Convs :
        /\ u # v
        /\ part[c][u] # "none" /\ part[c][v] # "none"
        /\ part[d][u] # "none" /\ part[d][v] # "none"
        => c = d

StartIsFresh ==
    \A w \in Workers :
        work[w].pc \in Starting =>
            /\ \A c \in Convs : part[c][work[w].me] = "none" \/ part[c][work[w].other] = "none"
            /\ Joining(w) =>
                 \A x \in Users : x # work[w].me => part[work[w].conv][x] = "none"

SerialInv == SharedOne /\ StartIsFresh

Serial == \A v, w \in Workers : v = w

\* Rows may go or change their status, and starts in progress stay put.
LEMMA SerialShrink ==
    ASSUME SerialInv,
           \A c \in Convs, u \in Users : part'[c][u] # "none" => part[c][u] # "none",
           \A w \in Workers : work'[w].pc \in Starting => work'[w] = work[w],
           IInv
    PROVE  SerialInv'
<1>1. SharedOne'  BY DEF SerialInv, SharedOne
<1>2. StartIsFresh'
  <2> SUFFICES ASSUME NEW w \in Workers, work'[w].pc \in Starting
               PROVE  /\ \A c \in Convs : \/ part'[c][work'[w].me] = "none"
                                          \/ part'[c][work'[w].other] = "none"
                      /\ work'[w].pc \in {"joinMe", "joinOther"} =>
                           \A x \in Users : x # work'[w].me => part'[work'[w].conv][x] = "none"
    BY DEF StartIsFresh, Joining
  <2>1. work'[w] = work[w]  OBVIOUS
  <2>2. work[w].me \in Users /\ work[w].other \in Users
    BY DEF IInv, TypeOK, Request
  <2>3. Joining(w) => work[w].conv \in Convs
    BY DEF IInv, TypeOK, Joining, Opened
  <2> QED  BY <2>1, <2>2, <2>3 DEF SerialInv, StartIsFresh, Joining
<1> QED  BY <1>1, <1>2 DEF SerialInv

\* The same, for a step of one thread that starts nothing.
LEMMA SerialStep ==
    ASSUME SerialInv, IInv, NEW w \in Workers, NEW q, q.pc \notin Starting,
           work' = [work EXCEPT ![w] = q],
           \A c \in Convs, u \in Users : part'[c][u] # "none" => part[c][u] # "none"
    PROVE  SerialInv'
<1>1. \A v \in Workers : work'[v] = IF v = w THEN q ELSE work[v]
  BY DEF IInv, TypeOK
<1> QED  BY <1>1, SerialShrink

LEMMA SerialFind ==
    ASSUME Serial, IInv, SerialInv, NEW w \in Workers, NEW u \in Users, NEW v \in Users,
           StartFind(w, u, v)
    PROVE  SerialInv'
<1>1. part' = part /\ work'[w].pc = "create" /\ work'[w].me = u /\ work'[w].other = v
  BY RestType DEF StartFind, IInv, TypeOK, Request
<1>2. SharedOne'  BY <1>1 DEF SerialInv, SharedOne
<1>3. \A c \in Convs : part[c][u] = "none" \/ part[c][v] = "none"
  BY DEF StartFind, Shared, Members, IInv, StartedByOne
<1>4. StartIsFresh'  BY <1>1, <1>3 DEF StartIsFresh, Serial, Joining
<1> QED  BY <1>2, <1>4 DEF SerialInv

LEMMA SerialCreate ==
    ASSUME Serial, IInv, SerialInv, NEW w \in Workers, StartCreate(w)
    PROVE  SerialInv'
<1>1. /\ part' = part /\ work'[w].pc = "joinMe" /\ work'[w].conv = nextConv
      /\ work'[w].me = work[w].me /\ work'[w].other = work[w].other
      /\ work[w].pc \in Starting
  BY DEF StartCreate, IInv, TypeOK, Request, Starting
<1>2. nextConv \in Convs \ Opened
  BY BoundsAssumption DEF StartCreate, IInv, TypeOK, Convs, Opened
<1>3. \A x \in Users : part[nextConv][x] = "none"
  BY <1>2 DEF IInv, StartedByOne, Members
<1>4. SharedOne'  BY <1>1 DEF SerialInv, SharedOne
<1>5. StartIsFresh'  BY <1>1, <1>3 DEF SerialInv, StartIsFresh, Serial
<1> QED  BY <1>4, <1>5 DEF SerialInv

LEMMA SerialJoin ==
    ASSUME Serial, IInv, SerialInv, NEW w \in Workers,
           StartJoinMe(w) \/ \E status \in {"PENDING", "ACCEPTED"} : StartJoinOther(w, status)
    PROVE  SerialInv'
<1> DEFINE c == work[w].conv
           me == work[w].me
           other == work[w].other
<1>1. /\ work[w] \in Request /\ c \in Convs /\ me \in Users /\ other \in Users
      /\ Joining(w) /\ work[w].pc \in Starting
  BY DEF StartJoinMe, StartJoinOther, IInv, TypeOK, Opened, Request, Joining, Starting
<1>2. me # other  BY <1>1 DEF IInv, StartedByOne, Starting
<1>3. /\ \A d \in Convs : part[d][me] = "none" \/ part[d][other] = "none"
      /\ \A x \in Users : x # me => part[c][x] = "none"
  BY <1>1 DEF SerialInv, StartIsFresh
<1>4. CASE StartJoinMe(w)
  <2>1. /\ work'[w].pc = "joinOther" /\ work'[w].conv = c
        /\ work'[w].me = me /\ work'[w].other = other
    BY <1>1, <1>4 DEF StartJoinMe, Goto, IInv, TypeOK, Request
  <2>2. \A d \in Convs, x \in Users :
           part'[d][x] = IF d = c /\ x = me THEN "ACCEPTED" ELSE part[d][x]
    BY <1>1, <1>4 DEF StartJoinMe, IInv, TypeOK
  <2> HIDE DEF c, me, other
  <2>3. SharedOne'
    BY <1>1, <1>3, <2>2 DEF SerialInv, SharedOne
  <2>4. /\ \A d \in Convs : part'[d][me] = "none" \/ part'[d][other] = "none"
        /\ \A x \in Users : x # me => part'[c][x] = "none"
    BY <1>1, <1>2, <1>3, <2>2
  <2>5. StartIsFresh'  BY <2>1, <2>4 DEF StartIsFresh, Serial
  <2> QED  BY <2>3, <2>5 DEF SerialInv
<1>5. ASSUME NEW status \in {"PENDING", "ACCEPTED"}, StartJoinOther(w, status)
      PROVE  SerialInv'
  <2>1. work'[w].pc = "idle"
    BY <1>5, RestType DEF StartJoinOther, Return, IInv, TypeOK
  <2>2. \A d \in Convs, x \in Users :
           part'[d][x] = IF d = c /\ x = other THEN status ELSE part[d][x]
    BY <1>1, <1>5 DEF StartJoinOther, IInv, TypeOK
  <2> HIDE DEF c, me, other
  <2>3. SharedOne'
    <3> SUFFICES ASSUME NEW u \in Users, NEW v \in Users, NEW d \in Convs, NEW e \in Convs,
                        u # v,
                        part'[d][u] # "none", part'[d][v] # "none",
                        part'[e][u] # "none", part'[e][v] # "none"
                 PROVE  d = e
      BY DEF SharedOne
    <3>1. \A f \in Convs :
             f # c => (part'[f][u] = part[f][u] /\ part'[f][v] = part[f][v])
      BY <2>2
    <3>2. ASSUME part'[c][u] # "none", part'[c][v] # "none"  PROVE {u, v} = {me, other}
      BY <1>1, <1>3, <2>2, <3>2
    <3>3. CASE d # c /\ e # c
      BY <3>1, <3>3 DEF SerialInv, SharedOne
    <3>4. CASE (d = c /\ e # c) \/ (d # c /\ e = c)
      BY <1>1, <1>3, <3>1, <3>2, <3>4
    <3> QED  BY <3>3, <3>4
  <2>4. StartIsFresh'  BY <2>1 DEF StartIsFresh, Serial, Starting
  <2> QED  BY <2>3, <2>4 DEF SerialInv
<1> QED  BY <1>4, <1>5

LEMMA StepKeepsSerial ==
    ASSUME Serial, IInv, SerialInv, [Next]_vars
    PROVE  SerialInv'
<1> \A w \in Workers : work[w] \in Request  BY DEF IInv, TypeOK
<1>1. CASE UNCHANGED vars
  BY <1>1, SerialShrink DEF vars
<1>2. ASSUME NEW w \in Workers, Return(w), part' = part  PROVE SerialInv'
  BY <1>2, RestType, SerialStep DEF Return, Starting
<1>3. ASSUME NEW w \in Workers, AcceptCommit(w) \/ SendStore(w)
      PROVE  SerialInv'
  <2>1. work[w].pc \in Writing /\ Written(work[w])
    BY <1>3 DEF AcceptCommit, SendStore, Writing
  <2>2. \A c \in Convs, u \in Users : part'[c][u] # "none" => part[c][u] # "none"
    BY <2>1, WrittenRows
  <2>3. \E q : q.pc \notin Starting /\ work' = [work EXCEPT ![w] = q]
    <3> DEFINE q == [work[w] EXCEPT !.pc = "read", !.msg = Len(messages) + 1]
    <3>1. q.pc \notin Starting /\ Rest.pc \notin Starting
      BY RestType DEF Starting, Request
    <3>2. work' = [work EXCEPT ![w] = Rest] \/ work' = [work EXCEPT ![w] = q]
      BY <1>3 DEF AcceptCommit, SendStore, Return
    <3> QED  BY <3>1, <3>2
  <2> QED  BY <2>2, <2>3, SerialStep
<1>4. ASSUME NEW u \in Users, NEW c \in Opened, Delete(u, c)
      PROVE  SerialInv'
  <2>1. c \in Convs  BY DEF Opened
  <2>2. \A d \in Convs, x \in Users : part'[d][x] # "none" => part[d][x] # "none"
    BY <1>4, <2>1 DEF Delete, IInv, TypeOK
  <2> QED  BY <1>4, <2>2, SerialShrink DEF Delete
<1>5. ASSUME NEW w \in Workers, BroadcastRead(w)  PROVE SerialInv'
  <2> DEFINE q == [work[w] EXCEPT !.pc = "push", !.todo = Members(work[w].conv)]
  <2>1. q.pc \notin Starting /\ work' = [work EXCEPT ![w] = q] /\ part' = part
    BY <1>5 DEF BroadcastRead, Starting, Request, IInv, TypeOK
  <2> QED  BY <2>1, SerialStep
<1>6. ASSUME NEW w \in Workers, NEW u \in Users, Push(w, u)  PROVE SerialInv'
  <2> DEFINE q == [work[w] EXCEPT !.todo = @ \ {u}]
  <2>1. q.pc \notin Starting /\ work' = [work EXCEPT ![w] = q] /\ part' = part
    BY <1>6 DEF Push, Starting, Request, IInv, TypeOK
  <2> QED  BY <2>1, SerialStep
<1>7. ASSUME NEW w \in Workers, NEW u \in Users, NEW c \in Opened, AcceptFind(w, u, c)
      PROVE  SerialInv'
  <2> DEFINE q == [Rest EXCEPT !.pc = "accept", !.me = u, !.conv = c, !.accept = Pending(c)]
  <2>1. q.pc \notin Starting /\ work' = [work EXCEPT ![w] = q] /\ part' = part
    BY <1>7, RestType DEF AcceptFind, Starting, Request
  <2> QED  BY <2>1, SerialStep
<1>8. ASSUME NEW w \in Workers, NEW u \in Users, NEW c \in Opened, NEW via \in {"ws", "rest"},
             SendFind(w, u, c, via)
      PROVE  SerialInv'
  <2> DEFINE q == [Rest EXCEPT !.pc = "store", !.me = u, !.conv = c, !.via = via,
                               !.accept = Pending(c) \intersect {u}]
  <2>1. q.pc \notin Starting /\ work' = [work EXCEPT ![w] = q] /\ part' = part
    BY <1>8, RestType DEF SendFind, Starting, Request
  <2> QED  BY <2>1, SerialStep
<1>9. ASSUME NEW w \in Workers, WorkStep(w)  PROVE SerialInv'
  BY <1>2, <1>3, <1>5, <1>6, <1>9, SerialCreate, SerialJoin
  DEF WorkStep, Fail, BroadcastEnd
<1>10. ASSUME NEW w \in Workers, Call(w)  PROVE SerialInv'
  BY <1>7, <1>8, <1>10, SerialFind DEF Call
<1> QED  BY <1>1, <1>4, <1>9, <1>10 DEF Next

\* If requests are served one after the other, two users never share two
\* conversations, whatever fails or is deleted in between.
THEOREM OneChatIfSerial ==
    ASSUME Serial
    PROVE  Spec => []OneChatPerPair
<1>1. Init => SerialInv
  BY RestType DEF Init, SerialInv, SharedOne, StartIsFresh, Starting
<1>2. IInv /\ SerialInv /\ [Next]_vars => SerialInv'  BY StepKeepsSerial
<1>3. SerialInv => OneChatPerPair
  <2> SUFFICES ASSUME SerialInv, NEW u \in Users, NEW v \in Users, u # v
               PROVE  Cardinality(Shared(u, v)) <= 1
    BY DEF OneChatPerPair
  <2>1. CASE Shared(u, v) = {}
    BY <2>1, FS_EmptySet
  <2>2. ASSUME NEW c \in Shared(u, v)
        PROVE  Cardinality(Shared(u, v)) <= 1
    <3>1. Shared(u, v) = {c}
      BY <2>2 DEF Shared, Opened, Members, SerialInv, SharedOne
    <3>2. Cardinality({c}) = 1
      BY FS_Singleton
    <3> QED  BY <3>1, <3>2
  <2> QED  BY <2>1, <2>2
<1> QED  BY <1>1, <1>2, <1>3, InductiveInvariant, PTL DEF Spec
=============================================================================
