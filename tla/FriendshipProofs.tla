------------------------- MODULE FriendshipProofs -------------------------
(***************************************************************************)
(* Proofs about Friendship, for any number of users, server threads and    *)
(* rows: the inductive invariant, and with it the life of a row.           *)
(***************************************************************************)
EXTENDS Friendship, SequenceTheorems, FiniteSetTheorems, TLAPS

\* Two frames, or three, are a sequence of frames.
LEMMA BothType ==
    ASSUME NEW me \in Users, NEW other \in Users,
           NEW f \in UiStatus, NEW g \in UiStatus
    PROVE  Both(me, other, f, g) \in Seq(Frame)
<1>1. /\ [pair |-> <<me, other>>, show |-> f] \in Frame
      /\ [pair |-> <<other, me>>, show |-> g] \in Frame
  BY DEF Frame
<1> QED  BY <1>1 DEF Both

LEMMA ControllerFramesType ==
    ASSUME NEW q \in Request
    PROVE  ControllerFrames(q) \in Seq(Frame)
<1>1. q.me \in Users /\ q.other \in Users  BY DEF Request
<1>2. Announced(q.op)[1] \in UiStatus /\ Announced(q.op)[2] \in UiStatus
  BY DEF Announced, UiStatus
<1>3. Both(q.me, q.other, Announced(q.op)[1], Announced(q.op)[2]) \in Seq(Frame)
  BY <1>1, <1>2, BothType
<1>4. << [pair |-> <<q.me, q.other>>, show |-> Announced(q.op)[1]] >> \in Seq(Frame)
  <2>1. [pair |-> <<q.me, q.other>>, show |-> Announced(q.op)[1]] \in Frame
    BY <1>1, <1>2 DEF Frame
  <2> QED  BY <2>1
<1> QED  BY <1>3, <1>4, ConcatProperties DEF ControllerFrames

LEMMA FreeType ==
    ASSUME NEW q \in Request
    PROVE  Free(q) \in Request /\ Free(q).pc = "idle"
<1>1. NoWrites \in Writes  BY DEF NoWrites, Writes
<1>2. <<>> \in Seq(Frame)  BY EmptySeq
<1>3. q.me \in Users  BY DEF Request
<1> QED  BY <1>1, <1>2, <1>3 DEF Free, Request, Ops

LEMMA StatusType ==
    ASSUME NEW found, NEW me
    PROVE  StatusOf(found, me) \in UiStatus
BY DEF StatusOf, UiStatus

\* A step that touches one request only, and plans no acceptance unless of a
\* row that is there and addressed to the user, keeps the invariant.
LEMMA RequestStep ==
    ASSUME IInv, NEW w \in Workers, NEW req \in Request,
           work' = [work EXCEPT ![w] = req],
           UNCHANGED <<rows, nextId>>,
           ui' \in [Users \X Users -> UiStatus],
           req.pc = "commit" =>
               \A r \in req.writes.accept : r \in rows /\ r.to = req.me
    PROVE  IInv'
<1> USE DEF IInv
<1>1. TypeOK'  BY DEF TypeOK
<1>2. IdsAreOne'  BY DEF IdsAreOne
<1>3. AcceptIsPlanned'
  <2> SUFFICES ASSUME NEW v \in Workers, work'[v].pc = "commit",
                      NEW r \in work'[v].writes.accept
               PROVE  /\ r.to = work'[v].me
                      /\ r.id < nextId
                      /\ \A q \in rows : q.id = r.id => q.from = r.from /\ q.to = r.to
    BY DEF AcceptIsPlanned
  <2>1. CASE v = w
    <3>1. work'[v] = req  BY <2>1 DEF TypeOK
    <3>2. r \in rows /\ r.to = req.me  BY <3>1
    <3> QED  BY <3>1, <3>2 DEF IdsAreOne
  <2>2. CASE v # w
    <3>1. work'[v] = work[v]  BY <2>2 DEF TypeOK
    <3> QED  BY <3>1 DEF AcceptIsPlanned
  <2> QED  BY <2>1, <2>2
<1> QED  BY <1>1, <1>2, <1>3

LEMMA AfterFail ==
    ASSUME IInv, NEW w \in Workers, Fail(w)
    PROVE  IInv'
<1>1. work[w] \in Request  BY DEF IInv, TypeOK
<1>2. Free(work[w]) \in Request /\ Free(work[w]).pc = "idle"  BY <1>1, FreeType
<1>3. /\ work' = [work EXCEPT ![w] = Free(work[w])]
      /\ UNCHANGED <<rows, nextId>>
      /\ ui' \in [Users \X Users -> UiStatus]
  BY DEF Fail, IInv, TypeOK
<1> QED  BY <1>2, <1>3, RequestStep

LEMMA AfterSettle ==
    ASSUME IInv, NEW w \in Workers, NEW writes \in Writes,
           NEW f \in UiStatus, NEW g \in UiStatus, Settle(w, writes, f, g),
           \A r \in writes.accept : r \in rows /\ r.to = work[w].me
    PROVE  IInv'
<1> DEFINE req == [work[w] EXCEPT !.pc = "commit", !.writes = writes,
                                  !.out = Both(work[w].me, work[w].other, f, g)]
<1>1. work[w] \in Request  BY DEF IInv, TypeOK
<1>2. Both(work[w].me, work[w].other, f, g) \in Seq(Frame)
  BY <1>1, BothType DEF Request
<1>3. req \in Request /\ req.writes = writes /\ req.me = work[w].me
  BY <1>1, <1>2 DEF Request
<1>4. work' = [work EXCEPT ![w] = req]
  BY DEF Settle, IInv, TypeOK
<1>5. UNCHANGED <<rows, nextId>> /\ ui' \in [Users \X Users -> UiStatus]
  BY DEF Settle, IInv, TypeOK
<1> HIDE DEF req
<1> QED  BY <1>3, <1>4, <1>5, RequestStep

\* The three ways to plan writes have the type of writes.
LEMMA WritesType ==
    /\ NoWrites \in Writes /\ NoWrites.accept = {}
    /\ Insert \in Writes /\ Insert.accept = {}
    /\ \A r \in Row : Accept(r) \in Writes /\ Accept(r).accept = {r}
    /\ \A S \in SUBSET Row : Delete(S) \in Writes /\ Delete(S).accept = {}
BY DEF NoWrites, Insert, Accept, Delete, Writes

-----------------------------------------------------------------------------
\* What the commit of one request makes of the rows: the row keeps its id
\* and its two users, and it is changed only if it was planned to be.
LEMMA CommitRows ==
    ASSUME IInv, NEW w \in Workers, Commit(w), work'[w].pc = "send",
           NEW q \in rows'
    PROVE  \/ /\ q = [id |-> nextId, from |-> work[w].me, to |-> work[w].other,
                      st |-> "PENDING"]
              /\ nextId' = nextId + 1
           \/ \E s \in rows :
                /\ q.id = s.id /\ q.from = s.from /\ q.to = s.to
                /\ q \in Row
                /\ q = IF s.id \in {t.id : t \in work[w].writes.accept}
                       THEN [s EXCEPT !.st = "ACCEPTED"] ELSE s
                /\ \/ q = s
                   \/ /\ q = [s EXCEPT !.st = "ACCEPTED"]
                      /\ \E r \in work[w].writes.accept : r.id = s.id
<1> DEFINE p == work[w]
           gone == {r.id : r \in p.writes.delete}
           taken == {r.id : r \in p.writes.accept}
           new == [id |-> nextId, from |-> p.me, to |-> p.other, st |-> "PENDING"]
<1>1. p \in Request  BY DEF IInv, TypeOK
<1>2. ~ Fail(w)
  BY <1>1, FreeType DEF Fail, IInv, TypeOK
<1>3. /\ rows' = {IF r.id \in taken THEN [r EXCEPT !.st = "ACCEPTED"] ELSE r :
                     r \in {s \in rows : s.id \notin gone}}
                   \union (IF p.writes.insert THEN {new} ELSE {})
      /\ nextId' = IF p.writes.insert THEN nextId + 1 ELSE nextId
  BY <1>2 DEF Commit
<1>4. CASE p.writes.insert /\ q = new
  BY <1>3, <1>4
<1>5. CASE \E s \in rows : q = IF s.id \in taken THEN [s EXCEPT !.st = "ACCEPTED"] ELSE s
  <2>1. PICK s \in rows : q = IF s.id \in taken THEN [s EXCEPT !.st = "ACCEPTED"] ELSE s
    BY <1>5
  <2>2. s \in Row  BY DEF IInv, TypeOK
  <2>3. q \in Row /\ q.id = s.id /\ q.from = s.from /\ q.to = s.to
    BY <2>1, <2>2 DEF Row
  <2> QED  BY <2>1, <2>3
<1> QED  BY <1>3, <1>4, <1>5

LEMMA CommitKeepsIInv ==
    ASSUME IInv, NEW w \in Workers, Commit(w)
    PROVE  IInv'
<1>1. CASE Fail(w)  BY <1>1, AfterFail
<1>2. CASE ~ Fail(w)
  <2> DEFINE req == [work[w] EXCEPT !.pc = "send", !.writes = NoWrites,
                                    !.out = @ \o ControllerFrames(work[w])]
  <2>1. work[w] \in Request  BY DEF IInv, TypeOK
  <2>2. work[w].out \o ControllerFrames(work[w]) \in Seq(Frame)
    BY <2>1, ControllerFramesType, ConcatProperties DEF Request
  <2>3. req \in Request /\ req.pc = "send"
    BY <2>1, <2>2, WritesType DEF Request
  <2>4. work' = [work EXCEPT ![w] = req]
    BY <1>2 DEF Commit, IInv, TypeOK
  <2>5. work'[w].pc = "send" /\ \A v \in Workers \ {w} : work'[v] = work[v]
    BY <2>3, <2>4 DEF IInv, TypeOK
  <2>6. nextId \in Nat /\ nextId' \in Nat /\ nextId <= nextId' /\ ui' = ui
    BY <1>2 DEF Commit, IInv, TypeOK
  <2> HIDE DEF req
  <2>7. rows' \subseteq Row
    <3> SUFFICES ASSUME NEW q \in rows' PROVE q \in Row  OBVIOUS
    <3>1. [id |-> nextId, from |-> work[w].me, to |-> work[w].other,
           st |-> "PENDING"] \in Row
      BY <2>1, <2>6 DEF Request, Row
    <3> QED  BY <2>5, <3>1, CommitRows
  <2>8. TypeOK'
    <3>1. work' \in [Workers -> Request]
      BY <2>3, <2>4 DEF IInv, TypeOK
    <3> QED  BY <2>6, <2>7, <3>1 DEF TypeOK, IInv
  <2>9. ASSUME NEW q \in rows'
        PROVE  /\ q.id < nextId'
               /\ q.id # nextId => \E s \in rows : q.id = s.id /\ q.from = s.from /\ q.to = s.to
    <3>1. \A s \in rows : s.id < nextId /\ s.id \in Nat
      BY DEF IInv, TypeOK, IdsAreOne, Row
    <3> QED  BY <2>5, <2>6, <3>1, CommitRows
  <2>10. IdsAreOne'
    <3> SUFFICES ASSUME NEW r \in rows', NEW q \in rows', r.id = q.id
                 PROVE  r = q
      BY <2>9 DEF IdsAreOne
    <3>1. \A s \in rows : s.id < nextId /\ s.id \in Nat
      BY DEF IInv, TypeOK, IdsAreOne, Row
    <3> DEFINE taken == {t.id : t \in work[w].writes.accept}
               Written(t) == IF t.id \in taken THEN [t EXCEPT !.st = "ACCEPTED"] ELSE t
               new == [id |-> nextId, from |-> work[w].me, to |-> work[w].other,
                       st |-> "PENDING"]
    <3>2. \A t \in rows' : t = new \/ \E o \in rows : t.id = o.id /\ t = Written(o)
      BY <2>5, CommitRows
    <3>3. CASE r.id = nextId
      <4>1. \A t \in rows' : t.id = nextId => t = new  BY <2>6, <3>1, <3>2
      <4> QED  BY <3>3, <4>1
    <3>4. CASE r.id # nextId
      <4>1. new.id = nextId  OBVIOUS
      <4>2. PICK s1 \in rows : r.id = s1.id /\ r = Written(s1)  BY <3>2, <3>4, <4>1
      <4>3. PICK s2 \in rows : q.id = s2.id /\ q = Written(s2)  BY <3>2, <3>4, <4>1
      <4>4. s1 = s2  BY <4>2, <4>3 DEF IInv, IdsAreOne
      <4> QED  BY <4>2, <4>3, <4>4
    <3> QED  BY <3>3, <3>4
  <2>11. AcceptIsPlanned'
    <3> SUFFICES ASSUME NEW v \in Workers, work'[v].pc = "commit",
                        NEW r \in work'[v].writes.accept
                 PROVE  /\ r.to = work'[v].me
                        /\ r.id < nextId'
                        /\ \A q \in rows' : q.id = r.id => q.from = r.from /\ q.to = r.to
      BY DEF AcceptIsPlanned
    <3>1. work'[v] = work[v]  BY <2>5
    <3>2. /\ r.to = work[v].me /\ r.id < nextId
          /\ \A q \in rows : q.id = r.id => q.from = r.from /\ q.to = r.to
      BY <3>1 DEF IInv, AcceptIsPlanned
    <3>3. r.id \in Nat
      BY <3>1 DEF IInv, TypeOK, Request, Writes, Row
    <3> QED  BY <2>6, <2>9, <3>1, <3>2, <3>3
  <2> QED  BY <2>8, <2>10, <2>11 DEF IInv
<1> QED  BY <1>1, <1>2

-----------------------------------------------------------------------------
\* Every step keeps the invariant.
LEMMA StepKeepsIInv ==
    ASSUME IInv, [Next]_vars
    PROVE  IInv'
<1>1. CASE UNCHANGED vars
  BY <1>1 DEF vars, IInv, TypeOK, IdsAreOne, AcceptIsPlanned
<1>2. ASSUME NEW w \in Workers, NEW p \in Pairs, NEW op \in Ops, Click(w, p, op)
      PROVE  IInv'
  <2> DEFINE req == [pc |-> "find", op |-> op, me |-> p[1], other |-> p[2],
                     writes |-> NoWrites, out |-> <<>>]
  <2>1. req \in Request /\ req.pc # "commit"
    BY WritesType DEF Pairs, Request
  <2>2. /\ work' = [work EXCEPT ![w] = req] /\ UNCHANGED <<rows, nextId>>
        /\ ui' \in [Users \X Users -> UiStatus]
    BY <1>2 DEF Click, IInv, TypeOK
  <2> HIDE DEF req
  <2> QED  BY <2>1, <2>2, RequestStep
<1>3. ASSUME NEW w \in Workers, FindForAdd(w)  PROVE IInv'
  <2> DEFINE q == work[w]
             found == Between(q.me, q.other)
  <2>1. q \in Request /\ rows \subseteq Row /\ found \subseteq rows
    BY DEF IInv, TypeOK, Between, Rows
  <2>2. {"PENDING_OUT", "PENDING_IN", "FRIEND"} \subseteq UiStatus  BY DEF UiStatus
  <2>3. CASE Settle(w, Insert, "PENDING_OUT", "PENDING_IN")
    BY <2>2, <2>3, WritesType, AfterSettle
  <2>4. CASE Fail(w)  BY <2>4, AfterFail
  <2>5. CASE Settle(w, NoWrites, "FRIEND", "FRIEND")
    BY <2>2, <2>5, WritesType, AfterSettle
  <2>6. CASE Settle(w, NoWrites, "PENDING_OUT", "PENDING_IN")
    BY <2>2, <2>6, WritesType, AfterSettle
  <2>7. ASSUME NEW r \in found, r.from # q.me, Settle(w, Accept(r), "FRIEND", "FRIEND")
        PROVE  IInv'
    <3>1. r \in rows /\ r.to = q.me
      BY <2>7 DEF Between, Rows
    <3>2. Accept(r) \in Writes /\ Accept(r).accept = {r}
      BY <2>1, <3>1, WritesType
    <3> QED  BY <2>2, <2>7, <3>1, <3>2, AfterSettle
  <2> QED  BY <1>3, <2>3, <2>4, <2>5, <2>6, <2>7 DEF FindForAdd
<1>4. ASSUME NEW w \in Workers, FindForCancel(w)  PROVE IInv'
  <2>1. work[w] \in Request /\ rows \subseteq Row  BY DEF IInv, TypeOK
  <2>2. "NONE" \in UiStatus  BY DEF UiStatus
  <2>3. CASE Fail(w)  BY <2>3, AfterFail
  <2>4. CASE Settle(w, NoWrites, "NONE", "NONE")
    BY <2>2, <2>4, WritesType, AfterSettle
  <2>5. ASSUME NEW r \in Rows(work[w].me, work[w].other), Settle(w, Delete({r}), "NONE", "NONE")
        PROVE  IInv'
    <3>1. {r} \in SUBSET Row  BY <2>1 DEF Rows
    <3>2. Delete({r}) \in Writes /\ Delete({r}).accept = {}  BY <3>1, WritesType
    <3> QED  BY <2>2, <2>5, <3>2, AfterSettle
  <2>6. CASE /\ work' = [work EXCEPT ![w].pc = "status"]
             /\ UNCHANGED <<rows, nextId, ui>>
    <3> DEFINE req == [work[w] EXCEPT !.pc = "status"]
    <3>1. req \in Request /\ req.pc # "commit"  BY <2>1 DEF Request
    <3>2. work' = [work EXCEPT ![w] = req]  BY <2>6 DEF IInv, TypeOK
    <3>3. ui' \in [Users \X Users -> UiStatus]  BY <2>6 DEF IInv, TypeOK
    <3> HIDE DEF req
    <3> QED  BY <2>6, <3>1, <3>2, <3>3, RequestStep
  <2> QED  BY <1>4, <2>3, <2>4, <2>5, <2>6 DEF FindForCancel
<1>5. ASSUME NEW w \in Workers, StatusForCancel(w)  PROVE IInv'
  <2>1. CASE Fail(w)  BY <2>1, AfterFail
  <2>2. ASSUME NEW found,
               Settle(w, NoWrites, StatusOf(found, work[w].me), StatusOf(found, work[w].other))
        PROVE  IInv'
    BY <2>2, StatusType, WritesType, AfterSettle
  <2> QED  BY <1>5, <2>1, <2>2 DEF StatusForCancel
<1>6. ASSUME NEW w \in Workers, FindForAccept(w)  PROVE IInv'
  <2>1. rows \subseteq Row /\ "FRIEND" \in UiStatus  BY DEF IInv, TypeOK, UiStatus
  <2>2. CASE Fail(w)  BY <2>2, AfterFail
  <2>3. ASSUME NEW r \in Rows(work[w].other, work[w].me),
               Settle(w, IF r.st = "PENDING" THEN Accept(r) ELSE NoWrites, "FRIEND", "FRIEND")
        PROVE  IInv'
    <3> DEFINE writes == IF r.st = "PENDING" THEN Accept(r) ELSE NoWrites
    <3>1. r \in rows /\ r.to = work[w].me  BY DEF Rows
    <3>2. writes \in Writes /\ writes.accept \subseteq {r}
      BY <2>1, <3>1, WritesType
    <3>3. Settle(w, writes, "FRIEND", "FRIEND")  BY <2>3
    <3> HIDE DEF writes
    <3>4. \A t \in writes.accept : t \in rows /\ t.to = work[w].me  BY <3>1, <3>2
    <3> QED  BY <2>1, <3>2, <3>3, <3>4, AfterSettle
  <2> QED  BY <1>6, <2>2, <2>3 DEF FindForAccept
<1>7. ASSUME NEW w \in Workers, FindForUnfriend(w)  PROVE IInv'
  <2> DEFINE found == Rows(work[w].me, work[w].other)
             req == [work[w] EXCEPT !.pc = "find2", !.writes = Delete(found)]
  <2>1. work[w] \in Request /\ found \in SUBSET Row  BY DEF IInv, TypeOK, Rows
  <2>2. CASE Fail(w)  BY <2>2, AfterFail
  <2>3. CASE ~ Fail(w)
    <3>1. Delete(found) \in Writes  BY <2>1, WritesType
    <3>2. req \in Request /\ req.pc # "commit"  BY <2>1, <3>1 DEF Request
    <3>3. work' = [work EXCEPT ![w] = req] /\ UNCHANGED <<rows, nextId, ui>>
      BY <1>7, <2>3 DEF FindForUnfriend, IInv, TypeOK
    <3>4. ui' \in [Users \X Users -> UiStatus]  BY <3>3 DEF IInv, TypeOK
    <3> HIDE DEF req
    <3> QED  BY <3>2, <3>3, <3>4, RequestStep
  <2> QED  BY <2>2, <2>3
<1>8. ASSUME NEW w \in Workers, FindSecondForUnfriend(w)  PROVE IInv'
  <2> DEFINE S == work[w].writes.delete \union Rows(work[w].other, work[w].me)
  <2>1. S \in SUBSET Row
    BY DEF IInv, TypeOK, Request, Writes, Rows
  <2>2. Delete(S) \in Writes /\ Delete(S).accept = {} /\ "NONE" \in UiStatus
    BY <2>1, WritesType DEF UiStatus
  <2>3. Fail(w) \/ Settle(w, Delete(S), "NONE", "NONE")
    BY <1>8 DEF FindSecondForUnfriend
  <2> HIDE DEF S
  <2> QED  BY <2>2, <2>3, AfterFail, AfterSettle
<1>9. ASSUME NEW w \in Workers, Commit(w)  PROVE IInv'
  BY <1>9, CommitKeepsIInv
<1>10. ASSUME NEW w \in Workers, Show(w)  PROVE IInv'
  <2> DEFINE q == work[w]
             req == IF Len(q.out) = 1 THEN Free(q) ELSE [q EXCEPT !.out = Tail(q.out)]
  <2>1. q \in Request /\ q.out \in Seq(Frame) /\ q.out # <<>> /\ q.pc = "send"
    BY <1>10 DEF Show, IInv, TypeOK, Request
  <2>2. Head(q.out) \in Frame /\ Tail(q.out) \in Seq(Frame)
    BY <2>1, HeadTailProperties
  <2>3. ui' \in [Users \X Users -> UiStatus]
    BY <1>10, <2>2 DEF Show, IInv, TypeOK, Frame
  <2>4. req \in Request /\ req.pc # "commit"
    BY <2>1, <2>2, FreeType DEF Request
  <2>5. work' = [work EXCEPT ![w] = req] /\ UNCHANGED <<rows, nextId>>
    BY <1>10 DEF Show
  <2> HIDE DEF req
  <2> QED  BY <2>3, <2>4, <2>5, RequestStep
<1> QED
  BY <1>1, <1>2, <1>3, <1>4, <1>5, <1>6, <1>7, <1>8, <1>9, <1>10
  DEF Next, ServerStep

\* The invariant holds in every reachable state, for all constants.
THEOREM InductiveInvariant == Spec => []IInv
<1>1. Init => IInv
  <2> SUFFICES ASSUME Init PROVE IInv  OBVIOUS
  <2>1. TypeOK
    <3> DEFINE Resting == [pc : {"idle"}, op : {"add"}, me : Users, other : Users,
                           writes : {NoWrites}, out : {<<>>}]
    <3>1. NoWrites \in Writes  BY WritesType
    <3>2. <<>> \in Seq(Frame)  BY EmptySeq
    <3>3. Resting \subseteq Request  BY <3>1, <3>2 DEF Request, Ops
    <3>4. work \in [Workers -> Resting]
      <4> HIDE DEF Resting
      <4>1. Init => work \in [Workers -> {q \in Resting : q.me = q.other}]
        BY DEF Init, Resting
      <4> QED  BY <4>1
    <3>5. work \in [Workers -> Request]  BY <3>3, <3>4
    <3> QED  BY <3>5 DEF Init, TypeOK, UiStatus
  <2>2. IdsAreOne /\ AcceptIsPlanned
    BY DEF Init, IdsAreOne, AcceptIsPlanned
  <2> QED  BY <2>1, <2>2 DEF IInv
<1>2. IInv /\ [Next]_vars => IInv'  BY StepKeepsIInv
<1> QED  BY <1>1, <1>2, PTL DEF Spec

\* The variables keep their types.
THEOREM TypeCorrect == Spec => []TypeOK
<1>1. IInv => TypeOK  BY DEF IInv
<1> QED  BY <1>1, InductiveInvariant, PTL

-----------------------------------------------------------------------------
\* Away from a commit the rows stay as they are.
LEMMA StepRows ==
    ASSUME IInv, [Next]_vars
    PROVE  \/ rows' = rows
           \/ \E w \in Workers : Commit(w) /\ work[w].pc = "commit" /\ work'[w].pc = "send"
<1>1. ASSUME NEW w \in Workers, Commit(w), ~ Fail(w)
      PROVE  work[w].pc = "commit" /\ work'[w].pc = "send"
  <2>1. work[w] \in Request /\ work \in [Workers -> Request]  BY DEF IInv, TypeOK
  <2>2. work[w].pc = "commit"  BY <1>1 DEF Commit
  <2>3. work' = [work EXCEPT ![w].pc = "send", ![w].writes = NoWrites,
                             ![w].out = @ \o ControllerFrames(work[w])]
    BY <1>1 DEF Commit
  <2>4. work'[w].pc = "send"  BY <2>1, <2>3 DEF Request
  <2> QED  BY <2>2, <2>4
<1>2. ASSUME NEW w \in Workers, ServerStep(w), ~ Commit(w)  PROVE rows' = rows
  BY <1>2 DEF ServerStep, FindForAdd, FindForCancel, StatusForCancel, FindForAccept,
     FindForUnfriend, FindSecondForUnfriend, Show, Settle, Fail
<1>3. ASSUME NEW w \in Workers, NEW p \in Pairs, NEW op \in Ops, Click(w, p, op)
      PROVE  rows' = rows
  BY <1>3 DEF Click
<1>4. ASSUME NEW w \in Workers, Fail(w)  PROVE rows' = rows  BY <1>4 DEF Fail
<1> QED  BY <1>1, <1>2, <1>3, <1>4 DEF Next, vars

LEMMA StepIsRowStep ==
    ASSUME IInv, [Next]_vars
    PROVE  RowStep
<1>1. CASE rows' = rows
  BY <1>1 DEF RowStep, IInv, IdsAreOne
<1>2. ASSUME NEW w \in Workers, Commit(w), work[w].pc = "commit", work'[w].pc = "send"
      PROVE  RowStep
  <2>1. \A s \in rows : s.id < nextId /\ s.id \in Nat
    BY DEF IInv, TypeOK, IdsAreOne, Row
  <2>2. ASSUME NEW q \in rows'
        PROVE  \/ \E r \in rows : r.id = q.id
               \/ /\ q.id = nextId /\ q.st = "PENDING"
                  /\ \E v \in Workers : work[v].pc = "commit" /\ work[v].me = q.from
    BY <1>2, CommitRows
  <2>3. ASSUME NEW r \in rows, NEW q \in rows', q.id = r.id, q # r
        PROVE  q = [r EXCEPT !.st = "ACCEPTED"] /\ work[w].me = r.to
    <3>1. nextId \in Nat  BY DEF IInv, TypeOK
    <3>2. PICK s \in rows : /\ q.id = s.id
                            /\ \/ q = s
                               \/ /\ q = [s EXCEPT !.st = "ACCEPTED"]
                                  /\ \E t \in work[w].writes.accept : t.id = s.id
      BY <1>2, <2>1, <2>3, <3>1, CommitRows
    <3>3. s = r  BY <2>3, <3>2 DEF IInv, IdsAreOne
    <3>4. PICK t \in work[w].writes.accept : t.id = r.id  BY <2>3, <3>2, <3>3
    <3>5. t.to = work[w].me /\ r.to = t.to
      BY <1>2, <3>4 DEF IInv, AcceptIsPlanned
    <3> QED  BY <2>3, <3>2, <3>3, <3>5
  <2> QED  BY <1>2, <2>2, <2>3 DEF RowStep
<1> QED  BY <1>1, <1>2, StepRows

\* A row has one life: PENDING by its requester, ACCEPTED only by a request
\* of its addressee, and never back once it is deleted, whatever requests of
\* however many users race with each other.
THEOREM RowsLiveOnce == Spec => RowLifecycle
<1>1. IInv /\ [Next]_vars => [RowStep]_vars  BY StepIsRowStep
<1> QED  BY <1>1, InductiveInvariant, PTL DEF Spec, RowLifecycle

-----------------------------------------------------------------------------
\* One server thread: what the query of request() saw is still so when the
\* row is inserted.
Joins(r, u, v) == (r.from = u /\ r.to = v) \/ (r.from = v /\ r.to = u)

OneRow ==
    \A p \in Pairs : \A r, s \in rows :
        Joins(r, p[1], p[2]) /\ Joins(s, p[1], p[2]) => r = s

InsertIsFresh ==
    \A w \in Workers :
        work[w].pc = "commit" /\ work[w].writes.insert =>
            \A r \in rows : ~ Joins(r, work[w].me, work[w].other)

SerialInv == OneRow /\ InsertIsFresh

Serial == \A v, w \in Workers : v = w

LEMMA BetweenJoins ==
    ASSUME NEW u, NEW v
    PROVE  Between(u, v) = {r \in rows : Joins(r, u, v)}
BY DEF Between, Rows, Joins

\* A step that leaves the rows alone and plans no insert but a fresh one.
LEMMA SerialRequestStep ==
    ASSUME Serial, IInv, SerialInv, NEW w \in Workers, NEW req \in Request,
           work' = [work EXCEPT ![w] = req], rows' = rows,
           req.pc = "commit" /\ req.writes.insert =>
               \A r \in rows : ~ Joins(r, req.me, req.other)
    PROVE  SerialInv'
<1>1. OneRow'
  BY DEF SerialInv, OneRow
<1>2. InsertIsFresh'
  <2> SUFFICES ASSUME NEW v \in Workers, work'[v].pc = "commit", work'[v].writes.insert
               PROVE  \A r \in rows : ~ Joins(r, work'[v].me, work'[v].other)
    BY DEF InsertIsFresh
  <2>1. work'[v] = req  BY DEF Serial, IInv, TypeOK
  <2> QED  BY <2>1
<1> QED  BY <1>1, <1>2 DEF SerialInv

LEMMA SerialFail ==
    ASSUME Serial, IInv, SerialInv, NEW w \in Workers, Fail(w)
    PROVE  SerialInv'
<1>1. work[w] \in Request  BY DEF IInv, TypeOK
<1>2. Free(work[w]) \in Request /\ Free(work[w]).pc = "idle"  BY <1>1, FreeType
<1>3. work' = [work EXCEPT ![w] = Free(work[w])] /\ rows' = rows  BY DEF Fail
<1> QED  BY <1>2, <1>3, SerialRequestStep

LEMMA SerialSettle ==
    ASSUME Serial, IInv, SerialInv, NEW w \in Workers, NEW writes \in Writes,
           NEW f \in UiStatus, NEW g \in UiStatus, Settle(w, writes, f, g),
           writes.insert => \A r \in rows : ~ Joins(r, work[w].me, work[w].other)
    PROVE  SerialInv'
<1> DEFINE req == [work[w] EXCEPT !.pc = "commit", !.writes = writes,
                                  !.out = Both(work[w].me, work[w].other, f, g)]
<1>1. work[w] \in Request  BY DEF IInv, TypeOK
<1>2. Both(work[w].me, work[w].other, f, g) \in Seq(Frame)
  BY <1>1, BothType DEF Request
<1>3. /\ req \in Request /\ req.writes = writes
      /\ req.me = work[w].me /\ req.other = work[w].other
  BY <1>1, <1>2 DEF Request
<1>4. work' = [work EXCEPT ![w] = req] /\ rows' = rows
  BY DEF Settle, IInv, TypeOK
<1> HIDE DEF req
<1> QED  BY <1>3, <1>4, SerialRequestStep

LEMMA OnlyInsertInserts ==
    /\ ~ NoWrites.insert
    /\ \A r \in Row : ~ Accept(r).insert
    /\ \A S \in SUBSET Row : ~ Delete(S).insert
BY DEF NoWrites, Accept, Delete

\* The commit: a fresh row is alone, and no other row changes its users.
LEMMA SerialCommit ==
    ASSUME Serial, IInv, SerialInv, NEW w \in Workers, Commit(w)
    PROVE  SerialInv'
<1>1. CASE Fail(w)  BY <1>1, SerialFail
<1>2. CASE ~ Fail(w)
  <2> DEFINE q == work[w]
             new == [id |-> nextId, from |-> q.me, to |-> q.other, st |-> "PENDING"]
             taken == {r.id : r \in q.writes.accept}
             Saved(r) == IF r.id \in taken THEN [r EXCEPT !.st = "ACCEPTED"] ELSE r
  <2>1. q \in Request /\ q.pc = "commit" /\ rows \subseteq Row
    BY DEF Commit, IInv, TypeOK
  <2>2. work'[w].pc = "send"
    BY <1>2, <2>1 DEF Commit, IInv, TypeOK, Request
  <2>3. InsertIsFresh'  BY <2>2 DEF InsertIsFresh, Serial
  <2>4. ASSUME NEW t \in rows'
        PROVE  \/ q.writes.insert /\ t = new
               \/ \E r \in rows : t = Saved(r) /\ t.from = r.from /\ t.to = r.to
    <3>1. rows' \subseteq {Saved(r) : r \in rows} \union (IF q.writes.insert THEN {new} ELSE {})
      BY <1>2 DEF Commit
    <3>2. \A r \in rows : Saved(r).from = r.from /\ Saved(r).to = r.to
      BY <2>1 DEF Row
    <3> HIDE DEF Saved, new
    <3> QED  BY <3>1, <3>2
  <2>5. OneRow'
    <3> SUFFICES ASSUME NEW p \in Pairs, NEW r \in rows', NEW s \in rows',
                        Joins(r, p[1], p[2]), Joins(s, p[1], p[2])
                 PROVE  r = s
      BY DEF OneRow
    <3>1. new.from = q.me /\ new.to = q.other  OBVIOUS
    <3> HIDE DEF new, Saved
    <3>2. ASSUME NEW a \in rows, q.writes.insert, Joins(a, p[1], p[2])
          PROVE  ~ Joins(new, p[1], p[2])
      <4>1. ~ Joins(a, q.me, q.other)  BY <2>1, <3>2 DEF SerialInv, InsertIsFresh
      <4> QED  BY <3>1, <3>2, <4>1 DEF Joins
    <3>3. CASE q.writes.insert /\ r = new
      BY <2>4, <3>2, <3>3 DEF Joins
    <3>4. CASE q.writes.insert /\ s = new
      BY <2>4, <3>2, <3>4 DEF Joins
    <3>5. CASE /\ \E a \in rows : r = Saved(a) /\ r.from = a.from /\ r.to = a.to
               /\ \E b \in rows : s = Saved(b) /\ s.from = b.from /\ s.to = b.to
      <4>1. PICK a \in rows : r = Saved(a) /\ r.from = a.from /\ r.to = a.to  BY <3>5
      <4>2. PICK b \in rows : s = Saved(b) /\ s.from = b.from /\ s.to = b.to  BY <3>5
      <4>3. Joins(a, p[1], p[2]) /\ Joins(b, p[1], p[2])  BY <4>1, <4>2 DEF Joins
      <4>4. a = b  BY <4>3 DEF SerialInv, OneRow
      <4> QED  BY <4>1, <4>2, <4>4
    <3> QED  BY <2>4, <3>3, <3>4, <3>5
  <2> QED  BY <2>3, <2>5 DEF SerialInv
<1> QED  BY <1>1, <1>2

LEMMA StepKeepsSerial ==
    ASSUME Serial, IInv, SerialInv, [Next]_vars
    PROVE  SerialInv'
<1> {"NONE", "PENDING_OUT", "PENDING_IN", "FRIEND"} \subseteq UiStatus  BY DEF UiStatus
<1> rows \subseteq Row /\ \A w \in Workers : work[w] \in Request  BY DEF IInv, TypeOK
<1>1. CASE UNCHANGED vars
  BY <1>1 DEF vars, SerialInv, OneRow, InsertIsFresh
<1>2. ASSUME NEW w \in Workers, NEW p \in Pairs, NEW op \in Ops, Click(w, p, op)
      PROVE  SerialInv'
  <2> DEFINE req == [pc |-> "find", op |-> op, me |-> p[1], other |-> p[2],
                     writes |-> NoWrites, out |-> <<>>]
  <2>1. req \in Request /\ req.pc # "commit"
    BY WritesType DEF Pairs, Request
  <2>2. work' = [work EXCEPT ![w] = req] /\ rows' = rows  BY <1>2 DEF Click
  <2> HIDE DEF req
  <2> QED  BY <2>1, <2>2, SerialRequestStep
<1>3. ASSUME NEW w \in Workers, FindForAdd(w)  PROVE SerialInv'
  <2> DEFINE found == Between(work[w].me, work[w].other)
  <2>1. CASE Fail(w)  BY <2>1, SerialFail
  <2>2. CASE found = {} /\ Settle(w, Insert, "PENDING_OUT", "PENDING_IN")
    BY <2>2, WritesType, BetweenJoins, SerialSettle
  <2>3. ASSUME NEW f \in UiStatus, NEW g \in UiStatus, Settle(w, NoWrites, f, g)
        PROVE  SerialInv'
    BY <2>3, WritesType, OnlyInsertInserts, SerialSettle
  <2>4. ASSUME NEW r \in found, Settle(w, Accept(r), "FRIEND", "FRIEND")  PROVE SerialInv'
    <3>1. r \in Row  BY DEF Between, Rows
    <3> QED  BY <2>4, <3>1, WritesType, OnlyInsertInserts, SerialSettle
  <2> QED  BY <1>3, <2>1, <2>2, <2>3, <2>4 DEF FindForAdd
<1>4. ASSUME NEW w \in Workers, FindForCancel(w)  PROVE SerialInv'
  <2>1. CASE Fail(w)  BY <2>1, SerialFail
  <2>2. CASE Settle(w, NoWrites, "NONE", "NONE")
    BY <2>2, WritesType, OnlyInsertInserts, SerialSettle
  <2>3. ASSUME NEW r \in Rows(work[w].me, work[w].other), Settle(w, Delete({r}), "NONE", "NONE")
        PROVE  SerialInv'
    <3>1. {r} \in SUBSET Row  BY DEF Rows
    <3>2. Delete({r}) \in Writes /\ ~ Delete({r}).insert
      BY <3>1, WritesType, OnlyInsertInserts
    <3> QED  BY <2>3, <3>2, SerialSettle
  <2>4. CASE /\ work' = [work EXCEPT ![w].pc = "status"]
             /\ UNCHANGED <<rows, nextId, ui>>
    <3> DEFINE req == [work[w] EXCEPT !.pc = "status"]
    <3>1. req \in Request /\ req.pc # "commit"  BY DEF Request
    <3>2. work' = [work EXCEPT ![w] = req]  BY <2>4 DEF IInv, TypeOK
    <3> HIDE DEF req
    <3> QED  BY <2>4, <3>1, <3>2, SerialRequestStep
  <2> QED  BY <1>4, <2>1, <2>2, <2>3, <2>4 DEF FindForCancel
<1>5. ASSUME NEW w \in Workers, StatusForCancel(w)  PROVE SerialInv'
  <2>1. CASE Fail(w)  BY <2>1, SerialFail
  <2>2. ASSUME NEW f \in UiStatus, NEW g \in UiStatus, Settle(w, NoWrites, f, g)
        PROVE  SerialInv'
    BY <2>2, WritesType, OnlyInsertInserts, SerialSettle
  <2> QED  BY <1>5, <2>1, <2>2, StatusType DEF StatusForCancel
<1>6. ASSUME NEW w \in Workers, FindForAccept(w)  PROVE SerialInv'
  <2>1. CASE Fail(w)  BY <2>1, SerialFail
  <2>2. ASSUME NEW r \in Rows(work[w].other, work[w].me),
               Settle(w, IF r.st = "PENDING" THEN Accept(r) ELSE NoWrites, "FRIEND", "FRIEND")
        PROVE  SerialInv'
    <3> DEFINE writes == IF r.st = "PENDING" THEN Accept(r) ELSE NoWrites
    <3>1. r \in Row  BY DEF Rows
    <3>2. writes \in Writes /\ ~ writes.insert
      BY <3>1, WritesType, OnlyInsertInserts
    <3>3. Settle(w, writes, "FRIEND", "FRIEND")  BY <2>2
    <3> HIDE DEF writes
    <3> QED  BY <3>2, <3>3, SerialSettle
  <2> QED  BY <1>6, <2>1, <2>2 DEF FindForAccept
<1>7. ASSUME NEW w \in Workers, FindForUnfriend(w)  PROVE SerialInv'
  <2> DEFINE found == Rows(work[w].me, work[w].other)
             req == [work[w] EXCEPT !.pc = "find2", !.writes = Delete(found)]
  <2>1. CASE Fail(w)  BY <2>1, SerialFail
  <2>2. CASE ~ Fail(w)
    <3>1. found \in SUBSET Row  BY DEF Rows
    <3>2. Delete(found) \in Writes  BY <3>1, WritesType
    <3>3. req \in Request /\ req.pc # "commit"  BY <3>2 DEF Request
    <3>4. work' = [work EXCEPT ![w] = req] /\ rows' = rows
      BY <1>7, <2>2 DEF FindForUnfriend, IInv, TypeOK
    <3> HIDE DEF req
    <3> QED  BY <3>3, <3>4, SerialRequestStep
  <2> QED  BY <2>1, <2>2
<1>8. ASSUME NEW w \in Workers, FindSecondForUnfriend(w)  PROVE SerialInv'
  <2> DEFINE S == work[w].writes.delete \union Rows(work[w].other, work[w].me)
  <2>1. S \in SUBSET Row  BY DEF Request, Writes, Rows
  <2>2. Delete(S) \in Writes /\ ~ Delete(S).insert
    BY <2>1, WritesType, OnlyInsertInserts
  <2>3. Fail(w) \/ Settle(w, Delete(S), "NONE", "NONE")
    BY <1>8 DEF FindSecondForUnfriend
  <2> HIDE DEF S
  <2> QED  BY <2>2, <2>3, SerialFail, SerialSettle
<1>9. ASSUME NEW w \in Workers, Commit(w)  PROVE SerialInv'
  BY <1>9, SerialCommit
<1>10. ASSUME NEW w \in Workers, Show(w)  PROVE SerialInv'
  <2> DEFINE q == work[w]
             req == IF Len(q.out) = 1 THEN Free(q) ELSE [q EXCEPT !.out = Tail(q.out)]
  <2>1. q.out \in Seq(Frame) /\ q.out # <<>> /\ q.pc = "send"
    BY <1>10 DEF Show, Request
  <2>2. Tail(q.out) \in Seq(Frame)  BY <2>1, HeadTailProperties
  <2>3. req \in Request /\ req.pc # "commit"
    BY <2>1, <2>2, FreeType DEF Request
  <2>4. work' = [work EXCEPT ![w] = req] /\ rows' = rows  BY <1>10 DEF Show
  <2> HIDE DEF req
  <2> QED  BY <2>3, <2>4, SerialRequestStep
<1> QED
  BY <1>1, <1>2, <1>3, <1>4, <1>5, <1>6, <1>7, <1>8, <1>9, <1>10
  DEF Next, ServerStep

\* If requests are served one after the other, two users never have two
\* rows, whichever buttons stale windows still offer.
THEOREM OneRowIfSerial ==
    ASSUME Serial
    PROVE  Spec => []AtMostOneRow
<1>1. Init => SerialInv
  BY DEF Init, SerialInv, OneRow, InsertIsFresh
<1>2. IInv /\ SerialInv /\ [Next]_vars => SerialInv'  BY StepKeepsSerial
<1>3. SerialInv => AtMostOneRow
  <2> SUFFICES ASSUME SerialInv, NEW p \in Pairs
               PROVE  Cardinality(Between(p[1], p[2])) <= 1
    BY DEF AtMostOneRow
  <2>1. CASE Between(p[1], p[2]) = {}
    BY <2>1, FS_EmptySet
  <2>2. ASSUME NEW r \in Between(p[1], p[2])
        PROVE  Cardinality(Between(p[1], p[2])) <= 1
    <3>1. Between(p[1], p[2]) = {r}  BY <2>2, BetweenJoins DEF SerialInv, OneRow
    <3> QED  BY <3>1, FS_Singleton
  <2> QED  BY <2>1, <2>2
<1> QED  BY <1>1, <1>2, <1>3, InductiveInvariant, PTL DEF Spec

-----------------------------------------------------------------------------
\* One server thread, and windows that offer what they show: what the frames
\* of a request tell the windows is what getUiStatus then reads.
JoinIn(R, u, v) == {r \in R : Joins(r, u, v)}

Told(R, p) == StatusOf(JoinIn(R, p[1], p[2]), p[1])

Agrees(R, show, p) == show[p] = Told(R, p)

\* What the transaction is about to write makes its first frames true.
Planned(q, R) ==
    LET found == JoinIn(R, q.me, q.other) IN
    /\ q.out = Both(q.me, q.other, Announced(q.op)[1], Announced(q.op)[2])
    /\ q.op = "add" => q.writes = Insert /\ found = {}
    /\ q.op \in {"cancel", "unfriend"} => q.writes = Delete(found)
    /\ q.op = "accept" => \E r \in R : found = {r} /\ q.writes = Accept(r)

\* Until the commit all windows agree with the rows, and the operation is the
\* one its window offers.
AtWork(q, R, show) ==
    /\ <<q.me, q.other>> \in Pairs
    /\ q.op = Offered(show[<<q.me, q.other>>])
    /\ \A p \in Pairs : Agrees(R, show, p)
    /\ q.pc = "find2" =>
          q.op = "unfriend" /\ q.writes = Delete({r \in R : r.from = q.me /\ r.to = q.other})
    /\ q.pc = "commit" => Planned(q, R)

\* After it every frame is true, and a window that does not agree is sent one.
OnTheWay(out, R, show) ==
    /\ \A i \in 1..Len(out) : out[i].pair \in Pairs /\ out[i].show = Told(R, out[i].pair)
    /\ \A p \in Pairs : Agrees(R, show, p) \/ \E i \in 1..Len(out) : out[i].pair = p

RequestTrue(q, R, show) ==
    /\ q.pc = "idle" => \A p \in Pairs : Agrees(R, show, p)
    /\ q.pc # "status"
    /\ q.pc \in {"find", "find2", "commit"} => AtWork(q, R, show)
    /\ q.pc = "send" => OnTheWay(q.out, R, show)

UiInv == \A w \in Workers : RequestTrue(work[w], rows, ui)

\* What getUiStatus says when it finds no row, and when it finds one.
LEMMA ToldNone ==
    ASSUME NEW R, NEW p, JoinIn(R, p[1], p[2]) = {}
    PROVE  Told(R, p) = "NONE"
BY DEF Told, StatusOf

LEMMA ToldOne ==
    ASSUME NEW R, NEW p, NEW r, JoinIn(R, p[1], p[2]) = {r}
    PROVE  Told(R, p) = IF r.st = "ACCEPTED" THEN "FRIEND"
                        ELSE IF r.from = p[1] THEN "PENDING_OUT" ELSE "PENDING_IN"
BY DEF Told, StatusOf

LEMMA PairParts ==
    ASSUME NEW u, NEW v, <<u, v>> \in Pairs
    PROVE  u \in Users /\ v \in Users /\ u # v /\ <<v, u>> \in Pairs
BY DEF Pairs

LEMMA JoinSymmetric ==
    ASSUME NEW R, NEW u, NEW v
    PROVE  JoinIn(R, u, v) = JoinIn(R, v, u)
BY DEF JoinIn, Joins

\* Two users have one row or none.
LEMMA JoinOne ==
    ASSUME SerialInv, NEW u, NEW v, <<u, v>> \in Pairs
    PROVE  JoinIn(rows, u, v) = {} \/ \E r \in rows : JoinIn(rows, u, v) = {r}
<1>1. ASSUME NEW r \in JoinIn(rows, u, v), NEW s \in JoinIn(rows, u, v)
      PROVE  r = s
  BY <1>1 DEF JoinIn, SerialInv, OneRow
<1>2. JoinIn(rows, u, v) \subseteq rows  BY DEF JoinIn
<1> QED  BY <1>1, <1>2

\* The status a window shows says which row there is.
LEMMA ShownNone ==
    ASSUME SerialInv, NEW u, NEW v, <<u, v>> \in Pairs, Told(rows, <<u, v>>) = "NONE"
    PROVE  JoinIn(rows, u, v) = {}
<1>1. CASE JoinIn(rows, u, v) = {}  BY <1>1
<1>2. ASSUME NEW r \in rows, JoinIn(rows, u, v) = {r}  PROVE FALSE
  BY <1>2, ToldOne, <<u, v>>[1] = u, <<u, v>>[2] = v
<1> QED  BY <1>1, <1>2, JoinOne

LEMMA ShownPending ==
    ASSUME SerialInv, rows \subseteq Row, NEW u, NEW v, <<u, v>> \in Pairs,
           Told(rows, <<u, v>>) \in {"PENDING_OUT", "PENDING_IN"}
    PROVE  \E r \in rows :
              /\ JoinIn(rows, u, v) = {r} /\ r.st = "PENDING"
              /\ Told(rows, <<u, v>>) = "PENDING_OUT" => r.from = u /\ r.to = v
              /\ Told(rows, <<u, v>>) = "PENDING_IN" => r.from = v /\ r.to = u
<1>1. u # v /\ <<u, v>>[1] = u /\ <<u, v>>[2] = v  BY PairParts
<1>2. JoinIn(rows, u, v) # {}  BY <1>1, ToldNone
<1>3. PICK r \in rows : JoinIn(rows, u, v) = {r}  BY <1>2, JoinOne
<1>4. Told(rows, <<u, v>>) = IF r.st = "ACCEPTED" THEN "FRIEND"
                             ELSE IF r.from = u THEN "PENDING_OUT" ELSE "PENDING_IN"
  BY <1>1, <1>3, ToldOne
<1>5. r.st = "PENDING"  BY <1>4 DEF Row
<1>6. Joins(r, u, v)  BY <1>3 DEF JoinIn
<1> QED  BY <1>1, <1>3, <1>4, <1>5, <1>6 DEF Joins

\* The only request there is has gone on.
LEMMA UiRequestStep ==
    ASSUME Serial, IInv, NEW w \in Workers, NEW req,
           work' = [work EXCEPT ![w] = req], RequestTrue(req, rows', ui')
    PROVE  UiInv'
<1>1. \A v \in Workers : work'[v] = req  BY DEF Serial, IInv, TypeOK
<1> QED  BY <1>1 DEF UiInv

LEMMA UiFail ==
    ASSUME Serial, IInv, UiInv, NEW w \in Workers, Fail(w),
           work[w].pc \in {"find", "find2", "commit"}
    PROVE  UiInv'
<1>1. work[w] \in Request  BY DEF IInv, TypeOK
<1>2. Free(work[w]).pc = "idle"  BY <1>1, FreeType
<1>3. \A p \in Pairs : Agrees(rows, ui, p)  BY DEF UiInv, RequestTrue, AtWork
<1>4. work' = [work EXCEPT ![w] = Free(work[w])] /\ rows' = rows /\ ui' = ui  BY DEF Fail
<1>5. RequestTrue(Free(work[w]), rows', ui')  BY <1>2, <1>3, <1>4 DEF RequestTrue
<1> QED  BY <1>4, <1>5, UiRequestStep

LEMMA UiSettle ==
    ASSUME Serial, IInv, UiInv, NEW w \in Workers, work[w].pc \in {"find", "find2"},
           NEW writes \in Writes, NEW f \in UiStatus, NEW g \in UiStatus,
           Settle(w, writes, f, g),
           NEW found, found = JoinIn(rows, work[w].me, work[w].other),
           f = Announced(work[w].op)[1], g = Announced(work[w].op)[2],
           work[w].op = "add" => writes = Insert /\ found = {},
           work[w].op \in {"cancel", "unfriend"} => writes = Delete(found),
           work[w].op = "accept" => \E r \in rows : found = {r} /\ writes = Accept(r)
    PROVE  UiInv'
<1> DEFINE q == work[w]
           req == [q EXCEPT !.pc = "commit", !.writes = writes,
                            !.out = Both(q.me, q.other, f, g)]
<1>1. q \in Request  BY DEF IInv, TypeOK
<1>2. Both(q.me, q.other, f, g) \in Seq(Frame)
  BY <1>1, BothType DEF Request
<1>3. /\ req.pc = "commit" /\ req.writes = writes /\ req.out = Both(q.me, q.other, f, g)
      /\ req.me = q.me /\ req.other = q.other /\ req.op = q.op
  BY <1>1, <1>2 DEF Request
<1>4. work' = [work EXCEPT ![w] = req] /\ rows' = rows /\ ui' = ui
  BY DEF Settle, IInv, TypeOK
<1>5. AtWork(q, rows, ui)  BY DEF UiInv, RequestTrue
<1> HIDE DEF req
<1>6. Planned(req, rows)  BY <1>3 DEF Planned
<1>7. RequestTrue(req, rows', ui')
  BY <1>3, <1>4, <1>5, <1>6 DEF RequestTrue, AtWork
<1> QED  BY <1>4, <1>7, UiRequestStep

LEMMA AnnouncedParts ==
    /\ Announced("add")[1] = "PENDING_OUT" /\ Announced("add")[2] = "PENDING_IN"
    /\ Announced("accept")[1] = "FRIEND" /\ Announced("accept")[2] = "FRIEND"
    /\ Announced("cancel")[1] = "NONE" /\ Announced("cancel")[2] = "NONE"
    /\ Announced("unfriend")[1] = "NONE" /\ Announced("unfriend")[2] = "NONE"
BY DEF Announced

\* What the rows are when a request starts, by the button that sent it.
LEMMA FindFacts ==
    ASSUME IInv, SerialInv, NEW q \in Request, RequestTrue(q, rows, ui), q.pc = "find"
    PROVE  /\ q.op = "add" => JoinIn(rows, q.me, q.other) = {}
           /\ q.op = "cancel" =>
                 \E r \in rows : /\ JoinIn(rows, q.me, q.other) = {r}
                                /\ r.st = "PENDING" /\ r.from = q.me /\ r.to = q.other
           /\ q.op = "accept" =>
                 \E r \in rows : /\ JoinIn(rows, q.me, q.other) = {r}
                                /\ r.st = "PENDING" /\ r.from = q.other /\ r.to = q.me
<1> DEFINE found == JoinIn(rows, q.me, q.other)
<1>1. AtWork(q, rows, ui) /\ rows \subseteq Row
  BY DEF RequestTrue, IInv, TypeOK
<1>2. /\ <<q.me, q.other>> \in Pairs /\ q.me # q.other
      /\ ui[<<q.me, q.other>>] = Told(rows, <<q.me, q.other>>)
      /\ q.op = Offered(ui[<<q.me, q.other>>])
      /\ ui[<<q.me, q.other>>] \in UiStatus
  BY <1>1, PairParts DEF AtWork, Agrees, IInv, TypeOK, Pairs
<1>3. ASSUME q.op = "add" PROVE found = {}
  <2>1. Told(rows, <<q.me, q.other>>) = "NONE"  BY <1>2, <1>3 DEF Offered, UiStatus
  <2> QED  BY <1>2, <2>1, ShownNone
<1>4. ASSUME q.op = "cancel"
      PROVE  \E r \in rows : found = {r} /\ r.st = "PENDING" /\ r.from = q.me /\ r.to = q.other
  <2>1. Told(rows, <<q.me, q.other>>) = "PENDING_OUT"  BY <1>2, <1>4 DEF Offered, UiStatus
  <2> QED  BY <1>1, <1>2, <2>1, ShownPending
<1>5. ASSUME q.op = "accept"
      PROVE  \E r \in rows : found = {r} /\ r.st = "PENDING" /\ r.from = q.other /\ r.to = q.me
  <2>1. Told(rows, <<q.me, q.other>>) = "PENDING_IN"  BY <1>2, <1>5 DEF Offered, UiStatus
  <2> QED  BY <1>1, <1>2, <2>1, ShownPending
<1> QED  BY <1>1, <1>2, <1>3, <1>4, <1>5

LEMMA UiFindForAdd ==
    ASSUME Serial, IInv, UiInv, SerialInv, NEW w \in Workers, FindForAdd(w)
    PROVE  UiInv'
<1> DEFINE q == work[w]
           found == JoinIn(rows, q.me, q.other)
<1>1. /\ q.pc = "find" /\ q.op = "add"
      /\ q \in Request /\ RequestTrue(q, rows, ui)
  BY DEF FindForAdd, IInv, TypeOK, UiInv
<1>2. found = {}  BY <1>1, FindFacts
<1>3. Between(q.me, q.other) = {}  BY <1>2, BetweenJoins DEF JoinIn
<1>4. CASE Fail(w)  BY <1>1, <1>4, UiFail
<1>5. CASE Settle(w, Insert, "PENDING_OUT", "PENDING_IN")
  <2>1. Insert \in Writes /\ {"PENDING_OUT", "PENDING_IN"} \subseteq UiStatus
    BY WritesType DEF UiStatus
  <2> QED  BY <1>1, <1>2, <1>5, <2>1, AnnouncedParts, UiSettle
<1> QED
  <2>1. Cardinality({}) = 0  BY FS_EmptySet
  <2> QED  BY <1>3, <1>4, <1>5, <2>1 DEF FindForAdd

LEMMA UiFindForCancel ==
    ASSUME Serial, IInv, UiInv, SerialInv, NEW w \in Workers, FindForCancel(w)
    PROVE  UiInv'
<1> DEFINE q == work[w]
           found == JoinIn(rows, q.me, q.other)
<1>1. /\ q.pc = "find" /\ q.op = "cancel"
      /\ q \in Request /\ RequestTrue(q, rows, ui)
  BY DEF FindForCancel, IInv, TypeOK, UiInv
<1>2. PICK r \in rows : found = {r} /\ r.st = "PENDING" /\ r.from = q.me /\ r.to = q.other
  BY <1>1, FindFacts
<1>3. Rows(q.me, q.other) = {r}  BY <1>2 DEF Rows, JoinIn, Joins
<1>4. CASE Fail(w)  BY <1>1, <1>4, UiFail
<1>5. CASE Settle(w, Delete({r}), "NONE", "NONE")
  <2>1. {r} \in SUBSET Row /\ "NONE" \in UiStatus  BY DEF IInv, TypeOK, UiStatus
  <2>2. Delete({r}) \in Writes  BY <2>1, WritesType
  <2>3. "NONE" = Announced(q.op)[1] /\ "NONE" = Announced(q.op)[2]
    BY <1>1, AnnouncedParts
  <2>4. q.op # "add" /\ q.op # "accept" /\ Delete({r}) = Delete(found)
    BY <1>1, <1>2
  <2> HIDE DEF found
  <2> QED  BY <1>1, <1>5, <2>1, <2>2, <2>3, <2>4, UiSettle DEF found
<1> QED  BY <1>2, <1>3, <1>4, <1>5 DEF FindForCancel

LEMMA UiFindForAccept ==
    ASSUME Serial, IInv, UiInv, SerialInv, NEW w \in Workers, FindForAccept(w)
    PROVE  UiInv'
<1> DEFINE q == work[w]
           found == JoinIn(rows, q.me, q.other)
<1>1. /\ q.pc = "find" /\ q.op = "accept"
      /\ q \in Request /\ RequestTrue(q, rows, ui)
  BY DEF FindForAccept, IInv, TypeOK, UiInv
<1>2. PICK r \in rows : found = {r} /\ r.st = "PENDING" /\ r.from = q.other /\ r.to = q.me
  BY <1>1, FindFacts
<1>3. Rows(q.other, q.me) = {r}  BY <1>2 DEF Rows, JoinIn, Joins
<1>4. CASE Fail(w)  BY <1>1, <1>4, UiFail
<1>5. CASE Settle(w, Accept(r), "FRIEND", "FRIEND")
  <2>1. r \in Row /\ "FRIEND" \in UiStatus  BY DEF IInv, TypeOK, UiStatus
  <2>2. Accept(r) \in Writes  BY <2>1, WritesType
  <2>3. "FRIEND" = Announced(q.op)[1] /\ "FRIEND" = Announced(q.op)[2]
    BY <1>1, AnnouncedParts
  <2>4. q.op \notin {"add", "cancel", "unfriend"}  BY <1>1
  <2>5. \E s \in rows : found = {s} /\ Accept(r) = Accept(s)  BY <1>2
  <2> HIDE DEF found
  <2> QED  BY <1>1, <1>5, <2>1, <2>2, <2>3, <2>4, <2>5, UiSettle DEF found
<1> QED  BY <1>2, <1>3, <1>4, <1>5 DEF FindForAccept

LEMMA UiFindForUnfriend ==
    ASSUME Serial, IInv, UiInv, NEW w \in Workers, FindForUnfriend(w)
    PROVE  UiInv'
<1> DEFINE q == work[w]
           found == Rows(q.me, q.other)
           req == [q EXCEPT !.pc = "find2", !.writes = Delete(found)]
<1>1. q.pc = "find" /\ q.op = "unfriend" /\ q \in Request
  BY DEF FindForUnfriend, IInv, TypeOK
<1>2. CASE Fail(w)  BY <1>1, <1>2, UiFail
<1>3. CASE ~ Fail(w)
  <2>1. /\ work' = [work EXCEPT ![w] = req] /\ rows' = rows /\ ui' = ui
    BY <1>3 DEF FindForUnfriend, IInv, TypeOK
  <2>2. /\ req.pc = "find2" /\ req.writes = Delete(found)
        /\ req.me = q.me /\ req.other = q.other /\ req.op = q.op
    BY <1>1 DEF Request
  <2>3. AtWork(q, rows, ui)  BY <1>1 DEF UiInv, RequestTrue
  <2> HIDE DEF req
  <2>4. RequestTrue(req, rows', ui')
    BY <1>1, <2>1, <2>2, <2>3 DEF RequestTrue, AtWork, Rows
  <2> QED  BY <2>1, <2>4, UiRequestStep
<1> QED  BY <1>2, <1>3

LEMMA UiFindSecondForUnfriend ==
    ASSUME Serial, IInv, UiInv, NEW w \in Workers, FindSecondForUnfriend(w)
    PROVE  UiInv'
<1> DEFINE q == work[w]
           found == JoinIn(rows, q.me, q.other)
           mine == {r \in rows : r.from = q.me /\ r.to = q.other}
           S == q.writes.delete \union Rows(q.other, q.me)
<1>1. q.pc = "find2"  BY DEF FindSecondForUnfriend
<1>2. q.op = "unfriend" /\ q.writes = Delete(mine)
  BY <1>1 DEF UiInv, RequestTrue, AtWork
<1>3. q.writes.delete = mine  BY <1>2 DEF Delete, NoWrites
<1>4. S = found  BY <1>3 DEF Rows, JoinIn, Joins
<1>5. CASE Fail(w)  BY <1>1, <1>5, UiFail
<1>6. CASE Settle(w, Delete(S), "NONE", "NONE")
  <2>1. S \in SUBSET Row /\ "NONE" \in UiStatus
    BY <1>4 DEF IInv, TypeOK, UiStatus, JoinIn
  <2>2. Delete(S) \in Writes  BY <2>1, WritesType
  <2>3. "NONE" = Announced(q.op)[1] /\ "NONE" = Announced(q.op)[2]
    BY <1>2, AnnouncedParts
  <2>4. q.op # "add" /\ q.op # "accept" /\ Delete(S) = Delete(found)
    BY <1>2, <1>4
  <2> HIDE DEF found, S
  <2> QED  BY <1>1, <1>6, <2>1, <2>2, <2>3, <2>4, UiSettle DEF found
<1> QED  BY <1>5, <1>6 DEF FindSecondForUnfriend

LEMMA UiStatusForCancel ==
    ASSUME UiInv, NEW w \in Workers, StatusForCancel(w)
    PROVE  FALSE
BY DEF UiInv, RequestTrue, StatusForCancel

\* The rows that a commit leaves.
Saved(R, q, id) ==
    {IF r.id \in {t.id : t \in q.writes.accept} THEN [r EXCEPT !.st = "ACCEPTED"] ELSE r :
        r \in {s \in R : s.id \notin {t.id : t \in q.writes.delete}}}
      \union (IF q.writes.insert
              THEN {[id |-> id, from |-> q.me, to |-> q.other, st |-> "PENDING"]} ELSE {})

LEMMA OtherPair ==
    ASSUME NEW u, NEW v, NEW p \in Pairs, p # <<u, v>>, p # <<v, u>>, NEW r, Joins(r, u, v)
    PROVE  ~ Joins(r, p[1], p[2])
<1>1. p = <<p[1], p[2]>>  BY DEF Pairs
<1> QED  BY <1>1 DEF Joins

\* What a commit does to the rows of the pair, and to those of other pairs.
LEMMA SavedJoins ==
    ASSUME IInv, NEW q \in Request, <<q.me, q.other>> \in Pairs, Planned(q, rows),
           NEW R, R = Saved(rows, q, nextId)
    PROVE  /\ \A p \in Pairs : p # <<q.me, q.other>> /\ p # <<q.other, q.me>> =>
                 JoinIn(R, p[1], p[2]) = JoinIn(rows, p[1], p[2])
           /\ Told(R, <<q.me, q.other>>) = Announced(q.op)[1]
           /\ Told(R, <<q.other, q.me>>) = Announced(q.op)[2]
<1> DEFINE new == [id |-> nextId, from |-> q.me, to |-> q.other, st |-> "PENDING"]
           found == JoinIn(rows, q.me, q.other)
           u == q.me
           v == q.other
<1>1. /\ u # v /\ <<v, u>> \in Pairs /\ rows \subseteq Row
      /\ <<u, v>>[1] = u /\ <<u, v>>[2] = v /\ <<v, u>>[1] = v /\ <<v, u>>[2] = u
  BY PairParts DEF IInv, TypeOK
<1>2. \A r, s \in rows : r.id = s.id => r = s  BY DEF IInv, IdsAreOne
<1>3. q.op \in {"add", "cancel", "accept", "unfriend"}  BY DEF Request, Ops
<1>4. ASSUME q.op = "add"
      PROVE  /\ \A p \in Pairs : p # <<u, v>> /\ p # <<v, u>> =>
                   JoinIn(R, p[1], p[2]) = JoinIn(rows, p[1], p[2])
             /\ Told(R, <<u, v>>) = "PENDING_OUT" /\ Told(R, <<v, u>>) = "PENDING_IN"
  <2>1. found = {} /\ q.writes.insert /\ q.writes.accept = {} /\ q.writes.delete = {}
    BY <1>4 DEF Planned, Insert, NoWrites
  <2>2. R = rows \union {new}  BY <2>1 DEF Saved
  <2>3. new.from = u /\ new.to = v /\ new.st = "PENDING" /\ Joins(new, u, v)  BY DEF Joins
  <2> HIDE DEF new
  <2>4. JoinIn(R, u, v) = {new}  BY <2>1, <2>2, <2>3 DEF JoinIn
  <2>5. JoinIn(R, v, u) = {new}  BY <2>4, JoinSymmetric
  <2>6. \A p \in Pairs : p # <<u, v>> /\ p # <<v, u>> =>
           JoinIn(R, p[1], p[2]) = JoinIn(rows, p[1], p[2])
    BY <2>2, <2>3, OtherPair DEF JoinIn
  <2>7. Told(R, <<u, v>>) = "PENDING_OUT"
    <3>1. JoinIn(R, <<u, v>>[1], <<u, v>>[2]) = {new}  BY <1>1, <2>4
    <3> QED  BY <1>1, <2>3, <3>1, ToldOne
  <2>8. Told(R, <<v, u>>) = "PENDING_IN"
    <3>1. JoinIn(R, <<v, u>>[1], <<v, u>>[2]) = {new}  BY <1>1, <2>5
    <3> QED  BY <1>1, <2>3, <3>1, ToldOne
  <2> QED  BY <2>6, <2>7, <2>8
<1>5. ASSUME q.op \in {"cancel", "unfriend"}
      PROVE  /\ \A p \in Pairs : p # <<u, v>> /\ p # <<v, u>> =>
                   JoinIn(R, p[1], p[2]) = JoinIn(rows, p[1], p[2])
             /\ Told(R, <<u, v>>) = "NONE" /\ Told(R, <<v, u>>) = "NONE"
  <2>1. ~ q.writes.insert /\ q.writes.accept = {} /\ q.writes.delete = found
    BY <1>5 DEF Planned, Delete, NoWrites
  <2>2. R = {r \in rows : r.id \notin {t.id : t \in found}}  BY <2>1 DEF Saved
  <2>3. R = {r \in rows : ~ Joins(r, u, v)}  BY <1>2, <2>2 DEF JoinIn
  <2>4. JoinIn(R, u, v) = {} /\ JoinIn(R, v, u) = {}  BY <2>3 DEF JoinIn, Joins
  <2>5. \A p \in Pairs : p # <<u, v>> /\ p # <<v, u>> =>
           JoinIn(R, p[1], p[2]) = JoinIn(rows, p[1], p[2])
    BY <2>3, OtherPair DEF JoinIn
  <2> QED  BY <1>1, <2>4, <2>5, ToldNone
<1>6. ASSUME q.op = "accept"
      PROVE  /\ \A p \in Pairs : p # <<u, v>> /\ p # <<v, u>> =>
                   JoinIn(R, p[1], p[2]) = JoinIn(rows, p[1], p[2])
             /\ Told(R, <<u, v>>) = "FRIEND" /\ Told(R, <<v, u>>) = "FRIEND"
  <2>1. PICK r \in rows : found = {r} /\ q.writes = Accept(r)
    BY <1>6 DEF Planned
  <2> DEFINE s == [r EXCEPT !.st = "ACCEPTED"]
  <2>2. ~ q.writes.insert /\ q.writes.accept = {r} /\ q.writes.delete = {}
    BY <2>1 DEF Accept, NoWrites
  <2>3. R = {IF t.id = r.id THEN [t EXCEPT !.st = "ACCEPTED"] ELSE t : t \in rows}
    BY <2>2 DEF Saved
  <2>4. R = (rows \ {r}) \union {s}  BY <1>2, <2>3
  <2>5. Joins(r, u, v)  BY <2>1 DEF JoinIn
  <2>6. s.from = r.from /\ s.to = r.to /\ s.st = "ACCEPTED"
    BY <1>1 DEF Row
  <2>7. Joins(s, u, v)  BY <2>5, <2>6 DEF Joins
  <2> HIDE DEF s
  <2>8. JoinIn(R, u, v) = {s}
    <3>1. \A t \in rows : Joins(t, u, v) => t = r  BY <2>1 DEF JoinIn
    <3> QED  BY <2>4, <2>7, <3>1 DEF JoinIn
  <2>9. JoinIn(R, v, u) = {s}  BY <2>8, JoinSymmetric
  <2>10. \A p \in Pairs : p # <<u, v>> /\ p # <<v, u>> =>
           JoinIn(R, p[1], p[2]) = JoinIn(rows, p[1], p[2])
    BY <2>4, <2>5, <2>7, OtherPair DEF JoinIn
  <2>11. Told(R, <<u, v>>) = "FRIEND"
    <3>1. JoinIn(R, <<u, v>>[1], <<u, v>>[2]) = {s}  BY <1>1, <2>8
    <3> QED  BY <2>6, <3>1, ToldOne
  <2>12. Told(R, <<v, u>>) = "FRIEND"
    <3>1. JoinIn(R, <<v, u>>[1], <<v, u>>[2]) = {s}  BY <1>1, <2>9
    <3> QED  BY <2>6, <3>1, ToldOne
  <2> QED  BY <2>10, <2>11, <2>12
<1> QED  BY <1>3, <1>4, <1>5, <1>6, AnnouncedParts

\* The frames of the service and of the controller, one after the other.
FramesFor(out, u, v, f, g) ==
    /\ Len(out) = 5
    /\ \A i \in 1..5 : \/ out[i].pair = <<u, v>> /\ out[i].show = f
                       \/ out[i].pair = <<v, u>> /\ out[i].show = g
    /\ out[1].pair = <<u, v>> /\ out[2].pair = <<v, u>>

LEMMA FramesRead ==
    ASSUME NEW u, NEW v, NEW f, NEW g, NEW out,
           out = Both(u, v, f, g) \o (Both(u, v, f, g) \o << [pair |-> <<u, v>>, show |-> f] >>)
    PROVE  FramesFor(out, u, v, f, g)
<1> DEFINE a == [pair |-> <<u, v>>, show |-> f]
           b == [pair |-> <<v, u>>, show |-> g]
           x == <<a, b>>
           y == <<a>>
           z == x \o y
<1>1. out = x \o z  BY DEF Both
<1>2. a.pair = <<u, v>> /\ a.show = f /\ b.pair = <<v, u>> /\ b.show = g  OBVIOUS
<1> HIDE DEF a, b
<1>3. /\ x \in Seq({a, b}) /\ Len(x) = 2 /\ x[1] = a /\ x[2] = b
      /\ y \in Seq({a, b}) /\ Len(y) = 1 /\ y[1] = a
  OBVIOUS
<1> HIDE DEF x, y
<1>4. /\ z \in Seq({a, b}) /\ Len(z) = 3
      /\ \A i \in 1..3 : z[i] = IF i <= 2 THEN x[i] ELSE y[i - 2]
  <2>1. /\ z \in Seq({a, b}) /\ Len(z) = Len(x) + Len(y)
        /\ \A i \in 1..(Len(x) + Len(y)) :
              z[i] = IF i <= Len(x) THEN x[i] ELSE y[i - Len(x)]
    BY <1>3, ConcatProperties
  <2> HIDE DEF z
  <2> QED  BY <1>3, <2>1
<1> HIDE DEF z
<1>5. /\ out \in Seq({a, b}) /\ Len(out) = 5
      /\ \A i \in 1..5 : out[i] = IF i <= 2 THEN x[i] ELSE z[i - 2]
  <2>1. /\ x \o z \in Seq({a, b}) /\ Len(x \o z) = Len(x) + Len(z)
        /\ \A i \in 1..(Len(x) + Len(z)) :
              (x \o z)[i] = IF i <= Len(x) THEN x[i] ELSE z[i - Len(x)]
    BY <1>3, <1>4, ConcatProperties
  <2>2. /\ out \in Seq({a, b}) /\ Len(out) = Len(x) + Len(z)
        /\ \A i \in 1..(Len(x) + Len(z)) :
              out[i] = IF i <= Len(x) THEN x[i] ELSE z[i - Len(x)]
    BY <1>1, <2>1, Zenon
  <2> QED  BY <1>3, <1>4, <2>2
<1>6. /\ \A i \in 1..5 : out[i] = a \/ out[i] = b
      /\ out[1] = a /\ out[2] = b
  <2>1. out[1] = a /\ out[2] = b  BY <1>3, <1>5
  <2>2. \A i \in 1..5 : out[i] \in {a, b}  BY <1>5, ElementOfSeq
  <2> QED  BY <2>1, <2>2
<1> QED  BY <1>2, <1>5, <1>6 DEF FramesFor

LEMMA UiCommit ==
    ASSUME Serial, IInv, UiInv, NEW w \in Workers, Commit(w)
    PROVE  UiInv'
<1> DEFINE q == work[w]
<1>1. q.pc = "commit" /\ q \in Request  BY DEF Commit, IInv, TypeOK
<1>2. CASE Fail(w)  BY <1>1, <1>2, UiFail
<1>3. CASE ~ Fail(w)
  <2> DEFINE out == q.out \o ControllerFrames(q)
             req == [q EXCEPT !.pc = "send", !.writes = NoWrites, !.out = out]
             u == q.me
             v == q.other
             f == Announced(q.op)[1]
             g == Announced(q.op)[2]
  <2>1. AtWork(q, rows, ui) /\ Planned(q, rows) /\ <<u, v>> \in Pairs
    BY <1>1 DEF UiInv, RequestTrue, AtWork
  <2>2. rows' = Saved(rows, q, nextId) /\ ui' = ui
    BY <1>3 DEF Commit, Saved
  <2>3. work' = [work EXCEPT ![w] = req]
    BY <1>3 DEF Commit, IInv, TypeOK
  <2>4. req.pc = "send" /\ req.out = out  BY <1>1 DEF Request
  <2> HIDE DEF req
  <2>5. out = Both(u, v, f, g) \o (Both(u, v, f, g) \o << [pair |-> <<u, v>>, show |-> f] >>)
    BY <2>1 DEF Planned, ControllerFrames
  <2> HIDE DEF out, f, g
  <2>6. /\ \A p \in Pairs : p # <<u, v>> /\ p # <<v, u>> =>
              JoinIn(rows', p[1], p[2]) = JoinIn(rows, p[1], p[2])
        /\ Told(rows', <<u, v>>) = f /\ Told(rows', <<v, u>>) = g
    BY <1>1, <2>1, <2>2, SavedJoins DEF f, g
  <2>7. <<v, u>> \in Pairs  BY <2>1, PairParts
  <2>8. /\ Len(out) = 5
        /\ \A i \in 1..5 : \/ out[i].pair = <<u, v>> /\ out[i].show = f
                           \/ out[i].pair = <<v, u>> /\ out[i].show = g
        /\ out[1].pair = <<u, v>> /\ out[2].pair = <<v, u>>
    <3> HIDE DEF u, v
    <3>1. FramesFor(out, u, v, f, g)  BY <2>5, FramesRead, Zenon
    <3> QED  BY <3>1 DEF FramesFor
  <2>9. \A i \in 1..Len(out) : out[i].pair \in Pairs /\ out[i].show = Told(rows', out[i].pair)
    BY <2>1, <2>6, <2>7, <2>8
  <2>10. ASSUME NEW p \in Pairs
         PROVE  Agrees(rows', ui', p) \/ \E i \in 1..Len(out) : out[i].pair = p
    <3>1. CASE p # <<u, v>> /\ p # <<v, u>>
      <4>1. Told(rows', p) = Told(rows, p)  BY <2>6, <3>1 DEF Told
      <4> QED  BY <2>1, <2>2, <4>1 DEF AtWork, Agrees
    <3>2. 1 \in 1..Len(out) /\ 2 \in 1..Len(out)  BY <2>8
    <3> QED  BY <2>8, <3>1, <3>2
  <2>11. OnTheWay(out, rows', ui')  BY <2>9, <2>10 DEF OnTheWay
  <2>12. RequestTrue(req, rows', ui')  BY <2>4, <2>11 DEF RequestTrue
  <2> QED  BY <2>3, <2>12, UiRequestStep
<1> QED  BY <1>2, <1>3

LEMMA UiClick ==
    ASSUME Serial, StaleClicks = FALSE, IInv, UiInv,
           NEW w \in Workers, NEW p \in Pairs, NEW op \in Ops, Click(w, p, op)
    PROVE  UiInv'
<1> DEFINE req == [pc |-> "find", op |-> op, me |-> p[1], other |-> p[2],
                   writes |-> NoWrites, out |-> <<>>]
<1>1. /\ work[w].pc = "idle" /\ op = Offered(ui[p])
      /\ work' = [work EXCEPT ![w] = req] /\ rows' = rows /\ ui' = ui
  BY DEF Click
<1>2. \A o \in Pairs : Agrees(rows, ui, o)
  BY <1>1 DEF UiInv, RequestTrue
<1>3. p = <<p[1], p[2]>>  BY DEF Pairs
<1>4. req.pc = "find" /\ req.op = op /\ req.me = p[1] /\ req.other = p[2]
  OBVIOUS
<1> HIDE DEF req
<1>5. AtWork(req, rows, ui)
  <2>1. <<req.me, req.other>> = p  BY <1>3, <1>4
  <2> QED  BY <1>1, <1>2, <1>4, <2>1 DEF AtWork
<1>6. RequestTrue(req, rows', ui')  BY <1>1, <1>4, <1>5 DEF RequestTrue
<1> QED  BY <1>1, <1>6, UiRequestStep

\* A window that is shown a frame agrees from then on.
LEMMA UiShow ==
    ASSUME Serial, IInv, UiInv, NEW w \in Workers, Show(w)
    PROVE  UiInv'
<1> DEFINE q == work[w]
           out == q.out
           d == Head(out).pair
           req == IF Len(out) = 1 THEN Free(q) ELSE [q EXCEPT !.out = Tail(out)]
<1>1. /\ q \in Request /\ q.pc = "send" /\ out # <<>> /\ out \in Seq(Frame)
      /\ work' = [work EXCEPT ![w] = req] /\ rows' = rows
      /\ ui' = [ui EXCEPT ![d] = Head(out).show]
  BY DEF Show, IInv, TypeOK, Request
<1>2. OnTheWay(out, rows, ui)  BY <1>1 DEF UiInv, RequestTrue
<1>3. /\ Len(out) \in Nat \ {0} /\ Head(out) = out[1]
      /\ Tail(out) \in Seq(Frame) /\ Len(Tail(out)) = Len(out) - 1
      /\ \A i \in 1..(Len(out) - 1) : Tail(out)[i] = out[i + 1]
  <2>1. Len(out) \in Nat /\ Len(out) # 0  BY <1>1, LenProperties, EmptySeq
  <2>2. /\ Tail(out) \in Seq(Frame) /\ Len(Tail(out)) = Len(out) - 1
        /\ \A i \in 1..Len(Tail(out)) : Tail(out)[i] = out[i + 1]
    BY <1>1, HeadTailProperties
  <2> QED  BY <1>1, <2>1, <2>2
<1>4. Free(q).pc = "idle"  BY <1>1, FreeType
<1>5. ui \in [Users \X Users -> UiStatus]  BY DEF IInv, TypeOK
<1> HIDE DEF out
<1>6. d \in Pairs /\ Head(out).show = Told(rows, d)
  <2>1. 1 \in 1..Len(out)  BY <1>3
  <2> QED  BY <1>2, <1>3, <2>1 DEF OnTheWay
<1>7. Agrees(rows, ui', d) /\ \A p \in Pairs \ {d} : Agrees(rows, ui', p) = Agrees(rows, ui, p)
  <2>1. d \in Users \X Users /\ Pairs \subseteq Users \X Users  BY <1>6 DEF Pairs
  <2> HIDE DEF d
  <2>2. ui'[d] = Head(out).show /\ \A p \in Pairs \ {d} : ui'[p] = ui[p]
    BY <1>1, <1>5, <2>1
  <2> QED  BY <1>6, <2>2 DEF Agrees
<1>8. ASSUME NEW p \in Pairs
      PROVE  \/ Agrees(rows, ui', p)
             \/ \E i \in 1..(Len(out) - 1) : Tail(out)[i].pair = p
  <2>1. CASE p = d  BY <1>7, <2>1
  <2>2. CASE Agrees(rows, ui, p) /\ p # d  BY <1>7, <2>2
  <2>3. ASSUME NEW i \in 1..Len(out), out[i].pair = p, p # d
        PROVE  \E j \in 1..(Len(out) - 1) : Tail(out)[j].pair = p
    <3>1. i # 1  BY <1>3, <2>3
    <3>2. i - 1 \in 1..(Len(out) - 1) /\ (i - 1) + 1 = i  BY <1>3, <3>1
    <3>3. Tail(out)[i - 1] = out[i]  BY <1>3, <3>2
    <3> QED  BY <2>3, <3>2, <3>3
  <2> QED  BY <1>2, <2>1, <2>2, <2>3 DEF OnTheWay
<1>9. CASE Len(out) = 1
  <2>1. req = Free(q)  BY <1>9
  <2>2. \A p \in Pairs : Agrees(rows, ui', p)
    <3>1. \A i \in 1..(Len(out) - 1) : FALSE  BY <1>9
    <3> QED  BY <1>8, <3>1
  <2>3. RequestTrue(Free(q), rows', ui')  BY <1>1, <1>4, <2>2 DEF RequestTrue
  <2> QED  BY <1>1, <2>1, <2>3, UiRequestStep
<1>10. CASE Len(out) # 1
  <2> DEFINE t == Tail(out)
             r == [q EXCEPT !.out = t]
  <2>1. req = r  BY <1>10
  <2>2. r.pc = "send" /\ r.out = t  BY <1>1 DEF Request
  <2>3. Len(t) = Len(out) - 1 /\ \A i \in 1..Len(t) : t[i] = out[i + 1] /\ i + 1 \in 1..Len(out)
    BY <1>3
  <2> HIDE DEF t, r
  <2>4. \A i \in 1..Len(t) : t[i].pair \in Pairs /\ t[i].show = Told(rows, t[i].pair)
    BY <1>2, <2>3 DEF OnTheWay
  <2>5. \A p \in Pairs : Agrees(rows, ui', p) \/ \E i \in 1..Len(t) : t[i].pair = p
    BY <1>8, <2>3 DEF t
  <2>6. RequestTrue(r, rows', ui')
    BY <1>1, <2>2, <2>4, <2>5 DEF RequestTrue, OnTheWay
  <2> QED  BY <1>1, <2>1, <2>6, UiRequestStep
<1> QED  BY <1>9, <1>10

LEMMA StepKeepsUi ==
    ASSUME Serial, StaleClicks = FALSE, IInv, SerialInv, UiInv, [Next]_vars
    PROVE  UiInv'
<1>1. CASE UNCHANGED vars
  BY <1>1 DEF vars, UiInv
<1>2. CASE Next
  <2>1. PICK w \in Workers : ServerStep(w) \/ \E p \in Pairs, op \in Ops : Click(w, p, op)
    BY <1>2 DEF Next
  <2>2. CASE ServerStep(w)
    BY <2>2, UiFindForAdd, UiFindForCancel, UiStatusForCancel, UiFindForAccept,
       UiFindForUnfriend, UiFindSecondForUnfriend, UiCommit, UiShow, Zenon DEF ServerStep
  <2>3. ASSUME NEW p \in Pairs, NEW op \in Ops, Click(w, p, op)  PROVE UiInv'
    BY <2>3, UiClick
  <2> QED  BY <2>1, <2>2, <2>3
<1> QED  BY <1>1, <1>2

\* If requests are served one after the other and every window offers what
\* it shows, then whenever nothing is under way each window shows what
\* getUiStatus would say, although five frames and a reply of each request
\* tell it: for any number of users and requests, and whatever fails.
THEOREM UiAgreesIfSerial ==
    ASSUME Serial, StaleClicks = FALSE, Workers # {}
    PROVE  Spec => []UiAgreesWhenQuiet
<1>1. Init => SerialInv /\ UiInv
  <2> SUFFICES ASSUME Init PROVE SerialInv /\ UiInv  OBVIOUS
  <2>1. SerialInv  BY DEF Init, SerialInv, OneRow, InsertIsFresh
  <2>2. ASSUME NEW p \in Pairs PROVE Agrees(rows, ui, p)
    <3>1. JoinIn(rows, p[1], p[2]) = {}  BY DEF Init, JoinIn
    <3>2. ui[p] = "NONE"  BY DEF Init, Pairs
    <3> QED  BY <3>1, <3>2, ToldNone DEF Agrees
  <2>3. ASSUME NEW w \in Workers PROVE work[w].pc = "idle"
    BY DEF Init
  <2> QED  BY <2>1, <2>2, <2>3 DEF UiInv, RequestTrue
<1>2. IInv /\ SerialInv /\ UiInv /\ [Next]_vars => SerialInv' /\ UiInv'
  BY StepKeepsSerial, StepKeepsUi
<1>3. UiInv => UiAgreesWhenQuiet
  <2> SUFFICES ASSUME UiInv, Quiet, NEW p \in Pairs
               PROVE  ui[p] = StatusOf(Between(p[1], p[2]), p[1])
    BY DEF UiAgreesWhenQuiet
  <2>1. Agrees(rows, ui, p)  BY DEF UiInv, RequestTrue, Quiet
  <2> QED  BY <2>1, BetweenJoins DEF Agrees, Told, JoinIn
<1> QED  BY <1>1, <1>2, <1>3, InductiveInvariant, PTL DEF Spec
=============================================================================
