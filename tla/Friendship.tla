---------------------------- MODULE Friendship ----------------------------
(***************************************************************************)
(* Friend requests between users: the rows of table friendships, the       *)
(* transactions of FriendshipServiceImpl that read and write them, and the *)
(* frames that tell the two clients what to show.                          *)
(*                                                                         *)
(* A transaction runs at READ COMMITTED: a query sees the rows committed   *)
(* when it runs, Hibernate writes at the end, and a write to a row that is *)
(* gone by then fails the transaction.  The table has no unique            *)
(* constraint and the entity no version.  After the commit the service     *)
(* pushes a frame to either user; after the service has returned the       *)
(* controller sends another pair; then the reply reaches the client.  Both *)
(* users are online with the conversation open, so no frame is lost.       *)
(* A status BLOCKED exists in the enumeration, but no code sets it.        *)
(***************************************************************************)
EXTENDS Integers, Sequences, FiniteSets

CONSTANTS
    Users,
    Workers,    \* server threads, each with one request at a time
    MaxRows,    \* bound on the rows ever inserted
    StaleClicks \* whether a window may offer what an earlier status allowed

ASSUME MaxRowsAssumption == MaxRows \in Nat
ASSUME StaleAssumption == StaleClicks \in BOOLEAN

VARIABLES
    rows,       \* committed rows of friendships
    nextId,     \* the identity column
    work,       \* the request each worker is processing
    ui          \* ui[<<u, v>>]: what the window of u shows about v

vars == <<rows, nextId, work, ui>>

Pairs == {p \in Users \X Users : p[1] # p[2]}

UiStatus == {"NONE", "PENDING_OUT", "PENDING_IN", "FRIEND"}

Row == [id : Nat, from : Users, to : Users, st : {"PENDING", "ACCEPTED"}]

\* A frame: what the window of "pair[1]" is to show about "pair[2]".
Frame == [pair : Users \X Users, show : UiStatus]

\* What the transaction writes when it commits: one new row, the acceptance
\* of the rows in accept, and the removal of the rows in delete.
Writes == [insert : BOOLEAN, accept : SUBSET Row, delete : SUBSET Row]
NoWrites == [insert |-> FALSE, accept |-> {}, delete |-> {}]

Ops == {"add", "cancel", "accept", "unfriend"}

Request ==
    [pc : {"idle", "find", "find2", "status", "commit", "send"},
     op : Ops, me : Users, other : Users,
     writes : Writes, out : Seq(Frame)]

TypeOK ==
    /\ rows \subseteq Row
    /\ nextId \in Nat
    /\ work \in [Workers -> Request]
    /\ ui \in [Users \X Users -> UiStatus]

-----------------------------------------------------------------------------
Rows(u, v) == {r \in rows : r.from = u /\ r.to = v}
Between(u, v) == Rows(u, v) \union Rows(v, u)

\* Faulty variant: the client is told the name of the status itself.
StatusOfUntranslated(found, me) ==
    IF found = {} THEN "NONE" ELSE (CHOOSE r \in found : TRUE).st

\* getUiStatus(me, other) for the rows the query found, at most one.
StatusOf(found, me) ==
    IF found = {} THEN "NONE"
    ELSE LET r == CHOOSE r \in found : TRUE
         IN  IF r.st = "ACCEPTED" THEN "FRIEND"
             ELSE IF r.from = me THEN "PENDING_OUT" ELSE "PENDING_IN"

\* pushBoth and sendFriendEvent: the actor's frame first, then the target's.
Both(me, other, forMe, forOther) ==
    << [pair |-> <<me, other>>, show |-> forMe],
       [pair |-> <<other, me>>, show |-> forOther] >>

\* The controller announces the outcome it expects of each operation, and
\* so does the client when the reply arrives.
Announced(op) ==
    CASE op = "add"    -> <<"PENDING_OUT", "PENDING_IN">>
      [] op = "accept" -> <<"FRIEND", "FRIEND">>
      [] OTHER         -> <<"NONE", "NONE">>

ControllerFrames(q) ==
    Both(q.me, q.other, Announced(q.op)[1], Announced(q.op)[2])
        \o << [pair |-> <<q.me, q.other>>, show |-> Announced(q.op)[1]] >>

\* The operation the window offers for the status it shows.
Offered(show) ==
    CASE show = "NONE"        -> "add"
      [] show = "PENDING_OUT" -> "cancel"
      [] show = "PENDING_IN"  -> "accept"
      [] show = "FRIEND"      -> "unfriend"

Init ==
    /\ rows = {}
    /\ nextId = 1
    /\ work \in [Workers -> {q \in [pc : {"idle"}, op : {"add"}, me : Users,
                                    other : Users, writes : {NoWrites}, out : {<<>>}] :
                               q.me = q.other}]
    /\ ui = [p \in Users \X Users |-> "NONE"]

-----------------------------------------------------------------------------
\* A request ends, with or without success; the worker is free again.
Free(q) == [pc |-> "idle", op |-> "add", me |-> q.me, other |-> q.me,
            writes |-> NoWrites, out |-> <<>>]

Fail(w) ==
    /\ work' = [work EXCEPT ![w] = Free(@)]
    /\ UNCHANGED <<rows, nextId, ui>>

\* The queries are done: the writes and the frames to push are settled.
Settle(w, writes, forMe, forOther) ==
    /\ work' = [work EXCEPT ![w].pc = "commit", ![w].writes = writes,
                            ![w].out = Both(work[w].me, work[w].other, forMe, forOther)]
    /\ UNCHANGED <<rows, nextId, ui>>

Insert == [NoWrites EXCEPT !.insert = TRUE]
Accept(r) == [NoWrites EXCEPT !.accept = {r}]
Delete(S) == [NoWrites EXCEPT !.delete = S]

\* The user presses the button that the window offers.  A second tab or a
\* conversation list fetched earlier may still offer another one.
Click(w, p, op) ==
    /\ work[w].pc = "idle"
    /\ op = Offered(ui[p]) \/ StaleClicks
    /\ work' = [work EXCEPT ![w] =
                  [pc |-> "find", op |-> op, me |-> p[1], other |-> p[2],
                   writes |-> NoWrites, out |-> <<>>]]
    /\ UNCHANGED <<rows, nextId, ui>>

\* request(): look for a row in either direction, then decide.
FindForAdd(w) ==
    LET q == work[w]
        found == Between(q.me, q.other)
    IN  /\ q.pc = "find" /\ q.op = "add"
        /\ \/ /\ found = {}
              /\ nextId <= MaxRows
              /\ Settle(w, Insert, "PENDING_OUT", "PENDING_IN")
           \/ /\ found = {}     \* the other account has been removed
              /\ Fail(w)
           \/ \E r \in found :
                /\ found = {r}
                /\ \/ /\ r.st = "ACCEPTED"
                      /\ Settle(w, NoWrites, "FRIEND", "FRIEND")
                   \/ /\ r.st = "PENDING" /\ r.from = q.me
                      /\ Settle(w, NoWrites, "PENDING_OUT", "PENDING_IN")
                   \/ /\ r.st = "PENDING" /\ r.from # q.me
                      /\ Settle(w, Accept(r), "FRIEND", "FRIEND")
           \/ /\ Cardinality(found) > 1     \* the query expects one result
              /\ Fail(w)

\* Faulty variant: the answer is sent, the row is kept.
FindForCancelKeeps(w) ==
    /\ work[w].pc = "find" /\ work[w].op = "cancel"
    /\ Settle(w, NoWrites, "NONE", "NONE")

\* cancel(): only the row of one's own request counts.
FindForCancel(w) ==
    LET q == work[w]
        found == Rows(q.me, q.other)
    IN  /\ q.pc = "find" /\ q.op = "cancel"
        /\ \/ /\ found = {}
              /\ Settle(w, NoWrites, "NONE", "NONE")
           \/ \E r \in found :
                /\ found = {r}
                /\ \/ /\ r.st = "PENDING"
                      /\ Settle(w, Delete({r}), "NONE", "NONE")
                   \/ /\ r.st = "ACCEPTED"
                      /\ work' = [work EXCEPT ![w].pc = "status"]
                      /\ UNCHANGED <<rows, nextId, ui>>
           \/ /\ Cardinality(found) > 1
              /\ Fail(w)

\* cancel() of a request that was accepted: getUiStatus looks again, for
\* both users (the two lookups are taken as one).
StatusForCancel(w) ==
    LET q == work[w]
        found == Between(q.me, q.other)
    IN  /\ q.pc = "status"
        /\ IF Cardinality(found) > 1
           THEN Fail(w)
           ELSE Settle(w, NoWrites, StatusOf(found, q.me), StatusOf(found, q.other))

\* accept(): the row of the other user's request.
FindForAccept(w) ==
    LET q == work[w]
        found == Rows(q.other, q.me)
    IN  /\ q.pc = "find" /\ q.op = "accept"
        /\ \/ \E r \in found :
                /\ found = {r}
                /\ Settle(w, IF r.st = "PENDING" THEN Accept(r) ELSE NoWrites,
                          "FRIEND", "FRIEND")
           \/ /\ Cardinality(found) # 1
              /\ Fail(w)

\* unfriend(): one's own row, then the other user's.
FindForUnfriend(w) ==
    LET q == work[w]
        found == Rows(q.me, q.other)
    IN  /\ q.pc = "find" /\ q.op = "unfriend"
        /\ IF Cardinality(found) > 1
           THEN Fail(w)
           ELSE /\ work' = [work EXCEPT ![w].pc = "find2", ![w].writes = Delete(found)]
                /\ UNCHANGED <<rows, nextId, ui>>

FindSecondForUnfriend(w) ==
    LET q == work[w]
        found == Rows(q.other, q.me)
    IN  /\ q.pc = "find2"
        /\ IF Cardinality(found) > 1
           THEN Fail(w)
           ELSE Settle(w, Delete(q.writes.delete \union found), "NONE", "NONE")

\* Faulty variant: a row that is gone is saved anew.
CommitMerges(w) ==
    LET q == work[w]
        taken == {[r EXCEPT !.st = "ACCEPTED"] : r \in q.writes.accept}
        written == {r.id : r \in q.writes.accept \union q.writes.delete}
        new == [id |-> nextId, from |-> q.me, to |-> q.other, st |-> "PENDING"]
    IN  /\ q.pc = "commit"
        /\ rows' = {r \in rows : r.id \notin written} \union taken
                     \union (IF q.writes.insert THEN {new} ELSE {})
        /\ nextId' = IF q.writes.insert THEN nextId + 1 ELSE nextId
        /\ work' = [work EXCEPT ![w].pc = "send", ![w].writes = NoWrites,
                                ![w].out = @ \o ControllerFrames(q)]
        /\ UNCHANGED ui

\* The commit.  A row is addressed by its id; if one that is to be written
\* is gone, Hibernate reports a stale state and the transaction rolls back.
Commit(w) ==
    LET q == work[w]
        touched == {r.id : r \in q.writes.accept \union q.writes.delete}
        gone == {r.id : r \in q.writes.delete}
        taken == {r.id : r \in q.writes.accept}
        new == [id |-> nextId, from |-> q.me, to |-> q.other, st |-> "PENDING"]
    IN  /\ q.pc = "commit"
        /\ \/ /\ touched \subseteq {r.id : r \in rows}
              /\ rows' = {IF r.id \in taken THEN [r EXCEPT !.st = "ACCEPTED"] ELSE r :
                             r \in {s \in rows : s.id \notin gone}}
                           \union (IF q.writes.insert THEN {new} ELSE {})
              /\ nextId' = IF q.writes.insert THEN nextId + 1 ELSE nextId
              /\ work' = [work EXCEPT ![w].pc = "send", ![w].writes = NoWrites,
                                      ![w].out = @ \o ControllerFrames(q)]
              /\ UNCHANGED ui
           \/ /\ ~ touched \subseteq {r.id : r \in rows}
              /\ Fail(w)

\* The next frame (or, at the end, the reply) reaches its window.
Show(w) ==
    LET q == work[w]
    IN  /\ q.pc = "send"
        /\ q.out # <<>>
        /\ ui' = [ui EXCEPT ![Head(q.out).pair] = Head(q.out).show]
        /\ work' = [work EXCEPT ![w] =
                      IF Len(q.out) = 1 THEN Free(q) ELSE [q EXCEPT !.out = Tail(q.out)]]
        /\ UNCHANGED <<rows, nextId>>

ServerStep(w) ==
    \/ FindForAdd(w) \/ FindForCancel(w) \/ StatusForCancel(w)
    \/ FindForAccept(w) \/ FindForUnfriend(w) \/ FindSecondForUnfriend(w)
    \/ Commit(w) \/ Show(w)

Next ==
    \E w \in Workers :
        ServerStep(w) \/ \E p \in Pairs, op \in Ops : Click(w, p, op)

Spec == Init /\ [][Next]_vars

-----------------------------------------------------------------------------
Quiet == \A w \in Workers : work[w].pc = "idle"

\* A row has one life.  It is inserted as PENDING by a request of its
\* requester, only a request of its addressee turns it into ACCEPTED, and
\* once deleted no late write of a racing transaction brings it back.
RowStep ==
    /\ \A q \in rows' :
         \/ \E r \in rows : r.id = q.id
         \/ /\ q.id = nextId /\ q.st = "PENDING"
            /\ \E w \in Workers : work[w].pc = "commit" /\ work[w].me = q.from
    /\ \A r \in rows, q \in rows' :
         q.id = r.id /\ q # r =>
            /\ q = [r EXCEPT !.st = "ACCEPTED"]
            /\ \E w \in Workers :
                 /\ work[w].pc = "commit" /\ work'[w].pc # "commit"
                 /\ work[w].me = r.to

RowLifecycle == [][RowStep]_vars

\* The inductive invariant behind it.  An id names one row and is never given
\* again; a row that a transaction read and is about to accept was addressed
\* to its user, and so is the row that has this id now, if it still exists.
IdsAreOne ==
    /\ \A r, q \in rows : r.id = q.id => r = q
    /\ \A r \in rows : r.id < nextId

AcceptIsPlanned ==
    \A w \in Workers :
        work[w].pc = "commit" =>
            \A r \in work[w].writes.accept :
                /\ r.to = work[w].me
                /\ r.id < nextId
                /\ \A q \in rows : q.id = r.id => q.from = r.from /\ q.to = r.to

IInv == TypeOK /\ IdsAreOne /\ AcceptIsPlanned

\* When nothing is under way, every window shows what getUiStatus would say.
UiAgreesWhenQuiet ==
    Quiet => \A p \in Pairs : ui[p] = StatusOf(Between(p[1], p[2]), p[1])

-----------------------------------------------------------------------------
\* Expected of the code by its comments, and refuted by TLC (see the README).

\* Between two users there is at most one row.  Every query of the service
\* relies on it, none enforces it: it holds only if requests do not overlap.
AtMostOneRow ==
    \A p \in Pairs : Cardinality(Between(p[1], p[2])) <= 1

\* The service says of accept() "UI cả 2 đều FRIEND", both show FRIEND: so
\* when nothing is under way an accepted request shows FRIEND on both sides.
AcceptedShowsFriend ==
    Quiet => \A r \in rows : r.st = "ACCEPTED" =>
                 ui[<<r.from, r.to>>] = "FRIEND" /\ ui[<<r.to, r.from>>] = "FRIEND"
=============================================================================
