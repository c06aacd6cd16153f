-------------------------- MODULE MessageListProofs -------------------------
(* What holds of the message list for any number of conversations, pages,  *)
(* messages and lost connections, and for pages of any size.               *)
EXTENDS MessageList, FiniteSetTheorems, SequenceTheorems, WellFoundedInduction, TLAPS

USE PageAssumption, ConvAssumption, BoundAssumption

-----------------------------------------------------------------------------
\* Sets of elements of sequences.

LEMMA ToSetEmpty == ToSet(<<>>) = {}
  BY DEF ToSet

LEMMA ToSetMember ==
    ASSUME NEW S, NEW s \in Seq(S)
    PROVE  /\ ToSet(s) \subseteq S
           /\ \A x \in ToSet(s) : \E i \in 1..Len(s) : s[i] = x
           /\ \A i \in 1..Len(s) : s[i] \in ToSet(s)
  BY LenProperties, ElementOfSeq DEF ToSet

LEMMA ToSetAppend ==
    ASSUME NEW S, NEW s \in Seq(S), NEW e \in S
    PROVE  ToSet(Append(s, e)) = ToSet(s) \union {e}
<1>1. /\ DOMAIN s = 1..Len(s) /\ Len(s) \in Nat
      /\ DOMAIN Append(s, e) = 1..(Len(s) + 1)
  BY LenProperties, AppendProperties
<1>2. /\ \A i \in 1..Len(s) : Append(s, e)[i] = s[i]
      /\ Append(s, e)[Len(s) + 1] = e
  BY AppendProperties
<1>3. ASSUME NEW x \in ToSet(Append(s, e)) PROVE x \in ToSet(s) \union {e}
  <2>1. PICK i \in 1..(Len(s) + 1) : x = Append(s, e)[i]
    BY <1>1 DEF ToSet
  <2>2. CASE i = Len(s) + 1
    BY <1>2, <2>1, <2>2
  <2>3. CASE i # Len(s) + 1
    <3>1. i \in 1..Len(s)
      BY <1>1, <2>3
    <3>2. QED
      BY <1>1, <1>2, <2>1, <3>1 DEF ToSet
  <2>4. QED
    BY <2>2, <2>3
<1>4. ASSUME NEW x \in ToSet(s) PROVE x \in ToSet(Append(s, e))
  <2>1. PICK i \in 1..Len(s) : x = s[i]
    BY <1>1 DEF ToSet
  <2>2. i \in 1..(Len(s) + 1)
    BY <1>1
  <2>3. QED
    BY <1>1, <1>2, <2>1, <2>2 DEF ToSet
<1>5. e \in ToSet(Append(s, e))
  <2>1. Len(s) + 1 \in 1..(Len(s) + 1)
    BY <1>1
  <2>2. QED
    BY <1>1, <1>2, <2>1 DEF ToSet
<1>6. QED
  BY <1>3, <1>4, <1>5

LEMMA ToSetTail ==
    ASSUME NEW S, NEW s \in Seq(S), s # <<>>
    PROVE  /\ ToSet(Tail(s)) \subseteq ToSet(s) /\ Head(s) \in ToSet(s) /\ Head(s) = s[1]
           /\ ToSet(s) = ToSet(Tail(s)) \union {Head(s)}
<1>1. /\ DOMAIN s = 1..Len(s) /\ Len(s) \in Nat /\ Len(s) > 0
      /\ DOMAIN Tail(s) = 1..(Len(s) - 1)
      /\ \A i \in 1..(Len(s) - 1) : Tail(s)[i] = s[i + 1]
      /\ Head(s) = s[1]
  BY LenProperties, HeadTailProperties, EmptySeq
<1>2. ASSUME NEW x \in ToSet(Tail(s)) PROVE x \in ToSet(s)
  <2>1. PICK i \in 1..(Len(s) - 1) : x = s[i + 1]
    BY <1>1 DEF ToSet
  <2>2. i + 1 \in 1..Len(s)
    BY <1>1
  <2>3. QED
    BY <1>1, <2>1, <2>2 DEF ToSet
<1>3. ASSUME NEW x \in ToSet(s), x # Head(s) PROVE x \in ToSet(Tail(s))
  <2>1. PICK i \in 1..Len(s) : x = s[i]
    BY <1>1 DEF ToSet
  <2>2. i - 1 \in 1..(Len(s) - 1) /\ (i - 1) + 1 = i
    BY <1>1, <1>3, <2>1
  <2>3. QED
    BY <1>1, <2>1, <2>2 DEF ToSet
<1>4. Head(s) \in ToSet(s)
  <2>1. 1 \in 1..Len(s)
    BY <1>1
  <2>2. QED
    BY <1>1, <2>1 DEF ToSet
<1>5. QED
  BY <1>1, <1>2, <1>3, <1>4

LEMMA ToSetConcat ==
    ASSUME NEW S, NEW s \in Seq(S), NEW t \in Seq(S)
    PROVE  ToSet(s \o t) = ToSet(s) \union ToSet(t)
<1>1. /\ DOMAIN s = 1..Len(s) /\ Len(s) \in Nat
      /\ DOMAIN t = 1..Len(t) /\ Len(t) \in Nat
      /\ DOMAIN (s \o t) = 1..(Len(s) + Len(t))
      /\ \A i \in 1..(Len(s) + Len(t)) :
            (s \o t)[i] = IF i <= Len(s) THEN s[i] ELSE t[i - Len(s)]
  BY LenProperties, ConcatProperties
<1>2. ASSUME NEW x \in ToSet(s \o t) PROVE x \in ToSet(s) \union ToSet(t)
  <2>1. PICK i \in 1..(Len(s) + Len(t)) : x = (s \o t)[i]
    BY <1>1 DEF ToSet
  <2>2. CASE i <= Len(s)
    <3>1. i \in 1..Len(s)
      BY <1>1, <2>2
    <3>2. QED
      BY <1>1, <2>1, <2>2, <3>1 DEF ToSet
  <2>3. CASE ~(i <= Len(s))
    <3>1. i - Len(s) \in 1..Len(t)
      BY <1>1, <2>3
    <3>2. QED
      BY <1>1, <2>1, <2>3, <3>1 DEF ToSet
  <2>4. QED
    BY <2>2, <2>3
<1>3. ASSUME NEW x \in ToSet(s) PROVE x \in ToSet(s \o t)
  <2>1. PICK i \in 1..Len(s) : x = s[i]
    BY <1>1 DEF ToSet
  <2>2. i \in 1..(Len(s) + Len(t)) /\ i <= Len(s)
    BY <1>1
  <2>3. QED
    BY <1>1, <2>1, <2>2 DEF ToSet
<1>4. ASSUME NEW x \in ToSet(t) PROVE x \in ToSet(s \o t)
  <2>1. PICK i \in 1..Len(t) : x = t[i]
    BY <1>1 DEF ToSet
  <2>2. i + Len(s) \in 1..(Len(s) + Len(t)) /\ ~(i + Len(s) <= Len(s)) /\ (i + Len(s)) - Len(s) = i
    BY <1>1
  <2>3. (s \o t)[i + Len(s)] = t[i]
    BY <1>1, <2>2
  <2>4. QED
    BY <1>1, <2>1, <2>2, <2>3 DEF ToSet
<1>5. QED
  BY <1>2, <1>3, <1>4

LEMMA Least ==
    ASSUME NEW S, S \subseteq Nat, S # {}
    PROVE  \E i \in S : \A j \in S : i <= j
<1>1. IsWellFoundedOn(OpToRel(<, Nat), Nat)
  BY NatLessThanWellFounded
<1>2. PICK i \in S : \A j \in S : ~(<<j, i>> \in OpToRel(<, Nat))
  BY <1>1, WFMin
<1>3. ASSUME NEW j \in S PROVE i <= j
  <2>1. ~(j < i)
    <3>1. SUFFICES ASSUME j < i PROVE <<j, i>> \in OpToRel(<, Nat)
      BY <1>2
    <3>2. <<j, i>> \in Nat \X Nat /\ <<j, i>>[1] < <<j, i>>[2]
      BY <3>1
    <3>3. QED
      BY <3>2 DEF OpToRel
  <2>2. QED
    BY <2>1
<1>4. QED
  BY <1>3

-----------------------------------------------------------------------------
\* The messages under way and those stored have the room they need.
Budget ==
    /\ Len(toServer) + Len(outbox) <= own
    /\ Len(stored) + Len(toServer) + Len(outbox) + MaxOwn <= MaxStored + own

\* What the subscriber does with a frame: it completes an entry, leaves the
\* list alone or adds an entry.
Completed(list, f, k) == [list EXCEPT ![k] = [@ EXCEPT !.sid = f.sid, !.status = "sent"]]
Added(list, f) ==
    Append(list, [conv |-> f.conv, sid |-> f.sid, cid |-> f.cid, status |-> "sent"])

LEMMA MergeCases ==
    ASSUME NEW list \in Seq(Entry), NEW f \in Frame
    PROVE  \/ \E k \in 1..Len(list) :
                 f.cid # 0 /\ list[k].cid = f.cid /\ Merge(list, f) = Completed(list, f, k)
           \/ /\ f.sid # 0 /\ \E k \in 1..Len(list) : list[k].sid = f.sid
              /\ Merge(list, f) = list
           \/ /\ f.cid = 0 \/ \A k \in 1..Len(list) : list[k].cid # f.cid
              /\ Merge(list, f) = Added(list, f)
<1> DEFINE mine == {i \in DOMAIN list : f.cid # 0 /\ list[i].cid = f.cid}
           same == {i \in DOMAIN list : f.sid # 0 /\ list[i].sid = f.sid}
           k == CHOOSE i \in mine : \A j \in mine : i <= j
<1>1. DOMAIN list = 1..Len(list) /\ Len(list) \in Nat
  BY LenProperties
<1>2. Merge(list, f) = IF mine # {} THEN Completed(list, f, k)
                       ELSE IF same # {} THEN list ELSE Added(list, f)
  BY DEF Merge, Completed, Added
<1>3. CASE mine # {}
  <2>1. mine \subseteq Nat
    BY <1>1
  <2>2. k \in mine
    <3> HIDE DEF mine
    <3>1. QED
      BY <1>3, <2>1, Least
  <2>3. QED
    BY <1>1, <1>2, <1>3, <2>2
<1>4. CASE mine = {} /\ same # {}
  BY <1>1, <1>2, <1>4
<1>5. CASE mine = {} /\ same = {}
  BY <1>1, <1>2, <1>5
<1>6. QED
  BY <1>3, <1>4, <1>5

LEMMA MergeType ==
    ASSUME NEW list \in Seq(Entry), NEW f \in Frame
    PROVE  Merge(list, f) \in Seq(Entry)
<1>1. ASSUME NEW k \in 1..Len(list) PROVE Completed(list, f, k) \in Seq(Entry)
  <2>1. list[k] \in Entry
    BY ElementOfSeq
  <2>2. [list[k] EXCEPT !.sid = f.sid, !.status = "sent"] \in Entry
    BY <2>1 DEF Entry, Frame
  <2>3. QED
    BY <2>2, ExceptSeq, LenProperties DEF Completed
<1>2. Added(list, f) \in Seq(Entry)
  <2>1. [conv |-> f.conv, sid |-> f.sid, cid |-> f.cid, status |-> "sent"] \in Entry
    BY DEF Entry, Frame
  <2>2. QED
    BY <2>1, AppendProperties DEF Added
<1>3. QED
  BY <1>1, <1>2, MergeCases

-----------------------------------------------------------------------------
\* Type correctness.

LEMMA WindowSame == WindowTypes /\ UNCHANGED windowVars => WindowTypes'
  BY DEF WindowTypes, windowVars

LEMMA QuerySame == QueryTypes /\ UNCHANGED queryVars => QueryTypes'
  BY DEF QueryTypes, queryVars

LEMMA NetSame == NetTypes /\ UNCHANGED netVars => NetTypes'
  BY DEF NetTypes, netVars

LEMMA StoreSame == StoreTypes /\ UNCHANGED histVars => StoreTypes'
  BY DEF StoreTypes, histVars

LEMMA BoundSame == BoundTypes /\ UNCHANGED bounds => BoundTypes'
  BY DEF BoundTypes, bounds

LEMMA BudgetSame == Budget /\ UNCHANGED <<own, outbox, toServer, stored>> => Budget'
  BY DEF Budget

LEMMA StoredIds ==
    ASSUME StoreTypes
    PROVE  DOMAIN stored = 1..Len(stored) /\ Len(stored) \in 0..MaxStored
  BY LenProperties DEF StoreTypes

LEMMA PageTyped ==
    ASSUME StoreTypes, NEW c, NEW p
    PROVE  Page(c, p) \in PageType
<1>1. Page(c, p).items \subseteq 1..MaxStored
  BY StoredIds DEF Page, Ids
<1>2. QED
  BY <1>1 DEF Page, PageType

LEMMA FetchTyped ==
    ASSUME QueryTypes, NEW c \in Convs
    PROVE  /\ cache[c] \in Seq(PageType) /\ Len(cache[c]) \in Nat
           /\ fetch[c] \in FetchType
           /\ fetch[c].got \in Seq(PageType) /\ Len(fetch[c].got) \in Nat
           /\ fetch[c].want \in Nat /\ fetch[c].since \in 0..MaxStored
<1>1. cache[c] \in Seq(PageType) /\ fetch[c] \in FetchType
  BY DEF QueryTypes
<1>2. QED
  BY <1>1, LenProperties DEF FetchType

LEMMA NoFetchTyped == NoFetch \in FetchType
<1>1. <<>> \in Seq(PageType)
  BY EmptySeq
<1>2. 0 \in Nat /\ 0 \in 0..MaxStored
  OBVIOUS
<1>3. QED
  BY <1>1, <1>2 DEF NoFetch, FetchType

LEMMA FetchWritten ==
    ASSUME QueryTypes, NEW c \in Convs, NEW r \in FetchType,
           fetch' = [fetch EXCEPT ![c] = r]
    PROVE  /\ fetch' \in [Convs -> FetchType]
           /\ fetch'[c] = r /\ \A k \in Convs \ {c} : fetch'[k] = fetch[k]
  BY DEF QueryTypes

LEMMA InitTyped == Init => TypeOK /\ Budget
<1> SUFFICES ASSUME Init PROVE TypeOK /\ Budget
  OBVIOUS
<1>1. <<>> \in Seq(PageType) /\ <<>> \in Seq(Entry) /\ <<>> \in Seq(Message) /\ <<>> \in Seq(Frame)
  BY EmptySeq
<1>2. Len(<<>>) = 0
  OBVIOUS
<1>3. WindowTypes
  BY <1>1 DEF Init, WindowTypes
<1>4. QueryTypes
  <2>1. [NoFetch EXCEPT !.want = 1] \in FetchType
    BY NoFetchTyped DEF FetchType
  <2>2. QED
    BY <1>1, <2>1, NoFetchTyped DEF Init, QueryTypes
<1>5. NetTypes
  BY <1>1 DEF Init, NetTypes
<1>6. StoreTypes
  <2>1. stored = <<>> /\ lost = {} /\ missed = {}
    BY DEF Init
  <2>2. Len(stored) <= MaxStored
    BY <1>2, <2>1
  <2>3. QED
    BY <1>1, <2>1, <2>2 DEF StoreTypes
<1>7. BoundTypes
  BY DEF Init, BoundTypes
<1>8. Budget
  BY <1>2 DEF Init, Budget
<1>9. QED
  BY <1>3, <1>4, <1>5, <1>6, <1>7, <1>8 DEF TypeOK

LEMMA ServeTyped ==
    ASSUME TypeOK, NEW c \in Convs, Serve(c)
    PROVE  /\ QueryTypes'
           /\ fetch'[c].got = Append(fetch[c].got, Page(c, Len(fetch[c].got)))
           /\ fetch'[c].since = IF fetch[c].got = <<>> THEN Len(stored) ELSE fetch[c].since
           /\ \A k \in Convs \ {c} : fetch'[k] = fetch[k]
<1> DEFINE q == Append(fetch[c].got, Page(c, Len(fetch[c].got)))
           n == IF fetch[c].got = <<>> THEN Len(stored) ELSE fetch[c].since
           r == [fetch[c] EXCEPT !.got = q, !.since = n]
<1>1. q \in Seq(PageType)
  BY FetchTyped, PageTyped, AppendProperties DEF TypeOK
<1>2. fetch[c] \in FetchType
  BY FetchTyped DEF TypeOK
<1>n. n \in 0..MaxStored
  BY FetchTyped, StoredIds DEF TypeOK
<1>3. r \in FetchType /\ r.got = q /\ r.since = n
  <2> HIDE DEF q, n
  <2>1. QED
    BY <1>1, <1>2, <1>n DEF FetchType
<1>4. fetch' = [fetch EXCEPT ![c] = r] /\ cache' = cache
  BY DEF Serve, QueryTypes, TypeOK
<1>5. /\ fetch' \in [Convs -> FetchType]
      /\ fetch'[c] = r /\ \A k \in Convs \ {c} : fetch'[k] = fetch[k]
  <2> HIDE DEF r
  <2>1. QED
    BY <1>3, <1>4, FetchWritten DEF TypeOK
<1>6. QED
  BY <1>3, <1>4, <1>5 DEF QueryTypes, TypeOK

LEMMA CollectTyped ==
    ASSUME TypeOK, NEW c \in Convs, Arrive(c)
    PROVE  /\ QueryTypes'
           /\ cache'[c] = fetch[c].got /\ fetch'[c] = NoFetch
           /\ \A k \in Convs \ {c} : cache'[k] = cache[k] /\ fetch'[k] = fetch[k]
<1>1. /\ fetch' \in [Convs -> FetchType]
      /\ fetch'[c] = NoFetch /\ \A k \in Convs \ {c} : fetch'[k] = fetch[k]
  BY NoFetchTyped, FetchWritten DEF TypeOK, Arrive
<1>2. cache' \in [Convs -> Seq(PageType)] /\ cache'[c] = fetch[c].got
      /\ \A k \in Convs \ {c} : cache'[k] = cache[k]
  BY FetchTyped DEF TypeOK, Arrive, QueryTypes
<1>3. QED
  BY <1>1, <1>2 DEF QueryTypes

LEMMA FailTyped ==
    ASSUME TypeOK, NEW c \in Convs, FetchFails(c)
    PROVE  /\ QueryTypes'
           /\ fetch'[c] = NoFetch /\ \A k \in Convs \ {c} : fetch'[k] = fetch[k]
<1>1. /\ fetch' \in [Convs -> FetchType]
      /\ fetch'[c] = NoFetch /\ \A k \in Convs \ {c} : fetch'[k] = fetch[k]
  BY NoFetchTyped, FetchWritten DEF TypeOK, FetchFails
<1>2. QED
  BY <1>1 DEF QueryTypes, TypeOK, FetchFails

LEMMA NextPageTyped ==
    ASSUME TypeOK, FetchNextPage
    PROVE  /\ QueryTypes' /\ active \in Convs
           /\ fetch'[active].got = cache[active] /\ fetch'[active].since = 0
           /\ \A k \in Convs \ {active} : fetch'[k] = fetch[k]
<1> DEFINE r == [got |-> cache[active], want |-> Len(cache[active]) + 1, since |-> 0]
<1>1. active \in Convs
  BY DEF TypeOK, WindowTypes
<1>2. cache[active] \in Seq(PageType) /\ Len(cache[active]) \in Nat
  BY <1>1, FetchTyped DEF TypeOK
<1>3. r \in FetchType /\ r.got = cache[active] /\ r.since = 0
  BY <1>2 DEF FetchType
<1>4. fetch' = [fetch EXCEPT ![active] = r] /\ cache' = cache
  BY DEF FetchNextPage
<1>5. /\ fetch' \in [Convs -> FetchType]
      /\ fetch'[active] = r /\ \A k \in Convs \ {active} : fetch'[k] = fetch[k]
  <2> HIDE DEF r
  <2>1. QED
    BY <1>1, <1>3, <1>4, FetchWritten DEF TypeOK
<1>6. QED
  BY <1>1, <1>3, <1>4, <1>5 DEF QueryTypes, TypeOK

LEMMA ObserveTyped ==
    ASSUME TypeOK, NEW c \in Convs, Observe(c)
    PROVE  /\ fetch' \in [Convs -> FetchType]
           /\ \A k \in Convs \ {c} : fetch'[k] = fetch[k]
           /\ fetch'[c] = fetch[c] \/ (fetch'[c].got = <<>> /\ fetch'[c].since = 0)
<1> DEFINE r == [NoFetch EXCEPT !.want = IF cache[c] = <<>> THEN 1 ELSE Len(cache[c])]
<1>1. r \in FetchType /\ r.got = <<>> /\ r.since = 0
  <2>1. (IF cache[c] = <<>> THEN 1 ELSE Len(cache[c])) \in Nat
    BY FetchTyped DEF TypeOK
  <2>2. NoFetch \in FetchType /\ NoFetch.got = <<>> /\ NoFetch.since = 0
    BY NoFetchTyped DEF NoFetch
  <2>3. QED
    BY <2>1, <2>2 DEF FetchType
<1>2. fetch' = fetch \/ fetch' = [fetch EXCEPT ![c] = r]
  BY DEF Observe
<1> HIDE DEF r
<1>3. CASE fetch' = fetch
  BY <1>3 DEF TypeOK, QueryTypes
<1>4. CASE fetch' = [fetch EXCEPT ![c] = r]
  BY <1>1, <1>4, FetchWritten DEF TypeOK
<1>5. QED
  BY <1>2, <1>3, <1>4

\* sendMessage takes the new message into one of the two queues.
LEMMA SendTyped ==
    ASSUME TypeOK, Budget, NEW c \in Convs, own < MaxOwn, ShowAndSend(c)
    PROVE  /\ own' = own + 1 /\ own' \in 1..MaxOwn
           /\ live' = Append(live, Own(c, own')) /\ Own(c, own') \in Entry
           /\ live' \in Seq(Entry)
           /\ [conv |-> c, cid |-> own'] \in Message
           /\ outbox' \in Seq(Message) /\ toServer' \in Seq(Message)
           /\ Len(toServer') + Len(outbox') = Len(toServer) + Len(outbox) + 1
           /\ \/ toServer' = Append(toServer, [conv |-> c, cid |-> own']) /\ outbox' = outbox
              \/ outbox' = Append(outbox, [conv |-> c, cid |-> own']) /\ toServer' = toServer
<1>1. own' = own + 1 /\ own' \in 1..MaxOwn
  BY DEF TypeOK, WindowTypes, ShowAndSend
<1>2. live' = Append(live, Own(c, own')) /\ Own(c, own') \in Entry
  <2>1. own' \in 0..(MaxOwn + MaxStored) /\ 0 \in 0..MaxStored
    BY <1>1
  <2>2. QED
    BY <2>1 DEF ShowAndSend, Own, Entry
<1>3. live' \in Seq(Entry)
  BY <1>2, AppendProperties DEF TypeOK, WindowTypes
<1> DEFINE m == [conv |-> c, cid |-> own']
<1>4. m \in Message
  <2>1. own' \in 1..(MaxOwn + MaxStored)
    BY <1>1
  <2>2. QED
    BY <2>1 DEF Message
<1>5. \/ toServer' = Append(toServer, m) /\ outbox' = outbox
      \/ outbox' = Append(outbox, m) /\ toServer' = toServer
  BY DEF ShowAndSend, Transmit
<1>6. /\ outbox \in Seq(Message) /\ Len(outbox) \in Nat
      /\ toServer \in Seq(Message) /\ Len(toServer) \in Nat
  BY LenProperties DEF TypeOK, NetTypes
<1>7. /\ Append(toServer, m) \in Seq(Message) /\ Len(Append(toServer, m)) = Len(toServer) + 1
      /\ Append(outbox, m) \in Seq(Message) /\ Len(Append(outbox, m)) = Len(outbox) + 1
  <2> HIDE DEF m
  <2>1. QED
    BY <1>4, <1>6, AppendProperties
<1>8. /\ outbox' \in Seq(Message) /\ toServer' \in Seq(Message)
      /\ Len(toServer') + Len(outbox') = Len(toServer) + Len(outbox) + 1
  <2> HIDE DEF m
  <2>1. CASE toServer' = Append(toServer, m) /\ outbox' = outbox
    BY <1>6, <1>7, <2>1
  <2>2. CASE outbox' = Append(outbox, m) /\ toServer' = toServer
    BY <1>6, <1>7, <2>2
  <2>3. QED
    BY <1>5, <2>1, <2>2
<1>9. QED
  BY <1>1, <1>2, <1>3, <1>4, <1>5, <1>8

LEMMA SendKept ==
    ASSUME TypeOK, Budget, NEW c \in Convs, own < MaxOwn, ShowAndSend(c),
           UNCHANGED <<active, connected, toClient, stored>>,
           upload' \in {upload, NoUpload}
    PROVE  WindowTypes' /\ NetTypes' /\ Budget'
<1>1. own' \in 0..MaxOwn
  <2>1. own' = own + 1 /\ own \in 0..MaxOwn
    BY SendTyped DEF TypeOK, WindowTypes
  <2>2. QED
    BY <2>1
<1>2. WindowTypes'
  BY <1>1, SendTyped DEF TypeOK, WindowTypes
<1>3. NetTypes'
  BY SendTyped DEF TypeOK, NetTypes
<1>4. Budget'
  <2>1. /\ Len(outbox) \in Nat /\ Len(toServer) \in Nat /\ Len(stored) \in Nat /\ own \in Nat
    BY LenProperties DEF TypeOK, NetTypes, StoreTypes, WindowTypes
  <2>2. own' = own + 1 /\ Len(toServer') + Len(outbox') = Len(toServer) + Len(outbox) + 1
    BY SendTyped
  <2>3. Len(toServer') + Len(outbox') <= own'
    BY <2>1, <2>2 DEF Budget
  <2>4. /\ Len(toServer') \in Nat /\ Len(outbox') \in Nat
    BY SendTyped, LenProperties
  <2>5. Len(stored) + (Len(toServer') + Len(outbox')) + MaxOwn <= MaxStored + own'
    BY <2>1, <2>2 DEF Budget
  <2>6. QED
    BY <2>1, <2>3, <2>4, <2>5 DEF Budget
<1>5. QED
  BY <1>2, <1>3, <1>4

\* The number of a single frame.
LEMMA SidsOne == \A f : Sids(<<f>>) = {f.sid} \ {0}
  BY DEF Sids

LEMMA SidsMember ==
    ASSUME NEW S, NEW s \in Seq(S), NEW i
    PROVE  i \in Sids(s) <=> i # 0 /\ \E j \in 1..Len(s) : s[j].sid = i
  BY LenProperties DEF Sids

LEMMA NoiseTyped == BoundTypes /\ Noise /\ switches' = switches => BoundTypes'
  BY DEF BoundTypes, Noise

LEMMA StoreTyped ==
    ASSUME TypeOK, NEW c \in Convs, NEW n \in 1..(MaxOwn + MaxStored),
           Len(stored) < MaxStored, Store(c, n), switches' = switches
    PROVE  /\ stored' \in Seq(Message) /\ Len(stored) \in Nat /\ Len(stored') = Len(stored) + 1
           /\ stored' = Append(stored, [conv |-> c, cid |-> n])
           /\ [conv |-> c, cid |-> n] \in Message
           /\ [conv |-> c, sid |-> Len(stored'), cid |-> n] \in Frame
           /\ \/ /\ connected /\ missed' = missed
                 /\ toClient' = Append(toClient, [conv |-> c, sid |-> Len(stored'), cid |-> n])
              \/ toClient' = toClient /\ missed' = missed \union {Len(stored')}
           /\ toClient' \in Seq(Frame) /\ StoreTypes' /\ BoundTypes'
<1>1. [conv |-> c, cid |-> n] \in Message
  BY DEF Message
<1>2. stored' = Append(stored, [conv |-> c, cid |-> n]) /\ Len(stored) \in Nat
  BY StoredIds DEF TypeOK, Store
<1>3. stored' \in Seq(Message) /\ Len(stored') = Len(stored) + 1
  BY <1>1, <1>2, AppendProperties DEF TypeOK, StoreTypes
<1> DEFINE f == [conv |-> c, sid |-> Len(stored) + 1, cid |-> n]
<1>4. f \in Frame /\ f.sid = Len(stored') /\ f = [conv |-> c, sid |-> Len(stored'), cid |-> n]
  <2>1. Len(stored') \in 0..MaxStored /\ n \in 0..(MaxOwn + MaxStored)
    BY <1>2, <1>3
  <2>2. QED
    BY <1>3, <2>1 DEF Frame
<1>5. /\ \/ /\ connected /\ toClient' = Append(toClient, f)
            /\ lost' = lost /\ missed' = missed
         \/ /\ toClient' = toClient
            /\ missed' = missed \union Sids(<<f>>)
            /\ lost' = lost \union (Cids(<<f>>) \intersect 1..MaxOwn)
      /\ noise' = noise \/ Noise
  BY DEF Store, Broadcast, Gone
<1> HIDE DEF f
<1>6. toClient' \in Seq(Frame)
  <2>1. toClient \in Seq(Frame)
    BY DEF TypeOK, NetTypes
  <2>2. Append(toClient, f) \in Seq(Frame)
    BY <1>4, <2>1, AppendProperties
  <2>3. QED
    BY <1>5, <2>1, <2>2
<1>7. Sids(<<f>>) = {Len(stored')}
  BY <1>2, <1>3, <1>4, SidsOne
<1>8. StoreTypes'
  <2>1. lost' \subseteq 1..MaxOwn
    BY <1>5 DEF TypeOK, StoreTypes
  <2>2. Len(stored') \in 1..MaxStored
    BY <1>2, <1>3
  <2>3. missed' \subseteq 1..MaxStored
    BY <1>5, <1>7, <2>2 DEF TypeOK, StoreTypes
  <2>4. QED
    BY <1>3, <2>1, <2>2, <2>3 DEF StoreTypes
<1>9. BoundTypes'
  BY <1>5 DEF TypeOK, BoundTypes, Noise
<1>10. QED
  BY <1>1, <1>2, <1>3, <1>4, <1>5, <1>6, <1>7, <1>8, <1>9

\* Room for what the server stores next.
LEMMA Room ==
    ASSUME TypeOK, Budget, toServer # <<>>
    PROVE  /\ Len(stored) < MaxStored /\ Head(toServer) \in Message
           /\ Head(toServer).conv \in Convs
           /\ Head(toServer).cid \in 1..(MaxOwn + MaxStored)
           /\ Tail(toServer) \in Seq(Message) /\ Len(Tail(toServer)) = Len(toServer) - 1
<1>1. /\ Len(outbox) \in Nat /\ Len(toServer) \in Nat /\ Len(stored) \in Nat
      /\ own \in 0..MaxOwn /\ Len(toServer) > 0
  BY LenProperties, EmptySeq DEF TypeOK, NetTypes, StoreTypes, WindowTypes
<1>2. Len(stored) < MaxStored
  BY <1>1 DEF Budget
<1>3. Head(toServer) \in Message
      /\ Tail(toServer) \in Seq(Message) /\ Len(Tail(toServer)) = Len(toServer) - 1
  BY HeadTailProperties DEF TypeOK, NetTypes
<1>4. QED
  BY <1>2, <1>3 DEF Message

LEMMA StepTyped == TypeOK /\ Budget /\ [Next]_vars => TypeOK' /\ Budget'
<1> SUFFICES ASSUME TypeOK, Budget, [Next]_vars PROVE TypeOK' /\ Budget'
  OBVIOUS
<1> USE DEF TypeOK
<1>0. active \in Convs
  BY DEF WindowTypes
<1>1. CASE SendText
  <2>1. WindowTypes' /\ NetTypes' /\ Budget'
    BY <1>0, <1>1, SendKept DEF SendText, CanSubmit, histVars
  <2>2. QED
    BY <1>1, <2>1, QuerySame, StoreSame, BoundSame DEF SendText, histVars
<1>2. CASE PickFile
  <2>1. WindowTypes'
    BY <1>2 DEF PickFile, WindowTypes, NetTypes
  <2>2. QED
    BY <1>2, <2>1, QuerySame, NetSame, StoreSame, BoundSame, BudgetSame
       DEF PickFile, netVars, histVars
<1>3. CASE FileUploaded
  <2>1. upload.conv \in Convs
    BY <1>3 DEF FileUploaded, WindowTypes
  <2>2. WindowTypes' /\ NetTypes' /\ Budget'
    BY <1>3, <2>1, SendKept DEF FileUploaded, histVars
  <2>3. QED
    BY <1>3, <2>2, QuerySame, StoreSame, BoundSame DEF FileUploaded
<1>4. CASE FileDropped
  <2>1. WindowTypes'
    BY <1>4 DEF FileDropped, WindowTypes
  <2>2. QED
    BY <1>4, <2>1, QuerySame, NetSame, StoreSame, BoundSame, BudgetSame
       DEF FileDropped, netVars, histVars
<1>5. CASE FetchNextPage
  BY <1>5, NextPageTyped, WindowSame, NetSame, StoreSame, BoundSame, BudgetSame
     DEF FetchNextPage, netVars, windowVars, histVars
<1>6. CASE ServerStores
  <2> DEFINE m == Head(toServer)
  <2>1. /\ Len(stored) < MaxStored /\ m.conv \in Convs /\ m.cid \in 1..(MaxOwn + MaxStored)
        /\ Store(m.conv, m.cid) /\ toServer' = Tail(toServer) /\ switches' = switches
        /\ toServer' \in Seq(Message) /\ Len(toServer') = Len(toServer) - 1
    BY <1>6, Room DEF ServerStores
  <2>2. /\ stored' \in Seq(Message) /\ Len(stored) \in Nat /\ Len(stored') = Len(stored) + 1
        /\ toClient' \in Seq(Frame) /\ StoreTypes' /\ BoundTypes'
    <3> HIDE DEF m
    <3>1. QED
      BY <2>1, StoreTyped
  <2>3. NetTypes'
    BY <1>6, <2>1, <2>2 DEF ServerStores, NetTypes
  <2>4. Budget'
    <3>1. /\ Len(outbox) \in Nat /\ Len(toServer) \in Nat /\ own \in Nat
          /\ outbox' = outbox /\ own' = own
      BY <1>6, LenProperties DEF NetTypes, WindowTypes, ServerStores, windowVars
    <3>2. QED
      BY SMTT(40), <2>1, <2>2, <3>1 DEF Budget
  <2>5. QED
    BY <1>6, <2>2, <2>3, <2>4, WindowSame, QuerySame DEF ServerStores
<1>r. CASE ServerRefuses
  <2>1. toServer' = Tail(toServer) /\ toServer' \in Seq(Message)
        /\ Len(toServer') = Len(toServer) - 1
    BY <1>r, Room DEF ServerRefuses
  <2>2. NetTypes' /\ StoreTypes' /\ BoundTypes'
    <3>1. NetTypes'
      BY <1>r, <2>1 DEF ServerRefuses, NetTypes
    <3>2. StoreTypes'
      BY <1>r DEF ServerRefuses, StoreTypes
    <3>3. BoundTypes'
      BY <1>r, NoiseTyped DEF ServerRefuses
    <3>4. QED
      BY <3>1, <3>2, <3>3
  <2>3. Budget'
    <3>1. /\ Len(outbox) \in Nat /\ Len(toServer) \in Nat /\ Len(stored) \in Nat /\ own \in Nat
          /\ outbox' = outbox /\ own' = own /\ stored' = stored
      BY <1>r, LenProperties DEF NetTypes, StoreTypes, WindowTypes, ServerRefuses, windowVars
    <3>2. QED
      BY <2>1, <3>1 DEF Budget
  <2>4. QED
    BY <1>r, <2>2, <2>3, WindowSame, QuerySame DEF ServerRefuses
<1>7. CASE Receive
  <2>1. toClient \in Seq(Frame) /\ toClient # <<>> /\ live \in Seq(Entry)
    BY <1>7 DEF Receive, NetTypes, WindowTypes
  <2>2. Head(toClient) \in Frame /\ Tail(toClient) \in Seq(Frame)
    BY <2>1, HeadTailProperties
  <2>3. live' \in Seq(Entry)
    BY <1>7, <2>1, <2>2, MergeType DEF Receive
  <2>a. missed' \subseteq 1..MaxStored
    <3>1. Head(toClient).sid \in 0..MaxStored
      BY <2>2 DEF Frame
    <3>2. missed' \subseteq missed \union ({Head(toClient).sid} \ {0})
      BY <1>7, SidsOne DEF Receive
    <3>3. QED
      BY <3>1, <3>2 DEF StoreTypes
  <2>b. StoreTypes'
    BY <1>7, <2>a DEF Receive, StoreTypes
  <2>4. WindowTypes' /\ NetTypes'
    BY <1>7, <2>2, <2>3 DEF Receive, WindowTypes, NetTypes
  <2>5. QED
    BY <1>7, <2>b, <2>4, QuerySame, BoundSame, BudgetSame DEF Receive
<1>8. CASE Drop
  <2>1. toServer' \in Seq(Message) /\ (toServer' = toServer \/ toServer' = <<>>)
    BY <1>8, EmptySeq DEF Drop, NetTypes
  <2>2. NetTypes'
    <3>1. <<>> \in Seq(Frame)
      BY EmptySeq
    <3>2. QED
      BY <1>8, <2>1, <3>1 DEF Drop, NetTypes
  <2>4. StoreTypes'
    <3>1. stored' = stored
      BY <1>8 DEF Drop
    <3>2. lost' \subseteq 1..MaxOwn
      BY <1>8 DEF Drop, StoreTypes
    <3>3. Sids(toClient) \subseteq 1..MaxStored
      <4>1. \A j \in 1..Len(toClient) : toClient[j] \in Frame
        BY ElementOfSeq DEF NetTypes
      <4>2. \A j \in 1..Len(toClient) : toClient[j].sid \in 0..MaxStored
        BY <4>1 DEF Frame
      <4>3. QED
        BY SMTT(40), <4>2, SidsMember DEF NetTypes
    <3>4. missed' \subseteq 1..MaxStored
      BY <1>8, <3>3 DEF Drop, StoreTypes
    <3>5. QED
      BY <3>1, <3>2, <3>4 DEF StoreTypes
  <2>5. BoundTypes'
    BY <1>8, NoiseTyped DEF Drop
  <2>6. Budget'
    <3>1. /\ Len(outbox) \in Nat /\ Len(toServer) \in Nat /\ Len(stored) \in Nat /\ own \in Nat
          /\ Len(toServer') \in 0..Len(toServer)
          /\ outbox' = outbox /\ own' = own /\ stored' = stored
      BY <1>8, <2>1, LenProperties, EmptySeq
         DEF NetTypes, StoreTypes, WindowTypes, Drop, windowVars
    <3>2. QED
      BY <3>1 DEF Budget
  <2>7. QED
    BY <1>8, <2>2, <2>4, <2>5, <2>6, WindowSame, QuerySame DEF Drop
<1>9. CASE Reconnect
  <2>1. toServer \o outbox \in Seq(Message) /\ Len(toServer \o outbox) = Len(toServer) + Len(outbox)
    BY ConcatProperties DEF NetTypes
  <2>2. <<>> \in Seq(Message) /\ Len(<<>>) = 0
    BY EmptySeq
  <2>3. NetTypes'
    BY <1>9, <2>1, <2>2 DEF Reconnect, NetTypes
  <2>4. Budget'
    <3>1. /\ Len(outbox) \in Nat /\ Len(toServer) \in Nat /\ Len(stored) \in Nat /\ own \in Nat
          /\ own' = own /\ stored' = stored
      BY <1>9, LenProperties DEF NetTypes, StoreTypes, WindowTypes, Reconnect, windowVars, histVars
    <3>2. Len(toServer') = Len(toServer) + Len(outbox) /\ Len(outbox') = 0
      BY <1>9, <2>1, <2>2 DEF Reconnect
    <3>3. QED
      BY <3>1, <3>2 DEF Budget
  <2>5. QED
    BY <1>9, <2>3, <2>4, WindowSame, QuerySame, StoreSame, BoundSame DEF Reconnect
<1>10. CASE \E c \in Convs : Select(c)
  <2>1. PICK c \in Convs : Select(c)
    BY <1>10
  <2>2. QueryTypes'
    BY <2>1, ObserveTyped DEF Select, QueryTypes
  <2>3. WindowTypes'
    BY <2>1, EmptySeq DEF Select, WindowTypes
  <2>4. StoreTypes' /\ BoundTypes'
    <3>1. StoreTypes'
      <4>1. \A j \in 1..Len(live) : live[j] \in Entry
        BY ElementOfSeq DEF WindowTypes
      <4>2. \A j \in 1..Len(live) : live[j].sid \in 0..MaxStored
        BY <4>1 DEF Entry
      <4>3. Sids(live) \subseteq 1..MaxStored
        BY <4>2, SidsMember DEF WindowTypes
      <4>4. missed' \subseteq 1..MaxStored
        BY <2>1, <4>3 DEF Select, StoreTypes
      <4>5. QED
        BY <2>1, <4>4 DEF Select, StoreTypes
    <3>2. BoundTypes'
      BY <2>1 DEF Select, BoundTypes
    <3>3. QED
      BY <3>1, <3>2
  <2>5. NetTypes' /\ Budget'
    BY <2>1, NetSame, BudgetSame DEF Select, netVars
  <2>6. QED
    BY <2>2, <2>3, <2>4, <2>5
<1>11. CASE \E c \in Convs : Serve(c)
  <2>1. PICK c \in Convs : Serve(c)
    BY <1>11
  <2>2. QueryTypes'
    BY <2>1, ServeTyped
  <2>3. QED
    BY <2>1, <2>2, WindowSame, NetSame, StoreSame, BoundSame, BudgetSame
       DEF Serve, netVars, windowVars, histVars
<1>12. CASE \E c \in Convs : Arrive(c)
  <2>1. PICK c \in Convs : Arrive(c)
    BY <1>12
  <2>2. QueryTypes'
    BY <2>1, CollectTyped
  <2>3. StoreTypes'
    BY <2>1 DEF StoreTypes, Arrive
  <2>4. QED
    BY <2>1, <2>2, <2>3, WindowSame, NetSame, BoundSame, BudgetSame
       DEF Arrive, netVars, windowVars
<1>13. CASE \E c \in Convs : FetchFails(c)
  <2>1. PICK c \in Convs : FetchFails(c)
    BY <1>13
  <2>2. QueryTypes'
    BY <2>1, FailTyped
  <2>3. QED
    BY <2>1, <2>2, WindowSame, NetSame, StoreSame, BoundSame, BudgetSame
       DEF FetchFails, netVars, windowVars, histVars
<1>14. CASE \E c \in Busy : PeerSends(c)
  <2>1. PICK c \in Busy : PeerSends(c)
    BY <1>14
  <2>2. /\ Len(stored) \in Nat /\ Len(stored) + MaxOwn < MaxStored
        /\ c \in Convs /\ Store(c, MaxOwn + Len(stored) + 1) /\ switches' = switches
    BY <2>1, StoredIds DEF PeerSends
  <2>3. Len(stored) < MaxStored /\ MaxOwn + Len(stored) + 1 \in 1..(MaxOwn + MaxStored)
    BY <2>2
  <2>4. /\ stored' \in Seq(Message) /\ Len(stored') = Len(stored) + 1
        /\ toClient' \in Seq(Frame) /\ StoreTypes' /\ BoundTypes'
    BY <2>2, <2>3, StoreTyped
  <2>5. NetTypes'
    BY <2>1, <2>4 DEF PeerSends, NetTypes
  <2>6. Budget'
    <3>1. /\ Len(outbox) \in Nat /\ Len(toServer) \in Nat /\ own \in 0..MaxOwn
          /\ outbox' = outbox /\ own' = own /\ toServer' = toServer
      BY <2>1, LenProperties DEF NetTypes, WindowTypes, PeerSends, windowVars
    <3>2. QED
      BY <2>2, <2>4, <3>1 DEF Budget
  <2>7. QED
    BY <2>1, <2>4, <2>5, <2>6, WindowSame, QuerySame DEF PeerSends
<1>15. CASE \E c \in Busy : PeerSignals(c)
  <2>1. PICK c \in Busy : PeerSignals(c)
    BY <1>15
  <2>2. [conv |-> c, sid |-> 0, cid |-> 0] \in Frame
    <3>1. c \in Convs /\ 0 \in 0..MaxStored /\ 0 \in 0..(MaxOwn + MaxStored)
      OBVIOUS
    <3>2. QED
      BY <3>1 DEF Frame
  <2>3. toClient' \in Seq(Frame)
    BY <2>1, <2>2, AppendProperties DEF PeerSignals, Broadcast, NetTypes
  <2>4. NetTypes' /\ BoundTypes'
    BY <2>1, <2>3, NoiseTyped DEF PeerSignals, NetTypes
  <2>5. QED
    BY <2>1, <2>4, WindowSame, QuerySame, StoreSame, BudgetSame
       DEF PeerSignals, windowVars, histVars
<1>16. CASE UNCHANGED vars
  BY <1>16, WindowSame, QuerySame, NetSame, StoreSame, BoundSame, BudgetSame
     DEF vars, windowVars, netVars, histVars
<1>17. QED
  BY <1>r, <1>1, <1>2, <1>3, <1>4, <1>5, <1>6, <1>7, <1>8, <1>9, <1>10, <1>11, <1>12, <1>13,
     <1>14, <1>15, <1>16 DEF Next, HandleMessage

\* Every variable of the window keeps its type: no queue, list or page ever
\* holds more than the bounds of its own messages allow.
THEOREM TypeCorrect == Spec => []TypeOK
<1>1. Spec => [](TypeOK /\ Budget)
  BY InitTyped, StepTyped, PTL DEF Spec
<1>2. QED
  BY <1>1, PTL

-----------------------------------------------------------------------------
\* What the numbers of messages, frames and entries refer to.

Distinct(s) == \A i, j \in 1..Len(s) : s[i].cid = s[j].cid => i = j

Pending == ToSet(outbox) \union ToSet(toServer)

\* No message is under way or stored twice.
Unique ==
    /\ Distinct(stored) /\ Distinct(outbox) /\ Distinct(toServer)
    /\ \A m \in ToSet(outbox), n \in ToSet(toServer) : m.cid # n.cid
    /\ \A m \in Pending, n \in ToSet(stored) : m.cid # n.cid

\* Own messages are numbered as they were sent, those of peers as stored.
Numbered ==
    /\ \A m \in Pending : m.cid <= own
    /\ \A i \in 1..Len(stored) : stored[i].cid <= own \/ stored[i].cid = MaxOwn + i

FrameTrue(f) ==
    /\ f.cid = 0 => f.sid = 0
    /\ f.cid # 0 => /\ f.sid \in 1..Len(stored)
                    /\ stored[f.sid] = [conv |-> f.conv, cid |-> f.cid]

EntryTrue(e) ==
    /\ e.cid = 0 => e.sid = 0 /\ e.conv = active
    /\ e.cid # 0 /\ e.sid = 0 => e.status = "sending" /\ e.cid <= own
    /\ e.sid # 0 => /\ e.sid \in 1..Len(stored) /\ e.conv = active
                    /\ stored[e.sid] = [conv |-> e.conv, cid |-> e.cid]
    /\ \A m \in Pending \union ToSet(stored) : m.cid = e.cid => m.conv = e.conv

FramesTrue == \A i \in 1..Len(toClient) : FrameTrue(toClient[i])
LiveTrue   == \A i \in 1..Len(live) : EntryTrue(live[i])

Ident == Unique /\ Numbered /\ FramesTrue /\ LiveTrue

LEMMA DistinctAppend ==
    ASSUME NEW s \in Seq(Message), NEW m \in Message, Distinct(s),
           \A x \in ToSet(s) : x.cid # m.cid
    PROVE  Distinct(Append(s, m))
<1> DEFINE t == Append(s, m)
<1>1. /\ Len(s) \in Nat /\ Len(t) = Len(s) + 1
      /\ \A i \in 1..Len(s) : t[i] = s[i]
      /\ t[Len(s) + 1] = m
  BY LenProperties, AppendProperties
<1>2. \A i \in 1..Len(s) : s[i].cid # m.cid
  BY ToSetMember
<1> HIDE DEF t
<1>3. SUFFICES ASSUME NEW i \in 1..Len(t), NEW j \in 1..Len(t), t[i].cid = t[j].cid
               PROVE  i = j
  BY DEF Distinct, t
<1>4. (i \in 1..Len(s) \/ i = Len(s) + 1) /\ (j \in 1..Len(s) \/ j = Len(s) + 1)
  BY <1>1
<1>5. QED
  BY <1>1, <1>2, <1>3, <1>4 DEF Distinct

LEMMA DistinctTail ==
    ASSUME NEW s \in Seq(Message), s # <<>>, Distinct(s)
    PROVE  Distinct(Tail(s)) /\ \A x \in ToSet(Tail(s)) : x.cid # Head(s).cid
<1>1. /\ Len(s) \in Nat /\ Len(s) > 0 /\ Len(Tail(s)) = Len(s) - 1
      /\ Tail(s) \in Seq(Message)
      /\ \A i \in 1..Len(Tail(s)) : Tail(s)[i] = s[i + 1]
      /\ Head(s) = s[1]
  BY LenProperties, HeadTailProperties, EmptySeq
<1>2. \A i \in 1..Len(Tail(s)) : i + 1 \in 1..Len(s) /\ 1 \in 1..Len(s) /\ i + 1 # 1
  BY <1>1
<1>3. Distinct(Tail(s))
  <2>1. SUFFICES ASSUME NEW i \in 1..Len(Tail(s)), NEW j \in 1..Len(Tail(s)),
                        Tail(s)[i].cid = Tail(s)[j].cid
                 PROVE  i = j
    BY DEF Distinct
  <2>2. i + 1 = j + 1
    BY <1>1, <1>2, <2>1 DEF Distinct
  <2>3. QED
    BY <1>1, <2>2
<1>4. ASSUME NEW x \in ToSet(Tail(s)) PROVE x.cid # Head(s).cid
  <2>1. PICK i \in 1..Len(Tail(s)) : Tail(s)[i] = x
    <3>1. \A y \in ToSet(Tail(s)) : \E i \in 1..Len(Tail(s)) : Tail(s)[i] = y
      BY <1>1, ToSetMember
    <3>2. QED
      BY <3>1
  <2>2. x = s[i + 1]
    BY <1>1, <2>1
  <2>3. QED
    BY <1>1, <1>2, <2>2 DEF Distinct
<1>5. QED
  BY <1>3, <1>4

LEMMA DistinctConcat ==
    ASSUME NEW s \in Seq(Message), NEW t \in Seq(Message), Distinct(s), Distinct(t),
           \A x \in ToSet(s), y \in ToSet(t) : x.cid # y.cid
    PROVE  Distinct(s \o t)
<1> DEFINE u == s \o t
<1>1. /\ Len(s) \in Nat /\ Len(t) \in Nat /\ Len(u) = Len(s) + Len(t)
      /\ \A i \in 1..Len(s) + Len(t) : u[i] = IF i <= Len(s) THEN s[i] ELSE t[i - Len(s)]
  BY LenProperties, ConcatProperties
<1>2. \A i \in 1..Len(s), j \in 1..Len(t) : s[i].cid # t[j].cid
  BY ToSetMember
<1> HIDE DEF u
<1>3. SUFFICES ASSUME NEW i \in 1..Len(u), NEW j \in 1..Len(u), u[i].cid = u[j].cid
               PROVE  i = j
  BY DEF Distinct, u
<1>4. /\ \/ i \in 1..Len(s) /\ u[i] = s[i]
         \/ i - Len(s) \in 1..Len(t) /\ u[i] = t[i - Len(s)]
      /\ \/ j \in 1..Len(s) /\ u[j] = s[j]
         \/ j - Len(s) \in 1..Len(t) /\ u[j] = t[j - Len(s)]
  BY <1>1
<1>5. CASE i \in 1..Len(s) /\ j \in 1..Len(s) /\ u[i] = s[i] /\ u[j] = s[j]
  BY <1>3, <1>5 DEF Distinct
<1>6. CASE /\ i - Len(s) \in 1..Len(t) /\ u[i] = t[i - Len(s)]
           /\ j - Len(s) \in 1..Len(t) /\ u[j] = t[j - Len(s)]
  <2>1. i - Len(s) = j - Len(s)
    BY <1>3, <1>6 DEF Distinct
  <2>2. QED
    BY <1>1, <2>1
<1>7. QED
  BY <1>2, <1>3, <1>4, <1>5, <1>6

LEMMA WireTyped ==
    ASSUME TypeOK
    PROVE  /\ outbox \in Seq(Message) /\ toServer \in Seq(Message) /\ stored \in Seq(Message)
           /\ toClient \in Seq(Frame) /\ live \in Seq(Entry)
           /\ Len(stored) \in Nat /\ Len(toClient) \in Nat /\ Len(live) \in Nat
           /\ \A m \in Pending \union ToSet(stored) :
                 m \in Message /\ m.cid \in Nat \ {0} /\ m.conv \in Convs
           /\ \A i \in 1..Len(stored) : stored[i] \in Message /\ stored[i] \in ToSet(stored)
           /\ \A i \in 1..Len(toClient) : toClient[i] \in Frame
           /\ \A i \in 1..Len(live) : live[i] \in Entry
           /\ own \in 0..MaxOwn
<1>1. /\ outbox \in Seq(Message) /\ toServer \in Seq(Message) /\ stored \in Seq(Message)
      /\ toClient \in Seq(Frame) /\ live \in Seq(Entry) /\ own \in 0..MaxOwn
  BY DEF TypeOK, NetTypes, WindowTypes, StoreTypes
<1>2. Len(stored) \in Nat /\ Len(toClient) \in Nat /\ Len(live) \in Nat
  BY <1>1, LenProperties
<1>3. ASSUME NEW m \in Pending \union ToSet(stored)
      PROVE  m \in Message /\ m.cid \in Nat \ {0} /\ m.conv \in Convs
  <2>1. m \in Message
    BY <1>1, ToSetMember DEF Pending
  <2>2. QED
    BY <2>1 DEF Message
<1>4. /\ \A i \in 1..Len(stored) : stored[i] \in Message /\ stored[i] \in ToSet(stored)
      /\ \A i \in 1..Len(toClient) : toClient[i] \in Frame
      /\ \A i \in 1..Len(live) : live[i] \in Entry
  BY <1>1, ToSetMember, ElementOfSeq
<1>5. QED
  BY <1>1, <1>2, <1>3, <1>4

\* What is stored stays where it is.
LEMMA StoredStays ==
    ASSUME NEW s \in Seq(Message), NEW m \in Message
    PROVE  \A i \in 1..Len(s) : i \in 1..Len(Append(s, m)) /\ Append(s, m)[i] = s[i]
  BY AppendProperties, LenProperties

LEMMA InitIdent == Init => Ident
<1> SUFFICES ASSUME Init PROVE Ident
  OBVIOUS
<1>1. Len(<<>>) = 0 /\ ToSet(<<>>) = {}
  BY ToSetEmpty
<1>2. live = <<>> /\ outbox = <<>> /\ toServer = <<>> /\ toClient = <<>> /\ stored = <<>>
  BY DEF Init
<1>3. Unique
  BY <1>1, <1>2 DEF Unique, Distinct, Pending
<1>4. Numbered /\ FramesTrue /\ LiveTrue
  BY <1>1, <1>2 DEF Numbered, FramesTrue, LiveTrue, Pending
<1>5. QED
  BY <1>3, <1>4 DEF Ident

\* A message handed to the socket.
LEMMA SendIdent ==
    ASSUME TypeOK, Budget, Ident, NEW c \in Convs, own < MaxOwn, ShowAndSend(c),
           UNCHANGED <<active, toClient, stored>>
    PROVE  Ident'
<1> DEFINE m == [conv |-> c, cid |-> own']
           All == Pending \union ToSet(stored)
<1>1. /\ own' = own + 1 /\ own' \in 1..MaxOwn /\ m \in Message
      /\ live' = Append(live, Own(c, own')) /\ Own(c, own') \in Entry
      /\ \/ toServer' = Append(toServer, m) /\ outbox' = outbox
         \/ outbox' = Append(outbox, m) /\ toServer' = toServer
  BY SendTyped
<1>2. m.conv = c /\ m.cid = own'
  OBVIOUS
<1> HIDE DEF m
<1>3. \A x \in All : x.cid # own' /\ x.cid \in Nat
  <2>1. \A x \in Pending : x.cid # own'
    BY <1>1, WireTyped DEF Ident, Numbered
  <2>2. \A x \in ToSet(stored) : x.cid # own'
    <3>1. SUFFICES ASSUME NEW i \in 1..Len(stored) PROVE stored[i].cid # own'
      BY WireTyped, ToSetMember
    <3>2. stored[i].cid \in Nat /\ i \in Nat
      BY WireTyped
    <3>3. stored[i].cid <= own \/ stored[i].cid = MaxOwn + i
      BY DEF Ident, Numbered
    <3>4. own \in 0..MaxOwn
      BY WireTyped
    <3>5. QED
      BY <1>1, <3>2, <3>3, <3>4
  <2>3. QED
    BY <2>1, <2>2, WireTyped
<1>4. /\ \/ ToSet(toServer') = ToSet(toServer) \union {m} /\ ToSet(outbox') = ToSet(outbox)
         \/ ToSet(outbox') = ToSet(outbox) \union {m} /\ ToSet(toServer') = ToSet(toServer)
  BY ZenonT(60), <1>1, WireTyped, ToSetAppend
<1>5. Pending' = Pending \union {m} /\ ToSet(stored') = ToSet(stored)
  BY <1>4 DEF Pending
<1>6. Unique'
  <2>1. Distinct(stored')
    BY DEF Ident, Unique
  <2>2. Distinct(outbox') /\ Distinct(toServer')
    <3>1. /\ Distinct(outbox) /\ Distinct(toServer)
          /\ \A x \in ToSet(outbox) \union ToSet(toServer) : x.cid # m.cid
      BY <1>2, <1>3 DEF Ident, Unique, Pending
    <3>2. QED
      BY <1>1, <3>1, WireTyped, DistinctAppend
  <2>3. \A x \in ToSet(outbox'), y \in ToSet(toServer') : x.cid # y.cid
    BY <1>2, <1>3, <1>4 DEF Ident, Unique, Pending
  <2>4. \A x \in Pending', y \in ToSet(stored') : x.cid # y.cid
    BY <1>2, <1>3, <1>5 DEF Ident, Unique
  <2>5. QED
    BY <2>1, <2>2, <2>3, <2>4 DEF Unique
<1>7. Numbered'
  <2>1. \A x \in Pending' : x.cid <= own'
    <3>1. own \in Nat /\ \A x \in Pending : x.cid \in Nat /\ x.cid <= own
      BY WireTyped DEF Ident, Numbered
    <3>2. QED
      BY <1>1, <1>2, <1>5, <3>1
  <2>2. \A i \in 1..Len(stored') : stored'[i].cid <= own' \/ stored'[i].cid = MaxOwn + i
    <3>1. own \in Nat /\ \A i \in 1..Len(stored) : stored[i].cid \in Nat
      BY WireTyped
    <3>2. QED
      BY <1>1, <3>1 DEF Ident, Numbered
  <2>3. QED
    BY <2>1, <2>2 DEF Numbered
<1>8. FramesTrue'
  BY DEF Ident, FramesTrue, FrameTrue
<1>9. LiveTrue'
  <2>1. /\ Len(live') = Len(live) + 1 /\ Len(live) \in Nat
        /\ \A i \in 1..Len(live) : live'[i] = live[i]
        /\ live'[Len(live) + 1] = Own(c, own')
    BY <1>1, WireTyped, AppendProperties
  <2>2. ASSUME NEW i \in 1..Len(live) PROVE EntryTrue(live[i])'
    <3> DEFINE e == live[i]
    <3>1. EntryTrue(e) /\ e \in Entry
      BY WireTyped DEF Ident, LiveTrue
    <3>2. e.sid \in Nat /\ e.cid \in Nat
      BY <3>1 DEF Entry
    <3>3. e.cid # own'
      <4>1. CASE e.cid = 0
        BY <1>1, <4>1
      <4>2. CASE e.cid # 0 /\ e.sid = 0
        <5>1. e.cid <= own /\ own \in Nat
          BY <3>1, <4>2, WireTyped DEF EntryTrue
        <5>2. QED
          BY <1>1, <3>2, <5>1
      <4>3. CASE e.sid # 0
        <5>1. e.sid \in 1..Len(stored) /\ stored[e.sid].cid = e.cid
          BY <3>1, <4>3 DEF EntryTrue
        <5>2. stored[e.sid] \in All
          BY <5>1, WireTyped
        <5>3. QED
          BY <1>3, <5>1, <5>2
      <4>4. QED
        BY <4>1, <4>2, <4>3
    <3>4. \A x \in Pending' \union ToSet(stored') : x.cid = e.cid => x.conv = e.conv
      BY <1>2, <1>5, <3>1, <3>3 DEF EntryTrue
    <3>5. e.cid # 0 /\ e.sid = 0 => e.status = "sending" /\ e.cid <= own'
      <4>1. own \in Nat
        BY WireTyped
      <4>2. QED
        BY <1>1, <3>1, <3>2, <4>1 DEF EntryTrue
    <3>6. EntryTrue(e)'
      <4>1. live'[i] = live[i]
        BY <2>1
      <4>2. QED
        BY <3>1, <3>4, <3>5, <4>1 DEF EntryTrue
    <3>7. QED
      BY <2>1, <3>6
  <2>3. EntryTrue(Own(c, own))'
    <3>1. \A x \in Pending' \union ToSet(stored') : x.cid = own' => x.conv = c
      BY <1>2, <1>3, <1>5
    <3>2. own' # 0 /\ own' <= own'
      BY <1>1
    <3>3. QED
      BY <3>1, <3>2 DEF EntryTrue, Own
  <2>4. SUFFICES ASSUME NEW i \in 1..Len(live') PROVE EntryTrue(live[i])'
    BY DEF LiveTrue
  <2>5. i \in 1..Len(live) \/ i = Len(live) + 1
    BY <2>1
  <2>6. CASE i = Len(live) + 1
    BY <2>1, <2>3, <2>6 DEF EntryTrue
  <2>7. QED
    BY <2>2, <2>5, <2>6
<1>10. QED
  BY <1>6, <1>7, <1>8, <1>9 DEF Ident

\* A message stored and broadcast; what is under way or stored is joined by m
\* or, for an own message, stays the same.
LEMMA StoreIdent ==
    ASSUME TypeOK, Ident, NEW c \in Convs, NEW n \in 1..(MaxOwn + MaxStored),
           Len(stored) < MaxStored, Store(c, n), Unique', Numbered',
           UNCHANGED <<active, live, own, switches>>,
           \A x \in Pending' \union ToSet(stored') :
              \/ x \in Pending \union ToSet(stored)
              \/ x.cid = MaxOwn + Len(stored) + 1
    PROVE  Ident'
<1> DEFINE m == [conv |-> c, cid |-> n]
           f == [conv |-> c, sid |-> Len(stored'), cid |-> n]
<1>1. /\ m \in Message /\ f \in Frame /\ Len(stored) \in Nat /\ Len(stored') = Len(stored) + 1
  BY StoreTyped
<1>2. stored' = Append(stored, m) /\ (toClient' = Append(toClient, f) \/ toClient' = toClient)
  BY StoreTyped
<1>3. f.conv = c /\ f.sid = Len(stored) + 1 /\ f.cid = n /\ n # 0
  BY <1>1
<1>4. stored'[Len(stored) + 1] = [conv |-> f.conv, cid |-> f.cid]
  <2>1. stored'[Len(stored) + 1] = m
    <3> HIDE DEF m, f
    <3>1. QED
      BY <1>1, <1>2, WireTyped, AppendProperties
  <2>2. QED
    BY <2>1
<1>5. \A i \in 1..Len(stored) : i \in 1..Len(stored') /\ stored'[i] = stored[i]
  <2> HIDE DEF m, f
  <2>1. QED
    BY <1>1, <1>2, WireTyped, StoredStays
<1> HIDE DEF m, f
<1>6. FramesTrue'
  <2>1. \A i \in 1..Len(toClient) : FrameTrue(toClient[i]) /\ (FrameTrue(toClient[i]) => TRUE)
    BY DEF Ident, FramesTrue
  <2>2. ASSUME NEW g, FrameTrue(g) PROVE /\ g.cid = 0 => g.sid = 0
                                         /\ g.cid # 0 => /\ g.sid \in 1..Len(stored')
                                            /\ stored'[g.sid] = [conv |-> g.conv, cid |-> g.cid]
    BY <1>5, <2>2 DEF FrameTrue
  <2>3. /\ f.cid = 0 => f.sid = 0
        /\ f.cid # 0 => /\ f.sid \in 1..Len(stored')
                        /\ stored'[f.sid] = [conv |-> f.conv, cid |-> f.cid]
    BY <1>1, <1>3, <1>4
  <2>4. CASE toClient' = toClient
    BY <2>1, <2>2, <2>4 DEF FramesTrue, FrameTrue
  <2>5. CASE toClient' = Append(toClient, f)
    <3>1. /\ Len(toClient') = Len(toClient) + 1 /\ Len(toClient) \in Nat
          /\ \A i \in 1..Len(toClient) : toClient'[i] = toClient[i]
          /\ toClient'[Len(toClient) + 1] = f
      BY <1>1, <2>5, WireTyped, AppendProperties
    <3>2. \A i \in 1..Len(toClient') : i \in 1..Len(toClient) \/ i = Len(toClient) + 1
      BY <3>1
    <3>3. SUFFICES ASSUME NEW i \in 1..Len(toClient')
          PROVE  /\ toClient'[i].cid = 0 => toClient'[i].sid = 0
                 /\ toClient'[i].cid # 0 =>
                      /\ toClient'[i].sid \in 1..Len(stored')
                      /\ stored'[toClient'[i].sid]
                           = [conv |-> toClient'[i].conv, cid |-> toClient'[i].cid]
      BY DEF FramesTrue, FrameTrue
    <3>4. CASE i \in 1..Len(toClient)
      BY <2>1, <2>2, <3>1, <3>4
    <3>5. CASE i = Len(toClient) + 1
      BY <2>3, <3>1, <3>5
    <3>6. QED
      BY <3>2, <3>4, <3>5
  <2>6. QED
    BY <1>2, <2>4, <2>5
<1>7. LiveTrue'
  <2>1. SUFFICES ASSUME NEW i \in 1..Len(live) PROVE EntryTrue(live[i])'
    BY DEF LiveTrue
  <2> DEFINE e == live[i]
  <2>2. EntryTrue(e) /\ e \in Entry /\ live'[i] = e
    BY WireTyped DEF Ident, LiveTrue
  <2>3. e.sid \in Nat /\ e.cid \in Nat
    BY <2>2 DEF Entry
  <2>4. e.cid # MaxOwn + Len(stored) + 1
    <3>1. own \in 0..MaxOwn
      BY WireTyped
    <3>2. CASE e.sid = 0
      <4>1. e.cid = 0 \/ e.cid <= own
        BY <2>2, <3>2 DEF EntryTrue
      <4>2. QED
        BY <1>1, <2>3, <3>1, <4>1
    <3>3. CASE e.sid # 0
      <4>1. e.sid \in 1..Len(stored) /\ stored[e.sid].cid = e.cid
        BY <2>2, <3>3 DEF EntryTrue
      <4>2. e.cid <= own \/ e.cid = MaxOwn + e.sid
        BY <4>1 DEF Ident, Numbered
      <4>3. QED
        BY <1>1, <2>3, <3>1, <4>1, <4>2
    <3>4. QED
      BY <3>2, <3>3
  <2>5. \A x \in Pending' \union ToSet(stored') : x.cid = e.cid => x.conv = e.conv
    BY <2>2, <2>4 DEF EntryTrue
  <2>6. e.sid # 0 => /\ e.sid \in 1..Len(stored') /\ e.conv = active
                     /\ stored'[e.sid] = [conv |-> e.conv, cid |-> e.cid]
    BY <1>5, <2>2 DEF EntryTrue
  <2>7. QED
    BY <2>2, <2>5, <2>6 DEF EntryTrue
<1>8. QED
  BY <1>6, <1>7 DEF Ident

LEMMA ServerStoresIdent == TypeOK /\ Budget /\ Ident /\ ServerStores => Ident'
<1> SUFFICES ASSUME TypeOK, Budget, Ident, ServerStores PROVE Ident'
  OBVIOUS
<1> DEFINE m == Head(toServer)
<1>1. /\ toServer # <<>> /\ toServer' = Tail(toServer) /\ Store(m.conv, m.cid)
      /\ UNCHANGED <<active, live, own, outbox, switches>>
  BY DEF ServerStores, windowVars
<1>2. /\ Len(stored) < MaxStored /\ m \in Message
      /\ m.conv \in Convs /\ m.cid \in 1..(MaxOwn + MaxStored)
  BY <1>1, Room
<1>3. m = [conv |-> m.conv, cid |-> m.cid]
  BY <1>2 DEF Message
<1>4. stored' = Append(stored, m) /\ Len(stored') = Len(stored) + 1 /\ Len(stored) \in Nat
  <2>1. stored' = Append(stored, [conv |-> m.conv, cid |-> m.cid])
    BY <1>1 DEF Store
  <2>2. Len(stored') = Len(stored) + 1 /\ Len(stored) \in Nat
    <3> HIDE DEF m
    <3>1. QED
      BY <1>1, <1>2, StoreTyped
  <2>3. QED
    BY <1>3, <2>1, <2>2
<1>5. /\ ToSet(toServer) = ToSet(toServer') \union {m} /\ m \in ToSet(toServer)
      /\ ToSet(stored') = ToSet(stored) \union {m}
  BY <1>1, <1>2, <1>4, WireTyped, ToSetTail, ToSetAppend
<1>6. Distinct(toServer') /\ \A x \in ToSet(toServer') : x.cid # m.cid
  BY <1>1, WireTyped, DistinctTail DEF Ident, Unique
<1> HIDE DEF m
<1>7. Unique'
  <2>1. Distinct(stored')
    <3>1. \A x \in ToSet(stored) : x.cid # m.cid
      BY <1>5 DEF Ident, Unique, Pending
    <3>2. QED
      BY <1>2, <1>4, <3>1, WireTyped, DistinctAppend DEF Ident, Unique
  <2>2. Distinct(outbox')
    BY <1>1 DEF Ident, Unique
  <2>3. \A x \in ToSet(outbox'), y \in ToSet(toServer') : x.cid # y.cid
    BY <1>1, <1>5 DEF Ident, Unique
  <2>4. \A x \in Pending', y \in ToSet(stored') : x.cid # y.cid
    BY <1>1, <1>5, <1>6 DEF Ident, Unique, Pending
  <2>5. QED
    BY <1>6, <2>1, <2>2, <2>3, <2>4 DEF Unique
<1>8. Numbered'
  <2>1. \A x \in Pending' : x.cid <= own'
    BY <1>1, <1>5 DEF Ident, Numbered, Pending
  <2>2. \A i \in 1..Len(stored) : stored'[i] = stored[i]
    BY <1>2, <1>4, WireTyped, StoredStays
  <2>3. stored'[Len(stored) + 1].cid <= own
    <3>1. stored'[Len(stored) + 1] = m
      BY <1>2, <1>4, WireTyped, AppendProperties
    <3>2. QED
      BY <1>5, <3>1 DEF Ident, Numbered, Pending
  <2>4. \A i \in 1..Len(stored') : i \in 1..Len(stored) \/ i = Len(stored) + 1
    BY <1>4
  <2>5. QED
    BY <1>1, <2>1, <2>2, <2>3, <2>4 DEF Ident, Numbered
<1>9. Pending' \union ToSet(stored') = Pending \union ToSet(stored)
  BY <1>1, <1>5 DEF Pending
<1>10. QED
  BY <1>1, <1>2, <1>7, <1>8, <1>9, StoreIdent

\* A message the server refuses is under way no longer.
LEMMA ServerRefusesIdent == TypeOK /\ Ident /\ ServerRefuses => Ident'
<1> SUFFICES ASSUME TypeOK, Ident, ServerRefuses PROVE Ident'
  OBVIOUS
<1>1. /\ toServer # <<>> /\ toServer' = Tail(toServer)
      /\ UNCHANGED <<active, live, own, outbox, toClient, stored>>
  BY DEF ServerRefuses, windowVars
<1>2. Distinct(toServer') /\ ToSet(toServer') \subseteq ToSet(toServer)
  BY <1>1, WireTyped, DistinctTail, ToSetTail DEF Ident, Unique
<1>3. Pending' \subseteq Pending
  BY <1>1, <1>2 DEF Pending
<1>4. Unique'
  <2>1. Distinct(stored') /\ Distinct(outbox')
    BY <1>1 DEF Ident, Unique
  <2>2. \A m \in ToSet(outbox'), n \in ToSet(toServer') : m.cid # n.cid
    BY <1>1, <1>2 DEF Ident, Unique
  <2>3. \A m \in Pending', n \in ToSet(stored') : m.cid # n.cid
    BY <1>1, <1>3 DEF Ident, Unique
  <2>4. QED
    BY <1>2, <2>1, <2>2, <2>3 DEF Unique
<1>5. Numbered'
  BY <1>1, <1>3 DEF Ident, Numbered
<1>6. FramesTrue'
  BY <1>1 DEF Ident, FramesTrue, FrameTrue
<1>7. LiveTrue'
  BY <1>1, <1>3 DEF Ident, LiveTrue, EntryTrue
<1>8. QED
  BY <1>4, <1>5, <1>6, <1>7 DEF Ident

LEMMA PeerSendsIdent ==
    ASSUME TypeOK, Budget, Ident, NEW c \in Busy, PeerSends(c)
    PROVE  Ident'
<1> DEFINE n == MaxOwn + Len(stored) + 1
           m == [conv |-> c, cid |-> n]
<1>1. /\ Store(c, n) /\ UNCHANGED <<active, live, own, outbox, toServer, switches>>
      /\ Len(stored) \in Nat /\ c \in Convs
      /\ Len(stored) < MaxStored /\ n \in 1..(MaxOwn + MaxStored)
  BY StoredIds DEF PeerSends, windowVars, TypeOK
<1>2. /\ stored' = Append(stored, m) /\ Len(stored') = Len(stored) + 1
      /\ m \in Message /\ m.cid = n
  <2>1. stored' = Append(stored, m) /\ m.cid = n
    BY <1>1 DEF Store
  <2>2. Len(stored') = Len(stored) + 1 /\ m \in Message
    <3> HIDE DEF n
    <3>1. QED
      BY <1>1, StoreTyped
  <2>3. QED
    BY <2>1, <2>2
<1> HIDE DEF m
<1>3. ToSet(stored') = ToSet(stored) \union {m} /\ Pending' = Pending
  BY <1>1, <1>2, WireTyped, ToSetAppend DEF Pending
<1>4. \A x \in Pending \union ToSet(stored) : x.cid # n
  <2>1. own \in 0..MaxOwn
    BY WireTyped
  <2>2. \A x \in Pending : x.cid \in Nat /\ x.cid <= own
    BY WireTyped DEF Ident, Numbered
  <2>3. \A x \in ToSet(stored) : x.cid # n
    <3>1. SUFFICES ASSUME NEW i \in 1..Len(stored) PROVE stored[i].cid # n
      BY SMTT(40), WireTyped, ToSetMember
    <3>2. stored[i].cid <= own \/ stored[i].cid = MaxOwn + i
      BY DEF Ident, Numbered
    <3>3. stored[i].cid \in Nat
      BY WireTyped
    <3>4. QED
      BY <1>1, <2>1, <3>2, <3>3
  <2>4. QED
    BY <1>1, <2>1, <2>2, <2>3
<1>5. Unique'
  <2>1. Distinct(stored')
    BY <1>2, <1>4, WireTyped, DistinctAppend DEF Ident, Unique
  <2>2. \A x \in Pending', y \in ToSet(stored') : x.cid # y.cid
    BY <1>2, <1>3, <1>4 DEF Ident, Unique
  <2>3. QED
    BY <1>1, <2>1, <2>2 DEF Ident, Unique
<1>6. Numbered'
  <2>1. \A i \in 1..Len(stored) : stored'[i] = stored[i]
    BY <1>2, WireTyped, StoredStays
  <2>2. stored'[Len(stored) + 1].cid = MaxOwn + (Len(stored) + 1)
    <3>1. stored'[Len(stored) + 1] = m
      BY <1>2, WireTyped, AppendProperties
    <3>2. QED
      BY <1>1, <1>2, <3>1
  <2>3. \A i \in 1..Len(stored') : i \in 1..Len(stored) \/ i = Len(stored) + 1
    BY <1>1, <1>2
  <2>4. QED
    BY <1>1, <1>3, <2>1, <2>2, <2>3 DEF Ident, Numbered
<1>7. \A x \in Pending' \union ToSet(stored') :
         \/ x \in Pending \union ToSet(stored)
         \/ x.cid = MaxOwn + Len(stored) + 1
  BY <1>2, <1>3
<1> HIDE DEF n
<1>8. QED
  BY <1>1, <1>5, <1>6, <1>7, StoreIdent

LEMMA ReceiveIdent == TypeOK /\ Ident /\ Receive => Ident'
<1> SUFFICES ASSUME TypeOK, Ident, Receive PROVE Ident'
  OBVIOUS
<1> DEFINE f == Head(toClient)
<1>1. /\ toClient # <<>> /\ toClient' = Tail(toClient)
      /\ live' = IF f.conv = active THEN Merge(live, f) ELSE live
      /\ UNCHANGED <<active, own, outbox, toServer, stored>>
  BY DEF Receive
<1>2. /\ f \in Frame /\ f = toClient[1] /\ 1 \in 1..Len(toClient)
      /\ Len(toClient) \in Nat /\ Len(toClient') = Len(toClient) - 1
      /\ \A i \in 1..Len(toClient') : toClient'[i] = toClient[i + 1]
  BY <1>1, WireTyped, HeadTailProperties, EmptySeq
<1>3. f.sid \in Nat /\ f.cid \in Nat
  BY <1>2 DEF Frame
<1>4. FrameTrue(f)
  BY <1>2 DEF Ident, FramesTrue
<1> HIDE DEF f
<1>5. Unique' /\ Numbered'
  BY <1>1 DEF Ident, Unique, Numbered, Pending
<1>6. FramesTrue'
  <2>1. \A i \in 1..Len(toClient') : i + 1 \in 1..Len(toClient)
    BY <1>2
  <2>2. QED
    BY <1>1, <1>2, <2>1 DEF Ident, FramesTrue, FrameTrue
<1>7. SUFFICES \A i \in 1..Len(live') : EntryTrue(live'[i])
  <2>1. SUFFICES ASSUME \A i \in 1..Len(live') : EntryTrue(live'[i]) PROVE LiveTrue'
    BY <1>5, <1>6 DEF Ident
  <2>2. SUFFICES ASSUME NEW i \in 1..Len(live') PROVE EntryTrue(live[i])'
    BY DEF LiveTrue
  <2>3. EntryTrue(live'[i])
    BY <2>1
  <2>4. QED
    BY <1>1, <2>3 DEF EntryTrue, Pending
<1>8. SUFFICES ASSUME NEW i \in 1..Len(live') PROVE EntryTrue(live'[i])
  OBVIOUS
<1>9. \A k \in 1..Len(live) : EntryTrue(live[k]) /\ live[k] \in Entry
  BY WireTyped DEF Ident, LiveTrue
<1>10. CASE live' = live
  BY <1>8, <1>9, <1>10
<1>11. CASE f.conv = active /\ live' # live
  <2>1. live' = Merge(live, f)
    BY <1>1, <1>11
  <2>2. CASE \E k \in 1..Len(live) :
               f.cid # 0 /\ live[k].cid = f.cid /\ live' = Completed(live, f, k)
    <3>1. PICK k \in 1..Len(live) :
               f.cid # 0 /\ live[k].cid = f.cid /\ live' = Completed(live, f, k)
      BY <2>2
    <3> DEFINE e == [live[k] EXCEPT !.sid = f.sid, !.status = "sent"]
    <3>2. /\ e.conv = live[k].conv /\ e.sid = f.sid /\ e.cid = live[k].cid /\ e \in Entry
          /\ e.status = "sent"
      BY ZenonT(60), <1>2, <1>9 DEF Entry, Frame
    <3>3. /\ Len(live') = Len(live)
          /\ \A j \in 1..Len(live) : live'[j] = IF j = k THEN e ELSE live[j]
      <4>1. live' = [live EXCEPT ![k] = e]
        BY <3>1 DEF Completed
      <4> HIDE DEF e
      <4>2. QED
        BY <3>2, <4>1, WireTyped, ExceptSeq
    <3>4. /\ f.sid \in 1..Len(stored) /\ stored[f.sid] = [conv |-> f.conv, cid |-> f.cid]
          /\ f.sid # 0
      BY <1>4, <3>1 DEF FrameTrue
    <3>5. live[k].conv = f.conv
      <4>1. stored[f.sid] \in ToSet(stored) /\ stored[f.sid].cid = live[k].cid
            /\ stored[f.sid].conv = f.conv
        BY <3>1, <3>4, WireTyped
      <4>2. QED
        BY <1>9, <4>1 DEF EntryTrue
    <3>6. EntryTrue(e)
      <4>1. \A m \in Pending \union ToSet(stored) : m.cid = e.cid => m.conv = e.conv
        <5> HIDE DEF e
        <5>1. QED
          BY ZenonT(60), <1>9, <3>2 DEF EntryTrue
      <4>2. stored[e.sid] = [conv |-> e.conv, cid |-> e.cid]
        BY <3>1, <3>2, <3>4, <3>5
      <4> HIDE DEF e
      <4>3. QED
        BY <1>11, <3>1, <3>2, <3>4, <3>5, <4>1, <4>2 DEF EntryTrue
    <3> HIDE DEF e
    <3>7. QED
      BY <1>8, <1>9, <3>3, <3>6
  <2>3. CASE live' = Added(live, f) /\ (f.cid = 0 \/ \A k \in 1..Len(live) : live[k].cid # f.cid)
    <3> DEFINE e == [conv |-> f.conv, sid |-> f.sid, cid |-> f.cid, status |-> "sent"]
    <3>1. /\ e.conv = f.conv /\ e.sid = f.sid /\ e.cid = f.cid /\ e \in Entry
      BY <1>2 DEF Entry, Frame
    <3>2. /\ Len(live') = Len(live) + 1 /\ Len(live) \in Nat
          /\ \A j \in 1..Len(live) : live'[j] = live[j]
          /\ live'[Len(live) + 1] = e
      <4>1. live' = Append(live, e)
        BY <2>3 DEF Added
      <4> HIDE DEF e
      <4>2. QED
        BY <3>1, <4>1, WireTyped, AppendProperties
    <3> HIDE DEF e
    <3>3. EntryTrue(e)
      <4>1. \A m \in Pending \union ToSet(stored) : m.cid = e.cid => m.conv = e.conv
        <5>1. CASE f.cid = 0
          BY <3>1, <5>1, WireTyped
        <5>2. CASE f.cid # 0
          <6>1. /\ f.sid \in 1..Len(stored) /\ stored[f.sid].cid = f.cid
                /\ stored[f.sid].conv = f.conv
            BY <1>4, <5>2 DEF FrameTrue
          <6>2. stored[f.sid] \in ToSet(stored)
            BY <6>1, WireTyped
          <6>3. \A m \in Pending : m.cid # f.cid
            BY <6>1, <6>2 DEF Ident, Unique
          <6>4. \A m \in ToSet(stored) : m.cid = f.cid => m = stored[f.sid]
            <7>1. SUFFICES ASSUME NEW j \in 1..Len(stored), stored[j].cid = f.cid
                           PROVE  stored[j] = stored[f.sid]
              BY SMTT(40), WireTyped, ToSetMember
            <7>2. j = f.sid
              BY <6>1, <7>1 DEF Ident, Unique, Distinct
            <7>3. QED
              BY <7>2
          <6>5. QED
            BY <3>1, <6>1, <6>3, <6>4
        <5>3. QED
          BY <5>1, <5>2
      <4>2. f.cid # 0 => f.sid # 0
        BY <1>4 DEF FrameTrue
      <4>3. QED
        BY <1>4, <1>11, <3>1, <4>1, <4>2 DEF EntryTrue, FrameTrue
    <3>4. i \in 1..Len(live) \/ i = Len(live) + 1
      BY <1>8, <3>2
    <3>5. QED
      BY <1>9, <3>2, <3>3, <3>4
  <2>4. QED
    BY <1>2, <1>11, <2>1, <2>2, <2>3, WireTyped, MergeCases
<1>12. QED
  BY <1>1, <1>10, <1>11

LEMMA SameIdent ==
    Ident /\ UNCHANGED <<active, live, own, outbox, toServer, toClient, stored>> => Ident'
  BY DEF Ident, Unique, Numbered, Pending, FramesTrue, LiveTrue, FrameTrue, EntryTrue

LEMMA DropIdent == TypeOK /\ Ident /\ Drop => Ident'
<1> SUFFICES ASSUME TypeOK, Ident, Drop PROVE Ident'
  OBVIOUS
<1>1. /\ toClient' = <<>> /\ (toServer' = toServer \/ toServer' = <<>>)
      /\ UNCHANGED <<active, live, own, outbox, stored>>
  BY DEF Drop, windowVars
<1>2. Len(<<>>) = 0 /\ ToSet(<<>>) = {}
  BY ToSetEmpty
<1>3. Distinct(toServer') /\ ToSet(toServer') \subseteq ToSet(toServer)
  BY <1>1, <1>2 DEF Ident, Unique, Distinct
<1>4. Pending' \subseteq Pending
  BY <1>1, <1>3 DEF Pending
<1>5. Unique'
  <2>1. Distinct(stored') /\ Distinct(outbox')
    BY <1>1 DEF Ident, Unique
  <2>2. \A m \in ToSet(outbox'), n \in ToSet(toServer') : m.cid # n.cid
    BY <1>1, <1>3 DEF Ident, Unique
  <2>3. \A m \in Pending', n \in ToSet(stored') : m.cid # n.cid
    BY <1>1, <1>4 DEF Ident, Unique
  <2>4. QED
    BY <1>3, <2>1, <2>2, <2>3 DEF Unique
<1>6. Numbered'
  BY <1>1, <1>4 DEF Ident, Numbered
<1>7. FramesTrue'
  BY <1>1, <1>2 DEF FramesTrue
<1>8. LiveTrue'
  BY <1>1, <1>4 DEF Ident, LiveTrue, EntryTrue
<1>9. QED
  BY <1>5, <1>6, <1>7, <1>8 DEF Ident

LEMMA ReconnectIdent == TypeOK /\ Ident /\ Reconnect => Ident'
<1> SUFFICES ASSUME TypeOK, Ident, Reconnect PROVE Ident'
  OBVIOUS
<1>1. /\ toServer' = toServer \o outbox /\ outbox' = <<>>
      /\ UNCHANGED <<active, live, own, toClient, stored>>
  BY DEF Reconnect, windowVars, histVars
<1>2. ToSet(toServer') = ToSet(toServer) \union ToSet(outbox) /\ ToSet(outbox') = {}
  BY <1>1, WireTyped, ToSetConcat, ToSetEmpty
<1>3. Pending' = Pending
  BY <1>2 DEF Pending
<1>4. Unique'
  <2>1. Distinct(toServer')
    BY <1>1, WireTyped, DistinctConcat DEF Ident, Unique
  <2>2. Distinct(outbox')
    BY <1>1 DEF Distinct
  <2>3. \A m \in Pending', n \in ToSet(stored') : m.cid # n.cid
    BY <1>1, <1>3 DEF Ident, Unique
  <2>4. QED
    BY <1>1, <1>2, <2>1, <2>2, <2>3 DEF Ident, Unique
<1>5. Numbered' /\ FramesTrue' /\ LiveTrue'
  BY <1>1, <1>3 DEF Ident, Numbered, FramesTrue, LiveTrue, FrameTrue, EntryTrue
<1>6. QED
  BY <1>4, <1>5 DEF Ident

LEMMA SignalIdent ==
    ASSUME TypeOK, Ident, NEW c \in Busy, PeerSignals(c)
    PROVE  Ident'
<1> DEFINE f == [conv |-> c, sid |-> 0, cid |-> 0]
<1>1. /\ toClient' = Append(toClient, f) \/ toClient' = toClient
      /\ UNCHANGED <<active, live, own, outbox, toServer, stored>>
  BY DEF PeerSignals, Broadcast, windowVars, histVars
<1>2. Unique' /\ Numbered' /\ LiveTrue'
  BY <1>1 DEF Ident, Unique, Numbered, LiveTrue, EntryTrue, Pending
<1>3. FramesTrue'
  <2>1. CASE toClient' = toClient
    BY <1>1, <2>1 DEF Ident, FramesTrue, FrameTrue
  <2>2. CASE toClient' = Append(toClient, f)
    <3>1. f \in Frame /\ f.cid = 0 /\ f.sid = 0
      <4>1. c \in Convs /\ 0 \in 0..MaxStored /\ 0 \in 0..(MaxOwn + MaxStored)
        OBVIOUS
      <4>2. QED
        BY <4>1 DEF Frame
    <3> HIDE DEF f
    <3>2. /\ Len(toClient') = Len(toClient) + 1 /\ Len(toClient) \in Nat
          /\ \A i \in 1..Len(toClient) : toClient'[i] = toClient[i]
          /\ toClient'[Len(toClient) + 1] = f
      BY <2>2, <3>1, WireTyped, AppendProperties
    <3>3. \A i \in 1..Len(toClient') : i \in 1..Len(toClient) \/ i = Len(toClient) + 1
      BY <3>2
    <3>4. QED
      BY <1>1, <3>1, <3>2, <3>3 DEF Ident, FramesTrue, FrameTrue
  <2>3. QED
    BY <1>1, <2>1, <2>2
<1>4. QED
  BY <1>2, <1>3 DEF Ident

LEMMA StepIdent == TypeOK /\ Budget /\ Ident /\ [Next]_vars => Ident'
<1> SUFFICES ASSUME TypeOK, Budget, Ident, [Next]_vars PROVE Ident'
  OBVIOUS
<1>1. CASE SendText
  <2>1. active \in Convs
    BY DEF TypeOK, WindowTypes
  <2>2. QED
    BY <1>1, <2>1, SendIdent DEF SendText, CanSubmit, histVars
<1>2. CASE FileUploaded
  <2>1. upload.conv \in Convs
    BY <1>2 DEF FileUploaded, TypeOK, WindowTypes
  <2>2. QED
    BY <1>2, <2>1, SendIdent DEF FileUploaded, histVars
<1>3. CASE PickFile \/ FileDropped \/ FetchNextPage
  <2>1. UNCHANGED <<active, live, own, outbox, toServer, toClient, stored>>
    BY <1>3 DEF PickFile, FileDropped, FetchNextPage, windowVars, netVars, histVars
  <2>2. QED
    BY <2>1, SameIdent
<1>4. CASE \E c \in Convs : Serve(c) \/ Arrive(c) \/ FetchFails(c)
  <2>1. UNCHANGED <<active, live, own, outbox, toServer, toClient, stored>>
    BY <1>4 DEF Serve, Arrive, FetchFails, windowVars, netVars, histVars
  <2>2. QED
    BY <2>1, SameIdent
<1>5. CASE \E c \in Convs : Select(c)
  <2>1. live' = <<>> /\ UNCHANGED <<own, outbox, toServer, toClient, stored>>
    BY <1>5 DEF Select, netVars
  <2>2. LiveTrue'
    BY <2>1 DEF LiveTrue
  <2>3. QED
    BY <2>1, <2>2 DEF Ident, Unique, Numbered, Pending, FramesTrue, FrameTrue
<1>6. CASE UNCHANGED vars
  BY <1>6, SameIdent DEF vars, windowVars, netVars, histVars
<1>7. QED
  BY <1>1, <1>2, <1>3, <1>4, <1>5, <1>6, ServerStoresIdent, ServerRefusesIdent,
     ReceiveIdent, DropIdent, ReconnectIdent, PeerSendsIdent, SignalIdent DEF Next, HandleMessage

\* An entry shown as sent is a message of the open conversation under the
\* number the server gave it, or the bubble of a call signal, whatever uploads,
\* switches, refusals and lost connections come between a message and its echo.
THEOREM SentIsStoredHolds == Spec => []SentIsStored
<1>1. Init => TypeOK /\ Budget /\ Ident
  BY InitTyped, InitIdent
<1>2. TypeOK /\ Budget /\ Ident /\ [Next]_vars => TypeOK' /\ Budget' /\ Ident'
  BY StepTyped, StepIdent
<1>3. TypeOK /\ Ident => SentIsStored
  <2> SUFFICES ASSUME TypeOK, Ident, NEW e \in ToSet(live), e.status = "sent"
               PROVE  /\ e.conv = active
                      /\ \/ e.cid = 0 /\ e.sid = 0
                         \/ /\ e.sid \in DOMAIN stored
                            /\ stored[e.sid] = [conv |-> e.conv, cid |-> e.cid]
    BY DEF SentIsStored
  <2>1. EntryTrue(e)
    <3>1. PICK i \in 1..Len(live) : live[i] = e
      BY WireTyped, ToSetMember
    <3>2. QED
      BY <3>1 DEF Ident, LiveTrue
  <2>2. DOMAIN stored = 1..Len(stored)
    BY WireTyped, LenProperties
  <2>3. QED
    BY <2>1, <2>2 DEF EntryTrue
<1>4. QED
  BY <1>1, <1>2, <1>3, PTL DEF Spec

-----------------------------------------------------------------------------
\* The pages of the history.

Items(pages) == UNION {pages[p].items : p \in DOMAIN pages}

\* From the newest message of the first page down, the pages have every message
\* that is not older than all they have or that their number leaves room for.
\* (The second case says what a page that comes out empty has promised.)
NoHole(c, pages) ==
    /\ Items(pages) \subseteq 1..Len(stored)
    /\ pages # <<>> =>
         \A h \in pages[1].items, i \in Ids(c) :
            /\ i <= h
            /\ (\E low \in Items(pages) : low <= i) \/ Newer(c, i) < Len(pages) * PageSize
            => i \in Items(pages)

HoleInv == \A c \in Convs : NoHole(c, cache[c]) /\ NoHole(c, fetch[c].got)

LEMMA NewerCounts ==
    ASSUME TypeOK, NEW c
    PROVE  /\ Ids(c) \subseteq 1..Len(stored) /\ IsFiniteSet(Ids(c)) /\ Len(stored) \in Nat
           /\ \A i : Newer(c, i) \in Nat
           /\ \A i, h \in Ids(c) : i <= h => Newer(c, h) <= Newer(c, i)
<1>1. Ids(c) \subseteq 1..Len(stored) /\ Len(stored) \in Nat
  BY StoredIds DEF Ids, TypeOK
<1>2. IsFiniteSet(Ids(c))
  <2>1. IsFiniteSet(1..Len(stored))
    BY <1>1, FS_Interval
  <2>2. QED
    BY <1>1, <2>1, FS_Subset
<1>3. \A i : IsFiniteSet({j \in Ids(c) : j > i}) /\ Newer(c, i) \in Nat
  BY <1>2, FS_Subset, FS_CardinalityType DEF Newer
<1>4. ASSUME NEW i \in Ids(c), NEW h \in Ids(c), i <= h PROVE Newer(c, h) <= Newer(c, i)
  <2>1. {j \in Ids(c) : j > h} \subseteq {j \in Ids(c) : j > i}
    BY <1>1, <1>4
  <2>2. QED
    BY <1>3, <2>1, FS_Subset DEF Newer
<1>5. QED
  BY <1>1, <1>2, <1>3, <1>4

\* A page has the messages with so many newer ones.
LEMMA PageItems ==
    ASSUME TypeOK, NEW c, NEW p \in Nat
    PROVE  /\ Page(c, p).items \subseteq Ids(c)
           /\ \A i \in Ids(c) : i \in Page(c, p).items <=>
                 p * PageSize <= Newer(c, i) /\ Newer(c, i) < (p + 1) * PageSize
<1>1. Page(c, p).items = {i \in Ids(c) : Newer(c, i) \div PageSize = p}
  BY DEF Page
<1>2. ASSUME NEW n \in Nat
      PROVE  n \div PageSize = p <=> p * PageSize <= n /\ n < (p + 1) * PageSize
  <2>1. PageSize \in Nat \ {0}
    BY PageAssumption
  <2>2. n \div PageSize = p => p * PageSize <= n /\ n < (p + 1) * PageSize
    BY <2>1, SMT
  <2>3. p * PageSize <= n /\ n < (p + 1) * PageSize => n \div PageSize = p
    BY <2>1, SMT
  <2>4. QED
    BY <2>2, <2>3
<1>3. \A i : Newer(c, i) \in Nat
  BY NewerCounts
<1>4. QED
  BY <1>1, <1>2, <1>3

LEMMA ItemsEmpty == Items(<<>>) = {}
  BY DEF Items

LEMMA ItemsAppend ==
    ASSUME NEW pages \in Seq(PageType), NEW q \in PageType
    PROVE  /\ Items(Append(pages, q)) = Items(pages) \union q.items
           /\ Append(pages, q) # <<>> /\ Len(Append(pages, q)) = Len(pages) + 1
           /\ Len(pages) \in Nat
           /\ Append(pages, q)[1] = IF pages = <<>> THEN q ELSE pages[1]
<1> DEFINE t == Append(pages, q)
<1>1. /\ DOMAIN pages = 1..Len(pages) /\ Len(pages) \in Nat
      /\ t # <<>> /\ DOMAIN t = 1..(Len(pages) + 1) /\ Len(t) = Len(pages) + 1
      /\ \A i \in 1..Len(pages) : t[i] = pages[i]
      /\ t[Len(pages) + 1] = q
      /\ pages = <<>> <=> Len(pages) = 0
  BY LenProperties, AppendProperties, EmptySeq
<1> HIDE DEF t
<1>2. Items(t) \subseteq Items(pages) \union q.items
  <2>1. SUFFICES ASSUME NEW p \in 1..(Len(pages) + 1), NEW x \in t[p].items
                 PROVE  x \in Items(pages) \union q.items
    BY <1>1 DEF Items
  <2>2. p \in 1..Len(pages) \/ p = Len(pages) + 1
    BY <1>1
  <2>3. QED
    BY <1>1, <2>1, <2>2 DEF Items
<1>3. Items(pages) \subseteq Items(t)
  <2>1. SUFFICES ASSUME NEW p \in 1..Len(pages), NEW x \in pages[p].items PROVE x \in Items(t)
    BY <1>1 DEF Items
  <2>2. p \in DOMAIN t
    BY <1>1
  <2>3. QED
    BY <1>1, <2>1, <2>2 DEF Items
<1>4. q.items \subseteq Items(t)
  <2>1. Len(pages) + 1 \in DOMAIN t
    BY <1>1
  <2>2. QED
    BY <1>1, <2>1 DEF Items
<1>5. t[1] = IF pages = <<>> THEN q ELSE pages[1]
  <2>1. CASE pages = <<>>
    BY <1>1, <2>1
  <2>2. CASE pages # <<>>
    <3>1. 1 \in 1..Len(pages)
      BY <1>1, <2>2
    <3>2. QED
      BY <1>1, <2>2, <3>1
  <2>3. QED
    BY <2>1, <2>2
<1>6. QED
  BY <1>1, <1>2, <1>3, <1>4, <1>5 DEF t

\* The next page closes up to those before it, whatever came in between.
LEMMA NoHoleServe ==
    ASSUME TypeOK, NEW c \in Convs, NEW pages \in Seq(PageType), NoHole(c, pages)
    PROVE  NoHole(c, Append(pages, Page(c, Len(pages))))
<1> DEFINE n == Len(pages)
           q == Page(c, n)
           t == Append(pages, q)
<1>1. n \in Nat /\ q \in PageType
  BY LenProperties, PageTyped DEF TypeOK
<1>2. /\ q.items \subseteq Ids(c)
      /\ \A i \in Ids(c) : i \in q.items <=>
            n * PageSize <= Newer(c, i) /\ Newer(c, i) < (n + 1) * PageSize
  <2> HIDE DEF n
  <2>1. QED
    BY <1>1, PageItems
<1> HIDE DEF q
<1>3. /\ Items(t) = Items(pages) \union q.items /\ t # <<>> /\ Len(t) = n + 1
      /\ t[1] = IF pages = <<>> THEN q ELSE pages[1]
  BY <1>1, ItemsAppend
<1>4. Items(t) \subseteq 1..Len(stored)
  BY <1>2, <1>3, NewerCounts DEF NoHole
<1>5. ASSUME NEW h \in t[1].items, NEW i \in Ids(c), i <= h,
             Newer(c, i) < (n + 1) * PageSize
      PROVE  i \in Items(t)
  <2>1. CASE n * PageSize <= Newer(c, i)
    BY <1>2, <1>3, <1>5, <2>1
  <2>2. CASE ~(n * PageSize <= Newer(c, i))
    <3>1. Newer(c, i) < n * PageSize
      <4>1. Newer(c, i) \in Nat /\ n * PageSize \in Nat
        BY <1>1, NewerCounts
      <4>2. QED
        BY <2>2, <4>1
    <3>2. pages # <<>>
      <4>1. SUFFICES ASSUME pages = <<>> PROVE FALSE
        OBVIOUS
      <4>2. n = 0 /\ Newer(c, i) \in Nat
        BY <4>1, NewerCounts
      <4>3. n * PageSize = 0
        BY <4>2
      <4>4. QED
        BY <3>1, <4>2, <4>3
    <3>3. i \in Items(pages)
      BY <1>3, <1>5, <3>1, <3>2 DEF NoHole
    <3>4. QED
      BY <1>3, <3>3
  <2>3. QED
    BY <2>1, <2>2
<1>6. ASSUME NEW h \in t[1].items, NEW i \in Ids(c), i <= h,
             NEW low \in Items(t), low <= i
      PROVE  i \in Items(t)
  <2>1. CASE low \in q.items
    <3>1. low \in Ids(c) /\ Newer(c, low) < (n + 1) * PageSize /\ Newer(c, i) <= Newer(c, low)
      BY <1>2, <1>6, <2>1, NewerCounts
    <3>2. Newer(c, i) \in Nat /\ Newer(c, low) \in Nat /\ (n + 1) * PageSize \in Nat
      BY <1>1, NewerCounts
    <3>3. Newer(c, i) < (n + 1) * PageSize
      BY <3>1, <3>2
    <3>4. QED
      BY <1>5, <1>6, <3>3
  <2>2. CASE low \notin q.items
    <3>1. low \in Items(pages)
      BY <1>3, <1>6, <2>2
    <3>2. pages # <<>>
      BY <3>1, ItemsEmpty
    <3>3. i \in Items(pages)
      BY <1>3, <1>6, <3>1, <3>2 DEF NoHole
    <3>4. QED
      BY <1>3, <3>3
  <2>3. QED
    BY <2>1, <2>2
<1>7. QED
  <2>1. Len(t) = n + 1
    BY <1>3
  <2> HIDE DEF n, t
  <2>2. NoHole(c, t)
    BY <1>4, <1>5, <1>6, <2>1 DEF NoHole
  <2>3. QED
    BY <2>2 DEF t, q, n

LEMMA NoHoleEmpty == \A c : NoHole(c, <<>>)
  BY ItemsEmpty DEF NoHole

\* A message that is stored while pages are loaded makes none of them wrong.
LEMMA NoHoleStore ==
    ASSUME TypeOK, NEW m \in Message, stored' = Append(stored, m),
           NEW c, NEW pages \in Seq(PageType), NoHole(c, pages)
    PROVE  NoHole(c, pages)'
<1>1. /\ Len(stored) \in Nat /\ stored \in Seq(Message)
      /\ DOMAIN stored = 1..Len(stored) /\ DOMAIN stored' = 1..(Len(stored) + 1)
      /\ Len(stored') = Len(stored) + 1
      /\ \A i \in 1..Len(stored) : stored'[i] = stored[i]
  BY WireTyped, LenProperties, AppendProperties
<1>2. Ids(c) \subseteq Ids(c)' /\ \A i \in Ids(c)' : i <= Len(stored) => i \in Ids(c)
  BY <1>1 DEF Ids
<1>3. IsFiniteSet(Ids(c)')
  <2>1. Ids(c)' \subseteq 1..(Len(stored) + 1)
    BY <1>1 DEF Ids
  <2>2. IsFiniteSet(1..(Len(stored) + 1))
    <3>1. Len(stored) + 1 \in Int /\ 1 \in Int
      BY <1>1
    <3>2. QED
      BY <3>1, FS_Interval
  <2>3. QED
    BY <2>1, <2>2, FS_Subset
<1>4. ASSUME NEW i PROVE /\ Newer(c, i) \in Nat /\ (Newer(c, i))' \in Nat
                         /\ Newer(c, i) <= (Newer(c, i))'
  <2>1. {j \in Ids(c) : j > i} \subseteq {j \in Ids(c)' : j > i'}
    BY <1>2
  <2>2. QED
    BY <1>2, <1>3, FS_Subset, FS_CardinalityType DEF Newer
<1>5. Items(pages) \subseteq 1..Len(stored')
  <2>1. Items(pages) \subseteq 1..Len(stored)
    BY DEF NoHole
  <2>2. QED
    BY <1>1, <2>1
<1>6. ASSUME pages # <<>>, NEW h \in pages[1].items, NEW i \in Ids(c)', i <= h,
             (\E low \in Items(pages) : low <= i)
                 \/ (Newer(c, i))' < Len(pages) * PageSize
      PROVE  i \in Items(pages)
  <2>1. h \in Items(pages)
    <3>1. 1 \in DOMAIN pages
      BY <1>6, LenProperties, EmptySeq
    <3>2. QED
      BY <1>6, <3>1 DEF Items
  <2>2. h \in 1..Len(stored) /\ i \in Nat
    BY <1>1, <2>1 DEF NoHole, Ids
  <2>3. i \in Ids(c)
    BY <1>1, <1>2, <1>6, <2>2
  <2>4. CASE \E low \in Items(pages) : low <= i
    BY <1>6, <2>3, <2>4 DEF NoHole
  <2>5. CASE (Newer(c, i))' < Len(pages) * PageSize
    <3>1. Len(pages) * PageSize \in Nat
      BY LenProperties
    <3>2. Newer(c, i) < Len(pages) * PageSize
      BY <1>4, <2>5, <3>1
    <3>3. QED
      BY <1>6, <2>3, <3>2 DEF NoHole
  <2>6. QED
    BY <1>6, <2>4, <2>5
<1>7. QED
  BY <1>5, <1>6 DEF NoHole, Items

LEMMA InitHole == Init => HoleInv
<1> SUFFICES ASSUME Init, NEW c \in Convs PROVE NoHole(c, cache[c]) /\ NoHole(c, fetch[c].got)
  BY DEF HoleInv
<1>1. cache[c] = <<>> /\ fetch[c].got = <<>>
  BY DEF Init, NoFetch
<1>2. QED
  BY <1>1, NoHoleEmpty

\* While nothing is stored, the caches and fetches need to be looked at only
\* where they change.
LEMMA HoleRead ==
    ASSUME HoleInv, stored' = stored,
           \A c \in Convs :
              /\ cache'[c] = cache[c] \/ NoHole(c, cache'[c])
              /\ fetch'[c].got = fetch[c].got \/ NoHole(c, fetch'[c].got)
    PROVE  HoleInv'
<1> SUFFICES ASSUME NEW c \in Convs PROVE (NoHole(c, cache[c]) /\ NoHole(c, fetch[c].got))'
  BY DEF HoleInv
<1>1. NoHole(c, cache'[c]) /\ NoHole(c, fetch'[c].got)
  BY DEF HoleInv
<1>2. QED
  BY ZenonT(60), <1>1 DEF NoHole, Ids, Newer, Items

LEMMA HoleWrite ==
    ASSUME TypeOK, HoleInv, NEW m \in Message, stored' = Append(stored, m),
           UNCHANGED <<cache, fetch>>
    PROVE  HoleInv'
<1> SUFFICES ASSUME NEW c \in Convs PROVE (NoHole(c, cache[c]) /\ NoHole(c, fetch[c].got))'
  BY DEF HoleInv
<1>1. \A pages \in Seq(PageType) : NoHole(c, pages) => NoHole(c, pages)'
  BY NoHoleStore
<1>2. \E p, q \in Seq(PageType) : p = cache[c] /\ q = fetch[c].got
  BY FetchTyped DEF TypeOK
<1>3. PICK p \in Seq(PageType), q \in Seq(PageType) : p = cache[c] /\ q = fetch[c].got
  BY <1>2
<1>4. NoHole(c, p)' /\ NoHole(c, q)'
  BY <1>1, <1>3 DEF HoleInv
<1>5. p = cache'[c] /\ q = fetch'[c].got
  BY <1>3
<1>6. NoHole(c, cache[c])'
  <2>1. Items(p) = Items(cache'[c]) /\ Len(p) = Len(cache'[c]) /\ p[1] = cache'[c][1]
    BY <1>5
  <2>2. QED
    BY <1>4, <1>5, <2>1 DEF NoHole, Items
<1>7. NoHole(c, fetch[c].got)'
  <2>1. Items(q) = Items(fetch'[c].got) /\ Len(q) = Len(fetch'[c].got)
        /\ q[1] = fetch'[c].got[1]
    BY <1>5
  <2>2. QED
    BY <1>4, <1>5, <2>1 DEF NoHole, Items
<1>8. QED
  BY <1>6, <1>7

LEMMA StepHole == TypeOK /\ Budget /\ HoleInv /\ [Next]_vars => HoleInv'
<1> SUFFICES ASSUME TypeOK, Budget, HoleInv, [Next]_vars PROVE HoleInv'
  OBVIOUS
<1>1. CASE SendText \/ PickFile \/ FileUploaded \/ FileDropped \/ Receive \/ Reconnect
           \/ ServerRefuses \/ Drop \/ UNCHANGED vars
  <2>1. UNCHANGED <<cache, fetch, stored>>
    BY <1>1 DEF SendText, PickFile, FileUploaded, FileDropped, Receive, Reconnect,
                ServerRefuses, Drop, vars, queryVars, histVars
  <2>2. QED
    BY <2>1, HoleRead
<1>2. CASE FetchNextPage
  <2>1. NoHole(active, cache[active])
    BY NextPageTyped, <1>2 DEF HoleInv
  <2>2. \A c \in Convs : fetch'[c].got = fetch[c].got \/ NoHole(c, fetch'[c].got)
    BY NextPageTyped, <1>2, <2>1
  <2>3. QED
    BY <1>2, <2>2, HoleRead DEF FetchNextPage, histVars
<1>3. CASE ServerStores
  <2> DEFINE m == [conv |-> Head(toServer).conv, cid |-> Head(toServer).cid]
  <2>1. m \in Message
    BY <1>3, Room DEF ServerStores, Message
  <2>2. stored' = Append(stored, m) /\ UNCHANGED <<cache, fetch>>
    BY <1>3 DEF ServerStores, Store, queryVars
  <2> HIDE DEF m
  <2>3. QED
    BY <2>1, <2>2, HoleWrite
<1>4. CASE \E c \in Busy : PeerSends(c)
  <2>1. PICK c \in Busy : PeerSends(c)
    BY <1>4
  <2> DEFINE m == [conv |-> c, cid |-> MaxOwn + Len(stored) + 1]
  <2>2. m \in Message
    <3>1. Len(stored) \in Nat /\ Len(stored) + MaxOwn < MaxStored
      BY <2>1, StoredIds DEF PeerSends, TypeOK
    <3>2. MaxOwn + Len(stored) + 1 \in 1..(MaxOwn + MaxStored) /\ c \in Convs
      BY <3>1
    <3>3. QED
      BY <3>2 DEF Message
  <2>3. stored' = Append(stored, m) /\ UNCHANGED <<cache, fetch>>
    BY <2>1 DEF PeerSends, Store, queryVars
  <2> HIDE DEF m
  <2>4. QED
    BY <2>2, <2>3, HoleWrite
<1>5. CASE \E c \in Busy : PeerSignals(c)
  <2>1. UNCHANGED <<cache, fetch, stored>>
    BY <1>5 DEF PeerSignals, queryVars, histVars
  <2>2. QED
    BY <2>1, HoleRead
<1>7. CASE \E c \in Convs : Select(c)
  <2>1. PICK c \in Convs : Select(c)
    BY <1>7
  <2>2. \A k \in Convs : fetch'[k].got = fetch[k].got \/ fetch'[k].got = <<>>
    BY <2>1, ObserveTyped DEF Select
  <2>3. stored' = stored /\ cache' = cache
    BY <2>1 DEF Select
  <2>4. QED
    BY <2>2, <2>3, NoHoleEmpty, HoleRead
<1>8. CASE \E c \in Convs : Serve(c)
  <2>1. PICK c \in Convs : Serve(c)
    BY <1>8
  <2>2. NoHole(c, fetch'[c].got)
    BY <2>1, ServeTyped, FetchTyped, NoHoleServe DEF HoleInv, TypeOK
  <2>3. \A k \in Convs : fetch'[k].got = fetch[k].got \/ NoHole(k, fetch'[k].got)
    BY <2>1, <2>2, ServeTyped
  <2>4. stored' = stored /\ cache' = cache
    BY <2>1 DEF Serve, histVars
  <2>5. QED
    BY <2>3, <2>4, HoleRead
<1>9. CASE \E c \in Convs : Arrive(c) \/ FetchFails(c)
  <2>1. PICK c \in Convs : Arrive(c) \/ FetchFails(c)
    BY <1>9
  <2>2. \A k \in Convs : cache'[k] = cache[k] \/ NoHole(k, cache'[k])
    BY <2>1, CollectTyped DEF HoleInv, FetchFails
  <2>3. NoFetch.got = <<>>
    BY DEF NoFetch
  <2>4. \A k \in Convs : fetch'[k].got = fetch[k].got \/ NoHole(k, fetch'[k].got)
    BY <2>1, <2>3, CollectTyped, FailTyped, NoHoleEmpty
  <2>5. stored' = stored
    BY <2>1 DEF Arrive, FetchFails, histVars
  <2>6. QED
    BY <2>2, <2>4, <2>5, HoleRead
<1>10. QED
  BY <1>1, <1>2, <1>3, <1>4, <1>5, <1>7, <1>8, <1>9 DEF Next, HandleMessage

LEMMA LoadedItems == \A c : Loaded(c) = Items(cache[c])
  BY DEF Loaded, Items

\* Below the newest message of its first page a conversation has no hole, for
\* pages of any size and however many messages come in between two of them.
THEOREM PagesHaveNoHoleHolds == Spec => []PagesHaveNoHole
<1>1. Init => TypeOK /\ Budget /\ HoleInv
  BY InitTyped, InitHole
<1>2. TypeOK /\ Budget /\ HoleInv /\ [Next]_vars => TypeOK' /\ Budget' /\ HoleInv'
  BY StepTyped, StepHole
<1>3. HoleInv => PagesHaveNoHole
  <2> SUFFICES ASSUME HoleInv, NEW c \in Convs, cache[c] # <<>>, NEW i \in Ids(c),
                      NEW low \in Loaded(c), NEW high \in cache[c][1].items,
                      low <= i, i <= high
               PROVE  i \in Loaded(c)
    BY DEF PagesHaveNoHole
  <2>1. low \in Items(cache[c])
    BY LoadedItems
  <2>2. i \in Items(cache[c])
    BY <2>1 DEF HoleInv, NoHole
  <2>3. QED
    BY <2>2, LoadedItems
<1>4. QED
  BY <1>1, <1>2, <1>3, PTL DEF Spec

-----------------------------------------------------------------------------
\* What becomes of a message: the pages have it or reach above it, its frame is
\* on the wire, the live list has it, or it is known to be missed.

OnWire(i) == \E j \in 1..Len(toClient) : toClient[j].sid = i
InLive(i) == \E j \in 1..Len(live) : live[j].sid = i

\* The pages have i, or their first page begins no lower.
Covered(pages, i) ==
    i \in Items(pages) \/ (pages # <<>> /\ \E h \in pages[1].items : i <= h)

CoverInv ==
    \A c \in Convs : \A i \in Ids(c) :
        \/ Covered(cache[c], i) \/ i \in missed \/ OnWire(i)
        \/ c = active /\ InLive(i)

\* The pages a fetch has collected can replace those of the cache: they cover
\* what those do, and what the fetch has asked for.
FetchKeeps(c) ==
    /\ fetch[c].since <= Len(stored)
    /\ fetch[c].got # <<>> =>
         \A i \in Ids(c) :
            i <= fetch[c].since \/ Covered(cache[c], i) => Covered(fetch[c].got, i)

FetchInv == \A c \in Convs : FetchKeeps(c)

LEMMA Greatest ==
    ASSUME NEW n \in Nat, NEW S, S \subseteq 1..n, S # {}
    PROVE  \E i \in S : \A j \in S : j <= i
<1> DEFINE T == {n - j : j \in S}
<1>1. T \subseteq Nat /\ T # {}
  <2>1. \A j \in S : n - j \in Nat
    OBVIOUS
  <2>2. QED
    BY <2>1
<1>2. PICK d \in T : \A e \in T : d <= e
  <2> HIDE DEF T
  <2>1. QED
    BY <1>1, Least
<1>3. PICK i \in S : d = n - i
  BY <1>2
<1>4. ASSUME NEW j \in S PROVE j <= i
  <2>1. n - j \in T
    OBVIOUS
  <2>2. n - i <= n - j
    <3> HIDE DEF T
    <3>1. QED
      BY <1>2, <1>3, <2>1
  <2>3. i \in 1..n /\ j \in 1..n
    BY <1>3, <1>4
  <2>4. QED
    BY <2>2, <2>3
<1>5. QED
  BY <1>3, <1>4

\* No message is newer than the first page when it is read.
LEMMA FirstPageCovers ==
    ASSUME TypeOK, NEW c, NEW i \in Ids(c)
    PROVE  \E h \in Page(c, 0).items : i <= h
<1>1. Ids(c) \subseteq 1..Len(stored) /\ Len(stored) \in Nat
  BY NewerCounts
<1>2. PICK h \in Ids(c) : \A j \in Ids(c) : j <= h
  BY <1>1, Greatest
<1>3. {j \in Ids(c) : j > h} = {}
  BY <1>1, <1>2
<1>4. Newer(c, h) = 0
  BY <1>3, FS_EmptySet DEF Newer
<1>5. h \in Page(c, 0).items
  <2>1. 0 * PageSize = 0 /\ (0 + 1) * PageSize = PageSize
    OBVIOUS
  <2>2. 0 * PageSize <= Newer(c, h) /\ Newer(c, h) < (0 + 1) * PageSize
    BY <1>4, <2>1
  <2>3. QED
    BY <2>2, PageItems
<1>6. QED
  BY <1>2, <1>5

\* A number on the wire is that of a message of its conversation.
LEMMA FrameNumber ==
    ASSUME TypeOK, Ident, NEW j \in 1..Len(toClient), toClient[j].sid # 0
    PROVE  /\ toClient[j].sid \in 1..Len(stored)
           /\ toClient[j].conv = stored[toClient[j].sid].conv
<1>1. FrameTrue(toClient[j])
  BY DEF Ident, FramesTrue
<1>2. QED
  BY <1>1 DEF FrameTrue

LEMMA InitCover == Init => CoverInv /\ FetchInv
<1> SUFFICES ASSUME Init PROVE CoverInv /\ FetchInv
  OBVIOUS
<1>1. Len(stored) = 0 /\ \A c : Ids(c) = {}
  BY DEF Init, Ids
<1>2. \A c \in Convs : fetch[c].since = 0
  BY DEF Init, NoFetch
<1>3. QED
  BY <1>1, <1>2 DEF CoverInv, FetchInv, FetchKeeps

LEMMA CoverSame ==
    ASSUME CoverInv, UNCHANGED <<active, live, toClient, stored, missed, cache>>
    PROVE  CoverInv'
<1> SUFFICES ASSUME NEW c \in Convs, NEW i \in Ids(c)
             PROVE  \/ Covered(cache'[c], i) \/ i \in missed' \/ OnWire(i)'
                    \/ c = active' /\ InLive(i)'
  BY DEF CoverInv, Covered, Items, Ids
<1>1. OnWire(i)' = OnWire(i) /\ InLive(i)' = InLive(i)
  BY DEF OnWire, InLive
<1>2. QED
  BY <1>1 DEF CoverInv

\* One fetch has moved.
LEMMA FetchMoved ==
    ASSUME FetchInv, UNCHANGED <<stored, cache>>, NEW c \in Convs,
           \A k \in Convs \ {c} : fetch'[k] = fetch[k],
           fetch'[c].since <= Len(stored),
           fetch'[c].got # <<>> =>
              \A i \in Ids(c) :
                 i <= fetch'[c].since \/ Covered(cache[c], i) => Covered(fetch'[c].got, i)
    PROVE  FetchInv'
<1> SUFFICES ASSUME NEW k \in Convs PROVE FetchKeeps(k)'
  BY DEF FetchInv
<1>1. Ids(k)' = Ids(k)
  BY DEF Ids
<1>2. /\ fetch'[k].since <= Len(stored)
      /\ fetch'[k].got # <<>> =>
            \A i \in Ids(k) :
               i <= fetch'[k].since \/ Covered(cache[k], i) => Covered(fetch'[k].got, i)
  BY DEF FetchInv, FetchKeeps
<1>3. QED
  BY <1>1, <1>2 DEF FetchKeeps, Covered, Items

\* A step of the window or the connection that takes no message from its place
\* but to another.
LEMMA NetCover ==
    ASSUME TypeOK, CoverInv, FetchInv, UNCHANGED <<active, cache, fetch, stored>>,
           missed \subseteq missed',
           \A i \in 1..Len(stored) :
              /\ InLive(i) => InLive(i)'
              /\ OnWire(i) => \/ OnWire(i)' \/ i \in missed'
                              \/ stored[i].conv = active /\ InLive(i)'
    PROVE  CoverInv' /\ FetchInv'
<1>1. ASSUME NEW c \in Convs, NEW i \in Ids(c)
      PROVE  \/ Covered(cache'[c], i) \/ i \in missed' \/ OnWire(i)'
             \/ c = active' /\ InLive(i)'
  <2>1. i \in 1..Len(stored) /\ stored[i].conv = c
    BY StoredIds DEF Ids, TypeOK
  <2>2. QED
    BY <2>1 DEF CoverInv
<1>2. CoverInv'
  <2>1. SUFFICES ASSUME NEW c \in Convs, NEW i \in Ids(c)'
                 PROVE  (\/ Covered(cache[c], i) \/ i \in missed \/ OnWire(i)
                         \/ c = active /\ InLive(i))'
    BY DEF CoverInv
  <2>2. i \in Ids(c)
    BY <2>1 DEF Ids
  <2>3. \/ Covered(cache'[c], i) \/ i \in missed' \/ OnWire(i)'
        \/ c = active' /\ InLive(i)'
    BY <1>1, <2>2
  <2>4. QED
    BY <2>3 DEF Covered, Items
<1>3. FetchInv'
  <2>1. SUFFICES ASSUME NEW c \in Convs PROVE FetchKeeps(c)'
    BY DEF FetchInv
  <2>2. FetchKeeps(c)
    BY DEF FetchInv
  <2>3. Ids(c)' = Ids(c)
    BY DEF Ids
  <2>4. QED
    BY <2>2, <2>3 DEF FetchKeeps, Covered, Items
<1>4. QED
  BY <1>2, <1>3

LEMMA ServeCover ==
    ASSUME TypeOK, CoverInv, FetchInv, NEW c \in Convs, Serve(c)
    PROVE  CoverInv' /\ FetchInv'
<1> DEFINE got == fetch[c].got
           q == Page(c, Len(got))
<1>1. UNCHANGED <<active, live, toClient, stored, missed, cache>>
  BY DEF Serve, windowVars, netVars, histVars
<1>2. /\ fetch'[c].got = Append(got, q)
      /\ fetch'[c].since = IF got = <<>> THEN Len(stored) ELSE fetch[c].since
      /\ \A k \in Convs \ {c} : fetch'[k] = fetch[k]
  BY ServeTyped
<1>3. /\ got \in Seq(PageType) /\ q \in PageType /\ Len(stored) \in Nat
      /\ FetchKeeps(c)
  BY FetchTyped, PageTyped, StoredIds DEF TypeOK, FetchInv
<1>4. got = <<>> => q = Page(c, 0)
  OBVIOUS
<1> HIDE DEF q
<1>5. /\ Items(Append(got, q)) = Items(got) \union q.items
      /\ Append(got, q) # <<>>
      /\ Append(got, q)[1] = IF got = <<>> THEN q ELSE got[1]
  BY <1>3, ItemsAppend
<1>6. fetch'[c].since <= Len(stored)
  BY <1>2, <1>3 DEF FetchKeeps
<1>7. ASSUME NEW i \in Ids(c), i <= fetch'[c].since \/ Covered(cache[c], i)
      PROVE  Covered(fetch'[c].got, i)
  <2>1. CASE got = <<>>
    <3>1. \E h \in q.items : i <= h
      BY <1>4, <2>1, FirstPageCovers
    <3>2. QED
      BY <1>2, <1>5, <2>1, <3>1 DEF Covered
  <2>2. CASE got # <<>>
    <3>1. Covered(got, i)
      BY <1>2, <1>3, <1>7, <2>2 DEF FetchKeeps
    <3>2. QED
      BY <1>2, <1>5, <2>2, <3>1 DEF Covered
  <2>3. QED
    BY <2>1, <2>2
<1>8. QED
  BY <1>1, <1>2, <1>6, <1>7, CoverSame, FetchMoved

LEMMA FetchNextPageCover ==
    TypeOK /\ CoverInv /\ FetchInv /\ FetchNextPage => CoverInv' /\ FetchInv'
<1> SUFFICES ASSUME TypeOK, CoverInv, FetchInv, FetchNextPage PROVE CoverInv' /\ FetchInv'
  OBVIOUS
<1>1. UNCHANGED <<active, live, toClient, stored, missed, cache>>
  BY DEF FetchNextPage, windowVars, netVars, histVars
<1>2. PICK c \in Convs : c = active
  BY NextPageTyped
<1>3. /\ fetch'[c].got = cache[c] /\ fetch'[c].since = 0
      /\ \A k \in Convs \ {c} : fetch'[k] = fetch[k]
  BY <1>2, NextPageTyped
<1>4. Len(stored) \in Nat /\ Ids(c) \subseteq 1..Len(stored)
  BY NewerCounts
<1>5. \A i \in Ids(c) : ~(i <= 0)
  BY <1>4
<1>6. fetch'[c].since <= Len(stored)
  BY <1>3, <1>4
<1>7. QED
  BY <1>1, <1>3, <1>5, <1>6, CoverSame, FetchMoved

LEMMA FailCover ==
    ASSUME TypeOK, CoverInv, FetchInv, NEW c \in Convs, FetchFails(c)
    PROVE  CoverInv' /\ FetchInv'
<1>1. UNCHANGED <<active, live, toClient, stored, missed, cache>>
  BY DEF FetchFails, windowVars, netVars, histVars
<1>2. /\ fetch'[c].got = <<>> /\ fetch'[c].since = 0
      /\ \A k \in Convs \ {c} : fetch'[k] = fetch[k]
  BY FailTyped DEF NoFetch
<1>3. fetch'[c].since <= Len(stored)
  BY <1>2, WireTyped
<1>4. QED
  BY <1>1, <1>2, <1>3, CoverSame, FetchMoved

\* What the fetch has asked for is missed no longer, for its pages cover it.
LEMMA ArriveCover ==
    ASSUME TypeOK, CoverInv, FetchInv, NEW c \in Convs, Arrive(c)
    PROVE  CoverInv' /\ FetchInv'
<1>1. /\ UNCHANGED <<active, live, toClient, stored>>
      /\ missed' = missed \ AskedFor(c) /\ fetch[c].got # <<>>
  BY DEF Arrive, Collected, windowVars, netVars
<1>2. /\ cache'[c] = fetch[c].got /\ fetch'[c].got = <<>> /\ fetch'[c].since = 0
      /\ \A k \in Convs \ {c} : cache'[k] = cache[k] /\ fetch'[k] = fetch[k]
  BY CollectTyped DEF NoFetch
<1>3. FetchKeeps(c) /\ Len(stored) \in Nat
  BY WireTyped DEF FetchInv
<1>4. ASSUME NEW k \in Convs, NEW i \in Ids(k)
      PROVE  \/ Covered(cache'[k], i) \/ i \in missed' \/ OnWire(i)'
             \/ k = active' /\ InLive(i)'
  <2>1. OnWire(i)' = OnWire(i) /\ InLive(i)' = InLive(i)
    BY <1>1 DEF OnWire, InLive
  <2>2. Covered(cache[k], i) => Covered(cache'[k], i)
    BY <1>1, <1>2, <1>3 DEF FetchKeeps
  <2>3. i \in missed => i \in missed' \/ Covered(cache'[k], i)
    <3>1. CASE i \in AskedFor(c)
      <4>1. i \in Ids(c) /\ i <= fetch[c].since
        BY <3>1 DEF AskedFor
      <4>2. k = c
        BY <4>1 DEF Ids
      <4>3. QED
        BY <1>1, <1>2, <1>3, <4>1, <4>2 DEF FetchKeeps
    <3>2. QED
      BY <1>1, <3>1
  <2>4. QED
    BY <1>1, <2>1, <2>2, <2>3 DEF CoverInv
<1>5. CoverInv'
  <2>1. SUFFICES ASSUME NEW k \in Convs, NEW i \in Ids(k)'
                 PROVE  (\/ Covered(cache[k], i) \/ i \in missed \/ OnWire(i)
                         \/ k = active /\ InLive(i))'
    BY DEF CoverInv
  <2>2. i \in Ids(k)
    BY <1>1, <2>1 DEF Ids
  <2>3. \/ Covered(cache'[k], i) \/ i \in missed' \/ OnWire(i)'
        \/ k = active' /\ InLive(i)'
    BY <1>4, <2>2
  <2>4. QED
    BY <2>3 DEF Covered, Items
<1>6. FetchInv'
  <2>1. SUFFICES ASSUME NEW k \in Convs PROVE FetchKeeps(k)'
    BY DEF FetchInv
  <2>2. CASE k = c
    BY <1>1, <1>2, <1>3, <2>2 DEF FetchKeeps
  <2>3. CASE k # c
    <3>1. Ids(k)' = Ids(k) /\ FetchKeeps(k)
      BY <1>1 DEF Ids, FetchInv
    <3>2. QED
      BY <1>1, <1>2, <2>3, <3>1 DEF FetchKeeps, Covered, Items
  <2>4. QED
    BY <2>2, <2>3
<1>7. QED
  BY <1>5, <1>6

\* What the old live list had is in the pages, or missed from now on.
LEMMA SelectCover ==
    ASSUME TypeOK, CoverInv, FetchInv, NEW c \in Convs, Select(c)
    PROVE  CoverInv' /\ FetchInv'
<1>1. /\ UNCHANGED <<toClient, stored, cache>>
      /\ missed' = missed \union (Sids(live) \ Loaded(active))
  BY DEF Select, netVars
<1>2. /\ \A k \in Convs \ {c} : fetch'[k] = fetch[k]
      /\ fetch'[c] = fetch[c] \/ (fetch'[c].got = <<>> /\ fetch'[c].since = 0)
  BY ObserveTyped DEF Select
<1>3. FetchKeeps(c) /\ Len(stored) \in Nat
  BY WireTyped DEF FetchInv
<1>4. FetchInv'
  BY <1>1, <1>2, <1>3, FetchMoved DEF FetchKeeps
<1>5. ASSUME NEW k \in Convs, NEW i \in Ids(k)
      PROVE  Covered(cache[k], i) \/ i \in missed' \/ OnWire(i)
  <2>1. CASE k = active /\ InLive(i)
    <3>1. i # 0
      BY NewerCounts
    <3>2. i \in Sids(live)
      BY <2>1, <3>1, WireTyped, SidsMember DEF InLive
    <3>3. i \in Loaded(active) => Covered(cache[k], i)
      BY <2>1, LoadedItems DEF Covered
    <3>4. QED
      BY <1>1, <3>2, <3>3
  <2>2. CASE ~(k = active /\ InLive(i))
    BY <1>1, <2>2 DEF CoverInv
  <2>3. QED
    BY <2>1, <2>2
<1>6. CoverInv'
  <2>1. SUFFICES ASSUME NEW k \in Convs, NEW i \in Ids(k)'
                 PROVE  (Covered(cache[k], i) \/ i \in missed \/ OnWire(i))'
    BY DEF CoverInv
  <2>2. i \in Ids(k)
    BY <1>1, <2>1 DEF Ids
  <2>3. Covered(cache'[k], i) \/ i \in missed' \/ OnWire(i)'
    BY <1>1, <1>5, <2>2 DEF OnWire
  <2>4. QED
    BY <2>3 DEF Covered, Items
<1>7. QED
  BY <1>4, <1>6

\* What is stored is on its way, or missed; no page has its number yet.
LEMMA StoreCover ==
    ASSUME TypeOK, HoleInv, CoverInv, FetchInv,
           NEW c \in Convs, NEW n \in 1..(MaxOwn + MaxStored),
           Len(stored) < MaxStored, Store(c, n),
           UNCHANGED <<active, live, cache, fetch, switches>>
    PROVE  CoverInv' /\ FetchInv'
<1> DEFINE m == [conv |-> c, cid |-> n]
           f == [conv |-> c, sid |-> Len(stored'), cid |-> n]
<1>1. /\ m \in Message /\ f \in Frame /\ stored' = Append(stored, m)
      /\ Len(stored) \in Nat /\ Len(stored') = Len(stored) + 1 /\ f.sid = Len(stored')
      /\ \/ toClient' = Append(toClient, f) /\ missed' = missed
         \/ toClient' = toClient /\ missed' = missed \union {Len(stored')}
  BY StoreTyped
<1> HIDE DEF m, f
<1>2. /\ DOMAIN stored' = 1..(Len(stored) + 1) /\ DOMAIN stored = 1..Len(stored)
      /\ \A i \in 1..Len(stored) : stored'[i] = stored[i]
  BY <1>1, WireTyped, AppendProperties, LenProperties
<1>3. ASSUME NEW k \in Convs, NEW i \in Ids(k)'
      PROVE  i \in Ids(k) \/ i = Len(stored')
  BY <1>1, <1>2 DEF Ids
<1>4. \A i : OnWire(i) => OnWire(i)'
  <2>1. CASE toClient' = Append(toClient, f)
    <3>1. /\ Len(toClient') = Len(toClient) + 1 /\ Len(toClient) \in Nat
          /\ \A j \in 1..Len(toClient) : toClient'[j] = toClient[j]
      BY <1>1, <2>1, WireTyped, AppendProperties
    <3>2. 1..Len(toClient) \subseteq 1..Len(toClient')
      BY <3>1
    <3>3. QED
      BY <3>1, <3>2 DEF OnWire
  <2>2. CASE toClient' = toClient
    BY <2>2 DEF OnWire
  <2>3. QED
    BY <1>1, <2>1, <2>2
<1>5. \A i : i = Len(stored') => OnWire(i)' \/ i \in missed'
  <2>1. CASE toClient' = Append(toClient, f)
    <3>1. /\ Len(toClient') = Len(toClient) + 1 /\ Len(toClient) \in Nat
          /\ toClient'[Len(toClient) + 1] = f
      BY <1>1, <2>1, WireTyped, AppendProperties
    <3>2. Len(toClient) + 1 \in 1..Len(toClient')
      BY <3>1
    <3>3. QED
      BY <1>1, <3>1, <3>2 DEF OnWire
  <2>2. QED
    BY <1>1, <2>1
<1>6. CoverInv'
  <2>1. SUFFICES ASSUME NEW k \in Convs, NEW i \in Ids(k)'
                 PROVE  (\/ Covered(cache[k], i) \/ i \in missed \/ OnWire(i)
                         \/ k = active /\ InLive(i))'
    BY DEF CoverInv
  <2>2. \/ Covered(cache'[k], i) \/ i \in missed' \/ OnWire(i)'
        \/ k = active' /\ InLive(i)'
    <3>1. CASE i \in Ids(k)
      <4>1. InLive(i)' = InLive(i) /\ missed \subseteq missed'
        BY <1>1 DEF InLive
      <4>2. QED
        BY <1>4, <3>1, <4>1 DEF CoverInv
    <3>2. QED
      BY <1>3, <1>5, <3>1
  <2>3. QED
    BY <2>2 DEF Covered, Items
<1>7. FetchInv'
  <2>1. SUFFICES ASSUME NEW k \in Convs PROVE FetchKeeps(k)'
    BY DEF FetchInv
  <2>2. FetchKeeps(k) /\ NoHole(k, cache[k]) /\ fetch[k].since \in Nat
    BY FetchTyped DEF FetchInv, HoleInv, TypeOK
  <2>3. fetch'[k].since <= Len(stored')
    BY <1>1, <2>2 DEF FetchKeeps
  <2>4. ~Covered(cache[k], Len(stored'))
    <3>1. \A h \in Items(cache[k]) : ~(Len(stored') <= h)
      BY <1>1, <2>2 DEF NoHole
    <3>2. cache[k] # <<>> => cache[k][1].items \subseteq Items(cache[k])
      <4>1. SUFFICES ASSUME cache[k] # <<>> PROVE cache[k][1].items \subseteq Items(cache[k])
        OBVIOUS
      <4>2. 1 \in DOMAIN cache[k]
        BY <4>1, FetchTyped, LenProperties, EmptySeq DEF TypeOK
      <4>3. QED
        BY <4>2 DEF Items
    <3>3. Len(stored') <= Len(stored')
      BY <1>1
    <3>4. QED
      BY <3>1, <3>2, <3>3 DEF Covered
  <2>5. ~(Len(stored') <= fetch[k].since)
    BY <1>1, <2>2 DEF FetchKeeps
  <2>6. ASSUME fetch'[k].got # <<>>, NEW i \in Ids(k)',
               i <= fetch'[k].since \/ Covered(cache'[k], i)
        PROVE  Covered(fetch'[k].got, i)
    <3>1. i # Len(stored')
      BY <2>4, <2>5, <2>6
    <3>2. i \in Ids(k)
      BY <1>3, <3>1
    <3>3. QED
      BY <2>2, <2>6, <3>2 DEF FetchKeeps
  <2>7. QED
    BY <2>3, <2>6 DEF FetchKeeps, Covered, Items
<1>8. QED
  BY <1>6, <1>7

\* A frame that is received is in the live list thereafter, or missed.
LEMMA ReceiveCover ==
    TypeOK /\ Ident /\ CoverInv /\ FetchInv /\ Receive => CoverInv' /\ FetchInv'
<1> SUFFICES ASSUME TypeOK, Ident, CoverInv, FetchInv, Receive
             PROVE  CoverInv' /\ FetchInv'
  OBVIOUS
<1> DEFINE f == Head(toClient)
<1>1. /\ toClient # <<>> /\ toClient' = Tail(toClient)
      /\ live' = IF f.conv = active THEN Merge(live, f) ELSE live
      /\ f.conv # active => missed' = missed \union Sids(<<f>>)
      /\ missed \subseteq missed'
      /\ UNCHANGED <<active, stored, cache, fetch>>
  BY DEF Receive, queryVars
<1>2. /\ f \in Frame /\ f = toClient[1] /\ 1 \in 1..Len(toClient)
      /\ Len(toClient) \in Nat /\ Len(toClient') = Len(toClient) - 1
      /\ \A i \in 1..Len(toClient') : toClient'[i] = toClient[i + 1] /\ i + 1 \in 1..Len(toClient)
      /\ \A i \in 1..Len(toClient) : i = 1 \/ (i - 1 \in 1..Len(toClient') /\ (i - 1) + 1 = i)
  BY <1>1, WireTyped, HeadTailProperties, EmptySeq
<1> HIDE DEF f
<1>3. ASSUME NEW i \in 1..Len(stored), OnWire(i)
      PROVE  OnWire(i)' \/ f.sid = i
  <2>1. PICK j \in 1..Len(toClient) : toClient[j].sid = i
    BY <1>3 DEF OnWire
  <2>2. CASE j = 1
    BY <1>2, <2>1, <2>2
  <2>3. CASE j # 1
    <3>1. j - 1 \in 1..Len(toClient') /\ toClient'[j - 1] = toClient[j]
      BY <1>2, <2>1, <2>3
    <3>2. QED
      BY <2>1, <3>1 DEF OnWire
  <2>4. QED
    BY <2>2, <2>3
<1>4. ASSUME NEW i \in 1..Len(stored)
      PROVE  (\E j \in 1..Len(live') : live'[j].sid = i)
               <=> \/ \E j \in 1..Len(live) : live[j].sid = i
                   \/ f.sid = i /\ f.conv = active
  <2>1. CASE f.conv # active
    BY <1>1, <2>1
  <2>2. CASE f.conv = active
    <3>1. live' = Merge(live, f) /\ live \in Seq(Entry)
      BY <1>1, <2>2, WireTyped
    <3>2. CASE \E k \in 1..Len(live) :
                 f.cid # 0 /\ live[k].cid = f.cid /\ live' = Completed(live, f, k)
      <4>1. PICK k \in 1..Len(live) :
                 f.cid # 0 /\ live[k].cid = f.cid /\ live' = Completed(live, f, k)
        BY <3>2
      <4> DEFINE e == [live[k] EXCEPT !.sid = f.sid, !.status = "sent"]
      <4>2. live[k] \in Entry
        BY WireTyped
      <4>3. e.sid = f.sid /\ e \in Entry
        BY <1>2, <4>2 DEF Entry, Frame
      <4>4. /\ Len(live') = Len(live)
            /\ \A j \in 1..Len(live) : live'[j] = IF j = k THEN e ELSE live[j]
        <5>1. live' = [live EXCEPT ![k] = e]
          BY <4>1 DEF Completed
        <5> HIDE DEF e
        <5>2. QED
          BY <3>1, <4>3, <5>1, ExceptSeq
      <4>5. live[k].sid = 0 \/ live[k].sid = f.sid
        <5>1. EntryTrue(live[k]) /\ FrameTrue(f)
          BY <1>2 DEF Ident, LiveTrue, FramesTrue
        <5>2. f.sid \in 1..Len(stored) /\ stored[f.sid].cid = f.cid
          BY <4>1, <5>1 DEF FrameTrue
        <5>3. CASE live[k].sid # 0
          <6>1. live[k].sid \in 1..Len(stored) /\ stored[live[k].sid].cid = f.cid
            BY <4>1, <5>1, <5>3 DEF EntryTrue
          <6>2. QED
            BY <5>2, <6>1 DEF Ident, Unique, Distinct
        <5>4. QED
          BY <5>3
      <4>6. i # 0
        OBVIOUS
      <4> HIDE DEF e
      <4>7. (\E j \in 1..Len(live') : live'[j].sid = i) =>
               (\E j \in 1..Len(live) : live[j].sid = i) \/ f.sid = i
        BY <4>3, <4>4
      <4>8. f.sid = i => \E j \in 1..Len(live') : live'[j].sid = i
        BY <4>1, <4>3, <4>4
      <4>9. ASSUME NEW j \in 1..Len(live), live[j].sid = i
            PROVE  \E l \in 1..Len(live') : live'[l].sid = i
        <5>1. CASE j = k
          BY <4>5, <4>6, <4>8, <4>9, <5>1
        <5>2. CASE j # k
          BY <4>4, <4>9, <5>2
        <5>3. QED
          BY <5>1, <5>2
      <4>10. QED
        BY <2>2, <4>7, <4>8, <4>9
    <3>3. CASE live' = live /\ \E k \in 1..Len(live) : live[k].sid = f.sid
      BY <3>3
    <3>4. CASE live' = Added(live, f)
      <4> DEFINE e == [conv |-> f.conv, sid |-> f.sid, cid |-> f.cid, status |-> "sent"]
      <4>1. e.sid = f.sid /\ e \in Entry
        BY <1>2 DEF Entry, Frame
      <4>2. /\ Len(live') = Len(live) + 1 /\ Len(live) \in Nat
            /\ \A j \in 1..Len(live) : live'[j] = live[j]
            /\ live'[Len(live) + 1] = e
        <5>1. live' = Append(live, e)
          BY <3>4 DEF Added
        <5> HIDE DEF e
        <5>2. QED
          BY <3>1, <4>1, <5>1, AppendProperties, LenProperties
      <4> HIDE DEF e
      <4>3. /\ 1..Len(live) \subseteq 1..Len(live') /\ Len(live) + 1 \in 1..Len(live')
            /\ \A j \in 1..Len(live') : j \in 1..Len(live) \/ j = Len(live) + 1
        BY <4>2
      <4>4. QED
        BY <2>2, <4>1, <4>2, <4>3
    <3>5. QED
      BY <1>2, <3>1, <3>2, <3>3, <3>4, MergeCases
  <2>3. QED
    BY <2>1, <2>2
<1>5. ASSUME NEW i \in 1..Len(stored)
      PROVE  /\ InLive(i) => InLive(i)'
             /\ OnWire(i) => \/ OnWire(i)' \/ i \in missed'
                             \/ stored[i].conv = active /\ InLive(i)'
  <2>1. InLive(i) => InLive(i)'
    BY <1>4 DEF InLive
  <2>2. CASE f.sid = i
    <3>1. f.conv = stored[i].conv
      BY <1>2, <2>2, FrameNumber
    <3>2. f.conv = active => InLive(i)'
      BY <1>4, <2>2 DEF InLive
    <3>3. f.conv # active => i \in missed'
      BY <1>1, <2>2, SidsOne
    <3>4. QED
      BY <2>1, <3>1, <3>2, <3>3
  <2>3. QED
    BY <1>3, <2>1, <2>2
<1>6. QED
  BY <1>1, <1>5, NetCover

\* An own message joins the live list without a number.
LEMMA SendCover ==
    ASSUME TypeOK, Budget, CoverInv, FetchInv, NEW c \in Convs, own < MaxOwn, ShowAndSend(c),
           UNCHANGED <<active, stored, missed, cache, fetch, toClient>>
    PROVE  CoverInv' /\ FetchInv'
<1>1. live' = Append(live, Own(c, own')) /\ Own(c, own') \in Entry
  BY SendTyped
<1>2. /\ Len(live') = Len(live) + 1 /\ Len(live) \in Nat
      /\ \A j \in 1..Len(live) : live'[j] = live[j]
  BY <1>1, WireTyped, AppendProperties
<1>3. 1..Len(live) \subseteq 1..Len(live')
  BY <1>2
<1>4. \A i \in 1..Len(stored) : (InLive(i) => InLive(i)') /\ OnWire(i)' = OnWire(i)
  BY <1>2, <1>3 DEF InLive, OnWire
<1>5. QED
  BY <1>4, NetCover

LEMMA SignalCover ==
    ASSUME TypeOK, CoverInv, FetchInv, NEW c \in Busy, PeerSignals(c)
    PROVE  CoverInv' /\ FetchInv'
<1> DEFINE f == [conv |-> c, sid |-> 0, cid |-> 0]
<1>1. /\ toClient' = Append(toClient, f) \/ toClient' = toClient
      /\ UNCHANGED <<active, live, stored, missed, cache, fetch>>
  BY DEF PeerSignals, Broadcast, windowVars, queryVars, histVars
<1>2. f \in Frame
  <2>1. c \in Convs /\ 0 \in 0..MaxStored /\ 0 \in 0..(MaxOwn + MaxStored)
    OBVIOUS
  <2>2. QED
    BY <2>1 DEF Frame
<1> HIDE DEF f
<1>3. \A i \in 1..Len(stored) : OnWire(i) => OnWire(i)'
  <2>1. CASE toClient' = toClient
    BY <2>1 DEF OnWire
  <2>2. CASE toClient' = Append(toClient, f)
    <3>1. /\ Len(toClient') = Len(toClient) + 1 /\ Len(toClient) \in Nat
          /\ \A i \in 1..Len(toClient) : toClient'[i] = toClient[i]
      BY <1>2, <2>2, WireTyped, AppendProperties
    <3>2. 1..Len(toClient) \subseteq 1..Len(toClient')
      BY <3>1
    <3>3. QED
      BY <3>1, <3>2 DEF OnWire
  <2>3. QED
    BY <1>1, <2>1, <2>2
<1>4. \A i \in 1..Len(stored) : InLive(i)' = InLive(i)
  BY <1>1 DEF InLive
<1>5. QED
  BY <1>1, <1>3, <1>4, NetCover

LEMMA DropCover == TypeOK /\ CoverInv /\ FetchInv /\ Drop => CoverInv' /\ FetchInv'
<1> SUFFICES ASSUME TypeOK, CoverInv, FetchInv, Drop PROVE CoverInv' /\ FetchInv'
  OBVIOUS
<1>1. /\ missed' = missed \union Sids(toClient)
      /\ UNCHANGED <<active, live, stored, cache, fetch>>
  BY DEF Drop, windowVars, queryVars
<1>2. ASSUME NEW i \in 1..Len(stored), OnWire(i) PROVE i \in missed'
  <2>1. i # 0
    OBVIOUS
  <2>2. i \in Sids(toClient)
    BY <1>2, <2>1, WireTyped, SidsMember DEF OnWire
  <2>3. QED
    BY <1>1, <2>2
<1>3. \A i \in 1..Len(stored) : InLive(i)' = InLive(i)
  BY <1>1 DEF InLive
<1>4. QED
  BY <1>1, <1>2, <1>3, NetCover

LEMMA StepCover ==
    TypeOK /\ Budget /\ Ident /\ HoleInv /\ CoverInv /\ FetchInv /\ [Next]_vars
        => CoverInv' /\ FetchInv'
<1> SUFFICES ASSUME TypeOK, Budget, Ident, HoleInv, CoverInv, FetchInv, [Next]_vars
             PROVE  CoverInv' /\ FetchInv'
  OBVIOUS
<1>1. CASE SendText
  <2>1. active \in Convs
    BY DEF TypeOK, WindowTypes
  <2>2. QED
    BY <1>1, <2>1, SendCover DEF SendText, CanSubmit, queryVars, histVars
<1>2. CASE FileUploaded
  <2>1. upload.conv \in Convs
    BY <1>2 DEF FileUploaded, TypeOK, WindowTypes
  <2>2. QED
    BY <1>2, <2>1, SendCover DEF FileUploaded, queryVars, histVars
<1>3. CASE PickFile \/ FileDropped \/ ServerRefuses \/ Reconnect \/ UNCHANGED vars
  <2>1. UNCHANGED <<active, live, toClient, stored, missed, cache, fetch>>
    BY <1>3 DEF PickFile, FileDropped, ServerRefuses, Reconnect, vars, windowVars, queryVars,
                netVars, histVars
  <2>2. \A i \in 1..Len(stored) : InLive(i)' = InLive(i) /\ OnWire(i)' = OnWire(i)
    BY <2>1 DEF InLive, OnWire
  <2>3. QED
    BY <2>1, <2>2, NetCover
<1>4. CASE ServerStores
  <2> DEFINE c == Head(toServer).conv
             n == Head(toServer).cid
  <2>1. /\ Store(c, n) /\ c \in Convs /\ n \in 1..(MaxOwn + MaxStored)
        /\ Len(stored) < MaxStored
        /\ UNCHANGED <<active, live, cache, fetch, switches>>
    BY <1>4, Room DEF ServerStores, windowVars, queryVars
  <2> HIDE DEF c, n
  <2>2. QED
    BY <2>1, StoreCover
<1>5. CASE \E c \in Busy : PeerSends(c)
  <2>1. PICK c \in Busy : PeerSends(c)
    BY <1>5
  <2> DEFINE n == MaxOwn + Len(stored) + 1
  <2>2. /\ Store(c, n) /\ c \in Convs /\ n \in 1..(MaxOwn + MaxStored)
        /\ Len(stored) < MaxStored
        /\ UNCHANGED <<active, live, cache, fetch, switches>>
    BY <2>1, StoredIds DEF PeerSends, TypeOK, windowVars, queryVars
  <2> HIDE DEF n
  <2>3. QED
    BY <2>2, StoreCover
<1>6. QED
  BY <1>1, <1>2, <1>3, <1>4, <1>5, FetchNextPageCover, ReceiveCover, DropCover, SelectCover,
     ServeCover, ArriveCover, FailCover, SignalCover DEF Next, HandleMessage

\* Every message of the open conversation is shown, below the pages loaded, on
\* its way, or among those the window is known to have missed or forgotten:
\* pages and live list meet, for any page size and any number of switches,
\* refetches and lost connections.
THEOREM NothingFallsThroughHolds == Spec => []NothingFallsThrough
<1>1. Init => TypeOK /\ Budget /\ Ident /\ HoleInv /\ CoverInv /\ FetchInv
  BY InitTyped, InitIdent, InitHole, InitCover
<1>2. TypeOK /\ Budget /\ Ident /\ HoleInv /\ CoverInv /\ FetchInv /\ [Next]_vars
        => TypeOK' /\ Budget' /\ Ident' /\ HoleInv' /\ CoverInv' /\ FetchInv'
  BY StepTyped, StepIdent, StepHole, StepCover
<1>3. TypeOK /\ HoleInv /\ CoverInv => NothingFallsThrough
  <2> SUFFICES ASSUME TypeOK, HoleInv, CoverInv, NEW i \in Ids(active)
               PROVE  \/ i \in ShownIds
                      \/ Loaded(active) # {} /\ \A k \in Loaded(active) : i < k
                      \/ \E f \in ToSet(toClient) : f.sid = i
                      \/ i \in missed
    BY DEF NothingFallsThrough
  <2>1. /\ i \in 1..Len(stored) /\ Len(stored) \in Nat /\ active \in Convs
        /\ Loaded(active) = Items(cache[active])
        /\ NoHole(active, cache[active])
    BY NewerCounts, LoadedItems DEF TypeOK, WindowTypes, HoleInv
  <2>2. Covered(cache[active], i) \/ i \in missed \/ OnWire(i) \/ InLive(i)
    BY <2>1 DEF CoverInv
  <2>3. CASE i \in missed
    BY <2>3
  <2>4. CASE OnWire(i)
    BY <2>4, WireTyped, ToSetMember DEF OnWire
  <2>5. CASE InLive(i)
    <3>1. i # 0
      BY <2>1
    <3>2. i \in Sids(live)
      BY <2>5, <3>1, WireTyped, SidsMember DEF InLive
    <3>3. QED
      BY <3>2 DEF ShownIds
  <2>6. CASE i \in Loaded(active)
    BY <2>6 DEF ShownIds
  <2>7. CASE i \notin Loaded(active) /\ Covered(cache[active], i)
    <3>1. cache[active] # <<>> /\ \E h \in cache[active][1].items : i <= h
      BY <2>1, <2>7 DEF Covered
    <3>2. PICK h \in cache[active][1].items : i <= h
      BY <3>1
    <3>3. h \in Loaded(active)
      <4>1. 1 \in DOMAIN cache[active]
        BY <2>1, <3>1, FetchTyped, LenProperties, EmptySeq DEF TypeOK
      <4>2. QED
        BY <3>2, <4>1 DEF Loaded
    <3>4. ASSUME NEW k \in Loaded(active) PROVE i < k
      <4>1. k \in 1..Len(stored)
        BY <2>1 DEF NoHole
      <4>2. ~(k <= i)
        BY <2>1, <2>7, <3>1, <3>2 DEF NoHole
      <4>3. QED
        BY <2>1, <4>1, <4>2
    <3>5. QED
      BY <3>3, <3>4
  <2>8. QED
    BY <2>2, <2>3, <2>4, <2>5, <2>6, <2>7
<1>4. QED
  BY <1>1, <1>2, <1>3, PTL DEF Spec
=============================================================================
