----------------------------- MODULE InboxProofs -----------------------------
(* What holds of the conversation list for any number of conversations,    *)
(* messages and troubles, and any size of a page.                          *)
EXTENDS Inbox, FiniteSetTheorems, SequenceTheorems, WellFoundedInduction, TLAPS

USE PageAssumption, BoundAssumption, BegunAssumption

FetchRecord == [kind : {"none", "first", "all", "next"}, got : Seq(PageType), want : Nat]

\* Every timer and every frame on the way stands for a message of its own.
Budget ==
    /\ IsFiniteSet(chats) /\ timers + Cardinality(chats) <= stored
    /\ \A f \in chats : f.n <= stored
    /\ \A f, g \in chats : f.n = g.n => f = g
    /\ newest <= stored + 1 /\ events <= changes

Types == TypeOK /\ fetch \in FetchRecord /\ Budget

\* The marks of local storage, and the counts of the rows, against what was
\* heard.  Only a next page carries counts on, which opening cannot reach.
Marks ==
    /\ unseen \subseteq unread /\ active \notin unseen
    /\ unread \subseteq unseen \cup ghosts

Counts ==
    /\ \A r \in Rows(cache) \cup Rows(fetch.got) : r.unread => r.conv \in unseen \cup ghosts
    /\ \A r \in Rows(fetch.got) : r.unread => fetch.kind = "next"

\* Conversations with a frame on the way.  If no frame is late they are the
\* head of the server's list, the latest message first.
Awaited == {f.conv : f \in chats}
Late == \E f \in chats : f.n < newest

HeadInv ==
    \A f \in chats :
       /\ f.conv \in ToSet(order)
       /\ ~ f.n < newest =>
             \A d \in Convs : Before(d, f.conv) => \E g \in chats : g.conv = d /\ g.n > f.n

\* Some pages list what the server has, and no more than fits in.
Fits(pages) ==
    /\ IsFiniteSet(ListedIn(pages)) /\ Cardinality(ListedIn(pages)) <= Len(pages) * PageSize
    /\ ListedIn(pages) \subseteq ToSet(order)

\* Some pages follow the server's list, apart from what frames on the way will
\* move to the top; and they are full if there are more.
Trails(pages) ==
    /\ \A x, y \in Places(pages) :
          Above(x, y) => \/ RowAt(pages, x).conv \in Awaited
                         \/ RowAt(pages, y).conv \in Awaited
                         \/ Before(RowAt(pages, x).conv, RowAt(pages, y).conv)
    /\ \A d \in Convs, e \in ListedIn(pages) : Before(d, e) => d \in ListedIn(pages)
    /\ pages = <<>> \/ HasNextPage(pages) =>
          Cardinality(ListedIn(pages)) = Len(pages) * PageSize

Boxed(pages) == \A r \in Rows(pages) : r.friend = (r.conv \in friends)

\* Either something is still to come that will cause a refetch, or the pages
\* trail the list.
Tracks(pages) ==
    \/ Late \/ events > 0 \/ timers > 0
    \/ Boxed(pages) /\ (Awaited \subseteq ListedIn(pages) => Trails(pages))

\* A page that is marked invalid is being read again or will be when the list
\* is shown.
InvalidInv ==
    invalid /\ ~behind =>
       fetch.kind \in {"first", "all"} \/ (~mounted /\ fetch.kind = "none")

\* What will be on the screen, of the cache and the fetch under way.
Coming ==
    {p \in {cache, fetch.got} : \/ p = cache /\ ~invalid /\ fetch.kind \in {"none", "next"}
                                \/ p = fetch.got /\ fetch.kind # "none"}

TrackInv == ~behind => \A p \in Coming : Tracks(p)

FitInv == \A p \in {cache, fetch.got} : Fits(p)

ListInv == HeadInv /\ FitInv /\ InvalidInv /\ TrackInv

IInv == Types /\ Marks /\ Counts /\ ListInv

-----------------------------------------------------------------------------
\* Enumerations, and what the filter returns.

\* A set of natural numbers that is not empty has a least one.
LEMMA Least ==
    ASSUME NEW S, S \subseteq Nat, S # {}
    PROVE  \E i \in S : \A j \in S : i <= j
<1>1. PICK i \in S : \A j \in S : ~ (<<j, i>> \in OpToRel(<, Nat))
  BY NatLessThanWellFounded, WFMin
<1>2. ASSUME NEW j \in S, j < i PROVE FALSE
  <2>1. <<j, i>> \in Nat \X Nat /\ <<j, i>>[1] < <<j, i>>[2]
    BY <1>2
  <2>2. QED
    BY <1>1, <2>1 DEF OpToRel
<1>3. QED
  BY <1>2

\* A set of positions can be enumerated in increasing order.
LEMMA Enumerable ==
    ASSUME NEW n \in Nat, NEW I \in SUBSET (1..n)
    PROVE  /\ IsFiniteSet(I) /\ Cardinality(I) \in Nat
           /\ \E f \in Bijection(1..Cardinality(I), I) :
                 \A i, j \in 1..Cardinality(I) : i < j => f[i] < f[j]
<1> DEFINE Good(J) == \E f \in Bijection(1..Cardinality(J), J) :
                         \A i, j \in 1..Cardinality(J) : i < j => f[i] < f[j]
           Bad == {m \in Nat : \E J \in SUBSET (1..m) : ~Good(J)}
<1>1. \A m \in Nat : \A J \in SUBSET (1..m) : IsFiniteSet(J) /\ Cardinality(J) \in Nat
  <2>1. TAKE m \in Nat
  <2>2. IsFiniteSet(1..m)
    BY FS_Interval
  <2>3. TAKE J \in SUBSET (1..m)
  <2>4. IsFiniteSet(J)
    BY <2>2, FS_Subset
  <2>5. QED
    BY <2>4, FS_CardinalityType
<1>2. Bad = {}
  <2>1. SUFFICES ASSUME Bad # {} PROVE FALSE
    OBVIOUS
  <2>2. PICK m \in Bad : \A y \in Bad : m <= y
    <3> HIDE DEF Good
    <3>1. Bad \subseteq Nat
      OBVIOUS
    <3> HIDE DEF Bad
    <3>2. QED
      BY <2>1, <3>1, Least
  <2>3. \A y \in Bad : ~ y < m
    <3>1. \A y \in Bad : y \in Nat
      OBVIOUS
    <3> HIDE DEF Bad
    <3>2. QED
      BY <2>2, <3>1
  <2>4. m \in Nat
    OBVIOUS
  <2>5. PICK J \in SUBSET (1..m) : ~Good(J)
    OBVIOUS
  <2>6. m # 0
    <3>1. SUFFICES ASSUME m = 0 PROVE Good(J)
      BY <2>5
    <3>2. J = {}
      BY <3>1
    <3>3. Cardinality(J) = 0
      BY <3>2, FS_EmptySet
    <3> DEFINE e == [x \in 1..0 |-> x]
    <3>4. e \in Bijection(1..0, {})
      BY DEF Bijection, Injection, Surjection, IsInjective
    <3>5. QED
      BY <3>2, <3>3, <3>4
  <2>7. m - 1 \in Nat /\ m - 1 \notin Bad
    <3> HIDE DEF Bad
    <3>1. QED
      BY <2>3, <2>4, <2>6
  <2>8. \A K \in SUBSET (1..(m - 1)) : Good(K)
    <3> HIDE DEF Good
    <3>1. QED
      BY <2>7
  <2> DEFINE K == J \ {m}
  <2>9. K \in SUBSET (1..(m - 1))
    BY <2>4, <2>6
  <2>10. CASE m \notin J
    BY <2>5, <2>8, <2>9, <2>10
  <2>11. CASE m \in J
    <3>1. PICK f \in Bijection(1..Cardinality(K), K) :
             \A i, j \in 1..Cardinality(K) : i < j => f[i] < f[j]
      BY <2>8, <2>9
    <3>2. Cardinality(J) = Cardinality(K) + 1 /\ Cardinality(K) \in Nat
      <4>1. IsFiniteSet(J) /\ Cardinality(J) \in Nat
        BY <1>1, <2>4
      <4>2. Cardinality(K) = Cardinality(J) - 1
        BY <2>11, <4>1, FS_RemoveElement
      <4>3. Cardinality(K) \in Nat
        BY <1>1, <2>7, <2>9
      <4>4. QED
        BY <4>1, <4>2, <4>3
    <3> DEFINE k == Cardinality(K)
               g == [i \in 1..(k + 1) |-> IF i = k + 1 THEN m ELSE f[i]]
    <3> HIDE DEF k
    <3>3. k \in Nat /\ Cardinality(J) = k + 1
      BY <3>2 DEF k
    <3>4. f \in [1..k -> K] /\ (\A i, j \in 1..k : f[i] = f[j] => i = j)
          /\ (\A x \in K : \E i \in 1..k : f[i] = x) /\ (\A i, j \in 1..k : i < j => f[i] < f[j])
      BY <3>1 DEF k, Bijection, Injection, Surjection, IsInjective
    <3>5. g \in [1..(k + 1) -> J] /\ \A i \in 1..k : g[i] = f[i] /\ f[i] \in K /\ f[i] < m
      <4>1. \A i \in 1..k : f[i] \in K
        BY <3>4
      <4>2. \A x \in K : x \in J /\ x \in Nat /\ x < m
        BY <2>4, <2>9
      <4>3. \A i \in 1..k : i \in 1..(k + 1) /\ i # k + 1
        BY <3>3
      <4> HIDE DEF K
      <4>4. QED
        BY <2>11, <3>3, <4>1, <4>2, <4>3
    <3>6. g[k + 1] = m
      BY <3>3
    <3>7. \A i, j \in 1..(k + 1) : i < j => g[i] < g[j]
      <4>1. TAKE i, j \in 1..(k + 1)
      <4>2. HAVE i < j
      <4>3. i \in 1..k
        BY <3>3, <4>2
      <4>4. CASE j = k + 1
        BY <3>5, <3>6, <4>3, <4>4
      <4>5. CASE j # k + 1
        <5>1. j \in 1..k
          BY <3>3, <4>5
        <5>2. QED
          BY <3>4, <3>5, <4>2, <4>3, <5>1
      <4>6. QED
        BY <4>4, <4>5
    <3>8. \A i, j \in 1..(k + 1) : g[i] = g[j] => i = j
      <4>1. TAKE i, j \in 1..(k + 1)
      <4>2. HAVE g[i] = g[j]
      <4>3. g[i] \in Nat /\ g[j] \in Nat
        <5>1. \A x \in J : x \in Nat
          BY <2>4
        <5> HIDE DEF g
        <5>2. QED
          BY <3>5, <5>1
      <4>4. ~ i < j /\ ~ j < i
        BY <3>7, <4>2, <4>3
      <4>5. QED
        BY <4>4
    <3>9. \A x \in J : \E i \in 1..(k + 1) : g[i] = x
      <4>1. TAKE x \in J
      <4>2. CASE x = m
        BY <3>3, <3>6, <4>2
      <4>3. CASE x # m
        <5>1. PICK i \in 1..k : f[i] = x
          BY <3>4, <4>3
        <5>2. QED
          BY <3>3, <3>5, <5>1
      <4>4. QED
        BY <4>2, <4>3
    <3>10. g \in Bijection(1..(k + 1), J)
      <4> HIDE DEF g
      <4>1. QED
        BY <3>5, <3>8, <3>9 DEF Bijection, Injection, Surjection, IsInjective
    <3>11. Good(J)
      <4> HIDE DEF g
      <4>1. QED
        BY <3>3, <3>7, <3>10
    <3>12. QED
      BY <2>5, <3>11
  <2>12. QED
    BY <2>10, <2>11
<1>3. Good(I)
  <2> HIDE DEF Good
  <2>1. QED
    BY <1>2
<1>4. QED
  BY <1>1, <1>3

\* f says where in s the entries of w come from: from the positions in J, all
\* of them, and in their order.
Drawn(w, s, J, f) ==
    /\ f \in [1..Len(w) -> J]
    /\ \A i \in 1..Len(w) : w[i] = s[f[i]]
    /\ \A i, j \in 1..Len(w) : i < j => f[i] < f[j]
    /\ \A x \in J : \E i \in 1..Len(w) : f[i] = x

\* The filter keeps the entries at the positions it is given, in their order.
LEMMA FilterKeeps ==
    ASSUME NEW S, NEW s \in Seq(S), NEW I \in SUBSET (1..Len(s))
    PROVE  /\ Filter(s, I) \in Seq(S)
           /\ \E f : Drawn(Filter(s, I), s, I, f)
<1> DEFINE n  == Cardinality(I)
           at == CHOOSE f \in Bijection(1..n, I) : \A i, j \in 1..n : i < j => f[i] < f[j]
<1>1. n \in Nat /\ \E f \in Bijection(1..n, I) : \A i, j \in 1..n : i < j => f[i] < f[j]
  BY Enumerable, LenProperties
<1>2. at \in Bijection(1..n, I) /\ \A i, j \in 1..n : i < j => at[i] < at[j]
  <2> HIDE DEF n
  <2>1. QED
    BY <1>1
<1>3. at \in [1..n -> I] /\ \A x \in I : \E i \in 1..n : at[i] = x
  <2> HIDE DEF at
  <2>1. QED
    BY <1>2 DEF Bijection, Injection, Surjection
<1>4. Filter(s, I) = [i \in 1..n |-> s[at[i]]]
  BY DEF Filter
<1> HIDE DEF n, at
<1>5. \A i \in 1..n : s[at[i]] \in S
  BY <1>3, ElementOfSeq
<1>6. Filter(s, I) \in Seq(S) /\ Len(Filter(s, I)) = n
      /\ \A i \in 1..n : Filter(s, I)[i] = s[at[i]]
  <2>1. [i \in 1..n |-> s[at[i]]] \in [1..n -> S]
    BY <1>5
  <2>2. QED
    BY <1>1, <1>4, <2>1, SeqDef, LenProperties, IsASeq
<1>7. Drawn(Filter(s, I), s, I, at)
  BY <1>2, <1>3, <1>6 DEF Drawn
<1>8. QED
  BY <1>6, <1>7

-----------------------------------------------------------------------------
\* The server's list.

Sorted == order \in Seq(Convs) /\ IsInjective(order)

\* Who stands before whom is a strict order of the conversations in the list.
LEMMA ListOrder ==
    ASSUME Sorted
    PROVE  /\ \A d, e : Before(d, e) => d \in ToSet(order) /\ e \in ToSet(order) /\ d # e
           /\ \A d, e : Before(d, e) => ~Before(e, d)
           /\ \A d, e \in ToSet(order) : d # e => Before(d, e) \/ Before(e, d)
           /\ ToSet(order) \subseteq Convs
<1>1. order \in Seq(Convs) /\ DOMAIN order = 1..Len(order) /\ Len(order) \in Nat
      /\ \A i \in 1..Len(order) : order[i] \in Convs
  BY ElementOfSeq, LenProperties DEF Sorted
<1>2. \A i, j \in 1..Len(order) : order[i] = order[j] => i = j
  BY <1>1 DEF Sorted, IsInjective
<1>3. \A d, e : Before(d, e) <=> \E i, j \in 1..Len(order) : i < j /\ order[i] = d /\ order[j] = e
  BY <1>1 DEF Before
<1>4. \A d : d \in ToSet(order) <=> \E i \in 1..Len(order) : order[i] = d
  BY <1>1 DEF ToSet
<1>5. \A d, e : Before(d, e) => d \in ToSet(order) /\ e \in ToSet(order) /\ d # e
  <2>1. TAKE d, e
  <2>2. HAVE Before(d, e)
  <2>3. PICK i, j \in 1..Len(order) : i < j /\ order[i] = d /\ order[j] = e
    BY <1>3, <2>2
  <2>4. QED
    BY <1>1, <1>2, <1>4, <2>3
<1>6. \A d, e : Before(d, e) => ~Before(e, d)
  <2>1. SUFFICES ASSUME NEW d, NEW e, Before(d, e), Before(e, d) PROVE FALSE
    OBVIOUS
  <2>2. PICK i, j \in 1..Len(order) : i < j /\ order[i] = d /\ order[j] = e
    BY <1>3, <2>1
  <2>3. PICK k, l \in 1..Len(order) : k < l /\ order[k] = e /\ order[l] = d
    BY <1>3, <2>1
  <2>4. i = l /\ j = k
    BY <1>2, <2>2, <2>3
  <2>5. QED
    BY <1>1, <2>2, <2>3, <2>4
<1>7. \A d, e \in ToSet(order) : d # e => Before(d, e) \/ Before(e, d)
  <2>1. TAKE d, e \in ToSet(order)
  <2>2. HAVE d # e
  <2>3. PICK i \in 1..Len(order) : order[i] = d
    BY <1>4
  <2>4. PICK j \in 1..Len(order) : order[j] = e
    BY <1>4
  <2>5. i < j \/ j < i
    BY <1>1, <2>2, <2>3, <2>4
  <2>6. QED
    BY <1>3, <2>3, <2>4, <2>5
<1>8. QED
  BY <1>1, <1>4, <1>5, <1>6, <1>7

\* Who is put in front stands before the others, who keep their order.
LEMMA InFront ==
    ASSUME Sorted, NEW c \in Convs, order' = ToFront(c)
    PROVE  /\ Sorted' /\ ToSet(order)' = ToSet(order) \cup {c}
           /\ \A d, e : Before(d, e)' <=>
                 \/ d = c /\ e # c /\ e \in ToSet(order)
                 \/ d # c /\ e # c /\ Before(d, e)
<1>0. PICK J : J = {i \in DOMAIN order : order[i] # c}
  OBVIOUS
<1> DEFINE q == Filter(order, J)
<1>1. order \in Seq(Convs) /\ DOMAIN order = 1..Len(order) /\ Len(order) \in Nat
  BY LenProperties DEF Sorted
<1>2. J \in SUBSET (1..Len(order))
  BY <1>0, <1>1
<1>3. /\ q \in Seq(Convs)
      /\ \E f : Drawn(q, order, J, f)
  <2>1. order \in Seq(Convs)
    BY <1>1
  <2>2. QED
    BY <1>2, <2>1, FilterKeeps
<1>5. order' = <<c>> \o q
  BY <1>0 DEF ToFront
<1> HIDE DEF q
<1>4. PICK f \in [1..Len(q) -> J] :
         /\ \A i \in 1..Len(q) : q[i] = order[f[i]]
         /\ \A i, j \in 1..Len(q) : i < j => f[i] < f[j]
         /\ \A x \in J : \E i \in 1..Len(q) : f[i] = x
  BY <1>3 DEF Drawn
<1>6. Len(q) \in Nat /\ <<c>> \in Seq(Convs) /\ Len(<<c>>) = 1 /\ <<c>>[1] = c
  BY <1>3, LenProperties
<1>7. /\ order' \in Seq(Convs) /\ Len(order') = Len(q) + 1 /\ order'[1] = c
      /\ \A i \in 1..Len(q) : order'[i + 1] = q[i]
  <2>1. order' \in Seq(Convs) /\ Len(order') = 1 + Len(q)
        /\ \A i \in 1..1 + Len(q) : order'[i] = IF i <= 1 THEN <<c>>[i] ELSE q[i - 1]
    BY <1>3, <1>5, <1>6, ConcatProperties
  <2>2. QED
    BY <1>6, <2>1
<1>8. DOMAIN order' = 1..(Len(q) + 1)
  BY <1>7, LenProperties
<1>9. \A i \in 1..Len(q) : f[i] \in 1..Len(order) /\ q[i] = order[f[i]] /\ q[i] # c
  BY <1>0, <1>1, <1>4
<1>10. \A k \in 1..(Len(q) + 1) : k = 1 \/ \E i \in 1..Len(q) : k = i + 1
  <2>1. TAKE k \in 1..(Len(q) + 1)
  <2>2. k = 1 \/ (k - 1 \in 1..Len(q) /\ k = (k - 1) + 1)
    BY <1>6
  <2>3. QED
    BY <2>2
<1>11. \A i, j \in 1..Len(order) : order[i] = order[j] => i = j
  BY <1>1 DEF Sorted, IsInjective
<1>12. \A i, j \in 1..Len(q) : q[i] = q[j] => i = j
  <2>1. TAKE i, j \in 1..Len(q)
  <2>2. HAVE q[i] = q[j]
  <2>3. f[i] = f[j] /\ f[i] \in Nat
    BY <1>1, <1>9, <1>11, <2>2
  <2>4. ~ i < j /\ ~ j < i
    BY <1>4, <2>3
  <2>5. QED
    BY <1>6, <2>4
<1>13. \A d : d \in ToSet(order) /\ d # c => \E i \in 1..Len(q) : q[i] = d
  <2>1. TAKE d
  <2>2. HAVE d \in ToSet(order) /\ d # c
  <2>3. PICK x \in 1..Len(order) : order[x] = d
    BY <1>1, <2>2 DEF ToSet
  <2>4. x \in J
    BY <1>0, <1>1, <2>2, <2>3
  <2>5. PICK i \in 1..Len(q) : f[i] = x
    BY <1>4, <2>4
  <2>6. QED
    BY <1>9, <2>3, <2>5
<1>14. Sorted'
  <2>1. \A i, j \in 1..(Len(q) + 1) : order'[i] = order'[j] => i = j
    <3>1. TAKE i, j \in 1..(Len(q) + 1)
    <3>2. HAVE order'[i] = order'[j]
    <3>3. CASE i = 1 \/ j = 1
      <4>1. order'[i] = c /\ order'[j] = c
        BY <1>7, <3>2, <3>3
      <4>2. \A k \in 1..(Len(q) + 1) : order'[k] = c => k = 1
        <5>1. TAKE k \in 1..(Len(q) + 1)
        <5>2. ASSUME NEW n \in 1..Len(q), k = n + 1 PROVE order'[k] # c
          BY <1>7, <1>9, <5>2
        <5>3. QED
          BY <1>10, <5>2
      <4>3. QED
        BY <4>1, <4>2
    <3>4. CASE i # 1 /\ j # 1
      <4>1. PICK k \in 1..Len(q) : i = k + 1
        BY <1>10, <3>4
      <4>2. PICK l \in 1..Len(q) : j = l + 1
        BY <1>10, <3>4
      <4>3. QED
        BY <1>7, <1>12, <3>2, <4>1, <4>2
    <3>5. QED
      BY <3>3, <3>4
  <2>2. QED
    BY <1>7, <1>8, <2>1 DEF Sorted, IsInjective
<1>15. ToSet(order)' = ToSet(order) \cup {c}
  <2>1. ToSet(order)' = {order'[i] : i \in 1..(Len(q) + 1)}
    BY <1>8 DEF ToSet
  <2>2. ASSUME NEW d \in ToSet(order)' PROVE d \in ToSet(order) \cup {c}
    <3>1. PICK k \in 1..(Len(q) + 1) : order'[k] = d
      BY <2>1
    <3>2. CASE k = 1
      BY <1>7, <3>1, <3>2
    <3>3. CASE k # 1
      <4>1. PICK i \in 1..Len(q) : k = i + 1
        BY <1>10, <3>3
      <4>2. d = order[f[i]] /\ f[i] \in 1..Len(order)
        BY <1>7, <1>9, <3>1, <4>1
      <4>3. QED
        BY <1>1, <4>2 DEF ToSet
    <3>4. QED
      BY <3>2, <3>3
  <2>3. ASSUME NEW d \in ToSet(order) \cup {c} PROVE d \in ToSet(order)'
    <3>1. CASE d = c
      <4>1. 1 \in 1..(Len(q) + 1)
        BY <1>6
      <4>2. QED
        BY <1>7, <2>1, <3>1, <4>1
    <3>2. CASE d # c
      <4>1. PICK i \in 1..Len(q) : q[i] = d
        BY <1>13, <2>3, <3>2
      <4>2. i + 1 \in 1..(Len(q) + 1) /\ order'[i + 1] = d
        BY <1>6, <1>7, <4>1
      <4>3. QED
        BY <2>1, <4>2
    <3>3. QED
      BY <3>1, <3>2
  <2>4. QED
    BY <2>2, <2>3
<1>16. ASSUME NEW d, NEW e, Before(d, e)'
       PROVE  \/ d = c /\ e # c /\ e \in ToSet(order)
              \/ d # c /\ e # c /\ Before(d, e)
  <2>1. PICK k, l \in 1..(Len(q) + 1) : k < l /\ order'[k] = d /\ order'[l] = e
    BY <1>8, <1>16 DEF Before
  <2>2. PICK j \in 1..Len(q) : l = j + 1
    BY <1>6, <1>10, <2>1
  <2>3. e = order[f[j]] /\ f[j] \in 1..Len(order) /\ e # c
    BY <1>7, <1>9, <2>1, <2>2
  <2>4. e \in ToSet(order)
    BY <1>1, <2>3 DEF ToSet
  <2>5. CASE k = 1
    BY <1>7, <2>1, <2>3, <2>4, <2>5
  <2>6. CASE k # 1
    <3>1. PICK i \in 1..Len(q) : k = i + 1
      BY <1>10, <2>6
    <3>2. d = order[f[i]] /\ f[i] \in 1..Len(order) /\ d # c /\ f[i] < f[j]
      <4>1. d = q[i] /\ i < j
        BY <1>6, <1>7, <2>1, <2>2, <3>1
      <4>2. QED
        BY <1>4, <1>9, <4>1
    <3>3. Before(d, e)
      BY <1>1, <2>3, <3>2 DEF Before
    <3>4. QED
      BY <2>3, <3>2, <3>3
  <2>7. QED
    BY <2>5, <2>6
<1>17. ASSUME NEW d, NEW e, d = c /\ e # c /\ e \in ToSet(order) PROVE Before(d, e)'
  <2>1. PICK j \in 1..Len(q) : q[j] = e
    BY <1>13, <1>17
  <2>2. 1 \in DOMAIN order' /\ j + 1 \in DOMAIN order' /\ 1 < j + 1
        /\ order'[1] = d /\ order'[j + 1] = e
    BY <1>6, <1>7, <1>8, <1>17, <2>1
  <2>3. QED
    BY <2>2 DEF Before
<1>18. ASSUME NEW d, NEW e, d # c /\ e # c /\ Before(d, e) PROVE Before(d, e)'
  <2>1. PICK x, y \in 1..Len(order) : x < y /\ order[x] = d /\ order[y] = e
    BY <1>1, <1>18 DEF Before
  <2>2. x \in J /\ y \in J
    BY <1>0, <1>1, <1>18, <2>1
  <2>3. PICK i \in 1..Len(q) : f[i] = x
    BY <1>4, <2>2
  <2>4. PICK j \in 1..Len(q) : f[j] = y
    BY <1>4, <2>2
  <2>5. i < j
    <3>1. i # j /\ ~ j < i
      BY <1>1, <1>4, <2>1, <2>3, <2>4
    <3>2. QED
      BY <3>1
  <2>6. i + 1 \in DOMAIN order' /\ j + 1 \in DOMAIN order' /\ i + 1 < j + 1
        /\ order'[i + 1] = d /\ order'[j + 1] = e
    BY <1>6, <1>7, <1>8, <1>9, <2>1, <2>3, <2>4, <2>5
  <2>7. QED
    BY <2>6 DEF Before
<1>19. QED
  <2>1. \A d, e : Before(d, e)' <=>
           \/ d = c /\ e # c /\ e \in ToSet(order)
           \/ d # c /\ e # c /\ Before(d, e)
    BY <1>16, <1>17, <1>18
  <2>2. QED
    BY <1>14, <1>15, <2>1

-----------------------------------------------------------------------------
\* Places and rows.

LEMMA PlaceElim ==
    ASSUME NEW pages \in Seq(PageType), NEW x \in Places(pages)
    PROVE  /\ x[1] \in 1..Len(pages) /\ x[2] \in 1..Len(pages[x[1]].items)
           /\ x = <<x[1], x[2]>>
           /\ RowAt(pages, x) \in Row /\ pages[x[1]].items \in Seq(Row)
<1>1. PICK i \in DOMAIN pages : x \in {i} \X DOMAIN pages[i].items
  BY DEF Places
<1>2. DOMAIN pages = 1..Len(pages)
  BY LenProperties
<1>3. pages[i] \in PageType
  BY <1>1, <1>2, ElementOfSeq
<1>4. pages[i].items \in Seq(Row)
  BY <1>3 DEF PageType
<1>5. DOMAIN pages[i].items = 1..Len(pages[i].items)
  BY <1>4, LenProperties
<1>6. x[1] = i /\ x[2] \in 1..Len(pages[i].items) /\ x = <<x[1], x[2]>>
  BY <1>1, <1>5
<1>7. pages[i].items[x[2]] \in Row
  BY <1>4, <1>6, ElementOfSeq
<1>8. QED
  BY <1>1, <1>2, <1>4, <1>6, <1>7 DEF RowAt

LEMMA PlaceIntro ==
    ASSUME NEW pages \in Seq(PageType), NEW i \in 1..Len(pages),
           NEW j \in 1..Len(pages[i].items)
    PROVE  /\ <<i, j>> \in Places(pages)
           /\ RowAt(pages, <<i, j>>) = pages[i].items[j] /\ pages[i].items[j] \in Row
<1>1. DOMAIN pages = 1..Len(pages)
  BY LenProperties
<1>2. pages[i] \in PageType
  BY ElementOfSeq
<1>3. pages[i].items \in Seq(Row)
  BY <1>2 DEF PageType
<1>4. j \in DOMAIN pages[i].items /\ pages[i].items[j] \in Row
  BY <1>3, LenProperties, ElementOfSeq
<1>5. <<i, j>> \in {i} \X DOMAIN pages[i].items
  BY <1>4
<1>6. QED
  BY <1>1, <1>4, <1>5 DEF Places, RowAt

LEMMA NoPlaces ==
    /\ Places(<<>>) = {} /\ Rows(<<>>) = {} /\ ListedIn(<<>>) = {}
BY DEF Places, Rows, ListedIn

LEMMA ListedAt ==
    ASSUME NEW pages
    PROVE  /\ \A x \in Places(pages) : RowAt(pages, x) \in Rows(pages)
           /\ \A x \in Places(pages) : RowAt(pages, x).conv \in ListedIn(pages)
           /\ \A r \in Rows(pages) : \E x \in Places(pages) : r = RowAt(pages, x)
           /\ \A e \in ListedIn(pages) : \E x \in Places(pages) : e = RowAt(pages, x).conv
BY DEF Rows, ListedIn

\* Above is the order in which the rows are read.
LEMMA AboveOrder ==
    ASSUME NEW pages \in Seq(PageType)
    PROVE  /\ \A x \in Places(pages) : ~Above(x, x)
           /\ \A x, y \in Places(pages) : Above(x, y) => ~Above(y, x)
           /\ \A x, y \in Places(pages) : x # y => Above(x, y) \/ Above(y, x)
           /\ \A x \in Places(pages) : ~Above(x, <<1, 1>>)
<1>1. \A x \in Places(pages) : x[1] \in Nat \ {0} /\ x[2] \in Nat \ {0} /\ x = <<x[1], x[2]>>
  BY PlaceElim
<1>2. QED
  BY <1>1 DEF Above

LEMMA MinOfTwo ==
    ASSUME NEW a \in Nat, NEW b \in Nat
    PROVE  Min({a, b}) = IF a <= b THEN a ELSE b
<1>1. \E x \in {a, b} : \A y \in {a, b} : x =< y
  OBVIOUS
<1>2. Min({a, b}) \in {a, b} /\ \A y \in {a, b} : Min({a, b}) =< y
  BY <1>1 DEF Min
<1>3. QED
  BY <1>2

\* A page of the server: so many entries of its list from its place on.
LEMMA PageShows ==
    ASSUME Sorted, NEW p \in Nat
    PROVE  /\ Page(p) \in PageType /\ p * PageSize \in Nat
           /\ \A j \in 1..Len(Page(p).items) :
                 /\ p * PageSize + j \in 1..Len(order) /\ j <= PageSize
                 /\ Page(p).items[j] = ToRow(order[p * PageSize + j])
           /\ \A i \in 1..Len(order) :
                 p * PageSize < i /\ i <= p * PageSize + PageSize =>
                    i - p * PageSize \in 1..Len(Page(p).items)
           /\ Page(p).hasNext <=> Len(order) > p * PageSize + PageSize
           /\ (p + 1) * PageSize = p * PageSize + PageSize
<1>1. order \in Seq(Convs) /\ Len(order) \in Nat /\ \A i \in 1..Len(order) : order[i] \in Convs
  BY ElementOfSeq, LenProperties DEF Sorted
<1>2. PICK M \in Nat : M = p * PageSize /\ (p + 1) * PageSize = M + PageSize
  BY PageAssumption
<1> DEFINE top == Min({M + PageSize, Len(order)})
           ids == SubSeq(order, M + 1, top)
           items == [i \in DOMAIN ids |-> ToRow(ids[i])]
<1>3. top \in Nat /\ top = IF M + PageSize <= Len(order) THEN M + PageSize ELSE Len(order)
  BY <1>1, <1>2, MinOfTwo
<1>4. Page(p) = [items |-> items, hasNext |-> Len(order) > M + PageSize]
  BY <1>2 DEF Page
<1> HIDE DEF top
<1>5. /\ ids \in Seq(Convs) /\ Len(ids) = IF M + 1 <= top THEN top - (M + 1) + 1 ELSE 0
      /\ \A i \in 1..(top - (M + 1) + 1) : ids[i] = order[(M + 1) + i - 1]
  <2>1. M + 1 \in Int /\ top \in Int /\ \A i \in (M + 1)..top : order[i] \in Convs
    BY <1>1, <1>2, <1>3
  <2>2. QED
    BY <2>1, SubSeqProperties
<1> HIDE DEF ids
<1>6. \A i \in 1..Len(ids) : ids[i] = order[M + i] /\ M + i \in 1..Len(order) /\ i <= PageSize
  <2>1. TAKE i \in 1..Len(ids)
  <2>2. i \in 1..(top - (M + 1) + 1) /\ (M + 1) + i - 1 = M + i
    BY <1>2, <1>3, <1>5
  <2>3. M + i \in 1..Len(order) /\ i <= PageSize
    BY <1>1, <1>2, <1>3, <1>5, <2>2
  <2>4. QED
    BY <1>5, <2>2, <2>3
<1>7. DOMAIN ids = 1..Len(ids) /\ Len(ids) \in Nat
  BY <1>5, LenProperties
<1>8. \A c \in Convs : ToRow(c) \in Row
  BY DEF ToRow, Row
<1>9. items \in Seq(Row) /\ Len(items) = Len(ids) /\ \A i \in 1..Len(ids) : items[i] = ToRow(order[M + i])
  <2>1. items = [i \in 1..Len(ids) |-> ToRow(ids[i])]
    BY <1>7
  <2>2. items \in [1..Len(ids) -> Row]
    BY <1>1, <1>6, <1>8, <2>1
  <2> HIDE DEF items
  <2>3. items \in Seq(Row)
    BY <1>7, <2>2, SeqDef
  <2>4. Len(items) = Len(ids)
    BY <1>7, <2>2, <2>3, LenProperties
  <2>5. QED
    BY <1>6, <2>1, <2>3, <2>4
<1> HIDE DEF items
<1>10. Page(p) \in PageType /\ Page(p).items = items
  BY <1>4, <1>9 DEF PageType
<1>11. Page(p).hasNext = (Len(order) > M + PageSize)
  <2>1. \A a, b : [items |-> a, hasNext |-> b].hasNext = b
    OBVIOUS
  <2>2. QED
    BY <1>4, <2>1, Zenon
<1>12. \A i \in 1..Len(order) : M < i /\ i <= M + PageSize => i - M \in 1..Len(ids)
  <2>1. TAKE i \in 1..Len(order)
  <2>2. HAVE M < i /\ i <= M + PageSize
  <2>3. i <= top /\ M + 1 <= top
    BY <1>1, <1>2, <1>3, <2>2
  <2>4. Len(ids) = top - M
    BY <1>2, <1>3, <1>5, <2>3
  <2>5. QED
    BY <1>1, <1>2, <1>3, <2>2, <2>3, <2>4
<1>13. QED
  BY <1>2, <1>6, <1>9, <1>10, <1>11, <1>12

-----------------------------------------------------------------------------
\* What a frame and a click do to the rows.

LEMMA Greatest ==
    ASSUME NEW n \in Nat, NEW S, S \subseteq 0..n, S # {}
    PROVE  \E i \in S : \A j \in S : j <= i
<1> DEFINE T == {n - i : i \in S}
<1>1. T \subseteq Nat /\ T # {}
  <2>1. \A i \in S : n - i \in Nat
    OBVIOUS
  <2>2. QED
    BY <2>1
<1>2. PICK k \in T : \A l \in T : k <= l
  <2> HIDE DEF T
  <2>1. QED
    BY <1>1, Least
<1>3. PICK i \in S : k = n - i
  BY <1>2
<1>4. \A j \in S : n - i <= n - j
  BY <1>2, <1>3
<1>5. QED
  BY <1>4

\* A conversation that is listed has a last row.
LEMMA LastRow ==
    ASSUME cache \in Seq(PageType), NEW c \in Listed
    PROVE  LastOf(c) \in Places(cache) /\ RowAt(cache, LastOf(c)).conv = c
<1> DEFINE A == {x \in Places(cache) : RowAt(cache, x).conv = c}
           I == {x[1] : x \in A}
<1>1. A # {}
  BY ListedAt DEF Listed
<1>2. \A x \in A : x[1] \in 1..Len(cache) /\ x[2] \in 1..Len(cache[x[1]].items)
                   /\ x = <<x[1], x[2]>> /\ cache[x[1]].items \in Seq(Row)
  BY PlaceElim
<1>3. Len(cache) \in Nat
  BY LenProperties
<1> HIDE DEF A
<1>4. I \subseteq 0..Len(cache) /\ I # {}
  BY <1>1, <1>2, <1>3
<1>5. PICK i \in I : \A k \in I : k <= i
  <2> HIDE DEF I
  <2>1. QED
    BY <1>3, <1>4, Greatest
<1> DEFINE J == {x[2] : x \in {y \in A : y[1] = i}}
<1>6. PICK y \in A : y[1] = i
  OBVIOUS
<1>7. Len(cache[i].items) \in Nat
  BY <1>2, <1>6, LenProperties
<1>8. J \subseteq 0..Len(cache[i].items) /\ J # {}
  BY <1>2, <1>6, <1>7
<1>9. PICK j \in J : \A k \in J : k <= j
  <2> HIDE DEF J
  <2>1. QED
    BY <1>7, <1>8, Greatest
<1>10. PICK x \in A : x[1] = i /\ x[2] = j
  OBVIOUS
<1>11. \A z \in A : ~Above(x, z)
  <2>1. SUFFICES ASSUME NEW z \in A, Above(x, z) PROVE FALSE
    OBVIOUS
  <2>2. z[1] \in I /\ z[1] \in Nat /\ i \in Nat /\ z[2] \in Nat /\ j \in Nat
    BY <1>2, <1>10
  <2>3. z[1] <= i
    BY <1>5, <2>2
  <2>4. z[1] = i
    BY <1>10, <2>1, <2>2, <2>3 DEF Above
  <2>5. z[2] <= j
    BY <1>9, <2>4
  <2>6. QED
    BY <1>10, <2>1, <2>2, <2>4, <2>5 DEF Above
<1>12. x \in Places(cache) /\ RowAt(cache, x).conv = c
       /\ \A z \in Places(cache) : Above(x, z) => RowAt(cache, z).conv # c
  BY <1>11 DEF A
<1>13. QED
  BY <1>12 DEF LastOf

\* f says where in the page the rows of w come from: all but those of c.
Spared(w, items, c, f) ==
    /\ f \in [1..Len(w) -> 1..Len(items)]
    /\ \A i \in 1..Len(w) : w[i] = items[f[i]] /\ items[f[i]].conv # c
    /\ \A i, j \in 1..Len(w) : i < j => f[i] < f[j]
    /\ \A k \in 1..Len(items) : items[k].conv # c => \E i \in 1..Len(w) : f[i] = k

LEMMA WithoutKeeps ==
    ASSUME NEW items \in Seq(Row), NEW c
    PROVE  /\ Without(items, c) \in Seq(Row)
           /\ \E f : Spared(Without(items, c), items, c, f)
<1>1. PICK J : J = {j \in DOMAIN items : items[j].conv # c}
  OBVIOUS
<1>2. DOMAIN items = 1..Len(items)
  BY LenProperties
<1>3. J \in SUBSET (1..Len(items)) /\ \A k \in 1..Len(items) : k \in J <=> items[k].conv # c
  BY <1>1, <1>2
<1>4. PICK w : w = Filter(items, J)
  OBVIOUS
<1>5. Without(items, c) = w
  BY <1>1, <1>4 DEF Without
<1>6. J \in SUBSET (1..Len(items))
  BY <1>3
<1>7. /\ w \in Seq(Row)
      /\ \E f : Drawn(w, items, J, f)
  BY <1>4, <1>6, FilterKeeps
<1>8. PICK f \in [1..Len(w) -> J] :
         /\ \A i \in 1..Len(w) : w[i] = items[f[i]]
         /\ \A i, j \in 1..Len(w) : i < j => f[i] < f[j]
         /\ \A x \in J : \E i \in 1..Len(w) : f[i] = x
  BY <1>7 DEF Drawn
<1>9. f \in [1..Len(w) -> 1..Len(items)]
  BY <1>3, <1>8
<1>10. \A i \in 1..Len(w) : w[i] = items[f[i]] /\ items[f[i]].conv # c
  BY <1>3, <1>8
<1>11. \A k \in 1..Len(items) : items[k].conv # c => \E i \in 1..Len(w) : f[i] = k
  BY <1>3, <1>8
<1>12. Spared(w, items, c, f)
  BY <1>8, <1>9, <1>10, <1>11 DEF Spared
<1>13. QED
  BY <1>5, <1>7, <1>12

\* q is p with a row of c on top and no other row of c.
Topped(q, p, c) ==
    /\ q \in Seq(PageType) /\ Len(q) = Len(p)
    /\ \A i \in 1..Len(p) : q[i].hasNext = p[i].hasNext
    /\ <<1, 1>> \in Places(q)
    /\ \A x \in Places(q) : x # <<1, 1>> => RowAt(q, x).conv # c /\ RowAt(q, x) \in Rows(p)
    /\ \A x, y \in Places(q) :
          x # <<1, 1>> /\ y # <<1, 1>> /\ Above(x, y) =>
             \E u, v \in Places(p) : /\ Above(u, v)
                                     /\ RowAt(q, x) = RowAt(p, u) /\ RowAt(q, y) = RowAt(p, v)
    /\ \A r \in Rows(p) : r.conv # c => r \in Rows(q)

LEMMA Tops ==
    ASSUME cache \in Seq(PageType), NEW c \in Listed, NEW m \in BOOLEAN
    PROVE  /\ Topped(MoveToTop(c, m), cache, c)
           /\ \E r \in Rows(cache) :
                 /\ r.conv = c
                 /\ RowAt(MoveToTop(c, m), <<1, 1>>) = [conv |-> c, unread |-> m, friend |-> r.friend]
<1> DEFINE old  == RowAt(cache, LastOf(c))
           W(i) == Without(cache[i].items, c)
           left == [i \in DOMAIN cache |-> [cache[i] EXCEPT !.items = Without(@, c)]]
           new  == [old EXCEPT !.unread = m]
           q    == MoveToTop(c, m)
<1>1. DOMAIN cache = 1..Len(cache) /\ Len(cache) \in Nat
      /\ \A i \in 1..Len(cache) : cache[i] \in PageType /\ cache[i].items \in Seq(Row)
  <2>1. DOMAIN cache = 1..Len(cache) /\ Len(cache) \in Nat
        /\ \A i \in 1..Len(cache) : cache[i] \in PageType
    BY ElementOfSeq, LenProperties
  <2>2. QED
    BY <2>1 DEF PageType
<1>2. LastOf(c) \in Places(cache) /\ old.conv = c /\ old \in Row /\ old \in Rows(cache)
  BY LastRow, PlaceElim, ListedAt
<1>3. 1 \in 1..Len(cache)
  <2>1. LastOf(c)[1] \in 1..Len(cache)
    BY <1>2, PlaceElim
  <2>2. QED
    BY <1>1, <2>1
<1>4. new \in Row /\ new = [conv |-> c, unread |-> m, friend |-> old.friend]
  <2> HIDE DEF old
  <2>1. QED
    BY <1>2 DEF Row
<1>5. \A i \in 1..Len(cache) : W(i) \in Seq(Row) /\ \E f : Spared(W(i), cache[i].items, c, f)
  BY <1>1, WithoutKeeps
<1>6. q = [left EXCEPT ![1] = [left[1] EXCEPT !.items = <<new>> \o left[1].items]]
  BY Zenon DEF MoveToTop
<1>7. \A i \in 1..Len(cache) : left[i] = [items |-> W(i), hasNext |-> cache[i].hasNext]
  <2>1. TAKE i \in 1..Len(cache)
  <2>2. left[i] = [cache[i] EXCEPT !.items = Without(@, c)]
    BY <1>1
  <2>3. \A w : [cache[i] EXCEPT !.items = w] = [items |-> w, hasNext |-> cache[i].hasNext]
    BY <1>1 DEF PageType
  <2>4. QED
    BY <2>2, <2>3
<1>8. DOMAIN left = 1..Len(cache)
  BY <1>1
<1> HIDE DEF left, old, new, W
<1>9. DOMAIN q = 1..Len(cache)
      /\ q[1] = [items |-> <<new>> \o W(1), hasNext |-> cache[1].hasNext]
      /\ \A i \in 1..Len(cache) : i # 1 => q[i] = [items |-> W(i), hasNext |-> cache[i].hasNext]
  <2>1. DOMAIN q = 1..Len(cache) /\ q[1] = [left[1] EXCEPT !.items = <<new>> \o left[1].items]
        /\ \A i \in 1..Len(cache) : i # 1 => q[i] = left[i]
    BY <1>3, <1>6, <1>8
  <2>2. \A w, h, z : [[items |-> w, hasNext |-> h] EXCEPT !.items = z]
                       = [items |-> z, hasNext |-> h]
    OBVIOUS
  <2>4. left[1] = [items |-> W(1), hasNext |-> cache[1].hasNext]
    BY <1>3, <1>7
  <2>5. q[1] = [items |-> <<new>> \o W(1), hasNext |-> cache[1].hasNext]
    <3>1. left[1].items = W(1)
      BY <2>4
    <3>2. q[1] = [[items |-> W(1), hasNext |-> cache[1].hasNext] EXCEPT !.items = <<new>> \o W(1)]
      BY <2>1, <2>4, <3>1
    <3>3. QED
      BY <2>2, <3>2
  <2>6. QED
    BY <1>7, <2>1, <2>5
<1> HIDE DEF q
<1>10. /\ <<new>> \o W(1) \in Seq(Row) /\ Len(<<new>> \o W(1)) = 1 + Len(W(1))
       /\ (<<new>> \o W(1))[1] = new
       /\ \A j \in 1..Len(W(1)) : (<<new>> \o W(1))[j + 1] = W(1)[j]
  <2>1. W(1) \in Seq(Row) /\ <<new>> \in Seq(Row) /\ Len(<<new>>) = 1 /\ <<new>>[1] = new
        /\ Len(W(1)) \in Nat
    BY <1>3, <1>4, <1>5, LenProperties
  <2>2. /\ <<new>> \o W(1) \in Seq(Row) /\ Len(<<new>> \o W(1)) = 1 + Len(W(1))
        /\ \A j \in 1..1 + Len(W(1)) :
              (<<new>> \o W(1))[j] = IF j <= 1 THEN <<new>>[j] ELSE W(1)[j - 1]
    BY <2>1, ConcatProperties
  <2>3. QED
    BY <2>1, <2>2
<1>11. q \in Seq(PageType) /\ Len(q) = Len(cache)
  <2>0. \A s \in Seq(Row), h \in BOOLEAN : [items |-> s, hasNext |-> h] \in PageType
    BY DEF PageType
  <2>1. \A i \in 1..Len(cache) : q[i] \in PageType
    <3>1. TAKE i \in 1..Len(cache)
    <3>2. cache[i].hasNext \in BOOLEAN
      BY <1>1 DEF PageType
    <3>3. CASE i = 1
      BY <1>9, <1>10, <2>0, <3>2, <3>3
    <3>4. CASE i # 1
      BY <1>5, <1>9, <2>0, <3>2, <3>4
    <3>5. QED
      BY <3>3, <3>4
  <2>2. q = [i \in 1..Len(cache) |-> q[i]]
    <3>1. q = [q EXCEPT ![1] = q[1]] /\ q = [i \in DOMAIN q |-> q[i]]
      BY <1>3, <1>6, <1>8, <1>9
    <3>2. QED
      BY <1>9, <3>1
  <2>3. q \in [1..Len(cache) -> PageType]
    BY <2>1, <2>2
  <2>4. q \in Seq(PageType)
    BY <1>1, <2>3, SeqDef
  <2>5. QED
    BY <1>1, <1>9, <2>4, LenProperties
<1>12. \A i \in 1..Len(cache) : q[i].hasNext = cache[i].hasNext
  BY <1>9
<1>13. /\ q[1].items = <<new>> \o W(1)
       /\ \A i \in 1..Len(cache) : i # 1 => q[i].items = W(i)
  <2>1. \A w, h : [items |-> w, hasNext |-> h].items = w
    OBVIOUS
  <2>2. QED
    BY <1>9, <2>1
<1>14. <<1, 1>> \in Places(q) /\ RowAt(q, <<1, 1>>) = new
  <2>1. 1 \in 1..Len(q) /\ 1 \in 1..Len(q[1].items) /\ q[1].items[1] = new
    <3>1. Len(W(1)) \in Nat
      BY <1>3, <1>5, LenProperties
    <3>2. QED
      <4>1. Len(q[1].items) = 1 + Len(W(1)) /\ q[1].items[1] = new
        BY <1>10, <1>13
      <4>2. QED
        BY <1>3, <1>11, <3>1, <4>1
  <2>2. QED
    BY <1>11, <2>1, PlaceIntro
\* Where in its page of W the row at x is.
<1> DEFINE At(x) == IF x[1] = 1 THEN x[2] - 1 ELSE x[2]
<1>15. ASSUME NEW x \in Places(q), x # <<1, 1>>
       PROVE  /\ x[1] \in 1..Len(cache) /\ At(x) \in 1..Len(W(x[1]))
              /\ RowAt(q, x) = W(x[1])[At(x)]
  <2>1. x[1] \in 1..Len(cache) /\ x[2] \in 1..Len(q[x[1]].items) /\ x = <<x[1], x[2]>>
    BY <1>11, PlaceElim
  <2>2. Len(W(x[1])) \in Nat
    BY <1>5, <2>1, LenProperties
  <2>3. RowAt(q, x) = q[x[1]].items[x[2]]
    BY DEF RowAt
  <2>4. CASE x[1] = 1
    <3>1. x[2] # 1
      BY <1>15, <2>1, <2>4
    <3>2. x[2] \in 1..(1 + Len(W(1)))
      BY <1>10, <1>13, <2>1, <2>4
    <3>3. x[2] - 1 \in 1..Len(W(1)) /\ (x[2] - 1) + 1 = x[2]
      BY <2>2, <2>4, <3>1, <3>2
    <3>4. (<<new>> \o W(1))[x[2]] = W(1)[x[2] - 1]
      BY <1>10, <3>3
    <3>5. QED
      BY <1>13, <2>1, <2>3, <2>4, <3>3, <3>4
  <2>5. CASE x[1] # 1
    BY <1>13, <2>1, <2>3, <2>5
  <2>6. QED
    BY <2>4, <2>5
<1>16. ASSUME NEW i \in 1..Len(cache), NEW f, Spared(W(i), cache[i].items, c, f),
              NEW j \in 1..Len(W(i))
       PROVE  /\ <<i, f[j]>> \in Places(cache)
              /\ RowAt(cache, <<i, f[j]>>) = W(i)[j] /\ W(i)[j].conv # c
  <2>1. f[j] \in 1..Len(cache[i].items) /\ W(i)[j] = cache[i].items[f[j]] /\ W(i)[j].conv # c
    BY <1>16 DEF Spared
  <2>2. QED
    BY <2>1, PlaceIntro
<1>17. \A x \in Places(q) : x # <<1, 1>> => RowAt(q, x).conv # c /\ RowAt(q, x) \in Rows(cache)
  <2>1. TAKE x \in Places(q)
  <2>2. HAVE x # <<1, 1>>
  <2>3. x[1] \in 1..Len(cache) /\ At(x) \in 1..Len(W(x[1])) /\ RowAt(q, x) = W(x[1])[At(x)]
    BY <1>15, <2>2
  <2>4. PICK f : Spared(W(x[1]), cache[x[1]].items, c, f)
    BY <1>5, <2>3
  <2>5. PICK i \in 1..Len(cache) : \E k \in 1..Len(W(i)) : i = x[1] /\ k = At(x)
    BY <2>3
  <2>5a. PICK k \in 1..Len(W(i)) : i = x[1] /\ k = At(x)
    BY <2>5
  <2>6. RowAt(q, x) = W(i)[k] /\ Spared(W(i), cache[i].items, c, f)
    BY <2>3, <2>4, <2>5a
  <2>7. <<i, f[k]>> \in Places(cache) /\ RowAt(cache, <<i, f[k]>>) = W(i)[k] /\ W(i)[k].conv # c
    BY <1>16, <2>6
  <2>8. QED
    BY <2>6, <2>7, ListedAt
<1>18. ASSUME NEW x \in Places(q), NEW y \in Places(q),
              x # <<1, 1>>, y # <<1, 1>>, Above(x, y)
       PROVE  \E u, v \in Places(cache) :
                 /\ Above(u, v)
                 /\ RowAt(q, x) = RowAt(cache, u) /\ RowAt(q, y) = RowAt(cache, v)
  <2>1. /\ x[1] \in 1..Len(cache) /\ At(x) \in 1..Len(W(x[1])) /\ RowAt(q, x) = W(x[1])[At(x)]
        /\ y[1] \in 1..Len(cache) /\ At(y) \in 1..Len(W(y[1])) /\ RowAt(q, y) = W(y[1])[At(y)]
    BY <1>15, <1>18
  <2>2. PICK f : Spared(W(x[1]), cache[x[1]].items, c, f)
    BY <1>5, <2>1
  <2>3. PICK g : Spared(W(y[1]), cache[y[1]].items, c, g)
    BY <1>5, <2>1
  <2>4. CASE x[1] < y[1]
    <3>1. Above(<<x[1], f[At(x)]>>, <<y[1], g[At(y)]>>)
      BY <2>4 DEF Above
    <3> HIDE DEF At
    <3>2. /\ <<x[1], f[At(x)]>> \in Places(cache)
          /\ RowAt(cache, <<x[1], f[At(x)]>>) = W(x[1])[At(x)]
      BY <1>16, <2>1, <2>2
    <3>3. /\ <<y[1], g[At(y)]>> \in Places(cache)
          /\ RowAt(cache, <<y[1], g[At(y)]>>) = W(y[1])[At(y)]
      BY <1>16, <2>1, <2>3
    <3>4. QED
      BY <2>1, <3>1, <3>2, <3>3
  <2>5. CASE ~ x[1] < y[1]
    <3>1. x[1] = y[1] /\ x[2] < y[2]
      BY <1>18, <2>5 DEF Above
    <3>2. At(x) < At(y)
      <4>1. x[2] \in Nat /\ y[2] \in Nat
        BY <1>11, PlaceElim
      <4>2. QED
        BY <3>1, <4>1
    <3> HIDE DEF At
    <3>3. f[At(x)] < f[At(y)]
      BY <2>1, <2>2, <3>1, <3>2 DEF Spared
    <3>4. Above(<<x[1], f[At(x)]>>, <<y[1], f[At(y)]>>)
      BY <3>1, <3>3 DEF Above
    <3>5. QED
      BY <1>16, <2>1, <2>2, <3>1, <3>4
  <2>6. QED
    BY <2>4, <2>5
<1>19. ASSUME NEW r \in Rows(cache), r.conv # c PROVE r \in Rows(q)
  <2>1. PICK x \in Places(cache) : r = RowAt(cache, x)
    BY ListedAt
  <2>2. x[1] \in 1..Len(cache) /\ x[2] \in 1..Len(cache[x[1]].items)
        /\ r = cache[x[1]].items[x[2]]
    BY <2>1, PlaceElim DEF RowAt
  <2>3. PICK f : Spared(W(x[1]), cache[x[1]].items, c, f)
    BY <1>5, <2>2
  <2>4. PICK j \in 1..Len(W(x[1])) : f[j] = x[2]
    BY <1>19, <2>2, <2>3 DEF Spared
  <2>5. W(x[1])[j] = r /\ Len(W(x[1])) \in Nat
    <3>1. W(x[1])[j] = r
      BY <2>2, <2>3, <2>4 DEF Spared
    <3>2. QED
      BY <1>5, <2>2, <3>1, LenProperties
  <2> DEFINE k == IF x[1] = 1 THEN j + 1 ELSE j
  <2>6. k \in 1..Len(q[x[1]].items) /\ q[x[1]].items[k] = r
    <3>1. CASE x[1] = 1
      <4>1. q[x[1]].items = <<new>> \o W(1) /\ k = j + 1
        BY <1>13, <3>1
      <4>2. (<<new>> \o W(1))[j + 1] = r
        BY <1>10, <2>4, <2>5, <3>1
      <4>3. j + 1 \in 1..(1 + Len(W(1)))
        BY <2>4, <2>5, <3>1
      <4>4. QED
        BY <1>10, <4>1, <4>2, <4>3
    <3>2. CASE x[1] # 1
      BY <1>13, <2>2, <2>4, <2>5, <3>2
    <3>3. QED
      BY <3>1, <3>2
  <2> HIDE DEF k
  <2>7. <<x[1], k>> \in Places(q) /\ RowAt(q, <<x[1], k>>) = r
    <3>1. PICK i \in 1..Len(q) : i = x[1]
      BY <1>11, <2>2
    <3>2. k \in 1..Len(q[i].items) /\ q[i].items[k] = r
      BY <2>6, <3>1
    <3>3. <<i, k>> \in Places(q) /\ RowAt(q, <<i, k>>) = r
      BY <1>11, <3>2, PlaceIntro
    <3>4. QED
      BY <3>1, <3>3
  <2>8. QED
    BY <2>7, ListedAt
<1>20. Topped(q, cache, c)
  BY <1>11, <1>12, <1>14, <1>17, <1>18, <1>19 DEF Topped
<1>21. RowAt(q, <<1, 1>>) = [conv |-> c, unread |-> m, friend |-> old.friend]
  BY <1>4, <1>14
<1>22. QED
  BY <1>2, <1>20, <1>21 DEF q

\* Opening a conversation changes nothing but the counts of its rows.
LEMMA Reads ==
    ASSUME NEW p \in Seq(PageType), NEW c \in Convs
    PROVE  /\ ReadPages(p, c) \in Seq(PageType) /\ Len(ReadPages(p, c)) = Len(p)
           /\ \A i \in 1..Len(p) : ReadPages(p, c)[i].hasNext = p[i].hasNext
           /\ Places(ReadPages(p, c)) = Places(p)
           /\ \A x \in Places(p) :
                 /\ RowAt(ReadPages(p, c), x).conv = RowAt(p, x).conv
                 /\ RowAt(ReadPages(p, c), x).friend = RowAt(p, x).friend
                 /\ RowAt(ReadPages(p, c), x).unread =>
                       RowAt(p, x).unread /\ RowAt(p, x).conv # c
<1> DEFINE seen(r) == IF r.conv = c THEN [r EXCEPT !.unread = FALSE] ELSE r
           its(i)  == [j \in DOMAIN p[i].items |-> seen(p[i].items[j])]
           q       == ReadPages(p, c)
<1>1. DOMAIN p = 1..Len(p) /\ Len(p) \in Nat
      /\ \A i \in 1..Len(p) : p[i] \in PageType /\ p[i].items \in Seq(Row)
  <2>1. DOMAIN p = 1..Len(p) /\ Len(p) \in Nat
        /\ \A i \in 1..Len(p) : p[i] \in PageType
    BY ElementOfSeq, LenProperties
  <2>2. QED
    BY <2>1 DEF PageType
<1>2. \A r \in Row : /\ seen(r) \in Row /\ seen(r).conv = r.conv /\ seen(r).friend = r.friend
                     /\ seen(r).unread => r.unread /\ r.conv # c
  BY DEF Row
<1>3. q = [i \in DOMAIN p |-> [p[i] EXCEPT !.items = its(i)]]
  BY DEF ReadPages
<1> HIDE DEF seen, q
<1>4. \A i \in 1..Len(p) : /\ its(i) \in Seq(Row) /\ Len(its(i)) = Len(p[i].items)
                           /\ \A j \in 1..Len(p[i].items) : its(i)[j] = seen(p[i].items[j])
  <2>1. TAKE i \in 1..Len(p)
  <2>2. DOMAIN p[i].items = 1..Len(p[i].items) /\ Len(p[i].items) \in Nat
        /\ \A j \in 1..Len(p[i].items) : p[i].items[j] \in Row
    BY <1>1, ElementOfSeq, LenProperties
  <2>3. its(i) = [j \in 1..Len(p[i].items) |-> seen(p[i].items[j])]
    BY <2>2
  <2>4. its(i) \in [1..Len(p[i].items) -> Row]
    BY <1>2, <2>2, <2>3
  <2>5. its(i) \in Seq(Row)
    <3> HIDE DEF its
    <3>1. QED
      BY <2>2, <2>4, SeqDef
  <2>6. Len(its(i)) = Len(p[i].items)
    <3> HIDE DEF its
    <3>1. QED
      BY <2>2, <2>4, <2>5, LenProperties
  <2>7. QED
    BY <2>3, <2>5, <2>6
<1> HIDE DEF its
<1>5. \A i \in 1..Len(p) : /\ q[i] = [items |-> its(i), hasNext |-> p[i].hasNext]
                           /\ q[i].items = its(i) /\ q[i].hasNext = p[i].hasNext
                           /\ q[i] \in PageType
  <2>1. TAKE i \in 1..Len(p)
  <2>2. \A w : [p[i] EXCEPT !.items = w] = [items |-> w, hasNext |-> p[i].hasNext]
    BY <1>1 DEF PageType
  <2>3. q[i] = [items |-> its(i), hasNext |-> p[i].hasNext]
    BY <1>1, <1>3, <2>2
  <2>4. p[i].hasNext \in BOOLEAN
    BY <1>1 DEF PageType
  <2>5. QED
    BY <1>4, <2>3, <2>4 DEF PageType
<1>6. q \in Seq(PageType) /\ Len(q) = Len(p)
  <2>1. q \in [1..Len(p) -> PageType]
    BY <1>1, <1>3, <1>5
  <2>2. q \in Seq(PageType)
    BY <1>1, <2>1, SeqDef
  <2>3. QED
    BY <1>1, <2>1, <2>2, LenProperties
<1>7. \A i \in 1..Len(p) : Len(q[i].items) = Len(p[i].items)
  BY <1>4, <1>5
<1>8. ASSUME NEW x \in Places(p)
      PROVE  x \in Places(q) /\ RowAt(p, x) \in Row /\ RowAt(q, x) = seen(RowAt(p, x))
  <2>1. x[1] \in 1..Len(p) /\ x[2] \in 1..Len(p[x[1]].items) /\ x = <<x[1], x[2]>>
        /\ RowAt(p, x) \in Row
    BY PlaceElim
  <2>2. PICK i \in 1..Len(p) : i = x[1]
    BY <2>1
  <2>3. PICK j \in 1..Len(p[i].items) : j = x[2]
    BY <2>1, <2>2
  <2>4. i \in 1..Len(q) /\ j \in 1..Len(q[i].items)
    BY <1>6, <1>7
  <2>5. x = <<i, j>>
    BY <2>1, <2>2, <2>3
  <2>6. x \in Places(q) /\ RowAt(q, x) = q[i].items[j]
    BY <1>6, <2>4, <2>5, PlaceIntro
  <2>7. RowAt(p, x) = p[i].items[j]
    BY <2>5, PlaceIntro
  <2>8. q[i].items[j] = seen(p[i].items[j])
    BY <1>4, <1>5
  <2>9. QED
    BY <2>1, <2>6, <2>7, <2>8
<1>9. ASSUME NEW x \in Places(q) PROVE x \in Places(p)
  <2>1. x[1] \in 1..Len(q) /\ x[2] \in 1..Len(q[x[1]].items) /\ x = <<x[1], x[2]>>
    BY <1>6, PlaceElim
  <2>2. PICK i \in 1..Len(p) : i = x[1]
    BY <1>6, <2>1
  <2>3. PICK j \in 1..Len(p[i].items) : j = x[2]
    BY <1>7, <2>1, <2>2
  <2>4. x = <<i, j>>
    BY <2>1, <2>2, <2>3
  <2>5. QED
    BY <2>4, PlaceIntro
<1>10. \A x \in Places(p) :
          /\ RowAt(q, x).conv = RowAt(p, x).conv /\ RowAt(q, x).friend = RowAt(p, x).friend
          /\ RowAt(q, x).unread => RowAt(p, x).unread /\ RowAt(p, x).conv # c
  BY <1>2, <1>8
<1>11. Places(q) = Places(p)
  BY <1>8, <1>9
<1>12. QED
  BY <1>5, <1>6, <1>10, <1>11 DEF q

\* A page that arrives adds its rows below the others.
LEMMA Appends ==
    ASSUME NEW p \in Seq(PageType), NEW pg \in PageType
    PROVE  /\ Append(p, pg) \in Seq(PageType) /\ Len(Append(p, pg)) = Len(p) + 1
           /\ HasNextPage(Append(p, pg)) <=> pg.hasNext
           /\ \A x \in Places(p) : x \in Places(Append(p, pg)) /\ RowAt(Append(p, pg), x) = RowAt(p, x)
           /\ \A j \in 1..Len(pg.items) :
                 /\ <<Len(p) + 1, j>> \in Places(Append(p, pg))
                 /\ RowAt(Append(p, pg), <<Len(p) + 1, j>>) = pg.items[j]
           /\ \A x \in Places(Append(p, pg)) :
                 x \in Places(p) \/ \E j \in 1..Len(pg.items) : x = <<Len(p) + 1, j>>
           /\ Rows(Append(p, pg)) = Rows(p) \cup ToSet(pg.items)
<1> DEFINE q == Append(p, pg)
<1>1. Len(p) \in Nat
  BY LenProperties
<1>2. q \in Seq(PageType) /\ Len(q) = Len(p) + 1 /\ q[Len(p) + 1] = pg
      /\ \A i \in 1..Len(p) : q[i] = p[i]
  BY AppendProperties
<1> HIDE DEF q
<1>3. HasNextPage(q) <=> pg.hasNext
  <2>1. Last(q) = pg /\ q # <<>>
    BY <1>1, <1>2, EmptySeq DEF Last
  <2>2. QED
    BY <2>1 DEF HasNextPage
<1>4. ASSUME NEW x \in Places(p) PROVE x \in Places(q) /\ RowAt(q, x) = RowAt(p, x)
  <2>1. x[1] \in 1..Len(p) /\ x[2] \in 1..Len(p[x[1]].items) /\ x = <<x[1], x[2]>>
    BY PlaceElim
  <2>2. PICK i \in 1..Len(p) : i = x[1]
    BY <2>1
  <2>3. PICK j \in 1..Len(p[i].items) : j = x[2]
    BY <2>1, <2>2
  <2>4. x = <<i, j>> /\ i \in 1..Len(q) /\ q[i] = p[i]
    BY <1>1, <1>2, <2>1, <2>2, <2>3
  <2>5. x \in Places(q) /\ RowAt(q, x) = q[i].items[j]
    BY <1>2, <2>4, PlaceIntro
  <2>6. RowAt(p, x) = p[i].items[j]
    BY <2>4, PlaceIntro
  <2>7. QED
    BY <2>4, <2>5, <2>6
<1>5. ASSUME NEW j \in 1..Len(pg.items)
      PROVE  <<Len(p) + 1, j>> \in Places(q) /\ RowAt(q, <<Len(p) + 1, j>>) = pg.items[j]
  <2>1. PICK i \in 1..Len(q) : i = Len(p) + 1
    BY <1>1, <1>2
  <2>2. q[i] = pg
    BY <1>2, <2>1
  <2>3. j \in 1..Len(q[i].items)
    BY <2>2
  <2>4. <<i, j>> \in Places(q) /\ RowAt(q, <<i, j>>) = q[i].items[j]
    BY <1>2, <2>3, PlaceIntro
  <2>5. QED
    BY <2>1, <2>2, <2>4
<1>6. ASSUME NEW x \in Places(q)
      PROVE  x \in Places(p) \/ \E j \in 1..Len(pg.items) : x = <<Len(p) + 1, j>>
  <2>1. x[1] \in 1..Len(q) /\ x[2] \in 1..Len(q[x[1]].items) /\ x = <<x[1], x[2]>>
    BY <1>2, PlaceElim
  <2>2. CASE x[1] = Len(p) + 1
    BY <1>2, <2>1, <2>2
  <2>3. CASE x[1] # Len(p) + 1
    <3>1. PICK i \in 1..Len(p) : i = x[1]
      BY <1>1, <1>2, <2>1, <2>3
    <3>2. PICK j \in 1..Len(p[i].items) : j = x[2]
      BY <1>2, <2>1, <3>1
    <3>3. x = <<i, j>>
      BY <2>1, <3>1, <3>2
    <3>4. QED
      BY <3>3, PlaceIntro
  <2>4. QED
    BY <2>2, <2>3
<1>7. Rows(q) = Rows(p) \cup ToSet(pg.items)
  <2>1. DOMAIN pg.items = 1..Len(pg.items)
    <3>1. pg.items \in Seq(Row)
      BY DEF PageType
    <3>2. QED
      BY <3>1, LenProperties
  <2>2. ASSUME NEW r \in Rows(q) PROVE r \in Rows(p) \cup ToSet(pg.items)
    <3>1. PICK x \in Places(q) : r = RowAt(q, x)
      BY ListedAt
    <3>2. CASE x \in Places(p)
      BY <1>4, <3>1, <3>2, ListedAt
    <3>3. CASE x \notin Places(p)
      <4>1. PICK j \in 1..Len(pg.items) : x = <<Len(p) + 1, j>>
        BY <1>6, <3>3
      <4>2. r = pg.items[j]
        BY <1>5, <3>1, <4>1
      <4>3. QED
        BY <2>1, <4>2 DEF ToSet
    <3>4. QED
      BY <3>2, <3>3
  <2>3. ASSUME NEW r \in Rows(p) PROVE r \in Rows(q)
    <3>1. PICK x \in Places(p) : r = RowAt(p, x)
      BY ListedAt
    <3>2. QED
      BY <1>4, <3>1, ListedAt
  <2>4. ASSUME NEW r \in ToSet(pg.items) PROVE r \in Rows(q)
    <3>1. PICK j \in 1..Len(pg.items) : r = pg.items[j]
      BY <2>1 DEF ToSet
    <3>2. QED
      BY <1>5, <3>1, ListedAt
  <2>5. QED
    BY <2>2, <2>3, <2>4
<1>8. QED
  BY <1>2, <1>3, <1>4, <1>5, <1>6, <1>7 DEF q

-----------------------------------------------------------------------------
\* Types.

ServerTypes ==
    /\ Sorted /\ friends \subseteq ToSet(order)
    /\ stored \in 0..MaxMessages /\ changes \in 0..MaxChanges

NetTypes ==
    /\ chats \subseteq [conv : Convs, n : 1..MaxMessages] /\ events \in 0..MaxChanges
    /\ newest \in 0..(MaxMessages + 1) /\ Budget

PageTypes ==
    /\ mounted \in BOOLEAN /\ active \in Convs \cup {None}
    /\ unread \subseteq Convs /\ unseen \subseteq Convs /\ ghosts \subseteq Convs
    /\ troubles \in 0..MaxTroubles /\ behind \in BOOLEAN

FetchTypes == fetch \in FetchRecord /\ (fetch.kind # "none" => fetch.want > 0)

QueryTypes ==
    /\ cache \in Seq(PageType) /\ invalid \in BOOLEAN /\ timers \in 0..MaxMessages
    /\ FetchTypes

LEMMA TypeGroups == Types <=> ServerTypes /\ NetTypes /\ PageTypes /\ QueryTypes
<1>1. fetch \in FetchRecord => fetch.kind \in {"none", "first", "all", "next"} /\ fetch.got \in Seq(PageType)
  BY DEF FetchRecord
<1>2. QED
  BY <1>1, Zenon DEF Types, TypeOK, ServerTypes, NetTypes, PageTypes, QueryTypes, FetchTypes, Sorted

LEMMA NewFetch ==
    ASSUME QueryTypes
    PROVE  /\ Refetch \in FetchRecord /\ Refetch.want > 0 /\ Refetch.got = <<>>
           /\ Refetch.kind = IF cache = <<>> THEN "first" ELSE "all"
           /\ First \in FetchRecord /\ First.want > 0 /\ First.kind = "first" /\ First.got = <<>>
           /\ NoFetch \in FetchRecord /\ NoFetch.kind = "none" /\ NoFetch.got = <<>>
<1>1. cache \in Seq(PageType) /\ Len(cache) \in Nat /\ (cache # <<>> => Len(cache) > 0)
  BY LenProperties, EmptySeq DEF QueryTypes
<1>2. <<>> \in Seq(PageType)
  BY EmptySeq
<1>3. QED
  BY <1>1, <1>2 DEF Refetch, First, NoFetch, FetchRecord

\* An invalidation begins a refetch, or is only noted, or is ignored.
LEMMA InvalidateCases ==
    ASSUME QueryTypes, PageTypes, Invalidate
    PROVE  \/ ~mounted /\ invalid' = TRUE /\ fetch' = fetch
              /\ behind' = (behind \/ fetch.kind # "none")
           \/ mounted /\ fetch.kind = "first" /\ behind' = TRUE /\ UNCHANGED <<invalid, fetch>>
           \/ mounted /\ fetch.kind # "first" /\ behind' = FALSE /\ UNCHANGED invalid
              /\ fetch' = Refetch
BY DEF Invalidate, QueryTypes, PageTypes

LEMMA InvalidateTypes ==
    ASSUME QueryTypes, PageTypes, Invalidate
    PROVE  invalid' \in BOOLEAN /\ behind' \in BOOLEAN /\ FetchTypes'
BY InvalidateCases, NewFetch DEF QueryTypes, PageTypes, FetchTypes

\* A frame that leaves makes room for a timer.
LEMMA FrameLeaves ==
    ASSUME ServerTypes, NetTypes, QueryTypes, NEW f \in chats
    PROVE  /\ IsFiniteSet(chats \ {f}) /\ timers + 1 + Cardinality(chats \ {f}) <= stored
           /\ timers + 1 \in 0..MaxMessages
<1>1. IsFiniteSet(chats) /\ timers + Cardinality(chats) <= stored /\ Cardinality(chats) \in Nat
  BY FS_CardinalityType DEF NetTypes, Budget
<1>2. IsFiniteSet(chats \ {f}) /\ Cardinality(chats \ {f}) = Cardinality(chats) - 1
      /\ Cardinality(chats \ {f}) \in Nat
  BY <1>1, FS_RemoveElement, FS_CardinalityType
<1>3. QED
  BY <1>1, <1>2 DEF ServerTypes, QueryTypes

LEMMA TypesInit ==
    ASSUME Init PROVE Types
<1>1. ServerTypes
  BY DEF Init, ServerTypes, Sorted
<1>2. Budget
  BY FS_EmptySet DEF Init, Budget
<1>3. NetTypes
  BY <1>2 DEF Init, NetTypes
<1>4. PageTypes
  <2>1. mounted \in BOOLEAN /\ behind \in BOOLEAN
    BY Zenon DEF Init
  <2>2. QED
    BY <2>1 DEF Init, PageTypes
<1>5. QueryTypes
  <2>1. <<>> \in Seq(PageType)
    BY EmptySeq
  <2>2. First \in FetchRecord /\ First.want > 0
    BY <2>1 DEF First, FetchRecord
  <2>3. invalid \in BOOLEAN
    BY Zenon DEF Init
  <2>4. QED
    BY <2>1, <2>2, <2>3 DEF Init, QueryTypes, FetchTypes
<1>6. QED
  BY <1>1, <1>3, <1>4, <1>5, TypeGroups

LEMMA TypesStep ==
    ASSUME Types, [Next]_vars
    PROVE  Types'
<1>0. ServerTypes /\ NetTypes /\ PageTypes /\ QueryTypes
  BY TypeGroups
<1> SUFFICES ServerTypes' /\ NetTypes' /\ PageTypes' /\ QueryTypes'
  BY TypeGroups, PTL
<1>1. ASSUME NEW c \in Convs, Store(c) PROVE ServerTypes' /\ NetTypes' /\ PageTypes' /\ QueryTypes'
  <2>1. Sorted' /\ ToSet(order)' = ToSet(order) \cup {c}
    BY <1>0, <1>1, InFront DEF ServerTypes, Store
  <2>2. ServerTypes'
    BY <1>0, <1>1, <2>1 DEF ServerTypes, Store
  <2> DEFINE f == [conv |-> c, n |-> stored + 1]
  <2>3. f \in [conv : Convs, n : 1..MaxMessages] /\ f \notin chats /\ chats' = chats \cup {f}
    BY <1>0, <1>1 DEF ServerTypes, NetTypes, Budget, Store
  <2>4. IsFiniteSet(chats') /\ Cardinality(chats') = Cardinality(chats) + 1
    BY <1>0, <2>3, FS_AddElement DEF NetTypes, Budget
  <2>5. Cardinality(chats) \in Nat
    BY <1>0, FS_CardinalityType DEF NetTypes, Budget
  <2>6. \A g \in chats : g.n <= stored /\ g.n \in Nat
    BY <1>0 DEF NetTypes, Budget
  <2>7. f.n = stored + 1 /\ stored' = stored + 1 /\ timers' = timers /\ newest' = newest
        /\ changes' = changes /\ events' = events
    BY <1>1 DEF Store, queryVars
  <2> HIDE DEF f
  <2>8. \A g \in chats' : g.n <= stored'
    BY <1>0, <2>3, <2>6, <2>7 DEF ServerTypes
  <2>9. \A g, h \in chats' : g.n = h.n => g = h
    BY <1>0, <2>3, <2>6, <2>7 DEF ServerTypes, NetTypes, Budget
  <2>10. Budget'
    BY <1>0, <2>4, <2>5, <2>7, <2>8, <2>9 DEF Budget, ServerTypes, NetTypes, QueryTypes
  <2>11. NetTypes'
    BY <1>0, <2>3, <2>7, <2>10 DEF NetTypes
  <2>12. PageTypes' /\ QueryTypes'
    BY <1>0, <1>1 DEF Store, PageTypes, QueryTypes, FetchTypes, queryVars, markVars
  <2>13. QED
    BY <2>2, <2>11, <2>12
<1>2. ASSUME NEW c \in Convs, PeerStarts(c) PROVE ServerTypes' /\ NetTypes' /\ PageTypes' /\ QueryTypes'
  <2>1. Sorted' /\ ToSet(order)' = ToSet(order) \cup {c}
    BY <1>0, <1>2, InFront DEF ServerTypes, PeerStarts
  <2>2. ServerTypes'
    BY <1>0, <1>2, <2>1 DEF ServerTypes, PeerStarts
  <2>3. NetTypes'
    BY <1>0, <1>2 DEF ServerTypes, NetTypes, Budget, PeerStarts, netVars, queryVars
  <2>4. PageTypes' /\ QueryTypes'
    BY <1>0, <1>2 DEF PeerStarts, PageTypes, QueryTypes, FetchTypes, queryVars, markVars
  <2>5. QED
    BY <2>2, <2>3, <2>4
<1>3. ASSUME NEW c \in Convs, Befriend(c) PROVE ServerTypes' /\ NetTypes' /\ PageTypes' /\ QueryTypes'
  <2>1. ServerTypes'
    BY <1>0, <1>3 DEF ServerTypes, Befriend, Sorted
  <2>2. NetTypes'
    BY <1>0, <1>3 DEF ServerTypes, NetTypes, Budget, Befriend, queryVars
  <2>3. PageTypes' /\ QueryTypes'
    BY <1>0, <1>3 DEF Befriend, PageTypes, QueryTypes, FetchTypes, queryVars, markVars
  <2>4. QED
    BY <2>1, <2>2, <2>3
<1>4. ASSUME NEW c \in Convs, HandleSelectChat(c) PROVE ServerTypes' /\ NetTypes' /\ PageTypes' /\ QueryTypes'
  <2>1. ServerTypes' /\ NetTypes'
    BY <1>0, <1>4 DEF ServerTypes, NetTypes, Budget, Sorted, HandleSelectChat, serverVars, netVars
  <2>2. PageTypes'
    BY <1>0, <1>4 DEF PageTypes, HandleSelectChat
  <2>3. cache' \in Seq(PageType)
    BY <1>0, <1>4, Reads DEF QueryTypes, HandleSelectChat
  <2>4. QueryTypes'
    BY <1>0, <1>4, <2>3 DEF QueryTypes, FetchTypes, HandleSelectChat
  <2>5. QED
    BY <2>1, <2>2, <2>4
<1>5. ASSUME NEW c \in Convs, StartChat(c) PROVE ServerTypes' /\ NetTypes' /\ PageTypes' /\ QueryTypes'
  <2>1. Sorted' /\ ToSet(order) \subseteq ToSet(order)'
    <3>1. CASE c \in ToSet(order)
      BY <1>0, <1>5, <3>1 DEF ServerTypes, Sorted, StartChat
    <3>2. CASE c \notin ToSet(order)
      BY <1>0, <1>5, <3>2, InFront DEF ServerTypes, StartChat
    <3>3. QED
      BY <3>1, <3>2
  <2>2. ServerTypes'
    BY <1>0, <1>5, <2>1 DEF ServerTypes, StartChat
  <2>3. NetTypes'
    BY <1>0, <1>5 DEF ServerTypes, NetTypes, Budget, StartChat, netVars, queryVars
  <2>4. PageTypes' /\ QueryTypes'
    BY <1>0, <1>5 DEF StartChat, PageTypes, QueryTypes, FetchTypes, queryVars, markVars
  <2>5. QED
    BY <2>2, <2>3, <2>4
<1>6. ASSUME NEW f \in chats, HearChat(f) PROVE ServerTypes' /\ NetTypes' /\ PageTypes' /\ QueryTypes'
  <2>0. f.conv \in Convs /\ f.n \in 1..MaxMessages /\ f.n <= stored
    BY <1>0 DEF NetTypes, Budget
  <2>1. ServerTypes'
    BY <1>0, <1>6 DEF ServerTypes, Sorted, HearChat, serverVars
  <2>2. newest' \in {newest, f.n}
    <3>1. newest' = Max({newest, f.n}) /\ newest \in Nat /\ f.n \in Nat
      BY <1>0, <1>6, <2>0 DEF HearChat, NetTypes
    <3>2. \E x \in {newest, f.n} : \A y \in {newest, f.n} : x >= y
      BY <3>1
    <3>3. QED
      BY <3>1, <3>2 DEF Max
  <2>3. /\ chats' = chats \ {f}
        /\ timers' \in {timers, timers + 1}
    BY <1>6 DEF HearChat, Hear
  <2>4. Budget'
    <3>1. IsFiniteSet(chats') /\ timers' + Cardinality(chats') <= stored
      <4>1. IsFiniteSet(chats \ {f}) /\ timers + 1 + Cardinality(chats \ {f}) <= stored
            /\ Cardinality(chats \ {f}) \in Nat
        BY <1>0, FrameLeaves, FS_CardinalityType
      <4>2. QED
        BY <1>0, <2>3, <4>1 DEF QueryTypes, ServerTypes
    <3>2. stored' = stored /\ events' = events /\ changes' = changes
      BY <1>6 DEF HearChat, serverVars
    <3>3. QED
      BY <1>0, <2>0, <2>2, <2>3, <3>1, <3>2 DEF NetTypes, Budget, ServerTypes
  <2>5. NetTypes'
    BY <1>0, <1>6, <2>0, <2>2, <2>3, <2>4 DEF NetTypes, HearChat
  <2>6. PageTypes'
    BY <1>0, <1>6, <2>0 DEF PageTypes, HearChat, Hear
  <2>7. cache' \in Seq(PageType)
    <3>1. CASE cache' = cache
      BY <1>0, <3>1 DEF QueryTypes
    <3>2. CASE f.conv \in Listed /\ cache' = MoveToTop(f.conv, f.conv # active)
      <4>1. PICK c \in Listed : c = f.conv
        BY <3>2
      <4>2. PICK m \in BOOLEAN : m = (f.conv # active)
        OBVIOUS
      <4>3. Topped(MoveToTop(c, m), cache, c)
        BY <1>0, Tops DEF QueryTypes
      <4>4. QED
        BY <3>2, <4>1, <4>2, <4>3 DEF Topped
    <3>3. QED
      BY <1>6, <3>1, <3>2 DEF HearChat, Hear
  <2>8. QueryTypes'
    <3>1. timers' \in 0..MaxMessages
      BY <1>0, <2>3, FrameLeaves DEF QueryTypes
    <3>2. QED
      BY <1>0, <1>6, <2>7, <3>1 DEF QueryTypes, FetchTypes, HearChat
  <2>9. QED
    BY <2>1, <2>5, <2>6, <2>8
<1>7. CASE HearFriendEvent
  <2>1. ServerTypes'
    BY <1>0, <1>7 DEF ServerTypes, Sorted, HearFriendEvent, serverVars
  <2>2. NetTypes'
    BY <1>0, <1>7 DEF NetTypes, ServerTypes, Budget, HearFriendEvent, serverVars
  <2>3. behind' \in BOOLEAN /\ invalid' \in BOOLEAN /\ FetchTypes'
    BY <1>0, <1>7, InvalidateTypes DEF HearFriendEvent, QueryTypes, FetchTypes
  <2>4. PageTypes' /\ QueryTypes'
    BY <1>0, <1>7, <2>3 DEF PageTypes, QueryTypes, HearFriendEvent, markVars
  <2>5. QED
    BY <2>1, <2>2, <2>4
<1>8. CASE Drop
  <2>1. ServerTypes'
    BY <1>0, <1>8 DEF ServerTypes, Sorted, Drop, serverVars
  <2>2. NetTypes'
    <3>1. chats' = {} /\ events' = 0 /\ UNCHANGED <<newest, stored, changes, timers>>
      BY <1>8 DEF Drop, serverVars, queryVars
    <3>2. Cardinality(chats) \in Nat
      BY <1>0, FS_CardinalityType DEF NetTypes, Budget
    <3>3. QED
      BY <1>0, <3>1, <3>2, FS_EmptySet DEF NetTypes, Budget, ServerTypes, QueryTypes
  <2>3. PageTypes' /\ QueryTypes'
    BY <1>0, <1>8 DEF PageTypes, QueryTypes, FetchTypes, Drop, queryVars, markVars
  <2>4. QED
    BY <2>1, <2>2, <2>3
<1>9. CASE TimerFires
  <2>1. ServerTypes'
    BY <1>0, <1>9 DEF ServerTypes, Sorted, TimerFires, serverVars
  <2>2. NetTypes'
    <3>1. Cardinality(chats) \in Nat
      BY <1>0, FS_CardinalityType DEF NetTypes, Budget
    <3>2. QED
      BY <1>0, <1>9, <3>1 DEF NetTypes, Budget, ServerTypes, QueryTypes, TimerFires, serverVars, netVars
  <2>3. behind' \in BOOLEAN /\ invalid' \in BOOLEAN /\ FetchTypes'
    BY <1>0, <1>9, InvalidateTypes DEF TimerFires
  <2>4. PageTypes' /\ QueryTypes'
    BY <1>0, <1>9, <2>3 DEF PageTypes, QueryTypes, TimerFires, markVars
  <2>5. QED
    BY <2>1, <2>2, <2>4
<1>10. CASE Serve
  <2>1. ServerTypes' /\ NetTypes' /\ PageTypes'
    BY <1>0, <1>10 DEF ServerTypes, NetTypes, Budget, PageTypes, Sorted, Serve, serverVars, netVars, markVars
  <2>2. fetch.got \in Seq(PageType) /\ Page(Len(fetch.got)) \in PageType
    <3>1. fetch.got \in Seq(PageType) /\ Len(fetch.got) \in Nat
      BY <1>0, LenProperties DEF QueryTypes, FetchTypes, FetchRecord
    <3>2. QED
      BY <1>0, <3>1, PageShows DEF ServerTypes
  <2>3. Append(fetch.got, Page(Len(fetch.got))) \in Seq(PageType)
    BY <2>2, Appends
  <2>4. fetch' = [fetch EXCEPT !.got = Append(fetch.got, Page(Len(fetch.got)))]
    BY <1>10 DEF Serve
  <2>5. FetchTypes'
    BY <1>0, <2>3, <2>4 DEF QueryTypes, FetchTypes, FetchRecord
  <2>6. QueryTypes'
    BY <1>0, <1>10, <2>5 DEF QueryTypes, Serve
  <2>7. QED
    BY <2>1, <2>6
<1>11. CASE Land
  <2>1. ServerTypes' /\ NetTypes' /\ PageTypes'
    BY <1>0, <1>11 DEF ServerTypes, NetTypes, Budget, PageTypes, Sorted, Land, serverVars, netVars, markVars
  <2>2. QueryTypes'
    BY <1>0, <1>11, NewFetch DEF QueryTypes, FetchTypes, FetchRecord, Land
  <2>3. QED
    BY <2>1, <2>2
<1>12. CASE FetchFails
  <2>1. ServerTypes' /\ NetTypes'
    BY <1>0, <1>12 DEF ServerTypes, NetTypes, Budget, Sorted, FetchFails, serverVars, netVars
  <2>2. PageTypes'
    BY <1>0, <1>12 DEF PageTypes, FetchFails, markVars
  <2>3. QueryTypes'
    BY <1>0, <1>12, NewFetch DEF QueryTypes, FetchTypes, FetchFails
  <2>4. QED
    BY <2>1, <2>2, <2>3
<1>13. CASE HandleScroll
  <2>1. ServerTypes' /\ NetTypes'
    BY <1>0, <1>13 DEF ServerTypes, NetTypes, Budget, Sorted, HandleScroll, serverVars, netVars
  <2>2. PageTypes'
    BY <1>0, <1>13 DEF PageTypes, HandleScroll, markVars
  <2>3. Len(cache) \in Nat
    BY <1>0, LenProperties DEF QueryTypes
  <2>4. QueryTypes'
    BY <1>0, <1>13, <2>3 DEF QueryTypes, FetchTypes, FetchRecord, HandleScroll
  <2>5. QED
    BY <2>1, <2>2, <2>4
<1>14. CASE DeleteChat
  <2>1. ServerTypes' /\ NetTypes'
    BY <1>0, <1>14 DEF ServerTypes, NetTypes, Budget, Sorted, DeleteChat, serverVars, netVars
  <2>2. behind' \in BOOLEAN /\ invalid' \in BOOLEAN /\ FetchTypes'
    BY <1>0, <1>14, InvalidateTypes DEF DeleteChat
  <2>3. PageTypes' /\ QueryTypes'
    BY <1>0, <1>14, <2>2 DEF PageTypes, QueryTypes, DeleteChat, markVars
  <2>4. QED
    BY <2>1, <2>3
<1>15. CASE ShowAiChat
  <2>1. ServerTypes' /\ NetTypes'
    BY <1>0, <1>15 DEF ServerTypes, NetTypes, Budget, Sorted, ShowAiChat, serverVars, netVars, queryVars
  <2>2. PageTypes' /\ QueryTypes'
    <3>1. mounted' \in BOOLEAN
      BY <1>15, Zenon DEF ShowAiChat
    <3>2. QED
      BY <1>0, <1>15, <3>1 DEF PageTypes, QueryTypes, FetchTypes, ShowAiChat, queryVars, markVars
  <2>3. QED
    BY <2>1, <2>2
<1>16. CASE HideAiChat
  <2>1. ServerTypes' /\ NetTypes'
    BY <1>0, <1>16 DEF ServerTypes, NetTypes, Budget, Sorted, HideAiChat, serverVars, netVars
  <2>2. behind' \in BOOLEAN /\ FetchTypes'
    BY <1>0, <1>16, NewFetch DEF HideAiChat, PageTypes, QueryTypes, FetchTypes
  <2>3. PageTypes' /\ QueryTypes'
    BY <1>0, <1>16, <2>2 DEF PageTypes, QueryTypes, HideAiChat, markVars
  <2>4. QED
    BY <2>1, <2>3
<1>17. CASE Reload
  <2>1. ServerTypes'
    BY <1>0, <1>17 DEF ServerTypes, Sorted, Reload, serverVars
  <2>2. NetTypes'
    <3>1. chats' = {} /\ events' = 0 /\ timers' = 0 /\ UNCHANGED <<newest, stored, changes>>
      BY <1>17 DEF Reload, serverVars
    <3>2. QED
      BY <1>0, <3>1, FS_EmptySet DEF NetTypes, Budget, ServerTypes
  <2>3. PageTypes'
    <3>1. mounted' \in BOOLEAN /\ behind' \in BOOLEAN
      BY <1>17, Zenon DEF Reload
    <3>2. QED
      BY <1>0, <1>17, <3>1 DEF PageTypes, Reload, markVars
  <2>4. QueryTypes'
    <3>1. invalid' \in BOOLEAN
      BY <1>17, Zenon DEF Reload
    <3>2. QED
      BY <1>0, <1>17, <3>1, NewFetch, EmptySeq DEF QueryTypes, FetchTypes, Reload
  <2>5. QED
    BY <2>1, <2>2, <2>3, <2>4
<1>18. CASE UNCHANGED vars
  BY <1>0, <1>18 DEF ServerTypes, NetTypes, Budget, PageTypes, QueryTypes, FetchTypes, Sorted,
     vars, serverVars, netVars, queryVars, markVars
<1>19. QED
  BY <1>1, <1>2, <1>3, <1>4, <1>5, <1>6, <1>7, <1>8, <1>9, <1>10, <1>11, <1>12, <1>13, <1>14,
     <1>15, <1>16, <1>17, <1>18 DEF Next

-----------------------------------------------------------------------------
\* Marks and counts.

LEMMA MarksStep ==
    ASSUME Types, Marks, [Next]_vars
    PROVE  Marks'
<1>0. PageTypes /\ NetTypes
  BY TypeGroups
<1>1. ASSUME NEW c \in Convs, Store(c) \/ PeerStarts(c) \/ Befriend(c) PROVE Marks'
  BY <1>1 DEF Marks, Store, PeerStarts, Befriend, markVars
<1>2. ASSUME NEW c \in Convs, HandleSelectChat(c) PROVE Marks'
  <2>1. ghosts \subseteq ghosts' \cup {c}
    BY <1>2 DEF HandleSelectChat
  <2>2. QED
    BY <1>2, <2>1 DEF Marks, HandleSelectChat
<1>3. ASSUME NEW c \in Convs, StartChat(c) PROVE Marks'
  BY <1>3 DEF Marks, StartChat
<1>4. ASSUME NEW f \in chats, HearChat(f) PROVE Marks'
  BY <1>4 DEF Marks, HearChat, Hear
<1>5. CASE DeleteChat
  BY <1>0, <1>5 DEF Marks, DeleteChat, PageTypes, markVars
<1>6. CASE Reload
  BY <1>0, <1>6 DEF Marks, Reload, PageTypes, markVars
<1>7. CASE UNCHANGED <<active, markVars>>
  BY <1>7 DEF Marks, markVars
<1>8. CASE \/ HearFriendEvent \/ Drop \/ TimerFires \/ Serve \/ Land \/ FetchFails \/ HandleScroll
           \/ ShowAiChat \/ HideAiChat \/ UNCHANGED vars
  BY <1>7, <1>8 DEF HearFriendEvent, Drop, TimerFires, Serve, Land, FetchFails, HandleScroll,
     ShowAiChat, HideAiChat, vars, markVars
<1>9. QED
  BY <1>1, <1>2, <1>3, <1>4, <1>5, <1>6, <1>8 DEF Next

\* An invalidation gives up what was read, or leaves it.
LEMMA GotKept ==
    ASSUME QueryTypes, PageTypes, Invalidate
    PROVE  fetch' = fetch \/ fetch'.got = <<>>
BY InvalidateCases, NewFetch

CountsIn(pages) == \A r \in Rows(pages) : r.unread => r.conv \in unseen \cup ghosts

LEMMA CountsStep ==
    ASSUME Types, Marks, Counts, [Next]_vars
    PROVE  Counts'
<1>0. PageTypes /\ NetTypes /\ QueryTypes /\ ServerTypes
  BY TypeGroups
<1> DEFINE OnlyNext == \A r \in Rows(fetch.got) : r.unread => fetch.kind = "next"
<1>a. CountsIn(cache) /\ CountsIn(fetch.got) /\ OnlyNext
  BY DEF Counts, CountsIn
<1>b. SUFFICES CountsIn(cache)' /\ CountsIn(fetch.got)' /\ OnlyNext'
  BY DEF Counts, CountsIn
<1>c. CASE UNCHANGED <<unseen, ghosts, cache>> /\ (fetch' = fetch \/ fetch'.got = <<>>)
  <2>1. CountsIn(cache)'
    BY <1>a, <1>c DEF CountsIn
  <2>2. CASE fetch' = fetch
    BY <1>a, <1>c, <2>1, <2>2 DEF CountsIn
  <2>3. CASE fetch'.got = <<>>
    BY <1>c, <2>1, <2>3, NoPlaces DEF CountsIn
  <2>4. QED
    BY <1>c, <2>2, <2>3
<1>1. ASSUME NEW c \in Convs, Store(c) \/ PeerStarts(c) \/ Befriend(c)
      PROVE  CountsIn(cache)' /\ CountsIn(fetch.got)' /\ OnlyNext'
  BY <1>1, <1>c DEF Store, PeerStarts, Befriend, markVars, queryVars
<1>2. ASSUME NEW c \in Convs, HandleSelectChat(c)
      PROVE  CountsIn(cache)' /\ CountsIn(fetch.got)' /\ OnlyNext'
  <2>1. cache' = ReadPages(cache, c) /\ unseen' = unseen \ {c} /\ fetch' = fetch
        /\ ghosts' = IF fetch.kind = "next" THEN ghosts \cup {c} ELSE ghosts \ {c}
    BY <1>2 DEF HandleSelectChat
  <2>2. CountsIn(cache)'
    <3>1. SUFFICES ASSUME NEW r \in Rows(cache'), r.unread PROVE r.conv \in unseen' \cup ghosts'
      BY DEF CountsIn
    <3>2. PICK x \in Places(cache') : r = RowAt(cache', x)
      BY ListedAt
    <3>3. x \in Places(cache) /\ r.conv = RowAt(cache, x).conv
          /\ RowAt(cache, x).unread /\ RowAt(cache, x).conv # c
      BY <1>0, <2>1, <3>1, <3>2, Reads DEF QueryTypes
    <3>4. RowAt(cache, x).conv \in unseen \cup ghosts
      BY <1>a, <3>3, ListedAt DEF CountsIn
    <3>5. QED
      BY <2>1, <3>3, <3>4
  <2>3. CountsIn(fetch.got)' /\ OnlyNext'
    <3>1. CASE fetch.kind = "next"
      BY <1>a, <2>1, <3>1 DEF CountsIn
    <3>2. CASE fetch.kind # "next"
      BY <1>a, <2>1, <3>2 DEF CountsIn
    <3>3. QED
      BY <3>1, <3>2
  <2>4. QED
    BY <2>2, <2>3
<1>3. ASSUME NEW c \in Convs, StartChat(c)
      PROVE  CountsIn(cache)' /\ CountsIn(fetch.got)' /\ OnlyNext'
  <2>1. unseen' = unseen \ {c} /\ ghosts' = ghosts \cup {c} /\ UNCHANGED <<cache, fetch>>
    BY <1>3 DEF StartChat, queryVars
  <2>2. QED
    BY <1>a, <2>1 DEF CountsIn
<1>4. ASSUME NEW f \in chats, HearChat(f)
      PROVE  CountsIn(cache)' /\ CountsIn(fetch.got)' /\ OnlyNext'
  <2>1. fetch' = fetch /\ ghosts' = ghosts /\ unseen \subseteq unseen'
    BY <1>4 DEF HearChat, Hear
  <2>2. CountsIn(fetch.got)' /\ OnlyNext'
    BY <1>a, <2>1 DEF CountsIn
  <2>3. CASE cache' = cache
    BY <1>a, <2>1, <2>2, <2>3 DEF CountsIn
  <2>4. CASE f.conv \in Listed /\ cache' = MoveToTop(f.conv, f.conv # active)
             /\ (f.conv # active => f.conv \in unseen')
    <3>1. PICK c \in Listed, m \in BOOLEAN : c = f.conv /\ m = (f.conv # active)
      BY <2>4
    <3>2. /\ Topped(cache', cache, c)
          /\ \E r \in Rows(cache) : RowAt(cache', <<1, 1>>) = [conv |-> c, unread |-> m, friend |-> r.friend]
      BY <1>0, <2>4, <3>1, Tops DEF QueryTypes
    <3>3. SUFFICES ASSUME NEW r \in Rows(cache'), r.unread PROVE r.conv \in unseen' \cup ghosts'
      BY <2>2 DEF CountsIn
    <3>4. PICK x \in Places(cache') : r = RowAt(cache', x)
      BY ListedAt
    <3>5. CASE x = <<1, 1>>
      <4>1. \A e, d : [conv |-> c, unread |-> e, friend |-> d].unread => e
        OBVIOUS
      <4>2. r.conv = c /\ m
        BY <3>2, <3>3, <3>4, <3>5, <4>1
      <4>3. QED
        BY <2>4, <3>1, <4>2
    <3>6. CASE x # <<1, 1>>
      <4>1. r \in Rows(cache)
        BY <3>2, <3>4, <3>6 DEF Topped
      <4>2. QED
        BY <1>a, <2>1, <3>3, <4>1 DEF CountsIn
    <3>7. QED
      BY <3>5, <3>6
  <2>5. QED
    BY <1>4, <2>3, <2>4 DEF HearChat, Hear
<1>5. CASE HearFriendEvent \/ TimerFires \/ DeleteChat
  <2>1. UNCHANGED <<unseen, ghosts, cache>>
    BY <1>5 DEF HearFriendEvent, TimerFires, DeleteChat, markVars
  <2>2. fetch' = fetch \/ fetch'.got = <<>>
    BY <1>0, <1>5, GotKept DEF HearFriendEvent, TimerFires, DeleteChat
  <2>3. QED
    BY <1>c, <2>1, <2>2
<1>6. CASE Serve
  <2>1. UNCHANGED <<unseen, ghosts, cache>> /\ fetch'.kind = fetch.kind
        /\ fetch'.got = Append(fetch.got, Page(Len(fetch.got)))
    BY <1>0, <1>6 DEF Serve, markVars, QueryTypes, FetchTypes, FetchRecord
  <2>2. CountsIn(cache)'
    BY <1>a, <2>1 DEF CountsIn
  <2>3. PICK pg : pg = Page(Len(fetch.got))
    OBVIOUS
  <2>4. fetch.got \in Seq(PageType) /\ pg \in PageType /\ \A r \in ToSet(pg.items) : ~r.unread
    <3>1. fetch.got \in Seq(PageType) /\ Len(fetch.got) \in Nat
      BY <1>0, LenProperties DEF QueryTypes, FetchTypes, FetchRecord
    <3>2. pg \in PageType /\ \A j \in 1..Len(pg.items) : \E d : pg.items[j] = ToRow(d)
      BY <1>0, <2>3, <3>1, PageShows DEF ServerTypes
    <3>3. pg.items \in Seq(Row)
      BY <3>2 DEF PageType
    <3>4. DOMAIN pg.items = 1..Len(pg.items)
      BY <3>3, LenProperties
    <3>5. \A d : ~ToRow(d).unread
      BY DEF ToRow
    <3>6. \A r \in ToSet(pg.items) : \E j \in 1..Len(pg.items) : r = pg.items[j]
      BY <3>4 DEF ToSet
    <3>7. QED
      BY <3>1, <3>2, <3>5, <3>6
  <2>5. Rows(fetch.got)' = Rows(fetch.got) \cup ToSet(pg.items)
    BY <2>1, <2>3, <2>4, Appends
  <2>6. CountsIn(fetch.got)' /\ OnlyNext'
    BY <1>a, <2>1, <2>4, <2>5 DEF CountsIn
  <2>7. QED
    BY <2>2, <2>6
<1>7. CASE Land
  BY <1>0, <1>a, <1>7, NewFetch, NoPlaces DEF Land, CountsIn, markVars
<1>8. CASE FetchFails
  <2>1. UNCHANGED <<unseen, ghosts, cache>> /\ fetch'.got = <<>>
    BY <1>0, <1>8, NewFetch DEF FetchFails, markVars
  <2>2. QED
    BY <1>c, <2>1
<1>9. CASE HandleScroll
  <2>1. UNCHANGED <<unseen, ghosts, cache>> /\ fetch'.got = cache /\ fetch'.kind = "next"
    BY <1>9 DEF HandleScroll, markVars
  <2>2. QED
    BY <1>a, <2>1 DEF CountsIn
<1>10. CASE HideAiChat
  <2>1. UNCHANGED <<unseen, ghosts, cache>> /\ (fetch' = fetch \/ fetch'.got = <<>>)
    BY <1>0, <1>10, NewFetch DEF HideAiChat, markVars
  <2>2. QED
    BY <1>c, <2>1
<1>11. CASE Reload
  <2>1. cache' = <<>> /\ fetch'.got = <<>>
    BY <1>0, <1>11, NewFetch DEF Reload
  <2>2. QED
    BY <2>1, NoPlaces DEF CountsIn
<1>12. CASE Drop \/ ShowAiChat \/ UNCHANGED vars
  BY <1>12, <1>c DEF Drop, ShowAiChat, vars, queryVars, markVars
<1>13. QED
  BY <1>1, <1>2, <1>3, <1>4, <1>5, <1>6, <1>7, <1>8, <1>9, <1>10, <1>11, <1>12 DEF Next

-----------------------------------------------------------------------------
\* The server's list and the frames on the way.

\* The first m conversations of the list.
Prefix(m) == {order[i] : i \in 1..m}

LEMMA ListFacts ==
    ASSUME Sorted
    PROVE  /\ order \in Seq(Convs) /\ Len(order) \in Nat /\ DOMAIN order = 1..Len(order)
           /\ \A i \in 1..Len(order) : order[i] \in Convs
           /\ \A i, j \in 1..Len(order) : order[i] = order[j] => i = j
           /\ ToSet(order) = Prefix(Len(order))
           /\ \A i, j \in 1..Len(order) : Before(order[i], order[j]) <=> i < j
<1>1. order \in Seq(Convs) /\ Len(order) \in Nat /\ DOMAIN order = 1..Len(order)
      /\ \A i \in 1..Len(order) : order[i] \in Convs
  BY ElementOfSeq, LenProperties DEF Sorted
<1>2. \A i, j \in 1..Len(order) : order[i] = order[j] => i = j
  BY <1>1 DEF Sorted, IsInjective
<1>3. \A i, j \in 1..Len(order) : Before(order[i], order[j]) <=> i < j
  BY <1>1, <1>2 DEF Before
<1>4. QED
  BY <1>1, <1>2, <1>3 DEF Prefix, ToSet

LEMMA PrefixSize ==
    ASSUME Sorted, NEW m \in 0..Len(order)
    PROVE  IsFiniteSet(Prefix(m)) /\ Cardinality(Prefix(m)) = m
<1> DEFINE f == [i \in 1..m |-> order[i]]
<1>1. Len(order) \in Nat /\ \A i, j \in 1..Len(order) : order[i] = order[j] => i = j
  BY ListFacts
<1>2. f \in Bijection(1..m, Prefix(m))
  <2>1. f \in [1..m -> Prefix(m)] /\ \A x \in Prefix(m) : \E i \in 1..m : f[i] = x
    BY DEF Prefix
  <2>2. \A i, j \in 1..m : f[i] = f[j] => i = j
    BY <1>1
  <2> HIDE DEF f
  <2>3. QED
    BY <2>1, <2>2 DEF Bijection, Injection, Surjection, IsInjective
<1>3. m \in Nat
  BY <1>1
<1>4. IsFiniteSet(1..m) /\ Cardinality(1..m) = m
  BY <1>3, FS_Interval
<1>5. QED
  BY <1>2, <1>4, FS_Bijection DEF ExistsBijection

\* A part of the list that is closed upwards is a prefix.
LEMMA ClosedIsPrefix ==
    ASSUME Sorted, NEW D, D \subseteq ToSet(order),
           \A d \in Convs, e \in D : Before(d, e) => d \in D
    PROVE  Cardinality(D) \in 0..Len(order) /\ D = Prefix(Cardinality(D))
<1> DEFINE out == {i \in 1..Len(order) : order[i] \notin D}
<1>1. Len(order) \in Nat /\ ToSet(order) = Prefix(Len(order))
      /\ (\A i \in 1..Len(order) : order[i] \in Convs)
      /\ \A i, j \in 1..Len(order) : Before(order[i], order[j]) <=> i < j
  BY ListFacts
<1>2. \E m \in 0..Len(order) : D = Prefix(m)
  <2>1. CASE out = {}
    <3>1. D = Prefix(Len(order))
      BY <1>1, <2>1 DEF Prefix
    <3>2. QED
      BY <1>1, <3>1
  <2>2. CASE out # {}
    <3>1. out \subseteq Nat
      BY <1>1
    <3>2. PICK i \in out : \A j \in out : i <= j
      <4> HIDE DEF out
      <4>1. QED
        BY <2>2, <3>1, Least
    <3>3. \A j \in 1..Len(order) : order[j] \in D <=> j < i
      <4>1. TAKE j \in 1..Len(order)
      <4>2. ASSUME order[j] \in D PROVE j < i
        <5>1. ~ i < j
          BY <1>1, <3>2, <4>2
        <5>2. i # j
          BY <4>2
        <5>3. QED
          BY <1>1, <5>1, <5>2
      <4>3. ASSUME j < i PROVE order[j] \in D
        BY <1>1, <3>2, <4>3
      <4>4. QED
        BY <4>2, <4>3
    <3>4. i - 1 \in 0..Len(order)
      BY <1>1
    <3>5. D = Prefix(i - 1)
      <4>1. \A d \in D : \E j \in 1..Len(order) : d = order[j]
        BY <1>1 DEF Prefix
      <4>2. D \subseteq Prefix(i - 1)
        BY <1>1, <3>3, <4>1 DEF Prefix
      <4>3. Prefix(i - 1) \subseteq D
        BY <1>1, <3>3 DEF Prefix
      <4>4. QED
        BY <4>2, <4>3
    <3>6. QED
      BY <3>4, <3>5
  <2>3. QED
    BY <2>1, <2>2
<1>3. PICK m \in 0..Len(order) : D = Prefix(m)
  BY <1>2
<1>4. Cardinality(D) = m
  BY <1>3, PrefixSize
<1>5. QED
  BY <1>3, <1>4

LEMMA MaxOfTwo ==
    ASSUME NEW a \in Nat, NEW b \in Nat
    PROVE  Max({a, b}) = IF a >= b THEN a ELSE b
<1>1. \E x \in {a, b} : \A y \in {a, b} : x >= y
  OBVIOUS
<1>2. Max({a, b}) \in {a, b} /\ \A y \in {a, b} : Max({a, b}) >= y
  BY <1>1 DEF Max
<1>3. QED
  BY <1>2

LEMMA FrameFacts ==
    ASSUME Types
    PROVE  /\ \A f \in chats : f.conv \in Convs /\ f.n \in Nat /\ f.n <= stored
           /\ newest \in Nat /\ stored \in Nat /\ timers \in Nat /\ events \in Nat
BY TypeGroups DEF NetTypes, ServerTypes, Budget, QueryTypes

LEMMA NewestGrows ==
    ASSUME Types, NEW f \in chats, HearChat(f)
    PROVE  newest' \in Nat /\ newest' >= newest /\ newest' >= f.n
<1>1. newest' = Max({newest, f.n}) /\ newest \in Nat /\ f.n \in Nat
  BY FrameFacts DEF HearChat
<1>2. QED
  BY <1>1, MaxOfTwo

LEMMA HeadStep ==
    ASSUME Types, HeadInv, [Next]_vars
    PROVE  HeadInv'
<1>0. ServerTypes /\ (\A f \in chats : f.conv \in Convs /\ f.n \in Nat /\ f.n <= stored)
      /\ newest \in Nat /\ stored \in Nat
  BY FrameFacts, TypeGroups
<1>1. ASSUME NEW c \in Convs, Store(c) PROVE HeadInv'
  <2>1. /\ ToSet(order)' = ToSet(order) \cup {c}
        /\ \A d, e : Before(d, e)' => e # c /\ (d = c \/ Before(d, e))
    BY <1>0, <1>1, InFront DEF ServerTypes, Store
  <2>2. PICK h : h = [conv |-> c, n |-> stored + 1]
    OBVIOUS
  <2>3. h.conv = c /\ h.n = stored + 1
    BY <2>2
  <2>4. chats' = chats \cup {h} /\ newest' = newest
    BY <1>1, <2>2 DEF Store
  <2>5. SUFFICES ASSUME NEW f \in chats'
                 PROVE  /\ f.conv \in ToSet(order)'
                        /\ ~ f.n < newest =>
                              \A d \in Convs : Before(d, f.conv)' =>
                                 \E g \in chats' : g.conv = d /\ g.n > f.n
    BY <2>4, Zenon DEF HeadInv
  <2>6. CASE f = h
    BY <2>1, <2>3, <2>6
  <2>7. CASE f \in chats
    <3>1. f.conv \in ToSet(order)'
      BY <2>1, <2>7 DEF HeadInv
    <3>2. ASSUME ~ f.n < newest, NEW d \in Convs, Before(d, f.conv)'
          PROVE  \E g \in chats' : g.conv = d /\ g.n > f.n
      <4>1. CASE d = c
        BY <1>0, <2>3, <2>4, <2>7, <4>1
      <4>2. CASE d # c
        <5>1. Before(d, f.conv)
          BY <2>1, <3>2, <4>2
        <5>2. QED
          BY <2>4, <2>7, <3>2, <5>1 DEF HeadInv
      <4>3. QED
        BY <4>1, <4>2
    <3>3. QED
      BY <3>1, <3>2
  <2>8. QED
    BY <2>4, <2>6, <2>7
<1>2. ASSUME ToSet(order) \subseteq ToSet(order)', chats' = chats, newest' = stored + 1
      PROVE  HeadInv'
  <2>1. \A f \in chats' : f.conv \in ToSet(order)' /\ f.n < newest'
    BY <1>0, <1>2 DEF HeadInv
  <2>2. QED
    BY <2>1 DEF HeadInv
<1>3. CASE UNCHANGED <<order, chats, newest>>
  BY <1>3 DEF HeadInv, Before
<1>4. CASE chats' = {}
  BY <1>4 DEF HeadInv
<1>5. ASSUME NEW c \in Convs, PeerStarts(c) PROVE HeadInv'
  <2>1. ToSet(order) \subseteq ToSet(order)'
    BY <1>0, <1>5, InFront DEF ServerTypes, PeerStarts
  <2>2. QED
    BY <1>2, <1>5, <2>1 DEF PeerStarts, netVars
<1>6. ASSUME NEW c \in Convs, StartChat(c) PROVE HeadInv'
  <2>1. CASE c \in ToSet(order)
    BY <1>3, <1>6, <2>1 DEF StartChat, netVars
  <2>2. CASE c \notin ToSet(order)
    <3>1. ToSet(order) \subseteq ToSet(order)'
      BY <1>0, <1>6, <2>2, InFront DEF ServerTypes, StartChat
    <3>2. QED
      BY <1>2, <1>6, <2>2, <3>1 DEF StartChat, netVars
  <2>3. QED
    BY <2>1, <2>2
<1>7. ASSUME NEW h \in chats, HearChat(h) PROVE HeadInv'
  <2>1. chats' = chats \ {h} /\ order' = order
    BY <1>7 DEF HearChat, serverVars
  <2>2. newest' \in Nat /\ newest' >= newest /\ newest' >= h.n
    BY <1>7, NewestGrows
  <2>3. SUFFICES ASSUME NEW f \in chats'
                 PROVE  /\ f.conv \in ToSet(order)
                        /\ ~ f.n < newest' =>
                              \A d \in Convs : Before(d, f.conv) =>
                                 \E g \in chats' : g.conv = d /\ g.n > f.n
    BY <2>1 DEF HeadInv, Before
  <2>4. f \in chats /\ f.conv \in ToSet(order)
    BY <2>1 DEF HeadInv
  <2>5. ASSUME ~ f.n < newest', NEW d \in Convs, Before(d, f.conv)
        PROVE  \E g \in chats' : g.conv = d /\ g.n > f.n
    <3>1. ~ f.n < newest
      BY <1>0, <2>2, <2>4, <2>5
    <3>2. PICK g \in chats : g.conv = d /\ g.n > f.n
      BY <2>4, <2>5, <3>1 DEF HeadInv
    <3>3. g # h
      BY <1>0, <2>2, <2>4, <2>5, <3>2
    <3>4. QED
      BY <2>1, <3>2, <3>3
  <2>6. QED
    BY <2>4, <2>5
<1>8. ASSUME NEW c \in Convs, Befriend(c) \/ HandleSelectChat(c) PROVE HeadInv'
  BY <1>3, <1>8 DEF Befriend, HandleSelectChat, serverVars, netVars
<1>9. CASE Drop \/ Reload
  BY <1>4, <1>9 DEF Drop, Reload
<1>10. CASE \/ HearFriendEvent \/ TimerFires \/ Serve \/ Land \/ FetchFails \/ HandleScroll
            \/ DeleteChat \/ ShowAiChat \/ HideAiChat \/ UNCHANGED vars
  BY <1>3, <1>10 DEF HearFriendEvent, TimerFires, Serve, Land, FetchFails, HandleScroll,
     DeleteChat, ShowAiChat, HideAiChat, vars, serverVars, netVars
<1>11. QED
  BY <1>1, <1>5, <1>6, <1>7, <1>8, <1>9, <1>10 DEF Next

-----------------------------------------------------------------------------
\* What is listed.

LEMMA ListedTopped ==
    ASSUME NEW p, NEW q, NEW c \in ListedIn(p), Topped(q, p, c), RowAt(q, <<1, 1>>).conv = c
    PROVE  ListedIn(q) = ListedIn(p)
<1>1. ASSUME NEW e \in ListedIn(q) PROVE e \in ListedIn(p)
  <2>1. PICK x \in Places(q) : e = RowAt(q, x).conv
    BY ListedAt
  <2>2. CASE x = <<1, 1>>
    BY <2>1, <2>2
  <2>3. CASE x # <<1, 1>>
    BY <2>1, <2>3 DEF Topped, ListedIn
  <2>4. QED
    BY <2>2, <2>3
<1>2. ASSUME NEW e \in ListedIn(p) PROVE e \in ListedIn(q)
  <2>1. CASE e = c
    <3>1. <<1, 1>> \in Places(q)
      BY DEF Topped
    <3>2. QED
      BY <2>1, <3>1, ListedAt
  <2>2. CASE e # c
    BY <2>2 DEF Topped, ListedIn
  <2>3. QED
    BY <2>1, <2>2
<1>3. QED
  BY <1>1, <1>2

LEMMA ListedRead ==
    ASSUME NEW p \in Seq(PageType), NEW c \in Convs
    PROVE  ListedIn(ReadPages(p, c)) = ListedIn(p)
<1>1. PICK q : q = ReadPages(p, c)
  OBVIOUS
<1>2. Places(q) = Places(p) /\ \A x \in Places(p) : RowAt(q, x).conv = RowAt(p, x).conv
  BY <1>1, Reads
<1>3. ASSUME NEW e \in ListedIn(q) PROVE e \in ListedIn(p)
  <2>1. PICK x \in Places(q) : e = RowAt(q, x).conv
    BY ListedAt
  <2>2. x \in Places(p) /\ e = RowAt(p, x).conv
    BY <1>2, <2>1
  <2>3. QED
    BY <2>2, ListedAt
<1>4. ASSUME NEW e \in ListedIn(p) PROVE e \in ListedIn(q)
  <2>1. PICK x \in Places(p) : e = RowAt(p, x).conv
    BY ListedAt
  <2>2. x \in Places(q) /\ e = RowAt(q, x).conv
    BY <1>2, <2>1
  <2>3. QED
    BY <2>2, ListedAt
<1>5. ListedIn(q) = ListedIn(p)
  BY <1>3, <1>4
<1>6. QED
  BY <1>1, <1>5

\* The conversations on a page of the server.
PageConvs(p) == {r.conv : r \in ToSet(Page(p).items)}

LEMMA PageLists ==
    ASSUME Sorted, NEW p \in Nat
    PROVE  /\ PageConvs(p) \subseteq ToSet(order)
           /\ IsFiniteSet(PageConvs(p)) /\ Cardinality(PageConvs(p)) <= PageSize
           /\ \A i \in 1..Len(order) :
                 order[i] \in PageConvs(p) <=> p * PageSize < i /\ i <= p * PageSize + PageSize
<1>1. PICK M \in Nat : M = p * PageSize
  BY PageShows
<1>2. PICK its : its = Page(p).items
  OBVIOUS
<1>3. /\ its \in Seq(Row)
      /\ \A j \in 1..Len(its) : /\ M + j \in 1..Len(order) /\ j <= PageSize
                                /\ its[j] = ToRow(order[M + j])
      /\ \A i \in 1..Len(order) : M < i /\ i <= M + PageSize => i - M \in 1..Len(its)
  <2>1. Page(p) \in PageType
    BY PageShows
  <2>2. its \in Seq(Row)
    BY <1>2, <2>1 DEF PageType
  <2>3. QED
    BY <1>1, <1>2, <2>2, PageShows
<1>4. Len(its) \in Nat /\ DOMAIN its = 1..Len(its)
  BY <1>3, LenProperties
<1>5. \A d : ToRow(d).conv = d
  BY DEF ToRow
<1>6. \A d : d \in PageConvs(p) <=> \E j \in 1..Len(its) : d = order[M + j]
  <2>1. \A r : r \in ToSet(its) <=> \E j \in 1..Len(its) : r = its[j]
    BY <1>4 DEF ToSet
  <2>2. \A d : d \in PageConvs(p) <=> \E r \in ToSet(its) : d = r.conv
    BY <1>2 DEF PageConvs
  <2>3. \A j \in 1..Len(its) : its[j].conv = order[M + j]
    BY <1>3, <1>5
  <2>4. ASSUME NEW d \in PageConvs(p) PROVE \E j \in 1..Len(its) : d = order[M + j]
    <3>1. PICK r \in ToSet(its) : d = r.conv
      BY <2>2, <2>4
    <3>2. PICK j \in 1..Len(its) : r = its[j]
      BY <2>1, <3>1
    <3>3. d = order[M + j]
      BY <2>3, <3>1, <3>2
    <3>4. QED
      BY <3>3
  <2>5. ASSUME NEW j \in 1..Len(its) PROVE order[M + j] \in PageConvs(p)
    <3>1. its[j] \in ToSet(its)
      BY <2>1
    <3>2. QED
      BY <2>2, <2>3, <3>1
  <2>6. QED
    BY <2>4, <2>5
<1>7. Len(order) \in Nat /\ (\A i, j \in 1..Len(order) : order[i] = order[j] => i = j)
      /\ ToSet(order) = Prefix(Len(order))
  BY ListFacts
<1>8. PageConvs(p) \subseteq ToSet(order)
  BY <1>3, <1>6, <1>7 DEF Prefix
<1>9. \A i \in 1..Len(order) : order[i] \in PageConvs(p) <=> M < i /\ i <= M + PageSize
  <2>1. TAKE i \in 1..Len(order)
  <2>2. ASSUME order[i] \in PageConvs(p) PROVE M < i /\ i <= M + PageSize
    <3>1. PICK j \in 1..Len(its) : order[i] = order[M + j]
      BY <1>6, <2>2
    <3>2. i = M + j /\ j <= PageSize
      BY <1>3, <1>7, <3>1
    <3>3. QED
      BY <1>4, <3>2
  <2>3. ASSUME M < i, i <= M + PageSize PROVE order[i] \in PageConvs(p)
    <3>1. i - M \in 1..Len(its) /\ M + (i - M) = i
      BY <1>3, <1>7, <2>3
    <3>2. QED
      BY <1>6, <3>1
  <2>4. QED
    BY <2>2, <2>3
<1>10. IsFiniteSet(PageConvs(p)) /\ Cardinality(PageConvs(p)) <= PageSize
  <2> DEFINE f == [j \in 1..Len(its) |-> order[M + j]]
  <2>1. f \in [1..Len(its) -> PageConvs(p)] /\ \A d \in PageConvs(p) : \E j \in 1..Len(its) : f[j] = d
    BY <1>6
  <2> HIDE DEF f
  <2>2. f \in Surjection(1..Len(its), PageConvs(p))
    BY <2>1 DEF Surjection
  <2>3. IsFiniteSet(1..Len(its)) /\ Cardinality(1..Len(its)) = Len(its)
    <3>1. Len(its) \in Int /\ 1 \in Int
      BY <1>4
    <3>2. IsFiniteSet(1..Len(its))
          /\ Cardinality(1..Len(its)) = IF 1 > Len(its) THEN 0 ELSE Len(its) - 1 + 1
      BY <3>1, FS_Interval
    <3>3. QED
      BY <1>4, <3>2
  <2>4. IsFiniteSet(PageConvs(p)) /\ Cardinality(PageConvs(p)) <= Len(its)
    BY <2>2, <2>3, FS_Surjection
  <2>5. Len(its) <= PageSize
    <3>1. Len(its) = 0 \/ Len(its) \in 1..Len(its)
      BY <1>4
    <3>2. QED
      BY <1>3, <3>1, PageAssumption
  <2>6. Cardinality(PageConvs(p)) \in Nat
    BY <2>4, FS_CardinalityType
  <2>7. QED
    BY <1>4, <2>4, <2>5, <2>6
<1>11. QED
  BY <1>1, <1>8, <1>9, <1>10

\* What was got and what Serve makes of it.
LEMMA ServeFacts ==
    ASSUME Types, Serve
    PROVE  \E p, q \in Seq(PageType) :
              /\ p = fetch.got /\ q = fetch'.got /\ q = Append(p, Page(Len(p)))
              /\ Len(p) \in Nat /\ Len(q) = Len(p) + 1 /\ Page(Len(p)) \in PageType
              /\ ListedIn(q) = ListedIn(p) \cup PageConvs(Len(p))
<1>1. ServerTypes /\ fetch \in FetchRecord
  BY TypeGroups DEF QueryTypes, FetchTypes
<1>2. PICK p \in Seq(PageType) : p = fetch.got
  BY <1>1 DEF FetchRecord
<1>3. Len(p) \in Nat
  BY LenProperties
<1>4. PICK pg \in PageType : pg = Page(Len(p))
  BY <1>1, <1>3, PageShows DEF ServerTypes
<1>5. PICK q \in Seq(PageType) : q = Append(p, pg)
  BY Appends
<1>6. fetch'.got = Append(fetch.got, Page(Len(fetch.got)))
  BY <1>1 DEF Serve, FetchRecord
<1>7. q = fetch'.got
  BY <1>2, <1>4, <1>5, <1>6
<1>8. Rows(q) = Rows(p) \cup ToSet(pg.items) /\ Len(q) = Len(p) + 1
  BY <1>5, Appends
<1>9. ListedIn(q) = ListedIn(p) \cup PageConvs(Len(p))
  BY <1>4, <1>8 DEF ListedIn, PageConvs
<1>10. QED
  BY <1>2, <1>3, <1>4, <1>5, <1>7, <1>8, <1>9

LEMMA FitsKept ==
    ASSUME NEW p, NEW q, Fits(p), Len(q) = Len(p), ListedIn(q) = ListedIn(p),
           ToSet(order) \subseteq ToSet(order)'
    PROVE  Fits(q)'
BY DEF Fits

LEMMA FitsNothing ==
    ASSUME NEW p, p = <<>>
    PROVE  Fits(p)
<1>1. ListedIn(p) = {} /\ Len(p) = 0 /\ 0 * PageSize = 0
  BY NoPlaces, EmptySeq, PageAssumption
<1>2. QED
  BY <1>1, FS_EmptySet DEF Fits

\* What a frame does to the cache.
LEMMA HearCache ==
    ASSUME Types, NEW f \in chats, HearChat(f)
    PROVE  \/ cache' = cache
           \/ /\ f.conv \in Listed /\ mounted /\ timers' = timers
              /\ Topped(cache', cache, f.conv) /\ RowAt(cache', <<1, 1>>).conv = f.conv
              /\ \E r \in Rows(cache) :
                    /\ r.conv = f.conv /\ r.friend = RowAt(cache', <<1, 1>>).friend
<1>0. cache \in Seq(PageType)
  BY TypeGroups DEF QueryTypes
<1>1. CASE cache' = cache
  BY <1>1
<1>2. CASE f.conv \in Listed /\ mounted /\ cache' = MoveToTop(f.conv, f.conv # active)
           /\ timers' = timers
  <2>1. PICK c \in Listed, m \in BOOLEAN : c = f.conv /\ m = (f.conv # active)
    BY <1>2
  <2>2. /\ Topped(cache', cache, c)
        /\ \E r \in Rows(cache) :
              /\ r.conv = c
              /\ RowAt(cache', <<1, 1>>) = [conv |-> c, unread |-> m, friend |-> r.friend]
    BY <1>0, <1>2, <2>1, Tops
  <2>3. QED
    BY <1>2, <2>1, <2>2
<1>3. QED
  BY <1>1, <1>2 DEF HearChat, Hear

LEMMA FitStep ==
    ASSUME Types, FitInv, [Next]_vars
    PROVE  FitInv'
<1>0. ServerTypes /\ PageTypes /\ QueryTypes
  BY TypeGroups
<1>a. Fits(cache) /\ Fits(fetch.got)
  BY DEF FitInv
<1>1. ASSUME ToSet(order) \subseteq ToSet(order)', UNCHANGED <<cache, fetch>> PROVE FitInv'
  <2>1. ASSUME NEW p \in {cache, fetch.got} PROVE Fits(p)'
    BY <1>a, <1>1, <2>1, FitsKept
  <2>2. QED
    BY <1>1, <2>1 DEF FitInv
<1>2. ASSUME order' = order,
             cache' = <<>> \/ cache' = cache \/ cache' = fetch.got,
             fetch'.got = <<>> \/ fetch' = fetch \/ fetch'.got = cache
      PROVE  FitInv'
  <2>1. SUFFICES ASSUME NEW q \in {cache', fetch'.got} PROVE Fits(q)'
    BY DEF FitInv
  <2>2. q = <<>> \/ q = cache \/ q = fetch.got
    BY <1>2
  <2>3. Fits(q)
    BY <1>a, <2>2, FitsNothing
  <2>4. QED
    BY <1>2, <2>3, FitsKept
<1>3. ASSUME NEW c \in Convs, Store(c) \/ PeerStarts(c) \/ Befriend(c) \/ StartChat(c) PROVE FitInv'
  <2>1. UNCHANGED <<cache, fetch>>
    BY <1>3 DEF Store, PeerStarts, Befriend, StartChat, queryVars
  <2>2. order' = order \/ order' = ToFront(c)
    BY <1>3 DEF Store, PeerStarts, Befriend, StartChat
  <2>3. ToSet(order) \subseteq ToSet(order)'
    <3>1. CASE order' = order
      BY <3>1
    <3>2. CASE order' = ToFront(c)
      BY <1>0, <3>2, InFront DEF ServerTypes
    <3>3. QED
      BY <2>2, <3>1, <3>2
  <2>4. QED
    BY <1>1, <2>1, <2>3
<1>4. ASSUME NEW c \in Convs, HandleSelectChat(c) PROVE FitInv'
  <2>1. cache' = ReadPages(cache, c) /\ fetch' = fetch /\ order' = order
    BY <1>4 DEF HandleSelectChat, serverVars
  <2>2. PICK p \in Seq(PageType) : p = cache
    BY <1>0 DEF QueryTypes
  <2>3. PICK q : q = ReadPages(p, c)
    OBVIOUS
  <2>4. Fits(q)'
    BY <1>a, <2>1, <2>2, <2>3, Reads, ListedRead, FitsKept
  <2>5. ASSUME NEW r, r = fetch.got PROVE Fits(r)'
    BY <1>a, <2>1, <2>5, FitsKept
  <2>6. QED
    BY <2>1, <2>2, <2>3, <2>4, <2>5 DEF FitInv
<1>5. ASSUME NEW f \in chats, HearChat(f) PROVE FitInv'
  <2>1. fetch' = fetch /\ order' = order
    BY <1>5 DEF HearChat, serverVars
  <2>2. CASE cache' = cache
    BY <1>2, <2>1, <2>2
  <2>3. CASE cache' # cache
    <3>1. PICK p, q : p = cache /\ q = cache'
      OBVIOUS
    <3>2. PICK c : c = f.conv
      OBVIOUS
    <3>3. c \in ListedIn(p) /\ Topped(q, p, c) /\ RowAt(q, <<1, 1>>).conv = c
      BY <1>5, <2>3, <3>1, <3>2, HearCache DEF Listed
    <3>4. ListedIn(q) = ListedIn(p) /\ Len(q) = Len(p)
      BY <3>3, ListedTopped DEF Topped
    <3>5. Fits(q)'
      BY <1>a, <2>1, <3>1, <3>4, FitsKept
    <3>6. ASSUME NEW r, r = fetch.got PROVE Fits(r)'
      BY <1>a, <2>1, <3>6, FitsKept
    <3>7. QED
      BY <2>1, <3>1, <3>5, <3>6 DEF FitInv
  <2>4. QED
    BY <2>2, <2>3
<1>6. CASE Serve
  <2>1. cache' = cache /\ order' = order
    BY <1>6 DEF Serve, serverVars
  <2>2. PICK p, q \in Seq(PageType) :
           /\ p = fetch.got /\ q = fetch'.got
           /\ Len(p) \in Nat /\ Len(q) = Len(p) + 1
           /\ ListedIn(q) = ListedIn(p) \cup PageConvs(Len(p))
    BY <1>6, ServeFacts
  <2>3. /\ PageConvs(Len(p)) \subseteq ToSet(order) /\ IsFiniteSet(PageConvs(Len(p)))
        /\ Cardinality(PageConvs(Len(p))) <= PageSize
    BY <1>0, <2>2, PageLists DEF ServerTypes
  <2>4. /\ IsFiniteSet(ListedIn(p)) /\ Cardinality(ListedIn(p)) <= Len(p) * PageSize
        /\ ListedIn(p) \subseteq ToSet(order)
    BY <1>a, <2>2 DEF Fits
  <2>5. PICK S, T : S = ListedIn(p) /\ T = PageConvs(Len(p))
    OBVIOUS
  <2>6. IsFiniteSet(S \cup T) /\ Cardinality(S \cup T) <= Cardinality(S) + Cardinality(T)
        /\ Cardinality(S) \in Nat /\ Cardinality(T) \in Nat /\ Cardinality(S \cup T) \in Nat
    <3>1. IsFiniteSet(S) /\ IsFiniteSet(T)
      BY <2>3, <2>4, <2>5
    <3>2. IsFiniteSet(S \cap T) /\ IsFiniteSet(S \cup T)
          /\ Cardinality(S \cup T) = Cardinality(S) + Cardinality(T) - Cardinality(S \cap T)
      BY <3>1, FS_Union, FS_Intersection
    <3>3. Cardinality(S) \in Nat /\ Cardinality(T) \in Nat /\ Cardinality(S \cap T) \in Nat
          /\ Cardinality(S \cup T) \in Nat
      BY <3>1, <3>2, FS_CardinalityType
    <3>4. QED
      BY <3>2, <3>3
  <2>7. Len(p) * PageSize \in Nat /\ Len(q) * PageSize = Len(p) * PageSize + PageSize
    BY <1>0, <2>2, PageShows DEF ServerTypes
  <2>8. Cardinality(ListedIn(q)) <= Len(q) * PageSize
    BY <2>2, <2>3, <2>4, <2>5, <2>6, <2>7, PageAssumption
  <2>9. Fits(q)'
    BY <2>1, <2>2, <2>3, <2>4, <2>5, <2>6, <2>8 DEF Fits
  <2>10. ASSUME NEW r, r = cache PROVE Fits(r)'
    BY <1>a, <2>1, <2>10, FitsKept
  <2>11. QED
    BY <2>1, <2>2, <2>9, <2>10 DEF FitInv
<1>7. CASE HearFriendEvent \/ TimerFires \/ DeleteChat
  <2>1. fetch' = fetch \/ fetch'.got = <<>>
    BY <1>0, <1>7, GotKept DEF HearFriendEvent, TimerFires, DeleteChat
  <2>2. order' = order /\ cache' = cache
    BY <1>7 DEF HearFriendEvent, TimerFires, DeleteChat, serverVars
  <2>3. QED
    BY <1>2, <2>1, <2>2
<1>8. CASE Land \/ FetchFails \/ HandleScroll \/ HideAiChat \/ Reload
  BY <1>0, <1>2, <1>8, NewFetch DEF Land, FetchFails, HandleScroll, HideAiChat, Reload, serverVars
<1>9. CASE Drop \/ ShowAiChat \/ UNCHANGED vars
  BY <1>2, <1>9 DEF Drop, ShowAiChat, vars, serverVars, queryVars
<1>10. QED
  BY <1>3, <1>4, <1>5, <1>6, <1>7, <1>8, <1>9 DEF Next

LEMMA InvalidStep ==
    ASSUME Types, InvalidInv, [Next]_vars
    PROVE  InvalidInv'
<1>0. PageTypes /\ QueryTypes /\ fetch.kind \in {"none", "first", "all", "next"}
  BY TypeGroups DEF QueryTypes, FetchTypes, FetchRecord
<1>1. CASE UNCHANGED <<invalid, fetch, mounted>> /\ (behind' = behind \/ behind' = TRUE)
  BY <1>0, <1>1 DEF InvalidInv, PageTypes
<1>2. CASE mounted' = mounted /\ Invalidate
  <2>1. CASE ~mounted /\ fetch' = fetch /\ behind' = (behind \/ fetch.kind # "none")
    BY <1>0, <1>2, <2>1 DEF InvalidInv, PageTypes
  <2>2. CASE behind' = TRUE
    BY <2>2 DEF InvalidInv
  <2>3. CASE fetch' = Refetch
    BY <1>0, <2>3, NewFetch DEF InvalidInv
  <2>4. QED
    BY <1>0, <1>2, <2>1, <2>2, <2>3, InvalidateCases
<1>3. ASSUME NEW c \in Convs,
             Store(c) \/ PeerStarts(c) \/ Befriend(c) \/ HandleSelectChat(c) \/ StartChat(c)
      PROVE  InvalidInv'
  <2>1. UNCHANGED <<invalid, fetch, mounted>>
    BY <1>3 DEF Store, PeerStarts, Befriend, HandleSelectChat, StartChat, queryVars
  <2>2. behind' = behind \/ behind' = TRUE
    BY <1>0, <1>3 DEF Store, PeerStarts, Befriend, HandleSelectChat, StartChat, PageTypes
  <2>3. QED
    BY <1>1, <2>1, <2>2
<1>4. ASSUME NEW f \in chats, HearChat(f) PROVE InvalidInv'
  <2>1. UNCHANGED <<invalid, fetch, mounted>>
    BY <1>4 DEF HearChat
  <2>2. behind' = behind \/ behind' = TRUE
    BY <1>0, <1>4 DEF HearChat, Hear, PageTypes
  <2>3. QED
    BY <1>1, <2>1, <2>2
<1>5. CASE HearFriendEvent
  <2>1. CASE mounted
    BY <1>2, <1>5, <2>1 DEF HearFriendEvent
  <2>2. CASE ~mounted
    BY <1>1, <1>5, <2>2 DEF HearFriendEvent
  <2>3. QED
    BY <2>1, <2>2
<1>6. CASE TimerFires \/ DeleteChat
  BY <1>2, <1>6 DEF TimerFires, DeleteChat
<1>7. CASE Serve
  <2>1. fetch'.kind = fetch.kind /\ UNCHANGED <<invalid, mounted, behind>>
    BY <1>0, <1>7 DEF Serve, QueryTypes, FetchTypes, FetchRecord
  <2>2. QED
    BY <2>1 DEF InvalidInv
<1>8. CASE Land \/ Reload
  BY <1>8 DEF Land, Reload, InvalidInv
<1>9. CASE FetchFails
  BY <1>0, <1>9 DEF FetchFails, InvalidInv, PageTypes
<1>10. CASE HandleScroll
  BY <1>0, <1>10 DEF HandleScroll, InvalidInv, PageTypes
<1>11. CASE HideAiChat
  BY <1>0, <1>11, NewFetch DEF HideAiChat, InvalidInv, PageTypes
<1>12. CASE Drop
  BY <1>12 DEF Drop, InvalidInv
<1>13. CASE ShowAiChat
  BY <1>13 DEF ShowAiChat, InvalidInv, queryVars
<1>14. CASE UNCHANGED vars
  BY <1>14 DEF vars, queryVars, InvalidInv
<1>15. QED
  BY <1>3, <1>4, <1>5, <1>6, <1>7, <1>8, <1>9, <1>10, <1>11, <1>12, <1>13, <1>14 DEF Next

-----------------------------------------------------------------------------
\* What the pages on their way to the screen have to do with the list.

LEMMA TracksSame ==
    ASSUME NEW p, Tracks(p), UNCHANGED <<order, friends, chats, newest, events, timers>>
    PROVE  Tracks(p)'
BY DEF Tracks, Late, Boxed, Awaited, Trails, Before

LEMMA TracksNothing ==
    ASSUME NEW p, p = <<>>
    PROVE  Tracks(p) /\ Tracks(p)'
<1>1. Places(p) = {} /\ Rows(p) = {} /\ ListedIn(p) = {}
  BY NoPlaces
<1>2. Cardinality(ListedIn(p)) = Len(p) * PageSize
  <2>1. Len(p) = 0 /\ 0 * PageSize = 0
    BY EmptySeq, PageAssumption
  <2>2. QED
    BY <1>1, <2>1, FS_EmptySet
<1>3. Boxed(p) /\ Boxed(p)'
  BY <1>1 DEF Boxed
<1>4. Trails(p) /\ Trails(p)'
  BY <1>1, <1>2 DEF Trails
<1>5. QED
  BY <1>3, <1>4 DEF Tracks

\* Pages as long as others, and as open at the end.
LEMMA SameEnd ==
    ASSUME NEW p \in Seq(PageType), NEW q \in Seq(PageType), Len(q) = Len(p),
           \A i \in 1..Len(p) : q[i].hasNext = p[i].hasNext
    PROVE  (p = <<>> <=> q = <<>>) /\ (HasNextPage(p) <=> HasNextPage(q))
<1>1. Len(p) \in Nat /\ (p = <<>> <=> Len(p) = 0) /\ (q = <<>> <=> Len(q) = 0)
  BY LenProperties, EmptySeq
<1>2. CASE p = <<>>
  BY <1>1, <1>2 DEF HasNextPage
<1>3. CASE p # <<>>
  <2>1. Len(p) \in 1..Len(p)
    BY <1>1, <1>3
  <2>2. QED
    BY <1>1, <1>3, <2>1 DEF HasNextPage, Last
<1>4. QED
  BY <1>2, <1>3

\* A message is stored: its conversation is awaited.
LEMMA TracksStore ==
    ASSUME Types, NEW c \in Convs, Store(c), NEW p, Tracks(p)
    PROVE  Tracks(p)'
<1>0. Sorted
  BY TypeGroups DEF ServerTypes
<1>1. UNCHANGED <<friends, events, newest, timers>> /\ order' = ToFront(c)
  BY DEF Store, queryVars
<1>2. PICK h : h = [conv |-> c, n |-> stored + 1]
  OBVIOUS
<1>3. h.conv = c /\ chats' = chats \cup {h}
  BY <1>2 DEF Store
<1>4. Awaited' = Awaited \cup {c}
  BY <1>3 DEF Awaited
<1>5. CASE Late \/ events > 0 \/ timers > 0
  BY <1>1, <1>3, <1>5 DEF Tracks, Late
<1>6. CASE Boxed(p) /\ (Awaited \subseteq ListedIn(p) => Trails(p))
  <2>1. Boxed(p)'
    BY <1>1, <1>6 DEF Boxed
  <2>2. ASSUME Awaited' \subseteq ListedIn(p) PROVE Trails(p)'
    <3>1. Trails(p) /\ c \in ListedIn(p)
      BY <1>4, <1>6, <2>2
    <3>2. \A d, e : Before(d, e)' <=>
             \/ d = c /\ e # c /\ e \in ToSet(order)
             \/ d # c /\ e # c /\ Before(d, e)
      BY <1>0, <1>1, InFront
    <3>3. ASSUME NEW x \in Places(p), NEW y \in Places(p), Above(x, y)
          PROVE  \/ RowAt(p, x).conv \in Awaited'
                 \/ RowAt(p, y).conv \in Awaited'
                 \/ Before(RowAt(p, x).conv, RowAt(p, y).conv)'
      <4>1. PICK d, e : d = RowAt(p, x).conv /\ e = RowAt(p, y).conv
        OBVIOUS
      <4>2. d \in Awaited \/ e \in Awaited \/ Before(d, e)
        BY <3>1, <3>3, <4>1 DEF Trails
      <4>3. d \in Awaited' \/ e \in Awaited' \/ Before(d, e)'
        BY <1>4, <3>2, <4>2
      <4>4. QED
        BY <4>1, <4>3
    <3>4. ASSUME NEW d \in Convs, NEW e \in ListedIn(p), Before(d, e)' PROVE d \in ListedIn(p)
      BY <3>1, <3>2, <3>4 DEF Trails
    <3>5. QED
      BY <3>1, <3>3, <3>4 DEF Trails
  <2>3. QED
    BY <2>1, <2>2 DEF Tracks
<1>7. QED
  BY <1>5, <1>6 DEF Tracks

\* Opening a conversation leaves the rows where they are.
LEMMA TracksRead ==
    ASSUME NEW p \in Seq(PageType), NEW c \in Convs, Tracks(p), NEW q, q = ReadPages(p, c),
           UNCHANGED <<order, friends, chats, newest, events, timers>>
    PROVE  Tracks(q)'
<1>1. /\ q \in Seq(PageType) /\ Len(q) = Len(p) /\ Places(q) = Places(p)
      /\ \A i \in 1..Len(p) : q[i].hasNext = p[i].hasNext
      /\ \A x \in Places(p) : /\ RowAt(q, x).conv = RowAt(p, x).conv
                              /\ RowAt(q, x).friend = RowAt(p, x).friend
  BY Reads
<1>2. ListedIn(q) = ListedIn(p)
  BY ListedRead
<1>3. (p = <<>> <=> q = <<>>) /\ (HasNextPage(p) <=> HasNextPage(q))
  BY <1>1, SameEnd
<1>4. Boxed(p) => Boxed(q)
  <2>1. SUFFICES ASSUME Boxed(p), NEW r \in Rows(q) PROVE r.friend = (r.conv \in friends)
    BY DEF Boxed
  <2>2. PICK x \in Places(q) : r = RowAt(q, x)
    BY ListedAt
  <2>3. RowAt(p, x) \in Rows(p)
    BY <1>1, <2>2, ListedAt
  <2>4. RowAt(p, x).friend = (RowAt(p, x).conv \in friends)
    BY <2>1, <2>3 DEF Boxed
  <2>5. QED
    BY <1>1, <2>2, <2>4
<1>5. Trails(p) => Trails(q)
  BY <1>1, <1>2, <1>3 DEF Trails
<1>6. Tracks(q)
  BY <1>2, <1>4, <1>5 DEF Tracks
<1>7. QED
  BY <1>6, TracksSame

\* A frame that moves its row to the top does what the server did.
LEMMA TracksHear ==
    ASSUME Types, HeadInv, NEW f \in chats, ~ f.n < newest, HearChat(f),
           NEW p \in Seq(PageType), Fits(p), Tracks(p), timers' = timers,
           f.conv \in ListedIn(p),
           NEW q, Topped(q, p, f.conv), RowAt(q, <<1, 1>>).conv = f.conv,
           \E r \in Rows(p) : r.conv = f.conv /\ r.friend = RowAt(q, <<1, 1>>).friend
    PROVE  Tracks(q)'
<1> DEFINE c == f.conv
<1>0. Sorted /\ ToSet(order) \subseteq Convs
  BY TypeGroups, ListOrder DEF ServerTypes
<1>1. UNCHANGED <<order, friends, events>> /\ chats' = chats \ {f}
  BY DEF HearChat, serverVars
<1>2. /\ \A g \in chats : g.n \in Nat
      /\ newest \in Nat /\ newest' \in Nat /\ newest' >= newest
  BY FrameFacts, NewestGrows
<1>3. ListedIn(q) = ListedIn(p) /\ q \in Seq(PageType) /\ Len(q) = Len(p)
      /\ \A i \in 1..Len(p) : q[i].hasNext = p[i].hasNext
  BY ListedTopped DEF Topped
<1>4. (p = <<>> <=> q = <<>>) /\ (HasNextPage(p) <=> HasNextPage(q))
  BY <1>3, SameEnd
<1>5. Awaited \subseteq Awaited' \cup {c}
  BY <1>1 DEF Awaited
<1>6. CASE Late
  <2>1. PICK g \in chats : g.n < newest
    BY <1>6 DEF Late
  <2>2. g \in chats' /\ g.n < newest'
    BY <1>1, <1>2, <2>1
  <2>3. QED
    BY <2>2 DEF Tracks, Late
<1>7. CASE events > 0 \/ timers > 0
  BY <1>1, <1>7 DEF Tracks
<1>8. CASE Boxed(p) /\ (Awaited \subseteq ListedIn(p) => Trails(p))
  <2>1. Boxed(q)
    <3>1. SUFFICES ASSUME NEW r \in Rows(q) PROVE r.friend = (r.conv \in friends)
      BY DEF Boxed
    <3>2. PICK x \in Places(q) : r = RowAt(q, x)
      BY ListedAt
    <3>3. CASE x = <<1, 1>>
      <4>1. PICK s \in Rows(p) : s.conv = c /\ s.friend = r.friend
        BY <3>2, <3>3
      <4>2. s.friend = (s.conv \in friends)
        BY <1>8, <4>1 DEF Boxed
      <4>3. r.conv = c
        BY <3>2, <3>3
      <4>4. QED
        BY <4>1, <4>2, <4>3
    <3>4. CASE x # <<1, 1>>
      <4>1. r \in Rows(p)
        BY <3>2, <3>4 DEF Topped
      <4>2. QED
        BY <1>8, <4>1 DEF Boxed
    <3>5. QED
      BY <3>3, <3>4
  <2>2. ASSUME Awaited' \subseteq ListedIn(q) PROVE Trails(q)'
    <3>1. Trails(p)
      BY <1>3, <1>5, <1>8, <2>2
    <3>2. ASSUME NEW x \in Places(q), NEW y \in Places(q), Above(x, y)
          PROVE  \/ RowAt(q, x).conv \in Awaited'
                 \/ RowAt(q, y).conv \in Awaited'
                 \/ Before(RowAt(q, x).conv, RowAt(q, y).conv)
      <4>1. y # <<1, 1>>
        BY <1>3, <3>2, AboveOrder
      <4>2. PICK d, e : d = RowAt(q, x).conv /\ e = RowAt(q, y).conv
        OBVIOUS
      <4>3. e # c
        BY <4>1, <4>2 DEF Topped
      <4>4. CASE x = <<1, 1>>
        <5>1. d = c
          BY <4>2, <4>4
        <5>2. e \in ToSet(order) /\ c \in ToSet(order)
          <6>1. e \in ListedIn(q)
            BY <3>2, <4>2, ListedAt
          <6>2. QED
            BY <1>3, <6>1 DEF Fits
        <5>3. CASE Before(e, c)
          <6>1. PICK g \in chats : g.conv = e /\ g.n > f.n
            BY <1>0, <5>2, <5>3 DEF HeadInv
          <6>2. g \in chats'
            BY <1>1, <4>3, <6>1
          <6>3. e \in Awaited'
            BY <6>1, <6>2 DEF Awaited
          <6>4. QED
            BY <4>2, <6>3
        <5>4. CASE Before(c, e)
          BY <4>2, <5>1, <5>4
        <5>5. QED
          BY <1>0, <4>3, <5>2, <5>3, <5>4, ListOrder
      <4>5. CASE x # <<1, 1>>
        <5>1. PICK u \in Places(p), v \in Places(p) :
                 Above(u, v) /\ RowAt(q, x) = RowAt(p, u) /\ RowAt(q, y) = RowAt(p, v)
          BY <3>2, <4>1, <4>5 DEF Topped
        <5>2. d \in Awaited \/ e \in Awaited \/ Before(d, e)
          BY <3>1, <4>2, <5>1 DEF Trails
        <5>3. d # c
          BY <4>2, <4>5 DEF Topped
        <5>4. QED
          BY <1>5, <4>2, <4>3, <5>2, <5>3
      <4>6. QED
        BY <4>4, <4>5
    <3>3. \A d \in Convs, e \in ListedIn(q) : Before(d, e) => d \in ListedIn(q)
      BY <1>3, <3>1 DEF Trails
    <3>4. q = <<>> \/ HasNextPage(q) => Cardinality(ListedIn(q)) = Len(q) * PageSize
      BY <1>3, <1>4, <3>1 DEF Trails
    <3>5. \A d, e : Before(d, e)' <=> Before(d, e)
      BY <1>1 DEF Before
    <3>6. QED
      BY <3>2, <3>3, <3>4, <3>5 DEF Trails
  <2>3. Boxed(q)'
    BY <1>1, <2>1 DEF Boxed
  <2>4. QED
    BY <2>2, <2>3 DEF Tracks
<1>9. QED
  BY <1>6, <1>7, <1>8 DEF Tracks

\* If nothing is late and everything awaited is on the pages or on the one
\* that is read, the pages list the head of the server's list, in its order.
LEMMA HeadRead ==
    ASSUME Types, HeadInv, NEW p \in Seq(PageType), Fits(p), ~Late,
           Awaited \subseteq ListedIn(p) => Trails(p),
           p = <<>> \/ HasNextPage(p),
           Awaited \subseteq ListedIn(p) \cup PageConvs(Len(p))
    PROVE  /\ Len(p) * PageSize \in 0..Len(order)
           /\ ListedIn(p) = Prefix(Len(p) * PageSize)
           /\ \A x, y \in Places(p) :
                 Above(x, y) => \/ RowAt(p, x).conv \in Awaited
                                \/ RowAt(p, y).conv \in Awaited
                                \/ Before(RowAt(p, x).conv, RowAt(p, y).conv)
<1>0. Sorted
  BY TypeGroups DEF ServerTypes
<1>1. PICK n \in Nat, M \in Nat : n = Len(p) /\ M = n * PageSize
  BY <1>0, LenProperties, PageShows
<1>2. /\ Len(order) \in Nat /\ \A i \in 1..Len(order) : order[i] \in Convs
      /\ \A i, j \in 1..Len(order) : Before(order[i], order[j]) <=> i < j
  BY <1>0, ListFacts
<1>3. CASE Awaited \subseteq ListedIn(p)
  <2>1. Trails(p)
    BY <1>3
  <2>2. Cardinality(ListedIn(p)) = M
    BY <1>1, <2>1 DEF Trails
  <2>3. ListedIn(p) \subseteq ToSet(order)
        /\ \A d \in Convs, e \in ListedIn(p) : Before(d, e) => d \in ListedIn(p)
    BY <2>1 DEF Trails, Fits
  <2>4. M \in 0..Len(order) /\ ListedIn(p) = Prefix(M)
    BY <1>0, <2>2, <2>3, ClosedIsPrefix
  <2>5. QED
    BY <1>1, <2>1, <2>4 DEF Trails
<1>4. CASE ~(Awaited \subseteq ListedIn(p))
  <2>1. PICK f \in chats : f.conv \notin ListedIn(p) /\ f.conv \in PageConvs(n)
    BY <1>1, <1>4 DEF Awaited
  <2>2. PICK k \in 1..Len(order) : f.conv = order[k]
    <3>1. f.conv \in ToSet(order)
      BY DEF HeadInv
    <3>2. QED
      BY <1>0, <3>1, ListFacts DEF Prefix
  <2>3. M < k /\ k <= M + PageSize
    BY <1>0, <1>1, <2>1, <2>2, PageLists
  <2>4. M \in 0..Len(order)
    BY <1>1, <1>2, <2>3
  <2>5. ASSUME NEW d \in Prefix(M) PROVE d \in ListedIn(p)
    <3>1. PICK i \in 1..M : d = order[i]
      BY <2>5 DEF Prefix
    <3>2. i \in 1..Len(order) /\ i < k /\ ~ M < i
      BY <1>1, <1>2, <2>3, <2>4
    <3>3. Before(d, f.conv) /\ d \in Convs
      BY <1>2, <2>2, <3>1, <3>2
    <3>4. ~ f.n < newest
      BY DEF Late
    <3>5. d \in Awaited
      BY <3>3, <3>4 DEF HeadInv, Awaited
    <3>6. d \notin PageConvs(n)
      BY <1>0, <1>1, <3>1, <3>2, PageLists
    <3>7. QED
      BY <1>1, <3>5, <3>6
  <2>6. ListedIn(p) = Prefix(M)
    <3>1. IsFiniteSet(Prefix(M)) /\ Cardinality(Prefix(M)) = M
      BY <1>0, <2>4, PrefixSize
    <3>2. PICK S, T : S = ListedIn(p) /\ T = Prefix(M)
      OBVIOUS
    <3>3. IsFiniteSet(S) /\ Cardinality(S) <= M /\ T \in SUBSET S /\ Cardinality(T) = M
      BY <1>1, <2>5, <3>1, <3>2 DEF Fits
    <3>4. Cardinality(T) <= Cardinality(S) /\ (Cardinality(S) = Cardinality(T) => S = T)
          /\ Cardinality(S) \in Nat
      BY <3>3, FS_Subset, FS_CardinalityType
    <3>5. QED
      BY <1>1, <3>2, <3>3, <3>4
  <2>7. ASSUME NEW d \in ListedIn(p) PROVE d \in Awaited
    <3>1. PICK i \in 1..M : d = order[i]
      BY <2>6, <2>7 DEF Prefix
    <3>2. i \in 1..Len(order) /\ i < k
      BY <1>1, <1>2, <2>3, <2>4
    <3>3. Before(d, f.conv) /\ d \in Convs
      BY <1>2, <2>2, <3>1, <3>2
    <3>4. ~ f.n < newest
      BY DEF Late
    <3>5. QED
      BY <3>3, <3>4 DEF HeadInv, Awaited
  <2>8. \A x \in Places(p) : RowAt(p, x).conv \in Awaited
    BY <2>7, ListedAt
  <2>9. QED
    BY <1>1, <2>4, <2>6, <2>8
<1>5. QED
  BY <1>3, <1>4

\* A page that is read keeps the pages on the list's track.
LEMMA TracksServe ==
    ASSUME Types, HeadInv, NEW p \in Seq(PageType), Fits(p), Tracks(p),
           p = <<>> \/ HasNextPage(p), NEW q, q = Append(p, Page(Len(p)))
    PROVE  Tracks(q)
<1>0. Sorted
  BY TypeGroups DEF ServerTypes
<1>1. PICK n \in Nat, M \in Nat : n = Len(p) /\ M = n * PageSize
  BY <1>0, LenProperties, PageShows
<1>2. PICK pg \in PageType : pg = Page(n)
  BY <1>0, PageShows
<1>3. /\ pg.hasNext <=> Len(order) > M + PageSize
      /\ (n + 1) * PageSize = M + PageSize
      /\ \A j \in 1..Len(pg.items) : /\ M + j \in 1..Len(order) /\ j <= PageSize
                                     /\ pg.items[j] = ToRow(order[M + j])
  BY <1>0, <1>1, <1>2, PageShows
<1>4. /\ q \in Seq(PageType) /\ Len(q) = n + 1 /\ q # <<>>
      /\ HasNextPage(q) <=> pg.hasNext
      /\ \A x \in Places(p) : x \in Places(q) /\ RowAt(q, x) = RowAt(p, x)
      /\ \A j \in 1..Len(pg.items) : /\ <<n + 1, j>> \in Places(q)
                                     /\ RowAt(q, <<n + 1, j>>) = pg.items[j]
      /\ \A x \in Places(q) : x \in Places(p) \/ \E j \in 1..Len(pg.items) : x = <<n + 1, j>>
      /\ Rows(q) = Rows(p) \cup ToSet(pg.items)
  <2>1. q = Append(p, pg)
    BY <1>1, <1>2
  <2>2. QED
    BY <1>1, <2>1, Appends, EmptySeq
<1>5. \A d : ToRow(d).conv = d /\ ToRow(d).friend = (d \in friends)
  BY DEF ToRow
<1>6. \A j \in 1..Len(pg.items) : pg.items[j].conv = order[M + j]
  BY <1>3, <1>5
<1>7. /\ Len(order) \in Nat /\ \A i \in 1..Len(order) : order[i] \in Convs
      /\ ToSet(order) = Prefix(Len(order))
      /\ \A i, j \in 1..Len(order) : Before(order[i], order[j]) <=> i < j
  BY <1>0, ListFacts
<1>8. ListedIn(q) = ListedIn(p) \cup PageConvs(n)
  BY <1>2, <1>4 DEF ListedIn, PageConvs
<1>9. /\ PageConvs(n) \subseteq ToSet(order)
      /\ \A i \in 1..Len(order) : order[i] \in PageConvs(n) <=> M < i /\ i <= M + PageSize
  BY <1>0, <1>1, PageLists
<1>10. CASE Late \/ events > 0 \/ timers > 0
  BY <1>10 DEF Tracks
<1>11. CASE ~Late /\ Boxed(p) /\ (Awaited \subseteq ListedIn(p) => Trails(p))
  <2>1. Boxed(q)
    <3>1. SUFFICES ASSUME NEW r \in ToSet(pg.items) PROVE r.friend = (r.conv \in friends)
      BY <1>4, <1>11 DEF Boxed
    <3>2. PICK j \in 1..Len(pg.items) : r = pg.items[j]
      BY <1>2 DEF ToSet, PageType
    <3>3. r = ToRow(order[M + j])
      BY <1>3, <3>2
    <3>4. QED
      BY <1>5, <3>3
  <2>2. ASSUME Awaited \subseteq ListedIn(q) PROVE Trails(q)
    <3>1. /\ M \in 0..Len(order) /\ ListedIn(p) = Prefix(M)
          /\ \A x, y \in Places(p) :
                Above(x, y) => \/ RowAt(p, x).conv \in Awaited
                               \/ RowAt(p, y).conv \in Awaited
                               \/ Before(RowAt(p, x).conv, RowAt(p, y).conv)
      BY <1>1, <1>8, <1>11, <2>2, HeadRead
    <3>2. \A i \in 1..Len(order) : order[i] \in ListedIn(q) <=> i <= M + PageSize
      <4>1. \A i \in 1..Len(order) : order[i] \in Prefix(M) <=> i <= M
        BY <1>0, <3>1, ListFacts DEF Prefix
      <4>2. QED
        BY <1>1, <1>7, <1>8, <1>9, <3>1, <4>1, PageAssumption
    <3>3. ASSUME NEW x \in Places(q), NEW y \in Places(q), Above(x, y)
          PROVE  \/ RowAt(q, x).conv \in Awaited
                 \/ RowAt(q, y).conv \in Awaited
                 \/ Before(RowAt(q, x).conv, RowAt(q, y).conv)
      <4>1. CASE x \in Places(p) /\ y \in Places(p)
        BY <1>4, <3>1, <3>3, <4>1
      <4>2. CASE x \in Places(p) /\ \E j \in 1..Len(pg.items) : y = <<n + 1, j>>
        <5>1. PICK j \in 1..Len(pg.items) : y = <<n + 1, j>>
          BY <4>2
        <5>2. RowAt(q, y).conv = order[M + j] /\ M + j \in 1..Len(order)
          BY <1>3, <1>4, <1>6, <5>1
        <5>3. RowAt(q, x).conv \in Prefix(M)
          BY <1>4, <3>1, <4>2, ListedAt
        <5>4. PICK i \in 1..M : RowAt(q, x).conv = order[i]
          BY <5>3 DEF Prefix
        <5>5. i \in 1..Len(order) /\ i < M + j
          BY <1>1, <1>7, <3>1
        <5>6. QED
          BY <1>7, <5>2, <5>4, <5>5
      <4>3. CASE y \in Places(p) /\ \E j \in 1..Len(pg.items) : x = <<n + 1, j>>
        <5>1. y[1] \in 1..n /\ x[1] = n + 1
          BY <1>1, <4>3, PlaceElim
        <5>2. QED
          BY <3>3, <5>1 DEF Above
      <4>4. CASE /\ \E j \in 1..Len(pg.items) : x = <<n + 1, j>>
                 /\ \E j \in 1..Len(pg.items) : y = <<n + 1, j>>
        <5>1. PICK j \in 1..Len(pg.items), k \in 1..Len(pg.items) :
                 x = <<n + 1, j>> /\ y = <<n + 1, k>>
          BY <4>4
        <5>2. j < k
          BY <3>3, <5>1 DEF Above
        <5>3. /\ RowAt(q, x).conv = order[M + j] /\ M + j \in 1..Len(order)
              /\ RowAt(q, y).conv = order[M + k] /\ M + k \in 1..Len(order)
          BY <1>3, <1>4, <1>6, <5>1
        <5>4. M + j < M + k
          BY <1>1, <1>7, <5>2, <5>3
        <5>5. QED
          BY <1>7, <5>3, <5>4
      <4>5. QED
        BY <1>4, <4>1, <4>2, <4>3, <4>4
    <3>4. ASSUME NEW d \in Convs, NEW e \in ListedIn(q), Before(d, e) PROVE d \in ListedIn(q)
      <4>1. d \in ToSet(order) /\ e \in ToSet(order)
        BY <1>0, <3>4, ListOrder
      <4>2. PICK i \in 1..Len(order), k \in 1..Len(order) : d = order[i] /\ e = order[k]
        BY <1>7, <4>1 DEF Prefix
      <4>3. i < k /\ k <= M + PageSize
        BY <1>7, <3>2, <3>4, <4>2
      <4>4. QED
        BY <1>1, <1>7, <3>2, <4>2, <4>3, PageAssumption
    <3>5. ASSUME HasNextPage(q) PROVE Cardinality(ListedIn(q)) = Len(q) * PageSize
      <4>1. M + PageSize \in 0..Len(order)
        BY <1>1, <1>3, <1>4, <1>7, <3>5, PageAssumption
      <4>2. ListedIn(q) \subseteq ToSet(order)
        BY <1>7, <1>8, <1>9, <3>1 DEF Prefix
      <4>3. ListedIn(q) = Prefix(M + PageSize)
        <5>1. ASSUME NEW d \in ListedIn(q) PROVE d \in Prefix(M + PageSize)
          <6>1. PICK i \in 1..Len(order) : d = order[i]
            BY <1>7, <4>2, <5>1 DEF Prefix
          <6>2. i \in 1..(M + PageSize)
            BY <1>1, <1>7, <3>2, <5>1, <6>1, PageAssumption
          <6>3. QED
            BY <6>1, <6>2 DEF Prefix
        <5>2. ASSUME NEW d \in Prefix(M + PageSize) PROVE d \in ListedIn(q)
          <6>1. PICK i \in 1..(M + PageSize) : d = order[i]
            BY <5>2 DEF Prefix
          <6>2. i \in 1..Len(order) /\ i <= M + PageSize
            BY <1>7, <4>1
          <6>3. QED
            BY <3>2, <6>1, <6>2
        <5>3. QED
          BY <5>1, <5>2
      <4>4. Cardinality(ListedIn(q)) = M + PageSize
        BY <1>0, <4>1, <4>3, PrefixSize
      <4>5. QED
        BY <1>3, <1>4, <4>4
    <3>6. QED
      BY <1>4, <3>3, <3>4, <3>5 DEF Trails
  <2>3. QED
    BY <2>1, <2>2 DEF Tracks
<1>12. QED
  BY <1>10, <1>11 DEF Tracks

\* A step that reads nothing: what comes to the screen was coming, or is new.
LEMMA Inherited ==
    ASSUME TrackInv, UNCHANGED <<order, friends, chats, newest, events, timers>>,
           ~behind' => ~behind /\ \A p \in Coming' : p = <<>> \/ p \in Coming
    PROVE  TrackInv'
<1>1. SUFFICES ASSUME ~behind', NEW p \in Coming' PROVE Tracks(p)'
  BY DEF TrackInv
<1>2. CASE p = <<>>
  BY <1>2, TracksNothing
<1>3. CASE p \in Coming
  BY <1>1, <1>3, TracksSame DEF TrackInv
<1>4. QED
  BY <1>1, <1>2, <1>3

\* After an invalidation nothing old comes to the screen.
LEMMA Invalidated ==
    ASSUME QueryTypes, PageTypes, Invalidate, ~behind'
    PROVE  \A p \in Coming' : p = <<>>
<1>1. SUFFICES ASSUME NEW p \in Coming' PROVE p = <<>>
  OBVIOUS
<1>2. CASE invalid' = TRUE /\ fetch' = fetch /\ fetch.kind = "none"
  BY <1>1, <1>2 DEF Coming
<1>3. CASE fetch' = Refetch
  BY <1>1, <1>3, NewFetch DEF Coming
<1>4. QED
  BY <1>2, <1>3, InvalidateCases

LEMMA TrackStep ==
    ASSUME Types, HeadInv, FitInv, InvalidInv, TrackInv, [Next]_vars
    PROVE  TrackInv'
<1>0. QueryTypes /\ PageTypes /\ cache \in Seq(PageType) /\ fetch \in FetchRecord
      /\ events \in Nat /\ timers \in Nat
  BY TypeGroups, FrameFacts DEF QueryTypes, FetchTypes
<1>a. fetch.kind \in {"none", "first", "all", "next"} /\ fetch.got \in Seq(PageType)
      /\ behind \in BOOLEAN
  BY <1>0 DEF FetchRecord, PageTypes
<1>1. ASSUME NEW c \in Convs, Store(c) PROVE TrackInv'
  <2>1. SUFFICES ASSUME ~behind', NEW p \in Coming' PROVE Tracks(p)'
    BY DEF TrackInv
  <2>2. UNCHANGED <<cache, invalid, fetch, behind>>
    BY <1>1 DEF Store, queryVars
  <2>3. Tracks(p)
    BY <2>1, <2>2 DEF TrackInv, Coming
  <2>4. QED
    BY <1>1, <2>3, TracksStore
<1>2. ASSUME NEW c \in Convs, PeerStarts(c) PROVE TrackInv'
  BY <1>2 DEF PeerStarts, TrackInv
<1>3. ASSUME NEW c \in Convs, Befriend(c) PROVE TrackInv'
  <2>1. events' > 0
    BY <1>0, <1>3 DEF Befriend
  <2>2. QED
    BY <2>1 DEF TrackInv, Tracks
<1>4. ASSUME NEW c \in Convs, HandleSelectChat(c) PROVE TrackInv'
  <2>1. /\ UNCHANGED <<order, friends, chats, newest, events, timers, invalid, fetch, behind>>
        /\ cache' = ReadPages(cache, c)
    BY <1>4 DEF HandleSelectChat, serverVars, netVars
  <2>2. SUFFICES ASSUME ~behind, NEW p \in Coming' PROVE Tracks(p)'
    BY <2>1 DEF TrackInv
  <2>3. CASE p = cache' /\ ~invalid /\ fetch.kind \in {"none", "next"}
    <3>1. PICK r \in Seq(PageType) : r = cache
      BY <1>0
    <3>2. Tracks(r)
      BY <2>2, <2>3, <3>1 DEF TrackInv, Coming
    <3>3. p = ReadPages(r, c)
      BY <2>1, <2>3, <3>1
    <3>4. QED
      BY <2>1, <3>2, <3>3, TracksRead
  <2>4. CASE p = fetch.got /\ fetch.kind # "none"
    <3>1. Tracks(p)
      BY <2>2, <2>4 DEF TrackInv, Coming
    <3>2. QED
      BY <2>1, <3>1, TracksSame
  <2>5. QED
    BY <2>1, <2>2, <2>3, <2>4 DEF Coming
<1>5. ASSUME NEW c \in Convs, StartChat(c) PROVE TrackInv'
  <2>1. CASE c \in ToSet(order)
    <3>1. UNCHANGED <<order, friends, chats, newest, events, timers, cache, invalid, fetch>>
          /\ behind' = behind
      BY <1>5, <1>a, <2>1 DEF StartChat, netVars, queryVars
    <3>2. QED
      BY <3>1, Inherited DEF Coming
  <2>2. CASE c \notin ToSet(order)
    BY <1>5, <2>2 DEF StartChat, TrackInv
  <2>3. QED
    BY <2>1, <2>2
<1>6. ASSUME NEW f \in chats, HearChat(f) PROVE TrackInv'
  <2>1. SUFFICES ASSUME ~behind', NEW q \in Coming' PROVE Tracks(q)'
    BY DEF TrackInv
  <2>2. mounted /\ ~behind /\ fetch.kind = "none" /\ ~ f.n < newest
        /\ (f.conv \notin Listed /\ cache # <<>> => timers' = timers + 1) /\ cache # <<>>
    BY <1>6, <1>a, <2>1 DEF HearChat, Hear
  <2>3. fetch' = fetch /\ invalid' = invalid /\ ~invalid
    BY <1>6, <2>2 DEF HearChat, InvalidInv
  <2>4. q = cache'
    BY <2>1, <2>2, <2>3 DEF Coming
  <2>5. CASE f.conv \notin Listed
    <3>1. timers' > 0
      BY <1>0, <2>2, <2>5
    <3>2. QED
      BY <3>1 DEF Tracks
  <2>6. CASE f.conv \in Listed
    <3>1. PICK p \in Seq(PageType) : p = cache
      BY <1>0
    <3>2. Tracks(p) /\ Fits(p)
      BY <2>2, <2>3, <3>1 DEF TrackInv, Coming, FitInv
    <3>3. cache' = MoveToTop(f.conv, f.conv # active) /\ timers' = timers
      BY <1>6, <2>2, <2>6 DEF HearChat, Hear
    <3>4. PICK c \in Listed, m \in BOOLEAN : c = f.conv /\ m = (f.conv # active)
      BY <2>6
    <3>5. /\ Topped(q, p, c)
          /\ \E r \in Rows(p) :
                /\ r.conv = c
                /\ RowAt(q, <<1, 1>>) = [conv |-> c, unread |-> m, friend |-> r.friend]
      BY <1>0, <2>4, <3>1, <3>3, <3>4, Tops
    <3>6. /\ RowAt(q, <<1, 1>>).conv = c
          /\ \E r \in Rows(p) : r.conv = c /\ r.friend = RowAt(q, <<1, 1>>).friend
      BY <3>5
    <3>7. f.conv \in ListedIn(p)
      BY <2>6, <3>1 DEF Listed
    <3>8. QED
      BY <1>6, <2>2, <3>2, <3>3, <3>4, <3>5, <3>6, <3>7, TracksHear
  <2>7. QED
    BY <2>5, <2>6
<1>7. CASE HearFriendEvent \/ TimerFires
  <2>1. SUFFICES ASSUME ~behind', NEW p \in Coming' PROVE Tracks(p)'
    BY DEF TrackInv
  <2>2. Invalidate
    BY <1>7, <2>1 DEF HearFriendEvent, TimerFires
  <2>3. p = <<>>
    BY <1>0, <2>1, <2>2, Invalidated
  <2>4. QED
    BY <2>3, TracksNothing
<1>8. CASE DeleteChat
  <2>1. UNCHANGED <<order, friends, chats, newest, events, timers>> /\ Invalidate
    BY <1>8 DEF DeleteChat, serverVars, netVars
  <2>2. SUFFICES ASSUME ~behind', NEW p \in Coming' PROVE Tracks(p)'
    BY DEF TrackInv
  <2>3. p = <<>>
    BY <1>0, <2>1, <2>2, Invalidated
  <2>4. QED
    BY <2>3, TracksNothing
<1>9. CASE Drop
  BY <1>9 DEF Drop, TrackInv
<1>10. CASE Serve
  <2>1. UNCHANGED <<order, friends, chats, newest, events, timers, cache, invalid, behind>>
    BY <1>10 DEF Serve, serverVars, netVars
  <2>2. SUFFICES ASSUME ~behind, NEW q \in Coming' PROVE Tracks(q)'
    BY <2>1 DEF TrackInv
  <2>3. fetch'.kind = fetch.kind /\ fetch.kind # "none" /\ ~Collected
    BY <1>0, <1>10 DEF Serve, FetchRecord
  <2>4. CASE q = cache /\ ~invalid /\ fetch.kind = "next"
    <3>1. Tracks(q)
      BY <2>2, <2>4 DEF TrackInv, Coming
    <3>2. QED
      BY <2>1, <3>1, TracksSame
  <2>5. CASE q = fetch'.got
    <3>1. PICK p \in Seq(PageType) : p = fetch.got /\ q = Append(p, Page(Len(p)))
      BY <1>10, <2>5, ServeFacts
    <3>2. Tracks(p) /\ Fits(p)
      BY <2>2, <2>3, <3>1 DEF TrackInv, Coming, FitInv
    <3>3. p = <<>> \/ HasNextPage(p)
      BY <2>3, <3>1 DEF Collected
    <3>4. Tracks(q)
      BY <3>1, <3>2, <3>3, TracksServe
    <3>5. QED
      BY <2>1, <3>4, TracksSame
  <2>6. QED
    BY <2>1, <2>2, <2>3, <2>4, <2>5 DEF Coming
<1>11. CASE Land
  <2>1. UNCHANGED <<order, friends, chats, newest, events, timers, behind>>
        /\ cache' = fetch.got /\ fetch' = NoFetch /\ fetch.kind # "none"
    BY <1>11 DEF Land, Collected, serverVars, netVars
  <2>2. ASSUME NEW p \in Coming' PROVE p \in Coming
    <3>1. p = fetch.got
      BY <1>0, <2>1, <2>2, NewFetch DEF Coming
    <3>2. QED
      BY <2>1, <3>1 DEF Coming
  <2>3. QED
    BY <2>1, <2>2, Inherited
<1>12. CASE FetchFails
  <2>1. /\ UNCHANGED <<order, friends, chats, newest, events, timers, cache, invalid>>
        /\ fetch' = NoFetch /\ behind' = (behind \/ fetch.kind # "next")
    BY <1>12 DEF FetchFails, serverVars, netVars
  <2>2. ASSUME ~behind', NEW p \in Coming' PROVE p \in Coming
    <3>1. fetch.kind = "next"
      BY <1>a, <2>1, <2>2
    <3>2. p = cache /\ ~invalid
      BY <1>0, <2>1, <2>2, NewFetch DEF Coming
    <3>3. QED
      BY <3>1, <3>2 DEF Coming
  <2>3. ~behind' => ~behind
    BY <1>a, <2>1
  <2>4. QED
    BY <2>1, <2>2, <2>3, Inherited
<1>13. CASE HandleScroll
  <2>1. /\ UNCHANGED <<order, friends, chats, newest, events, timers, cache, invalid>>
        /\ behind' = (behind \/ fetch.kind # "none") /\ mounted
        /\ fetch' = [kind |-> "next", got |-> cache, want |-> Len(cache) + 1]
    BY <1>13 DEF HandleScroll, serverVars, netVars
  <2>2. ASSUME ~behind', NEW p \in Coming' PROVE p \in Coming
    <3>1. fetch.kind = "none" /\ ~behind
      BY <1>a, <2>1, <2>2
    <3>2. ~invalid
      BY <2>1, <3>1 DEF InvalidInv
    <3>3. p = cache
      BY <2>1, <2>2 DEF Coming
    <3>4. QED
      BY <3>1, <3>2, <3>3 DEF Coming
  <2>3. ~behind' => ~behind
    BY <1>a, <2>1
  <2>4. QED
    BY <2>1, <2>2, <2>3, Inherited
<1>14. CASE HideAiChat
  <2>1. UNCHANGED <<order, friends, chats, newest, events, timers, cache, invalid>>
    BY <1>14 DEF HideAiChat, serverVars, netVars
  <2>2. CASE fetch' = Refetch
    <3>1. SUFFICES ASSUME NEW p \in Coming' PROVE Tracks(p)'
      BY DEF TrackInv
    <3>2. p = <<>>
      BY <1>0, <2>2, <3>1, NewFetch DEF Coming
    <3>3. QED
      BY <3>2, TracksNothing
  <2>3. CASE UNCHANGED <<fetch, behind>>
    BY <2>1, <2>3, Inherited DEF Coming
  <2>4. QED
    BY <1>14, <2>2, <2>3 DEF HideAiChat
<1>15. CASE Reload
  <2>1. SUFFICES ASSUME NEW p \in Coming' PROVE Tracks(p)'
    BY DEF TrackInv
  <2>2. p = <<>>
    BY <1>0, <1>15, <2>1, NewFetch DEF Reload, Coming
  <2>3. QED
    BY <2>2, TracksNothing
<1>16. CASE ShowAiChat \/ UNCHANGED vars
  <2>1. UNCHANGED <<order, friends, chats, newest, events, timers, cache, invalid, fetch, behind>>
    BY <1>16 DEF ShowAiChat, vars, serverVars, netVars, queryVars
  <2>2. QED
    BY <2>1, Inherited DEF Coming
<1>17. QED
  BY <1>1, <1>2, <1>3, <1>4, <1>5, <1>6, <1>7, <1>8, <1>9, <1>10, <1>11, <1>12, <1>13, <1>14,
     <1>15, <1>16 DEF Next
-----------------------------------------------------------------------------
\* The invariant, and what follows from it.

LEMMA Beginning ==
    Init => IInv
<1>1. SUFFICES ASSUME Init PROVE IInv
  OBVIOUS
<1>2. Types
  BY <1>1, TypesInit
<1>3. Marks
  BY <1>1, BegunAssumption DEF Init, Marks
<1>4. cache = <<>> /\ fetch.got = <<>> /\ fetch.kind = "first" /\ chats = {} /\ ~invalid
  BY <1>1 DEF Init, First
<1>5. Counts
  BY <1>4, NoPlaces DEF Counts
<1>6. HeadInv /\ InvalidInv
  BY <1>4 DEF HeadInv, InvalidInv
<1>7. FitInv
  BY <1>4, FitsNothing DEF FitInv
<1>8. TrackInv
  BY <1>4, TracksNothing DEF TrackInv, Coming
<1>9. QED
  BY <1>2, <1>3, <1>5, <1>6, <1>7, <1>8 DEF IInv, ListInv

LEMMA Always ==
    Spec => []IInv
<1>1. IInv /\ [Next]_vars => IInv'
  <2>1. SUFFICES ASSUME IInv, [Next]_vars PROVE IInv'
    OBVIOUS
  <2>2. Types'
    BY <2>1, TypesStep DEF IInv
  <2>3. Marks' /\ Counts'
    BY <2>1, MarksStep, CountsStep DEF IInv
  <2>4. HeadInv' /\ FitInv' /\ InvalidInv' /\ TrackInv'
    BY <2>1, HeadStep, FitStep, InvalidStep, TrackStep DEF IInv, ListInv
  <2>5. QED
    BY <2>2, <2>3, <2>4 DEF IInv, ListInv
<1>2. QED
  BY <1>1, Beginning, PTL DEF Spec

\* The server's list names each conversation once, rows and marks have the
\* shapes the component relies on, and no more timers run than there can be
\* messages, whatever frames, fetches and clicks do to them.
THEOREM InboxTypeCorrect == Spec => []TypeOK
<1>1. IInv => TypeOK
  BY DEF IInv, Types
<1>2. QED
  BY <1>1, Always, PTL

\* A message the list heard keeps its conversation's dot until it is opened,
\* whatever refetches bring and however often the page is loaded again
\* (showBlueDot: the mark is in local storage, not in the cache).
THEOREM UnreadIsShownHolds == Spec => []UnreadIsShown
<1>1. IInv => UnreadIsShown
  BY DEF IInv, Marks, UnreadIsShown, Dot
<1>2. QED
  BY <1>1, Always, PTL

\* No dot without news, but for the conversations opened from the dialog or
\* while the next page was loading (handleSelectChat, onSuccess of the dialog).
THEOREM DotMeansNewsHolds == Spec => []DotMeansNews
<1>1. IInv => DotMeansNews
  BY DEF IInv, Marks, Counts, DotMeansNews, Dot
<1>2. QED
  BY <1>1, Always, PTL

\* When all is quiet and nothing happened that the list cannot follow, the
\* rows are the head of the server's list, in its order and in their boxes:
\* moving rows to the top keeps up with the server, in whichever order frames,
\* pages and timers come.
THEOREM ListIsCurrentHolds == Spec => []ListIsCurrent
<1>1. IInv => ListIsCurrent
  <2>1. SUFFICES ASSUME IInv, Quiet, ~behind PROVE Follows(cache)
    BY DEF ListIsCurrent
  <2>2. chats = {} /\ events = 0 /\ timers = 0 /\ fetch.kind = "none" /\ ~invalid
    BY <2>1 DEF Quiet
  <2>3. Tracks(cache)
    BY <2>1, <2>2 DEF IInv, ListInv, TrackInv, Coming
  <2>4. Awaited = {} /\ ~Late
    BY <2>2 DEF Awaited, Late
  <2>5. Boxed(cache) /\ Trails(cache)
    BY <2>2, <2>3, <2>4 DEF Tracks
  <2>6. ListedIn(cache) \subseteq ToSet(order)
    BY <2>1 DEF IInv, ListInv, FitInv, Fits
  <2>7. \A r \in Rows(cache) : r.conv \in ToSet(order)
    BY <2>6 DEF ListedIn
  <2>8. QED
    BY <2>4, <2>5, <2>7 DEF Boxed, Trails, Follows
<1>2. QED
  BY <1>1, Always, PTL
=============================================================================
