-------------------------------- MODULE Inbox --------------------------------
(***************************************************************************)
(* The list of conversations beside the chat window: pages of a list the   *)
(* server sorts by the latest message, kept in the query cache, reordered  *)
(* by the frames of the socket, with a dot on what was not opened since.   *)
(* The dots are kept in local storage and survive a reload.                *)
(*                                                                         *)
(* The server is abstract: it sorts the conversations, stores a message    *)
(* and sends a frame; frames of different senders may overtake each other. *)
(* The query cache is external: TanStack Query, as the component uses it.  *)
(***************************************************************************)
EXTENDS Naturals, Sequences, FiniteSetsExt, SequencesExt

CONSTANTS
    Convs,        \* conversations the user takes part in, now or later
    Begun,        \* those that exist at first, latest first
    None,         \* no conversation is open
    PageSize,     \* conversations per page
    MaxMessages,  \* messages the server stores
    MaxChanges,   \* friendships that begin or end
    MaxTroubles   \* connections lost, fetches failed, reloads, looks at the AI panel

ASSUME PageAssumption == PageSize \in Nat \ {0}
ASSUME BoundAssumption == MaxMessages \in Nat /\ MaxChanges \in Nat /\ MaxTroubles \in Nat
ASSUME BegunAssumption == Begun \in Seq(Convs) /\ IsInjective(Begun) /\ None \notin Convs

VARIABLES
    order,    \* server: the conversations, latest first
    friends,  \* server: conversations with a friend
    chats,    \* chat frames on the way, with the number of the message
    events,   \* number of friend frames on the way
    mounted,  \* the list is on the screen
    active,   \* activeConversation
    unread,   \* unread_convs of local storage
    cache,    \* pages of the query cache; empty is undefined
    invalid,  \* the query is marked invalidated
    fetch,    \* the fetch under way
    timers,   \* refreshes due half a second after an unknown conversation
    stored, changes, troubles,
    newest,   \* frames with a lower number come too late (history)
    unseen,   \* conversations with a message heard and not opened since (history)
    ghosts,   \* conversations whose mark may outlive their opening (history)
    behind    \* the rows may lag until the next refetch begins (history)

serverVars == <<order, friends, stored, changes>>
netVars    == <<chats, events>>
queryVars  == <<cache, invalid, fetch, timers>>
markVars   == <<unread, unseen, ghosts>>
vars == <<serverVars, netVars, mounted, active, queryVars, markVars, troubles, newest, behind>>

Row   == [conv : Convs, unread : BOOLEAN, friend : BOOLEAN]
NoFetch == [kind |-> "none", got |-> <<>>, want |-> 0]
First   == [kind |-> "first", got |-> <<>>, want |-> 1]

Init ==
    /\ order = Begun /\ friends = {}
    /\ chats = {} /\ events = 0
    /\ mounted = TRUE /\ active = None
    /\ unread = {} /\ unseen = {} /\ ghosts = {}
    /\ cache = <<>> /\ invalid = FALSE /\ fetch = First /\ timers = 0
    /\ stored = 0 /\ changes = 0 /\ troubles = 0
    /\ newest = 0 /\ behind = FALSE

\* The entries of s at the positions in I, in their order (Array.filter).
Filter(s, I) ==
    LET n  == Cardinality(I)
        at == CHOOSE f \in Bijection(1..n, I) : \A i, j \in 1..n : i < j => f[i] < f[j]
    IN  [i \in 1..n |-> s[at[i]]]

-----------------------------------------------------------------------------
\* The server.

\* mapToDto: the server does not count what is unread.
ToRow(c) == [conv |-> c, unread |-> FALSE, friend |-> c \in friends]

Page(p) ==
    LET ids == SubSeq(order, p * PageSize + 1, Min({(p + 1) * PageSize, Len(order)}))
    IN  [items   |-> [i \in DOMAIN ids |-> ToRow(ids[i])],
         hasNext |-> Len(order) > (p + 1) * PageSize]

\* Faulty: a conversation once per message (no GROUP BY).
ToFrontAgain(c) == <<c>> \o order

ToFront(c) == <<c>> \o Filter(order, {i \in DOMAIN order : order[i] # c})

\* A message is stored, by a peer or by the user, and broadcast to both.
Store(c) ==
    /\ c \in ToSet(order) /\ stored < MaxMessages
    /\ stored' = stored + 1
    /\ order' = ToFront(c)
    /\ chats' = chats \cup {[conv |-> c, n |-> stored']}
    /\ UNCHANGED <<friends, changes, events, mounted, active, queryVars, markVars,
                   troubles, newest, behind>>

\* A peer starts a conversation with the user: no frame tells him.
PeerStarts(c) ==
    /\ c \notin ToSet(order)
    /\ order' = ToFront(c)
    /\ behind' = TRUE /\ newest' = stored + 1
    /\ UNCHANGED <<friends, stored, changes, netVars, mounted, active, queryVars, markVars,
                   troubles>>

\* A friendship begins or ends and both sides are told.
Befriend(c) ==
    /\ c \in ToSet(order) /\ changes < MaxChanges
    /\ changes' = changes + 1
    /\ friends' = IF c \in friends THEN friends \ {c} ELSE friends \cup {c}
    /\ events' = events + 1
    /\ UNCHANGED <<order, stored, chats, mounted, active, queryVars, markVars,
                   troubles, newest, behind>>

-----------------------------------------------------------------------------
\* The query cache.

\* The rows of some pages: where they are, what they are, which stands above.
Places(pages) == UNION {{i} \X DOMAIN pages[i].items : i \in DOMAIN pages}
RowAt(pages, x) == pages[x[1]].items[x[2]]
Rows(pages) == {RowAt(pages, x) : x \in Places(pages)}
Above(x, y) == x[1] < y[1] \/ (x[1] = y[1] /\ x[2] < y[2])

ListedIn(pages) == {r.conv : r \in Rows(pages)}
Listed == ListedIn(cache)
HasNextPage(pages) == pages # <<>> /\ Last(pages).hasNext

\* A refetch reads as many pages as are cached, from the first one on.
Refetch == [kind |-> IF cache = <<>> THEN "first" ELSE "all", got |-> <<>>,
            want |-> IF cache = <<>> THEN 1 ELSE Len(cache)]

\* invalidateQueries: what is under way is given up, except a first load;
\* nothing is read for a list that is not on the screen, and a fetch that
\* runs then lands as if nothing had happened.
Invalidate ==
    IF ~mounted
      THEN invalid' = TRUE /\ behind' = (behind \/ fetch.kind # "none") /\ UNCHANGED fetch
      ELSE /\ UNCHANGED invalid
           /\ IF fetch.kind = "first"
                THEN behind' = TRUE /\ UNCHANGED fetch
                ELSE behind' = FALSE /\ fetch' = Refetch

Collected ==
    /\ fetch.kind # "none" /\ fetch.got # <<>>
    /\ Len(fetch.got) >= fetch.want \/ ~HasNextPage(fetch.got)

Serve ==
    /\ fetch.kind # "none" /\ ~Collected
    /\ fetch' = [fetch EXCEPT !.got = Append(@, Page(Len(@)))]
    /\ UNCHANGED <<serverVars, netVars, mounted, active, cache, invalid, timers, markVars,
                   troubles, newest, behind>>

\* The pages replace whatever was done to the cache meanwhile, and clear the
\* mark of an invalidation.
Land ==
    /\ Collected
    /\ cache' = fetch.got /\ fetch' = NoFetch
    /\ invalid' = FALSE
    /\ UNCHANGED <<serverVars, netVars, mounted, active, timers, markVars, troubles, newest,
                   behind>>

FetchFails ==
    /\ fetch.kind # "none" /\ troubles < MaxTroubles
    /\ troubles' = troubles + 1
    /\ fetch' = NoFetch /\ behind' = (behind \/ fetch.kind # "next")
    /\ UNCHANGED <<serverVars, netVars, mounted, active, cache, invalid, timers, markVars,
                   newest>>

\* Scrolling to the end, also while a refetch runs: it gives way to the fetch
\* of the next page, which keeps the pages as they are now.
HandleScroll ==
    /\ mounted /\ HasNextPage(cache) /\ fetch.kind # "next"
    /\ fetch' = [kind |-> "next", got |-> cache, want |-> Len(cache) + 1]
    /\ behind' = (behind \/ fetch.kind # "none")
    /\ UNCHANGED <<serverVars, netVars, mounted, active, cache, invalid, timers, markVars,
                   troubles, newest>>

-----------------------------------------------------------------------------
\* What the socket delivers.

\* The pages with the last row of c there is, marked if m, at the top of the
\* first one.
Without(items, c) == Filter(items, {j \in DOMAIN items : items[j].conv # c})
LastOf(c) ==
    CHOOSE x \in Places(cache) :
       /\ RowAt(cache, x).conv = c
       /\ \A y \in Places(cache) : Above(x, y) => RowAt(cache, y).conv # c
MoveToTop(c, m) ==
    LET row  == RowAt(cache, LastOf(c))
        left == [i \in DOMAIN cache |-> [cache[i] EXCEPT !.items = Without(@, c)]]
    IN  [left EXCEPT ![1].items = <<[row EXCEPT !.unread = m]>> \o @]

\* Faulty: what is unread is counted in the query cache only.
HearCountsOnly(f) ==
    LET c == f.conv IN
    /\ unseen' = IF c = active THEN unseen ELSE unseen \cup {c}
    /\ cache'  = IF c \in Listed THEN MoveToTop(c, c # active) ELSE cache
    /\ timers' = IF cache # <<>> /\ c \notin Listed THEN timers + 1 ELSE timers
    /\ behind' = (behind \/ fetch.kind # "none" \/ cache = <<>> \/ f.n < newest)
    /\ UNCHANGED unread

\* Faulty: an unknown conversation is not looked for.
HearKnownOnly(f) ==
    LET c == f.conv IN
    /\ unread' = IF c = active THEN unread ELSE unread \cup {c}
    /\ unseen' = IF c = active THEN unseen ELSE unseen \cup {c}
    /\ cache'  = IF c \in Listed THEN MoveToTop(c, c # active) ELSE cache
    /\ behind' = (behind \/ fetch.kind # "none" \/ cache = <<>> \/ f.n < newest)
    /\ UNCHANGED timers

\* A chat frame the list hears.
Hear(f) ==
    LET c == f.conv IN
    /\ unread' = IF c = active THEN unread ELSE unread \cup {c}
    /\ unseen' = IF c = active THEN unseen ELSE unseen \cup {c}
    /\ cache'  = IF c \in Listed THEN MoveToTop(c, c # active) ELSE cache
    /\ timers' = IF cache # <<>> /\ c \notin Listed THEN timers + 1 ELSE timers
    /\ behind' = (behind \/ fetch.kind # "none" \/ cache = <<>> \/ f.n < newest)

HearChat(f) ==
    /\ f \in chats
    /\ chats' = chats \ {f}
    /\ IF mounted THEN Hear(f)
                  ELSE behind' = TRUE /\ UNCHANGED <<unread, unseen, cache, timers>>
    /\ newest' = Max({newest, f.n})
    /\ UNCHANGED <<serverVars, events, mounted, active, invalid, fetch, ghosts, troubles>>

TimerFires ==
    /\ timers > 0
    /\ timers' = timers - 1
    /\ Invalidate
    /\ UNCHANGED <<serverVars, netVars, mounted, active, cache, markVars, troubles, newest>>

HearFriendEvent ==
    /\ events > 0
    /\ events' = events - 1
    /\ IF mounted THEN Invalidate ELSE behind' = TRUE /\ UNCHANGED <<invalid, fetch>>
    /\ UNCHANGED <<serverVars, chats, mounted, active, cache, timers, markVars, troubles, newest>>

\* The connection breaks: the frames on the way are lost.
Drop ==
    /\ troubles < MaxTroubles /\ troubles' = troubles + 1
    /\ chats # {} \/ events > 0
    /\ chats' = {} /\ events' = 0 /\ behind' = TRUE
    /\ UNCHANGED <<serverVars, mounted, active, queryVars, markVars, newest>>

-----------------------------------------------------------------------------
\* The user.

ReadPages(pages, c) ==
    [i \in DOMAIN pages |->
       [pages[i] EXCEPT !.items =
          [j \in DOMAIN @ |-> IF @[j].conv = c THEN [@[j] EXCEPT !.unread = FALSE] ELSE @[j]]]]

\* Faulty: only the mark of local storage is removed.
HandleSelectChatLeavesCount(c) ==
    /\ mounted /\ c \in Listed
    /\ active' = c
    /\ unread' = unread \ {c} /\ unseen' = unseen \ {c}
    /\ ghosts' = IF fetch.kind = "next" THEN ghosts \cup {c} ELSE ghosts \ {c}
    /\ UNCHANGED <<serverVars, netVars, mounted, queryVars, troubles, newest, behind>>

\* A row is clicked.
HandleSelectChat(c) ==
    /\ mounted /\ c \in Listed
    /\ active' = c
    /\ unread' = unread \ {c} /\ unseen' = unseen \ {c}
    /\ cache'  = ReadPages(cache, c)
    /\ ghosts' = IF fetch.kind = "next" THEN ghosts \cup {c} ELSE ghosts \ {c}
    /\ UNCHANGED <<serverVars, netVars, mounted, invalid, fetch, timers, troubles, newest, behind>>

\* The dialog "new message": the conversation with a user is found or created
\* and opened.  The marks stay and the list is not told.
StartChat(c) ==
    /\ mounted
    /\ order' = IF c \in ToSet(order) THEN order ELSE ToFront(c)
    /\ behind' = (behind \/ c \notin ToSet(order))
    /\ newest' = IF c \in ToSet(order) THEN newest ELSE stored + 1
    /\ active' = c
    /\ unseen' = unseen \ {c} /\ ghosts' = ghosts \cup {c}
    /\ UNCHANGED <<friends, stored, changes, netVars, mounted, queryVars, unread, troubles>>

\* The identity service is asked to delete, so nothing happens here; the list
\* is refreshed if it says yes.
DeleteChat ==
    /\ mounted /\ Listed # {}
    /\ active' = None
    /\ Invalidate
    /\ UNCHANGED <<serverVars, netVars, mounted, cache, timers, markVars, troubles, newest>>

\* The AI panel takes the place of list and window, and gives it back: the
\* query is read again if it is invalid, or older than its staleTime.
ShowAiChat ==
    /\ mounted /\ troubles < MaxTroubles
    /\ mounted' = FALSE /\ troubles' = troubles + 1
    /\ UNCHANGED <<serverVars, netVars, active, queryVars, markVars, newest, behind>>

HideAiChat ==
    /\ ~mounted
    /\ mounted' = TRUE
    /\ \E old \in BOOLEAN :
         IF fetch.kind = "none" /\ (invalid \/ old \/ cache = <<>>)
           THEN fetch' = Refetch /\ behind' = FALSE
           ELSE UNCHANGED <<fetch, behind>>
    /\ UNCHANGED <<serverVars, netVars, active, cache, invalid, timers, markVars, troubles, newest>>

\* The page is loaded again; local storage remains.
Reload ==
    /\ troubles < MaxTroubles /\ troubles' = troubles + 1
    /\ chats' = {} /\ events' = 0
    /\ mounted' = TRUE /\ active' = None
    /\ cache' = <<>> /\ invalid' = FALSE /\ fetch' = First /\ timers' = 0
    /\ behind' = FALSE
    /\ UNCHANGED <<serverVars, markVars, newest>>

Next ==
    \/ \E c \in Convs : \/ Store(c) \/ PeerStarts(c) \/ Befriend(c)
                        \/ HandleSelectChat(c) \/ StartChat(c)
    \/ \E f \in chats : HearChat(f)
    \/ HearFriendEvent \/ Drop \/ TimerFires
    \/ Serve \/ Land \/ FetchFails \/ HandleScroll
    \/ DeleteChat \/ ShowAiChat \/ HideAiChat \/ Reload

Spec == Init /\ [][Next]_vars

-----------------------------------------------------------------------------
\* Properties.

PageType == [items : Seq(Row), hasNext : BOOLEAN]

\* The rows and marks have the shapes the component relies on; every fetch
\* reads at least one page and the counters stay within their bounds.
TypeOK ==
    /\ order \in Seq(Convs) /\ IsInjective(order) /\ friends \subseteq ToSet(order)
    /\ chats \subseteq [conv : Convs, n : 1..MaxMessages] /\ events \in 0..MaxChanges
    /\ mounted \in BOOLEAN /\ active \in Convs \cup {None}
    /\ unread \subseteq Convs /\ unseen \subseteq Convs /\ ghosts \subseteq Convs
    /\ cache \in Seq(PageType) /\ invalid \in BOOLEAN
    /\ fetch.kind \in {"none", "first", "all", "next"}
    /\ fetch.got \in Seq(PageType) /\ (fetch.kind # "none" => fetch.want > 0)
    /\ timers \in 0..MaxMessages /\ stored \in 0..MaxMessages /\ newest \in 0..(MaxMessages + 1)
    /\ changes \in 0..MaxChanges /\ troubles \in 0..MaxTroubles /\ behind \in BOOLEAN

Dot(r) == r.conv # active /\ (r.unread \/ r.conv \in unread)

\* A message the list heard keeps its conversation marked until it is opened,
\* through refetches that know nothing of it, pages that overwrite the cache,
\* the AI panel and a reload (showBlueDot).
UnreadIsShown == \A r \in Rows(cache) : r.conv \in unseen => Dot(r)

\* A dot means news.  It may outlive the opening of the conversation only if
\* that was opened from the dialog, which leaves the marks, or while the next
\* page was loading, which brings the counts back as they were.
DotMeansNews == \A r \in Rows(cache) : Dot(r) => r.conv \in unseen \cup ghosts

Quiet ==
    /\ mounted /\ chats = {} /\ events = 0
    /\ timers = 0 /\ fetch.kind = "none" /\ ~invalid

\* d stands before e in the server's list.
Before(d, e) == \E i, j \in DOMAIN order : i < j /\ order[i] = d /\ order[j] = e

\* Some pages show the server's list from its top on, each conversation once,
\* in order and in the right box.
Follows(pages) ==
    /\ \A x, y \in Places(pages) :
          Above(x, y) => Before(RowAt(pages, x).conv, RowAt(pages, y).conv)
    /\ \A d \in Convs, e \in ListedIn(pages) : Before(d, e) => d \in ListedIn(pages)
    /\ \A r \in Rows(pages) : r.conv \in ToSet(order) /\ r.friend = (r.conv \in friends)

\* When all is quiet, the rows are the server's list: moving rows to the top
\* keeps up with the server, and what it cannot place is refetched.  The
\* history variable behind names the steps after which this is not so.
ListIsCurrent == Quiet /\ ~behind => Follows(cache)
=============================================================================
