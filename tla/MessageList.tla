---------------------------- MODULE MessageList -----------------------------
(***************************************************************************)
(* The message list of the chat window.  It merges two sources: pages of   *)
(* the history, which the query cache keeps per conversation, and the live *)
(* list, which holds own messages from the moment they are sent and what   *)
(* the socket delivers while the conversation is open.                     *)
(*                                                                         *)
(* The server is abstract: it stores a message, numbers it and broadcasts  *)
(* it to the socket of the page if that is connected.  It may refuse a     *)
(* message, and a broadcast may fail, both without an effect the page      *)
(* would notice.  A message is known by its number (sid) and by the id its *)
(* sender gave it (cid); 0 is undefined.  Own cids are 1..MaxOwn, those of *)
(* peers are larger.                                                       *)
(***************************************************************************)
EXTENDS Naturals, Sequences, FiniteSets, SequencesExt

CONSTANTS
    Convs,        \* conversations of the user
    Busy,         \* those in which peers write and call
    None,         \* no upload
    PageSize,     \* messages per page of the history
    MaxStored,    \* messages the server stores in one behaviour
    MaxOwn,       \* messages the user sends
    MaxSwitches,  \* times the user selects another conversation
    MaxNoise      \* lost connections, failures of the server and call signals

ASSUME PageAssumption == PageSize \in Nat \ {0}
ASSUME BoundAssumption ==
    /\ MaxStored \in Nat /\ MaxOwn \in 0..MaxStored
    /\ MaxSwitches \in Nat /\ MaxNoise \in Nat
ASSUME ConvAssumption == Busy \subseteq Convs /\ None \notin Convs

VARIABLES
    active,     \* activeConversation.id
    live,       \* liveMessages
    cache,      \* the query cache: pages loaded, per conversation
    fetch,      \* per conversation: the fetch under way
    upload,     \* the file being uploaded, with what its callback captured
    own,        \* messages sent or files shown so far
    connected,  \* isConnected, and the socket is open
    outbox,     \* messages queued for the next connection
    toServer,   \* messages on the wire
    toClient,   \* frames on the wire
    stored,     \* messages of the server; the index is the sid
    lost,       \* own messages that were refused, or that may be lost with
                \* their echo (history)
    missed,     \* messages the page has not seen, or has forgotten, and has not
                \* asked for since (history)
    switches, noise

windowVars == <<active, live, upload, own>>
queryVars  == <<cache, fetch>>
netVars    == <<connected, outbox, toServer, toClient>>
histVars   == <<stored, lost, missed>>
bounds     == <<switches, noise>>
vars == <<windowVars, queryVars, netVars, histVars, bounds>>

Frame   == [conv : Convs, sid : 0..MaxStored, cid : 0..(MaxOwn + MaxStored)]
Message == [conv : Convs, cid : 1..(MaxOwn + MaxStored)]
\* An entry of the live list; conv is where it belongs, which the code does
\* not store.
Entry == [conv : Convs, sid : 0..MaxStored, cid : 0..(MaxOwn + MaxStored),
          status : {"sending", "sent"}]

\* A fetch collects pages one after the other; since is history: the messages
\* stored when it read its first page, none if it took that from the cache.
NoFetch == [got |-> <<>>, want |-> 0, since |-> 0]
NoUpload == [conv |-> None, connected |-> FALSE]

\* The first conversation has just been opened, nothing is loaded.
Init ==
    /\ active \in Busy /\ live = <<>> /\ own = 0
    /\ upload = NoUpload
    /\ cache = [c \in Convs |-> <<>>]
    /\ fetch = [c \in Convs |->
                  IF c = active THEN [NoFetch EXCEPT !.want = 1] ELSE NoFetch]
    /\ connected = TRUE
    /\ outbox = <<>> /\ toServer = <<>> /\ toClient = <<>>
    /\ stored = <<>>
    /\ lost = {} /\ missed = {}
    /\ switches = 0 /\ noise = 0

-----------------------------------------------------------------------------
\* The history, newest first and cut into pages (findMessagesByConversationPaged).
Ids(c) == {i \in DOMAIN stored : stored[i].conv = c}
Newer(c, i) == Cardinality({j \in Ids(c) : j > i})

Page(c, p) ==
    [items   |-> {i \in Ids(c) : Newer(c, i) \div PageSize = p},
     hasNext |-> Cardinality(Ids(c)) > (p + 1) * PageSize]

\* getNextPageParam of the last page.
HasNextPage(pages) == pages # <<>> /\ Last(pages).hasNext

Fetching(c) == fetch[c].want > 0

\* A fetch that has its pages: as many as wanted, or all there are.
Collected(c) ==
    /\ Fetching(c)
    /\ fetch[c].got # <<>>
    /\ Len(fetch[c].got) >= fetch[c].want \/ ~HasNextPage(fetch[c].got)

\* The server answers the request for the next page.
Serve(c) ==
    /\ Fetching(c) /\ ~Collected(c)
    /\ fetch' = [fetch EXCEPT ![c].got = Append(@, Page(c, Len(@))),
                              ![c].since = IF fetch[c].got = <<>> THEN Len(stored) ELSE @]
    /\ UNCHANGED <<windowVars, cache, netVars, histVars, bounds>>

\* The messages of c that the fetch has asked for.
AskedFor(c) == {i \in Ids(c) : i <= fetch[c].since}

\* Faulty: of a refetch only the first page replaces what is cached.
ArriveFirstPageOnly(c) ==
    /\ Collected(c)
    /\ cache' = [cache EXCEPT ![c] = IF Len(@) = Len(fetch[c].got)
                                       THEN [@ EXCEPT ![1] = fetch[c].got[1]]
                                       ELSE fetch[c].got]
    /\ fetch' = [fetch EXCEPT ![c] = NoFetch]
    /\ missed' = missed \ AskedFor(c)
    /\ UNCHANGED <<windowVars, netVars, stored, lost, bounds>>

\* Faulty: the live list starts anew with the pages.
ArriveClearsLive(c) ==
    /\ Collected(c)
    /\ cache' = [cache EXCEPT ![c] = fetch[c].got]
    /\ fetch' = [fetch EXCEPT ![c] = NoFetch]
    /\ missed' = missed \ AskedFor(c)
    /\ live' = IF c = active THEN <<>> ELSE live
    /\ UNCHANGED <<active, upload, own, netVars, stored, lost, bounds>>

\* The pages replace those of the cache.
Arrive(c) ==
    /\ Collected(c)
    /\ cache' = [cache EXCEPT ![c] = fetch[c].got]
    /\ fetch' = [fetch EXCEPT ![c] = NoFetch]
    /\ missed' = missed \ AskedFor(c)
    /\ UNCHANGED <<windowVars, netVars, stored, lost, bounds>>

\* Both attempts fail; what was loaded before stays.
FetchFails(c) ==
    /\ Fetching(c)
    /\ fetch' = [fetch EXCEPT ![c] = NoFetch]
    /\ UNCHANGED <<windowVars, cache, netVars, histVars, bounds>>

\* handleScroll at the top of the list.  A refetch under way gives way to it,
\* and the pages loaded stay as they are.
FetchNextPage ==
    /\ HasNextPage(cache[active])
    /\ fetch[active].want <= Len(cache[active])
    /\ fetch' = [fetch EXCEPT ![active] =
                    [got |-> cache[active], want |-> Len(cache[active]) + 1, since |-> 0]]
    /\ UNCHANGED <<windowVars, cache, netVars, histVars, bounds>>

\* The query of c gets its observer.  It is fetched, all its pages again, if
\* it has none, or if they were loaded longer than staleTime ago.
Observe(c) ==
    \/ /\ cache[c] # <<>> \/ Fetching(c)
       /\ UNCHANGED fetch
    \/ /\ ~Fetching(c)
       /\ fetch' = [fetch EXCEPT ![c] =
             [NoFetch EXCEPT !.want = IF cache[c] = <<>> THEN 1 ELSE Len(cache[c])]]

Sids(seq) == {seq[i].sid : i \in DOMAIN seq} \ {0}
Cids(seq) == {seq[i].cid : i \in DOMAIN seq}

Loaded(c) == UNION {cache[c][p].items : p \in DOMAIN cache[c]}

\* Another conversation is opened: the live list starts empty, what it had and
\* the pages do not have is forgotten, and the subscription follows.
Select(c) ==
    /\ c # active
    /\ switches < MaxSwitches
    /\ switches' = switches + 1
    /\ active' = c
    /\ live' = <<>>
    /\ missed' = missed \union (Sids(live) \ Loaded(active))
    /\ Observe(c)
    /\ UNCHANGED <<upload, own, cache, netVars, stored, lost, noise>>

-----------------------------------------------------------------------------
\* Faulty: shown as sent before the server has it.
OwnSent(c, n) == [conv |-> c, sid |-> 0, cid |-> n, status |-> "sent"]

\* Faulty: shown as failed until the echo arrives.
OwnFailed(c, n) == [conv |-> c, sid |-> 0, cid |-> n, status |-> "failed"]

Own(c, n) == [conv |-> c, sid |-> 0, cid |-> n, status |-> "sending"]

\* sendMessage of the socket.
Transmit(m) ==
    IF connected
      THEN toServer' = Append(toServer, m) /\ UNCHANGED outbox
      ELSE outbox' = Append(outbox, m) /\ UNCHANGED toServer

\* An own message is shown at once and handed to the socket.
ShowAndSend(c) ==
    /\ own' = own + 1
    /\ live' = Append(live, Own(c, own'))
    /\ Transmit([conv |-> c, cid |-> own'])

\* The submit button of the form, and with it the Enter key, works only
\* while the window is connected.
CanSubmit == connected /\ own < MaxOwn

\* handleSendMessage; so its branch for a lost connection never runs.
SendText ==
    /\ CanSubmit
    /\ ShowAndSend(active)
    /\ UNCHANGED <<active, upload, queryVars, connected, toClient, histVars, bounds>>

\* A file is picked.  The callback for its end is the one of this render.
PickFile ==
    /\ upload = NoUpload
    /\ own < MaxOwn
    /\ upload' = [conv |-> active, connected |-> connected]
    /\ UNCHANGED <<active, live, own, queryVars, netVars, histVars, bounds>>

\* handleFileUploaded as captured: shown in the list of today, sent to the
\* conversation of then.
FileUploaded ==
    /\ upload # NoUpload /\ upload.connected
    /\ own < MaxOwn
    /\ ShowAndSend(upload.conv)
    /\ upload' = NoUpload
    /\ UNCHANGED <<active, queryVars, connected, toClient, histVars, bounds>>

\* The upload fails; or the window was not connected when it began, and the
\* second look a second later reads the same captured value.
FileDropped ==
    /\ upload # NoUpload
    /\ upload' = NoUpload
    /\ UNCHANGED <<active, live, own, queryVars, netVars, histVars, bounds>>

-----------------------------------------------------------------------------
Noise == noise < MaxNoise /\ noise' = noise + 1

Broadcast(frame) ==
    toClient' = IF connected THEN Append(toClient, frame) ELSE toClient

\* The page will not get these frames.
Gone(frames) ==
    /\ missed' = missed \union Sids(frames)
    /\ lost' = lost \union (Cids(frames) \intersect 1..MaxOwn)

\* A message is stored and broadcast; if the page is not connected, or the send
\* throws, its frame is gone, and nobody is told.
Store(c, n) ==
    LET frame == [conv |-> c, sid |-> Len(stored) + 1, cid |-> n]
    IN /\ stored' = Append(stored, [conv |-> c, cid |-> n])
       /\ \/ connected /\ Broadcast(frame) /\ UNCHANGED <<lost, missed, noise>>
          \/ ~connected /\ Gone(<<frame>>) /\ UNCHANGED <<toClient, noise>>
          \/ connected /\ Gone(<<frame>>) /\ Noise /\ UNCHANGED toClient

\* The server stores and broadcasts an own message.
ServerStores ==
    /\ toServer # <<>>
    /\ Store(Head(toServer).conv, Head(toServer).cid)
    /\ toServer' = Tail(toServer)
    /\ UNCHANGED <<windowVars, queryVars, connected, outbox, switches>>

\* It refuses one, or fails to store it: the answer is a text the page cannot
\* decode, the connection stays.
ServerRefuses ==
    /\ toServer # <<>>
    /\ Noise
    /\ toServer' = Tail(toServer)
    /\ lost' = lost \union ({Head(toServer).cid} \intersect 1..MaxOwn)
    /\ UNCHANGED <<windowVars, queryVars, connected, outbox, toClient, stored, missed, switches>>

HandleMessage == ServerStores \/ ServerRefuses

\* A peer writes into c; room is left for the own messages under way.
PeerSends(c) ==
    /\ Len(stored) + MaxOwn < MaxStored
    /\ Store(c, MaxOwn + Len(stored) + 1)
    /\ UNCHANGED <<windowVars, queryVars, connected, outbox, toServer, switches>>

\* A call signal is relayed: it names the conversation and has no ids.
PeerSignals(c) ==
    /\ Noise
    /\ Broadcast([conv |-> c, sid |-> 0, cid |-> 0])
    /\ UNCHANGED <<windowVars, queryVars, connected, outbox, toServer, histVars, switches>>

\* Faulty: recognises messages by their number only.
MergeBySid(list, f) ==
    IF f.sid # 0 /\ \E i \in DOMAIN list : list[i].sid = f.sid
      THEN list
      ELSE Append(list, [conv |-> f.conv, sid |-> f.sid, cid |-> f.cid, status |-> "sent"])

\* setLiveMessages of the subscriber: the echo of an own message completes
\* its entry, a message that is there already is left alone.
Merge(list, f) ==
    LET mine == {i \in DOMAIN list : f.cid # 0 /\ list[i].cid = f.cid}
        same == {i \in DOMAIN list : f.sid # 0 /\ list[i].sid = f.sid}
    IN IF mine # {}
         THEN [list EXCEPT ![CHOOSE i \in mine : \A j \in mine : i <= j] =
                 [@ EXCEPT !.sid = f.sid, !.status = "sent"]]
       ELSE IF same # {} THEN list
       ELSE Append(list, [conv |-> f.conv, sid |-> f.sid, cid |-> f.cid, status |-> "sent"])

\* The subscriber takes frames of its conversation, whatever their type.
Receive ==
    /\ toClient # <<>>
    /\ toClient' = Tail(toClient)
    /\ LET frame == Head(toClient)
       IN IF frame.conv = active
            THEN live' = Merge(live, frame) /\ UNCHANGED missed
            ELSE missed' = missed \union Sids(<<frame>>) /\ UNCHANGED live
    /\ UNCHANGED <<active, upload, own, queryVars, connected, outbox, toServer, stored,
                   lost, bounds>>

\* The connection is lost, with what it carried to the page; the server may
\* still get what was sent.
Drop ==
    /\ connected
    /\ Noise
    /\ connected' = FALSE
    /\ toClient' = <<>>
    /\ toServer' \in {toServer, <<>>}
    /\ missed' = missed \union Sids(toClient)
    /\ lost' = lost \union ((Cids(toServer) \union Cids(toClient)) \intersect 1..MaxOwn)
    /\ UNCHANGED <<windowVars, queryVars, outbox, stored, switches>>

\* The next connection takes the queued messages.
Reconnect ==
    /\ ~connected
    /\ connected' = TRUE
    /\ toServer' = toServer \o outbox
    /\ outbox' = <<>>
    /\ UNCHANGED <<windowVars, queryVars, toClient, histVars, bounds>>

Next ==
    \/ SendText \/ PickFile \/ FileUploaded \/ FileDropped \/ FetchNextPage
    \/ HandleMessage \/ Receive \/ Drop \/ Reconnect
    \/ \E c \in Convs :
          Select(c) \/ Serve(c) \/ Arrive(c) \/ FetchFails(c)
    \/ \E c \in Busy : PeerSends(c) \/ PeerSignals(c)

Spec == Init /\ [][Next]_vars

\* Messages arrive while the connection lasts.  Nothing is assumed of the
\* user, of the connection or of the history requests.
FairSpec == Spec /\ WF_vars(HandleMessage) /\ WF_vars(Receive)

-----------------------------------------------------------------------------
\* mergedMessages: entries with a number replace those of the history.
ShownIds == Loaded(active) \union Sids(live)

PageType == [items : SUBSET (1..MaxStored), hasNext : BOOLEAN]
FetchType == [got : Seq(PageType), want : Nat, since : 0..MaxStored]

WindowTypes ==
    /\ active \in Convs /\ live \in Seq(Entry) /\ own \in 0..MaxOwn
    /\ upload \in [conv : Convs, connected : BOOLEAN] \union {NoUpload}

QueryTypes == cache \in [Convs -> Seq(PageType)] /\ fetch \in [Convs -> FetchType]

NetTypes ==
    /\ connected \in BOOLEAN
    /\ outbox \in Seq(Message) /\ toServer \in Seq(Message) /\ toClient \in Seq(Frame)

StoreTypes ==
    /\ stored \in Seq(Message) /\ Len(stored) <= MaxStored
    /\ lost \subseteq 1..MaxOwn /\ missed \subseteq 1..MaxStored

BoundTypes == switches \in 0..MaxSwitches /\ noise \in 0..MaxNoise

TypeOK == WindowTypes /\ QueryTypes /\ NetTypes /\ StoreTypes /\ BoundTypes

\* From the newest message of the first page down, the pages of a conversation
\* have no hole, although each is an offset into a list that grows while they
\* are loaded (useInfiniteQuery, getMessagesPaged).  Above it there may be one:
\* a page that is read after two pages' worth of messages have come in lies
\* wholly above the first.
PagesHaveNoHole ==
    \A c \in Convs : cache[c] # <<>> =>
        \A i \in Ids(c) :
            (\E low \in Loaded(c), high \in cache[c][1].items : low <= i /\ i <= high)
                => i \in Loaded(c)

\* Every message of the open conversation is shown, or below the pages that are
\* loaded, where scrolling finds it, or its broadcast is under way; between the
\* pages and the live list nothing falls through, whenever the conversation was
\* opened and its pages were read (subscribe, mergedMessages).  Three causes
\* take a message away until the next time the first page is read: the page did
\* not get its frame (a lost connection, a failed broadcast), another
\* conversation was open when the frame came, or the conversation was left with
\* it in the live list only.  The last two matter when the conversation is
\* opened again within staleTime, for then nothing is read.
NothingFallsThrough ==
    \A i \in Ids(active) :
        \/ i \in ShownIds
        \/ Loaded(active) # {} /\ \A k \in Loaded(active) : i < k
        \/ \E f \in ToSet(toClient) : f.sid = i
        \/ i \in missed

\* What the window shows as sent belongs to the open conversation, and the
\* server has stored it there and under the number it shows (echo of a message,
\* clientMsgId, effect on convId), unless it is the bubble of a call signal,
\* which has neither an id nor a number and is stored nowhere.
SentIsStored ==
    \A e \in ToSet(live) : e.status = "sent" =>
        /\ e.conv = active
        /\ \/ e.cid = 0 /\ e.sid = 0
           \/ /\ e.sid \in DOMAIN stored
              /\ stored[e.sid] = [conv |-> e.conv, cid |-> e.cid]

\* A message shown as being sent in its own window is shown as sent at last,
\* unless the connection was lost in between, the server refused it or its echo
\* failed; then it is shown as being sent until the window is left.
SendingSettles ==
    \A n \in 1..MaxOwn :
        (\E e \in ToSet(live) : e.cid = n /\ e.conv = active /\ e.status = "sending")
            ~> \/ ~connected \/ n \in lost
               \/ ~\E e \in ToSet(live) : e.cid = n /\ e.conv = active /\ e.status = "sending"
=============================================================================
