# ChatRealTime in TLA+

ChatRealTime is a chat server (Spring Boot, PostgreSQL through JPA, Redis, raw
WebSockets that carry MessagePack arrays) with a React front end. This directory
holds TLA+ modules of the parts of it that are hard to test: what happens when
the callbacks of the WebSocket container, the threads of the REST API, the
database transactions and the browser windows of two users interleave.

Paths below are relative to the repository. `…/asm/` stands for
`src/main/java/com/java5/asm/`, `…/react/` for
`src/main/resources/templates/frontend/reactjs/src/`.

## 1. The system

| Component | State it keeps | Operations | Talks to |
|---|---|---|---|
| Session registry, `…/asm/config/ws/WsSessionRegistry.java` | ConcurrentHashMap: user → copy-on-write set of sessions | `add`, `remove`, `get`, `disconnectUser` | called by the connect and close callbacks, by every sender, by the account lock |
| Handshake, `…/asm/config/jwt/JwtHandshakeInterceptor.java` | the principal of each session, read once | `beforeHandshake` | users table; its principal is all the handler consults later |
| WebSocket handler, `…/asm/config/binarymessage/BinaryWebSocketHandler.java` | none of its own | chat message (filter, store, broadcast), call relay, AI request, friend events | registry, chat service, blacklist, AI service |
| Account lock, `…/asm/service/admin/impl/AdminUserServiceImpl.java` | `users.enabled` | `toggleLock`, `updateRoles` | token store, registry |
| Friendship, `…/asm/service/impl/FriendshipServiceImpl.java` | table `friendships`: requester, addressee, status | `request`, `cancel`, `accept`, `unfriend` | pushes status frames after commit; `FriendController` then pushes its own |
| Conversations and messages, `…/asm/service/impl/ChatServiceImpl.java` | tables `conversations`, `participants`, `messages` | start, accept, delete, send (REST, WebSocket), page through the history | friendship (is the receiver a friend?), handler (broadcast) |
| Tokens, `…/asm/service/impl/AuthenticationServiceImpl.java`, `…/asm/config/jwt/TokenStore.java` | Redis: allowed token ids, set of ids per user, refresh tokens, cached roles | login, refresh, logout, register, revoke all | nobody reads the allowed ids: `WebSecurityConfig.java` decodes by signature and time, and tokens come from the identity service |
| Blacklist, `…/asm/service/admin/impl/AdminBlacklistServiceImpl.java` | table of words with severity | create, update, delete, toggle; the filter in the handler | chat messages |
| AI chat, `AiChatServiceImpl.java`, `…/react/hooks/useAiChat.ts` | bubbles of the panel, whether an answer is awaited | ask, stream of chunks, clear | handler, client socket |
| Presence, `…/asm/service/UserPresenceService.java` | Redis key with 45 s to live | heartbeat, online status | front end only |
| User sync, `…/asm/config/cloud/` | rows of `users` | create, update profile | identity service |
| Client socket, `…/react/context/WebSocketContext.tsx` | socket, reconnect timer, close timer, queue of unsent messages | connect, reconnect, send, subscribe, tear-down | all live features of the front end |
| Message list, `…/react/components/Chat/ChatWindow.tsx` | live messages, fetched pages | optimistic send, upload, echo, merge, next page | client socket, history pages |
| Conversation list, `…/react/components/Chat/ConversationList.tsx`, `NewChatModal.tsx` | fetched pages, unread marks in local storage, open conversation | move to top, refetch, next page, select, start, delete | client socket, conversation pages |
| Calls, `…/react/hooks/useWebRTC.ts`, `GlobalCallListener.tsx`, `store/call.store.ts` | outgoing and incoming call, peer connection, pending ICE candidates, camera | offer, answer, candidate, hang up, reject | call relay of the handler |
| REST client and session, `…/react/services/api/axiosClient.ts`, `bootstrapAuth.ts`, `AuthInitializer.tsx`, `store/auth.store.ts`, `AuthPage.tsx` | access token, user, refresh in progress, waiting requests | load, login, retry after refresh, sign out | identity service |
| Codec, uploads, pages | no shared state | | |

What is hard in it, and what makes each component correct:

* **Registry.** Methods of several atomic calls on a concurrent map, no lock.
  Correct if a closed session is not found again, keys do not leak, an open
  session is found, and a locked account keeps no session.
* **Friendship.** Two users and two windows act on one row. Correct if there is
  at most one row per pair, only the addressee accepts, and both windows end
  with the status of the row.
* **Conversations.** Starting one is three transactions, sending and accepting
  race with leaving. Correct if a pair has one conversation, nobody is put back
  into a conversation they left or made to accept by somebody else, and who is
  a member throughout gets every message.
* **Handler, delivery.** One thread per inbound message writes to the sessions
  of other users. Correct if a failing session does not cost another one its
  frame.
* **Client socket.** Handlers of a socket that was replaced still run. Correct
  if messages leave once and in order, a lost connection is tried again, and
  nothing stirs after the tear-down.
* **AI panel.** Correct if a chunk ends in the bubble of its question and the
  panel is released at the end of the answer.
* **Message list.** Correct if nothing falls between the fetched pages and the
  live list, and what is shown as sent is stored.
* **Conversation list.** Correct if what is unread keeps its mark and the rows
  end as the server has them.
* **Calls.** Two clients and a relay without acknowledgements, with promises
  that outlive their component. Correct if both ends agree that a call is over
  and the camera is off then.
* **REST client.** Correct if each request that waits for a refresh is answered,
  refreshes do not loop, a 401 is shown only after a newer token was refused too,
  and a session goes on as long as its cookie is valid (section 4 says where it does not).

`PROJECT.json` lists the most important of these hazards at their lines, each
with the properties that cover it or the reason why none does.

## 2. Modules

| Module | Role |
|---|---|
| `SessionRegistry` | registry, connect/close callbacks, handshake check, account lock |
| `ListedOnce` | abstract specification of the registry as senders see it |
| `SessionRegistryProofs` | theorems of `SessionRegistry`, with the refinement |
| `Friendship` | friendship rows, the four requests, frames, windows |
| `FriendshipProofs` | theorems of `Friendship` |
| `PrivateChat` | conversations, participants, messages, broadcast |
| `PrivateChatProofs` | theorems of `PrivateChat` |
| `ClientSocket` | the socket of a page: reconnection, queue, tear-down |
| `AiChat` | the AI panel and the streams of answers; EXTENDS `ClientSocket` and composes its steps |
| `AiChatProofs` | theorems of `ClientSocket` and of `AiChat` |
| `MessageList` | the chat window: live messages, fetched pages, optimistic sends, uploads |
| `MessageListProofs` | theorems of `MessageList` |
| `Inbox` | the conversation list: order, pages, unread marks, start and delete |
| `InboxProofs` | theorems of `Inbox` |
| `Calls` | calls between pages: hooks, sessions, relay, media |
| `CallsProofs` | theorems of `Calls` |
| `RestClient` | page load, login, requests and the refresh of the token |
| `RestClientProofs` | theorems of `RestClient` |
| `MC…` | small instances for TLC |

Each module of a component also holds some *faulty variants*, marked in a
comment: the operation with one plausible mistake in it. They are in no
specification. Each stands next to the operation it distorts and documents which mistake
a property notices.

### SessionRegistry

Every call on the map or on a set is atomic in Java, so every call is an action
and `pc[s]` says where the callback thread of session `s` stands:
`AddCompute`, `AddInsert` are `add`; `RemoveGet`, `RemoveFromSet`, `CheckEmpty`,
`RemoveKey` are `remove`; `DisconnectGet … DisconnectRemoveKey` are
`disconnectUser`, on a thread of `toggleLock` (`ToggleLock`, `LockCommit`,
`LockAbort`). Sets have identity: `registry[u]` is the set object mapped for
`u`, `home[s]` the one `add` got, `ref[s]` the one `remove` got; a thread may
hold a set that is no longer mapped, which is what the races are about. A set is
named after the session whose `add` created it. The principal is read in
`Handshake` and never again: the test of `isEnabled` in
`BinaryWebSocketHandler.java:91` looks at a final field that a handshake only
accepts as true.

`ListedOnce` says what senders may rely on: a session is listed for at most one
uninterrupted period. `SessionRegistry!Phase` is the refinement mapping.

### Friendship

`rows` is the table with identity (`nextId` is the identity column), `work` the
transaction of each server thread, `ui` what each window shows and the frames
under way to it. A request is `Click` (the REST call leaves the window), a
`Find…` (the reads and the decision) and `Commit` (the flush, the service's
frames, then the controller's) or `Fail`. A commit that writes a row deleted
meanwhile fails, as Hibernate's does. Frames reach a window in order
(`Show`). With `StaleClicks` a window may also send what it offered earlier.
The model assumes both users online with the conversation open; `BLOCKED` is set
by no code. `NewChatModal.tsx:92` posts to a path the controller does not map
(`/friends/request`), so only the buttons of `ChatWindow` are modelled.

### PrivateChat

`part[c][u]` is the row of `u` in conversation `c`; `messages` records with each
message who was a participant when it was stored (`audience`) and whom its
broadcast has served (`reached`). `startPrivateChat` runs in no transaction:
`StartFind`, `StartCreate`, `StartJoinMe`, `StartJoinOther` commit one by one
and `Fail` may come between any two. `AcceptFind`/`AcceptCommit` and
`SendFind`/`SendStore` are the reads and the commit of a transaction;
`BroadcastRead`, `Push`, `BroadcastEnd` follow the commit of a WebSocket
message. REST messages are not broadcast. Requests refused at their first check
change nothing and are not actions. No code creates groups or sets `LEFT` or
`BLOCKED`. A conversation with oneself (sender and receiver are not compared,
`ChatServiceImpl.java:237`) is excluded. A `Push` stands for all sessions of one
user; what one session's failure does to the next is not modelled (section 6).

### ClientSocket

A task of the JavaScript event loop is one action. `sock` holds every WebSocket
object the page has made, because the handlers of a replaced one still run:
`Opens` and `OnClose` are `onopen` and `onclose` of any of them, and `Connect(t)`
is `connect` closed over the token `t`. `retry` keeps the handle of the timer
apart from whether it is armed, as the code clears the handle only in `onopen`
and in the cleanup. `TokenChange` and `SignOut` are the cleanup of the effect and
its next run; `CloseTimerFires` is the delayed close (300 ms). Faults of the network are
external and bounded by `MaxFaults`; `failed` remembers which sockets failed. A
`send` on a socket that is open in the browser does not throw.

### AiChat

`SocketStep` is a step of `ClientSocket` together with the frames it loses. A
question goes to the socket in use or nowhere (`Transmit`); the stream of its
answer is bound to that socket. `Handle` is the subscriber of `useAiChat`.
`AlertSender` is the alert of the blacklist, which has the type of an AI error.
Closing the panel loses its state; the answer goes on.

### MessageList

`live` is `liveMessages`; `cache[c]` and `fetch[c]` are the pages of the query
library, `Serve` answers one page at a time and `Arrive` replaces them at once.
The library is external and modelled from its use: pages are fetched when first
observed or stale, all of them again; `fetchNextPage` takes precedence over a
refetch. `Merge` matches by the client's id,
then by the server's. An upload keeps the conversation and the connection it
began with. The server is abstract, but not perfect: `ServerRefuses` is a message
that fails a check or cannot be stored (nothing comes back that the page can
decode), and `Store` may lose the frame of a message it has stored, since
`broadcastMessage` logs what a send throws and goes on. Frames of call signals
(`PeerSignals`) pass through the same subscriber. `lost` and `missed` are
histories: own messages that were refused or whose echo failed, and messages that
the page has not heard or has forgotten since it last asked for its first page
(`fetch[c].since` remembers when that was). The refetch the library may do when
the browser reports to be online again is left out; a refetch on focus is off
(`main.tsx:15`).

### Inbox

`order` is the server's list, `cache` the pages the client holds, `unread` the
marks in local storage. `Hear` is the subscriber: the mark, then the move to the
top or a refetch half a second later. `Invalidate` replaces a refetch, has no
effect on a first load and is only noted while the AI panel hides the list.
`HandleScroll` gives up a refetch for the next page. `behind` names why the list
may lag: a frame lost, unheard or heard during a fetch or after a newer one, a
conversation begun without a frame, a fetch given up, failed or ignored, an
invalidation that a fetch hidden by the AI panel wipes out when it lands.
`ghosts` are conversations opened without clearing their mark. Rows are
addressed by their place (page, position) and compared with the server's list by
the relation `Before`, so that `Follows` says the same of the rows as an
equation of two sequences would; `Filter` keeps the entries at some positions. Deletion asks the identity service, which
has no such path: it changes nothing.

### Calls

Each page has a sequence of hooks, as promises outlive the component that began
them; the last hook may be mounted, and the others keep their refs but no state. Each `await` is a step: `MediaForCall`,
`OfferMade` and `OfferFails` make up `startCall`; `RemoteSet` and `Drained` follow
an offer or an answer; `MediaForAnswer` and `AnswerMade` make up `answerCall`.
`Deliver` runs the listener and the session in one task, `Render` is React's
commit, `Dismiss` the second timer of the hang-up. `RemoteSet` may fail for an offer,
which `receiveOffer` answers with `cleanupCall`. `IdleTimer` comes 1000 ms
after the cleanup and normally after `Dismiss`, 500 ms after the render; as every
render in between starts the 500 ms again it may also come first, which counts
as noise. Signals arrive in order, or not at
all if an end is offline. `missed` is a history: a signal had no taker, or an offer
of a third user displaced a call. Left out: clicks on a call that
has ended, the switches of microphone and camera, several pages of one user.

### RestClient

`BootRefresh`, `BootMe` and `Initialize` are the awaits of a page load; `Queue`,
`StartRefresh` and `Reject` the interceptor's answers to a 401; `AnswerRefresh`,
then `Refreshed` or `RefreshFailed`, release the queue. The `finally` that clears
`isRefreshing` runs before any answer can arrive and is part of them.
`HandleSubmit` and `HandleGoogleSuccess` are the login form, `SignOut` the logout
of the store. A registration goes through the interceptor, as `/auth/register`
is none of its auth endpoints: a stale token makes its 401 start a refresh
(`AnswerRegistration`). `FollowLink` is the way to the administration and back,
`AdminGuard` its guard, and `UseAuth` the hook that both the chat and the guard
render: it signs out by itself when it is mounted, or gets a new token, and the
`exp` of the token has passed. The identity service is external; `Expire`
empties the set of tokens it accepts, which the page can see (`expired`, the
`exp` has passed) or not (revoked). Tokens are numbered anew with each load, as a
new page has none of the old ones. `sound` is the history of what the session
was entitled to, `timedOut` tells that `useAuth` has signed out. A clock of the
browser that differs from the service's and the back button are left out.

## 3. Runs

| Run | Instance | Shows |
|---|---|---|
| `registry_safe` | 1 user, 3 tabs, 1 administrator, fairness | a closed session is not found (`NoGhostSession`), no key leaks (`NoEmptyEntryLeak`), a lock closes what its loop saw (`LockClosedWhatItSaw`), the key disappears when all tabs have closed (`RegistryDrains`), and the refinement `ListedOnlyOnce` |
| `friend_quiet` | 2 users, 1 server thread, 6 rows | `UiAgreesWhenQuiet`: once all frames have arrived the windows show the status of the row, if requests do not overlap and each is a button of the status shown |
| `friend_rows` | 2 users, 2 threads, 2 rows, stale buttons | `RowLifecycle` however requests race |
| `chat_race` | 2 users, 2 threads, 2 conversations, 1 message | `SendersHaveAccepted`, `BroadcastReachesMembers`, `ParticipantLifecycle` |
| `chat_serial` | 2 users, 1 thread, 3 conversations, 1 message | `OneChatPerPair` if requests do not overlap, with failures and deletions in between |
| `socket_retry` | 3 faults, 3 tokens, 3 messages, fairness | `SentInOrder`, `QueueOnlyWhileDown`, `TornDownStaysDown`, `DropIsRetried` |
| `ai_panel` | 2 questions of 2 chunks, 1 fault, 1 message with an alert, fairness | `ReplyHasNoHole`: a bubble holds the chunks of its question without a gap; `AnsweredIsReleased` |
| `chat_window` | 2 conversations, pages of 1, 3 messages of which 1 is the user's, 2 switches, 1 trouble (a lost connection, a refusal, a failed broadcast or a call signal), fairness | `PagesHaveNoHole`, `NothingFallsThrough`, `SentIsStored`, `SendingSettles` |
| `inbox` | 2 conversations of which 1 begins later, pages of 1, 2 messages, 1 change, 1 trouble | `UnreadIsShown`, `DotMeansNews`, `ListIsCurrent` |
| `call_ends` | 2 pages, 2 calls, 1 noise, 1 answer | `NoCandidateIsStranded`, `CalleeLetsGo`, `NobodyIsLeftAlone` |
| `call_leak` | as `call_ends` | **violated** `EveryHookIsCleanedUp`: the camera stays on |
| `rest_refresh` | 3 requests, 2 loads, 2 faults, fairness | `NobodyWaitsForNothing`, `RefreshesAreBounded`, `DeniedOnlyWithFreshToken`, `SessionSurvives`, `EveryRequestSettles` |

**Bounds.** Users of the registry share no state, so one user suffices; three
tabs are enough for a thread to hold an old set while one tab leaves and another
enters a new one. A friendship and a private conversation concern two users, so
two are all there are. Two server threads give every race of two requests; a
third would only repeat a race against what two have left behind, and what two
leave behind is in the initial states of the next request. `MaxRows` and
`MaxConvs` bound identities ever given out: two rows are the duplicate, and
three conversations let a pair start, leave and start again twice. One message
is enough for a broadcast to race with an accept and with a deletion, as
messages do not interact; the theorems hold for any number. Symmetry of the two
server threads is used in the safety runs of `PrivateChat` that have two.

Three faults with three tokens give up to six sockets, of which three are alive
at once. Two questions overlap, and a hole needs an answer of two chunks. Pages of one entry
make every message cross a boundary, and two conversations are needed for a
move to the top. Two calls give glare, the redial and the late second hang-up. Of the three
requests one is the login's; of the others one refreshes while one queues, and
two faults let the refreshed token expire too, or an answer be lost besides.
`MaxTokens` exceeds what one load can use and never binds (tokens are numbered anew
with each). Symmetry is used in
safety runs only: of the server threads in `PrivateChat`, of the users in `Calls`.

**Fairness.** `registry_safe`: a callback thread and a request thread that have
started run on, as the container suspends no thread for ever; nobody is obliged
to connect, to close a socket or to lock an account. `socket_retry`: timers fire,
attempts to connect and closing handshakes end; the network may fail as often as
the bound allows. `ai_panel`: also frames arrive and a stream ends, by
`onComplete` or `onError`. `chat_window`: the server handles what it has got, by
storing or by refusing it (`HandleMessage`), and frames arrive while the connection
lasts; no page has to come. `rest_refresh`: the service answers or the
network reports an error, and promises run; nobody has to click.

**Deadlock** is checked in the runs of the server. The runs of the front end
switch the test off: a page where nobody does anything more has come to rest.

## 4. Where the code and its comments disagree

The run `call_leak` finds the one that `PROJECT.json` lists. The comment at
`useWebRTC.ts:335` does without a cleanup on unmount because whoever hangs up
cleans up. `startCall` goes on after the camera prompt (line 161) without looking
whether the call was hung up meanwhile: its hook ends with a camera and a
connection that nothing can release.

The other expectations below are stated in the modules but belong to no run of
the project. Each is refuted by TLC in the instance named, with the property
added as an invariant (or, the last, as a property):

| Property | Expected by | Instance | What happens |
|---|---|---|---|
| `SessionRegistry!OpenSessionIsListed` | `WsSessionRegistry.java:29` | `registry_safe` | `remove` drops the key although a session has just been added to the set: the open tab receives nothing |
| `SessionRegistry!LockedUserIsDisconnected` | `AdminUserServiceImpl.java:113` | `registry_safe` | a lock does not reach a session between handshake and registration; its principal stays enabled |
| `Friendship!AtMostOneRow` | `FriendshipServiceImpl.java:95` | `friend_rows` | two requests that race insert two rows, after which queries for one result throw |
| `Friendship!AcceptedShowsFriend` | `FriendController.java:44` | `friend_quiet` with stale buttons | a request the service turns into an acceptance is announced as pending, after the service's own frames |
| `PrivateChat!OneChatPerPair` | `ChatServiceImpl.java:243` | `chat_race` | two starts that race create two conversations, after which every start of the pair throws |
| `PrivateChat!MessageHasReceiver` | `ChatServiceImpl.java:420` | `chat_serial` | the WebSocket operation stores messages into a conversation the other user has left; the REST operation refuses them |
| `ClientSocket!ReconnectsWhenServerIsBack` | `WebSocketContext.tsx:205` | `socket_retry` | the handle of the timer is cleared only in `onopen`: when the first attempt after a loss fails, there is no second |

Behaviour worth knowing that no comment contradicts: a question to the AI that is
lost with its connection blocks the panel until it is cleared; a file that was
uploaded appears in the window open at the end, and is dropped if the socket was
not connected when it was picked; messages that arrive while the AI panel is
shown get no unread mark; two users who call each other at once may both be left without
media; the offer of a third user takes the page of a call over without a
hang-up, so that the other end of that call stays on (`missed` excludes it; with
two users it cannot happen); a refresh under way at sign-out signs in again;
a reconnect that falls into the 300 ms after sign-out stops the close timer, so
the tear-down never comes and a socket with the old token stays; the route without a token
leads to `/authfd` and back; an administrator who follows the link to the
administration, or the link back, with an access token that has run out is signed
out and sent to `/auth` although the cookie is valid, because `useAuth` looks at
`exp` before any request could refresh the token (`SessionSurvives` names the case
by `timedOut`, and a refresh that brings a token that has run out on its way is
another); messages that came live are gone when their conversation is left and
opened again within 30 seconds, as `ChatWindow.tsx:312` empties the live list and
`staleTime` keeps the pages from being read, and so are those that came while
another conversation was open (`missed`; they are back after the next read of
the first page); the signals of a call appear in the window as sent messages that
nothing has stored; a message that the server refuses, or whose echo cannot be
sent, is shown as being sent until the window is left, as the text the server
answers cannot be decoded; a page of the history that is read after two pages'
worth of messages have come in lies wholly above the first page and leaves a gap
there until the next refetch (`PagesHaveNoHole` speaks of what is below the
newest message of the first page, and holds there).

## 5. Theorems

All are checked by TLAPS for every value of the constants.

* **SessionRegistryProofs.** From `OwnerAssumption` (each session has one owner)
  and `NoneAssumption` (null is no set). `IInv` is inductive: `SetsBelong` (a set
  object stays with its user), `MembersAtHome` (a session sits in the one set its
  `add` got), `LeftForGood` (a session that is on its way out and not in the set
  `remove` saw is in a set that is no longer mapped), `EmptyIsAttended` (who
  leaves an empty set mapped is still about to clear it), `LockProgress`. The
  point is that a set that was dropped never comes back under a key; none of the
  safety properties is inductive without that. From it follow `TypeCorrect`,
  `GhostFree`, `LeakFree`, `LockSweeps`, and `ImplementsListing`: each step maps
  to a step of `ListedOnce` or to a stutter.
* **FriendshipProofs.** `IInv` says that identities name one row, and that a
  transaction that plans an acceptance plans it for the addressee of the row
  with that identity. With it, `RowsLiveOnce`: a row starts pending by its
  requester, is accepted by its addressee only, and never returns. With a single
  server thread (`Serial`, a hypothesis of the theorem), `OneRowIfSerial`: there is
  never a second row, by the invariants `OneRow` and `InsertIsFresh` (who is about
  to insert saw no row and there is none still). So overlap is
  the only cause of duplicates. `UiAgreesIfSerial` adds that no window sends
  what it no longer offers (`StaleClicks = FALSE`) and that there is a thread:
  then `UiAgreesWhenQuiet` holds for any number of users, by `UiInv`, which says
  of the one request under way what its button, its plan and its frames have to
  do with the row: until the commit the windows agree with the rows, and after it
  every frame is true and a window that does not agree is still sent one.
* **PrivateChatProofs.** `IInv`: `Newcomers` (who is still to be joined to a
  conversation has had no part in it), `StartedByOne` (one thread starts each
  conversation), `OwnAcceptance` (at most one participant is pending, so the row
  that `acceptMessageRequest` writes for the *other* user never changes a
  pending one; and who sends has accepted or is about to), `BroadcastUnderway`
  (who stays is served or still to be served). From it `TypeCorrect`,
  `SendersAccepted`, `BroadcastComplete`, `RowsLiveOnce`. With a single server
  thread, `OneChatIfSerial`: a pair never shares two conversations, by `SharedOne`
  and `StartIsFresh` (while a start is under way the pair shares none).

* **RestClientProofs.** From `RequestAssumption` and `FiniteAssumption` (there
  are finitely many requests, one of them the login's). `IInv` is the types,
  `WaitersAreKnown`, `RefreshIsOwned` (a refresh belongs to one request) and
  `QueuedOnce`; the length of the queue in `WaitersKnown` follows from the last.
  `RefreshesBounded` follows from `MarkedInv`. `DeniedWithFreshToken` needs
  `TokensInv`: what a refresh has brought is later than every token a request
  went with (`RefreshIsLater`), so a request that was sent again is fresh
  (`ResentIsFresh`); a page that is leaving the login form is the one exception,
  and sends nothing any more (`PageIsThere`). `SessionLasts`
  adds `RefusalIsEarned` (a refresh is refused only to a session that has ended)
  and `LoginHasToken` (the form keeps its token while it waits for the user).

* **AiChatProofs**, the socket. From `BoundAssumption`. `OrderInv` states `SentInOrder`
  place by place, with the length: entry *i* on the wire is message *i*, entry
  *j* of the queue is *j* more than what is on the wire. It is inductive only
  together with `QueueOnlyWhileDown`, as a message that is sent at once would
  otherwise overtake the queue. From it `MessagesInOrder` and `QueueDrained`.
  `TornDown` needs that the close timer runs only while the provider is off the
  page (`TornInv`).
* **AiChatProofs**, the panel. From `AskAssumption` besides. `AiInv` adds to the
  types of the socket `SocketBudget` (every socket but the first was paid for by
  a token or a fault, which bounds the sockets a stream may be bound to),
  `StreamsTrue`, `LinesTrue` (behind a chunk on a line come all later ones of its
  answer, up to where the stream stands), `RepliesTrue` (while its socket is open,
  what a bubble still misses is on the line, and nothing else of its answer) and `RepliesApart` (a
  question has one bubble). From it `AiTypeCorrect` and `ReplyHasNoHoleHolds`. A
  bubble has no hole only because its line has none, so the property is not
  inductive without the lines and the streams behind them.
* **MessageListProofs.** From `PageAssumption`, `ConvAssumption` and
  `BoundAssumption`. `Ident` ties every copy of a message, on the wire, in the
  live list and in the table, to one client id and one server id; from it
  `TypeCorrect` and `SentIsStoredHolds`. `HoleInv` says of the cached pages and
  of those being fetched that they reach as deep as their number, counted in
  messages that are newer: an offset into a list that grows can repeat entries
  and cannot skip any. From it `PagesHaveNoHoleHolds`.
  `CoverInv` says what becomes of each message of each conversation: the cached pages have it or
  begin no lower, its frame is on the wire, the live list has it, or it is in
  `missed`. It is inductive with `FetchInv`: the pages a fetch has collected
  cover what those in the cache do and what it has asked for, so replacing one by
  the other loses nothing. From it `NothingFallsThroughHolds`.
* **InboxProofs.** From `PageAssumption`, `BoundAssumption` and `BegunAssumption`
  (the list begins with each conversation once). `IInv` has four parts. `Types`
  has a budget: a timer or a frame on the way stands for a message of its own.
  `Marks` and `Counts` relate the marks in local storage and the counts of the
  rows to what was heard; a count survives an opening only in a next page under
  way. From them `InboxTypeCorrect`, `UnreadIsShownHolds` and
  `DotMeansNewsHolds`. `ListInv` is about the order: as long as no frame is
  late, the conversations whose frame is on the way are the head of the server's
  list (`HeadInv`); pages never list more than fits in (`FitInv`); and the pages
  on their way to the screen trail the list, apart from what frames on the way will
  move to the top, or else a timer, a friend event or a late frame will cause a
  refetch or is named by `behind` (`TrackInv`). The step that matters is a page read
  between two frames: if a conversation that is awaited stands on it, all above
  it are awaited, so the pages before it are full of them. From it
  `ListIsCurrentHolds`. Lemmas about `Filter`, places and rows (`FilterKeeps`,
  `InFront`, `Tops`, `Appends`, `PageShows`) say what moving and paging do.
* **CallsProofs.** From `NobodyAssumption` and `BoundAssumption`. `CallInv` says
  of each page that its session and its stores fit (`PageTrue`), and of each hook
  that the function that waits fits the connection (`JobTrue`), that every
  candidate heard was added or is held back (`Counted`), and that a hook of a call that
  came in and is no longer wanted has let go, but for prompts answered since
  (`LetGo`). From it `CallTypeCorrect`, `NoCandidateIsStrandedHolds` and
  `CalleeLetsGoHolds`, for any number of calls and prompts. `TalkInv` relates the
  pages of two users to the signals between them: a page is `InTouch` with a user
  if its call is with him or an end is on the wire to him, and unless a signal was
  missed, every offer on a wire is of a page in touch (`OfferMeant`), every page
  that is shown a call or talks is touched by its peer (`CalleeHears`), and so is
  every page that calls, but for an offer that has not arrived (`CallerHears`). Touch
  is lost only by saying so: the argument goes through every place where the store
  changes. From it `NobodyIsLeftAloneHolds`, for any number of users, where the run
  has two.

Only model-checked: the liveness properties, which are outside the prover's
reach. Every safety property of a passing run is a theorem.

## 6. Not modelled, and the plan

Left out for good: the MessagePack layout, uploads as such, forms and pages,
single-row profile updates, the call history (nothing writes it), presence (a
time margin), the token store (no check reads it). Of the parts that are
modelled: the `joinedAt` filter of the history, blacklisted words and masking, the search of the
conversation list, the switches and timers of a call that change nothing else.

Next, in this order:

1. `Delivery`: relay and broadcast over the sessions of a user with failing
   sends, composed with `SessionRegistry` in place of the single `Push`.
2. `Moderation` (the blacklist changing under a message) and the synchronisation
   of users.

Runs are kept few: one per question, the refuted expectations of section 4
making room for the properties that hold.
