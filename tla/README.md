# Verification of NetherLink

TLA+ models of the NetherLink client (C++/Qt, with WebRTC calls), the TLC
configurations that check them, and TLAPS proofs about them. Paths are those of
the repository; `file:line` refers to it. `PROJECT.json` maps every definition
to the lines it stands for and lists the runs, the theorems, the hazards and the
findings.

    tlc -workers 2 -config CallSystem_two.cfg MCCallSystem.tla
    tlapm CallSystemProofs.tla

## 1. The system

NetherLink is a desktop chat client. One process serves one user; almost all of
its code runs in the Qt main thread as handlers of clicks, timers, sockets and
HTTP replies, each of which runs to its end before the next one starts. The
exceptions are the WebRTC threads, which call back into the engine of a call,
and a few `QtConcurrent` jobs. The servers (chat, signaling, AI) are not in the
repository; they are modelled from how the client uses them.

| Component | State | Operations | Hard behaviour | What makes it correct |
|---|---|---|---|---|
| **CallManager** (`src/WebRTC/callmanager.cc`) | call state, peer, caller or callee, request timer | place, cancel, accept, reject, end; five messages; timeout; connection established | messages of third parties and of earlier attempts, timeout against answer, glare | both ends agree; no timer, state or peer survives its call |
| **CallCoordinator** (`call_coordinator.cc`) | peer of the negotiation | glue: handler of everything the other three report | runs partly in WebRTC threads, posts lambdas to the main thread | negotiates with the peer of the call; notices its loss |
| **WebRTCEngine** (`webrtcengine.cc`) | peer connection, camera, queued candidates | open, close, offer, answer, candidate; callbacks | callbacks of three threads while the main thread closes | open only in an answered call; no candidate forgotten |
| **SignalClient** (`signalclient.cc`) | socket, flag, attempts, timer, ICE configuration | connect, disconnect, four socket events, messages | reconnection against the user's will, schedule, registration of each connection | section 3.2 |
| **VideoCallManager, VideoCallDialog, IncomingCallDialog** | the window of the call, ring dialogs, remembered caller | start, accept, reject, end, timeouts, closing; tracks and states reported by WebRTC threads | dialogs that outlive their calls; a window that two threads change | what the user sees and answers is the call there is |
| **VideoRenderer** (`videorenderer.cc`) | track, frame, mutex | set and stop track, frame, paint | two locks in opposite orders | no deadlock, nothing left to the next call |
| **NetworkManager** (`src/Network`) | WebSocket, one HTTP manager | send, dispatch, friend requests, contacts | replies told apart by one-shot handlers | each reply reaches its request |
| **Message pipeline** (`MessageHandler`, `MessageRepository`, `MessageListWidget`, `ChatArea`) | table of messages, open conversation, badges | offline synchronisation, live and own messages, open a chat, rebuild the list | confirmation against storage, failing statements, losses and restarts, two notions of the open chat | nothing lost, shown twice or left unannounced |
| **Login** (`Login.cpp`) | `isLogining`, tokens, watcher | HTTP login, contacts, WebSocket login | every way out must release the button; one-shot handlers of old attempts | one main window per login; a failed login can be repeated |
| **AI chat** (`src/View/AiChat`, `AiChatRepository`) | request under way, reply so far, conversation | send, stream, end, new conversation, delete | a refused message is already shown and saved; a conversation has no id before its first answer | what is shown is what is saved; what is saved is listed |
| **AvatarLoader** | memory and disk cache, running downloads | load, reply, clean up | one key for users and groups, eviction by a clock that may stand still | one download per id; a label shows what it was asked for; what is evicted is on the disk |
| **ChatListModel, ChatItemDelegate** | rows, headers, bottom space, selection, menu | insert, remove, select, menu | row numbers that are kept while rows change | the selection and the menu mean their message |
| **ChatArea, list views, SmoothScrollBar** | three copies of the position, unread messages, timers | follow, scroll, animate, jump | layout comes later than the rows; the user scrolls against an animation | the bar shows the view; unread is what is below |
| **User, group and database repositories** | SQLite tables | reload, insert, delete | nested transactions, half-done reloads | all or nothing |
| **Friend views** | list, requests and badge, search, windows that ask for friendship | reload, accept, search, apply | stale replies, an answer that goes to all windows | lists follow the server; each answer reaches its window |
| **Post views** | feeds, hearts, the open post, the new post | load, like, open, comment, send | optimistic updates and late replies | what is shown belongs to what was clicked |
| **Register** (`Register.cpp`) | form, requests, buttons | code, upload, register | the form changes under its requests | buttons come back; what is reported was registered |
| **NotificationManager** | the one message window, its timers | show, retry, hide | timers of several messages | each message is shown, none is ended by another's timer |
| Other widgets, window effects, entities, painting | none that others rely on | | | not modelled |

How they interact: `VideoCallManager` owns `CallCoordinator`, which owns the
`CallManager`, the `WebRTCEngine` and the `SignalClient` and connects their
signals; `Login` creates it and opens the chat WebSocket; `NetworkManager`
dispatches chat messages to `MessageHandler`, which calls the repository and
signals the list and the chat area.

## 2. The modules

| Module | What it is |
|---|---|
| `CallLifecycle` | abstract: what one client promises about calls |
| `CallSystem` | several clients with manager, coordinator and engine each, the network between them; implements `CallLifecycle` |
| `SignalClient` | one client's connection to the signaling server |
| `CallDialogs` | the windows of one client's calls |
| `MessageSync` | the chat messages of one user |
| `AiChat` | the conversations with the AI, their windows and tables |
| `CallVideo` | the pictures in the call window: two renderers, three kinds of threads, two locks |
| `Session` | from the login window to the main window: attempts, accounts, sockets, databases |
| `Registration` | the registration form and its requests |
| `Notifications` | the window of short messages and its timers |
| `Contacts` | friend requests, the reload of contacts, the tables and the lists |
| `FriendSearch` | the search for people and the windows that ask for friendship |
| `ChatList` | the rows of the open conversation, selection and menu |
| `SmoothScroll` | a list with a painted scroll bar and an animation |
| `ChatScroll` | the scrolling of a conversation and its unread messages; extends `SmoothScroll` |
| `PostFeeds` | pages, feeds, hearts and the new post |
| `PostDetail` | one post over the feeds, and its comments |
| `AvatarLoader` | labels, downloads, memory and disk cache |
| `MC*` | model values and definitions for TLC; `*.cfg` the runs |
| `*Proofs` | theorems and proofs, about one module or several that share no variable (section 4) |

The operators whose names end in `_Something` and whose comments begin with
"Faulty" are the deliberate mistakes by which each property was shown to notice
a mistake (`mutants` of `PROJECT.json`); no specification uses them.

### 2.1 CallSystem

A client `c` has `cm[c]` (the fields of `CallManager`), `coordPeer[c]`
(`current_peer_id_` of the coordinator) and `engine[c]`. Messages between two
clients travel in `net[f][t]` in order, as one WebSocket and one relaying server
deliver them; different senders interleave freely. `SendMessage` drops a message
of a client that is not connected, and the server one to a client that is not.

Every handler is one action and includes what it calls: `HandleCallAccepted` is
`CallManager::HandleCallResponse` with `OnNeedCreatePeerConnection`, the camera,
and the start of the offer. The WebRTC threads are visible in three ways, as in
the code: a created description or candidate is posted as a lambda (`posted`)
and sent later by the main thread, with the addressee captured when it was
posted; `NotifyPeerConnectionEstablished` reads the state in the WebRTC thread
and assigns it later (`establishing`, then `SetConnected`); and
`ClosePeerConnection` waits for a callback that is under way, which is what the
proxies of WebRTC do. `HandleCallRequest` and its siblings arrive through
`Receives`, which handles the oldest message only.

`late`, a history, has for each client those others of whom something of an answered
call was left (`Apart` says what) when its present connection was made: nothing else
tells an offer or answer of an old call from one of the present call, as no message of
the negotiation carries a call.

Abstracted: SDP and ICE contents (a description has a sender), audio, tracks
(those of the pictures are in `CallVideo`),
message boxes, the list of online users.

### 2.2 SignalClient

The socket is external: it opens and closes asynchronously, a failed attempt is
reported as a disconnection, `open()` abandons an attempt under way. Every
source function of the class that changes state is an action; `announced` is a
history of the delays chosen since the attempts began, so that the schedule can
be stated.

### 2.3 CallDialogs

`incoming` is the set of open `IncomingCallDialog`s, by the number of the ring
that opened them: a dialog is not told what becomes of its call. The
`CallManager` is reduced to its state and peer; whatever `CallSystem` lets it do
may happen at any time. `TimesOut` keeps the order of the 30-second timers. The
window system may close such a dialog too (`CloseIncoming`); `dismissed` is the
history of the rings whose dialog ended that way.

All handlers run in the main thread but one: `NotifyPeerConnectionEstablished` is
called by a thread of WebRTC. It finds the state `Connecting`, sets `Connected`, and
changes the window, in three steps (`notifying`) between which the main thread may do
anything; only closing the connection waits for it (`CleanupCall`). The window is a
record of flags; what Qt does with a widget that another thread changes is not
modelled. That thread also starts the timer of the displayed time
(`VideoCallDialog.cpp:118`), which Qt refuses to do across threads: the time is left
out.

### 2.4 MessageSync

`stored`, `misfiled` and `view` count copies of each message: in the table of
its conversation, in the table under an id that no conversation has, and in the
open chat. `current` is `currentChatId` of the `MessageHandler`, `selected` is
`selectItem` of the list: the two notions of the open chat. Requests and notices
travel in `up` and `down`. The server is external; `renumbers`, chosen in the
initial state, is what the client's code leaves open about it: whether a
confirmation renumbers the pages of the session. Own messages are stored and
shown whether or not there is a connection.

Up to `MaxFaults` statements on the database fail, which is also how two rows of one
millisecond end (`MessageRepository.cpp:180`): `Failing` are the messages of a batch
that `addMessage` does not insert. The code tells nobody, so that they are shown and
confirmed all the same. `GetMessages` reads so many of the newest rows of a
conversation as `ReadLimit` admits, any of them where server and user set the time
stamps, or nothing if the statement fails. Waiting messages of a group come with
`group_<id>` (`MessageHandler.cpp:135`) and go to `misfiled`. The histories `unsaved`,
`apart` and `again` have the messages whose insertion failed, those that are in the
open chat and not as they are stored, and those of a second full page that the code
asks for again.

Abstracted: contents and types other than "text or not", the order inside a chat, the
preview line, scrolling, images, and the moment at which the main window appears (the
list exists at the login). An accepted friend request may rebuild the list at any time.

### 2.5 AiChat

`rows` and `messages` are the tables `ai_conversations` and `ai_messages`,
`items` is the list, `windows` is `m_chatWindows`: one `AiChatWindow`, with its
own WebSocket, per key. A conversation gets its id from the server with its first
answer; until then its window has the empty id as key, like every item that was
made by "+". A window's record holds its own fields, those of its
`AiChatWebSocket` (`isProcessing`, `socket`) and what the server does with its
request (`server`, `asked`, `answer`). The server is external: it starts an
answer, sends pieces, ends or breaks off. A message of the server is sent and
handled in one step, which loses nothing: the socket keeps the order and what is
under way when it closes is lost. `moves`, chosen in the initial state, says
whether the server may continue a known conversation under another id: the
client takes over whatever id it is given. `replies`, `refused` and `deleted`
are histories.

Abstracted: texts (a sequence of pieces; a title is the message it is made from),
the order of items by time, the selection and the scroll position, failures of
the database, and a server that gives no id.

### 2.6 CallVideo

Three kinds of threads use the window and its two renderers, each in steps of its own.
The main thread starts a call and ends it: `at["main"]` goes through both renderers
(lock `mutex_`, take the track away, hide), closes the connection, stops the remote
renderer once more, and only then sets the state to idle (`callmanager.cc:105`,
`call_coordinator.cc:399`). The signaling thread of WebRTC adds and removes the peer's
track, as often as it likes, and reports the connection; `at["signaling"]` goes through
the same functions, and changes label and renderers without waiting for the main
thread, also while a call is being ended. What is set in the window are flags, in the
order of the code. `ClosePeerConnection` waits for the callback under way. Frames come
in threads of their own: `delivery` holds the lock of the WebRTC source (external) from
`Deliver` on and takes `mutex_` in `FrameLocks`; `SwapTrack`, which removes the sink of
the old track, needs the lock of its source. Tracks and pictures are named by the number
of their call.

### 2.7 Session and Registration

`Session` follows one program with one login window: an attempt is a number, and
what its lambdas captured is found under it. `onConnected` and `onError` are the
one-shot handlers on the one `NetworkManager`, which stay when another attempt
begins. `files` and `filled` are the databases of the accounts and which of them have
contacts; `members` and `told` are histories of who logged in, and of whom the chat
server was told on which socket. Servers, network and disk are external (`Fault`, `Copied`); the
program can be closed at any moment and started again.

`Registration` has the form (a *draft*, one number for all fields), the requests
for a code, an upload and an account with their answers in any order, and the
timers of the countdown and of the report.

### 2.8 Notifications

One window for all short messages. Time passes in units of 50 ms, and a timer
that is due is served before time goes on; the four delays are those of the code.
A message goes to a window or, from one place (`AiChatItemDelegate.cpp:426`), to
the screen.

### 2.9 Contacts and FriendSearch

`Contacts`: people and groups at the server (external), the two directions of the
WebSocket, the replies of the shared HTTP manager (`gets`), the handlers
`reloadContacts` left on it (`handlers`), and the database with its one
connection: a transaction inside another is the same one, so the inner commit
ends the outer. A statement may fail (`Failures`). A friend may remove the user, and a
group may change its members: the reload inserts or replaces rows and deletes none
(`GroupRepository.cpp:138`), so a row of a member who left stays as it was (`Written`).

`FriendSearch`: the text, kind and timer of the search, its requests, the items
and headings of the list, replies with results, without, or failed (`found` is the
history of those with results); the windows that ask for friendship, what they sent,
and the answers, which the code gives to every window, like every message of type
"error" (`ServerError`).

### 2.10 ChatList, SmoothScroll, ChatScroll

`ChatList` has the rows as the model keeps them: headers, messages, the space at
the end. `OnConversationClicked` reads the `Limit` newest messages, in any order of
those with equal times, and adds them one by one (`RowsOf`); `hidden` is the history
of what the limit left out. The menu keeps a row (`QModelIndex`) that may be old when an entry is
chosen. `SmoothScroll` keeps the three copies of a position (Qt's hidden bar, the
animation's value, the painted bar); a row is the unit of height, and Qt's layout
comes later than the rows (`DelayedLayout`). `ChatScroll` adds what follows a new
message, the timers and the count of unread ones. `FriendListView` and
`AiChatListView` scroll with the same code as the chat.

### 2.11 PostFeeds, PostDetail, AvatarLoader

A request is carried out by the server (external) at some moment before its
answer, so an answer may be older than a click. `PostFeeds` has the bar and the
stack of pages, two feeds that each keep their list, and the form of a new post.
`PostDetail` has the overlay, the view, the animation that deletes it, and
comments, which are shown before the server has them. `AvatarLoader` has the
memory cache, of which any entry may be the one evicted (the times of access come from a
clock that may stand still between two accesses, or be set), the files, one download per id and the labels,
all of which hear every event. `clearAvatar` and `clearAllAvatars` have no caller and are
left out. Of the feeds, "writing" and "liking" are checked
apart.

## 3. What is checked

Deadlock is checked wherever the system never stops (SignalClient).
The bounds of the others end their behaviours (no call, message, login or start
is left), so it is off there. Some runs check several modules: the parts share no
variable, each behaviour is one of one part (`part`), and a run's number of states
is their sum.

The invariants about one component are stated one by one in its module and checked
together, as one conjunction that is named for what they say:

| Checked as | Consists of `TypeOK` of the modules and |
|---|---|
| `EngineFollowsCall` | `MediaMatchesCall`, `TimerMatchesCall`, `CandidatesFlushed` |
| `CallsEnd` (temporal) | `RingingEnds`, `HangupReachesPeer` |
| `ConnectionIsSound` | `FlagFollowsSocket`, `NeverStranded`, `BackoffSchedule`, `SessionEstablished` |
| `WindowsFollowCall` | `CallIsVisible`, `CallerIsRemembered`, `RingingIsAnswerable` |
| `PicturesFollowCall` | `OwnPictureIsFresh`, `LabelOrPicture`, `EndedIsStill` |
| `ScreenFollowsStore` | `ViewMatchesStore`, `UnseenIsBadged` |
| `RequestsAreSound` | `RepliesAreWhole`, `OneRequestAtATime`, `WindowIsConversations` |
| `HistoryAgrees` | `HistoryIsListed`, `SavedIsShown`, `AnswersFollowQuestions` |
| `AccountsAreApart` | `LoginIsReleased`, `UserIsTold`, `OneIdentity` |
| `FormIsSound` | `ButtonsComeBack`, `ReportedIsRegistered`, `ReportsOnce`, `PictureIsLatest` |
| `NoticesAreApart` | `EndedByItsOwn`, `LastIsRead` |
| `ContactsAgree` | `TablesAreWhole`, `SelectionIsClicked`, `UnseenAreCounted`, `AnsweredOnce`, `FriendsAreListed` |
| `RepliesFindTheirPlace` | `LastTextIsSearched`, `ResultsAreOfLatest`, `WaitingIsAnswered`, `AskedOnce`, `SuccessIsOwn` |
| `RowsAreConversation` | `SelectionIsMarked`, `HeadersMarkGaps`, `ConversationIsListed` |
| `ViewIsTold` | `BarFollowsView`, `UnreadIsBelow` |
| `FeedsAgree` | `BarShowsPage`, `CreatedIsListed`, `HeartsAgree` |
| `DetailIsOfPost` | `DetailIsClicked`, `CommentsAreOfPost`, `CommentsReachTheirPost` |
| `PicturesAreOfTheirId` | `LoadingIsDownloading`, `ShownIsAsked`, `CacheIsOnDisk` |

The sections below name the parts.

### 3.1 Calls

| Run | States | Shows |
|---|---|---|
| `calls_two` | 381,863 | two clients, two calls, one candidate each, one fault of `b`: `EngineFollowsCall`, `Agreement`, `PeerLossIsNoticed`, `RingIsCalledOff`, and the refinement `ImplementsLifecycle` |
| `calls_three` | 320,894 | three clients, two calls that may overlap in any way, also before the messages of the other are gone: `NegotiatesWithPeer` |
| `calls_live` | 40,503 | under `FairSpec`: `CallsEnd`, `NegotiationCompletes` |

*Bounds.* `MaxCalls` = 2: an old and a new call, which is what stale timers,
answers and candidates need; `MaxFaults` = 1 in one `Unstable` client; one
candidate (`MaxCandidates`) is before or after the remote description, which is
the only difference the queue makes.

*Conditions.* `Agreement` holds while `paired`: as long as every call was placed
while nothing of an earlier attempt between the two clients was under way, and no
timeout, fault or `CancelCall` intervened. `CancelCall` is public in
`CallManager`, though no part of the user interface calls it: when it crosses the
acceptance of the call the callee ignores it (`callmanager.cc:247`) and stays in
`Connecting`; `RingIsCalledOff` covers the callee that still rings. Messages carry no call id, so without the condition
the code does not promise agreement (an answer to an abandoned attempt is taken
for the answer to the present one), and no text of the repository claims it.
`RingIsCalledOff` asks for more, `serial`: that calls are placed in a quiet system only.

`NegotiatesWithPeer` has no such condition. Negotiation messages are not compared with
the call at all, so a client can indeed be diverted: by one with whom it had an answered
call of which something was still under way when the present connection was made
(`late`; both that and a diverted engine are reached in the run). The property says that
this is the only way: clients whose calls are refused because it is busy, were given up,
or are not answered yet cannot, whatever they send and however late it comes.

`PeerLossIsNoticed` is stated for a connected call as long
as the coordinator still names that peer; a third party's offer can replace the
name.

*Fairness* (`Fairness`): the event loops of main thread and WebRTC threads keep
running, so that received messages, lambdas and callbacks are handled, and the
two 30 s timers fire unless stopped: `call_request_timer_` of the caller, and
for the callee the timer of its dialog, which is why `RejectCall` is weakly fair.
That last one assumes that the dialog is still there, which is proved for
`CallDialogs` unless the window system closed it. No user and no
network connectivity is assumed.

### 3.2 Signaling

`signal` (363 states): any sequence of connections, losses, timers and requests.
`FlagFollowsSocket`, `NeverStranded`, `BackoffSchedule`, `SessionEstablished`
(the server hears a registration first on each connection; the engine gets that
connection's ICE configuration), `DisconnectIsFinal` (after Disconnect, wherever it falls,
nothing but Connect begins an attempt and no timer runs; an attempt that was under way
may still open, as `signalclient.cc:73` does not abort it, and is not renewed), and
`OutageEnds` under the
fairness of the timer and of an attempt (which ends one way or the other).
`MaxInFlight` bounds the calls a client sends while the server is busy; the
schedule runs with the real maximum of five attempts. That it is then 1, 2, 4, 8,
10 s, as the comment at `signalclient.cc:417` says, is an assumption of
`MCSignalClient` (`ScheduleAsCommented`) that TLC evaluates before the run.

### 3.3 Windows and pictures of calls

`dialogs` (25,828 states), part "dialogs": dialogs of finished calls are answered
at any time, or closed by the window system, and the steps of the WebRTC thread fall
anywhere between. `CallIsVisible` and
`CallerIsRemembered` hold throughout; `RingingIsAnswerable` and `RingingStops`
(under the fairness of the dialogs' timers only) unless the window system closed
the dialog of the ring. `MaxRings` = 3 lets two old dialogs be open over a third
call, with two callers.

Behaviour the properties exclude: a ring dialog closed by the window system
rejects nothing, and the client stays in `Receiving` until the caller gives up;
the 30 s timeout of an old dialog rejects a new call (`IncomingCallDialog.cpp:304`);
accepting in the dialog of a call that is over replaces `current_peer_id_` of the
call under way (`VideoCallManager.cpp:152`); the call window, made once, keeps the
name of its first peer (`VideoCallManager.cpp:325`).

Part "video", three calls. `OwnPictureIsFresh`: the user's own picture is never
one of an earlier call. `LabelOrPicture`: the peer's picture or the state of the
call is in its place, never both or none, once both threads are done with the window.
`EndedIsStill`: after a call no track, frame or picture is left, whatever the signaling
thread added or showed between the steps of the main thread; the second stop after the
connection is closed is what this rests on (mutant `ClosePeerConnection_StopsOnce`).
`StopEnds`: a call that ends is over at last, unless `Crossed`.

`Crossed` is a deadlock of the code: the main or the signaling thread holds `mutex_` in
`SetVideoTrack` and waits in `RemoveSink` for the source's lock, which a
frame holds that waits for `mutex_` (`videorenderer.cc:37` and `:55`). It is reached
in the run; `StopEnds` says that it is the only thing that can hold up the end of
a call. It assumes that WebRTC delivers frames and removes sinks under one lock,
as its `VideoBroadcaster` does. Further: the remote renderer keeps its last
picture, which is seen in the next call until its first frame.

*Fairness* (`VideoFairness`): threads run on, and a thread that waits for a mutex
that is released again and again gets it (hence strong fairness). No frame need
come and no call end.

### 3.4 Messages

`sync` (144,215 states): a friend and a group, four messages of which one is not a
text, pages of two, up to four messages waiting, two logins, one failing statement,
losses and restarts anywhere, servers of either kind, conversations of which one row is
read. `NoneLost`: what the server was told to forget is in a table, or its own insertion
failed: that one the code does lose, as the page is confirmed whatever became of its
messages (`MessageHandler.cpp:120`), but no other with it. `ViewMatchesStore`: the open
chat shows what is stored of it, however messages, clicks and own messages interleave;
except what opening it did not read, and what was shown although its insertion failed
(`apart`). `OneCopyPerLogin`: a message is stored again only after another login (a
restart between storing and confirming), or as part of a second full page (`again`),
which the code takes for the first and asks for once more. `UnseenIsBadged`: up to the
next rebuilding of the list, which drops all badges (`MessageListWidget.cpp:29`).
`AllSynced`, under fairness of the server and of the event loop, if the server does not
renumber; one that does makes the client skip a page, until the next login.

*Bounds.* `PageSize` is 2 instead of 100, `ReadLimit` 1 instead of 20: the code compares
with them only. `MaxHeld` = 4 gives two full pages, 5 gives a third page; `MaxLogins` = 2
gives a repetition; `MaxCopies` = 2 tells "again" from "once" and saturates; one fault is
the insertion of one message or the reading of one conversation. Fairness assumes nothing
of the user, and connections may be lost.

### 3.5 AI chat

`ai` (301,580 states): two conversations in any order of clicks, answers, losses
and deletions, and a restart. `RepliesAreWhole`: a reply in the table is one the
server completed, whatever broke off before. `OneRequestAtATime`: what the server
sends belongs to the last message. `WindowIsConversations`: the key of a window
stands for its conversation. `HistoryIsListed`: a conversation with messages has
its row and exactly one item of the same title. `SavedIsShown`: an open window
shows what is saved, in order, if the user did not write during a reply.
`AnswersFollowQuestions`: the question is stored before the answer.
`RequestSettles`: a request that reached the server ends, under the fairness of
`ServerAnswers`: the server answers or breaks off, or the connection does.

*Bounds.* Two messages are an answer broken off and the next one, or a first
message and a refused one; two pieces tell a part from a whole; two items and two
ids, the new window and an old one; two starts, a list built from the tables.

*Exceptions that the properties name*, because the code behaves so: a piece is
put to the last bubble, which is the user's if the user wrote during the reply
(`mixed`; the bubble only, the table is right); a message refused before the
first answer replaces `m_firstUserMessage`, so that it, and not the message that
was answered, becomes title and first row (`AiChatWindow.cpp:180`); a server that
moves a conversation leaves messages without row (`moves`); a deleted
conversation keeps its item until the next start and its messages for good, as
foreign keys are not enforced (`AiChatApplication.cpp:68`). A message written
before the socket is open is shown, not sent, and leaves `isProcessing` set until
the socket closes; `RequestSettles` therefore speaks of requests that reached the
server.

### 3.6 Login, registration, notifications

`account` (219,000 states): three parts, `Session` (two accounts, two attempts,
two faults), `Registration` (two drafts, two requests of each kind) and
`Notifications` (three messages at any moments).

`LoginIsReleased`: while the login window refuses to log in, something is under
way that ends this. `UserIsTold`: although handlers of an earlier login run again for a
later one and contacts come in any order, once they are in the chat server was told of
the current user, on the socket that is open, and his tables are filled, also after a
change of the account. `OneIdentity`: as long as one account was used, lists, current user
and call service are of it. `LoginEndsInMainWindow`, under the fairness
of network and event loop: an accepted login does. `ButtonsComeBack`,
`ReportedIsRegistered`, `ReportsOnce`, `PictureIsLatest`: section 2.7's form.
`EndedByItsOwn`, `LastIsRead`, `EveryNoticeIsShown`: messages that wait overwrite
each other's text, but the last one is read with its own, none is ended by
another's timer, and all are shown.

*Exceptions*, because the code behaves so: a refused login ("wrong password")
leaves `isLogining` set (`Login.cpp:387`); with a changed account the main window's lists
and the call service stay with the first one; a lost answer with contacts, or a lost
socket, leaves the server with the older user (`deaf`); the main window's lists are built before the contacts are
there when the account is new; the handler of `wssError` uses a reply that is
deleted (`Login.cpp:456`, undefined; it is modelled as doing nothing to it); the
file of an uploaded picture is removed before it is displayed
(`Register.cpp:586`), so the form never shows it; messages on the screen end later
ones (`NotificationManager.cpp:74`), so `EndedByItsOwn` and `LastIsRead` are about
messages in windows; the retry keeps a pointer to its target window, which may be
closed by then.

### 3.7 Friends

`friends` (188,479 states): two people, one of whom may leave, two groups that change
their members, two reloads, one fault; two searches; two windows and two friend requests.
A change of the groups with selections, a friend's leaving, and the pages with the badge
are parts explored apart, each with the requests, reloads and faults.
`TablesAreWhole`: whatever statement failed, no transaction is left open, the name of a
group and the members it had then are of one answer (those who left keep the row of an
earlier one), and the users are exactly those of the answers that were loaded. `SelectionIsClicked`: a reload never makes the selection another person.
`UnseenAreCounted`, `AnsweredOnce`. `FriendsAreListed` and, under fairness of server
and event loop, `AcceptedIsListed`. `LastTextIsSearched`, `ResultsAreOfLatest`.
`WaitingIsAnswered`, `AskedOnce`, `SuccessIsOwn`.

*Exceptions*: a friend who left stays in table and list, as rows are never deleted
(`UserRepository.cpp:205`), and so do members of a group; a reload started before the
other had its reply (`overlapped`) takes the wrong reply; a search made while replies to an earlier one are under way
(`stale`) shows both; with two windows waiting, or a friend request sent
elsewhere, an answer may close or enable the wrong window (`shared`);
`SearchFriendWindow::getInstance` and `MainWindow::getInstance` return pointers
that may be to closed windows. The server asks nothing of the order of HTTP
replies.

### 3.8 The open conversation

`chat` (424,887 states): two conversations and four messages with times that may
go back, of which three are read when a conversation is opened; five rows, a view of two, two inputs of the user; the plain list of
`SmoothScroll`. `SelectionIsMarked`, `DeletesItsOwn`: the row numbers kept by model
and menu mean their message whatever was inserted. `HeadersMarkGaps`,
`ConversationIsListed`: what is missing was deleted or is older than those the limit
admits. `BarFollowsView`: with nothing running the three positions
agree. `UnreadIsBelow`. `OwnMessageIsShown`, under the fairness of
timers, layout and animation, unless the user scrolls.

*Bounds.* `Viewport` = 2 of `MaxRows` = 5 has positions at, near and away from the
end; `Limit` = 3 of `MaxStored` = 4 has conversations above and below the twenty messages of
`MessageRepository::getMessages`; `Near` and `Follow` are the two distances of the code in rows. Two inputs
are a scroll and a scroll back. `MaxTimers` = 2 pending timers of a kind.

*Exceptions*: `clear()` keeps the index of the selection; the notice of unread
messages stays when another conversation is opened or rows are removed at the
very bottom (`shrunk`); deletion removes the row, not the message in the database,
so it is back when the conversation is opened again (the message at
`ChatItemDelegate.cpp:532` says it was deleted); it may leave a header without
message; a wheel turn may be overridden by a pending timer; unread messages are
forgotten when the scroll to the end begins. Resizing is not modelled.

### 3.9 Posts and pictures

`posts` (800,634 states): two feeds, an old post and a new one, two fetches, three clicks,
one fault; three openings of two posts with two comments; three avatars, two labels, a
cache of two. `BarShowsPage`, `CreatedIsListed`, `HeartsAgree`;
`DetailIsClicked`, `CommentsAreOfPost`, `CommentsReachTheirPost`;
`LoadingIsDownloading`, `ShownIsAsked`, `CacheIsOnDisk` and, under the
fairness of downloads, `AskedIsShown`.

*Exceptions*: a post whose picture fails is hidden until the page is shown again;
a feed whose first fetch fails stays empty; a stale answer may clear `m_needReload`;
a failure may roll back over a second click; the feeds do not tell each other of
hearts; the button stays enabled while a post is sent, so that it can be sent
twice, and success clears a form edited meanwhile; a late answer opens a view
without overlay, or fills an open one with another post's comments
(`PostApplication.cpp:196`; `late` has this view until it is deleted); a failed comment stays shown; a heart in the view is
local. A user and a group with the same id share the memory cache; the limit of
files is never applied, as it looks in the directory above them.

### 3.10 Finding

`sync_many` ends in a violation: with more than two pages the second is fetched
for ever and the third never (`MessageHandler.cpp:153`), against the comment quoted
in `PROJECT.json`.

Two more losses are part of `sync`, named in its properties: a message whose insertion
fails, also as two were numbered in one millisecond, is confirmed but not stored
(`MessageRepository.cpp:180`); and waiting messages of a group are stored under
`group_<id>` and never shown (`MessageHandler.cpp:135`).

## 4. What is proved

By TLAPS, for every value of the constants (any clients, calls, faults, logins,
conversations, messages, posts and people): every invariant, every action
property and the refinement that the passing runs check. Section 3 names the
parts of each. The proofs use the named assumptions of the modules (the null
values are no members of the sets, the bounds are numbers) and nothing else: no
theorem has a hypothesis of its own. What a theorem states is the property of the run,
with the exceptions that the property names (section 3).

| Module | Theorems about |
|---|---|
| `CallSystemProofs` | `CallSystem`: `EngineFollows`, `EndsAgree`, `RingsAreCalledOff`, `EngineNegotiatesWithPeer`, `PeerLossNoticed`, `Refinement` |
| `SignalClientProofs` | `SignalClient`: `ConnectionStaysSound`, `DisconnectStays` |
| `CallDialogsProofs` | `CallDialogs`: `WindowsFollow`; `CallVideo`: `PicturesFollow` |
| `MessageSyncProofs` | `MessageSync`: `ScreenFollows`, `NothingIsLost`, `FetchedOncePerLogin`; `ChatList`: `ConversationStaysListed`, `MenuDeletesItsOwn` |
| `AiChatProofs` | `AiChat`: `RequestsStaySound`, `HistoryStaysAgreed` |
| `AccountProofs` | `Session`: `AccountsStayApart`; `Registration`: `FormStaysSound`; `Notifications`: `NoticesStayApart` |
| `PostsProofs` | `AvatarLoader`: `PicturesStay`; `PostDetail`: `DetailStaysOfPost`; `PostFeeds`: `FeedsStay` |
| `ViewsProofs` | `FriendSearch`: `ResultsFindTheirPlace`; `SmoothScroll`: `PlainBarFollowsView`; `ChatScroll`: `NoticeFollowsView`; `Contacts`: `ContactsStayAgreed` |

Each proof has the same shape: an inductive invariant, as a conjunction of named
parts; a lemma for each action, or for each part, that a step keeps it; the
properties as consequences. Candidates for the inductive invariants were tried with TLC
first, as invariants of the runs.

### 4.1 Calls

`EngineFollows` and `Refinement`: `IInv` is `CallInv` (types, the three
invariants, and `PeerKnown`: a client in an answered call has a coordinator peer,
so that what it posts has an addressee) and `SignalInv` (the types of what
travels). Most actions disturb one half only.

`EndsAgree` and `RingsAreCalledOff` rest on an invariant about every ordered pair of
clients (`PairHolds`), over what is in flight between the two. `Ringing`, while `serial`
or `paired`: from the request to the answer the callee says nothing, and the caller
still calls or the news that it gave up is behind the request. `Agreed`, while
`paired`: two clients that name each other are caller and callee of one call and
nothing on the wire says otherwise; one that names a client that does not name it
has the news on its way (`Left`), or its request, or the refusal. Messages of third
parties need no case of their own, as they change no state of the pair.

`EngineNegotiatesWithPeer` rests on `LateInv`: for each client with a connection and each
other client that is neither its peer nor in `late`, the two are `Apart`: no message of a
negotiation, acceptance or posted lambda is between them, and the other one does not
negotiate with it. `StaysApart` says that a step keeps two clients apart unless a call
between them is answered: what would part them could come only from the coordinator of
one of them (`NetGrows`, `PostedGrows`), and only an answered call makes a coordinator
name a client, or an offer, which there is none of. So nothing that arrives from a client
outside `late` names a new peer (`StaysWithPeer`), whatever calls it places.

`PeerLossNoticed` uses that "user-offline" is the last that a
client hears of one that is gone (`NewsLast`), and that it is under way to whoever
negotiates with it (`LossTold`).

### 4.2 Signaling, windows, pictures

`SignalClient`: the announced delays are exactly those of the attempts counted, and
the messages in flight tell about the registration. `CallDialogs`: without an
initialised manager there is no call (`QuietBefore`), and the WebRTC thread is between
its steps only while the call it found is there (`NotifyInv`). `CallVideo`: a renderer has
the track of the present call or none, and the local one as long as it is shown
(`TrackInv`); frames come only while there is a track. The end of a call goes through its
steps in one order, and none of the signaling thread is left when the connection is
closed (`EndInv`). Label and picture are as the signaling thread leaves them until the
main thread is past the first stop, and as the main thread leaves them after the second
(`LabelInv`): by it nothing is left when the call is over, and what the next call finds
is empty.

### 4.3 Messages

`SelectedIsCurrent`: the item selected in the list is that of the open chat, or
none. `NothingIsLost`: the texts of every confirmation on its way are in a table or their
insertion failed. `ShownAsStored`: what is in the open chat and not in `apart` came there
and into its table by the same step, or was read from it.

`FetchedOncePerLogin` (`PagingInv`): client and server take turns (`TurnsInv`), what waits for
a login is never pushed (`NumbersInv`), and what a notice brings, or will be asked for
after it, was not stored in this login (`FetchedOnce`), or is of a second full page that
is asked for again.

`ChatList`: the rows show, each once, a set of stored messages, and what is not shown
was deleted or is over the limit (`RowsInv`); messages are numbered (`StoreInv`); an open
menu stands at the selected row (`SelectedInv`). `RowsOf` fills the list message by
message: that it leaves each under its time is an induction over the number of
messages.

### 4.4 AI chat

`RequestsStaySound`: of every window (`WindowOk`), a request is under way while the server
works on it, during a reply the buffer is the answer so far, and the answer is empty
when it has just been asked for: that makes the saved text a completed reply.

`HistoryStaysAgreed` has `ListInv` (a conversation that was given an id has its row and one
item, of one title, until it is deleted) and `MessageInv` (`Recorded`: no message is saved
twice and an answer stands behind its question; `WindowHolds`: a window shows what is
saved, in order, and the reply that is coming in stands last and is not saved; `NewShows`
for the window of a new conversation). Both hold unless the server moves a
conversation (`moves`), as the properties do.

### 4.5 Login, registration, notifications

`Session` (`SessionInv`): logins come one after the other and each is at one place on its
way (`OneByOne`); the chat server knows the user of the open socket and his tables are
filled, or what will do both is under way (`ToldInv`); a login window that refuses has something under way that
releases it (`ReleaseInv`). `Registration`: until the form is
edited under a registration, what was sent is the form and what is to be reported is
registered (`ReportInv`), and the upload under way is the last that was chosen, unless
two crossed (`UploadInv`). `Notifications`: among messages in windows there is one timer
that ends a message exactly while one is shown, and it is that message's (`OneEnd`).

### 4.6 Friends, views, posts, pictures

`FriendSearch`: while nothing of an earlier search is under way, each reply that had
results is in the list, once, and the others are awaited or brought none (`CurrentInv`, `ListInv`); a window that waits has its request or the answer
on the way, one at most unless an answer met another window (`ApplyInv`). `SmoothScroll`: once no timer is left the bar's range is
that of the last layout (`BarInv`); `ChatScroll`: the range is too large only after rows
were removed (`UnreadInv`).

`Contacts`: the users are those of the answers loaded (`KnownInv`); no transaction is left
open, and a group's name and members are of one answer (`DbInv`); a request is announced before it is answered and
answered once (`RequestInv`); each reload has its handler (`HandlersInv`); a friend is in the
tables or news of him is under way (`ListedInv`).

`AvatarLoader` (`AvatarInv`): what is cached, in a file, being downloaded or shown was asked
for under its id (`CachedAsked`, `FilesAsked`, `DownloadsAsked`), and what is being fetched
is not cached (`FetchedInv`). `PostDetail`
(`DetailInv`): a comment that is known was written, to that post; of the requests under
way at most one is of the present overlay (`GetIsClicked`). `PostFeeds` (`FeedInv`): a heart
differs from the server's by an odd number of clicks that the server has not seen,
and a click that is alone puts back what it found (`HeartInv`); what is listed exists
(`ListsExist`); a post that was taken exists and is of one request (`DraftInv`).

### 4.7 What stays with TLC

Liveness: `CallsEnd`, `NegotiationCompletes`, `OutageEnds`, `RingingStops`, `StopEnds`,
`AllSynced`, `RequestSettles`, `LoginEndsInMainWindow`, `EveryNoticeIsShown`,
`AcceptedIsListed`, `OwnMessageIsShown`, `AskedIsShown`. They rest on `ENABLED`, which
tlapm does not reason about.

Induction is used where a definition is a recursive function of a number (`RowsOf` of
`ChatList`, `after` of `Contacts`) or lists a set in increasing order (`InOrder`). The induction
theorems of the library take the statement as an operator; `Induction` in
`ViewsProofs` and `MessageSyncProofs` takes the set of numbers for which it
holds instead, and follows from the well-foundedness of `<` on the numbers.

## 5. Not modelled, and the plan

Done in this order: the call core, signaling, the windows of calls, messages, AI
chat; then login and registration, contacts and friends, the open conversation,
posts and pictures, renderers, notifications; then the proofs of all invariants.
Next, as proofs:

1. That `MessageSync` implements an abstract mailbox (a message is waiting, stored or
   both, and never forgotten by the server before the client has it), as `CallSystem`
   implements `CallLifecycle`.
2. The step properties behind the liveness ones, where a fair step is a single
   action: what such a step leaves to be done is less than before (`OutageEnds`,
   `RingingStops`, `StopEnds`).
3. Shorter proofs of the pair invariant of `CallSystem`, whose cases repeat between
   caller and callee.

Left out, with the reason: painting, bubbles, hovering and window decoration
(layout); the vendored WebRTC client, which nothing uses, and the test capturers;
image files of messages; the search field of the conversations; the functions of
the repositories that change single rows; the destruction of the renderers at
shutdown; `OnSessionDescriptionSuccess`, which uses `peer_connection_` unprotected
while the main thread may close it (`webrtcengine.cc:664`; `CallSystem` lets the
closing wait for it, as WebRTC's proxies do); what Qt does with widgets that a WebRTC
thread changes, beyond the flags it sets, and the displayed time of a call (section 2.3);
`clearAvatar` and `clearAllAvatars`, which nothing calls; a message without a readable
time stamp in the chat model (`ChatListModel.cpp:81`), which cannot come, as
`parseTimestamp` falls back to the present (`MessageHandler.cpp:88`).
