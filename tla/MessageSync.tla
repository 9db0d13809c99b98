----------------------------- MODULE MessageSync -----------------------------
(***************************************************************************)
(* The chat messages of one user: those that came while the user was       *)
(* offline are fetched page by page after the login and confirmed, those   *)
(* that come later are pushed; MessageHandler stores each and puts it into *)
(* the open conversation, or a badge on its conversation in the list.      *)
(*                                                                         *)
(* All handlers run in the Qt main thread, NetworkManager delivers in      *)
(* order.  A message is its number; what differs is how often a message    *)
(* was stored and is shown, counted up to MaxCopies.  The server is        *)
(* external: it keeps a message of an offline user until the message is    *)
(* confirmed, and is of one of two kinds: it numbers the pages anew after  *)
(* each confirmation, or keeps the numbers of the login.  The connection   *)
(* is not restored once it is lost, only by the login of the next start of *)
(* the program.                                                            *)
(***************************************************************************)
EXTENDS Naturals, Sequences, FiniteSets

CONSTANTS
  Conversations,       \* contacts and groups, all in the user's list
  Groups,              \* those of them that are groups
  NoChat,              \* no conversation
  ConversationOf,      \* the conversation of each message
  Texts,               \* the messages of type "text"
  PageSize,            \* pageSize: 100
  ReadLimit,           \* rows that opening a conversation reads: 20
  MaxFaults,           \* bound: statements on the database that fail
  MaxMessages,         \* bound: messages, sent or received
  MaxHeld,             \* bound: messages that come while the user is offline
  MaxLogins,           \* bound: starts of the program
  MaxCopies            \* bound: copies of a message that are told apart

Messages == 1..MaxMessages

ASSUME ChatAssumption   == NoChat \notin Conversations /\ Groups \subseteq Conversations
ASSUME MessageAssumption == /\ ConversationOf \in [Messages -> Conversations]
                            /\ Texts \subseteq Messages
ASSUME BoundsAssumption == /\ PageSize \in Nat \ {0} /\ ReadLimit \in Nat /\ MaxFaults \in Nat
                           /\ MaxMessages \in Nat /\ MaxHeld \in Nat
                           /\ MaxLogins \in Nat /\ MaxCopies \in Nat \ {0}

VARIABLES
  phase,               \* of the program: at the login, online, connection lost
  up, down,            \* messages to and from the server, oldest first
  stored,              \* copies of a message in the table of its conversation
  misfiled,            \* copies under "group_<id>", which is in no list
  current,             \* currentChatId
  selected,            \* selectItem of the list, NoChat if none
  view,                \* copies of a message in the ChatArea
  badged,              \* conversations with an unread count
  held, confirmed,     \* server: offline messages, and those confirmed
  atLogin,             \* server: confirmed when the user logged in
  sent, logins, faults, \* used part of MaxMessages, MaxLogins and MaxFaults
  unseen,              \* history: received since the list was built, never shown
  unsaved,             \* history: messages that addMessage failed to insert
  apart,               \* history: of the open conversation, not read when it was
                       \* opened, or shown although inserting them failed
  again,               \* history: second page of a login with two full pages
  renumbers            \* server: numbers the pages anew

wires      == <<up, down>>
storeVars  == <<stored, misfiled, unsaved>>
screenVars == <<current, selected, view, badged, unseen, apart>>
serverVars == <<held, confirmed, atLogin, renumbers, again>>
countVars  == <<sent, logins, faults>>
vars == <<phase, up, down, stored, misfiled, unsaved, current, selected, view, badged, unseen,
          apart, held, confirmed, atLogin, renumbers, again, sent, logins, faults>>

None == [m \in Messages |-> 0]

Request(kind, page, ids) == [kind |-> kind, page |-> page, ids |-> ids]
SyncOfflineMessages(page) == Request("sync_offline_messages", page, {})
ConfirmMessagesSynced(ids) == Request("confirm_messages_synced", 0, ids)
Notice(kind, batch, count) == [kind |-> kind, batch |-> batch, count |-> count]

Init ==
  /\ phase = "login"
  /\ up = <<>> /\ down = <<>>
  /\ stored = None /\ misfiled = None /\ unsaved = {}
  /\ current = NoChat /\ selected = NoChat
  /\ view = None /\ badged = {} /\ unseen = {} /\ apart = {}
  /\ held = {} /\ confirmed = {} /\ atLogin = {}
  /\ renumbers \in BOOLEAN /\ again = {}
  /\ sent = 0 /\ logins = 0 /\ faults = 0

-----------------------------------------------------------------------------
(* The server.                                                             *)

(* External: somebody writes to the user.                                  *)
NewMessage ==
  /\ sent < MaxMessages /\ sent' = sent + 1
  /\ IF phase = "online"
     THEN down' = Append(down, Notice("chat", {sent'}, 0)) /\ UNCHANGED held
     ELSE /\ Cardinality(held) < MaxHeld
          /\ held' = held \cup {sent'}
          /\ UNCHANGED down
  /\ UNCHANGED <<phase, up, storeVars, screenVars, confirmed, atLogin, renumbers, again,
                 logins, faults>>

(* The messages that the pages are taken from, and a page of them.         *)
Pending == held \ (IF renumbers THEN confirmed ELSE atLogin)
Rank(m) == Cardinality({k \in Pending : k <= m})
Page(p) == {m \in Pending : Rank(m) \in (p - 1) * PageSize + 1 .. p * PageSize}

(* The messages of a second page, when two full pages wait for a login     *)
(* whose pages keep their numbers.                                         *)
Surplus(p) == IF p = 2 /\ ~renumbers /\ Cardinality(Pending) >= 2 * PageSize THEN Page(p) ELSE {}

(* External: the server takes the oldest request.                          *)
ServerReceives ==
  /\ up # <<>> /\ up' = Tail(up)
  /\ LET request == Head(up)
     IN  IF request.kind = "confirm_messages_synced"
         THEN confirmed' = confirmed \cup request.ids /\ UNCHANGED <<down, again>>
         ELSE /\ down' = Append(down, Notice("offline_messages", Page(request.page),
                                             Cardinality(Pending)))
              /\ again' = again \cup Surplus(request.page)
              /\ UNCHANGED confirmed
  /\ UNCHANGED <<phase, storeVars, screenVars, held, atLogin, renumbers, countVars>>

-----------------------------------------------------------------------------
(* MessageHandler and MessageRepository.                                   *)

(* One copy more of each message of a set.                                 *)
Added(copies, set) ==
  [m \in Messages |-> IF m \in set /\ copies[m] < MaxCopies THEN copies[m] + 1 ELSE copies[m]]

(* The rows that addMessage fails to insert: the database does not open or *)
(* refuses, also because the id of a message, the current millisecond, is  *)
(* taken.                                                                  *)
Failing(set) == {lost \in SUBSET set : faults + Cardinality(lost) <= MaxFaults}
Fails(lost) == /\ unsaved' = unsaved \cup lost
               /\ faults' = faults + Cardinality(lost)

Here(set) == {m \in set : ConversationOf[m] = current}

(* Messages are shown in the open conversation, or announced on their own. *)
Delivers(found, lost) ==
  /\ view' = Added(view, Here(found))
  /\ apart' = apart \cup Here(found \cap lost)
  /\ badged' = badged \cup ({ConversationOf[m] : m \in found \ Here(found)} \ {selected})
  /\ unseen' = unseen \cup (found \ Here(found))
  /\ UNCHANGED <<current, selected>>

(* Faulty: a message of the open conversation is only shown.               *)
HandleReceived_ShownOnly(texts, astray) ==
  /\ stored' = Added(stored, texts \ (astray \cup Here(texts)))
  /\ misfiled' = Added(misfiled, astray)
  /\ Fails({})
  /\ Delivers(texts \ astray, {})

(* handleReceivedMessage for the texts of a batch, one after the other;    *)
(* those astray carry a conversation that is in no list.  A message that   *)
(* was not stored is shown, or announced, all the same.                    *)
HandleReceived(texts, astray) ==
  \E lost \in Failing(texts) :
    /\ stored' = Added(stored, texts \ (astray \cup lost))
    /\ misfiled' = Added(misfiled, astray \ lost)
    /\ Fails(lost)
    /\ Delivers(texts \ astray, lost)

Receives(kind) == down # <<>> /\ Head(down).kind = kind /\ down' = Tail(down)

HandleLoginSuccess ==
  /\ Receives("login_success")
  /\ up' = Append(up, SyncOfflineMessages(1))
  /\ UNCHANGED <<phase, storeVars, screenVars, serverVars, countVars>>

(* A message of another type is dropped.                                   *)
HandleChat ==
  /\ Receives("chat")
  /\ HandleReceived(Head(down).batch \cap Texts, {})
  /\ UNCHANGED <<phase, up, serverVars, sent, logins>>

(* Faulty: never asks for more.                                            *)
NextPage_Never(batch, count) == <<>>
(* Faulty: asks for the same page.                                         *)
NextPage_Same(batch, count) ==
  IF Cardinality(batch) = PageSize /\ count > PageSize THEN <<SyncOfflineMessages(1)>> ELSE <<>>

(* The current page is taken for the first, whichever it is.               *)
NextPage(batch, count) ==
  IF Cardinality(batch) = PageSize /\ count > PageSize THEN <<SyncOfflineMessages(2)>> ELSE <<>>

(* The whole page is confirmed, whatever became of its messages.  The      *)
(* messages of a group are filed under the id the server gave.             *)
HandleOfflineMessages ==
  /\ Receives("offline_messages")
  /\ LET batch == Head(down).batch
         texts == batch \cap Texts
     IN  /\ HandleReceived(texts, {m \in texts : ConversationOf[m] \in Groups})
         /\ up' = up \o (IF batch = {} THEN <<>> ELSE <<ConfirmMessagesSynced(batch)>>)
                     \o NextPage(batch, Head(down).count)
  /\ UNCHANGED <<phase, serverVars, sent, logins>>

-----------------------------------------------------------------------------
(* The user, the list and the connection.                                  *)

(* The rows of a conversation, and what getMessages can return: so many of *)
(* the newest, by time stamps that server and user set, or nothing.        *)
Rows(c) == {r \in Messages \X (1..MaxCopies) : ConversationOf[r[1]] = c /\ r[2] <= stored[r[1]]}
Readable(c) == {rows \in SUBSET Rows(c) :
                \/ Cardinality(rows) = ReadLimit
                \/ Cardinality(rows) < ReadLimit /\ rows = Rows(c)}
GetMessages(c) ==
  \/ \E rows \in Readable(c) : view' = [m \in Messages |-> Cardinality({r \in rows : r[1] = m})]
     /\ UNCHANGED faults
  \/ faults < MaxFaults /\ faults' = faults + 1 /\ view' = None

(* The list's own part of a click: the badge goes.                         *)
Selects(c) ==
  /\ phase # "login" /\ c # selected
  /\ selected' = c
  /\ badged' = badged \ {c}
  /\ unseen' = {m \in unseen : ConversationOf[m] # c}
  /\ GetMessages(c)
  /\ apart' = {m \in Messages : ConversationOf[m] = c /\ view'[m] # stored[m]}
  /\ UNCHANGED <<phase, wires, storeVars, serverVars, sent, logins>>

(* Faulty: does not tell the MessageHandler.                               *)
OnMessageClicked_NotTold(c) ==
  Selects(c) /\ current' = IF current = NoChat THEN c ELSE current

(* A conversation is opened: its messages are read back from the table.    *)
OnMessageClicked(c) == Selects(c) /\ current' = c

(* The user writes: shown and stored, then sent if there is a connection.  *)
OnSendText ==
  /\ sent < MaxMessages /\ sent' = sent + 1
  /\ sent' \in Texts /\ ConversationOf[sent'] = current
  /\ view' = Added(view, {sent'})
  /\ \E lost \in Failing({sent'}) :
       /\ stored' = Added(stored, {sent'} \ lost)
       /\ apart' = apart \cup lost
       /\ Fails(lost)
  /\ UNCHANGED <<phase, wires, misfiled, current, selected, badged, unseen, serverVars, logins>>

(* A friend request was accepted: the list is built anew, without badges.  *)
UpdateMessages ==
  /\ phase # "login"
  /\ selected' = NoChat
  /\ badged' = {} /\ unseen' = {}
  /\ UNCHANGED <<phase, wires, storeVars, current, view, apart, serverVars, countVars>>

Login ==
  /\ phase = "login" /\ phase' = "online"
  /\ logins < MaxLogins /\ logins' = logins + 1
  /\ down' = <<Notice("login_success", {}, 0)>>
  /\ atLogin' = confirmed
  /\ UNCHANGED <<up, storeVars, screenVars, held, confirmed, renumbers, again, sent, faults>>

ConnectionLost ==
  /\ phase = "online" /\ phase' = "offline"
  /\ up' = <<>> /\ down' = <<>>
  /\ UNCHANGED <<storeVars, screenVars, serverVars, countVars>>

(* The program ends at any moment, and is started again.                   *)
Restart ==
  /\ phase # "login" /\ phase' = "login"
  /\ up' = <<>> /\ down' = <<>>
  /\ current' = NoChat /\ selected' = NoChat
  /\ view' = None /\ badged' = {} /\ unseen' = {} /\ apart' = {}
  /\ UNCHANGED <<storeVars, serverVars, countVars>>

Next ==
  \/ NewMessage \/ ServerReceives
  \/ HandleLoginSuccess \/ HandleChat \/ HandleOfflineMessages
  \/ \E c \in Conversations : OnMessageClicked(c)
  \/ OnSendText \/ UpdateMessages
  \/ Login \/ ConnectionLost \/ Restart

Spec == Init /\ [][Next]_vars

(* The server answers and the event loop runs.  The user need do nothing,  *)
(* and the connection need not last.                                       *)
Fairness == /\ WF_vars(ServerReceives)
            /\ WF_vars(HandleLoginSuccess \/ HandleChat \/ HandleOfflineMessages)

FairSpec == Spec /\ Fairness

-----------------------------------------------------------------------------
(* Properties.                                                             *)

Copies   == [Messages -> 0..MaxCopies]
Chats    == Conversations \cup {NoChat}
Requests == [kind : {"sync_offline_messages", "confirm_messages_synced"},
             page : 0..2, ids : SUBSET Messages]
Notices  == [kind : {"login_success", "chat", "offline_messages"},
             batch : SUBSET Messages, count : Nat]

(* Every variable has its type; only the first two pages are asked for.    *)
TypeOK ==
  /\ phase \in {"login", "online", "offline"}
  /\ up \in Seq(Requests) /\ down \in Seq(Notices)
  /\ stored \in Copies /\ misfiled \in Copies /\ view \in Copies
  /\ current \in Chats /\ selected \in Chats
  /\ badged \in SUBSET Conversations /\ unseen \in SUBSET Messages
  /\ unsaved \in SUBSET Messages /\ apart \in SUBSET Messages /\ again \in SUBSET Messages
  /\ held \in SUBSET Messages /\ confirmed \in SUBSET Messages /\ atLogin \in SUBSET Messages
  /\ renumbers \in BOOLEAN
  /\ sent \in 0..MaxMessages /\ logins \in 0..MaxLogins /\ faults \in 0..MaxFaults

IsStored(m) == stored[m] + misfiled[m] > 0

(* The server is told to forget a text message only when it is in the      *)
(* table, or its own insertion failed, whenever the program or the         *)
(* connection ends: the page is confirmed as a whole, so a failed          *)
(* insertion does lose its message, but no other.                          *)
NoneLost == \A m \in confirmed \cap Texts : IsStored(m) \/ m \in unsaved

(* The open conversation shows each message as often as it is stored under *)
(* its id, and nothing of another one, in whatever order messages come,    *)
(* are sent and chats are opened; except those that opening it did not     *)
(* read, and those whose insertion failed.                                 *)
ViewMatchesStore == \A m \in Messages :
  IF ConversationOf[m] = current THEN m \in apart \/ view[m] = stored[m] ELSE view[m] = 0

(* Paging never stores a message twice: one that was stored more than once *)
(* was fetched by several logins.  The exception is the second of two full *)
(* pages, which is taken for the first and asked for again.                *)
OneCopyPerLogin == \A m \in held \ again : stored[m] + misfiled[m] <= logins

(* A message the user has not seen since it came is announced by the badge *)
(* of its conversation, until the list is built anew.                      *)
UnseenIsBadged == \A m \in unseen : ConversationOf[m] \in badged

(* All messages that waited are fetched while the connection lasts, if the *)
(* server does not number its pages anew.                                  *)
AllSynced == \A m \in Texts :
  (m \in held /\ phase = "online" /\ ~renumbers)
    ~> (phase # "online" \/ IsStored(m) \/ m \in unsaved)

(* What the user sees is what is stored, and what was not seen is          *)
(* announced.                                                              *)
ScreenFollowsStore ==
  /\ TypeOK
  /\ ViewMatchesStore
  /\ UnseenIsBadged
=============================================================================
