-------------------------------- MODULE AiChat --------------------------------
(***************************************************************************)
(* The conversations with the AI: the list of conversations, one           *)
(* AiChatWindow per conversation, each with a WebSocket of its own, and    *)
(* the tables ai_conversations and ai_messages.  A conversation gets its   *)
(* id from the server, with the first answer; until then its window is     *)
(* filed under the empty id, and so are all items "new conversation".      *)
(*                                                                         *)
(* All handlers run in the Qt main thread.  A WebSocket keeps the order,   *)
(* and what is under way when it closes is lost, so each message of the    *)
(* server is sent and handled in one step.  The server is external: it     *)
(* answers one request after the other with start, any number of pieces    *)
(* and end, or breaks off with an error, and gives fresh ids.  A text is a *)
(* sequence of pieces, a title is known by the message it is made from.    *)
(***************************************************************************)
EXTENDS Naturals, Sequences, FiniteSets

CONSTANTS
  Conversations,       \* the ids the server may give
  NoConversation,      \* the empty id
  MaxItems,            \* bound: items of the list
  MaxSends,            \* bound: messages the user sends
  MaxPieces,           \* bound: pieces of a reply
  MaxStarts            \* bound: starts of the program

ASSUME IdAssumption == NoConversation \notin Conversations /\ IsFiniteSet(Conversations)
ASSUME BoundsAssumption == /\ MaxItems \in Nat /\ MaxSends \in Nat
                           /\ MaxPieces \in Nat /\ MaxStarts \in Nat

Ids      == Conversations \cup {NoConversation}
Sends    == 1..MaxSends
(* Titles: of no row, made from a message, "new conversation", renamed.    *)
NoRow    == 0
NewTitle == MaxSends + 1
Renamed  == MaxSends + 2
Titles   == 1..Renamed

VARIABLES
  rows,                \* ai_conversations: the title of each, NoRow if none
  messages,            \* ai_messages of each conversation, in order
  items,               \* AiChatListWidget::m_items: id and title
  windows,             \* AiChatApplication::m_chatWindows, by id
  given,               \* server: ids given to conversations
  moves,               \* server: may continue a conversation under another id
  sent, starts,        \* used part of MaxSends and MaxStarts
  replies,             \* history: the replies that the server completed
  refused,             \* history: messages not passed on to the server
  deleted              \* history: conversations the user deleted

tables  == <<rows, messages>>
history == <<replies, refused, deleted>>
vars == <<rows, messages, items, windows, given, moves, sent, starts, replies, refused, deleted>>

Item(id, title)     == [conversationId |-> id, title |-> title]
Message(role, text) == [role |-> role, text |-> text]
UserMessage(n)      == Message("user", <<<<n, 0>>>>)

(* A window.  Server is the state of the request, asked the message that   *)
(* was sent last, answer what came of the reply to it; mixed tells that    *)
(* the user wrote while a reply came.                                      *)
AiChatWindow(id, item, shown) ==
  [open |-> TRUE, conversationId |-> id, isNewConversation |-> id = NoConversation,
   firstUserMessage |-> 0, pendingAiMessage |-> <<>>, shown |-> shown,
   isProcessing |-> FALSE, socket |-> "connecting", item |-> item,
   server |-> "idle", asked |-> 0, answer |-> <<>>, mixed |-> FALSE]
NoWindow == [AiChatWindow(NoConversation, 0, <<>>) EXCEPT !.open = FALSE, !.socket = "closed"]

Init ==
  /\ rows = [c \in Conversations |-> NoRow]
  /\ messages = [c \in Conversations |-> <<>>]
  /\ items = <<>>
  /\ windows = [id \in Ids |-> NoWindow]
  /\ given = {} /\ moves \in BOOLEAN
  /\ sent = 0 /\ starts = 1
  /\ replies = {} /\ refused = {} /\ deleted = {}

-----------------------------------------------------------------------------
(* The list.                                                               *)

(* The button "+".                                                         *)
NewItem ==
  /\ Len(items) < MaxItems
  /\ items' = Append(items, Item(NoConversation, NewTitle))
  /\ UNCHANGED <<tables, windows, given, moves, sent, starts, history>>

LoadHistoryMessages(id) == IF id = NoConversation THEN <<>> ELSE messages[id]

(* A click on an item whose window is not yet there; otherwise it only     *)
(* brings the window to the front.                                         *)
OnChatItemClicked(i) ==
  LET id == items[i].conversationId
  IN  /\ ~windows[id].open
      /\ windows' = [windows EXCEPT ![id] = AiChatWindow(id, i, LoadHistoryMessages(id))]
      /\ UNCHANGED <<tables, items, given, moves, sent, starts, history>>

OnChatItemRenamed(i) ==
  LET id == items[i].conversationId
  IN  /\ items' = [items EXCEPT ![i].title = Renamed]
      /\ rows' = [c \in Conversations |->
                    IF c = id /\ rows[c] # NoRow THEN Renamed ELSE rows[c]]
      /\ UNCHANGED <<messages, windows, given, moves, sent, starts, history>>

(* The row goes, and the window; the item stays, and so do the messages,   *)
(* as SQLite enforces foreign keys for those connections only that ask it. *)
OnChatItemDeleted(i) ==
  LET id == items[i].conversationId
  IN  /\ rows' = [c \in Conversations |-> IF c = id THEN NoRow ELSE rows[c]]
      /\ windows' = [windows EXCEPT ![id] = NoWindow]
      /\ deleted' = deleted \cup ({id} \ {NoConversation})
      /\ UNCHANGED <<messages, items, given, moves, sent, starts, replies, refused>>

-----------------------------------------------------------------------------
(* A window and its WebSocket.                                             *)

OnConnected(id) ==
  /\ windows[id].open /\ windows[id].socket = "connecting"
  /\ windows' = [windows EXCEPT ![id].socket = "open"]
  /\ UNCHANGED <<tables, items, given, moves, sent, starts, history>>

(* The next request may be sent; what was received stays in the buffer.    *)
RequestOver(w) ==
  [w EXCEPT !.isProcessing = FALSE, !.server = "idle", !.asked = 0, !.answer = <<>>]

(* onError and onDisconnected; nothing connects again.                     *)
OnDisconnected(id) ==
  /\ windows[id].open /\ windows[id].socket # "closed"
  /\ windows' = [windows EXCEPT ![id] = RequestOver([@ EXCEPT !.socket = "closed"])]
  /\ UNCHANGED <<tables, items, given, moves, sent, starts, history>>

Saved(id, message) ==
  [c \in Conversations |-> IF c = id THEN Append(messages[c], message) ELSE messages[c]]

(* AiChatWebSocket::sendMessage: refused during a request; a socket that   *)
(* is not open drops the message, but the request counts as under way.     *)
SocketSends(w, n) ==
  IF w.isProcessing THEN w
  ELSE IF w.socket # "open" THEN [w EXCEPT !.isProcessing = TRUE]
  ELSE [w EXCEPT !.isProcessing = TRUE, !.server = "asked", !.asked = n, !.answer = <<>>]

OnSendMessage(id) ==
  LET w == windows[id]
      n == sent + 1
      written == [w EXCEPT !.shown = Append(w.shown, UserMessage(n)),
                           !.firstUserMessage = IF w.isNewConversation THEN n ELSE @,
                           !.mixed = w.mixed \/ w.server = "replying"]
  IN  /\ w.open /\ sent < MaxSends
      /\ sent' = n
      /\ messages' = IF w.isNewConversation THEN messages
                     ELSE Saved(w.conversationId, UserMessage(n))
      /\ windows' = [windows EXCEPT ![id] = SocketSends(written, n)]
      /\ refused' = IF w.isProcessing \/ w.socket # "open" THEN refused \cup {n} ELSE refused
      /\ UNCHANGED <<rows, items, given, moves, starts, replies, deleted>>

(* Faulty: the buffer is emptied at the end of a reply only.               *)
Answering_BufferKept(w, id) ==
  [w EXCEPT !.conversationId = id, !.shown = Append(w.shown, Message("ai", <<>>)),
            !.server = "replying"]

(* The answer begins: an empty message of the AI.                          *)
Answering(w, id) ==
  [w EXCEPT !.conversationId = id, !.pendingAiMessage = <<>>,
            !.shown = Append(w.shown, Message("ai", <<>>)), !.server = "replying"]

(* Faulty: the first message is not saved.                                 *)
CreateConversation_NotSaved(w, id) ==
  LET title == w.firstUserMessage
      named == Answering([w EXCEPT !.isNewConversation = FALSE, !.firstUserMessage = 0], id)
  IN  /\ rows' = [rows EXCEPT ![id] = title]
      /\ messages' = messages
      /\ items' = [items EXCEPT ![w.item] = Item(id, title)]
      /\ windows' = [windows EXCEPT ![NoConversation] = NoWindow, ![id] = named]

(* onConversationStarted in a new conversation: the row, the first         *)
(* message; and onConversationCreated: the item and the key of the window. *)
CreateConversation(w, id) ==
  LET title == IF w.firstUserMessage = 0 THEN NewTitle ELSE w.firstUserMessage
  IN  /\ rows' = [rows EXCEPT ![id] = title]
      /\ messages' = IF w.firstUserMessage = 0 THEN messages
                     ELSE Saved(id, UserMessage(w.firstUserMessage))
      /\ items' = [items EXCEPT ![w.item] = Item(id, title)]
      /\ windows' = [windows EXCEPT
           ![NoConversation] = NoWindow,
           ![id] = Answering([w EXCEPT !.isNewConversation = FALSE, !.firstUserMessage = 0], id)]

OnConversationStarted(key, id) ==
  LET w == windows[key]
  IN  /\ w.open /\ w.server = "asked"
      /\ given' = given \cup {id}
      /\ \/ /\ w.isNewConversation
            /\ id \notin given
            /\ CreateConversation(w, id)
         \/ /\ ~w.isNewConversation
            /\ id = w.conversationId \/ (moves /\ id \notin given)
            /\ windows' = [windows EXCEPT ![key] = Answering(w, id)]
            /\ UNCHANGED <<tables, items>>
      /\ UNCHANGED <<moves, sent, starts, history>>

(* A piece is put to the last message shown, whoever wrote it.             *)
OnMessageContent(id) ==
  LET w == windows[id]
      piece == <<w.asked, Len(w.answer) + 1>>
  IN  /\ w.open /\ w.server = "replying" /\ Len(w.answer) < MaxPieces
      /\ windows' = [windows EXCEPT ![id] =
           [w EXCEPT !.shown = IF w.shown = <<>> THEN @
                               ELSE [w.shown EXCEPT ![Len(w.shown)].text = Append(@, piece)],
                     !.pendingAiMessage = Append(@, piece),
                     !.answer = Append(@, piece)]]
      /\ UNCHANGED <<tables, items, given, moves, sent, starts, history>>

(* Faulty: the end of the reply leaves the request under way.              *)
OnMessageEnded_StillProcessing(id) ==
  LET w == windows[id]
  IN  /\ w.open /\ w.server = "replying"
      /\ messages' = IF w.pendingAiMessage = <<>> THEN messages
                     ELSE Saved(w.conversationId, Message("ai", w.pendingAiMessage))
      /\ windows' = [windows EXCEPT
           ![id] = [RequestOver([w EXCEPT !.pendingAiMessage = <<>>]) EXCEPT !.isProcessing = TRUE]]
      /\ replies' = replies \cup {w.answer}
      /\ UNCHANGED <<rows, items, given, moves, sent, starts, refused, deleted>>

OnMessageEnded(id) ==
  LET w == windows[id]
  IN  /\ w.open /\ w.server = "replying"
      /\ messages' = IF w.pendingAiMessage = <<>> THEN messages
                     ELSE Saved(w.conversationId, Message("ai", w.pendingAiMessage))
      /\ windows' = [windows EXCEPT ![id] = RequestOver([w EXCEPT !.pendingAiMessage = <<>>])]
      /\ replies' = replies \cup {w.answer}
      /\ UNCHANGED <<rows, items, given, moves, sent, starts, refused, deleted>>

(* The server breaks off.                                                  *)
OnRequestError(id) ==
  /\ windows[id].open /\ windows[id].server # "idle"
  /\ windows' = [windows EXCEPT ![id] = RequestOver(@)]
  /\ UNCHANGED <<tables, items, given, moves, sent, starts, history>>

-----------------------------------------------------------------------------
Stored == {c \in Conversations : rows[c] # NoRow}

(* The program is closed and started again: what is in the tables is left. *)
Restart ==
  /\ starts < MaxStarts /\ starts' = starts + 1
  /\ windows' = [id \in Ids |-> NoWindow]
  /\ \E order \in [1..Cardinality(Stored) -> Stored] :
       /\ \A c \in Stored : \E i \in DOMAIN order : order[i] = c
       /\ items' = [i \in 1..Cardinality(Stored) |-> Item(order[i], rows[order[i]])]
  /\ UNCHANGED <<tables, given, moves, sent, history>>

ServerAnswers(id) ==
  /\ windows[id].server # "idle"
  /\ \/ \E new \in Conversations : OnConversationStarted(id, new)
     \/ OnMessageContent(id)
     \/ OnMessageEnded(id)
     \/ OnRequestError(id)

ListEvent(i) == OnChatItemClicked(i) \/ OnChatItemRenamed(i) \/ OnChatItemDeleted(i)
WindowEvent(id) ==
  OnConnected(id) \/ OnDisconnected(id) \/ OnSendMessage(id) \/ ServerAnswers(id)

Next ==
  \/ NewItem
  \/ \E i \in 1..Len(items) : ListEvent(i)
  \/ \E id \in Ids : WindowEvent(id)
  \/ Restart

Spec == Init /\ [][Next]_vars

(* The server answers what it was asked, or its connection breaks.         *)
FairSpec == Spec /\ \A id \in Ids : WF_vars(ServerAnswers(id))

-----------------------------------------------------------------------------
(* Properties.                                                             *)

Texts    == Seq(Nat \X Nat)
Shown    == [role : {"user", "ai"}, text : Texts]
ItemType == [conversationId : Ids, title : Titles]
WindowType ==
  [open : BOOLEAN, conversationId : Ids, isNewConversation : BOOLEAN,
   firstUserMessage : 0..MaxSends, pendingAiMessage : Texts, shown : Seq(Shown),
   isProcessing : BOOLEAN, socket : {"connecting", "open", "closed"}, item : Nat,
   server : {"idle", "asked", "replying"}, asked : 0..MaxSends, answer : Texts, mixed : BOOLEAN]

(* Types.                                                                  *)
TypeOK ==
  /\ rows \in [Conversations -> Titles \cup {NoRow}]
  /\ messages \in [Conversations -> Seq(Shown)]
  /\ items \in Seq(ItemType)
  /\ windows \in [Ids -> WindowType]
  /\ given \subseteq Conversations /\ moves \in BOOLEAN
  /\ sent \in 0..MaxSends /\ starts \in Nat
  /\ replies \subseteq Texts /\ refused \subseteq Sends /\ deleted \subseteq Conversations

(* Whatever broke off before, a reply in ai_messages is, from its first    *)
(* piece to its last, one that the server completed.                       *)
RepliesAreWhole ==
  \A c \in Conversations : \A i \in 1..Len(messages[c]) :
    messages[c][i].role = "ai" => messages[c][i].text \in replies

(* At most one request of a window is with the server: what it sends next  *)
(* belongs to the message that was sent last.                              *)
OneRequestAtATime ==
  \A id \in Ids : windows[id].server # "idle" => windows[id].isProcessing

(* The key of m_chatWindows stands for the conversation of the window: the *)
(* window without an id is the one of an item without an id, which it will *)
(* name, and the other windows continue the conversation of their key.     *)
WindowIsConversations ==
  \A id \in Ids : windows[id].open =>
    LET w == windows[id]
    IN  /\ w.isNewConversation <=> id = NoConversation
        /\ id = NoConversation => /\ w.conversationId = NoConversation
                                  /\ w.item \in 1..Len(items)
                                  /\ items[w.item].conversationId = NoConversation
        /\ id # NoConversation => w.conversationId = id \/ moves

(* What is saved can be found again: unless the user deleted it, or the    *)
(* server moved it, a conversation with messages has its row and exactly   *)
(* one item, under the title of the row.                                   *)
HistoryIsListed ==
  \A c \in Conversations : messages[c] # <<>> /\ c \notin deleted /\ ~moves =>
    /\ rows[c] # NoRow
    /\ Cardinality({i \in 1..Len(items) : items[i].conversationId = c}) = 1
    /\ \A i \in 1..Len(items) : items[i].conversationId = c => items[i].title = rows[c]

(* A window shows what is saved of its conversation, whole and in order,   *)
(* each message once, if the user never wrote while a reply came.          *)
SavedIsShown ==
  \A c \in Conversations :
    LET saved == messages[c]
        shown == windows[c].shown
    IN  windows[c].open /\ ~windows[c].mixed /\ ~moves =>
          /\ \A i \in 1..Len(saved) : \E k \in 1..Len(shown) : shown[k] = saved[i]
          /\ \A i, j \in 1..Len(saved) : \A k, l \in 1..Len(shown) :
               shown[k] = saved[i] /\ shown[l] = saved[j] => (k < l <=> i < j)

(* In ai_messages the question comes before its answer; in a conversation  *)
(* that was new, a refused message may have taken its place.               *)
AnswersFollowQuestions ==
  \A c \in Conversations : \A i \in 1..Len(messages[c]) : messages[c][i].role = "ai" =>
    \/ \E j \in 1..(i - 1) : messages[c][j] = UserMessage(messages[c][i].text[1][1])
    \/ \E n \in refused : i > 1 /\ messages[c][1] = UserMessage(n)
    \/ moves

(* A request that reached the server ends, so that the next is accepted.   *)
RequestSettles ==
  \A id \in Ids : windows[id].server # "idle" ~> ~windows[id].isProcessing

(* Requests and windows are kept apart, and only whole replies are saved.  *)
RequestsAreSound ==
  /\ TypeOK
  /\ RepliesAreWhole
  /\ OneRequestAtATime
  /\ WindowIsConversations

(* Tables, list and windows agree: what is saved is listed, in order, and  *)
(* shown.                                                                  *)
HistoryAgrees ==
  /\ HistoryIsListed
  /\ SavedIsShown
  /\ AnswersFollowQuestions
===============================================================================
