----------------------------- MODULE AiChatProofs -----------------------------
(***************************************************************************)
(* Proofs about AiChat for any conversations, items and messages.          *)
(***************************************************************************)
EXTENDS AiChat, FiniteSetTheorems, SequenceTheorems, TLAPS

(* A window in itself: its type, a request of its own under way while the  *)
(* server works, and during a reply the buffer holds what came of it,      *)
(* nothing at first.                                                       *)
WindowOk(w) ==
  /\ w \in WindowType
  /\ w.server # "idle" => w.isProcessing
  /\ w.server = "asked" => w.answer = <<>>
  /\ w.server = "replying" => w.pendingAiMessage = w.answer

(* A window under its key, in the list.                                    *)
WindowFits(id, w, list) ==
  /\ w.isNewConversation <=> id = NoConversation
  /\ id = NoConversation => /\ w.conversationId = NoConversation
                            /\ w.item \in 1..Len(list)
                            /\ list[w.item].conversationId = NoConversation
  /\ id # NoConversation => w.conversationId = id \/ moves

TableTypes == rows \in [Conversations -> Titles \cup {NoRow}] /\ messages \in [Conversations -> Seq(Shown)]
ItemTypes  == items \in Seq(ItemType)
CountTypes == /\ given \subseteq Conversations /\ moves \in BOOLEAN
              /\ sent \in 0..MaxSends /\ starts \in Nat
              /\ refused \subseteq Sends /\ deleted \subseteq Conversations
ReplyTypes == replies \subseteq Texts
WindowsOk  == windows \in [Ids -> WindowType] /\ \A id \in Ids : WindowOk(windows[id])
WindowsFit == \A id \in Ids : windows[id].open => WindowFits(id, windows[id], items)

IInv == /\ TableTypes /\ ItemTypes /\ CountTypes /\ ReplyTypes
        /\ WindowsOk /\ WindowsFit /\ RepliesAreWhole

(* The inductive invariant implies the properties.                         *)
LEMMA IInvImplies ==
  IInv => TypeOK /\ RepliesAreWhole /\ OneRequestAtATime /\ WindowIsConversations
<1>1. IInv => TypeOK
  BY DEF IInv, TypeOK, TableTypes, ItemTypes, CountTypes, ReplyTypes, WindowsOk
<1>2. IInv => OneRequestAtATime
  BY DEF IInv, WindowsOk, WindowOk, OneRequestAtATime
<1>3. IInv => WindowIsConversations
  BY DEF IInv, WindowsFit, WindowFits, WindowIsConversations
<1>4. QED
  BY <1>1, <1>2, <1>3 DEF IInv

-----------------------------------------------------------------------------
(* Titles, messages and texts.                                             *)
LEMMA TitleTypes ==
  /\ Sends \subseteq Titles /\ NewTitle \in Titles /\ Renamed \in Titles
  /\ NoRow \notin Titles
BY BoundsAssumption DEF Sends, Titles, NewTitle, Renamed, NoRow

LEMMA MessageTypes ==
  /\ \A n \in Sends : UserMessage(n) \in Shown /\ UserMessage(n).role = "user"
  /\ \A text \in Texts : Message("ai", text) \in Shown /\ Message("ai", text).text = text
  /\ <<>> \in Texts
<1>1. <<>> \in Texts
  BY DEF Texts
<1>2. \A n \in Sends : <<<<n, 0>>>> \in Texts
  BY DEF Texts, Sends
<1>3. QED
  BY <1>1, <1>2 DEF UserMessage, Message, Shown

(* A new window, and none.                                                 *)
LEMMA NewWindows ==
  /\ \A id \in Ids, i \in Nat, shown \in Seq(Shown) : WindowOk(AiChatWindow(id, i, shown))
  /\ WindowOk(NoWindow) /\ ~NoWindow.open
<1>1. ASSUME NEW id \in Ids, NEW i \in Nat, NEW shown \in Seq(Shown)
      PROVE  WindowOk(AiChatWindow(id, i, shown))
  BY MessageTypes, BoundsAssumption DEF AiChatWindow, WindowOk, WindowType
<1>2. NoWindow \in WindowType /\ NoWindow.server = "idle" /\ ~NoWindow.open
  <2> DEFINE plain == AiChatWindow(NoConversation, 0, <<>>)
  <2>1. <<>> \in Seq(Shown) /\ NoConversation \in Ids
    BY DEF Ids
  <2>2. plain \in WindowType /\ plain.server = "idle"
    BY <1>1, <2>1 DEF WindowOk, AiChatWindow
  <2>3. NoWindow = [plain EXCEPT !.open = FALSE, !.socket = "closed"]
    BY DEF NoWindow
  <2> HIDE DEF plain
  <2>4. QED
    BY <2>2, <2>3 DEF WindowType
<1>3. QED
  BY <1>1, <1>2 DEF WindowOk

(* One window replaced by another that is well-formed.                     *)
LEMMA PutWindow ==
  ASSUME WindowsOk, NEW key \in Ids, NEW w, WindowOk(w), windows' = [windows EXCEPT ![key] = w]
  PROVE  /\ WindowsOk'
         /\ windows'[key] = w
         /\ \A id \in Ids \ {key} : windows'[id] = windows[id]
<1>1. w \in WindowType
  BY DEF WindowOk
<1>2. /\ windows' \in [Ids -> WindowType] /\ windows'[key] = w
      /\ \A id \in Ids \ {key} : windows'[id] = windows[id]
  BY <1>1 DEF WindowsOk
<1>3. ASSUME NEW id \in Ids PROVE WindowOk(windows'[id])
  BY <1>2 DEF WindowsOk
<1>4. QED
  BY <1>2, <1>3 DEF WindowsOk

(* A window that stays as it was for the list.                             *)
LEMMA SameFit ==
  ASSUME WindowsOk, WindowsFit, NEW key \in Ids, NEW w, WindowOk(w),
         windows' = [windows EXCEPT ![key] = w],
         windows[key].open, UNCHANGED <<items, moves>>,
         w.conversationId = windows[key].conversationId, w.item = windows[key].item,
         w.isNewConversation = windows[key].isNewConversation
  PROVE  WindowsFit'
<1>1. /\ windows'[key] = w
      /\ \A id \in Ids \ {key} : windows'[id] = windows[id]
  BY PutWindow
<1>2. WindowFits(key, w, items)'
  BY DEF WindowsFit, WindowFits
<1>3. ASSUME NEW id \in Ids, windows'[id].open PROVE WindowFits(id, windows[id], items)' \/ id = key
  BY <1>1, <1>3 DEF WindowsFit, WindowFits
<1>4. QED
  BY <1>1, <1>2, <1>3 DEF WindowsFit, WindowFits

(* One message more in a table of well-formed ones.                        *)
LEMMA SavedKeeps ==
  ASSUME TableTypes, RepliesAreWhole, NEW id, NEW message \in Shown,
         message.role = "ai" => message.text \in replies',
         replies \subseteq replies', messages' = Saved(id, message)
  PROVE  messages' \in [Conversations -> Seq(Shown)] /\ RepliesAreWhole'
<1>1. messages \in [Conversations -> Seq(Shown)]
  BY DEF TableTypes
<1>2. \A c \in Conversations : messages'[c] = IF c = id THEN Append(messages[c], message) ELSE messages[c]
  BY DEF Saved
<1>3. messages' \in [Conversations -> Seq(Shown)]
  BY <1>1 DEF Saved
<1>4. ASSUME NEW c \in Conversations, NEW i \in 1..Len(messages'[c]), messages'[c][i].role = "ai"
      PROVE  messages'[c][i].text \in replies'
  <2>1. CASE i \in 1..Len(messages[c]) /\ messages'[c][i] = messages[c][i]
    BY <1>4, <2>1 DEF RepliesAreWhole
  <2>2. CASE messages'[c][i] = message
    BY <1>4, <2>2
  <2>3. messages[c] \in Seq(Shown)
    BY <1>1
  <2>4. CASE c = id
    <3>1. messages'[c] = Append(messages[c], message)
      BY <1>2, <2>4
    <3>2. i \in 1..Len(messages[c]) \/ i = Len(messages[c]) + 1
      BY <1>4, <2>3, <3>1, AppendProperties
    <3>3. QED
      BY <2>1, <2>2, <2>3, <3>1, <3>2, AppendProperties
  <2>5. CASE c # id
    BY <1>2, <1>4, <2>1, <2>5
  <2>6. QED
    BY <2>4, <2>5
<1>5. QED
  BY <1>3, <1>4 DEF RepliesAreWhole

-----------------------------------------------------------------------------
(* Steps of the list.                                                      *)

(* An item of the list has an id and a title.                              *)
LEMMA ItemOfList ==
  ASSUME IInv, NEW i \in 1..Len(items)
  PROVE  items[i] \in ItemType /\ items[i].conversationId \in Ids /\ i \in Nat
<1>1. items \in Seq(ItemType)
  BY DEF IInv, ItemTypes
<1>2. items[i] \in ItemType
  BY <1>1, ElementOfSeq
<1>3. QED
  BY <1>2 DEF ItemType

LEMMA NewItemKeeps == IInv /\ NewItem => IInv'
<1> SUFFICES ASSUME IInv, NewItem PROVE IInv'
  OBVIOUS
<1>1. Item(NoConversation, NewTitle) \in ItemType
  BY TitleTypes DEF Item, ItemType, Ids
<1>2. /\ ItemTypes' /\ Len(items') = Len(items) + 1
      /\ \A i \in 1..Len(items) : items'[i] = items[i]
  BY <1>1, AppendProperties DEF IInv, ItemTypes, NewItem
<1>3. Len(items) \in Nat
  BY LenProperties DEF IInv, ItemTypes
<1>4. WindowsFit'
  BY <1>2, <1>3 DEF IInv, WindowsFit, WindowFits, NewItem
<1>5. QED
  BY <1>2, <1>4 DEF IInv, NewItem, TableTypes, CountTypes, ReplyTypes, WindowsOk, WindowOk,
                    RepliesAreWhole, tables, history

LEMMA ClickKeeps == ASSUME NEW i \in 1..Len(items) PROVE IInv /\ OnChatItemClicked(i) => IInv'
<1> SUFFICES ASSUME IInv, OnChatItemClicked(i) PROVE IInv'
  OBVIOUS
<1>1. PICK id \in Ids : id = items[i].conversationId
  BY ItemOfList
<1>2. PICK w : w = AiChatWindow(id, i, LoadHistoryMessages(id))
  OBVIOUS
<1>3. LoadHistoryMessages(id) \in Seq(Shown)
  BY DEF IInv, TableTypes, LoadHistoryMessages, Ids
<1>4. WindowOk(w)
  BY <1>2, <1>3, ItemOfList, NewWindows
<1>5. windows' = [windows EXCEPT ![id] = w]
  BY <1>1, <1>2 DEF OnChatItemClicked
<1>6. UNCHANGED <<tables, items, given, moves, sent, starts, history>>
  BY DEF OnChatItemClicked
<1>7. WindowFits(id, w, items)
  BY <1>1, <1>2 DEF WindowFits, AiChatWindow
<1>8. /\ WindowsOk' /\ windows'[id] = w
      /\ \A key \in Ids \ {id} : windows'[key] = windows[key]
  BY <1>4, <1>5, PutWindow DEF IInv
<1>9. WindowsFit'
  BY <1>6, <1>7, <1>8 DEF IInv, WindowsFit, WindowFits
<1>10. QED
  BY <1>6, <1>8, <1>9 DEF IInv, TableTypes, ItemTypes, CountTypes, ReplyTypes,
                          RepliesAreWhole, tables, history

LEMMA RenameKeeps == ASSUME NEW i \in 1..Len(items) PROVE IInv /\ OnChatItemRenamed(i) => IInv'
<1> SUFFICES ASSUME IInv, OnChatItemRenamed(i) PROVE IInv'
  OBVIOUS
<1>1. items \in Seq(ItemType) /\ items[i] \in ItemType
  BY ElementOfSeq DEF IInv, ItemTypes
<1>2. [items[i] EXCEPT !.title = Renamed] \in ItemType
  BY <1>1, TitleTypes DEF ItemType
<1>3. items' = [items EXCEPT ![i] = [items[i] EXCEPT !.title = Renamed]]
  BY DEF OnChatItemRenamed
<1>4. /\ ItemTypes' /\ Len(items') = Len(items)
      /\ \A j \in 1..Len(items) : items'[j].conversationId = items[j].conversationId
  BY <1>1, <1>2, <1>3, ExceptSeq DEF ItemTypes, ItemType
<1>5. TableTypes'
  BY TitleTypes DEF IInv, TableTypes, OnChatItemRenamed
<1>6. WindowsFit'
  BY <1>4 DEF IInv, WindowsFit, WindowFits, OnChatItemRenamed
<1>7. QED
  BY <1>4, <1>5, <1>6 DEF IInv, OnChatItemRenamed, CountTypes, ReplyTypes, WindowsOk, WindowOk,
                          RepliesAreWhole, history

LEMMA DeleteKeeps == ASSUME NEW i \in 1..Len(items) PROVE IInv /\ OnChatItemDeleted(i) => IInv'
<1> SUFFICES ASSUME IInv, OnChatItemDeleted(i) PROVE IInv'
  OBVIOUS
<1> DEFINE id == items[i].conversationId
<1>1. id \in Ids
  BY ItemOfList
<1>2. windows' = [windows EXCEPT ![id] = NoWindow]
  BY DEF OnChatItemDeleted
<1>3. /\ deleted' = deleted \cup ({id} \ {NoConversation})
      /\ rows' = [c \in Conversations |-> IF c = id THEN NoRow ELSE rows[c]]
      /\ UNCHANGED <<messages, items, given, moves, sent, starts, replies, refused>>
  BY DEF OnChatItemDeleted
<1> HIDE DEF id
<1>4. /\ WindowsOk' /\ windows'[id] = NoWindow
      /\ \A key \in Ids \ {id} : windows'[key] = windows[key]
  BY <1>1, <1>2, NewWindows, PutWindow DEF IInv
<1>5. WindowsFit'
  BY <1>3, <1>4, NewWindows DEF IInv, WindowsFit, WindowFits
<1>6. TableTypes' /\ CountTypes'
  BY <1>1, <1>3 DEF IInv, TableTypes, CountTypes, Ids
<1>7. QED
  BY <1>3, <1>4, <1>5, <1>6 DEF IInv, ItemTypes, ReplyTypes, RepliesAreWhole

-----------------------------------------------------------------------------
(* Steps of a window.                                                      *)

(* The window of a key is well-formed, piece by piece.                     *)
LEMMA OldWindow ==
  ASSUME IInv, NEW key \in Ids
  PROVE  windows[key] \in WindowType /\ WindowOk(windows[key])
BY DEF IInv, WindowsOk

(* What remains to be shown of a step that keeps the conversation of a     *)
(* window.                                                                 *)
LEMMA WindowStep ==
  ASSUME IInv, NEW key \in Ids, NEW w, WindowOk(w), windows' = [windows EXCEPT ![key] = w],
         windows[key].open, UNCHANGED <<rows, items, given, moves, starts, deleted>>,
         w.conversationId = windows[key].conversationId, w.item = windows[key].item,
         w.isNewConversation = windows[key].isNewConversation,
         messages' \in [Conversations -> Seq(Shown)], RepliesAreWhole',
         ReplyTypes', sent' \in 0..MaxSends, refused' \subseteq Sends
  PROVE  IInv'
<1>1. WindowsOk'
  BY PutWindow DEF IInv
<1>2. WindowsFit'
  BY SameFit DEF IInv
<1>3. TableTypes' /\ ItemTypes' /\ CountTypes'
  BY DEF IInv, TableTypes, ItemTypes, CountTypes
<1>4. QED
  BY <1>1, <1>2, <1>3 DEF IInv

(* The tables and histories of a step that does not touch them.            *)
LEMMA RestKept ==
  ASSUME IInv, UNCHANGED <<messages, replies, sent, refused>>
  PROVE  /\ messages' \in [Conversations -> Seq(Shown)] /\ RepliesAreWhole'
         /\ ReplyTypes' /\ sent' \in 0..MaxSends /\ refused' \subseteq Sends
BY DEF IInv, TableTypes, CountTypes, ReplyTypes, RepliesAreWhole

(* A window whose request is over.                                         *)
LEMMA OverOk ==
  ASSUME NEW v \in WindowType
  PROVE  LET w == RequestOver(v)
         IN  /\ WindowOk(w) /\ w.conversationId = v.conversationId /\ w.item = v.item
             /\ w.isNewConversation = v.isNewConversation
<1> DEFINE w == RequestOver(v)
<1>1. w \in WindowType
  <2> DEFINE v1 == [v EXCEPT !.isProcessing = FALSE, !.server = "idle"]
             v2 == [v1 EXCEPT !.asked = 0]
  <2>1. v1 \in WindowType
    BY DEF WindowType
  <2>2. 0 \in 0..MaxSends /\ <<>> \in Texts
    BY MessageTypes, BoundsAssumption
  <2>3. w = [v2 EXCEPT !.answer = <<>>]
    BY DEF RequestOver, WindowType
  <2> HIDE DEF v1
  <2>4. v2 \in WindowType
    BY <2>1, <2>2 DEF WindowType
  <2> HIDE DEF v2, w
  <2>5. [v2 EXCEPT !.answer = <<>>] \in WindowType
    BY <2>2, <2>4 DEF WindowType
  <2>6. QED
    BY <2>3, <2>5
<1>2. /\ w.server = "idle" /\ w.conversationId = v.conversationId /\ w.item = v.item
      /\ w.isNewConversation = v.isNewConversation
  BY DEF RequestOver, WindowType
<1>3. QED
  BY <1>1, <1>2 DEF WindowOk

LEMMA ConnectedKeeps == ASSUME NEW key \in Ids PROVE IInv /\ OnConnected(key) => IInv'
<1> SUFFICES ASSUME IInv, OnConnected(key) PROVE IInv'
  OBVIOUS
<1>1. PICK w : w = [windows[key] EXCEPT !.socket = "open"]
  OBVIOUS
<1>2. WindowOk(w)
  BY <1>1, OldWindow DEF WindowOk, WindowType
<1>3. /\ w.conversationId = windows[key].conversationId /\ w.item = windows[key].item
      /\ w.isNewConversation = windows[key].isNewConversation
  BY <1>1, OldWindow DEF WindowType
<1>4. windows' = [windows EXCEPT ![key] = w] /\ windows[key].open
  BY <1>1 DEF OnConnected
<1>5. UNCHANGED <<tables, items, given, moves, sent, starts, history>>
  BY DEF OnConnected
<1>6. QED
  BY <1>2, <1>3, <1>4, <1>5, WindowStep, RestKept DEF tables, history

LEMMA DisconnectedKeeps == ASSUME NEW key \in Ids PROVE IInv /\ OnDisconnected(key) => IInv'
<1> SUFFICES ASSUME IInv, OnDisconnected(key) PROVE IInv'
  OBVIOUS
<1>1. PICK old \in WindowType : old = windows[key] /\ WindowOk(old)
  BY OldWindow
<1>2. PICK v : v = [old EXCEPT !.socket = "closed"]
  OBVIOUS
<1>3. /\ v \in WindowType
      /\ v.conversationId = old.conversationId /\ v.item = old.item
      /\ v.isNewConversation = old.isNewConversation
  BY <1>2 DEF WindowType
<1>4. PICK w : w = RequestOver(v)
  OBVIOUS
<1>5. /\ WindowOk(w) /\ w.conversationId = old.conversationId /\ w.item = old.item
      /\ w.isNewConversation = old.isNewConversation
  BY <1>3, <1>4, OverOk
<1>6. windows' = [windows EXCEPT ![key] = w] /\ windows[key].open
  BY <1>1, <1>2, <1>4 DEF OnDisconnected
<1>7. UNCHANGED <<tables, items, given, moves, sent, starts, history>>
  BY DEF OnDisconnected
<1>8. QED
  BY <1>1, <1>5, <1>6, <1>7, WindowStep, RestKept DEF tables, history

LEMMA ErrorKeeps == ASSUME NEW key \in Ids PROVE IInv /\ OnRequestError(key) => IInv'
<1> SUFFICES ASSUME IInv, OnRequestError(key) PROVE IInv'
  OBVIOUS
<1>1. PICK old \in WindowType : old = windows[key] /\ WindowOk(old)
  BY OldWindow
<1>2. PICK w : w = RequestOver(old)
  OBVIOUS
<1>3. /\ WindowOk(w) /\ w.conversationId = old.conversationId /\ w.item = old.item
      /\ w.isNewConversation = old.isNewConversation
  BY <1>2, OverOk
<1>4. windows' = [windows EXCEPT ![key] = w] /\ windows[key].open
  BY <1>1, <1>2 DEF OnRequestError
<1>5. UNCHANGED <<tables, items, given, moves, sent, starts, history>>
  BY DEF OnRequestError
<1>6. QED
  BY <1>1, <1>3, <1>4, <1>5, WindowStep, RestKept DEF tables, history

LEMMA ContentKeeps == ASSUME NEW key \in Ids PROVE IInv /\ OnMessageContent(key) => IInv'
<1> SUFFICES ASSUME IInv, OnMessageContent(key) PROVE IInv'
  OBVIOUS
<1>1. PICK old \in WindowType : old = windows[key] /\ WindowOk(old)
  BY OldWindow
<1>2. PICK piece : piece = <<old.asked, Len(old.answer) + 1>>
  OBVIOUS
<1>3. PICK shown : shown = IF old.shown = <<>> THEN <<>>
                           ELSE [old.shown EXCEPT ![Len(old.shown)].text = Append(@, piece)]
  OBVIOUS
<1>4. PICK w : w = [old EXCEPT !.shown = shown,
                               !.pendingAiMessage = Append(old.pendingAiMessage, piece),
                               !.answer = Append(old.answer, piece)]
  OBVIOUS
<1>5. old.shown \in Seq(Shown) /\ old.answer \in Texts /\ old.pendingAiMessage \in Texts
      /\ old.asked \in Nat
  BY <1>1 DEF WindowType
<1>6. piece \in Nat \X Nat
  BY <1>2, <1>5, LenProperties DEF Texts
<1>7. shown \in Seq(Shown)
  <2>1. CASE old.shown = <<>>
    BY <1>3, <1>5, <2>1
  <2>2. CASE old.shown # <<>>
    <3>1. Len(old.shown) \in 1..Len(old.shown)
      BY <1>5, <2>2, EmptySeq, LenProperties
    <3>2. PICK last \in Shown : last = old.shown[Len(old.shown)]
      BY <1>5, <3>1, ElementOfSeq
    <3>3. Append(last.text, piece) \in Texts
      BY <1>6, <3>2, AppendProperties DEF Shown, Texts
    <3>4. [last EXCEPT !.text = Append(last.text, piece)] \in Shown
      BY <3>2, <3>3 DEF Shown
    <3>5. shown = [old.shown EXCEPT ![Len(old.shown)] = [last EXCEPT !.text = Append(last.text, piece)]]
      BY <1>3, <2>2, <3>2
    <3>6. QED
      BY <1>5, <3>1, <3>4, <3>5, ExceptSeq
  <2>3. QED
    BY <2>1, <2>2
<1>8. Append(old.answer, piece) \in Texts /\ Append(old.pendingAiMessage, piece) \in Texts
  BY <1>5, <1>6, AppendProperties DEF Texts
<1>9. WindowOk(w)
  BY <1>1, <1>4, <1>7, <1>8 DEF WindowOk, WindowType, OnMessageContent
<1>10. /\ w.conversationId = old.conversationId /\ w.item = old.item
       /\ w.isNewConversation = old.isNewConversation
  BY <1>1, <1>4 DEF WindowType
<1>11. windows' = [windows EXCEPT ![key] = w] /\ windows[key].open
  BY <1>1, <1>2, <1>3, <1>4 DEF OnMessageContent
<1>12. UNCHANGED <<tables, items, given, moves, sent, starts, history>>
  BY DEF OnMessageContent
<1>13. QED
  BY <1>1, <1>9, <1>10, <1>11, <1>12, WindowStep, RestKept DEF tables, history

LEMMA EndedKeeps == ASSUME NEW key \in Ids PROVE IInv /\ OnMessageEnded(key) => IInv'
<1> SUFFICES ASSUME IInv, OnMessageEnded(key) PROVE IInv'
  OBVIOUS
<1>1. PICK old \in WindowType : old = windows[key] /\ WindowOk(old)
  BY OldWindow
<1>2. PICK v : v = [old EXCEPT !.pendingAiMessage = <<>>]
  OBVIOUS
<1>3. /\ v \in WindowType
      /\ v.conversationId = old.conversationId /\ v.item = old.item
      /\ v.isNewConversation = old.isNewConversation
  BY <1>2, MessageTypes DEF WindowType
<1>4. old.pendingAiMessage = old.answer /\ old.answer \in Texts
  BY <1>1 DEF OnMessageEnded, WindowOk, WindowType
<1>5. PICK w : w = RequestOver(v)
  OBVIOUS
<1>6. /\ WindowOk(w) /\ w.conversationId = old.conversationId /\ w.item = old.item
      /\ w.isNewConversation = old.isNewConversation
  BY <1>3, <1>5, OverOk
<1>7. /\ windows' = [windows EXCEPT ![key] = w] /\ windows[key].open
      /\ replies' = replies \cup {old.answer}
      /\ UNCHANGED <<rows, items, given, moves, sent, starts, refused, deleted>>
  BY <1>1, <1>2, <1>5 DEF OnMessageEnded
<1>8. ReplyTypes' /\ replies \subseteq replies'
  BY <1>4, <1>7 DEF IInv, ReplyTypes
<1>9. messages' \in [Conversations -> Seq(Shown)] /\ RepliesAreWhole'
  <2>1. CASE old.pendingAiMessage = <<>>
    <3>1. UNCHANGED messages
      BY <1>1, <2>1 DEF OnMessageEnded
    <3>2. QED
      BY <1>8, <3>1 DEF IInv, TableTypes, RepliesAreWhole
  <2>2. CASE old.pendingAiMessage # <<>>
    <3>1. messages' = Saved(old.conversationId, Message("ai", old.answer))
      BY <1>1, <1>4, <2>2 DEF OnMessageEnded
    <3>2. /\ Message("ai", old.answer) \in Shown
          /\ Message("ai", old.answer).text \in replies'
      BY <1>4, <1>7, MessageTypes
    <3>3. QED
      BY <1>8, <3>1, <3>2, SavedKeeps DEF IInv
  <2>3. QED
    BY <2>1, <2>2
<1>10. sent' \in 0..MaxSends /\ refused' \subseteq Sends
  BY <1>7 DEF IInv, CountTypes
<1>11. QED
  BY <1>1, <1>6, <1>7, <1>8, <1>9, <1>10, WindowStep

(* What the socket does with a message leaves the rest of the window.      *)
LEMMA SocketKeeps ==
  ASSUME NEW v, WindowOk(v), NEW n \in Sends
  PROVE  /\ WindowOk(SocketSends(v, n))
         /\ SocketSends(v, n).conversationId = v.conversationId
         /\ SocketSends(v, n).item = v.item
         /\ SocketSends(v, n).isNewConversation = v.isNewConversation
<1>1. v \in WindowType /\ n \in 0..MaxSends
  BY DEF WindowOk, Sends
<1>2. CASE v.isProcessing
  BY <1>2 DEF SocketSends
<1>3. CASE ~v.isProcessing /\ v.socket # "open"
  BY <1>1, <1>3 DEF SocketSends, WindowOk, WindowType
<1>4. CASE ~v.isProcessing /\ v.socket = "open"
  BY <1>1, <1>4, MessageTypes DEF SocketSends, WindowOk, WindowType
<1>5. QED
  BY <1>2, <1>3, <1>4

LEMMA SendKeeps == ASSUME NEW key \in Ids PROVE IInv /\ OnSendMessage(key) => IInv'
<1> SUFFICES ASSUME IInv, OnSendMessage(key) PROVE IInv'
  OBVIOUS
<1>1. PICK old \in WindowType : old = windows[key] /\ WindowOk(old)
  BY OldWindow
<1>2. PICK n \in Sends : n = sent + 1
  BY BoundsAssumption DEF IInv, CountTypes, OnSendMessage, Sends
<1>3. PICK v : v = [old EXCEPT !.shown = Append(old.shown, UserMessage(n)),
                               !.firstUserMessage = IF old.isNewConversation THEN n ELSE @,
                               !.mixed = old.mixed \/ old.server = "replying"]
  OBVIOUS
<1>4. PICK w : w = SocketSends(v, n)
  OBVIOUS
<1>5. Append(old.shown, UserMessage(n)) \in Seq(Shown) /\ n \in 0..MaxSends
  BY <1>1, MessageTypes, AppendProperties DEF WindowType, Sends
<1>6. /\ v \in WindowType /\ v.conversationId = old.conversationId /\ v.item = old.item
      /\ v.isNewConversation = old.isNewConversation /\ v.server = old.server
      /\ v.isProcessing = old.isProcessing
      /\ v.pendingAiMessage = old.pendingAiMessage /\ v.answer = old.answer
  BY <1>1, <1>3, <1>5 DEF WindowType
<1>7. WindowOk(v)
  BY <1>1, <1>6 DEF WindowOk
<1>8. /\ WindowOk(w) /\ w.conversationId = old.conversationId /\ w.item = old.item
      /\ w.isNewConversation = old.isNewConversation
  BY <1>4, <1>6, <1>7, SocketKeeps
<1>9. /\ windows' = [windows EXCEPT ![key] = w] /\ windows[key].open
      /\ sent' = n /\ UNCHANGED <<rows, items, given, moves, starts, replies, deleted>>
  BY <1>1, <1>2, <1>3, <1>4 DEF OnSendMessage
<1>10. refused' \subseteq Sends
  BY <1>2 DEF IInv, CountTypes, OnSendMessage
<1>11. messages' \in [Conversations -> Seq(Shown)] /\ RepliesAreWhole'
  <2>1. CASE UNCHANGED messages
    BY <1>9, <2>1 DEF IInv, TableTypes, RepliesAreWhole
  <2>2. CASE messages' = Saved(old.conversationId, UserMessage(n))
    BY <1>9, <2>2, MessageTypes, SavedKeeps DEF IInv
  <2>3. QED
    BY <1>1, <1>2, <2>1, <2>2 DEF OnSendMessage
<1>12. ReplyTypes' /\ sent' \in 0..MaxSends
  BY <1>5, <1>9 DEF IInv, ReplyTypes
<1>13. QED
  BY <1>1, <1>8, <1>9, <1>10, <1>11, <1>12, WindowStep

-----------------------------------------------------------------------------
(* A window in which the reply begins.                                     *)
LEMMA AnsweringOk ==
  ASSUME NEW v \in WindowType, v.isProcessing, v.answer = <<>>, NEW id \in Ids
  PROVE  /\ WindowOk(Answering(v, id))
         /\ Answering(v, id).conversationId = id
         /\ Answering(v, id).item = v.item /\ Answering(v, id).open = v.open
         /\ Answering(v, id).isNewConversation = v.isNewConversation
<1>1. Append(v.shown, Message("ai", <<>>)) \in Seq(Shown)
  BY MessageTypes, AppendProperties DEF WindowType
<1>2. Answering(v, id) \in WindowType
  BY <1>1, MessageTypes DEF Answering, WindowType
<1>3. /\ Answering(v, id).server = "replying" /\ Answering(v, id).isProcessing
      /\ Answering(v, id).pendingAiMessage = Answering(v, id).answer
  BY DEF Answering, WindowType
<1>4. QED
  BY <1>2, <1>3 DEF Answering, WindowOk, WindowType

(* The server names a new conversation.                                    *)
LEMMA CreateKeeps ==
  ASSUME IInv, NEW id \in Conversations, NEW old \in WindowType, WindowOk(old),
         windows[NoConversation] = old, old.open, old.server = "asked",
         WindowFits(NoConversation, old, items),
         CreateConversation(old, id), given' = given \cup {id},
         UNCHANGED <<moves, sent, starts, history>>
  PROVE  IInv'
<1>1. PICK title : title = IF old.firstUserMessage = 0 THEN NewTitle ELSE old.firstUserMessage
  OBVIOUS
<1>2. PICK v : v = [old EXCEPT !.isNewConversation = FALSE, !.firstUserMessage = 0]
  OBVIOUS
<1>3. PICK w : w = Answering(v, id)
  OBVIOUS
<1>4. title \in Titles /\ id \in Ids /\ NoConversation \in Ids /\ id # NoConversation
  BY <1>1, TitleTypes, IdAssumption DEF WindowType, Sends, Ids
<1>5. /\ v \in WindowType /\ v.isProcessing /\ v.answer = <<>> /\ ~v.isNewConversation
      /\ v.open = old.open
  <2>1. old.isProcessing /\ old.answer = <<>> /\ old.open
    BY DEF WindowOk
  <2>2. v \in WindowType
    <3>1. 0 \in 0..MaxSends
      BY BoundsAssumption
    <3>2. PICK named \in WindowType : named = [old EXCEPT !.isNewConversation = FALSE]
      BY DEF WindowType
    <3>3. v = [named EXCEPT !.firstUserMessage = 0]
      BY <1>2, <3>2 DEF WindowType
    <3>4. QED
      BY <3>1, <3>2, <3>3 DEF WindowType
  <2>3. v.isProcessing /\ v.answer = <<>> /\ v.open
    BY <1>2, <2>1 DEF WindowType
  <2>4. ~v.isNewConversation
    BY <1>2 DEF WindowType
  <2>5. QED
    BY <2>1, <2>2, <2>3, <2>4
<1>6. WindowOk(w) /\ w.conversationId = id /\ ~w.isNewConversation
  BY <1>3, <1>4, <1>5, AnsweringOk
<1>7. /\ rows' = [rows EXCEPT ![id] = title]
      /\ messages' = IF old.firstUserMessage = 0 THEN messages
                     ELSE Saved(id, UserMessage(old.firstUserMessage))
      /\ items' = [items EXCEPT ![old.item] = Item(id, title)]
      /\ windows' = [windows EXCEPT ![NoConversation] = NoWindow, ![id] = w]
  BY <1>1, <1>2, <1>3 DEF CreateConversation
<1>8. old.item \in 1..Len(items)
  BY DEF WindowFits
<1>9. /\ ItemTypes' /\ Len(items') = Len(items)
      /\ \A i \in 1..Len(items) : i # old.item => items'[i] = items[i]
  <2>1. Item(id, title) \in ItemType
    BY <1>4 DEF Item, ItemType
  <2>2. QED
    BY <1>7, <1>8, <2>1, ExceptSeq DEF IInv, ItemTypes
<1>10. /\ WindowsOk' /\ windows'[NoConversation] = NoWindow /\ windows'[id] = w
       /\ \A key \in Ids \ {NoConversation, id} : windows'[key] = windows[key]
  <2>1. w \in WindowType /\ NoWindow \in WindowType /\ WindowOk(NoWindow)
    BY <1>6, NewWindows DEF WindowOk
  <2>2. /\ windows' \in [Ids -> WindowType]
        /\ windows'[NoConversation] = NoWindow /\ windows'[id] = w
        /\ \A key \in Ids \ {NoConversation, id} : windows'[key] = windows[key]
    BY <1>4, <1>7, <2>1 DEF IInv, WindowsOk
  <2>3. ASSUME NEW key \in Ids PROVE WindowOk(windows'[key])
    BY <1>6, <2>1, <2>2 DEF IInv, WindowsOk
  <2>4. QED
    BY <2>2, <2>3 DEF WindowsOk
<1>11. WindowsFit'
  <2>1. ASSUME NEW key \in Ids, windows'[key].open PROVE WindowFits(key, windows[key], items)'
    <3>1. CASE key = id
      BY <1>4, <1>6, <1>10, <3>1 DEF WindowFits
    <3>2. CASE key = NoConversation
      BY <1>10, <2>1, <3>2, NewWindows
    <3>3. CASE key \notin {id, NoConversation}
      BY <1>10, <2>1, <3>3 DEF IInv, WindowsFit, WindowFits
    <3>4. QED
      BY <3>1, <3>2, <3>3
  <2>2. QED
    BY <2>1 DEF WindowsFit
<1>12. messages' \in [Conversations -> Seq(Shown)] /\ RepliesAreWhole'
  <2>1. UNCHANGED replies
    BY DEF history
  <2>2. CASE old.firstUserMessage = 0
    BY <1>7, <2>1, <2>2 DEF IInv, TableTypes, RepliesAreWhole
  <2>3. CASE old.firstUserMessage # 0
    <3>1. old.firstUserMessage \in Sends
      BY <2>3, BoundsAssumption DEF WindowType, Sends
    <3>2. UserMessage(old.firstUserMessage) \in Shown /\ UserMessage(old.firstUserMessage).role = "user"
      BY <3>1, MessageTypes
    <3>3. QED
      BY <1>7, <2>1, <2>3, <3>2, SavedKeeps DEF IInv
  <2>4. QED
    BY <2>2, <2>3
<1>13. TableTypes'
  BY <1>4, <1>7, <1>12 DEF IInv, TableTypes
<1>14. CountTypes' /\ ReplyTypes'
  BY DEF IInv, CountTypes, ReplyTypes, history
<1>15. QED
  BY <1>9, <1>10, <1>11, <1>12, <1>13, <1>14 DEF IInv

LEMMA StartedKeeps ==
  ASSUME NEW key \in Ids, NEW id \in Conversations
  PROVE  IInv /\ OnConversationStarted(key, id) => IInv'
<1> SUFFICES ASSUME IInv, OnConversationStarted(key, id) PROVE IInv'
  OBVIOUS
<1>1. PICK old \in WindowType : old = windows[key] /\ WindowOk(old)
  BY OldWindow
<1>2. /\ old.open /\ old.server = "asked" /\ given' = given \cup {id}
      /\ UNCHANGED <<moves, sent, starts, history>>
  BY <1>1 DEF OnConversationStarted
<1>3. WindowFits(key, old, items)
  BY <1>1, <1>2 DEF IInv, WindowsFit
<1>4. CASE old.isNewConversation
  <2>1. key = NoConversation
    BY <1>3, <1>4 DEF WindowFits
  <2>2. CreateConversation(old, id)
    BY <1>1, <1>4 DEF OnConversationStarted
  <2>3. QED
    BY <1>1, <1>2, <1>3, <2>1, <2>2, CreateKeeps
<1>5. CASE ~old.isNewConversation
  <2>1. PICK w : w = Answering(old, id)
    OBVIOUS
  <2>2. /\ id = old.conversationId \/ moves
        /\ windows' = [windows EXCEPT ![key] = w]
        /\ UNCHANGED <<tables, items>>
    BY <1>1, <1>5, <2>1 DEF OnConversationStarted
  <2>3. WindowOk(w) /\ w.conversationId = id /\ ~w.isNewConversation
    <3>1. id \in Ids
      BY DEF Ids
    <3>2. old.isProcessing /\ old.answer = <<>>
      BY <1>1, <1>2 DEF WindowOk
    <3>3. QED
      BY <1>1, <1>5, <2>1, <3>1, <3>2, AnsweringOk
  <2>4. key # NoConversation
    BY <1>3, <1>5 DEF WindowFits
  <2>5. /\ WindowsOk' /\ windows'[key] = w
        /\ \A other \in Ids \ {key} : windows'[other] = windows[other]
    BY <2>2, <2>3, PutWindow DEF IInv
  <2>6. WindowsFit'
    <3>1. ASSUME NEW other \in Ids, windows'[other].open
          PROVE  WindowFits(other, windows[other], items)'
      <4>1. CASE other = key
        BY <1>2, <1>3, <2>2, <2>3, <2>4, <2>5, <4>1 DEF WindowFits
      <4>2. CASE other # key
        BY <1>2, <2>2, <2>5, <3>1, <4>2 DEF IInv, WindowsFit, WindowFits
      <4>3. QED
        BY <4>1, <4>2
    <3>2. QED
      BY <3>1 DEF WindowsFit
  <2>7. TableTypes' /\ ItemTypes' /\ CountTypes' /\ ReplyTypes' /\ RepliesAreWhole'
    BY <1>2, <2>2 DEF IInv, TableTypes, ItemTypes, CountTypes, ReplyTypes, RepliesAreWhole,
                      tables, history
  <2>8. QED
    BY <2>5, <2>6, <2>7 DEF IInv
<1>6. QED
  BY <1>1, <1>4, <1>5 DEF WindowType

-----------------------------------------------------------------------------
(* A new start of the program lists the rows.                              *)
LEMMA RestartKeeps == IInv /\ Restart => IInv'
<1> SUFFICES ASSUME IInv, Restart PROVE IInv'
  OBVIOUS
<1>1. Cardinality(Stored) \in Nat /\ Stored \subseteq Conversations
  BY IdAssumption, FS_Subset, FS_CardinalityType DEF Stored
<1>2. ASSUME NEW c \in Stored PROVE Item(c, rows[c]) \in ItemType
  BY <1>1 DEF IInv, TableTypes, Stored, Item, ItemType, Ids
<1>3. PICK order \in [1..Cardinality(Stored) -> Stored] :
        items' = [i \in 1..Cardinality(Stored) |-> Item(order[i], rows[order[i]])]
  BY DEF Restart
<1>4. \A i \in 1..Cardinality(Stored) : Item(order[i], rows[order[i]]) \in ItemType
  BY <1>2
<1>5. items' \in [1..Cardinality(Stored) -> ItemType]
  BY <1>3, <1>4
<1>6. ItemTypes'
  BY <1>1, <1>5, SeqDef DEF ItemTypes
<1>7. windows' = [id \in Ids |-> NoWindow]
  BY DEF Restart
<1>8. NoWindow \in WindowType /\ WindowOk(NoWindow) /\ ~NoWindow.open
  BY NewWindows DEF WindowOk
<1>9. WindowsOk' /\ WindowsFit'
  <2>1. windows' \in [Ids -> WindowType] /\ \A id \in Ids : windows'[id] = NoWindow
    BY <1>7, <1>8
  <2>2. \A id \in Ids : WindowOk(windows'[id]) /\ ~windows'[id].open
    BY <1>8, <2>1
  <2>3. QED
    BY <2>1, <2>2 DEF WindowsOk, WindowsFit
<1>10. /\ UNCHANGED <<tables, given, moves, sent, history>> /\ starts' \in Nat
  BY DEF IInv, CountTypes, Restart
<1>11. QED
  BY <1>6, <1>9, <1>10 DEF IInv, TableTypes, CountTypes, ReplyTypes, RepliesAreWhole,
                           tables, history

LEMMA InitHolds == Init => IInv
<1> SUFFICES ASSUME Init PROVE IInv
  OBVIOUS
<1>1. TableTypes /\ ItemTypes /\ ReplyTypes /\ RepliesAreWhole
  BY DEF Init, TableTypes, ItemTypes, ReplyTypes, RepliesAreWhole
<1>2. CountTypes
  BY BoundsAssumption DEF Init, CountTypes
<1>3. NoWindow \in WindowType /\ WindowOk(NoWindow) /\ ~NoWindow.open
  BY NewWindows DEF WindowOk
<1>4. windows \in [Ids -> WindowType] /\ \A id \in Ids : windows[id] = NoWindow
  BY <1>3 DEF Init
<1>5. \A id \in Ids : WindowOk(windows[id]) /\ ~windows[id].open
  BY <1>3, <1>4
<1>6. WindowsOk /\ WindowsFit
  BY <1>4, <1>5 DEF WindowsOk, WindowsFit
<1>7. QED
  BY <1>1, <1>2, <1>6 DEF IInv

LEMMA NextHolds == IInv /\ [Next]_vars => IInv'
<1> SUFFICES ASSUME IInv, [Next]_vars PROVE IInv'
  OBVIOUS
<1>1. CASE NewItem
  BY <1>1, NewItemKeeps
<1>2. ASSUME NEW i \in 1..Len(items), ListEvent(i) PROVE IInv'
  BY <1>2, ClickKeeps, RenameKeeps, DeleteKeeps DEF ListEvent
<1>3. ASSUME NEW id \in Ids, WindowEvent(id) PROVE IInv'
  <2>1. CASE OnConnected(id) \/ OnDisconnected(id)
    BY <2>1, ConnectedKeeps, DisconnectedKeeps
  <2>2. CASE OnSendMessage(id)
    BY <2>2, SendKeeps
  <2>3. CASE ServerAnswers(id)
    BY <2>3, StartedKeeps, ContentKeeps, EndedKeeps, ErrorKeeps DEF ServerAnswers
  <2>4. QED
    BY <1>3, <2>1, <2>2, <2>3 DEF WindowEvent
<1>4. CASE Restart
  BY <1>4, RestartKeeps
<1>5. CASE UNCHANGED vars
  BY <1>5 DEF vars, IInv, TableTypes, ItemTypes, CountTypes, ReplyTypes, WindowsOk, WindowOk,
              WindowsFit, WindowFits, RepliesAreWhole
<1>6. QED
  BY <1>1, <1>2, <1>3, <1>4, <1>5 DEF Next

(* The inductive invariant of AiChat.                                      *)
THEOREM Invariance == Spec => []IInv
<1>1. QED
  BY InitHolds, NextHolds, PTL DEF Spec

-----------------------------------------------------------------------------
(* Every variable has its type.                                            *)
THEOREM TypeCorrect == Spec => []TypeOK
<1>1. QED
  BY Invariance, IInvImplies, PTL

(* Whatever broke off before, a reply in ai_messages is a whole one that   *)
(* the server completed.                                                   *)
THEOREM SavedRepliesAreWhole == Spec => []RepliesAreWhole
<1>1. QED
  BY Invariance, IInvImplies, PTL

(* A window never has two requests with the server.                        *)
THEOREM RequestsAreApart == Spec => []OneRequestAtATime
<1>1. QED
  BY Invariance, IInvImplies, PTL

(* Each window is filed under its own conversation, and the one without an *)
(* id names an item without an id.                                         *)
THEOREM WindowsAreFiled == Spec => []WindowIsConversations
<1>1. QED
  BY Invariance, IInvImplies, PTL

(* Requests and windows are kept apart and only whole replies are saved,   *)
(* whatever breaks off.                                                    *)
THEOREM RequestsStaySound == Spec => []RequestsAreSound
<1>1. TypeOK /\ RepliesAreWhole /\ OneRequestAtATime /\ WindowIsConversations => RequestsAreSound
  BY DEF RequestsAreSound
<1>2. QED
  BY <1>1, TypeCorrect, SavedRepliesAreWhole, RequestsAreApart, WindowsAreFiled, PTL

-----------------------------------------------------------------------------
(* What is listed, as long as the server moves no conversation.  An id     *)
(* that was not given stands nowhere; one that was, and was not deleted,   *)
(* has a row and one item, under the title of the row.                     *)
Fresh(c) ==
  /\ rows[c] = NoRow /\ messages[c] = <<>> /\ ~windows[c].open
  /\ \A i \in 1..Len(items) : items[i].conversationId # c
OneItem(c) ==
  /\ rows[c] # NoRow
  /\ \E k \in 1..Len(items) :
       /\ items[k].conversationId = c /\ items[k].title = rows[c]
       /\ \A i \in 1..Len(items) : items[i].conversationId = c => i = k
Listed(c) == IF c \in given THEN c \notin deleted => OneItem(c) ELSE Fresh(c)
ListInv   == ~moves => \A c \in Conversations : Listed(c)

LEMMA ListInvImplies == IInv /\ ListInv => HistoryIsListed
<1> SUFFICES ASSUME IInv, ListInv, NEW c \in Conversations,
                    messages[c] # <<>>, c \notin deleted, ~moves
             PROVE  /\ rows[c] # NoRow
                    /\ Cardinality({i \in 1..Len(items) : items[i].conversationId = c}) = 1
                    /\ \A i \in 1..Len(items) : items[i].conversationId = c => items[i].title = rows[c]
  BY DEF HistoryIsListed
<1>1. OneItem(c)
  BY DEF ListInv, Listed, Fresh
<1>2. PICK k \in 1..Len(items) :
        /\ items[k].conversationId = c /\ items[k].title = rows[c]
        /\ \A i \in 1..Len(items) : items[i].conversationId = c => i = k
  BY <1>1 DEF OneItem
<1>3. {i \in 1..Len(items) : items[i].conversationId = c} = {k}
  BY <1>2
<1>4. Cardinality({k}) = 1
  BY FS_Singleton
<1>5. QED
  BY <1>1, <1>2, <1>3, <1>4 DEF OneItem

(* A step that leaves the list alone and no new id comes into use.         *)
LEMMA ListFrame ==
  ASSUME ListInv, UNCHANGED <<rows, items, given, deleted, moves>>,
         \A c \in Conversations \ given :
           ~moves => messages'[c] = messages[c] /\ (windows'[c].open => windows[c].open)
  PROVE  ListInv'
BY DEF ListInv, Listed, Fresh, OneItem

LEMMA NewItemListed == IInv /\ ListInv /\ NewItem => ListInv'
<1> SUFFICES ASSUME IInv, ListInv, NewItem, ~moves, NEW c \in Conversations PROVE Listed(c)'
  BY DEF ListInv, NewItem
<1>1. /\ items \in Seq(ItemType) /\ Item(NoConversation, NewTitle) \in ItemType
      /\ Item(NoConversation, NewTitle).conversationId # c
  BY TitleTypes, IdAssumption DEF IInv, ItemTypes, Item, ItemType, Ids
<1>2. items' = Append(items, Item(NoConversation, NewTitle)) /\ Len(items) \in Nat
  BY <1>1, LenProperties DEF NewItem
<1>3. /\ \A i \in 1..Len(items) : i \in 1..Len(items') /\ items'[i] = items[i]
      /\ \A i \in 1..Len(items') : items'[i].conversationId = c => i \in 1..Len(items)
  BY <1>1, <1>2, AppendProperties
<1>4. Listed(c) /\ UNCHANGED <<rows, messages, windows, given, deleted>>
  BY DEF ListInv, NewItem, tables, history
<1>5. CASE c \in given
  BY <1>3, <1>4, <1>5 DEF Listed, OneItem
<1>6. CASE c \notin given
  BY <1>3, <1>4, <1>6 DEF Listed, Fresh
<1>7. QED
  BY <1>5, <1>6

(* An item of the list has no id or one that was given.                    *)
LEMMA ItemGiven ==
  ASSUME IInv, ListInv, ~moves, NEW i \in 1..Len(items), items[i].conversationId # NoConversation
  PROVE  items[i].conversationId \in given
BY ItemOfList DEF ListInv, Listed, Fresh, Ids

LEMMA ClickListed ==
  ASSUME NEW i \in 1..Len(items) PROVE IInv /\ ListInv /\ OnChatItemClicked(i) => ListInv'
<1> SUFFICES ASSUME IInv, ListInv, OnChatItemClicked(i) PROVE ListInv'
  OBVIOUS
<1>1. UNCHANGED <<rows, messages, items, given, deleted, moves>>
  BY DEF OnChatItemClicked, tables, history
<1>2. ASSUME NEW c \in Conversations \ given, ~moves PROVE windows'[c] = windows[c]
  <2>1. items[i].conversationId # c
    BY <1>2 DEF ListInv, Listed, Fresh
  <2>2. c \in Ids /\ windows \in [Ids -> WindowType]
    BY DEF IInv, WindowsOk, Ids
  <2>3. QED
    BY <2>1, <2>2 DEF OnChatItemClicked
<1>3. QED
  BY <1>1, <1>2, ListFrame

LEMMA RenameListed ==
  ASSUME NEW i \in 1..Len(items) PROVE IInv /\ ListInv /\ OnChatItemRenamed(i) => ListInv'
<1> SUFFICES ASSUME IInv, ListInv, OnChatItemRenamed(i), ~moves, NEW c \in Conversations
             PROVE  Listed(c)'
  BY DEF ListInv, OnChatItemRenamed
<1>1. items \in Seq(ItemType) /\ items[i] \in ItemType
  BY ElementOfSeq DEF IInv, ItemTypes
<1>2. [items[i] EXCEPT !.title = Renamed] \in ItemType
  BY <1>1, TitleTypes DEF ItemType
<1>3. items' = [items EXCEPT ![i] = [items[i] EXCEPT !.title = Renamed]]
  BY DEF OnChatItemRenamed
<1>4. /\ Len(items') = Len(items)
      /\ \A j \in 1..Len(items) : items'[j].conversationId = items[j].conversationId
      /\ \A j \in 1..Len(items) : j # i => items'[j].title = items[j].title
      /\ items'[i].title = Renamed
  BY <1>1, <1>2, <1>3, ExceptSeq DEF ItemType
<1>5. Listed(c) /\ UNCHANGED <<messages, windows, given, deleted>>
  BY DEF ListInv, OnChatItemRenamed, history
<1>6. rows'[c] = IF c = items[i].conversationId /\ rows[c] # NoRow THEN Renamed ELSE rows[c]
  BY DEF OnChatItemRenamed
<1>7. CASE c \in given
  BY <1>4, <1>5, <1>6, <1>7, TitleTypes DEF Listed, OneItem
<1>8. CASE c \notin given
  BY <1>4, <1>5, <1>6, <1>8 DEF Listed, Fresh
<1>9. QED
  BY <1>7, <1>8

LEMMA DeleteListed ==
  ASSUME NEW i \in 1..Len(items) PROVE IInv /\ ListInv /\ OnChatItemDeleted(i) => ListInv'
<1> SUFFICES ASSUME IInv, ListInv, OnChatItemDeleted(i), ~moves, NEW c \in Conversations
             PROVE  Listed(c)'
  BY DEF ListInv, OnChatItemDeleted
<1>1. PICK id \in Ids : id = items[i].conversationId
  BY ItemOfList
<1>2. /\ windows' = [windows EXCEPT ![id] = NoWindow]
      /\ deleted' = deleted \cup ({id} \ {NoConversation})
      /\ rows'[c] = IF c = id THEN NoRow ELSE rows[c]
      /\ UNCHANGED <<messages, items, given>>
  BY <1>1 DEF OnChatItemDeleted
<1>3. Listed(c) /\ c \in Ids /\ c # NoConversation /\ windows \in [Ids -> WindowType]
  BY IdAssumption DEF ListInv, IInv, WindowsOk, Ids
<1>4. CASE c \in given
  BY <1>2, <1>3, <1>4 DEF Listed, OneItem
<1>5. CASE c \notin given
  <2>1. c # id
    BY <1>1, <1>3, <1>5 DEF Listed, Fresh
  <2>2. QED
    BY <1>2, <1>3, <1>5, <2>1 DEF Listed, Fresh
<1>6. QED
  BY <1>4, <1>5

(* A window with an id is that of a given conversation.                    *)
LEMMA WindowGiven ==
  ASSUME IInv, ListInv, ~moves, NEW c \in Conversations, windows[c].open
  PROVE  c \in given /\ windows[c].conversationId = c /\ ~windows[c].isNewConversation
<1>1. c \in Ids /\ c # NoConversation
  BY IdAssumption DEF Ids
<1>2. QED
  BY <1>1 DEF ListInv, Listed, Fresh, IInv, WindowsFit, WindowFits

(* A step of a window that is there and keeps the tables of the list.      *)
LEMMA WindowListed ==
  ASSUME IInv, ListInv, NEW key \in Ids, windows[key].open, NEW w,
         windows' = [windows EXCEPT ![key] = w],
         UNCHANGED <<rows, items, given, deleted, moves>>,
         \A c \in Conversations \ given : ~moves => messages'[c] = messages[c]
  PROVE  ListInv'
<1>1. ASSUME NEW c \in Conversations \ given, ~moves PROVE windows'[c] = windows[c]
  <2>1. c # key
    BY <1>1 DEF ListInv, Listed, Fresh
  <2>2. c \in Ids /\ windows \in [Ids -> WindowType]
    BY DEF IInv, WindowsOk, Ids
  <2>3. QED
    BY <2>1, <2>2
<1>2. QED
  BY <1>1, ListFrame

LEMMA SendListed ==
  ASSUME NEW key \in Ids PROVE IInv /\ ListInv /\ OnSendMessage(key) => ListInv'
<1> SUFFICES ASSUME IInv, ListInv, OnSendMessage(key) PROVE ListInv'
  OBVIOUS
<1>1. /\ windows[key].open /\ UNCHANGED <<rows, items, given, deleted, moves>>
      /\ \E w : windows' = [windows EXCEPT ![key] = w]
      /\ \/ UNCHANGED messages
         \/ /\ ~windows[key].isNewConversation
            /\ messages' = Saved(windows[key].conversationId, UserMessage(sent + 1))
  BY DEF OnSendMessage
<1>2. ASSUME NEW c \in Conversations \ given, ~moves PROVE messages'[c] = messages[c]
  <2>1. CASE UNCHANGED messages
    BY <2>1
  <2>2. CASE /\ ~windows[key].isNewConversation
             /\ messages' = Saved(windows[key].conversationId, UserMessage(sent + 1))
    <3>1. key \in Conversations
      BY <1>1, <2>2 DEF IInv, WindowsFit, WindowFits, Ids
    <3>2. windows[key].conversationId = key /\ c # key
      BY <1>1, <1>2, <3>1, WindowGiven
    <3>3. QED
      BY <2>2, <3>2 DEF Saved
  <2>3. QED
    BY <1>1, <2>1, <2>2
<1>3. QED
  BY <1>1, <1>2, WindowListed

LEMMA EndedListed ==
  ASSUME NEW key \in Ids PROVE IInv /\ ListInv /\ ~(key = NoConversation) /\ OnMessageEnded(key) => ListInv'
<1> SUFFICES ASSUME IInv, ListInv, key # NoConversation, OnMessageEnded(key) PROVE ListInv'
  OBVIOUS
<1>1. /\ windows[key].open /\ UNCHANGED <<rows, items, given, deleted, moves>>
      /\ \E w : windows' = [windows EXCEPT ![key] = w]
      /\ \/ UNCHANGED messages
         \/ messages' = Saved(windows[key].conversationId, Message("ai", windows[key].pendingAiMessage))
  BY DEF OnMessageEnded
<1>2. ASSUME NEW c \in Conversations \ given, ~moves PROVE messages'[c] = messages[c]
  <2>1. key \in Conversations
    BY DEF Ids
  <2>2. windows[key].conversationId = key /\ c # key
    BY <1>1, <1>2, <2>1, WindowGiven
  <2>3. QED
    BY <1>1, <2>2 DEF Saved
<1>3. QED
  BY <1>1, <1>2, WindowListed

LEMMA StartedListed ==
  ASSUME NEW key \in Ids, NEW id \in Conversations
  PROVE  IInv /\ ListInv /\ OnConversationStarted(key, id) => ListInv'
<1> SUFFICES ASSUME IInv, ListInv, OnConversationStarted(key, id), ~moves, NEW c \in Conversations
             PROVE  Listed(c)'
  BY DEF ListInv, OnConversationStarted
<1>1. PICK w \in WindowType : w = windows[key] /\ WindowFits(key, w, items)
  BY OldWindow DEF OnConversationStarted, IInv, WindowsFit
<1>2. /\ w.open /\ given' = given \cup {id} /\ UNCHANGED <<deleted, moves>> /\ Listed(c)
      /\ c \in Ids /\ id \in Ids /\ NoConversation \in Ids /\ c # NoConversation
      /\ windows \in [Ids -> WindowType] /\ messages \in [Conversations -> Seq(Shown)]
  BY <1>1, IdAssumption DEF OnConversationStarted, history, ListInv, IInv, WindowsOk, TableTypes, Ids
<1>3. CASE w.isNewConversation
  <2>1. CreateConversation(w, id) /\ id \notin given /\ key = NoConversation
    BY <1>1, <1>2, <1>3 DEF OnConversationStarted, WindowFits
  <2>2. PICK title : title = IF w.firstUserMessage = 0 THEN NewTitle ELSE w.firstUserMessage
    OBVIOUS
  <2>3. title \in Titles
    BY <2>2, TitleTypes, BoundsAssumption DEF WindowType, Sends
  <2>4. /\ rows' = [rows EXCEPT ![id] = title]
        /\ items' = [items EXCEPT ![w.item] = Item(id, title)]
        /\ c # id => messages'[c] = messages[c]
        /\ c # id => windows'[c] = windows[c]
    BY <1>2, <2>1, <2>2 DEF CreateConversation, Saved
  <2>5. w.item \in 1..Len(items) /\ items[w.item].conversationId = NoConversation
    BY <1>1, <2>1 DEF WindowFits
  <2>6. /\ Len(items') = Len(items) /\ items'[w.item] = Item(id, title)
        /\ \A i \in 1..Len(items) : i # w.item => items'[i] = items[i]
    <3>1. items \in Seq(ItemType) /\ Item(id, title) \in ItemType
      BY <1>2, <2>3 DEF IInv, ItemTypes, Item, ItemType
    <3>2. QED
      BY <2>4, <2>5, <3>1, ExceptSeq
  <2>7. Item(id, title).conversationId = id /\ Item(id, title).title = title
    BY DEF Item
  <2>8. rows'[c] = IF c = id THEN title ELSE rows[c]
    BY <2>4 DEF IInv, TableTypes
  <2>9. CASE c = id
    <3>1. \A i \in 1..Len(items) : items[i].conversationId # c
      BY <1>2, <2>1, <2>9 DEF Listed, Fresh
    <3>2. \A i \in 1..Len(items') : items'[i].conversationId = c => i = w.item
      BY <2>6, <3>1
    <3>3. OneItem(c)'
      BY <2>3, <2>5, <2>6, <2>7, <2>8, <2>9, <3>2, TitleTypes DEF OneItem
    <3>4. QED
      BY <1>2, <2>9, <3>3 DEF Listed
  <2>10. CASE c # id /\ c \in given
    <3>1. OneItem(c) => OneItem(c)'
      BY <1>2, <2>5, <2>6, <2>7, <2>8, <2>10 DEF OneItem
    <3>2. QED
      BY <1>2, <2>10, <3>1 DEF Listed
  <2>11. CASE c # id /\ c \notin given
    BY <1>2, <2>4, <2>5, <2>6, <2>7, <2>8, <2>11 DEF Listed, Fresh
  <2>12. QED
    BY <2>9, <2>10, <2>11
<1>4. CASE ~w.isNewConversation
  <2>1. /\ id = w.conversationId /\ key \in Conversations
        /\ windows' = [windows EXCEPT ![key] = Answering(w, id)]
        /\ UNCHANGED <<rows, messages, items>>
    BY <1>1, <1>2, <1>4 DEF OnConversationStarted, WindowFits, Ids, tables
  <2>2. key \in given /\ w.conversationId = key
    BY <1>1, <1>2, <2>1, WindowGiven
  <2>3. UNCHANGED given
    BY <1>2, <2>1, <2>2
  <2>4. ListInv'
    BY <1>1, <1>2, <2>1, <2>3, WindowListed
  <2>5. QED
    BY <1>2, <2>4 DEF ListInv
<1>5. QED
  BY <1>3, <1>4 DEF WindowType

(* A new start lists each stored conversation once.                        *)
LEMMA RestartListed == IInv /\ ListInv /\ Restart => ListInv'
<1> SUFFICES ASSUME IInv, ListInv, Restart PROVE ListInv'
  OBVIOUS
<1>0. UNCHANGED <<tables, given, moves, sent, history>>
  BY DEF Restart
<1> SUFFICES ASSUME ~moves, NEW c \in Conversations PROVE Listed(c)'
  BY <1>0 DEF ListInv
<1>1. IsFiniteSet(Stored) /\ Stored \subseteq Conversations
  BY IdAssumption, FS_Subset DEF Stored
<1>2. PICK n \in Nat : n = Cardinality(Stored)
  BY <1>1, FS_CardinalityType
<1>3. PICK order \in [1..n -> Stored] :
        /\ \A d \in Stored : \E i \in 1..n : order[i] = d
        /\ items' = [i \in 1..n |-> Item(order[i], rows[order[i]])]
  <2>1. PICK order \in [1..n -> Stored] :
          /\ \A d \in Stored : \E i \in DOMAIN order : order[i] = d
          /\ items' = [i \in 1..n |-> Item(order[i], rows[order[i]])]
    BY <1>2 DEF Restart
  <2>2. QED
    BY <2>1
<1>4. \A i, j \in 1..n : order[i] = order[j] => i = j
  <2>1. IsFiniteSet(1..n) /\ Cardinality(1..n) = n
    BY FS_Interval, <1>2
  <2>2. order \in Surjection(1..n, Stored)
    BY <1>3 DEF Surjection
  <2>3. order \in Injection(1..n, Stored)
    BY <1>1, <1>2, <2>1, <2>2, FS_SurjSameCardinalityImpliesInj
  <2>4. QED
    BY <2>3 DEF Injection, IsInjective
<1>5. /\ Len(items') = n
      /\ \A i \in 1..n : items'[i].conversationId = order[i] /\ items'[i].title = rows[order[i]]
  BY <1>3 DEF Item
<1>6. Listed(c) /\ UNCHANGED <<rows, messages, given, deleted>>
  BY <1>0 DEF ListInv, tables, history
<1>7. ~windows'[c].open
  BY NewWindows, IdAssumption DEF Restart, Ids
<1>8. CASE c \in given /\ c \notin deleted
  <2>1. rows[c] # NoRow /\ c \in Stored
    BY <1>6, <1>8 DEF Listed, OneItem, Stored
  <2>2. PICK k \in 1..n : order[k] = c
    BY <1>3, <2>1
  <2>3. OneItem(c)'
    BY <1>4, <1>5, <1>6, <2>1, <2>2 DEF OneItem
  <2>4. QED
    BY <1>6, <1>8, <2>3 DEF Listed
<1>9. CASE c \notin given
  <2>1. c \notin Stored
    BY <1>6, <1>9 DEF Listed, Fresh, Stored
  <2>2. \A i \in 1..n : items'[i].conversationId # c
    BY <1>3, <1>5, <2>1
  <2>3. QED
    BY <1>5, <1>6, <1>7, <1>9, <2>2 DEF Listed, Fresh
<1>10. QED
  BY <1>6, <1>8, <1>9 DEF Listed

-----------------------------------------------------------------------------
(* Whether what is shown holds what is saved, once and in order, while     *)
(* both grow.                                                              *)
Whole(shown, saved) == \A i \in 1..Len(saved) : \E k \in 1..Len(shown) : shown[k] = saved[i]
InOrder(shown, saved) ==
  \A i, j \in 1..Len(saved) : \A k, l \in 1..Len(shown) :
    shown[k] = saved[i] /\ shown[l] = saved[j] => (k < l <=> i < j)
Holds(shown, saved) == Whole(shown, saved) /\ InOrder(shown, saved)
NotIn(m, s)         == \A i \in 1..Len(s) : s[i] # m

LEMMA Appended ==
  ASSUME NEW S, NEW s \in Seq(S), NEW m \in S, NEW t, t = Append(s, m)
  PROVE  /\ t \in Seq(S) /\ Len(s) \in Nat /\ Len(t) = Len(s) + 1 /\ t # <<>>
         /\ \A i \in 1..Len(s) : i \in 1..Len(t) /\ t[i] = s[i]
         /\ t[Len(s) + 1] = m
         /\ \A i \in 1..Len(t) : i \in 1..Len(s) \/ i = Len(s) + 1
BY AppendProperties, LenProperties

(* A message that is shown and not saved.                                  *)
LEMMA ShownOnly ==
  ASSUME NEW S, NEW shown \in Seq(S), NEW saved \in Seq(S), NEW m \in S, NEW t,
         t = Append(shown, m), Holds(shown, saved), NotIn(m, saved)
  PROVE  Holds(t, saved)
<1>1. /\ \A i \in 1..Len(shown) : i \in 1..Len(t) /\ t[i] = shown[i]
      /\ \A i \in 1..Len(t) : i \in 1..Len(shown) \/ t[i] = m
  BY Appended
<1>2. Whole(t, saved)
  BY <1>1 DEF Holds, Whole
<1>3. \A i \in 1..Len(saved), k \in 1..Len(t) :
        t[k] = saved[i] => k \in 1..Len(shown) /\ shown[k] = saved[i]
  BY <1>1 DEF NotIn
<1>4. InOrder(t, saved)
  BY <1>3 DEF Holds, InOrder
<1>5. QED
  BY <1>2, <1>4 DEF Holds

(* The last message changes, and is saved neither before nor after.        *)
LEMMA ShownChanges ==
  ASSUME NEW S, NEW shown \in Seq(S), NEW saved \in Seq(S), NEW m \in S, NEW t,
         shown # <<>>, t = [shown EXCEPT ![Len(shown)] = m],
         Holds(shown, saved), NotIn(m, saved), NotIn(shown[Len(shown)], saved)
  PROVE  Holds(t, saved)
<1>1. Len(shown) \in 1..Len(shown)
  BY EmptySeq, LenProperties
<1>2. /\ Len(t) = Len(shown) /\ t[Len(shown)] = m
      /\ \A k \in 1..Len(shown) : k # Len(shown) => t[k] = shown[k]
  BY <1>1, ExceptSeq
<1>3. \A i \in 1..Len(saved), k \in 1..Len(shown) :
        t[k] = saved[i] <=> shown[k] = saved[i]
  BY <1>1, <1>2 DEF NotIn
<1>4. Whole(t, saved)
  BY <1>2, <1>3 DEF Holds, Whole
<1>5. ASSUME NEW i \in 1..Len(saved), NEW j \in 1..Len(saved),
             NEW k \in 1..Len(t), NEW l \in 1..Len(t), t[k] = saved[i], t[l] = saved[j]
      PROVE  k < l <=> i < j
  <2>1. k \in 1..Len(shown) /\ l \in 1..Len(shown)
    BY <1>2
  <2>2. shown[k] = saved[i] /\ shown[l] = saved[j]
    BY <1>3, <1>5, <2>1
  <2>3. QED
    BY <2>1, <2>2 DEF Holds, InOrder
<1>6. QED
  BY <1>4, <1>5 DEF Holds, InOrder

(* The last message that is shown is saved.                                *)
LEMMA LastSaved ==
  ASSUME NEW S, NEW shown \in Seq(S), NEW saved \in Seq(S), NEW m \in S, NEW t,
         t = Append(saved, m), shown # <<>>, Holds(shown, saved), NotIn(m, saved),
         \A k \in 1..Len(shown) : shown[k] = m <=> k = Len(shown)
  PROVE  Holds(shown, t)
<1>1. Len(shown) \in 1..Len(shown) /\ Len(saved) \in Nat
  BY EmptySeq, LenProperties
<1>2. /\ \A i \in 1..Len(saved) : t[i] = saved[i]
      /\ \A i \in 1..Len(t) : i \in 1..Len(saved) \/ (i = Len(saved) + 1 /\ t[i] = m)
  BY Appended
<1>3. Whole(shown, t)
  BY <1>1, <1>2 DEF Holds, Whole
<1>4. ASSUME NEW i \in 1..Len(t), NEW j \in 1..Len(t),
             NEW k \in 1..Len(shown), NEW l \in 1..Len(shown),
             shown[k] = t[i], shown[l] = t[j]
      PROVE  k < l <=> i < j
  <2>1. CASE i \in 1..Len(saved) /\ j \in 1..Len(saved)
    BY <1>2, <1>4, <2>1 DEF Holds, InOrder
  <2>2. CASE i \in 1..Len(saved) /\ j = Len(saved) + 1
    <3>1. shown[k] # m /\ shown[l] = m
      BY <1>2, <1>4, <2>2 DEF NotIn
    <3>2. k # Len(shown) /\ l = Len(shown)
      BY <1>1, <3>1
    <3>3. QED
      BY <1>1, <2>2, <3>2
  <2>3. CASE i = Len(saved) + 1 /\ j \in 1..Len(saved)
    <3>1. shown[k] = m /\ shown[l] # m
      BY <1>2, <1>4, <2>3 DEF NotIn
    <3>2. k = Len(shown) /\ l # Len(shown)
      BY <1>1, <3>1
    <3>3. QED
      BY <1>1, <2>3, <3>2
  <2>4. CASE i = Len(saved) + 1 /\ j = Len(saved) + 1
    <3>1. k = Len(shown) /\ l = Len(shown)
      BY <1>1, <1>2, <1>4, <2>4
    <3>2. QED
      BY <1>1, <2>4, <3>1
  <2>5. QED
    BY <1>2, <2>1, <2>2, <2>3, <2>4
<1>5. QED
  BY <1>3, <1>4 DEF Holds, InOrder

(* A new message is shown and saved.                                       *)
LEMMA BothGrow ==
  ASSUME NEW S, NEW shown \in Seq(S), NEW saved \in Seq(S), NEW m \in S, NEW t, NEW u,
         t = Append(shown, m), u = Append(saved, m),
         Holds(shown, saved), NotIn(m, saved), NotIn(m, shown)
  PROVE  Holds(t, u)
<1>1. Holds(t, saved)
  BY ShownOnly
<1>2. /\ t \in Seq(S) /\ t # <<>> /\ Len(shown) \in Nat /\ Len(t) = Len(shown) + 1
      /\ \A k \in 1..Len(shown) : t[k] = shown[k]
      /\ t[Len(shown) + 1] = m
  BY Appended
<1>3. \A k \in 1..Len(t) : t[k] = m <=> k = Len(t)
  BY <1>2 DEF NotIn
<1>4. QED
  BY <1>1, <1>2, <1>3, LastSaved

(* What is loaded is shown, as no message is saved twice.                  *)
LEMMA LoadedHolds ==
  ASSUME NEW S, NEW saved \in Seq(S), \A i, j \in 1..Len(saved) : saved[i] = saved[j] => i = j
  PROVE  Holds(saved, saved)
BY DEF Holds, Whole, InOrder

-----------------------------------------------------------------------------
(* What is recorded of a conversation and what its window holds, as long   *)
(* as the server moves no conversation.  Each message carries the number   *)
(* of a message sent, by which none is saved twice, and an answer stands   *)
(* behind the question; the reply that is coming in was not saved, and     *)
(* stands last on the screen.                                              *)
Number(m) == m.text[1][1]
Numbered(m, n) == m.text # <<>> /\ Number(m) \in 1..n
AnsweredFrom(saved, i, n, ref) ==
  \/ \E j \in 1..i : saved[j] = UserMessage(n)
  \/ \E m \in ref : i >= 1 /\ saved[1] = UserMessage(m)

Recorded(saved, n, ref) ==
  /\ \A i \in 1..Len(saved) : Numbered(saved[i], n)
  /\ \A i, j \in 1..Len(saved) : saved[i] = saved[j] => i = j
  /\ \A i \in 1..Len(saved) :
       saved[i].role = "ai" => AnsweredFrom(saved, i - 1, Number(saved[i]), ref)

Asks(w, saved, n, ref) ==
  /\ w.answer # <<>> => w.answer[1][1] = w.asked
  /\ w.server # "idle" =>
       /\ w.asked \in 1..n
       /\ \A i \in 1..Len(saved) : saved[i].role = "ai" => Number(saved[i]) # w.asked
       /\ AnsweredFrom(saved, Len(saved), w.asked, ref)

Shows(w, saved, n) ==
  /\ \A k \in 1..Len(w.shown) : w.shown[k].text # <<>> => Numbered(w.shown[k], n)
  /\ Holds(w.shown, saved)
  /\ w.server = "replying" => w.shown # <<>> /\ w.shown[Len(w.shown)] = Message("ai", w.answer)
  /\ w.server # "idle" =>
       \A k \in 1..Len(w.shown) :
         /\ w.shown[k].role = "ai" /\ w.shown[k].text # <<>> /\ Number(w.shown[k]) = w.asked
         => w.server = "replying" /\ k = Len(w.shown)

(* The window of a new conversation: the question that will be saved is    *)
(* the last that was asked.                                                *)
NewShows(w, n, ref) ==
  /\ w.server # "replying"
  /\ \A k \in 1..Len(w.shown) : w.shown[k].role = "user" /\ Numbered(w.shown[k], n)
  /\ w.firstUserMessage # 0 =>
       /\ w.firstUserMessage \in 1..n /\ w.shown # <<>>
       /\ \A k \in 1..Len(w.shown) :
            w.shown[k] = UserMessage(w.firstUserMessage) <=> k = Len(w.shown)
  /\ w.server = "asked" =>
       /\ w.firstUserMessage # 0 /\ w.asked \in 1..n
       /\ w.firstUserMessage = w.asked \/ w.firstUserMessage \in ref

WindowHolds(w, saved, n, ref) ==
  Asks(w, saved, n, ref) /\ (~w.mixed => Shows(w, saved, n))
TablesHold  == \A c \in Conversations : Recorded(messages[c], sent, refused)
WindowsHold == \A c \in Conversations :
                 windows[c].open => WindowHolds(windows[c], messages[c], sent, refused)
NewHolds    == windows[NoConversation].open => NewShows(windows[NoConversation], sent, refused)
MessageInv  == ~moves => TablesHold /\ WindowsHold /\ NewHolds

LEMMA MessageInvImplies == IInv /\ MessageInv => SavedIsShown /\ AnswersFollowQuestions
<1> SUFFICES ASSUME IInv, MessageInv PROVE SavedIsShown /\ AnswersFollowQuestions
  OBVIOUS
<1>1. SavedIsShown
  BY DEF MessageInv, WindowsHold, WindowHolds, Shows, Holds, Whole, InOrder, SavedIsShown
<1>2. AnswersFollowQuestions
  <2> SUFFICES ASSUME NEW c \in Conversations, NEW i \in 1..Len(messages[c]),
                      messages[c][i].role = "ai", ~moves
               PROVE  \/ \E j \in 1..(i - 1) : messages[c][j] = UserMessage(messages[c][i].text[1][1])
                      \/ \E n \in refused : i > 1 /\ messages[c][1] = UserMessage(n)
    BY DEF AnswersFollowQuestions
  <2>1. AnsweredFrom(messages[c], i - 1, Number(messages[c][i]), refused)
    BY DEF MessageInv, TablesHold, Recorded
  <2>2. messages[c] \in Seq(Shown)
    BY DEF IInv, TableTypes
  <2>3. i \in Nat
    BY <2>2, LenProperties
  <2>4. QED
    BY <2>1, <2>3 DEF AnsweredFrom, Number
<1>3. QED
  BY <1>1, <1>2

(* More messages sent and refused change nothing of it.                    *)
LEMMA MoreSent ==
  ASSUME NEW saved \in Seq(Shown), NEW n \in Nat, NEW m \in Nat, n <= m, NEW ref, NEW more, ref \subseteq more
  PROVE  /\ Recorded(saved, n, ref) => Recorded(saved, m, more)
         /\ \A w \in WindowType : WindowHolds(w, saved, n, ref) => WindowHolds(w, saved, m, more)
         /\ \A w \in WindowType : NewShows(w, n, ref) => NewShows(w, m, more)
<1>1. 1..n \subseteq 1..m
  OBVIOUS
<1>2. \A x : Numbered(x, n) => Numbered(x, m)
  BY <1>1 DEF Numbered
<1>3. \A i, x : AnsweredFrom(saved, i, x, ref) => AnsweredFrom(saved, i, x, more)
  BY DEF AnsweredFrom
<1>4. Recorded(saved, n, ref) => Recorded(saved, m, more)
  BY <1>2, <1>3 DEF Recorded
<1>5. \A w : Asks(w, saved, n, ref) => Asks(w, saved, m, more)
  BY <1>1, <1>3 DEF Asks
<1>6. \A w : Shows(w, saved, n) => Shows(w, saved, m)
  BY <1>2 DEF Shows
<1>7. \A w : NewShows(w, n, ref) => NewShows(w, m, more)
  BY <1>1, <1>2 DEF NewShows
<1>8. QED
  BY <1>4, <1>5, <1>6, <1>7 DEF WindowHolds

(* A step in which one window changes, and the table of its conversation.  *)
LEMMA MessageStep ==
  ASSUME IInv, MessageInv, NEW key \in Ids, UNCHANGED moves,
         sent' \in Nat, sent <= sent', refused \subseteq refused',
         ~moves => \A id \in Ids \ {key} : windows'[id].open => windows'[id] = windows[id],
         ~moves => \A c \in Conversations \ {key} : messages'[c] = messages[c],
         ~moves /\ key \in Conversations =>
           /\ Recorded(messages'[key], sent', refused')
           /\ (windows'[key].open => WindowHolds(windows'[key], messages'[key], sent', refused')),
         ~moves /\ key = NoConversation =>
           (windows'[key].open => NewShows(windows'[key], sent', refused'))
  PROVE  MessageInv'
<1> SUFFICES ASSUME ~moves PROVE (TablesHold /\ WindowsHold /\ NewHolds)'
  BY DEF MessageInv
<1>1. sent \in Nat /\ messages \in [Conversations -> Seq(Shown)] /\ windows \in [Ids -> WindowType]
  BY DEF IInv, CountTypes, TableTypes, WindowsOk
<1>2. ASSUME NEW c \in Conversations, c # key
      PROVE  /\ Recorded(messages'[c], sent', refused')
             /\ windows'[c].open => WindowHolds(windows'[c], messages'[c], sent', refused')
  <2>1. c \in Ids /\ messages'[c] = messages[c] /\ messages[c] \in Seq(Shown) /\ windows[c] \in WindowType
    BY <1>1, <1>2 DEF Ids
  <2>2. /\ Recorded(messages[c], sent, refused)
        /\ windows[c].open => WindowHolds(windows[c], messages[c], sent, refused)
    BY DEF MessageInv, TablesHold, WindowsHold
  <2>3. Recorded(messages[c], sent', refused')
    BY <1>1, <2>1, <2>2, MoreSent
  <2>4. ASSUME windows'[c].open PROVE WindowHolds(windows'[c], messages'[c], sent', refused')
    <3>1. windows'[c] = windows[c]
      BY <1>2, <2>1, <2>4
    <3>2. QED
      BY <1>1, <2>1, <2>2, <2>4, <3>1, MoreSent
  <2>5. QED
    BY <2>1, <2>3, <2>4
<1>3. TablesHold' /\ WindowsHold'
  BY <1>2 DEF TablesHold, WindowsHold
<1>4. NewHolds'
  <2>1. CASE key = NoConversation
    BY <2>1 DEF NewHolds
  <2>2. CASE key # NoConversation
    <3>1. NoConversation \in Ids /\ windows[NoConversation] \in WindowType
      BY <1>1 DEF Ids
    <3>2. ASSUME windows'[NoConversation].open
          PROVE  NewShows(windows'[NoConversation], sent', refused')
      <4>1. windows'[NoConversation] = windows[NoConversation]
        BY <2>2, <3>1, <3>2
      <4>2. NewShows(windows[NoConversation], sent, refused)
        BY <3>2, <4>1 DEF MessageInv, NewHolds
      <4>3. <<>> \in Seq(Shown)
        OBVIOUS
      <4>4. QED
        BY <1>1, <3>1, <4>1, <4>2, <4>3, MoreSent
    <3>3. QED
      BY <3>2 DEF NewHolds
  <2>3. QED
    BY <2>1, <2>2
<1>5. QED
  BY <1>3, <1>4

-----------------------------------------------------------------------------
(* Steps that touch neither a table nor what a window shows.               *)
LEMMA QuietHolds ==
  ASSUME NEW v, NEW w, w.shown = v.shown, w.mixed = v.mixed,
         w.firstUserMessage = v.firstUserMessage,
         \/ w.server = v.server /\ w.asked = v.asked /\ w.answer = v.answer
         \/ w.server = "idle" /\ w.answer = <<>>,
         NEW saved, NEW n, NEW ref
  PROVE  /\ WindowHolds(v, saved, n, ref) => WindowHolds(w, saved, n, ref)
         /\ NewShows(v, n, ref) => NewShows(w, n, ref)
BY DEF WindowHolds, Asks, Shows, NewShows

LEMMA QuietStep ==
  ASSUME IInv, MessageInv, NEW key \in Ids, NEW w \in WindowType, windows[key].open,
         windows' = [windows EXCEPT ![key] = w],
         w.shown = windows[key].shown, w.mixed = windows[key].mixed,
         w.firstUserMessage = windows[key].firstUserMessage,
         \/ /\ w.server = windows[key].server /\ w.asked = windows[key].asked
            /\ w.answer = windows[key].answer
         \/ w.server = "idle" /\ w.answer = <<>>,
         UNCHANGED <<messages, sent, refused, moves>>
  PROVE  MessageInv'
<1>1. windows \in [Ids -> WindowType] /\ sent \in Nat
  BY DEF IInv, WindowsOk, CountTypes
<1>2. windows'[key] = w /\ \A id \in Ids \ {key} : windows'[id] = windows[id]
  BY <1>1
<1>3. ASSUME ~moves, key \in Conversations
      PROVE  /\ Recorded(messages[key], sent, refused)
             /\ WindowHolds(w, messages[key], sent, refused)
  <2>1. Recorded(messages[key], sent, refused) /\ WindowHolds(windows[key], messages[key], sent, refused)
    BY <1>3 DEF MessageInv, TablesHold, WindowsHold
  <2>2. QED
    BY <2>1, QuietHolds
<1>4. ASSUME ~moves, key = NoConversation PROVE NewShows(w, sent, refused)
  <2>1. NewShows(windows[key], sent, refused)
    BY <1>4 DEF MessageInv, NewHolds
  <2>2. QED
    BY <2>1, QuietHolds
<1>5. QED
  BY <1>1, <1>2, <1>3, <1>4, MessageStep

LEMMA ConnectedHolds ==
  ASSUME NEW key \in Ids PROVE IInv /\ MessageInv /\ OnConnected(key) => MessageInv'
<1> SUFFICES ASSUME IInv, MessageInv, OnConnected(key) PROVE MessageInv'
  OBVIOUS
<1>1. PICK v \in WindowType : v = windows[key]
  BY OldWindow
<1>2. PICK w : w = [v EXCEPT !.socket = "open"]
  OBVIOUS
<1>3. /\ w \in WindowType /\ w.shown = v.shown /\ w.mixed = v.mixed
      /\ w.firstUserMessage = v.firstUserMessage
      /\ w.server = v.server /\ w.asked = v.asked /\ w.answer = v.answer
  BY <1>2 DEF WindowType
<1>4. /\ windows[key].open /\ windows' = [windows EXCEPT ![key] = w]
      /\ UNCHANGED <<messages, sent, refused, moves>>
  BY <1>1, <1>2 DEF OnConnected, tables, history
<1>5. QED
  BY <1>1, <1>3, <1>4, QuietStep

(* What the end of a request leaves of a window.                           *)
LEMMA OverKeeps ==
  ASSUME NEW v \in WindowType, NEW w, w = RequestOver(v)
  PROVE  /\ w \in WindowType /\ w.shown = v.shown /\ w.mixed = v.mixed
         /\ w.firstUserMessage = v.firstUserMessage /\ w.server = "idle" /\ w.answer = <<>>
<1>1. w \in WindowType
  BY OverOk DEF WindowOk
<1>2. QED
  BY <1>1 DEF RequestOver, WindowType

LEMMA DisconnectedHolds ==
  ASSUME NEW key \in Ids PROVE IInv /\ MessageInv /\ OnDisconnected(key) => MessageInv'
<1> SUFFICES ASSUME IInv, MessageInv, OnDisconnected(key) PROVE MessageInv'
  OBVIOUS
<1>1. PICK old \in WindowType : old = windows[key]
  BY OldWindow
<1>2. PICK v : v = [old EXCEPT !.socket = "closed"]
  OBVIOUS
<1>3. v \in WindowType /\ v.shown = old.shown /\ v.mixed = old.mixed
      /\ v.firstUserMessage = old.firstUserMessage
  BY <1>2 DEF WindowType
<1>4. PICK w : w = RequestOver(v)
  OBVIOUS
<1>5. /\ w \in WindowType /\ w.shown = old.shown /\ w.mixed = old.mixed
      /\ w.firstUserMessage = old.firstUserMessage /\ w.server = "idle" /\ w.answer = <<>>
  BY <1>3, <1>4, OverKeeps
<1>6. /\ windows[key].open /\ windows' = [windows EXCEPT ![key] = w]
      /\ UNCHANGED <<messages, sent, refused, moves>>
  BY <1>1, <1>2, <1>4 DEF OnDisconnected, tables, history
<1>7. QED
  BY <1>1, <1>5, <1>6, QuietStep

LEMMA ErrorHolds ==
  ASSUME NEW key \in Ids PROVE IInv /\ MessageInv /\ OnRequestError(key) => MessageInv'
<1> SUFFICES ASSUME IInv, MessageInv, OnRequestError(key) PROVE MessageInv'
  OBVIOUS
<1>1. PICK v \in WindowType : v = windows[key]
  BY OldWindow
<1>2. PICK w : w = RequestOver(v)
  OBVIOUS
<1>3. /\ w \in WindowType /\ w.shown = v.shown /\ w.mixed = v.mixed
      /\ w.firstUserMessage = v.firstUserMessage /\ w.server = "idle" /\ w.answer = <<>>
  BY <1>2, OverKeeps
<1>4. /\ windows[key].open /\ windows' = [windows EXCEPT ![key] = w]
      /\ UNCHANGED <<messages, sent, refused, moves>>
  BY <1>1, <1>2 DEF OnRequestError, tables, history
<1>5. QED
  BY <1>1, <1>3, <1>4, QuietStep

(* A conversation and its window, apart from the step.                     *)
LEMMA WindowFacts ==
  ASSUME IInv, MessageInv, ~moves, NEW c \in Conversations
  PROVE  /\ c \in Ids /\ messages[c] \in Seq(Shown) /\ sent \in Nat
         /\ Recorded(messages[c], sent, refused)
         /\ windows[c].open =>
              /\ windows[c] \in WindowType /\ WindowOk(windows[c])
              /\ windows[c].conversationId = c /\ ~windows[c].isNewConversation
              /\ WindowHolds(windows[c], messages[c], sent, refused)
<1>1. c \in Ids /\ c # NoConversation
  BY IdAssumption DEF Ids
<1>2. messages[c] \in Seq(Shown) /\ sent \in Nat /\ Recorded(messages[c], sent, refused)
  BY DEF IInv, TableTypes, CountTypes, MessageInv, TablesHold
<1>3. ASSUME windows[c].open
      PROVE  /\ windows[c] \in WindowType /\ WindowOk(windows[c])
             /\ windows[c].conversationId = c /\ ~windows[c].isNewConversation
             /\ WindowHolds(windows[c], messages[c], sent, refused)
  BY <1>1, <1>3, OldWindow DEF IInv, WindowsFit, WindowFits, MessageInv, WindowsHold
<1>4. QED
  BY <1>1, <1>2, <1>3

-----------------------------------------------------------------------------
(* Steps of the list.                                                      *)

LEMMA ClickHolds ==
  ASSUME NEW i \in 1..Len(items) PROVE IInv /\ MessageInv /\ OnChatItemClicked(i) => MessageInv'
<1> SUFFICES ASSUME IInv, MessageInv, OnChatItemClicked(i) PROVE MessageInv'
  OBVIOUS
<1>1. PICK id \in Ids : id = items[i].conversationId
  BY ItemOfList
<1>2. PICK w : w = AiChatWindow(id, i, LoadHistoryMessages(id))
  OBVIOUS
<1>3. /\ windows' = [windows EXCEPT ![id] = w] /\ UNCHANGED <<messages, sent, refused, moves>>
      /\ windows \in [Ids -> WindowType] /\ sent \in Nat
  BY <1>1, <1>2 DEF OnChatItemClicked, tables, history, IInv, WindowsOk, CountTypes
<1>4. windows'[id] = w /\ \A key \in Ids \ {id} : windows'[key] = windows[key]
  BY <1>3
<1>5. /\ w.shown = LoadHistoryMessages(id) /\ w.server = "idle" /\ w.answer = <<>>
      /\ w.firstUserMessage = 0
  BY <1>2 DEF AiChatWindow
<1>6. ASSUME ~moves, id \in Conversations
      PROVE  Recorded(messages[id], sent, refused) /\ WindowHolds(w, messages[id], sent, refused)
  <2>1. messages[id] \in Seq(Shown) /\ Recorded(messages[id], sent, refused)
    BY <1>6, WindowFacts
  <2>2. w.shown = messages[id]
    BY <1>5, <1>6, IdAssumption DEF LoadHistoryMessages
  <2>3. Holds(messages[id], messages[id])
    BY <2>1, LoadedHolds DEF Recorded
  <2>4. Asks(w, messages[id], sent, refused)
    BY <1>5 DEF Asks
  <2>5. Shows(w, messages[id], sent)
    BY <1>5, <2>1, <2>2, <2>3 DEF Shows, Recorded
  <2>6. QED
    BY <2>1, <2>4, <2>5 DEF WindowHolds
<1>7. ASSUME id = NoConversation PROVE NewShows(w, sent, refused)
  BY <1>5, <1>7 DEF NewShows, LoadHistoryMessages
<1>8. QED
  BY <1>3, <1>4, <1>6, <1>7, MessageStep

LEMMA DeleteHolds ==
  ASSUME NEW i \in 1..Len(items) PROVE IInv /\ MessageInv /\ OnChatItemDeleted(i) => MessageInv'
<1> SUFFICES ASSUME IInv, MessageInv, OnChatItemDeleted(i) PROVE MessageInv'
  OBVIOUS
<1>1. PICK id \in Ids : id = items[i].conversationId
  BY ItemOfList
<1>2. /\ windows' = [windows EXCEPT ![id] = NoWindow]
      /\ UNCHANGED <<messages, sent, refused, moves>>
      /\ windows \in [Ids -> WindowType] /\ sent \in Nat
  BY <1>1 DEF OnChatItemDeleted, IInv, WindowsOk, CountTypes
<1>3. windows'[id] = NoWindow /\ \A key \in Ids \ {id} : windows'[key] = windows[key]
  BY <1>2
<1>4. ~windows'[id].open
  BY <1>3, NewWindows
<1>5. ~moves /\ id \in Conversations => Recorded(messages[id], sent, refused)
  BY WindowFacts
<1>6. QED
  BY <1>2, <1>3, <1>4, <1>5, MessageStep

LEMMA RestartHolds == IInv /\ MessageInv /\ Restart => MessageInv'
<1> SUFFICES ASSUME IInv, MessageInv, Restart PROVE MessageInv'
  OBVIOUS
<1>1. UNCHANGED <<tables, given, moves, sent, history>>
  BY DEF Restart
<1>2. \A id \in Ids : windows'[id] = NoWindow
  BY DEF Restart
<1>3. \A id \in Ids : ~windows'[id].open
  BY <1>2, NewWindows
<1>4. UNCHANGED <<messages, sent, refused, moves>>
  BY <1>1 DEF tables, history
<1>5. QED
  BY <1>3, <1>4 DEF MessageInv, TablesHold, WindowsHold, NewHolds, Ids

-----------------------------------------------------------------------------
(* Steps of a conversation.                                                *)
LEMMA ConversationStep ==
  ASSUME IInv, MessageInv, NEW key \in Conversations, NEW w \in WindowType,
         windows' = [windows EXCEPT ![key] = w],
         UNCHANGED moves, sent' \in Nat, sent <= sent', refused \subseteq refused',
         ~moves => \A c \in Conversations \ {key} : messages'[c] = messages[c],
         ~moves => Recorded(messages'[key], sent', refused'),
         ~moves => WindowHolds(w, messages'[key], sent', refused')
  PROVE  MessageInv'
<1>1. key \in Ids /\ key # NoConversation /\ windows \in [Ids -> WindowType]
  BY IdAssumption DEF Ids, IInv, WindowsOk
<1>2. windows'[key] = w /\ \A id \in Ids \ {key} : windows'[id] = windows[id]
  BY <1>1
<1>3. QED
  BY <1>1, <1>2, MessageStep

(* Messages and their numbers.                                             *)
LEMMA NumberOfMessage ==
  /\ \A n : /\ UserMessage(n).text # <<>> /\ Number(UserMessage(n)) = n
            /\ UserMessage(n).role = "user"
  /\ \A text : /\ Message("ai", text).text = text /\ Message("ai", text).role = "ai"
               /\ Number(Message("ai", text)) = text[1][1]
<1>1. ASSUME NEW n
      PROVE  /\ UserMessage(n).text # <<>> /\ Number(UserMessage(n)) = n
             /\ UserMessage(n).role = "user"
  BY DEF UserMessage, Message, Number
<1>2. ASSUME NEW text
      PROVE  /\ Message("ai", text).text = text /\ Message("ai", text).role = "ai"
             /\ Number(Message("ai", text)) = text[1][1]
  BY DEF Message, Number
<1>3. QED
  BY <1>1, <1>2

(* A table that grows by a message of its own.                             *)
LEMMA RecordedGrows ==
  ASSUME NEW saved \in Seq(Shown), NEW m \in Shown, NEW t, t = Append(saved, m),
         NEW n, NEW ref, Recorded(saved, n, ref), Numbered(m, n), NotIn(m, saved),
         m.role = "ai" => AnsweredFrom(saved, Len(saved), Number(m), ref)
  PROVE  /\ Recorded(t, n, ref) /\ t \in Seq(Shown)
         /\ \A x : AnsweredFrom(saved, Len(saved), x, ref) => AnsweredFrom(t, Len(t), x, ref)
<1>1. /\ t \in Seq(Shown) /\ Len(saved) \in Nat /\ Len(t) = Len(saved) + 1
      /\ \A i \in 1..Len(saved) : i \in 1..Len(t) /\ t[i] = saved[i]
      /\ t[Len(saved) + 1] = m
      /\ \A i \in 1..Len(t) : i \in 1..Len(saved) \/ i = Len(saved) + 1
  BY Appended
<1>2. ASSUME NEW i \in 0..Len(saved), NEW x, AnsweredFrom(saved, i, x, ref)
      PROVE  AnsweredFrom(t, i, x, ref)
  <2>1. CASE \E j \in 1..i : saved[j] = UserMessage(x)
    BY <1>1, <2>1 DEF AnsweredFrom
  <2>2. CASE \E k \in ref : i >= 1 /\ saved[1] = UserMessage(k)
    BY <1>1, <2>2 DEF AnsweredFrom
  <2>3. QED
    BY <1>2, <2>1, <2>2 DEF AnsweredFrom
<1>3. ASSUME NEW x, AnsweredFrom(saved, Len(saved), x, ref) PROVE AnsweredFrom(t, Len(t), x, ref)
  <2>1. AnsweredFrom(t, Len(saved), x, ref)
    BY <1>1, <1>2, <1>3
  <2>2. QED
    BY <1>1, <2>1 DEF AnsweredFrom
<1>4. \A i \in 1..Len(t) : Numbered(t[i], n)
  BY <1>1 DEF Recorded
<1>5. \A i, j \in 1..Len(t) : t[i] = t[j] => i = j
  BY <1>1 DEF Recorded, NotIn
<1>6. ASSUME NEW i \in 1..Len(t), t[i].role = "ai"
      PROVE  AnsweredFrom(t, i - 1, Number(t[i]), ref)
  <2>1. i - 1 \in 0..Len(saved)
    BY <1>1
  <2>2. AnsweredFrom(saved, i - 1, Number(t[i]), ref)
    <3>1. CASE i \in 1..Len(saved)
      BY <1>1, <1>6, <3>1 DEF Recorded
    <3>2. CASE i = Len(saved) + 1
      BY <1>1, <1>6, <3>2
    <3>3. QED
      BY <1>1, <3>1, <3>2
  <2>3. QED
    BY <1>2, <2>1, <2>2
<1>7. QED
  BY <1>1, <1>3, <1>4, <1>5, <1>6 DEF Recorded

-----------------------------------------------------------------------------
(* The reply begins.                                                       *)
LEMMA AnsweringHolds ==
  ASSUME NEW v \in WindowType, v.server = "asked", v.answer = <<>>,
         NEW id, NEW w, w = Answering(v, id), NEW saved \in Seq(Shown), NEW n, NEW ref,
         Recorded(saved, n, ref), WindowHolds(v, saved, n, ref)
  PROVE  WindowHolds(w, saved, n, ref)
<1>1. PICK m : m = Message("ai", <<>>)
  OBVIOUS
<1>2. m \in Shown /\ m.text = <<>>
  BY <1>1, MessageTypes
<1>3. /\ w.shown = Append(v.shown, m) /\ w.server = "replying" /\ w.asked = v.asked
      /\ w.answer = <<>> /\ w.mixed = v.mixed
  BY <1>1 DEF Answering, WindowType
<1>4. v.shown \in Seq(Shown)
  BY DEF WindowType
<1>5. /\ Len(v.shown) \in Nat /\ Len(w.shown) = Len(v.shown) + 1 /\ w.shown # <<>>
      /\ \A k \in 1..Len(v.shown) : w.shown[k] = v.shown[k]
      /\ w.shown[Len(v.shown) + 1] = m
      /\ \A k \in 1..Len(w.shown) : k \in 1..Len(v.shown) \/ k = Len(v.shown) + 1
  <2>1. PICK shown \in Seq(Shown) : shown = v.shown
    BY <1>4
  <2>2. PICK more : more = Append(shown, m)
    OBVIOUS
  <2>3. /\ Len(shown) \in Nat /\ Len(more) = Len(shown) + 1 /\ more # <<>>
        /\ \A k \in 1..Len(shown) : more[k] = shown[k]
        /\ more[Len(shown) + 1] = m
        /\ \A k \in 1..Len(more) : k \in 1..Len(shown) \/ k = Len(shown) + 1
    BY <1>2, <2>2, Appended
  <2>4. w.shown = more
    BY <1>3, <2>1, <2>2
  <2>5. QED
    BY <2>1, <2>3, <2>4
<1>6. Asks(w, saved, n, ref)
  <2>1. Asks(v, saved, n, ref) /\ v.server # "idle"
    BY DEF WindowHolds
  <2>2. QED
    BY <1>3, <2>1 DEF Asks
<1>7. ASSUME ~w.mixed PROVE Shows(w, saved, n)
  <2>1. Shows(v, saved, n)
    BY <1>3, <1>7 DEF WindowHolds
  <2>2. NotIn(m, saved)
    BY <1>2 DEF NotIn, Recorded, Numbered
  <2>3. Holds(w.shown, saved)
    BY <1>2, <1>3, <1>4, <2>1, <2>2, ShownOnly DEF Shows
  <2>4. \A k \in 1..Len(w.shown) : w.shown[k].text # <<>> => Numbered(w.shown[k], n)
    BY <1>2, <1>5, <2>1 DEF Shows
  <2>5. w.shown[Len(w.shown)] = Message("ai", w.answer)
    BY <1>1, <1>3, <1>5
  <2>6. ASSUME NEW k \in 1..Len(w.shown), w.shown[k].role = "ai",
               w.shown[k].text # <<>>, Number(w.shown[k]) = w.asked
        PROVE  k = Len(w.shown)
    <3>1. k \in 1..Len(v.shown) => w.shown[k] = v.shown[k]
      BY <1>5
    <3>2. k \notin 1..Len(v.shown)
      BY <1>3, <2>1, <2>6, <3>1 DEF Shows
    <3>3. QED
      BY <1>5, <3>2
  <2>7. QED
    BY <1>3, <1>5, <2>3, <2>4, <2>5, <2>6 DEF Shows
<1>8. QED
  BY <1>6, <1>7 DEF WindowHolds

(* The conversation gets its id, its question is saved.                    *)
LEMMA NamedHolds ==
  ASSUME IInv, NEW old \in WindowType, old.server = "asked", old.answer = <<>>,
         NewShows(old, sent, refused), NEW id,
         NEW v \in WindowType, v.shown = old.shown, v.server = old.server, v.asked = old.asked,
         v.answer = old.answer, NEW saved,
         saved = Append(<<>>, UserMessage(old.firstUserMessage))
  PROVE  /\ saved \in Seq(Shown) /\ Recorded(saved, sent, refused)
         /\ WindowHolds(v, saved, sent, refused)
<1>1. PICK m : m = UserMessage(old.firstUserMessage)
  OBVIOUS
<1>2. /\ old.firstUserMessage \in 1..sent /\ old.firstUserMessage \in Sends
      /\ old.asked \in 1..sent /\ old.shown # <<>>
      /\ \A k \in 1..Len(old.shown) : old.shown[k] = m <=> k = Len(old.shown)
      /\ \A k \in 1..Len(old.shown) : old.shown[k].role = "user" /\ Numbered(old.shown[k], sent)
      /\ old.firstUserMessage = old.asked \/ old.firstUserMessage \in refused
  BY <1>1, BoundsAssumption DEF NewShows, IInv, CountTypes, Sends
<1>3. m \in Shown /\ m.role = "user" /\ Numbered(m, sent)
  BY <1>1, <1>2, MessageTypes, NumberOfMessage DEF Numbered
<1>4. saved = Append(<<>>, m) /\ <<>> \in Seq(Shown)
  BY <1>1
<1>5. /\ saved \in Seq(Shown) /\ Len(saved) = 1 /\ saved[1] = m
      /\ \A i \in 1..Len(saved) : i = 1
  BY <1>3, <1>4, Appended
<1>6. Recorded(saved, sent, refused)
  BY <1>3, <1>5 DEF Recorded
<1>7. AnsweredFrom(saved, Len(saved), v.asked, refused)
  <2>1. CASE old.firstUserMessage = old.asked
    <3>1. 1 \in 1..Len(saved) /\ saved[1] = UserMessage(v.asked)
      BY <1>1, <1>5, <2>1
    <3>2. QED
      BY <3>1 DEF AnsweredFrom
  <2>2. CASE old.firstUserMessage \in refused
    BY <1>1, <1>5, <2>2 DEF AnsweredFrom
  <2>3. QED
    BY <1>2, <2>1, <2>2
<1>8. Asks(v, saved, sent, refused)
  BY <1>2, <1>3, <1>5, <1>7 DEF Asks
<1>9. Shows(v, saved, sent)
  <2>1. old.shown \in Seq(Shown)
    BY DEF WindowType
  <2>2. Holds(old.shown, <<>>) /\ NotIn(m, <<>>)
    BY DEF Holds, Whole, InOrder, NotIn
  <2>3. Holds(v.shown, saved)
    BY <1>2, <1>3, <1>4, <2>1, <2>2, LastSaved
  <2>4. QED
    BY <1>2, <2>3 DEF Shows
<1>10. QED
  BY <1>5, <1>6, <1>8, <1>9 DEF WindowHolds

LEMMA CreateHolds ==
  ASSUME IInv, ListInv, MessageInv, NEW id \in Conversations, id \notin given,
         NEW old \in WindowType, WindowOk(old), old = windows[NoConversation],
         old.open, old.server = "asked", CreateConversation(old, id),
         UNCHANGED <<moves, sent, refused>>
  PROVE  MessageInv'
<1> SUFFICES ASSUME ~moves PROVE MessageInv'
  BY DEF MessageInv
<1>1. /\ NewShows(old, sent, refused) /\ old.answer = <<>> /\ messages[id] = <<>>
      /\ id \in Ids /\ NoConversation \in Ids /\ id # NoConversation
      /\ windows \in [Ids -> WindowType] /\ messages \in [Conversations -> Seq(Shown)]
      /\ sent \in Nat
  BY IdAssumption DEF MessageInv, NewHolds, WindowOk, ListInv, Listed, Fresh, Ids, IInv,
                      WindowsOk, TableTypes, CountTypes
<1>2. old.firstUserMessage # 0
  BY <1>1 DEF NewShows
<1>3. PICK v : v = [old EXCEPT !.isNewConversation = FALSE, !.firstUserMessage = 0]
  OBVIOUS
<1>4. PICK w : w = Answering(v, id)
  OBVIOUS
<1>5. /\ v \in WindowType /\ v.shown = old.shown /\ v.server = old.server /\ v.asked = old.asked
      /\ v.answer = old.answer /\ v.isProcessing
  <2>1. PICK named \in WindowType : named = [old EXCEPT !.isNewConversation = FALSE]
    BY DEF WindowType
  <2>2. v = [named EXCEPT !.firstUserMessage = 0] /\ 0 \in 0..MaxSends
    BY <1>3, <2>1, BoundsAssumption DEF WindowType
  <2>3. v \in WindowType
    BY <2>1, <2>2 DEF WindowType
  <2>4. old.isProcessing
    BY DEF WindowOk
  <2>5. v.isProcessing = old.isProcessing /\ v.shown = old.shown /\ v.answer = old.answer
    BY <1>3 DEF WindowType
  <2>6. v.server = old.server /\ v.asked = old.asked
    BY <1>3 DEF WindowType
  <2>7. QED
    BY <2>3, <2>4, <2>5, <2>6
<1>6. PICK saved : saved = Append(<<>>, UserMessage(old.firstUserMessage))
  OBVIOUS
<1>7. /\ saved \in Seq(Shown) /\ Recorded(saved, sent, refused)
      /\ WindowHolds(v, saved, sent, refused)
  BY <1>1, <1>5, <1>6, NamedHolds
<1>8. WindowHolds(w, saved, sent, refused)
  BY <1>1, <1>4, <1>5, <1>7, AnsweringHolds
<1>9. /\ messages' = Saved(id, UserMessage(old.firstUserMessage))
      /\ windows' = [windows EXCEPT ![NoConversation] = NoWindow, ![id] = w]
  BY <1>2, <1>3, <1>4 DEF CreateConversation
<1>10. messages'[id] = saved /\ \A c \in Conversations \ {id} : messages'[c] = messages[c]
  BY <1>1, <1>6, <1>9 DEF Saved
<1>11. /\ windows'[id] = w /\ windows'[NoConversation] = NoWindow
       /\ \A key \in Ids \ {id, NoConversation} : windows'[key] = windows[key]
  BY <1>1, <1>9
<1>12. \A key \in Ids \ {id} : windows'[key].open => windows'[key] = windows[key]
  BY <1>11, NewWindows
<1>13. QED
  BY <1>1, <1>7, <1>8, <1>10, <1>11, <1>12, MessageStep

LEMMA StartedHolds ==
  ASSUME NEW key \in Ids, NEW id \in Conversations
  PROVE  IInv /\ ListInv /\ MessageInv /\ OnConversationStarted(key, id) => MessageInv'
<1> SUFFICES ASSUME IInv, ListInv, MessageInv, OnConversationStarted(key, id) PROVE MessageInv'
  OBVIOUS
<1>1. PICK old \in WindowType : old = windows[key] /\ WindowOk(old)
  BY OldWindow
<1>2. /\ old.open /\ old.server = "asked" /\ UNCHANGED <<moves, sent, refused>>
      /\ WindowFits(key, old, items) /\ sent \in Nat
  BY <1>1 DEF OnConversationStarted, history, IInv, WindowsFit, CountTypes
<1>3. CASE old.isNewConversation
  <2>1. key = NoConversation /\ id \notin given /\ CreateConversation(old, id)
    BY <1>1, <1>2, <1>3 DEF WindowFits, OnConversationStarted
  <2>2. QED
    BY <1>1, <1>2, <2>1, CreateHolds
<1>4. CASE ~old.isNewConversation
  <2>1. key \in Conversations
    BY <1>2, <1>4 DEF WindowFits, Ids
  <2>2. PICK w : w = Answering(old, id)
    OBVIOUS
  <2>3. windows' = [windows EXCEPT ![key] = w] /\ UNCHANGED messages
    BY <1>1, <1>4, <2>2 DEF OnConversationStarted, tables
  <2>4. w \in WindowType
    <3>1. id \in Ids /\ old.isProcessing /\ old.answer = <<>>
      BY <1>1, <1>2 DEF WindowOk, Ids
    <3>2. QED
      BY <2>2, <3>1, AnsweringOk DEF WindowOk
  <2>5. ASSUME ~moves
        PROVE  /\ Recorded(messages[key], sent, refused)
               /\ WindowHolds(w, messages[key], sent, refused)
    <3>1. old.answer = <<>>
      BY <1>1, <1>2 DEF WindowOk
    <3>2. QED
      BY <1>1, <1>2, <2>1, <2>2, <2>5, <3>1, WindowFacts, AnsweringHolds
  <2>6. /\ sent' \in Nat /\ sent <= sent' /\ refused \subseteq refused' /\ UNCHANGED moves
        /\ ~moves => \A c \in Conversations \ {key} : messages'[c] = messages[c]
    BY <1>2, <2>3
  <2>7. /\ ~moves => Recorded(messages'[key], sent', refused')
        /\ ~moves => WindowHolds(w, messages'[key], sent', refused')
    BY <1>2, <2>3, <2>5
  <2>8. QED
    BY <2>1, <2>3, <2>4, <2>6, <2>7, ConversationStep
<1>5. QED
  BY <1>3, <1>4 DEF WindowType

-----------------------------------------------------------------------------
(* A piece of the reply comes.                                             *)
LEMMA ContentWindow ==
  ASSUME NEW v \in WindowType, v.server = "replying", NEW piece \in Nat \X Nat, piece[1] = v.asked,
         NEW w \in WindowType, w.server = v.server, w.asked = v.asked, w.mixed = v.mixed,
         w.answer = Append(v.answer, piece),
         v.shown # <<>> =>
           w.shown = [v.shown EXCEPT ![Len(v.shown)].text = Append(@, piece)],
         NEW saved \in Seq(Shown), NEW n \in Nat, NEW ref,
         Recorded(saved, n, ref), WindowHolds(v, saved, n, ref)
  PROVE  WindowHolds(w, saved, n, ref)
<1>1. PICK answer \in Texts : answer = v.answer
  BY DEF WindowType
<1>2. PICK more \in Texts : more = Append(answer, piece)
  BY AppendProperties DEF Texts
<1>3. /\ more # <<>> /\ more[1][1] = v.asked
      /\ Asks(v, saved, n, ref)
  <2>1. /\ Len(answer) \in Nat /\ more # <<>> /\ more[Len(answer) + 1] = piece
        /\ \A i \in 1..Len(answer) : more[i] = answer[i]
    <3>1. PICK S : S = Nat \X Nat
      OBVIOUS
    <3>2. answer \in Seq(S) /\ piece \in S
      BY <3>1 DEF Texts
    <3>3. more \in Seq(S) /\ Len(answer) \in Nat /\ Len(more) = Len(answer) + 1
      BY <1>2, <3>2, AppendProperties, LenProperties
    <3>4. more[Len(answer) + 1] = piece
      BY <1>2, <3>2, AppendProperties
    <3>5. \A i \in 1..Len(answer) : more[i] = answer[i]
      BY <1>2, <3>2, AppendProperties
    <3>6. more # <<>>
      BY <3>3
    <3>7. QED
      BY <3>3, <3>4, <3>5, <3>6
  <2>2. Asks(v, saved, n, ref)
    BY DEF WindowHolds
  <2>3. CASE answer = <<>>
    <3>1. more[1] = piece
      BY <2>1, <2>3
    <3>2. QED
      BY <2>1, <2>2, <3>1
  <2>4. CASE answer # <<>>
    <3>1. 1 \in 1..Len(answer)
      BY <2>4, EmptySeq, LenProperties DEF Texts
    <3>2. QED
      BY <1>1, <2>1, <2>2, <2>4, <3>1 DEF Asks
  <2>5. QED
    BY <2>3, <2>4
<1>4. w.answer = more
  BY <1>1, <1>2
<1>5. Asks(w, saved, n, ref)
  BY <1>3, <1>4 DEF Asks
<1>6. ASSUME ~w.mixed PROVE Shows(w, saved, n)
  <2>1. PICK shown \in Seq(Shown) : shown = v.shown
    BY DEF WindowType
  <2>2. PICK last : last = Message("ai", answer)
    OBVIOUS
  <2>3. PICK m : m = Message("ai", more)
    OBVIOUS
  <2>4. Shows(v, saved, n) /\ shown # <<>> /\ shown[Len(shown)] = last
    BY <1>1, <1>6, <2>1, <2>2 DEF WindowHolds, Shows
  <2>5. Len(shown) \in 1..Len(shown)
    BY <2>4, EmptySeq, LenProperties
  <2>6. last \in Shown /\ m \in Shown
    BY <1>1, <2>2, <2>3, MessageTypes
  <2>7. m = [last EXCEPT !.text = Append(last.text, piece)]
    <3>1. last.text = answer
      BY <2>2, NumberOfMessage
    <3>2. [last EXCEPT !.text = more] = Message("ai", more)
      BY <2>2 DEF Message
    <3>3. QED
      BY <1>2, <2>3, <3>1, <3>2
  <2>8. w.shown = [shown EXCEPT ![Len(shown)] = m]
    BY <2>1, <2>4, <2>7
  <2>9. /\ Len(w.shown) = Len(shown) /\ w.shown[Len(shown)] = m
        /\ \A k \in 1..Len(shown) : k # Len(shown) => w.shown[k] = shown[k]
    BY <2>5, <2>6, <2>8, ExceptSeq
  <2>10. /\ m.role = "ai" /\ m.text = more /\ Number(m) = v.asked
         /\ last.role = "ai" /\ last.text = answer
         /\ answer # <<>> => Number(last) = v.asked
    BY <1>1, <1>3, <2>2, <2>3, NumberOfMessage DEF Asks
  <2>11. v.asked \in 1..n /\ \A i \in 1..Len(saved) : saved[i].role = "ai" => Number(saved[i]) # v.asked
    BY <1>3 DEF Asks
  <2>12. NotIn(m, saved)
    BY <2>10, <2>11 DEF NotIn
  <2>13. NotIn(last, saved)
    <3>1. \A i \in 1..Len(saved) : saved[i].text # <<>>
      BY DEF Recorded, Numbered
    <3>2. QED
      BY <2>10, <2>11, <3>1 DEF NotIn
  <2>14. Holds(w.shown, saved)
    BY <2>1, <2>4, <2>6, <2>8, <2>12, <2>13, ShownChanges DEF Shows
  <2>15. Numbered(m, n)
    BY <1>3, <2>10, <2>11 DEF Numbered
  <2>16. \A k \in 1..Len(w.shown) : w.shown[k].text # <<>> => Numbered(w.shown[k], n)
    BY <2>1, <2>4, <2>9, <2>15 DEF Shows
  <2>17. w.shown # <<>> /\ w.shown[Len(w.shown)] = Message("ai", w.answer)
    <3>1. Len(w.shown) # 0
      BY <2>5, <2>9
    <3>2. QED
      BY <1>4, <2>3, <2>9, <3>1, EmptySeq
  <2>18. ASSUME NEW k \in 1..Len(w.shown), w.shown[k].role = "ai",
                w.shown[k].text # <<>>, Number(w.shown[k]) = w.asked
         PROVE  k = Len(w.shown)
    BY <2>1, <2>4, <2>9, <2>18 DEF Shows
  <2>19. QED
    BY <2>14, <2>16, <2>17, <2>18 DEF Shows
<1>7. QED
  BY <1>5, <1>6 DEF WindowHolds

LEMMA ContentHolds ==
  ASSUME NEW key \in Ids PROVE IInv /\ MessageInv /\ OnMessageContent(key) => MessageInv'
<1> SUFFICES ASSUME IInv, MessageInv, OnMessageContent(key) PROVE MessageInv'
  OBVIOUS
<1>1. PICK v \in WindowType : v = windows[key] /\ WindowOk(v)
  BY OldWindow
<1>2. v.open /\ v.server = "replying" /\ v.answer \in Texts /\ v.asked \in Nat
  BY <1>1 DEF OnMessageContent, WindowType
<1>3. PICK piece \in Nat \X Nat : piece = <<v.asked, Len(v.answer) + 1>>
  <2>1. Len(v.answer) + 1 \in Nat
    BY <1>2, LenProperties DEF Texts
  <2>2. QED
    BY <1>2, <2>1
<1>4. PICK w : w =
        [v EXCEPT !.shown = IF v.shown = <<>> THEN @
                            ELSE [v.shown EXCEPT ![Len(v.shown)].text = Append(@, piece)],
                  !.pendingAiMessage = Append(@, piece), !.answer = Append(@, piece)]
  OBVIOUS
<1>5. /\ windows' = [windows EXCEPT ![key] = w]
      /\ UNCHANGED <<messages, sent, refused, moves>>
  BY <1>1, <1>3, <1>4 DEF OnMessageContent, tables, history
<1>6. w \in WindowType
  <2>1. WindowsOk'
    BY ContentKeeps DEF IInv
  <2>2. windows'[key] = w
    BY <1>5 DEF IInv, WindowsOk
  <2>3. QED
    BY <2>1, <2>2 DEF WindowsOk
<1>7. /\ w.server = v.server /\ w.asked = v.asked /\ w.mixed = v.mixed
      /\ w.answer = Append(v.answer, piece)
      /\ v.shown # <<>> => w.shown = [v.shown EXCEPT ![Len(v.shown)].text = Append(@, piece)]
  BY <1>4 DEF WindowType
<1>8. ASSUME ~moves PROVE key \in Conversations
  BY <1>1, <1>2, <1>8 DEF MessageInv, NewHolds, NewShows, Ids
<1>9. ASSUME ~moves
      PROVE  /\ Recorded(messages[key], sent, refused)
             /\ WindowHolds(w, messages[key], sent, refused)
  <2>1. /\ messages[key] \in Seq(Shown) /\ sent \in Nat
        /\ Recorded(messages[key], sent, refused)
        /\ WindowHolds(v, messages[key], sent, refused)
    BY <1>1, <1>2, <1>8, <1>9, WindowFacts
  <2>2. piece[1] = v.asked
    BY <1>3
  <2>3. QED
    BY <1>2, <1>6, <1>7, <2>1, <2>2, ContentWindow
<1>10. QED
  <2>1. sent \in Nat
    BY DEF IInv, CountTypes
  <2>2. ASSUME ~moves PROVE MessageInv'
    <3>1. /\ sent' \in Nat /\ sent <= sent' /\ refused \subseteq refused' /\ UNCHANGED moves
          /\ \A c \in Conversations \ {key} : messages'[c] = messages[c]
      BY <1>5, <2>1
    <3>2. /\ Recorded(messages'[key], sent', refused')
          /\ WindowHolds(w, messages'[key], sent', refused')
      BY <1>5, <1>9, <2>2
    <3>3. QED
      BY <1>5, <1>6, <1>8, <2>2, <3>1, <3>2, ConversationStep
  <2>3. QED
    BY <1>5, <2>2 DEF MessageInv

-----------------------------------------------------------------------------
(* The reply ends.                                                         *)
LEMMA EndedTable ==
  ASSUME NEW v \in WindowType, v.server = "replying", v.answer # <<>>,
         NEW m, m = Message("ai", v.answer),
         NEW saved \in Seq(Shown), NEW t, t = Append(saved, m), NEW n \in Nat, NEW ref,
         Recorded(saved, n, ref), WindowHolds(v, saved, n, ref)
  PROVE  /\ Recorded(t, n, ref)
         /\ ~v.mixed => Holds(v.shown, t)
<1>1. /\ v.answer[1][1] = v.asked /\ v.asked \in 1..n
      /\ \A i \in 1..Len(saved) : saved[i].role = "ai" => Number(saved[i]) # v.asked
      /\ AnsweredFrom(saved, Len(saved), v.asked, ref)
  BY DEF WindowHolds, Asks
<1>2. m \in Shown /\ m.role = "ai" /\ m.text = v.answer /\ Number(m) = v.asked
  BY <1>1, MessageTypes, NumberOfMessage DEF WindowType
<1>3. Numbered(m, n) /\ NotIn(m, saved)
  BY <1>1, <1>2 DEF Numbered, NotIn
<1>4. Recorded(t, n, ref)
  BY <1>1, <1>2, <1>3, RecordedGrows
<1>5. ASSUME ~v.mixed PROVE Holds(v.shown, t)
  <2>1. Shows(v, saved, n) /\ v.shown \in Seq(Shown)
    BY <1>5 DEF WindowHolds, WindowType
  <2>2. v.shown # <<>> /\ v.shown[Len(v.shown)] = m
    BY <2>1 DEF Shows
  <2>3. ASSUME NEW k \in 1..Len(v.shown) PROVE v.shown[k] = m <=> k = Len(v.shown)
    <3>1. ASSUME v.shown[k] = m PROVE k = Len(v.shown)
      BY <1>2, <2>1, <3>1 DEF Shows
    <3>2. QED
      BY <2>2, <3>1
  <2>4. QED
    BY <1>2, <1>3, <2>1, <2>2, <2>3, LastSaved DEF Shows
<1>6. QED
  BY <1>4, <1>5

LEMMA EndedHolds ==
  ASSUME NEW key \in Ids PROVE IInv /\ MessageInv /\ OnMessageEnded(key) => MessageInv'
<1> SUFFICES ASSUME IInv, MessageInv, OnMessageEnded(key), ~moves PROVE MessageInv'
  BY DEF MessageInv, OnMessageEnded
<1>1. PICK old \in WindowType : old = windows[key] /\ WindowOk(old)
  BY OldWindow
<1>2. old.open /\ old.server = "replying" /\ old.pendingAiMessage = old.answer
  BY <1>1 DEF OnMessageEnded, WindowOk
<1>3. key \in Conversations
  BY <1>1, <1>2 DEF MessageInv, NewHolds, NewShows, Ids
<1>4. /\ messages[key] \in Seq(Shown) /\ sent \in Nat /\ Recorded(messages[key], sent, refused)
      /\ WindowHolds(old, messages[key], sent, refused) /\ old.conversationId = key
      /\ messages \in [Conversations -> Seq(Shown)]
  BY <1>1, <1>2, <1>3, WindowFacts DEF IInv, TableTypes
<1>5. PICK v : v = [old EXCEPT !.pendingAiMessage = <<>>]
  OBVIOUS
<1>6. /\ v \in WindowType /\ v.shown = old.shown /\ v.mixed = old.mixed
      /\ v.firstUserMessage = old.firstUserMessage
  BY <1>5, MessageTypes DEF WindowType
<1>7. PICK w : w = RequestOver(v)
  OBVIOUS
<1>8. /\ w \in WindowType /\ w.shown = old.shown /\ w.mixed = old.mixed
      /\ w.firstUserMessage = old.firstUserMessage /\ w.server = "idle" /\ w.answer = <<>>
  BY <1>6, <1>7, OverKeeps
<1>9. /\ windows' = [windows EXCEPT ![key] = w] /\ UNCHANGED <<sent, refused, moves>>
  BY <1>1, <1>5, <1>7 DEF OnMessageEnded
<1>10. CASE old.answer = <<>>
  <2>1. UNCHANGED messages
    BY <1>1, <1>2, <1>10 DEF OnMessageEnded
  <2>2. QED
    BY <1>1, <1>2, <1>8, <1>9, <2>1, QuietStep
<1>11. CASE old.answer # <<>>
  <2>1. PICK m : m = Message("ai", old.answer)
    OBVIOUS
  <2>2. PICK t : t = Append(messages[key], m)
    OBVIOUS
  <2>3. messages' = Saved(key, m)
    BY <1>1, <1>2, <1>4, <1>11, <2>1 DEF OnMessageEnded
  <2>4. messages'[key] = t /\ \A c \in Conversations \ {key} : messages'[c] = messages[c]
    BY <1>3, <2>2, <2>3 DEF Saved
  <2>5. Recorded(t, sent, refused) /\ (~old.mixed => Holds(old.shown, t))
    BY <1>2, <1>4, <1>11, <2>1, <2>2, EndedTable
  <2>6. Asks(w, t, sent, refused)
    BY <1>8 DEF Asks
  <2>7. ~w.mixed => Shows(w, t, sent)
    BY <1>4, <1>8, <2>5 DEF WindowHolds, Shows
  <2>8. WindowHolds(w, messages'[key], sent', refused') /\ Recorded(messages'[key], sent', refused')
    BY <1>9, <2>4, <2>5, <2>6, <2>7 DEF WindowHolds
  <2>9. sent' \in Nat /\ sent <= sent' /\ refused \subseteq refused' /\ UNCHANGED moves
    BY <1>4, <1>9
  <2>10. QED
    BY <1>3, <1>8, <1>9, <2>4, <2>8, <2>9, ConversationStep
<1>12. QED
  BY <1>10, <1>11

-----------------------------------------------------------------------------
(* The user writes.  What the socket does with the message:                *)
SentWith(v, w, n) ==
  /\ w.shown = v.shown /\ w.mixed = v.mixed /\ w.firstUserMessage = v.firstUserMessage
  /\ \/ w.server = v.server /\ w.asked = v.asked /\ w.answer = v.answer
     \/ v.server = "idle" /\ w.server = "asked" /\ w.asked = n /\ w.answer = <<>>

Writes(old, w, m, n) ==
  /\ w.shown = Append(old.shown, m) /\ (w.mixed <=> old.mixed \/ old.server = "replying")
  /\ \/ w.server = old.server /\ w.asked = old.asked /\ w.answer = old.answer
     \/ old.server = "idle" /\ w.server = "asked" /\ w.asked = n /\ w.answer = <<>>
WritesFirst(old, w, m, n, more) ==
  /\ w.shown = Append(old.shown, m) /\ w.firstUserMessage = n
  /\ \/ /\ w.server = old.server /\ w.asked = old.asked
        /\ w.server # "idle" => n \in more
     \/ w.server = "asked" /\ w.asked = n

LEMMA SocketHolds ==
  ASSUME NEW v, WindowOk(v), NEW n, NEW w, w = SocketSends(v, n)
  PROVE  SentWith(v, w, n)
<1>1. v \in WindowType
  BY DEF WindowOk
<1>2. CASE v.isProcessing
  BY <1>2 DEF SocketSends, SentWith
<1>3. CASE ~v.isProcessing /\ v.socket # "open"
  BY <1>1, <1>3 DEF SocketSends, SentWith, WindowType
<1>4. CASE ~v.isProcessing /\ v.socket = "open"
  <2>1. v.server = "idle"
    BY <1>1, <1>4 DEF WindowOk, WindowType
  <2>2. QED
    BY <1>1, <1>4, <2>1 DEF SocketSends, SentWith, WindowType
<1>5. QED
  BY <1>2, <1>3, <1>4

(* The window after it, and the table.                                     *)
Sending(old, before, n, m, w, saved, t, ref) ==
  /\ n = before + 1 /\ m = UserMessage(n) /\ Writes(old, w, m, n) /\ t = Append(saved, m)
  /\ Recorded(saved, before, ref) /\ WindowHolds(old, saved, before, ref)

LEMMA SendWindow ==
  ASSUME NEW old \in WindowType, NEW sentBefore \in Nat, NEW n \in Sends, NEW m, NEW w,
         NEW saved \in Seq(Shown), NEW t, NEW ref,
         Sending(old, sentBefore, n, m, w, saved, t, ref)
  PROVE  Recorded(t, n, ref) /\ WindowHolds(w, t, n, ref)
<1> n = sentBefore + 1 /\ m = UserMessage(n) /\ t = Append(saved, m)
  BY DEF Sending
<1> Recorded(saved, sentBefore, ref) /\ WindowHolds(old, saved, sentBefore, ref)
  BY DEF Sending
<1> Writes(old, w, m, n)
  BY DEF Sending
<1>0. /\ w.shown = Append(old.shown, m) /\ (w.mixed <=> old.mixed \/ old.server = "replying")
      /\ \/ w.server = old.server /\ w.asked = old.asked /\ w.answer = old.answer
         \/ old.server = "idle" /\ w.server = "asked" /\ w.asked = n /\ w.answer = <<>>
  BY DEF Writes
<1>1. m \in Shown /\ m.role = "user" /\ m.text # <<>> /\ Number(m) = n
  BY MessageTypes, NumberOfMessage
<1>2. n \in Nat /\ sentBefore <= n /\ n \notin 1..sentBefore /\ n \in 1..n
  OBVIOUS
<1>3. Recorded(saved, n, ref) /\ WindowHolds(old, saved, n, ref)
  BY <1>2, MoreSent
<1>4. Numbered(m, n) /\ NotIn(m, saved)
  BY <1>1, <1>2 DEF Numbered, NotIn, Recorded
<1>5. /\ Recorded(t, n, ref) /\ t \in Seq(Shown)
      /\ \A x : AnsweredFrom(saved, Len(saved), x, ref) => AnsweredFrom(t, Len(t), x, ref)
  BY <1>1, <1>3, <1>4, RecordedGrows
<1>6. /\ Len(saved) \in Nat /\ Len(t) = Len(saved) + 1
      /\ \A i \in 1..Len(saved) : t[i] = saved[i]
      /\ t[Len(saved) + 1] = m
      /\ \A i \in 1..Len(t) : i \in 1..Len(saved) \/ i = Len(saved) + 1
  BY <1>1, Appended
<1>7. Asks(w, t, n, ref)
  <2>1. CASE w.server = old.server /\ w.asked = old.asked /\ w.answer = old.answer
    <3>1. Asks(old, saved, n, ref)
      BY <1>3 DEF WindowHolds
    <3>2. ASSUME w.server # "idle"
          PROVE  \A i \in 1..Len(t) : t[i].role = "ai" => Number(t[i]) # w.asked
      BY <1>1, <1>6, <2>1, <3>1, <3>2 DEF Asks
    <3>3. QED
      BY <1>5, <2>1, <3>1, <3>2 DEF Asks
  <2>2. CASE old.server = "idle" /\ w.server = "asked" /\ w.asked = n /\ w.answer = <<>>
    <3>1. \A i \in 1..Len(saved) : Number(saved[i]) # n
      BY <1>2 DEF Recorded, Numbered
    <3>2. \A i \in 1..Len(t) : t[i].role = "ai" => Number(t[i]) # n
      BY <1>1, <1>6, <3>1
    <3>3. AnsweredFrom(t, Len(t), n, ref)
      BY <1>6 DEF AnsweredFrom
    <3>4. QED
      BY <1>2, <2>2, <3>2, <3>3 DEF Asks
  <2>3. QED
    BY <1>0, <2>1, <2>2
<1>8. ASSUME ~w.mixed PROVE Shows(w, t, n)
  <2>1. PICK shown \in Seq(Shown) : shown = old.shown
    BY DEF WindowType
  <2>2. PICK more : more = Append(shown, m)
    OBVIOUS
  <2>3. /\ Len(shown) \in Nat /\ Len(more) = Len(shown) + 1 /\ more # <<>>
        /\ \A k \in 1..Len(shown) : more[k] = shown[k]
        /\ more[Len(shown) + 1] = m
        /\ \A k \in 1..Len(more) : k \in 1..Len(shown) \/ k = Len(shown) + 1
    BY <1>1, <2>2, Appended
  <2>4. w.shown = more /\ ~old.mixed /\ old.server # "replying"
    BY <1>0, <1>8, <2>1, <2>2
  <2>5. Shows(old, saved, n) /\ Shows(old, saved, sentBefore)
    BY <1>3, <2>4 DEF WindowHolds
  <2>6. NotIn(m, shown)
    <3>1. \A k \in 1..Len(shown) : shown[k].text # <<>> => Number(shown[k]) # n
      BY <1>2, <2>1, <2>5 DEF Shows, Numbered
    <3>2. QED
      BY <1>1, <3>1 DEF NotIn
  <2>7. Holds(more, t)
    <3>1. Holds(shown, saved)
      BY <2>1, <2>5 DEF Shows
    <3>2. QED
      BY <1>1, <1>4, <2>2, <2>6, <3>1, BothGrow
  <2>8. \A k \in 1..Len(more) : more[k].text # <<>> => Numbered(more[k], n)
    BY <1>4, <2>1, <2>3, <2>5 DEF Shows
  <2>9. w.server # "replying"
    BY <1>0, <2>4
  <2>10. ASSUME w.server # "idle", NEW k \in 1..Len(more), more[k].role = "ai",
                more[k].text # <<>>, Number(more[k]) = w.asked
         PROVE  FALSE
    <3>1. k \in 1..Len(shown) /\ shown[k] = more[k]
      BY <1>1, <2>3, <2>10
    <3>2. CASE w.asked = n
      BY <1>1, <1>2, <2>1, <2>5, <2>10, <3>1, <3>2 DEF Shows, Numbered
    <3>3. CASE w.server = old.server /\ w.asked = old.asked
      BY <2>1, <2>4, <2>5, <2>10, <3>1, <3>3 DEF Shows
    <3>4. QED
      BY <1>0, <3>2, <3>3
  <2>11. QED
    BY <2>4, <2>7, <2>8, <2>9, <2>10 DEF Shows
<1>9. QED
  BY <1>5, <1>7, <1>8 DEF WindowHolds

LEMMA SendNew ==
  ASSUME NEW old \in WindowType, NEW sentBefore \in Nat, NEW n \in Sends, n = sentBefore + 1,
         NEW m, m = UserMessage(n), NEW ref, NEW more, ref \subseteq more,
         NEW w, WritesFirst(old, w, m, n, more),
         NewShows(old, sentBefore, ref)
  PROVE  NewShows(w, n, more)
<1>0. /\ w.shown = Append(old.shown, m) /\ w.firstUserMessage = n
      /\ \/ /\ w.server = old.server /\ w.asked = old.asked
            /\ w.server # "idle" => n \in more
         \/ w.server = "asked" /\ w.asked = n
  BY DEF WritesFirst
<1>1. m \in Shown /\ m.role = "user" /\ m.text # <<>> /\ Number(m) = n
  BY MessageTypes, NumberOfMessage
<1>2. n \in Nat /\ n # 0 /\ n \notin 1..sentBefore /\ 1..sentBefore \subseteq 1..n /\ n \in 1..n
  OBVIOUS
<1>3. PICK shown \in Seq(Shown) : shown = old.shown
  BY DEF WindowType
<1>4. PICK longer : longer = Append(shown, m)
  OBVIOUS
<1>5. /\ Len(shown) \in Nat /\ Len(longer) = Len(shown) + 1 /\ longer # <<>>
      /\ \A k \in 1..Len(shown) : longer[k] = shown[k]
      /\ longer[Len(shown) + 1] = m
      /\ \A k \in 1..Len(longer) : k \in 1..Len(shown) \/ k = Len(shown) + 1
  BY <1>1, <1>4, Appended
<1>6. w.shown = longer
  BY <1>0, <1>3, <1>4
<1>7. /\ \A k \in 1..Len(shown) : shown[k].role = "user" /\ Numbered(shown[k], sentBefore)
      /\ old.server # "replying"
      /\ old.server = "asked" => old.asked \in 1..sentBefore
  BY <1>3 DEF NewShows
<1>8. \A k \in 1..Len(longer) : longer[k].role = "user" /\ Numbered(longer[k], n)
  <2>1. Numbered(m, n)
    BY <1>1, <1>2 DEF Numbered
  <2>2. \A k \in 1..Len(shown) : Numbered(shown[k], n)
    BY <1>2, <1>7 DEF Numbered
  <2>3. QED
    BY <1>1, <1>5, <1>7, <2>1, <2>2
<1>9. \A k \in 1..Len(longer) : longer[k] = m <=> k = Len(longer)
  <2>1. \A k \in 1..Len(shown) : Number(shown[k]) # n
    BY <1>2, <1>7 DEF Numbered
  <2>2. QED
    BY <1>1, <1>5, <2>1
<1>10. w.server # "replying"
  BY <1>0, <1>7
<1>11. w.server = "asked" => w.asked \in 1..n /\ (n = w.asked \/ n \in more)
  BY <1>0, <1>2, <1>7
<1>12. QED
  BY <1>0, <1>1, <1>2, <1>5, <1>6, <1>8, <1>9, <1>10, <1>11 DEF NewShows

LEMMA SendHolds ==
  ASSUME NEW key \in Ids PROVE IInv /\ MessageInv /\ OnSendMessage(key) => MessageInv'
<1> SUFFICES ASSUME IInv, MessageInv, OnSendMessage(key), ~moves PROVE MessageInv'
  BY DEF MessageInv, OnSendMessage
<1>1. PICK old \in WindowType : old = windows[key] /\ WindowOk(old)
  BY OldWindow
<1>2. PICK n \in Sends : n = sent + 1
  BY BoundsAssumption DEF IInv, CountTypes, OnSendMessage, Sends
<1>3. PICK v : v = [old EXCEPT !.shown = Append(old.shown, UserMessage(n)),
                               !.firstUserMessage = IF old.isNewConversation THEN n ELSE @,
                               !.mixed = old.mixed \/ old.server = "replying"]
  OBVIOUS
<1>4. PICK w : w = SocketSends(v, n)
  OBVIOUS
<1>5. Append(old.shown, UserMessage(n)) \in Seq(Shown) /\ n \in 0..MaxSends
  BY <1>1, MessageTypes, AppendProperties DEF WindowType, Sends
<1>6. /\ v \in WindowType /\ v.server = old.server /\ v.isProcessing = old.isProcessing
      /\ v.pendingAiMessage = old.pendingAiMessage /\ v.answer = old.answer
      /\ v.asked = old.asked /\ v.shown = Append(old.shown, UserMessage(n))
  BY <1>1, <1>3, <1>5 DEF WindowType
<1>7. v.firstUserMessage = IF old.isNewConversation THEN n ELSE old.firstUserMessage
  BY <1>1, <1>3 DEF WindowType
<1>8. v.mixed <=> old.mixed \/ old.server = "replying"
  BY <1>1, <1>3 DEF WindowType
<1>9. WindowOk(v)
  BY <1>1, <1>6 DEF WindowOk
<1>10. w \in WindowType /\ SentWith(v, w, n)
  BY <1>4, <1>9, SocketKeeps, SocketHolds DEF WindowOk
<1>11. /\ windows' = [windows EXCEPT ![key] = w] /\ windows[key].open
       /\ sent' = n /\ UNCHANGED moves /\ refused \subseteq refused'
       /\ old.isProcessing => n \in refused'
       /\ messages' = IF old.isNewConversation THEN messages
                      ELSE Saved(old.conversationId, UserMessage(n))
  BY <1>1, <1>2, <1>3, <1>4 DEF OnSendMessage
<1>12. sent \in Nat /\ n \in Nat /\ messages \in [Conversations -> Seq(Shown)]
       /\ windows \in [Ids -> WindowType]
  BY BoundsAssumption DEF IInv, CountTypes, TableTypes, WindowsOk, Sends
<1>13. CASE key \in Conversations
  <2>1. /\ messages[key] \in Seq(Shown) /\ Recorded(messages[key], sent, refused)
        /\ WindowHolds(old, messages[key], sent, refused)
        /\ old.conversationId = key /\ ~old.isNewConversation
    BY <1>1, <1>11, <1>13, WindowFacts
  <2>2. PICK m : m = UserMessage(n)
    OBVIOUS
  <2>3. PICK t : t = Append(messages[key], m)
    OBVIOUS
  <2>4. messages'[key] = t /\ \A c \in Conversations \ {key} : messages'[c] = messages[c]
    BY <1>11, <1>13, <2>1, <2>2, <2>3 DEF Saved
  <2>5. /\ w.shown = Append(old.shown, m)
        /\ w.mixed <=> old.mixed \/ old.server = "replying"
    <3>1. w.shown = v.shown /\ w.mixed = v.mixed
      BY <1>10 DEF SentWith
    <3>2. w.shown = Append(old.shown, m)
      BY <1>6, <2>2, <3>1
    <3>3. w.mixed <=> old.mixed \/ old.server = "replying"
      BY <1>8, <3>1
    <3>4. QED
      BY <3>2, <3>3
  <2>6. \/ w.server = old.server /\ w.asked = old.asked /\ w.answer = old.answer
        \/ old.server = "idle" /\ w.server = "asked" /\ w.asked = n /\ w.answer = <<>>
    BY <1>6, <1>10 DEF SentWith
  <2>7. Recorded(t, n, refused) /\ WindowHolds(w, t, n, refused)
    <3>1. PICK saved \in Seq(Shown) : saved = messages[key]
      BY <2>1
    <3>2. PICK before \in Nat : before = sent
      BY <1>12
    <3>3. PICK ref : ref = refused
      OBVIOUS
    <3>4. n = before + 1 /\ t = Append(saved, m)
      BY <1>2, <2>3, <3>1, <3>2
    <3>5. Recorded(saved, before, ref) /\ WindowHolds(old, saved, before, ref)
      BY <2>1, <3>1, <3>2, <3>3
    <3>6. Recorded(t, n, ref) /\ WindowHolds(w, t, n, ref)
      <4>1. Writes(old, w, m, n)
        BY <2>5, <2>6 DEF Writes
      <4>2. QED
        <5>1. Sending(old, before, n, m, w, saved, t, ref)
          BY <2>2, <3>4, <3>5, <4>1 DEF Sending
        <5>2. QED
          BY <5>1, SendWindow
    <3>7. QED
      BY <3>3, <3>6
  <2>8. t \in Seq(Shown)
    BY <1>2, <2>1, <2>2, <2>3, MessageTypes, AppendProperties
  <2>9. Recorded(t, n, refused') /\ WindowHolds(w, t, n, refused')
    <3>1. PICK ref, more : ref = refused /\ more = refused'
      OBVIOUS
    <3>2. ref \subseteq more /\ Recorded(t, n, ref) /\ WindowHolds(w, t, n, ref) /\ n <= n
      BY <1>11, <1>12, <2>7, <3>1
    <3>3. Recorded(t, n, more) /\ WindowHolds(w, t, n, more)
      BY <1>10, <1>12, <2>8, <3>2, MoreSent
    <3>4. QED
      BY <3>1, <3>3
  <2>10. sent' \in Nat /\ sent <= sent'
    BY <1>2, <1>11, <1>12
  <2>11. QED
    BY <1>10, <1>11, <1>13, <2>4, <2>9, <2>10, ConversationStep
<1>14. CASE key = NoConversation
  <2>1. old.isNewConversation /\ NewShows(old, sent, refused)
    BY <1>1, <1>11, <1>14 DEF IInv, WindowsFit, WindowFits, MessageInv, NewHolds
  <2>2. w.shown = Append(old.shown, UserMessage(n)) /\ w.firstUserMessage = n
    BY <1>6, <1>7, <1>10, <2>1 DEF SentWith
  <2>3. \/ /\ w.server = old.server /\ w.asked = old.asked
           /\ w.server # "idle" => n \in refused'
        \/ w.server = "asked" /\ w.asked = n
    <3>1. old.server # "idle" => n \in refused'
      BY <1>1, <1>11 DEF WindowOk
    <3>2. QED
      BY <1>6, <1>10, <3>1 DEF SentWith
  <2>4. NewShows(w, n, refused')
    <3>1. PICK before \in Nat : before = sent
      BY <1>12
    <3>2. PICK ref, more : ref = refused /\ more = refused'
      OBVIOUS
    <3>3. PICK m : m = UserMessage(n)
      OBVIOUS
    <3>4. /\ n = before + 1 /\ w.shown = Append(old.shown, m) /\ ref \subseteq more
          /\ NewShows(old, before, ref)
      BY <1>2, <1>11, <2>1, <2>2, <3>1, <3>2, <3>3
    <3>5. \/ /\ w.server = old.server /\ w.asked = old.asked
             /\ w.server # "idle" => n \in more
          \/ w.server = "asked" /\ w.asked = n
      BY <2>3, <3>2
    <3>6. NewShows(w, n, more)
      <4>1. WritesFirst(old, w, m, n, more)
        BY <2>2, <3>4, <3>5 DEF WritesFirst
      <4>2. QED
        BY <3>3, <3>4, <4>1, SendNew
    <3>7. QED
      BY <3>2, <3>6
  <2>5. windows'[key] = w /\ \A id \in Ids \ {key} : windows'[id] = windows[id]
    BY <1>11, <1>12
  <2>6. UNCHANGED messages
    BY <1>11, <2>1
  <2>7. sent' \in Nat /\ sent <= sent'
    BY <1>2, <1>11, <1>12
  <2>8. key \notin Conversations
    BY <1>14, IdAssumption
  <2>9. QED
    BY <1>11, <1>14, <2>4, <2>5, <2>6, <2>7, <2>8, MessageStep
<1>15. QED
  BY <1>13, <1>14 DEF Ids

-----------------------------------------------------------------------------
HInv == IInv /\ ListInv /\ MessageInv

LEMMA HistoryInit == Init => HInv
<1> SUFFICES ASSUME Init PROVE HInv
  OBVIOUS
<1>1. IInv
  BY InitHolds
<1>2. /\ \A c \in Conversations : rows[c] = NoRow /\ messages[c] = <<>>
      /\ \A id \in Ids : ~windows[id].open
      /\ items = <<>> /\ given = {}
  BY NewWindows DEF Init
<1>3. ListInv
  BY <1>2 DEF ListInv, Listed, Fresh, Ids
<1>4. MessageInv
  BY <1>2 DEF MessageInv, TablesHold, WindowsHold, NewHolds, Recorded, Ids
<1>5. QED
  BY <1>1, <1>3, <1>4 DEF HInv

LEMMA HistoryNext == HInv /\ [Next]_vars => HInv'
<1> SUFFICES ASSUME IInv, ListInv, MessageInv, [Next]_vars PROVE ListInv' /\ MessageInv'
  BY NextHolds DEF HInv
<1>1. CASE NewItem
  <2>1. UNCHANGED <<messages, windows, sent, refused, moves>>
    BY <1>1 DEF NewItem, tables, history
  <2>2. MessageInv'
    BY <2>1 DEF MessageInv, TablesHold, WindowsHold, NewHolds
  <2>3. QED
    BY <1>1, <2>2, NewItemListed
<1>2. ASSUME NEW i \in 1..Len(items), ListEvent(i) PROVE ListInv' /\ MessageInv'
  <2>1. CASE OnChatItemClicked(i)
    BY <2>1, ClickListed, ClickHolds
  <2>2. CASE OnChatItemRenamed(i)
    <3>1. UNCHANGED <<messages, windows, sent, refused, moves>>
      BY <2>2 DEF OnChatItemRenamed, history
    <3>2. MessageInv'
      BY <3>1 DEF MessageInv, TablesHold, WindowsHold, NewHolds
    <3>3. QED
      BY <2>2, <3>2, RenameListed
  <2>3. CASE OnChatItemDeleted(i)
    BY <2>3, DeleteListed, DeleteHolds
  <2>4. QED
    BY <1>2, <2>1, <2>2, <2>3 DEF ListEvent
<1>3. ASSUME NEW id \in Ids, WindowEvent(id) PROVE ListInv' /\ MessageInv'
  <2>1. CASE OnConnected(id)
    <3>1. ListInv'
      BY <2>1, WindowListed DEF OnConnected, tables, history
    <3>2. QED
      BY <2>1, <3>1, ConnectedHolds
  <2>2. CASE OnDisconnected(id)
    <3>1. ListInv'
      BY <2>2, WindowListed DEF OnDisconnected, tables, history
    <3>2. QED
      BY <2>2, <3>1, DisconnectedHolds
  <2>3. CASE OnSendMessage(id)
    BY <2>3, SendListed, SendHolds
  <2>4. CASE \E new \in Conversations : OnConversationStarted(id, new)
    BY <2>4, StartedListed, StartedHolds
  <2>5. CASE OnMessageContent(id)
    <3>1. ListInv'
      BY <2>5, WindowListed DEF OnMessageContent, tables, history
    <3>2. QED
      BY <2>5, <3>1, ContentHolds
  <2>6. CASE OnMessageEnded(id)
    <3>1. CASE id = NoConversation
      <4>1. moves
        BY <2>6, <3>1 DEF OnMessageEnded, MessageInv, NewHolds, NewShows
      <4>2. UNCHANGED moves
        BY <2>6 DEF OnMessageEnded
      <4>3. QED
        BY <4>1, <4>2 DEF ListInv, MessageInv
    <3>2. CASE id # NoConversation
      BY <2>6, <3>2, EndedListed, EndedHolds
    <3>3. QED
      BY <3>1, <3>2
  <2>7. CASE OnRequestError(id)
    <3>1. ListInv'
      BY <2>7, WindowListed DEF OnRequestError, tables, history
    <3>2. QED
      BY <2>7, <3>1, ErrorHolds
  <2>8. QED
    BY <1>3, <2>1, <2>2, <2>3, <2>4, <2>5, <2>6, <2>7 DEF WindowEvent, ServerAnswers
<1>4. CASE Restart
  BY <1>4, RestartListed, RestartHolds
<1>5. CASE UNCHANGED vars
  BY <1>5 DEF vars, ListInv, Listed, Fresh, OneItem, MessageInv, TablesHold, WindowsHold, NewHolds
<1>6. QED
  BY <1>1, <1>2, <1>3, <1>4, <1>5 DEF Next

(* Tables, list and windows of the conversations with the AI agree: what   *)
(* is saved is listed once under its title, shown once and in order, and   *)
(* an answer stands behind its question.                                   *)
THEOREM HistoryStaysAgreed == Spec => []HistoryAgrees
<1>1. HInv => HistoryAgrees
  BY ListInvImplies, MessageInvImplies DEF HInv, HistoryAgrees
<1>2. QED
  BY <1>1, HistoryInit, HistoryNext, PTL DEF Spec
===============================================================================
