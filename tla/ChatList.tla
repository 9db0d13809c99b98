-------------------------------- MODULE ChatList --------------------------------
(* The rows of a conversation and the selection among them                  *)
(* (ChatListModel.cpp), with the clicks and the menu of the items           *)
(* (ChatItemDelegate.cpp), and the change of conversation                   *)
(* (MessageApplication.cpp).                                                *)
EXTENDS Integers, Sequences, FiniteSets

CONSTANTS
  ConversationIds,  \* conversations
  Times,            \* timestamps
  Interval,         \* MESSAGE_TIME_INTERVAL
  Limit,            \* messages read when a conversation is opened: 20
  MaxStored         \* bound: messages of a run

NoConversation == "none"

ASSUME ChatListAssumption ==
  /\ NoConversation \notin ConversationIds /\ Times \subseteq Int
  /\ Interval \in Nat \ {0} /\ Limit \in Nat \ {0} /\ MaxStored \in Nat

VARIABLES
  items,        \* rows: headers, messages, the space at the bottom
  selectedMessageIndex,   \* 0 for none
  marked,       \* ids of the messages that show themselves selected
  store,        \* the database: messages of every conversation
  conversation, \* the one that is open
  menu,         \* row of the open context menu, 0 for none
  target,       \* history: message the menu was opened on
  running,      \* FALSE once a row without a message was used as one
  stale,        \* history: the list was cleared with a selection in it
  deleted,      \* history: ids of the deleted messages
  hidden        \* history: ids of the messages over the limit

chatListVars ==
  <<items, selectedMessageIndex, marked, store, conversation, menu, target, running, stale, deleted,
    hidden>>

ChatMessages == [id : 1..MaxStored, time : Times]
IsMessage(row) == row.kind = "message"
Header(m) == [kind |-> "header", time |-> m.time]
MessageRow(m) == [kind |-> "message", message |-> m]
BottomSpace == [kind |-> "bottom"]

ChatListInit ==
  /\ items = <<>> /\ selectedMessageIndex = 0 /\ marked = {}
  /\ store = [c \in ConversationIds |-> {}] /\ conversation = NoConversation
  /\ menu = 0 /\ target = 0 /\ running = TRUE /\ stale = FALSE /\ deleted = {} /\ hidden = {}

StoredIds == {id \in 1..MaxStored : \E c \in ConversationIds : \E m \in store[c] : m.id = id}
Count == Cardinality(StoredIds)

ShouldAddTimeHeader(prev, curr) == prev - curr >= Interval \/ curr - prev >= Interval

MessageRows(list) == {k \in 1..Len(list) : IsMessage(list[k])}
LastMessage(list) == list[CHOOSE k \in MessageRows(list) : \A j \in MessageRows(list) : j <= k].message

WithoutBottomSpace(list) ==
  IF list # <<>> /\ list[Len(list)] = BottomSpace THEN SubSeq(list, 1, Len(list) - 1) ELSE list

WithTimeHeader(list, m) ==
  IF MessageRows(list) = {} \/ ShouldAddTimeHeader(LastMessage(list).time, m.time)
  THEN Append(list, Header(m)) ELSE list

(* ChatListModel::addMessage.  Its return for an invalid time is never      *)
(* taken: times are parsed with the present one for want of another         *)
(* (MessageHandler::parseTimestamp), and read back as they were written.    *)
AddedRows(list, m) ==
  Append(Append(WithTimeHeader(WithoutBottomSpace(list), m), MessageRow(m)), BottomSpace)

-----------------------------------------------------------------------------
(* The selection.  A row is used as a message without a check: one that is  *)
(* not there, or has none, ends the program.                                *)

HasMessage(row) == row \in 1..Len(items) /\ IsMessage(items[row])
IdAt(row) == items[row].message.id

Crash ==
  /\ running' = FALSE
  /\ UNCHANGED <<items, selectedMessageIndex, marked, menu, target, stale, deleted>>

(* Faulty: the message selected before stays marked.                        *)
Select_KeepsMark(row) ==
  /\ marked' = marked \cup {IdAt(row)} /\ selectedMessageIndex' = row
  /\ stale' = FALSE /\ UNCHANGED running

(* setData with TRUE: the one selected before is deselected first.          *)
Select(row) ==
  IF selectedMessageIndex = row THEN UNCHANGED <<marked, selectedMessageIndex, stale, running>>
  ELSE /\ marked' = (IF selectedMessageIndex = 0 THEN marked ELSE marked \ {IdAt(selectedMessageIndex)})
                    \cup {IdAt(row)}
       /\ selectedMessageIndex' = row /\ stale' = FALSE /\ UNCHANGED running

(* setData with FALSE, on whatever row.                                     *)
Deselect ==
  /\ marked' = IF selectedMessageIndex = 0 THEN marked ELSE marked \ {IdAt(selectedMessageIndex)}
  /\ selectedMessageIndex' = 0
  /\ stale' = FALSE /\ UNCHANGED running

Usable == selectedMessageIndex = 0 \/ HasMessage(selectedMessageIndex)

(* A click on a message: on its bubble or beside it, or with the right      *)
(* button, which opens the menu.                                            *)
ClickMessage ==
  \E row \in 1..Len(items) :
    /\ IsMessage(items[row]) /\ menu = 0
    /\ \/ ~Usable /\ selectedMessageIndex # row /\ Crash
       \/ /\ Usable \/ selectedMessageIndex = row
          /\ Select(row)
          /\ \/ UNCHANGED <<menu, target>>
             \/ menu' = row /\ target' = IdAt(row)
          /\ UNCHANGED <<items, deleted>>
    /\ UNCHANGED <<store, conversation, hidden>>

ClickBeside ==
  /\ menu = 0 /\ MessageRows(items) # {}
  /\ IF Usable THEN Deselect /\ UNCHANGED <<items, menu, target, deleted>> ELSE Crash
  /\ UNCHANGED <<store, conversation, hidden>>

(* A click on a header or into the empty view: clearSelection, which checks *)
(* that the row exists.                                                     *)
ClickElsewhere ==
  /\ menu = 0 /\ UNCHANGED <<store, conversation, hidden>>
  /\ IF selectedMessageIndex > Len(items) THEN UNCHANGED chatListVars
     ELSE IF Usable THEN Deselect /\ UNCHANGED <<items, menu, target, deleted>> ELSE Crash

(* Hiding the menu, with the signal aboutToHide.                            *)
CloseMenu ==
  /\ menu # 0 /\ menu' = 0 /\ target' = 0
  /\ Deselect /\ UNCHANGED <<items, store, conversation, deleted, hidden>>

Without(row) == [i \in 1..Len(items) - 1 |-> IF i < row THEN items[i] ELSE items[i + 1]]

(* Faulty: the row after the one of the menu is removed.                    *)
DeleteMessage_OffByOne ==
  /\ menu # 0 /\ menu' = 0 /\ target' = 0
  /\ Deselect
  /\ menu + 1 <= Len(items) /\ items' = Without(menu + 1)
  /\ deleted' = deleted \cup {target} /\ UNCHANGED <<store, conversation, hidden>>

(* The menu hides, then its action removes the row; the database keeps the  *)
(* message.                                                                 *)
DeleteMessage ==
  /\ menu # 0 /\ menu' = 0 /\ target' = 0
  /\ Deselect
  /\ HasMessage(menu) /\ items' = Without(menu)
  /\ deleted' = deleted \cup {target} /\ UNCHANGED <<store, conversation, hidden>>

-----------------------------------------------------------------------------
(* A message of the open conversation, sent or received, also while the     *)
(* menu is open; or one of another, which is only stored.                   *)
AddMessage ==
  \E c \in ConversationIds, t \in Times :
    LET m == [id |-> Count + 1, time |-> t]
    IN /\ Count < MaxStored
       /\ store' = [store EXCEPT ![c] = @ \cup {m}]
       /\ items' = IF c = conversation THEN AddedRows(items, m) ELSE items
       /\ UNCHANGED <<selectedMessageIndex, marked, conversation, menu, target, running, stale, deleted, hidden>>

(* MessageRepository::getMessages: the newest ones in the order of their    *)
(* timestamps, which may be equal.                                          *)
Newest(stored) ==
  {read \in SUBSET stored :
     /\ Cardinality(read) = IF Cardinality(stored) <= Limit THEN Cardinality(stored) ELSE Limit
     /\ \A m \in read, old \in stored \ read : old.time <= m.time}
InTimeOrder(read) ==
  {s \in [1..Cardinality(read) -> read] :
     \A i, j \in 1..Cardinality(read) : i < j => s[i] # s[j] /\ s[i].time <= s[j].time}

RowsOf(messages) ==
  LET filled[n \in 0..Len(messages)] == IF n = 0 THEN <<>> ELSE AddedRows(filled[n - 1], messages[n])
  IN  filled[Len(messages)]

(* clear forgets the rows, not the index of the selected one; the messages  *)
(* read are new objects.                                                    *)
OnConversationClicked ==
  /\ menu = 0
  /\ \E c \in ConversationIds : \E read \in Newest(store[c]) : \E messages \in InTimeOrder(read) :
       /\ conversation' = c
       /\ items' = RowsOf(messages)
       /\ hidden' = {m.id : m \in store[c] \ read}
       /\ marked' = {} /\ stale' = (selectedMessageIndex # 0)
       /\ UNCHANGED <<selectedMessageIndex, store, menu, target, running, deleted>>

ChatListNext ==
  /\ running
  /\ \/ ClickMessage \/ ClickBeside \/ ClickElsewhere \/ CloseMenu \/ DeleteMessage
     \/ AddMessage \/ OnConversationClicked

ChatListSpec == ChatListInit /\ [][ChatListNext]_chatListVars

-----------------------------------------------------------------------------
ChatRows == [kind : {"bottom"}] \cup [kind : {"header"}, time : Times]
            \cup [kind : {"message"}, message : ChatMessages]

ChatListTypeOK ==
  /\ items \in Seq(ChatRows)
  /\ store \in [ConversationIds -> SUBSET ChatMessages]
  /\ selectedMessageIndex \in Nat /\ marked \subseteq 1..MaxStored
  /\ conversation \in ConversationIds \cup {NoConversation}
  /\ menu \in 0..Len(items) /\ target \in 0..MaxStored /\ running \in BOOLEAN /\ stale \in BOOLEAN
  /\ deleted \subseteq 1..MaxStored /\ hidden \subseteq 1..MaxStored

(* The selected row is the one message that shows itself selected, whatever *)
(* was inserted and removed, and the program never takes a header for it;   *)
(* except after a change of conversation, which keeps the old index.        *)
SelectionIsMarked ==
  ~stale => /\ running
            /\ IF selectedMessageIndex = 0 THEN marked = {}
               ELSE HasMessage(selectedMessageIndex) /\ marked = {IdAt(selectedMessageIndex)}

(* Every message stands under a time that is less than the interval away    *)
(* from that of the message above, also when clocks differ; the space is at *)
(* the end.  Deleting a message removes no header and adds none.            *)
HeadersMarkGaps ==
  /\ items # <<>> => items[Len(items)] = BottomSpace /\ \A i \in 1..Len(items) - 1 : items[i] # BottomSpace
  /\ deleted = {} => \A i \in {k \in 1..Len(items) : HasMessage(k)} :
       /\ i > 1
       /\ IF IsMessage(items[i - 1])
          THEN ~ShouldAddTimeHeader(items[i - 1].message.time, items[i].message.time)
          ELSE /\ items[i - 1] = Header(items[i].message)
               /\ i > 2 => ShouldAddTimeHeader(items[i - 2].message.time, items[i].message.time)

(* The menu works on a row number that may be old when an entry is chosen:  *)
(* it still removes the message it was opened on, and no other.             *)
DeletesItsOwn ==
  [][deleted' # deleted =>
       {items'[i] : i \in 1..Len(items')} =
       {items[i] : i \in {k \in 1..Len(items) : ~(IsMessage(items[k]) /\ items[k].message.id = target)}}]_chatListVars

(* Nothing of the open conversation is missing from the list but what was   *)
(* deleted and what the limit left out, nothing is there twice, and the     *)
(* limit leaves out no message later than those it admits.                  *)
ConversationIsListed ==
  conversation # NoConversation =>
    LET listed == {IdAt(k) : k \in MessageRows(items)}
        stored == store[conversation]
    IN  /\ \A i, j \in MessageRows(items) : IdAt(i) = IdAt(j) => i = j
        /\ \A k \in MessageRows(items) : items[k].message \in stored
        /\ \A m \in stored : m.id \in listed \cup deleted \cup hidden
        /\ \A m \in stored : m.id \in hidden =>
             Cardinality({k \in stored : k.id \notin hidden /\ m.time <= k.time}) >= Limit

(* The rows are the conversation, and the selection is one of its messages. *)
RowsAreConversation ==
  /\ ChatListTypeOK
  /\ SelectionIsMarked
  /\ HeadersMarkGaps
  /\ ConversationIsListed
===============================================================================
