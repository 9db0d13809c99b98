-------------------------- MODULE MessageSyncProofs --------------------------
(***************************************************************************)
(* Proofs about MessageSync, and about ChatList, the rows of the open      *)
(* conversation, for any conversations, messages, page size and limit.     *)
(***************************************************************************)
EXTENDS MessageSync, ChatList, FiniteSetTheorems, SequenceTheorems, WellFoundedInduction, TLAPS

(* The two notions of the open conversation differ only when the list has  *)
(* been built anew.                                                        *)
SelectedIsCurrent == selected \in {current, NoChat}

IInv == TypeOK /\ SelectedIsCurrent /\ UnseenIsBadged

WireTypes   == up \in Seq(Requests) /\ down \in Seq(Notices)
StoreTypes  == stored \in Copies /\ misfiled \in Copies /\ unsaved \in SUBSET Messages
ScreenTypes == /\ view \in Copies /\ current \in Chats /\ selected \in Chats
               /\ badged \in SUBSET Conversations /\ unseen \in SUBSET Messages
               /\ apart \in SUBSET Messages
ServerTypes == /\ held \in SUBSET Messages /\ confirmed \in SUBSET Messages
               /\ atLogin \in SUBSET Messages /\ renumbers \in BOOLEAN /\ again \in SUBSET Messages
CountTypes  == /\ phase \in {"login", "online", "offline"}
               /\ sent \in 0..MaxMessages /\ logins \in 0..MaxLogins /\ faults \in 0..MaxFaults

(* The types, part by part.                                                *)
LEMMA TypesByPart ==
  TypeOK <=> WireTypes /\ StoreTypes /\ ScreenTypes /\ ServerTypes /\ CountTypes
BY DEF TypeOK, WireTypes, StoreTypes, ScreenTypes, ServerTypes, CountTypes

-----------------------------------------------------------------------------
(* Storing never removes a copy, and leaves one of what is stored.         *)
LEMMA AddedFacts ==
  ASSUME NEW copies \in Copies, NEW set
  PROVE  /\ Added(copies, set) \in Copies
         /\ \A m \in Messages : /\ Added(copies, set)[m] >= copies[m]
                                /\ m \in set => Added(copies, set)[m] > 0
                                /\ m \notin set => Added(copies, set)[m] = copies[m]
<1>1. MaxCopies \in Nat \ {0} /\ \A m \in Messages : copies[m] \in 0..MaxCopies
  BY BoundsAssumption DEF Copies
<1>2. ASSUME NEW m \in Messages
      PROVE  /\ Added(copies, set)[m] \in 0..MaxCopies
             /\ Added(copies, set)[m] >= copies[m]
             /\ m \in set => Added(copies, set)[m] > 0
             /\ m \notin set => Added(copies, set)[m] = copies[m]
  BY <1>1 DEF Added
<1>3. Added(copies, set) = [m \in Messages |-> Added(copies, set)[m]]
  BY DEF Added
<1>4. QED
  BY <1>2, <1>3 DEF Copies

(* The server's answers are notices, however many messages wait.           *)
LEMMA NoticeTypes ==
  ASSUME ServerTypes, NEW page
  PROVE  /\ Notice("offline_messages", Page(page), Cardinality(Pending)) \in Notices
         /\ Notice("login_success", {}, 0) \in Notices
         /\ \A m \in Messages : Notice("chat", {m}, 0) \in Notices
<1>1. Pending \in SUBSET Messages /\ Page(page) \in SUBSET Messages
  BY DEF ServerTypes, Pending, Page
<1>2. IsFiniteSet(Messages)
  BY FS_Interval, BoundsAssumption DEF Messages
<1>3. Cardinality(Pending) \in Nat
  BY <1>1, <1>2, FS_Subset, FS_CardinalityType
<1>4. QED
  BY <1>1, <1>3 DEF Notice, Notices

(* What the client asks for is a request, of the first two pages at most.  *)
LEMMA RequestTypes ==
  ASSUME NEW batch \in SUBSET Messages, NEW count
  PROVE  /\ SyncOfflineMessages(1) \in Requests
         /\ ConfirmMessagesSynced(batch) \in Requests
         /\ NextPage(batch, count) \in Seq(Requests)
<1>1. SyncOfflineMessages(1) \in Requests /\ SyncOfflineMessages(2) \in Requests
  BY DEF SyncOfflineMessages, Request, Requests
<1>2. ConfirmMessagesSynced(batch) \in Requests
  BY DEF ConfirmMessagesSynced, Request, Requests
<1>3. QED
  BY <1>1, <1>2 DEF NextPage

-----------------------------------------------------------------------------
(* Statements that fail are counted up to their bound.                     *)
LEMMA FailuresCounted ==
  ASSUME CountTypes, NEW set \in SUBSET Messages, NEW lost \in Failing(set), Fails(lost)
  PROVE  lost \in SUBSET set /\ faults' \in 0..MaxFaults /\ unsaved' = unsaved \cup lost
<1>1. lost \in SUBSET set /\ faults + Cardinality(lost) <= MaxFaults
  BY DEF Failing
<1>2. IsFiniteSet(Messages)
  BY FS_Interval, BoundsAssumption DEF Messages
<1>3. Cardinality(lost) \in Nat
  BY <1>1, <1>2, FS_Subset, FS_CardinalityType
<1>4. faults' = faults + Cardinality(lost) /\ unsaved' = unsaved \cup lost
  BY DEF Fails
<1> QED
  BY <1>1, <1>3, <1>4, BoundsAssumption DEF CountTypes

(* A received batch keeps the types, and every new unseen message gets its *)
(* badge: what is not in the open conversation is not selected either.     *)
LEMMA ReceivedKeeps ==
  ASSUME IInv, NEW texts \in SUBSET Messages, NEW astray \in SUBSET texts,
         HandleReceived(texts, astray)
  PROVE  /\ StoreTypes' /\ ScreenTypes' /\ SelectedIsCurrent' /\ UnseenIsBadged'
         /\ faults' \in 0..MaxFaults
<1> DEFINE found == texts \ astray
           away == found \ Here(found)
<1>1. StoreTypes /\ ScreenTypes /\ SelectedIsCurrent /\ UnseenIsBadged /\ CountTypes
  BY TypesByPart DEF IInv
<1>2. \A m \in Messages : ConversationOf[m] \in Conversations
  BY MessageAssumption
<1>3. PICK lost \in Failing(texts) : /\ stored' = Added(stored, texts \ (astray \cup lost))
                                     /\ misfiled' = Added(misfiled, astray \ lost)
                                     /\ Fails(lost) /\ Delivers(found, lost)
  BY DEF HandleReceived
<1>4. lost \in SUBSET Messages /\ unsaved' = unsaved \cup lost /\ faults' \in 0..MaxFaults
  BY <1>1, <1>3, FailuresCounted
<1>5. StoreTypes'
  BY <1>1, <1>3, <1>4, AddedFacts DEF StoreTypes
<1>6. view' = Added(view, Here(found)) /\ apart' = apart \cup Here(found \cap lost)
  BY <1>3 DEF Delivers
<1>7. view' \in Copies /\ apart' \in SUBSET Messages
  BY <1>1, <1>6, AddedFacts DEF ScreenTypes, Here
<1>8. /\ badged' = badged \cup ({ConversationOf[m] : m \in away} \ {selected})
      /\ unseen' = unseen \cup away /\ away \subseteq Messages
      /\ UNCHANGED <<current, selected>>
  BY <1>3 DEF Delivers
<1>9. ScreenTypes'
  BY <1>1, <1>2, <1>7, <1>8 DEF ScreenTypes
<1>10. ASSUME NEW m \in away PROVE ConversationOf[m] \in badged'
  <2>1. ConversationOf[m] # current /\ ConversationOf[m] # NoChat
    BY <1>2, ChatAssumption DEF Here
  <2>2. ConversationOf[m] # selected
    BY <1>1, <2>1 DEF SelectedIsCurrent
  <2>3. QED
    BY <1>8, <2>2
<1>11. UnseenIsBadged'
  BY <1>1, <1>8, <1>10 DEF UnseenIsBadged
<1>12. SelectedIsCurrent'
  BY <1>1, <1>8 DEF SelectedIsCurrent
<1>13. QED
  BY <1>4, <1>5, <1>9, <1>11, <1>12

(* What opening a conversation reads back.                                 *)
LEMMA ReadBack ==
  ASSUME IInv, NEW c \in Conversations, Selects(c)
  PROVE  /\ view' \in Copies /\ faults' \in 0..MaxFaults
         /\ apart' = {m \in Messages : ConversationOf[m] = c /\ view'[m] # stored[m]}
         /\ \A m \in Messages : ConversationOf[m] # c => view'[m] = 0
<1>1. faults \in 0..MaxFaults /\ MaxFaults \in Nat /\ MaxCopies \in Nat \ {0}
  BY BoundsAssumption DEF IInv, TypeOK
<1>2. GetMessages(c) /\ apart' = {m \in Messages : ConversationOf[m] = c /\ view'[m] # stored[m]}
  BY DEF Selects
<1>3. CASE faults < MaxFaults /\ faults' = faults + 1 /\ view' = None
  BY <1>1, <1>2, <1>3 DEF None, Copies
<1>4. ASSUME NEW rows \in Readable(c), UNCHANGED faults,
             view' = [m \in Messages |-> Cardinality({r \in rows : r[1] = m})]
      PROVE  /\ view' \in Copies /\ faults' \in 0..MaxFaults
             /\ \A m \in Messages : ConversationOf[m] # c => view'[m] = 0
  <2>1. rows \subseteq Rows(c)
    BY DEF Readable
  <2>2. ASSUME NEW m \in Messages PROVE view'[m] \in 0..MaxCopies /\ (ConversationOf[m] # c => view'[m] = 0)
    <3> DEFINE mine == {r \in rows : r[1] = m}
               f == [r \in mine |-> r[2]]
    <3>1. \A r \in mine : r = <<m, r[2]>> /\ r[2] \in 1..MaxCopies /\ ConversationOf[m] = c
      BY <2>1 DEF Rows
    <3>2. view'[m] = Cardinality(mine)
      BY <1>4
    <3>3. \A r, t \in mine : f[r] = f[t] => r = t
      <4> SUFFICES ASSUME NEW r \in mine, NEW t \in mine, r[2] = t[2] PROVE r = t
        OBVIOUS
      <4>1. r = <<m, r[2]>> /\ t = <<m, t[2]>>
        BY <3>1
      <4> QED
        BY <4>1
    <3>4. f \in [mine -> 1..MaxCopies]
      BY <3>1
    <3>5. IsFiniteSet(1..MaxCopies) /\ Cardinality(1..MaxCopies) = MaxCopies
      BY <1>1, FS_Interval
    <3> HIDE DEF f
    <3>6. f \in Injection(mine, 1..MaxCopies)
      BY <3>3, <3>4 DEF Injection, IsInjective
    <3>7. IsFiniteSet(mine) /\ Cardinality(mine) <= MaxCopies
      BY <3>5, <3>6, FS_Injection
    <3>8. Cardinality(mine) \in Nat
      BY <3>7, FS_CardinalityType
    <3>9. ASSUME ConversationOf[m] # c PROVE Cardinality(mine) = 0
      <4>1. mine = {}
        BY <3>1, <3>9
      <4> QED
        BY <4>1, FS_EmptySet
    <3> HIDE DEF mine
    <3> QED
      BY <1>1, <3>2, <3>7, <3>8, <3>9
  <2>3. view' = [m \in Messages |-> view'[m]]
    BY <1>4
  <2> QED
    BY <1>1, <1>4, <2>2, <2>3 DEF Copies
<1> QED
  BY <1>2, <1>3, <1>4 DEF GetMessages

(* Steps that leave the screen alone.                                      *)
LEMMA ScreenKept ==
  ASSUME IInv, UNCHANGED screenVars, WireTypes', StoreTypes', ServerTypes', CountTypes'
  PROVE  IInv'
<1>1. ScreenTypes'
  BY TypesByPart DEF IInv, ScreenTypes, screenVars
<1>2. SelectedIsCurrent' /\ UnseenIsBadged'
  BY DEF IInv, SelectedIsCurrent, UnseenIsBadged, screenVars
<1>3. TypeOK'
  BY <1>1, TypesByPart DEF TypeOK, WireTypes, StoreTypes, ScreenTypes, ServerTypes, CountTypes
<1>4. QED
  BY <1>2, <1>3 DEF IInv

(* Steps of the screen.                                                    *)
LEMMA PartsKeep ==
  ASSUME WireTypes', StoreTypes', ScreenTypes', ServerTypes', CountTypes',
         SelectedIsCurrent', UnseenIsBadged'
  PROVE  IInv'
BY DEF IInv, TypeOK, WireTypes, StoreTypes, ScreenTypes, ServerTypes, CountTypes

(* Every step keeps the invariant.                                         *)
LEMMA Preserved == IInv /\ [Next]_vars => IInv'
<1> SUFFICES ASSUME IInv, [Next]_vars
             PROVE  IInv'
  OBVIOUS
<1>1. WireTypes /\ StoreTypes /\ ScreenTypes /\ ServerTypes /\ CountTypes
  BY TypesByPart DEF IInv
<1>2. SelectedIsCurrent /\ UnseenIsBadged
  BY DEF IInv
<1>3. ASSUME UNCHANGED storeVars PROVE StoreTypes'
  BY <1>1, <1>3 DEF StoreTypes, storeVars
<1>4. ASSUME UNCHANGED serverVars PROVE ServerTypes'
  BY <1>1, <1>4 DEF ServerTypes, serverVars
<1>5. ASSUME UNCHANGED <<phase, sent, logins>>, faults' \in 0..MaxFaults PROVE CountTypes'
  BY <1>1, <1>5 DEF CountTypes
<1>0. UNCHANGED faults => faults' \in 0..MaxFaults
  BY <1>1 DEF CountTypes
<1>6. ASSUME UNCHANGED wires PROVE WireTypes'
  BY <1>1, <1>6 DEF WireTypes, wires
<1>7. down # <<>> => Head(down) \in Notices /\ Tail(down) \in Seq(Notices)
  BY <1>1 DEF WireTypes
<1>8. None \in Copies
  BY BoundsAssumption DEF None, Copies
<1>9. \A m \in Messages : ConversationOf[m] \in Conversations
  BY MessageAssumption
<1>10. ASSUME NewMessage PROVE IInv'
  <2>1. sent' \in Messages /\ CountTypes'
    BY <1>1, <1>10, BoundsAssumption DEF NewMessage, CountTypes, Messages
  <2>2. Notice("chat", {sent'}, 0) \in Notices
    BY <1>1, <2>1, NoticeTypes
  <2>3. WireTypes'
    BY <1>1, <1>10, <2>2 DEF NewMessage, WireTypes
  <2>4. ServerTypes'
    BY <1>1, <1>10, <2>1 DEF NewMessage, ServerTypes
  <2>5. UNCHANGED <<storeVars, screenVars>>
    BY <1>10 DEF NewMessage
  <2>6. QED
    BY <1>3, <2>1, <2>3, <2>4, <2>5, ScreenKept
<1>11. ASSUME ServerReceives PROVE IInv'
  <2>1. Head(up) \in Requests /\ Tail(up) \in Seq(Requests)
    BY <1>1, <1>11 DEF ServerReceives, WireTypes
  <2>2. Notice("offline_messages", Page(Head(up).page), Cardinality(Pending)) \in Notices
    BY <1>1, NoticeTypes
  <2>3. WireTypes'
    BY <1>1, <1>11, <2>1, <2>2 DEF ServerReceives, WireTypes
  <2>4. Head(up).ids \in SUBSET Messages /\ Surplus(Head(up).page) \in SUBSET Messages
    BY <1>1, <2>1 DEF Requests, Surplus, Page, Pending, ServerTypes
  <2>5. /\ confirmed' \in {confirmed, confirmed \cup Head(up).ids}
        /\ again' \in {again, again \cup Surplus(Head(up).page)}
        /\ UNCHANGED <<held, atLogin, renumbers, storeVars, screenVars, phase, countVars>>
    BY <1>11 DEF ServerReceives
  <2>6. ServerTypes'
    BY <1>1, <2>4, <2>5 DEF ServerTypes
  <2>7. QED
    BY <1>0, <1>3, <1>5, <2>3, <2>5, <2>6, ScreenKept DEF countVars
<1>12. ASSUME HandleLoginSuccess PROVE IInv'
  <2>1. SyncOfflineMessages(1) \in Requests
    BY RequestTypes
  <2>2. WireTypes'
    BY <1>1, <1>7, <1>12, <2>1 DEF HandleLoginSuccess, Receives, WireTypes
  <2>3. UNCHANGED <<storeVars, screenVars, serverVars, phase, sent, logins, faults>>
    BY <1>12 DEF HandleLoginSuccess, countVars
  <2>4. QED
    BY <1>0, <1>3, <1>4, <1>5, <2>2, <2>3, ScreenKept
<1>13. ASSUME HandleChat PROVE IInv'
  <2>1. WireTypes' /\ Head(down).batch \cap Texts \in SUBSET Messages
    BY <1>1, <1>7, <1>13 DEF HandleChat, Receives, WireTypes, Notices
  <2>2. HandleReceived(Head(down).batch \cap Texts, {})
    BY <1>13 DEF HandleChat
  <2>3. StoreTypes' /\ ScreenTypes' /\ SelectedIsCurrent' /\ UnseenIsBadged' /\ faults' \in 0..MaxFaults
    BY <2>1, <2>2, ReceivedKeeps
  <2>4. UNCHANGED <<serverVars, phase, sent, logins>>
    BY <1>13 DEF HandleChat
  <2>5. QED
    BY <1>4, <1>5, <2>1, <2>3, <2>4, PartsKeep
<1>14. ASSUME HandleOfflineMessages PROVE IInv'
  <2> DEFINE batch == Head(down).batch
             texts == batch \cap Texts
             astray == {m \in texts : ConversationOf[m] \in Groups}
  <2>1. batch \in SUBSET Messages /\ texts \in SUBSET Messages /\ astray \in SUBSET texts
    BY <1>7, <1>14 DEF HandleOfflineMessages, Receives, Notices
  <2>2. /\ HandleReceived(texts, astray)
        /\ down' = Tail(down) /\ down # <<>>
        /\ up' = up \o (IF batch = {} THEN <<>> ELSE <<ConfirmMessagesSynced(batch)>>)
                    \o NextPage(batch, Head(down).count)
    BY <1>14 DEF HandleOfflineMessages, Receives
  <2>3. ConfirmMessagesSynced(batch) \in Requests /\ NextPage(batch, Head(down).count) \in Seq(Requests)
    BY <2>1, RequestTypes
  <2>4. WireTypes'
    BY <1>1, <1>7, <2>2, <2>3 DEF WireTypes
  <2>5. StoreTypes' /\ ScreenTypes' /\ SelectedIsCurrent' /\ UnseenIsBadged' /\ faults' \in 0..MaxFaults
    BY <2>1, <2>2, ReceivedKeeps
  <2>6. UNCHANGED <<serverVars, phase, sent, logins>>
    BY <1>14 DEF HandleOfflineMessages
  <2>7. QED
    BY <1>4, <1>5, <2>4, <2>5, <2>6, PartsKeep
<1>15. ASSUME NEW c \in Conversations, OnMessageClicked(c) PROVE IInv'
  <2>1. /\ selected' = c /\ current' = c /\ badged' = badged \ {c}
        /\ unseen' = {m \in unseen : ConversationOf[m] # c}
        /\ UNCHANGED <<wires, storeVars, serverVars, phase, sent, logins>>
    BY <1>15 DEF OnMessageClicked, Selects
  <2>2. view' \in Copies /\ apart' \in SUBSET Messages /\ faults' \in 0..MaxFaults
    BY <1>15, ReadBack DEF OnMessageClicked
  <2>3. ScreenTypes'
    BY <1>1, <2>1, <2>2 DEF ScreenTypes, Chats
  <2>4. SelectedIsCurrent' /\ UnseenIsBadged'
    BY <1>2, <2>1 DEF SelectedIsCurrent, UnseenIsBadged
  <2>5. QED
    BY <1>3, <1>4, <1>5, <1>6, <2>1, <2>2, <2>3, <2>4, PartsKeep
<1>16. ASSUME OnSendText PROVE IInv'
  <2>1. sent' = sent + 1 /\ sent < MaxMessages /\ view' = Added(view, {sent'})
    BY <1>16 DEF OnSendText
  <2>2. PICK lost \in Failing({sent'}) : /\ stored' = Added(stored, {sent'} \ lost)
                                         /\ apart' = apart \cup lost /\ Fails(lost)
    BY <1>16 DEF OnSendText
  <2>3. {sent'} \in SUBSET Messages
    BY <1>1, <2>1, BoundsAssumption DEF CountTypes, Messages
  <2>4. lost \in SUBSET Messages /\ faults' \in 0..MaxFaults /\ unsaved' = unsaved \cup lost
    BY <1>1, <2>2, <2>3, FailuresCounted
  <2>5. UNCHANGED <<wires, misfiled, serverVars, current, selected, badged, unseen, phase, logins>>
    BY <1>16 DEF OnSendText
  <2>6. CountTypes'
    BY <1>1, <2>1, <2>4, <2>5, BoundsAssumption DEF CountTypes
  <2>7. StoreTypes' /\ view' \in Copies /\ apart' \in SUBSET Messages
    BY <1>1, <2>1, <2>2, <2>4, <2>5, AddedFacts DEF StoreTypes, ScreenTypes
  <2>8. ScreenTypes' /\ SelectedIsCurrent' /\ UnseenIsBadged'
    BY <1>1, <1>2, <2>5, <2>7 DEF ScreenTypes, SelectedIsCurrent, UnseenIsBadged
  <2>9. QED
    BY <1>4, <1>6, <2>5, <2>6, <2>7, <2>8, PartsKeep
<1>17. ASSUME UpdateMessages PROVE IInv'
  <2>1. /\ selected' = NoChat /\ badged' = {} /\ unseen' = {}
        /\ UNCHANGED <<wires, storeVars, serverVars, phase, sent, logins, faults, current, view, apart>>
    BY <1>17 DEF UpdateMessages, countVars
  <2>2. ScreenTypes' /\ SelectedIsCurrent' /\ UnseenIsBadged'
    BY <1>1, <2>1 DEF ScreenTypes, Chats, SelectedIsCurrent, UnseenIsBadged
  <2>3. QED
    BY <1>0, <1>3, <1>4, <1>5, <1>6, <2>1, <2>2, PartsKeep
<1>18. ASSUME Login PROVE IInv'
  <2>1. Notice("login_success", {}, 0) \in Notices
    BY <1>1, NoticeTypes
  <2>2. WireTypes'
    BY <1>1, <1>18, <2>1 DEF Login, WireTypes
  <2>3. ServerTypes' /\ CountTypes'
    BY <1>1, <1>18, BoundsAssumption DEF Login, ServerTypes, CountTypes
  <2>4. UNCHANGED <<storeVars, screenVars>>
    BY <1>18 DEF Login
  <2>5. QED
    BY <1>3, <2>2, <2>3, <2>4, ScreenKept
<1>19. ASSUME ConnectionLost PROVE IInv'
  <2>1. WireTypes' /\ CountTypes'
    BY <1>1, <1>19 DEF ConnectionLost, WireTypes, CountTypes, countVars
  <2>2. UNCHANGED <<storeVars, screenVars, serverVars>>
    BY <1>19 DEF ConnectionLost
  <2>3. QED
    BY <1>3, <1>4, <2>1, <2>2, ScreenKept
<1>20. ASSUME Restart PROVE IInv'
  <2>1. WireTypes' /\ CountTypes'
    BY <1>1, <1>20 DEF Restart, WireTypes, CountTypes, countVars
  <2>2. /\ current' = NoChat /\ selected' = NoChat
        /\ view' = None /\ badged' = {} /\ unseen' = {} /\ apart' = {}
        /\ UNCHANGED <<storeVars, serverVars>>
    BY <1>20 DEF Restart
  <2>3. ScreenTypes' /\ SelectedIsCurrent' /\ UnseenIsBadged'
    BY <1>8, <2>2 DEF ScreenTypes, Chats, SelectedIsCurrent, UnseenIsBadged
  <2>4. QED
    BY <1>3, <1>4, <2>1, <2>2, <2>3, PartsKeep
<1>21. ASSUME UNCHANGED vars PROVE IInv'
  BY <1>21 DEF vars, IInv, TypeOK, SelectedIsCurrent, UnseenIsBadged
<1>22. QED
  BY <1>10, <1>11, <1>12, <1>13, <1>14, <1>15, <1>16, <1>17, <1>18, <1>19, <1>20, <1>21
     DEF Next

(* The invariant is inductive, for any conversations and messages.         *)
THEOREM Inductive == Spec => []IInv
<1>1. Init => IInv
  <2> SUFFICES ASSUME Init PROVE IInv
    OBVIOUS
  <2>1. None \in Copies /\ 0 \in 0..MaxMessages /\ 0 \in 0..MaxLogins /\ 0 \in 0..MaxFaults
    BY BoundsAssumption DEF None, Copies
  <2>2. TypeOK
    BY <2>1 DEF Init, TypeOK, Chats
  <2>3. SelectedIsCurrent /\ UnseenIsBadged
    BY DEF Init, SelectedIsCurrent, UnseenIsBadged
  <2>4. QED
    BY <2>2, <2>3 DEF IInv
<1>2. QED
  BY <1>1, Preserved, PTL DEF Spec

(* Every variable has its type.                                            *)
THEOREM TypeCorrect == Spec => []TypeOK
<1>1. IInv => TypeOK
  BY DEF IInv
<1>2. QED
  BY <1>1, Inductive, PTL

(* Until the list is built anew, a message that came and was not seen is   *)
(* announced, however clicks and messages interleave.                      *)
THEOREM UnseenAreBadged == Spec => []UnseenIsBadged
<1>1. IInv => UnseenIsBadged
  BY DEF IInv
<1>2. QED
  BY <1>1, Inductive, PTL

-----------------------------------------------------------------------------
(* What is confirmed, or about to be, is in the table, or addMessage has   *)
(* failed to insert it.                                                    *)

StoredSet == {m \in Messages : IsStored(m) \/ m \in unsaved}

(* The texts named by a sequence of requests are among some messages.      *)
Within(requests, D) == \A i \in 1..Len(requests) : requests[i].ids \cap Texts \subseteq D

ConfirmedIsStored == confirmed \cap Texts \subseteq StoredSet /\ Within(up, StoredSet)

(* Requests that are joined, or taken, name no more messages.              *)
LEMMA WithinFacts ==
  ASSUME NEW s \in Seq(Requests), NEW t \in Seq(Requests), NEW D, NEW E,
         Within(s, D), Within(t, D), D \subseteq E
  PROVE  /\ Within(s \o t, E)
         /\ s # <<>> => Within(Tail(s), E) /\ Head(s).ids \cap Texts \subseteq E
         /\ Within(<<>>, E)
<1>1. ASSUME NEW i \in 1..Len(s \o t) PROVE (s \o t)[i].ids \cap Texts \subseteq E
  <2>1. CASE i <= Len(s)
    <3>1. (s \o t)[i] = s[i] /\ i \in 1..Len(s)
      BY <2>1
    <3>2. QED
      BY <3>1 DEF Within
  <2>2. CASE i > Len(s)
    <3>1. (s \o t)[i] = t[i - Len(s)] /\ i - Len(s) \in 1..Len(t)
      BY <2>2
    <3>2. QED
      BY <3>1 DEF Within
  <2>3. QED
    BY <2>1, <2>2
<1>2. ASSUME s # <<>>, NEW i \in 1..Len(Tail(s)) PROVE Tail(s)[i].ids \cap Texts \subseteq E
  <2>1. Tail(s)[i] = s[i + 1] /\ i + 1 \in 1..Len(s)
    BY <1>2
  <2>2. QED
    BY <2>1 DEF Within
<1>3. s # <<>> => Head(s) = s[1] /\ 1 \in 1..Len(s)
  OBVIOUS
<1>4. s # <<>> => Head(s).ids \cap Texts \subseteq E
  BY <1>3 DEF Within
<1>5. QED
  BY <1>1, <1>2, <1>4 DEF Within

(* What sets a message apart in the table is never taken from it.          *)
LEMMA StoredStays ==
  ASSUME IInv, [Next]_vars
  PROVE  StoredSet \subseteq StoredSet'
<1>1. stored \in Copies /\ misfiled \in Copies
  BY DEF IInv, TypeOK
<1> DEFINE Grows == /\ \A m \in Messages : stored'[m] >= stored[m] /\ misfiled'[m] >= misfiled[m]
                    /\ unsaved \subseteq unsaved'
<1>2. SUFFICES ASSUME Grows, stored' \in Copies, misfiled' \in Copies
               PROVE  StoredSet \subseteq StoredSet'
  <2>1. stored' \in Copies /\ misfiled' \in Copies
    BY Preserved DEF IInv, TypeOK
  <2>2. Grows
    <3>1. ASSUME UNCHANGED storeVars PROVE Grows
      BY <1>1, <3>1 DEF storeVars, Copies
    <3>2. ASSUME NEW texts, NEW astray, HandleReceived(texts, astray) PROVE Grows
      BY <1>1, <3>2, AddedFacts DEF HandleReceived, Fails
    <3>3. CASE HandleChat
      BY <3>2, <3>3 DEF HandleChat
    <3>4. CASE HandleOfflineMessages
      BY <3>2, <3>4 DEF HandleOfflineMessages
    <3>5. CASE OnSendText
      BY <1>1, <3>5, AddedFacts DEF OnSendText, Copies, Fails
    <3>6. CASE \/ NewMessage \/ ServerReceives \/ HandleLoginSuccess
               \/ \E c \in Conversations : OnMessageClicked(c)
               \/ UpdateMessages \/ Login \/ ConnectionLost \/ Restart
      <4> HIDE DEF Grows
      <4>1. QED
        BY <3>1, <3>6 DEF NewMessage, ServerReceives, HandleLoginSuccess, OnMessageClicked, Selects,
                          UpdateMessages, Login, ConnectionLost, Restart
    <3>7. CASE UNCHANGED vars
      BY <3>1, <3>7 DEF vars, storeVars
    <3>8. QED
      BY <3>3, <3>4, <3>5, <3>6, <3>7 DEF Next
  <2>3. QED
    BY <2>1, <2>2, <1>2
<1>3. QED
  BY <1>1, <1>2 DEF StoredSet, IsStored, Copies

(* A batch that was received is stored, but for what could not be.         *)
LEMMA ReceivedIsStored ==
  ASSUME IInv, NEW texts \in SUBSET Messages, NEW astray \in SUBSET texts, HandleReceived(texts, astray)
  PROVE  texts \subseteq StoredSet'
<1>1. PICK lost \in Failing(texts) : /\ stored' = Added(stored, texts \ (astray \cup lost))
                                     /\ misfiled' = Added(misfiled, astray \ lost)
                                     /\ unsaved' = unsaved \cup lost
  BY DEF HandleReceived, Fails
<1>2. stored \in Copies /\ misfiled \in Copies
  BY DEF IInv, TypeOK
<1>3. stored' \in Copies /\ misfiled' \in Copies
  BY <1>1, <1>2, AddedFacts
<1>4. ASSUME NEW m \in texts PROVE stored'[m] > 0 \/ misfiled'[m] > 0 \/ m \in unsaved'
  <2>1. m \in lost \/ m \in texts \ (astray \cup lost) \/ m \in astray \ lost
    OBVIOUS
  <2> QED
    BY <1>1, <1>2, <2>1, AddedFacts
<1> QED
  BY <1>3, <1>4 DEF StoredSet, IsStored, Copies

(* Nothing that the server was told to forget is lost, whenever connection *)
(* or program end, but the messages that addMessage could not insert.      *)
THEOREM NothingIsLost == Spec => []NoneLost
<1>1. Init => ConfirmedIsStored
  BY DEF Init, ConfirmedIsStored, Within
<1>2. IInv /\ ConfirmedIsStored /\ [Next]_vars => ConfirmedIsStored'
  <2> SUFFICES ASSUME IInv, ConfirmedIsStored, [Next]_vars
               PROVE  ConfirmedIsStored'
    OBVIOUS
  <2>1. StoredSet \subseteq StoredSet'
    BY StoredStays
  <2>2. up \in Seq(Requests) /\ down \in Seq(Notices) /\ <<>> \in Seq(Requests)
    BY DEF IInv, TypeOK
  <2>3. /\ confirmed \cap Texts \subseteq StoredSet'
        /\ Within(up, StoredSet') /\ Within(<<>>, StoredSet')
        /\ up # <<>> => Within(Tail(up), StoredSet') /\ Head(up).ids \cap Texts \subseteq StoredSet'
    <3>1. Within(up, StoredSet) /\ Within(<<>>, StoredSet)
      BY DEF ConfirmedIsStored, Within
    <3>2. Within(up, StoredSet')
      BY <2>1, <3>1 DEF Within
    <3>3. QED
      BY <2>1, <2>2, <3>1, <3>2, WithinFacts DEF ConfirmedIsStored
  <2>4. ASSUME UNCHANGED <<up, confirmed>> PROVE ConfirmedIsStored'
    BY <2>3, <2>4 DEF ConfirmedIsStored
  <2>5. ASSUME up' = <<>>, UNCHANGED confirmed PROVE ConfirmedIsStored'
    BY <2>3, <2>5 DEF ConfirmedIsStored
  <2>6. CASE ServerReceives
    <3>1. up # <<>> /\ up' = Tail(up)
      BY <2>6 DEF ServerReceives
    <3>2. confirmed' \in {confirmed, confirmed \cup Head(up).ids}
      BY <2>6 DEF ServerReceives
    <3>3. QED
      BY <2>3, <3>1, <3>2 DEF ConfirmedIsStored
  <2>7. ASSUME NEW ids, NEW more \in Seq(Requests), UNCHANGED confirmed,
               ids \cap Texts \subseteq StoredSet',
               \A i \in 1..Len(more) : more[i].ids \subseteq ids,
               up' = up \o more
        PROVE  ConfirmedIsStored'
    <3>1. Within(more, StoredSet')
      BY <2>7 DEF Within
    <3>2. Within(up', StoredSet')
      BY <2>2, <2>3, <2>7, <3>1, WithinFacts
    <3>3. QED
      BY <2>3, <2>7, <3>2 DEF ConfirmedIsStored
  <2>8. CASE HandleLoginSuccess
    <3> DEFINE more == <<SyncOfflineMessages(1)>>
    <3>1. more \in Seq(Requests) /\ \A i \in 1..Len(more) : more[i].ids \subseteq {}
      <4>1. SyncOfflineMessages(1) \in Requests
        BY RequestTypes
      <4>2. SyncOfflineMessages(1).ids = {}
        BY DEF SyncOfflineMessages, Request
      <4>3. QED
        BY <4>1, <4>2
    <3>2. up' = up \o more /\ UNCHANGED confirmed
      <4>1. SyncOfflineMessages(1) \in Requests
        BY RequestTypes
      <4>2. up' = Append(up, SyncOfflineMessages(1)) /\ UNCHANGED confirmed
        BY <2>8 DEF HandleLoginSuccess, serverVars
      <4>3. QED
        BY <2>2, <4>1, <4>2, AppendIsConcat
    <3>3. QED
      BY <2>7, <3>1, <3>2
  <2>9. CASE HandleOfflineMessages
    <3> DEFINE batch == Head(down).batch
               texts == batch \cap Texts
               astray == {m \in texts : ConversationOf[m] \in Groups}
               confirm == IF batch = {} THEN <<>> ELSE <<ConfirmMessagesSynced(batch)>>
               next == NextPage(batch, Head(down).count)
               more == confirm \o next
    <3>1. batch \in SUBSET Messages /\ texts \subseteq Messages
      <4>1. Head(down) \in Notices
        BY <2>2, <2>9 DEF HandleOfflineMessages, Receives
      <4>2. QED
        BY <4>1 DEF Notices
    <3>2. confirm \in Seq(Requests) /\ next \in Seq(Requests)
      BY <3>1, RequestTypes
    <3>3. /\ \A i \in 1..Len(confirm) : confirm[i].ids \subseteq batch
          /\ \A i \in 1..Len(next) : next[i].ids \subseteq batch
      BY DEF ConfirmMessagesSynced, SyncOfflineMessages, NextPage, Request
    <3>4. more \in Seq(Requests) /\ \A i \in 1..Len(more) : more[i].ids \subseteq batch
      <4>1. ASSUME NEW i \in 1..Len(more) PROVE more[i].ids \subseteq batch
        <5>1. CASE i <= Len(confirm)
          BY <3>2, <3>3, <5>1
        <5>2. CASE i > Len(confirm)
          <6>1. more[i] = next[i - Len(confirm)] /\ i - Len(confirm) \in 1..Len(next)
            BY <3>2, <5>2
          <6>2. QED
            BY <3>3, <6>1
        <5>3. QED
          BY <5>1, <5>2, <3>2
      <4>2. QED
        BY <3>2, <4>1
    <3>5. HandleReceived(texts, astray) /\ UNCHANGED confirmed /\ up' = (up \o confirm) \o next
      BY <2>9 DEF HandleOfflineMessages, serverVars
    <3>6. up' = up \o more
      <4> HIDE DEF confirm, next
      <4>1. (up \o confirm) \o next = up \o (confirm \o next)
        BY <2>2, <3>2, ConcatAssociative
      <4>2. QED
        BY <3>5, <4>1
    <3>7. texts \subseteq StoredSet'
      BY <3>1, <3>5, ReceivedIsStored
    <3>8. QED
      BY <2>7, <3>4, <3>5, <3>6, <3>7
  <2>10. QED
    BY <2>4, <2>5, <2>6, <2>8, <2>9
       DEF Next, NewMessage, HandleChat, OnMessageClicked, Selects, OnSendText, UpdateMessages, Login,
           ConnectionLost, Restart, wires, serverVars, vars
<1>3. IInv /\ ConfirmedIsStored => NoneLost
  BY DEF IInv, TypeOK, ConfirmedIsStored, StoredSet, NoneLost
<1>4. QED
  BY <1>1, <1>2, <1>3, Inductive, PTL DEF Spec

-----------------------------------------------------------------------------
(* The open conversation and the table.                                    *)

(* One copy more of the same messages is one more of each.                 *)
LEMMA AddedAlike ==
  ASSUME NEW one \in Copies, NEW two \in Copies, NEW S, NEW T, NEW m \in Messages,
         one[m] = two[m], m \in S <=> m \in T
  PROVE  Added(one, S)[m] = Added(two, T)[m]
BY DEF Added

(* The open conversation shows what is stored of it, in whatever order     *)
(* messages come, are sent and conversations are opened, except what       *)
(* opening it did not read and what was shown without being stored.        *)
THEOREM ShownAsStored == Spec => []ViewMatchesStore
<1>1. Init => ViewMatchesStore
  BY MessageAssumption, ChatAssumption DEF Init, ViewMatchesStore, None
<1>2. IInv /\ ViewMatchesStore /\ [Next]_vars => ViewMatchesStore'
  <2> SUFFICES ASSUME IInv, ViewMatchesStore, [Next]_vars
               PROVE  ViewMatchesStore'
    OBVIOUS
  <2>1. /\ stored \in Copies /\ misfiled \in Copies /\ view \in Copies
        /\ \A m \in Messages : ConversationOf[m] \in Conversations
    BY MessageAssumption DEF IInv, TypeOK
  <2>2. ASSUME UNCHANGED <<stored, view, current, apart>> PROVE ViewMatchesStore'
    BY <2>2 DEF ViewMatchesStore
  <2>3. ASSUME NEW shown, NEW kept, NEW more, UNCHANGED current, more \in SUBSET Messages,
               view' = Added(view, shown), stored' = Added(stored, kept), apart' = apart \cup more,
               \A m \in shown : ConversationOf[m] = current,
               \A m \in Messages : ConversationOf[m] = current => (m \in shown <=> m \in kept) \/ m \in more
        PROVE  ViewMatchesStore'
    <3> SUFFICES ASSUME NEW m \in Messages
                 PROVE  IF ConversationOf[m] = current THEN m \in apart' \/ view'[m] = stored'[m]
                        ELSE view'[m] = 0
      BY <2>3 DEF ViewMatchesStore
    <3>1. CASE ConversationOf[m] # current
      <4>1. view[m] = 0 /\ m \notin shown
        BY <2>3, <3>1 DEF ViewMatchesStore
      <4> QED
        BY <2>1, <2>3, <3>1, <4>1, AddedFacts
    <3>2. CASE ConversationOf[m] = current /\ m \notin apart'
      <4>1. view[m] = stored[m] /\ (m \in shown <=> m \in kept)
        BY <2>3, <3>2 DEF ViewMatchesStore
      <4>2. Added(view, shown)[m] = Added(stored, kept)[m]
        BY <2>1, <4>1, AddedAlike
      <4> QED
        BY <2>3, <3>2, <4>2
    <3> QED
      BY <3>1, <3>2
  <2>4. ASSUME NEW texts \in SUBSET Messages, NEW astray, HandleReceived(texts, astray),
               \A m \in astray : m \in texts
        PROVE  ViewMatchesStore'
    <3>1. PICK lost \in SUBSET texts : /\ stored' = Added(stored, texts \ (astray \cup lost))
                                       /\ Delivers(texts \ astray, lost)
      BY <2>4 DEF HandleReceived, Failing
    <3> DEFINE shown == Here(texts \ astray)
               kept == texts \ (astray \cup lost)
               more == Here((texts \ astray) \cap lost)
    <3>2. view' = Added(view, shown) /\ apart' = apart \cup more /\ UNCHANGED current
      BY <3>1 DEF Delivers
    <3>3. more \in SUBSET Messages /\ \A m \in shown : ConversationOf[m] = current
      BY DEF Here
    <3>4. \A m \in Messages : ConversationOf[m] = current => (m \in shown <=> m \in kept) \/ m \in more
      BY DEF Here
    <3> HIDE DEF shown, more
    <3> QED
      BY <2>3, <3>1, <3>2, <3>3, <3>4
  <2>5. down # <<>> => Head(down) \in Notices
    BY DEF IInv, TypeOK
  <2>6. CASE HandleChat
    <3>1. HandleReceived(Head(down).batch \cap Texts, {}) /\ Head(down).batch \in SUBSET Messages
      BY <2>5, <2>6 DEF HandleChat, Receives, Notices
    <3> QED
      BY <2>4, <3>1
  <2>7. CASE HandleOfflineMessages
    <3> DEFINE texts == Head(down).batch \cap Texts
               astray == {m \in texts : ConversationOf[m] \in Groups}
    <3>1. HandleReceived(texts, astray) /\ texts \in SUBSET Messages
      BY <2>5, <2>7 DEF HandleOfflineMessages, Receives, Notices
    <3> QED
      BY <2>4, <3>1
  <2>8. CASE OnSendText
    <3>1. PICK lost \in SUBSET {sent'} : stored' = Added(stored, {sent'} \ lost) /\ apart' = apart \cup lost
      BY <2>8 DEF OnSendText, Failing
    <3>2. /\ ConversationOf[sent'] = current /\ view' = Added(view, {sent'})
          /\ UNCHANGED current /\ sent' = sent + 1 /\ sent < MaxMessages
      BY <2>8 DEF OnSendText
    <3>3. sent' \in Messages
      BY <3>2, BoundsAssumption DEF IInv, TypeOK, Messages
    <3>4. \A m \in Messages : (m \in {sent'} <=> m \in {sent'} \ lost) \/ m \in lost
      OBVIOUS
    <3>5. lost \in SUBSET Messages /\ \A m \in {sent'} : ConversationOf[m] = current
      BY <3>1, <3>2, <3>3
    <3> QED
      BY <2>3, <3>1, <3>2, <3>4, <3>5
  <2>9. ASSUME NEW c \in Conversations, OnMessageClicked(c) PROVE ViewMatchesStore'
    <3>1. current' = c /\ UNCHANGED stored /\ Selects(c)
      BY <2>9 DEF OnMessageClicked, Selects, storeVars
    <3>2. /\ apart' = {m \in Messages : ConversationOf[m] = c /\ view'[m] # stored[m]}
          /\ \A m \in Messages : ConversationOf[m] # c => view'[m] = 0
      BY <3>1, ReadBack
    <3>3. QED
      BY <3>1, <3>2 DEF ViewMatchesStore
  <2>10. CASE Restart
    <3>1. current' = NoChat /\ view' = None
      BY <2>10 DEF Restart
    <3>2. \A m \in Messages : ConversationOf[m] # NoChat /\ None[m] = 0
      BY <2>1, ChatAssumption DEF None
    <3>3. QED
      BY <3>1, <3>2 DEF ViewMatchesStore
  <2>11. QED
    BY <2>2, <2>6, <2>7, <2>8, <2>9, <2>10
       DEF Next, NewMessage, ServerReceives, HandleLoginSuccess, UpdateMessages, Login,
           ConnectionLost, storeVars, screenVars, vars
<1>3. QED
  BY <1>1, <1>2, Inductive, PTL DEF Spec

(* The screen shows what is stored, with the exceptions that               *)
(* ViewMatchesStore names, and announces what was not seen.                *)
THEOREM ScreenFollows == Spec => []ScreenFollowsStore
<1>1. TypeOK /\ ViewMatchesStore /\ UnseenIsBadged => ScreenFollowsStore
  BY DEF ScreenFollowsStore
<1>2. QED
  BY <1>1, TypeCorrect, ShownAsStored, UnseenAreBadged, PTL

-----------------------------------------------------------------------------
(* Paging: one login fetches a message once.                               *)

CopiesOf(m) == stored[m] + misfiled[m]
Fresh(set) == \A m \in set \ again : CopiesOf(m) < logins
Goes(batch, count) == Cardinality(batch) = PageSize /\ count > PageSize
Notes == {j \in 1..Len(down) : down[j].kind # "chat"}

(* Messages are numbered as they are written; what waits for a login is    *)
(* never pushed.                                                           *)
Pushed(batch) == batch \cap held = {} /\ \A m \in batch : m <= sent

NumbersInv ==
  /\ \A m \in held : m <= sent
  /\ \A m \in Messages : m > sent => stored[m] = 0 /\ misfiled[m] = 0
  /\ \A j \in 1..Len(down) : down[j].kind = "chat" => Pushed(down[j].batch)

(* Client and server take turns: what was asked is answered before more is *)
(* asked.                                                                  *)
TurnsInv ==
  /\ phase # "online" => up = <<>> /\ down = <<>>
  /\ \A i, j \in Notes : i = j
  /\ Notes # {} => up = <<>>
  /\ \/ up \in {<<>>, <<SyncOfflineMessages(1)>>, <<SyncOfflineMessages(2)>>}
     \/ \E B \in SUBSET Messages : up \in {<<ConfirmMessagesSynced(B)>>,
                                           <<ConfirmMessagesSynced(B), SyncOfflineMessages(2)>>}

(* What the second page can still bring, when more messages are confirmed. *)
Waiting(more) == IF renumbers THEN held \ (confirmed \cup more) ELSE Page(2)

(* What a notice brings, and what will be asked for after it, was not      *)
(* stored in this login.                                                   *)
NoteIsFresh(note) ==
  /\ note.kind = "login_success" => Fresh(held)
  /\ note.kind = "offline_messages" =>
       /\ note.batch \subseteq held /\ Fresh(note.batch)
       /\ Goes(note.batch, note.count) =>
            Fresh(Waiting({})) /\ (~renumbers => note.batch \cap Page(2) = {} \/ Page(2) \subseteq again)

FetchedOnce ==
  /\ \A m \in held \ again : CopiesOf(m) <= logins
  /\ up = <<SyncOfflineMessages(1)>> => Fresh(held)
  /\ up = <<SyncOfflineMessages(2)>> => Fresh(Waiting({}))
  /\ \A B \in SUBSET Messages : up = <<ConfirmMessagesSynced(B), SyncOfflineMessages(2)>> =>
       Fresh(Waiting(B))
  /\ \A j \in Notes : NoteIsFresh(down[j])

PagingInv == NumbersInv /\ TurnsInv /\ FetchedOnce

(* The first two pages have no message in common, and a second page that   *)
(* is full takes two pages of messages that wait.                          *)
LEMMA PageFacts ==
  ASSUME held \in SUBSET Messages
  PROVE  /\ Pending \subseteq held /\ Page(1) \subseteq held /\ Page(2) \subseteq held
         /\ Page(1) \cap Page(2) = {}
         /\ Cardinality(Page(2)) = PageSize => Cardinality(Pending) >= 2 * PageSize
<1>1. PageSize \in Nat \ {0}
  BY BoundsAssumption
<1>2. Pending \subseteq held
  BY DEF Pending
<1>3. IsFiniteSet(Pending) /\ Cardinality(Pending) \in Nat
  <2>1. IsFiniteSet(Messages)
    BY FS_Interval, BoundsAssumption DEF Messages
  <2> QED
    BY <1>2, <2>1, FS_Subset, FS_CardinalityType
<1>5. \A m \in Messages : m \in Int
  BY DEF Messages
<1>6. ASSUME NEW m \in Pending
      PROVE  Rank(m) \in Nat /\ Rank(m) <= Cardinality(Pending)
  <2>1. {k \in Pending : k <= m} \in SUBSET Pending
    OBVIOUS
  <2> QED
    BY <1>3, <2>1, FS_Subset, FS_CardinalityType DEF Rank
<1>7. ASSUME NEW m \in Pending, NEW k \in Pending, m < k PROVE Rank(m) # Rank(k)
  <2> DEFINE S == {i \in Pending : i <= m}
             T == {i \in Pending : i <= k}
  <2>1. \A i \in Pending : i \in Int
    BY <1>2, <1>5
  <2>2. S \subseteq T /\ k \in T /\ k \notin S
    BY <1>7, <2>1
  <2>3. IsFiniteSet(T)
    <3>1. T \in SUBSET Pending
      OBVIOUS
    <3> HIDE DEF T
    <3> QED
      BY <1>3, <3>1, FS_Subset
  <2> HIDE DEF S, T
  <2>4. Cardinality(T) # Cardinality(S)
    BY <2>2, <2>3, FS_Subset
  <2> QED
    BY <2>4 DEF Rank, S, T
<1>8. ASSUME NEW m \in Pending, NEW k \in Pending, Rank(m) = Rank(k) PROVE m = k
  <2>1. m \in Int /\ k \in Int
    BY <1>2, <1>5
  <2>2. m < k \/ k < m \/ m = k
    BY <2>1
  <2> QED
    BY <1>7, <1>8, <2>2
<1>9. /\ Page(1) = {m \in Pending : Rank(m) \in 1..PageSize}
      /\ Page(2) = {m \in Pending : Rank(m) \in PageSize + 1 .. 2 * PageSize}
  <2>1. (1 - 1) * PageSize + 1 = 1 /\ 1 * PageSize = PageSize /\ (2 - 1) * PageSize + 1 = PageSize + 1
    BY <1>1
  <2> QED
    BY <2>1 DEF Page
<1>10. Page(1) \cap Page(2) = {}
  BY <1>1, <1>6, <1>9
<1>11. ASSUME ~(Cardinality(Pending) >= 2 * PageSize) PROVE Cardinality(Page(2)) # PageSize
  <2> DEFINE P == Page(2)
             I == PageSize + 1 .. 2 * PageSize - 1
             f == [m \in P |-> Rank(m)]
  <2>1. \A m \in P : m \in Pending /\ Rank(m) \in I
    BY <1>1, <1>3, <1>6, <1>9, <1>11
  <2> HIDE DEF P, I
  <2>2. f \in [P -> I] /\ \A m, k \in P : f[m] = f[k] => m = k
    BY <1>8, <2>1
  <2>3. IsFiniteSet(I) /\ Cardinality(I) = PageSize - 1
    BY <1>1, FS_Interval DEF I
  <2> HIDE DEF f
  <2>4. f \in Injection(P, I)
    BY <2>2 DEF Injection, IsInjective
  <2>5. IsFiniteSet(P) /\ Cardinality(P) <= PageSize - 1
    BY <2>3, <2>4, FS_Injection
  <2>6. Cardinality(P) \in Nat
    BY <2>5, FS_CardinalityType
  <2> QED
    BY <1>1, <2>5, <2>6 DEF P
<1> QED
  BY <1>2, <1>9, <1>10, <1>11

(* Storing adds one copy at most.                                          *)
LEMMA AddedOnce ==
  ASSUME NEW copies \in Copies, NEW set, NEW m \in Messages
  PROVE  Added(copies, set)[m] \in {copies[m], copies[m] + 1}
BY DEF Added, Copies

LEMMA ReceivedOnce ==
  ASSUME IInv, NEW texts \in SUBSET Messages, NEW astray \in SUBSET texts, HandleReceived(texts, astray)
  PROVE  \A m \in Messages : /\ m \notin texts => stored'[m] = stored[m] /\ misfiled'[m] = misfiled[m]
                             /\ stored'[m] + misfiled'[m] <= stored[m] + misfiled[m] + 1
<1> TAKE m \in Messages
<1>1. stored \in Copies /\ misfiled \in Copies
  BY DEF IInv, TypeOK
<1>2. PICK lost \in SUBSET texts : /\ stored' = Added(stored, texts \ (astray \cup lost))
                                   /\ misfiled' = Added(misfiled, astray \ lost)
  BY DEF HandleReceived, Failing
<1>3. stored[m] \in Nat /\ misfiled[m] \in Nat
  BY <1>1, BoundsAssumption DEF Copies
<1>4. m \notin texts => stored'[m] = stored[m] /\ misfiled'[m] = misfiled[m]
  BY <1>1, <1>2, AddedFacts
<1>5. stored'[m] \in {stored[m], stored[m] + 1} /\ misfiled'[m] \in {misfiled[m], misfiled[m] + 1}
  BY <1>1, <1>2, AddedOnce
<1>6. stored'[m] = stored[m] \/ misfiled'[m] = misfiled[m]
  <2>1. m \notin texts \ (astray \cup lost) \/ m \notin astray \ lost
    OBVIOUS
  <2> QED
    BY <1>1, <1>2, <2>1, AddedFacts
<1> QED
  BY <1>3, <1>4, <1>5, <1>6

(* What becomes of the notices.                                            *)
NotesFrom ==
  /\ \A j \in Notes' : \E i \in Notes : down'[j] = down[i]
  /\ \A i, j \in Notes' : i = j
PushedAfter(batch) == batch \cap held = {} /\ \A m \in batch : m <= sent'
ChatsApart == \A j \in 1..Len(down') : down'[j].kind = "chat" => PushedAfter(down'[j].batch)
Counts == sent \in Nat /\ sent' \in {sent, sent + 1}

LEMMA PushedStays ==
  ASSUME Counts, NEW batch \in SUBSET Messages, Pushed(batch)
  PROVE  PushedAfter(batch)
<1>1. \A m \in batch : m \in Int
  BY DEF Messages
<1> QED
  BY <1>1 DEF Counts, Pushed, PushedAfter

LEMMA BatchTypes ==
  ASSUME down \in Seq(Notices)
  PROVE  \A j \in 1..Len(down) : down[j].batch \in SUBSET Messages
<1> TAKE j \in 1..Len(down)
<1>1. down[j] \in Notices
  OBVIOUS
<1> QED
  BY <1>1 DEF Notices

LEMMA NotesUnchanged ==
  ASSUME PagingInv, Counts, down \in Seq(Notices), down' = down
  PROVE  NotesFrom /\ ChatsApart
<1>1. NotesFrom
  BY DEF PagingInv, TurnsInv, NotesFrom, Notes
<1>2. ChatsApart
  BY BatchTypes, PushedStays DEF PagingInv, NumbersInv, ChatsApart
<1> QED
  BY <1>1, <1>2

LEMMA NoteIsTaken ==
  ASSUME PagingInv, Counts, down \in Seq(Notices), down # <<>>, down' = Tail(down)
  PROVE  /\ NotesFrom /\ ChatsApart
         /\ Head(down).kind # "chat" => Notes' = {} /\ up = <<>> /\ NoteIsFresh(Head(down))
         /\ Head(down).kind = "chat" => Pushed(Head(down).batch)
<1>1. /\ Len(down) \in Nat /\ Len(down) > 0 /\ Head(down) = down[1]
      /\ Len(down') = Len(down) - 1 /\ \A j \in 1..(Len(down) - 1) : down'[j] = down[j + 1]
  OBVIOUS
<1>2. \A j \in 1..Len(down') : j + 1 \in 1..Len(down) /\ down'[j] = down[j + 1]
  BY <1>1
<1>3. \A j \in Notes' : j \in Int /\ j + 1 \in Notes /\ down'[j] = down[j + 1]
  BY <1>2 DEF Notes
<1>4. \A i, j \in Notes : i = j
  BY DEF PagingInv, TurnsInv
<1>5. NotesFrom
  <2>1. ASSUME NEW i \in Notes', NEW j \in Notes' PROVE i = j
    <3>1. i + 1 = j + 1 /\ i \in Int /\ j \in Int
      BY <1>3, <1>4
    <3> QED
      BY <3>1
  <2> QED
    BY <1>3, <2>1 DEF NotesFrom
<1>6. ChatsApart
  <2> SUFFICES ASSUME NEW j \in 1..Len(down'), down'[j].kind = "chat" PROVE PushedAfter(down'[j].batch)
    BY DEF ChatsApart
  <2>1. j + 1 \in 1..Len(down) /\ down'[j] = down[j + 1]
    BY <1>2
  <2>2. Pushed(down[j + 1].batch) /\ down[j + 1].batch \in SUBSET Messages
    BY <2>1, BatchTypes DEF PagingInv, NumbersInv
  <2> QED
    BY <2>1, <2>2, PushedStays
<1>7. ASSUME Head(down).kind # "chat" PROVE Notes' = {} /\ up = <<>> /\ NoteIsFresh(Head(down))
  <2>1. 1 \in Notes
    BY <1>1, <1>7 DEF Notes
  <2>2. ASSUME NEW j \in Notes' PROVE FALSE
    <3>1. j + 1 = 1 /\ j \in 1..Len(down')
      BY <1>3, <1>4, <2>1 DEF Notes
    <3> QED
      BY <3>1
  <2> QED
    BY <1>1, <2>1, <2>2 DEF PagingInv, TurnsInv, FetchedOnce
<1>8. Head(down).kind = "chat" => Pushed(Head(down).batch)
  BY <1>1 DEF PagingInv, NumbersInv
<1> QED
  BY <1>5, <1>6, <1>7, <1>8

LEMMA NoteIsAdded ==
  ASSUME PagingInv, Counts, down \in Seq(Notices), NEW n \in Notices, down' = Append(down, n)
  PROVE  /\ n.kind = "chat" => NotesFrom /\ (PushedAfter(n.batch) => ChatsApart)
         /\ n.kind # "chat" => /\ ChatsApart
                               /\ Notes = {} => /\ \A i, j \in Notes' : i = j
                                                /\ \A j \in Notes' : down'[j] = n
<1>1. /\ Len(down) \in Nat /\ Len(down') = Len(down) + 1
      /\ down'[Len(down) + 1] = n /\ \A j \in 1..Len(down) : down'[j] = down[j]
  OBVIOUS
<1>2. \A j \in 1..Len(down') : j = Len(down) + 1 \/ j \in 1..Len(down)
  BY <1>1
<1>3. \A i, j \in Notes : i = j
  BY DEF PagingInv, TurnsInv
<1>4. ASSUME n.kind = "chat" PROVE NotesFrom
  <2>1. \A j \in Notes' : j \in Notes /\ down'[j] = down[j]
    BY <1>1, <1>2, <1>4 DEF Notes
  <2> QED
    BY <1>3, <2>1 DEF NotesFrom
<1>5. n.kind # "chat" \/ PushedAfter(n.batch) => ChatsApart
  <2>1. \A j \in 1..Len(down) : down[j].kind = "chat" => PushedAfter(down[j].batch)
    BY BatchTypes, PushedStays DEF PagingInv, NumbersInv
  <2> QED
    BY <1>1, <1>2, <2>1 DEF ChatsApart
<1>6. ASSUME Notes = {} PROVE \A j \in Notes' : j = Len(down) + 1
  BY <1>1, <1>2, <1>6 DEF Notes
<1> QED
  BY <1>1, <1>4, <1>5, <1>6

(* Steps that leave alone what waits and what is asked for.                *)
LEMMA HeldStays ==
  ASSUME PagingInv, held \in SUBSET Messages, NotesFrom,
         \A m \in held : stored'[m] = stored[m] /\ misfiled'[m] = misfiled[m],
         UNCHANGED <<held, confirmed, atLogin, renumbers, again, logins, up, phase>>,
         phase # "online" => down' = <<>>
  PROVE  TurnsInv' /\ FetchedOnce'
<1>1. TurnsInv'
  BY DEF PagingInv, TurnsInv, NotesFrom
<1>2. \A m \in held : CopiesOf(m)' = CopiesOf(m)
  BY DEF CopiesOf
<1>3. \A S \in SUBSET held : Fresh(S) => \A m \in S \ again : CopiesOf(m)' < logins
  BY <1>2 DEF Fresh
<1>4. Page(2) \subseteq held /\ Page(2)' = Page(2)
  BY DEF Page, Pending, Rank
<1>5. \A B : Waiting(B) \subseteq held /\ Waiting(B)' = Waiting(B)
  BY <1>4 DEF Waiting
<1>6. ASSUME NEW n, NoteIsFresh(n) PROVE NoteIsFresh(n)'
  <2>1. held \in SUBSET held /\ Waiting({}) \in SUBSET held /\ Waiting({})' = Waiting({})
    BY <1>5
  <2>2. n.kind = "login_success" => Fresh(held)'
    BY <1>3, <1>6, <2>1 DEF NoteIsFresh, Fresh
  <2>3. ASSUME n.kind = "offline_messages"
        PROVE  /\ n.batch \subseteq held' /\ Fresh(n.batch)'
               /\ Goes(n.batch, n.count) =>
                    /\ Fresh(Waiting({}))'
                    /\ ~renumbers' => n.batch \cap Page(2)' = {} \/ Page(2)' \subseteq again'
    <3>1. n.batch \in SUBSET held /\ Fresh(n.batch)
      BY <1>6, <2>3 DEF NoteIsFresh
    <3>2. Fresh(n.batch)'
      BY <1>3, <3>1 DEF Fresh
    <3>3. ASSUME Goes(n.batch, n.count)
          PROVE  /\ Fresh(Waiting({}))'
                 /\ ~renumbers' => n.batch \cap Page(2)' = {} \/ Page(2)' \subseteq again'
      <4>1. Fresh(Waiting({})) /\ (~renumbers => n.batch \cap Page(2) = {} \/ Page(2) \subseteq again)
        BY <1>6, <2>3, <3>3 DEF NoteIsFresh
      <4>2. \A m \in Waiting({}) \ again : CopiesOf(m)' < logins
        BY <1>3, <2>1, <4>1
      <4>3. Fresh(Waiting({}))'
        BY <2>1, <4>2 DEF Fresh
      <4> QED
        BY <1>4, <4>1, <4>3
    <3> QED
      BY <3>1, <3>2, <3>3
  <2> QED
    BY <2>2, <2>3 DEF NoteIsFresh, Goes
<1>7. ASSUME NEW j \in Notes' PROVE NoteIsFresh(down[j])'
  <2>1. PICK i \in Notes : down'[j] = down[i]
    BY DEF NotesFrom
  <2>2. PICK n : n = down[i]
    OBVIOUS
  <2>3. NoteIsFresh(n)
    BY <2>2 DEF PagingInv, FetchedOnce
  <2>4. NoteIsFresh(n)'
    BY <1>6, <2>3
  <2> QED
    BY <2>1, <2>2, <2>4 DEF NoteIsFresh
<1>8. \A m \in held' \ again' : CopiesOf(m)' <= logins'
  BY <1>2 DEF PagingInv, FetchedOnce
<1>9. up' = <<SyncOfflineMessages(1)>> => Fresh(held)'
  <2>1. held \in SUBSET held
    OBVIOUS
  <2> QED
    BY <1>3, <2>1 DEF PagingInv, FetchedOnce, Fresh
<1>10. ASSUME NEW B, Fresh(Waiting(B)) PROVE Fresh(Waiting(B))'
  <2>1. \A m \in Waiting(B) \ again : CopiesOf(m)' < logins
    BY <1>3, <1>5, <1>10
  <2> QED
    BY <1>5, <2>1 DEF Fresh
<1> QED
  BY <1>1, <1>7, <1>8, <1>9, <1>10 DEF FetchedOnce, PagingInv

LEMMA NumbersStay ==
  ASSUME PagingInv, held \in SUBSET Messages, held' = held, Counts, ChatsApart,
         \A m \in Messages : m > sent' => stored'[m] = stored[m] /\ misfiled'[m] = misfiled[m]
  PROVE  NumbersInv'
<1>1. \A m \in Messages : m \in Int
  BY DEF Messages
<1>2. \A m \in Messages : m > sent' => m > sent
  BY <1>1 DEF Counts
<1>3. \A m \in held' : m <= sent'
  BY <1>1 DEF PagingInv, NumbersInv, Counts
<1>4. \A j \in 1..Len(down') : down'[j].kind = "chat" => Pushed(down[j].batch)'
  BY DEF ChatsApart, PushedAfter, Pushed
<1> QED
  BY <1>2, <1>3, <1>4 DEF PagingInv, NumbersInv

LEMMA PagingTypes ==
  ASSUME IInv
  PROVE  /\ held \in SUBSET Messages /\ up \in Seq(Requests) /\ down \in Seq(Notices)
         /\ stored \in Copies /\ misfiled \in Copies
         /\ sent \in Nat /\ logins \in Nat
         /\ \A m \in Messages : CopiesOf(m) \in Nat
         /\ down # <<>> => Head(down) \in Notices
<1>1. /\ held \in SUBSET Messages /\ up \in Seq(Requests) /\ down \in Seq(Notices)
      /\ stored \in Copies /\ misfiled \in Copies
      /\ sent \in Nat /\ logins \in Nat
  BY BoundsAssumption DEF IInv, TypeOK
<1>2. \A m \in Messages : stored[m] \in Nat /\ misfiled[m] \in Nat
  BY <1>1, BoundsAssumption DEF Copies
<1> QED
  BY <1>1, <1>2 DEF CopiesOf

(* A message that the user sends, or that is pushed, is none of those that *)
(* wait.                                                                   *)
LEMMA PushedKeepsPaging ==
  ASSUME IInv, PagingInv, HandleChat \/ OnSendText
  PROVE  PagingInv'
<1>1. /\ held \in SUBSET Messages /\ down \in Seq(Notices) /\ stored \in Copies /\ misfiled \in Copies
      /\ sent \in Nat /\ (down # <<>> => Head(down) \in Notices)
  BY PagingTypes
<1>2. CASE HandleChat
  <2> DEFINE texts == Head(down).batch \cap Texts
  <2>1. /\ down # <<>> /\ Head(down).kind = "chat" /\ down' = Tail(down)
        /\ HandleReceived(texts, {})
        /\ UNCHANGED <<held, confirmed, atLogin, renumbers, again, logins, up, phase, sent>>
    BY <1>2 DEF HandleChat, Receives, serverVars
  <2>2. texts \in SUBSET Messages /\ {} \in SUBSET texts
    BY <1>1, <2>1 DEF Notices
  <2>3. Counts
    BY <1>1, <2>1 DEF Counts
  <2>4. NotesFrom /\ ChatsApart /\ texts \cap held = {} /\ \A m \in texts : m <= sent
    BY <1>1, <2>1, <2>3, NoteIsTaken DEF Pushed
  <2>5. \A m \in Messages : m \notin texts => stored'[m] = stored[m] /\ misfiled'[m] = misfiled[m]
    BY <2>1, <2>2, ReceivedOnce
  <2>6. phase = "online"
    BY <2>1 DEF PagingInv, TurnsInv
  <2> HIDE DEF texts
  <2>7. TurnsInv' /\ FetchedOnce'
    BY <1>1, <2>1, <2>4, <2>5, <2>6, HeldStays
  <2>8. \A m \in Messages : m > sent' => m \notin texts
    BY <1>1, <2>1, <2>2, <2>4 DEF Messages
  <2>9. NumbersInv'
    BY <1>1, <2>1, <2>3, <2>4, <2>5, <2>8, NumbersStay
  <2> QED
    BY <2>7, <2>9 DEF PagingInv
<1>3. CASE OnSendText
  <2>1. /\ sent' = sent + 1
        /\ UNCHANGED <<held, confirmed, atLogin, renumbers, again, logins, up, phase, down, misfiled>>
    BY <1>3 DEF OnSendText, serverVars, wires
  <2>2. \A m \in Messages : m # sent' => stored'[m] = stored[m]
    BY <1>1, <1>3, AddedFacts DEF OnSendText
  <2>3. Counts
    BY <1>1, <2>1 DEF Counts
  <2>4. NotesFrom /\ ChatsApart
    BY <1>1, <2>1, <2>3, NotesUnchanged
  <2>5. \A m \in held : m <= sent /\ m \in Int
    <3>1. \A m \in held : m <= sent
      BY DEF PagingInv, NumbersInv
    <3>2. \A m \in held : m \in Int
      BY <1>1 DEF Messages
    <3> QED
      BY <3>1, <3>2
  <2>6. sent' \notin held
    <3>1. sent \in Int /\ sent' = sent + 1
      BY <1>1, <2>1
    <3> QED
      BY <2>5, <3>1
  <2>7. phase # "online" => down' = <<>>
    BY <2>1 DEF PagingInv, TurnsInv
  <2>8. \A m \in held : stored'[m] = stored[m] /\ misfiled'[m] = misfiled[m]
    BY <1>1, <2>1, <2>2, <2>6
  <2>9. TurnsInv' /\ FetchedOnce'
    BY <1>1, <2>1, <2>4, <2>7, <2>8, HeldStays
  <2>10. NumbersInv'
    BY <1>1, <2>1, <2>2, <2>3, <2>4, NumbersStay DEF Messages
  <2> QED
    BY <2>9, <2>10 DEF PagingInv
<1> QED
  BY <1>2, <1>3

LEMMA NewMessageKeepsPaging ==
  ASSUME IInv, PagingInv, NewMessage
  PROVE  PagingInv'
<1>1. /\ held \in SUBSET Messages /\ down \in Seq(Notices) /\ stored \in Copies /\ misfiled \in Copies
      /\ sent \in Nat /\ logins \in Nat
  BY PagingTypes
<1>2. /\ sent < MaxMessages /\ sent' = sent + 1 /\ UNCHANGED <<phase, up, stored, misfiled, confirmed, atLogin, renumbers, again, logins>>
  BY DEF NewMessage, storeVars
<1>3. Counts /\ sent' \in Messages
  BY <1>1, <1>2, BoundsAssumption DEF Counts, Messages
<1>4. \A m \in held : m <= sent /\ m \in Int
  BY <1>1 DEF PagingInv, NumbersInv, Messages
<1>5. sent' \notin held
  BY <1>1, <1>2, <1>4
<1>6. CASE phase = "online"
  <2> DEFINE n == Notice("chat", {sent'}, 0)
  <2>1. held' = held /\ down' = Append(down, n)
    BY <1>6 DEF NewMessage
  <2>2. n \in Notices /\ n.kind = "chat" /\ n.batch = {sent'}
    BY <1>3 DEF Notice, Notices
  <2>3. PushedAfter(n.batch)
    <3>1. sent' <= sent'
      BY <1>1, <1>2
    <3> QED
      BY <1>5, <2>2, <3>1 DEF PushedAfter
  <2> HIDE DEF n
  <2>4. NotesFrom /\ ChatsApart
    BY <1>1, <1>3, <2>1, <2>2, <2>3, NoteIsAdded
  <2>5. TurnsInv' /\ FetchedOnce'
    BY <1>1, <1>2, <1>6, <2>1, <2>4, HeldStays
  <2>6. NumbersInv'
    BY <1>1, <1>2, <1>3, <2>1, <2>4, NumbersStay
  <2> QED
    BY <2>5, <2>6 DEF PagingInv
<1>7. CASE phase # "online"
  <2>1. /\ Cardinality(held) < MaxHeld /\ held' = held \cup {sent'} /\ down' = down
        /\ up = <<>> /\ down = <<>>
    BY <1>7 DEF NewMessage, PagingInv, TurnsInv
  <2>3. \A m \in held' : m <= sent'
    BY <1>1, <1>2, <1>4, <2>1
  <2>4. \A m \in Messages : m > sent' => stored'[m] = 0 /\ misfiled'[m] = 0
    BY <1>1, <1>2 DEF PagingInv, NumbersInv, Messages
  <2>5. down' = <<>> /\ up' = <<>> /\ Notes' = {}
    BY <1>2, <2>1 DEF Notes
  <2>6. NumbersInv'
    BY <2>3, <2>4, <2>5 DEF NumbersInv
  <2>7. TurnsInv'
    BY <1>2, <2>5 DEF TurnsInv
  <2>8. stored'[sent'] + misfiled'[sent'] = 0
    <3>1. stored[sent'] = 0 /\ misfiled[sent'] = 0
      BY <1>1, <1>2, <1>3 DEF PagingInv, NumbersInv
    <3> QED
      BY <1>2, <3>1
  <2>9. FetchedOnce'
    <3>1. \A m \in held' \ again' : CopiesOf(m)' <= logins'
      <4> SUFFICES ASSUME NEW m \in held' \ again' PROVE stored'[m] + misfiled'[m] <= logins'
        BY DEF CopiesOf
      <4>1. CASE m = sent'
        BY <1>1, <1>2, <2>8, <4>1
      <4>2. CASE m # sent'
        BY <1>2, <2>1, <4>2 DEF PagingInv, FetchedOnce, CopiesOf
      <4> QED
        BY <4>1, <4>2
    <3> QED
      BY <2>5, <3>1 DEF FetchedOnce
  <2> QED
    BY <2>6, <2>7, <2>9 DEF PagingInv
<1> QED
  BY <1>6, <1>7

(* A login, the loss of the connection and a restart: nothing is under way *)
(* but the answer to the login, and every message that waits is new to it. *)
LEMMA LoginKeepsPaging ==
  ASSUME IInv, PagingInv, Login \/ ConnectionLost \/ Restart
  PROVE  PagingInv'
<1>1. /\ held \in SUBSET Messages /\ sent \in Nat /\ logins \in Nat /\ \A m \in Messages : CopiesOf(m) \in Nat
  BY PagingTypes
<1>2. UNCHANGED <<held, confirmed, renumbers, again, sent, stored, misfiled>> /\ up' = <<>>
  BY DEF Login, ConnectionLost, Restart, storeVars, screenVars, serverVars, countVars, PagingInv, TurnsInv
<1>3. \A m \in held \ again : CopiesOf(m) <= logins /\ CopiesOf(m) \in Nat /\ CopiesOf(m)' = CopiesOf(m)
  BY <1>1, <1>2 DEF PagingInv, FetchedOnce, CopiesOf
<1>4. CASE Login
  <2> DEFINE n == Notice("login_success", {}, 0)
  <2>1. phase' = "online" /\ logins' = logins + 1 /\ down' = <<n>>
    BY <1>4 DEF Login
  <2>2. n.kind = "login_success"
    BY DEF Notice
  <2> HIDE DEF n
  <2>3. Len(down') = 1 /\ down'[1] = n /\ \A j \in 1..Len(down') : j = 1
    BY <2>1
  <2>4. NumbersInv'
    BY <1>2, <2>2, <2>3 DEF PagingInv, NumbersInv
  <2>5. \A i \in Notes' : i = 1
    BY <2>3 DEF Notes
  <2>6. TurnsInv'
    BY <1>2, <2>1, <2>5 DEF TurnsInv
  <2>7. Fresh(held)'
    BY <1>1, <1>2, <1>3, <2>1 DEF Fresh
  <2>8. \A m \in held' \ again' : CopiesOf(m)' <= logins'
    BY <1>1, <1>2, <1>3, <2>1
  <2>9. \A j \in Notes' : NoteIsFresh(down[j])'
    BY <2>2, <2>3, <2>5, <2>7 DEF NoteIsFresh
  <2>10. FetchedOnce'
    BY <1>2, <2>8, <2>9 DEF FetchedOnce
  <2> QED
    BY <2>4, <2>6, <2>10 DEF PagingInv
<1>5. CASE ConnectionLost \/ Restart
  <2>1. down' = <<>> /\ logins' = logins
    BY <1>5 DEF ConnectionLost, Restart, countVars
  <2>2. Notes' = {} /\ Len(down') = 0
    BY <2>1 DEF Notes
  <2>3. NumbersInv'
    BY <1>2, <2>2 DEF PagingInv, NumbersInv
  <2>4. TurnsInv'
    BY <1>2, <2>1, <2>2 DEF TurnsInv
  <2>5. FetchedOnce'
    BY <1>2, <1>3, <2>1, <2>2 DEF FetchedOnce
  <2> QED
    BY <2>3, <2>4, <2>5 DEF PagingInv
<1> QED
  BY <1>4, <1>5

LEMMA LoginAnswerKeepsPaging ==
  ASSUME IInv, PagingInv, HandleLoginSuccess
  PROVE  PagingInv'
<1>1. held \in SUBSET Messages /\ down \in Seq(Notices) /\ sent \in Nat
  BY PagingTypes
<1>2. /\ down # <<>> /\ Head(down).kind = "login_success" /\ down' = Tail(down)
      /\ up' = Append(up, SyncOfflineMessages(1))
      /\ UNCHANGED <<phase, stored, misfiled, held, confirmed, atLogin, renumbers, again, sent, logins>>
  BY DEF HandleLoginSuccess, Receives, storeVars, serverVars, countVars
<1>3. Counts
  BY <1>1, <1>2 DEF Counts
<1>4. ChatsApart /\ Notes' = {} /\ up = <<>> /\ NoteIsFresh(Head(down))
  BY <1>1, <1>2, <1>3, NoteIsTaken
<1>5. Fresh(held)' /\ up' = <<SyncOfflineMessages(1)>>
  BY <1>2, <1>4 DEF NoteIsFresh, Fresh, CopiesOf
<1>6. phase = "online"
  BY <1>2 DEF PagingInv, TurnsInv
<1>7. NumbersInv'
  BY <1>1, <1>2, <1>3, <1>4, NumbersStay
<1>8. TurnsInv'
  BY <1>2, <1>4, <1>5, <1>6 DEF TurnsInv
<1>9. SyncOfflineMessages(1) # SyncOfflineMessages(2)
  BY DEF SyncOfflineMessages, Request
<1>10. FetchedOnce'
  <2>1. \A m \in held' \ again' : CopiesOf(m)' <= logins'
    BY <1>2 DEF PagingInv, FetchedOnce, CopiesOf
  <2>2. up' # <<SyncOfflineMessages(2)>>
    BY <1>5, <1>9
  <2>3. \A B \in SUBSET Messages : up' # <<ConfirmMessagesSynced(B), SyncOfflineMessages(2)>>
    BY <1>5
  <2> QED
    BY <1>4, <1>5, <2>1, <2>2, <2>3 DEF FetchedOnce
<1> QED
  BY <1>7, <1>8, <1>10 DEF PagingInv

LEMMA TwoInTurn ==
  ASSUME NEW x, NEW y
  PROVE  Append(<<x>>, y) = <<x, y>>
<1> DEFINE s == Append(<<x>>, y)
           t == <<x, y>>
<1>1. s \in Seq({x, y}) /\ Len(s) = 2 /\ s[1] = x /\ s[2] = y
  OBVIOUS
<1>2. t \in Seq({x, y}) /\ Len(t) = 2 /\ t[1] = x /\ t[2] = y
  OBVIOUS
<1> HIDE DEF s, t
<1>3. \A i \in 1..2 : i = 1 \/ i = 2
  OBVIOUS
<1>4. \A i \in 1..Len(s) : s[i] = t[i]
  BY <1>1, <1>2, <1>3
<1>5. s = t
  BY <1>1, <1>2, <1>4, SeqEqual
<1> QED
  BY <1>5 DEF s, t

LEMMA TakenInTurn ==
  ASSUME NEW x, NEW y
  PROVE  Tail(<<x, y>>) = <<y>> /\ Tail(<<x>>) = <<>>
OBVIOUS

LEMMA ShortWires ==
  ASSUME NEW x, NEW y
  PROVE  /\ <<>> \o <<>> \o <<>> = <<>>
         /\ <<>> \o <<x>> \o <<>> = <<x>>
         /\ <<>> \o <<x>> \o <<y>> = <<x, y>>
<1> DEFINE S == {x, y}
<1>1. <<>> \in Seq(S) /\ <<x>> \in Seq(S)
  OBVIOUS
<1>2. <<>> \o <<>> = <<>> /\ <<>> \o <<x>> = <<x>> /\ <<x>> \o <<>> = <<x>>
  BY <1>1, ConcatEmptySeq
<1>3. <<x>> \o <<y>> = <<x, y>>
  <2>1. Append(<<x>>, y) = <<x>> \o <<y>>
    BY <1>1, AppendIsConcat
  <2>2. Append(<<x>>, y) = <<x, y>>
    BY TwoInTurn
  <2> QED
    BY <2>1, <2>2
<1> QED
  BY <1>2, <1>3

(* A page is stored and confirmed, and the next one asked for, which has   *)
(* none of its messages.                                                   *)
LEMMA PageKeepsPaging ==
  ASSUME IInv, PagingInv, HandleOfflineMessages
  PROVE  PagingInv'
<1> DEFINE batch == Head(down).batch
           count == Head(down).count
           texts == batch \cap Texts
           astray == {m \in texts : ConversationOf[m] \in Groups}
           confirm == IF batch = {} THEN <<>> ELSE <<ConfirmMessagesSynced(batch)>>
<1>1. /\ held \in SUBSET Messages /\ down \in Seq(Notices) /\ sent \in Nat /\ logins \in Nat
      /\ \A m \in Messages : CopiesOf(m) \in Nat
  BY PagingTypes
<1>2. /\ down # <<>> /\ Head(down).kind = "offline_messages" /\ down' = Tail(down)
      /\ HandleReceived(texts, astray)
      /\ up' = up \o confirm \o NextPage(batch, count)
      /\ UNCHANGED <<phase, held, confirmed, atLogin, renumbers, again, sent, logins>>
  BY DEF HandleOfflineMessages, Receives, serverVars
<1>3. Counts
  BY <1>1, <1>2 DEF Counts
<1>4. ChatsApart /\ Notes' = {} /\ up = <<>> /\ NoteIsFresh(Head(down))
  BY <1>1, <1>2, <1>3, NoteIsTaken
<1>5. /\ batch \subseteq held /\ Fresh(batch)
      /\ Goes(batch, count) =>
           Fresh(Waiting({})) /\ (~renumbers => batch \cap Page(2) = {} \/ Page(2) \subseteq again)
  BY <1>2, <1>4 DEF NoteIsFresh
<1>6. batch \in SUBSET Messages /\ texts \in SUBSET Messages /\ astray \in SUBSET texts /\ texts \subseteq batch
  BY <1>1, <1>5
<1>7. \A m \in Messages : /\ m \notin texts => stored'[m] = stored[m] /\ misfiled'[m] = misfiled[m]
                          /\ stored'[m] + misfiled'[m] <= stored[m] + misfiled[m] + 1
  BY <1>2, <1>6, ReceivedOnce
<1> HIDE DEF texts, astray
<1>8. \A m \in held \ batch : CopiesOf(m)' = CopiesOf(m)
  BY <1>1, <1>6, <1>7 DEF CopiesOf
<1>9. \A m \in batch \ again : CopiesOf(m)' <= logins
  <2> TAKE m \in batch \ again
  <2>1. m \in Messages /\ CopiesOf(m) < logins /\ CopiesOf(m) \in Nat
    BY <1>1, <1>5, <1>6 DEF Fresh
  <2>2. CopiesOf(m)' <= CopiesOf(m) + 1
    BY <1>7, <2>1 DEF CopiesOf
  <2>3. CopiesOf(m)' \in Nat
    <3>1. IInv'
      BY Preserved DEF Next
    <3>2. stored' \in Copies /\ misfiled' \in Copies
      BY <3>1 DEF IInv, TypeOK
    <3> QED
      BY <2>1, <3>2, BoundsAssumption DEF CopiesOf, Copies
  <2> QED
    BY <1>1, <2>1, <2>2, <2>3
<1>10. phase = "online"
  BY <1>2 DEF PagingInv, TurnsInv
<1>11. NumbersInv'
  <2>1. \A m \in Messages : m > sent' => m \notin texts
    BY <1>1, <1>2, <1>5, <1>6 DEF PagingInv, NumbersInv, Messages
  <2> QED
    BY <1>1, <1>2, <1>3, <1>4, <1>7, <2>1, NumbersStay
<1>12. \A m \in held' \ again' : CopiesOf(m)' <= logins'
  <2> SUFFICES ASSUME NEW m \in held \ again PROVE CopiesOf(m)' <= logins
    BY <1>2
  <2>1. CASE m \in batch
    BY <1>9, <2>1
  <2>2. CASE m \notin batch
    BY <1>8, <2>2 DEF PagingInv, FetchedOnce
  <2> QED
    BY <2>1, <2>2
<1>13. Page(2)' = Page(2) /\ Page(2) \subseteq held
  BY <1>2 DEF Page, Pending, Rank
<1>14. CASE ~Goes(batch, count)
  <2>1. NextPage(batch, count) = <<>>
    BY <1>14 DEF NextPage, Goes
  <2>2. up' = <<>> \/ up' = <<ConfirmMessagesSynced(batch)>>
    <3>1. up' = <<>> \o confirm \o <<>> /\ confirm \in {<<>>, <<ConfirmMessagesSynced(batch)>>}
      BY <1>2, <1>4, <2>1
    <3> QED
      BY <3>1, ShortWires
  <2>3. TurnsInv'
    BY <1>2, <1>4, <1>6, <1>10, <2>2 DEF TurnsInv
  <2>4. \A p : ConfirmMessagesSynced(batch) # SyncOfflineMessages(p)
    BY DEF ConfirmMessagesSynced, SyncOfflineMessages, Request
  <2>5. /\ up' # <<SyncOfflineMessages(1)>> /\ up' # <<SyncOfflineMessages(2)>>
        /\ \A B \in SUBSET Messages : up' # <<ConfirmMessagesSynced(B), SyncOfflineMessages(2)>>
    BY <2>2, <2>4
  <2>6. FetchedOnce'
    BY <1>4, <1>12, <2>5 DEF FetchedOnce
  <2> QED
    BY <1>11, <2>3, <2>6 DEF PagingInv
<1>15. CASE Goes(batch, count)
  <2>1. batch # {}
    BY <1>15, FS_EmptySet, BoundsAssumption DEF Goes
  <2>2. up' = <<ConfirmMessagesSynced(batch), SyncOfflineMessages(2)>>
    <3>1. NextPage(batch, count) = <<SyncOfflineMessages(2)>>
      BY <1>15 DEF NextPage, Goes
    <3>2. up' = <<>> \o <<ConfirmMessagesSynced(batch)>> \o <<SyncOfflineMessages(2)>>
      BY <1>2, <1>4, <2>1, <3>1
    <3> QED
      BY <3>2, ShortWires
  <2>3. TurnsInv'
    BY <1>2, <1>4, <1>6, <1>10, <2>2 DEF TurnsInv
  <2>4. ASSUME NEW B, up' = <<ConfirmMessagesSynced(B), SyncOfflineMessages(2)>> PROVE B = batch
    <3>1. ConfirmMessagesSynced(B) = ConfirmMessagesSynced(batch)
      BY <2>2, <2>4
    <3>2. ConfirmMessagesSynced(B).ids = B /\ ConfirmMessagesSynced(batch).ids = batch
      BY DEF ConfirmMessagesSynced, Request
    <3> QED
      BY <3>1, <3>2
  <2> DEFINE S == Waiting(batch)
  <2>5. S \subseteq held /\ Fresh(S) /\ (S \cap batch = {} \/ S \subseteq again)
    <3>1. Fresh(Waiting({})) /\ (~renumbers => batch \cap Page(2) = {} \/ Page(2) \subseteq again)
      BY <1>5, <1>15
    <3>2. CASE renumbers
      <4>1. S = held \ (confirmed \cup batch) /\ Waiting({}) = held \ confirmed
        BY <3>2 DEF Waiting
      <4> QED
        BY <3>1, <4>1 DEF Fresh
    <3>3. CASE ~renumbers
      <4>1. S = Page(2) /\ Waiting({}) = Page(2)
        BY <3>3 DEF Waiting
      <4> HIDE DEF S
      <4> QED
        BY <1>13, <3>1, <3>3, <4>1
    <3> QED
      BY <3>2, <3>3
  <2>6. \A m \in S \ again : CopiesOf(m)' < logins
    <3> HIDE DEF S
    <3> QED
      BY <1>8, <2>5 DEF Fresh
  <2>7. ASSUME NEW B, B = batch PROVE Waiting(B)' = S
    BY <1>2, <1>13, <2>7 DEF Waiting
  <2> HIDE DEF S
  <2>8. ASSUME NEW B \in SUBSET Messages, up' = <<ConfirmMessagesSynced(B), SyncOfflineMessages(2)>>
        PROVE  Fresh(Waiting(B))'
    <3>1. B = batch
      BY <2>4, <2>8
    <3>2. Waiting(B)' = S
      BY <2>7, <3>1
    <3> QED
      BY <1>2, <2>6, <3>2 DEF Fresh
  <2>9. FetchedOnce'
    BY <1>4, <1>12, <2>2, <2>8 DEF FetchedOnce
  <2> QED
    BY <1>11, <2>3, <2>9 DEF PagingInv
<1> QED
  BY <1>14, <1>15

(* The server confirms, or answers a request with a page: a first page has *)
(* nothing of the second, and a second page that will be asked for again   *)
(* is noted.                                                               *)
LEMMA ServerKeepsPaging ==
  ASSUME IInv, PagingInv, ServerReceives
  PROVE  PagingInv'
<1>1. /\ held \in SUBSET Messages /\ down \in Seq(Notices) /\ up \in Seq(Requests) /\ sent \in Nat /\ logins \in Nat
      /\ \A m \in Messages : CopiesOf(m) \in Nat
  BY PagingTypes
<1>2. /\ up # <<>> /\ up' = Tail(up)
      /\ UNCHANGED <<phase, stored, misfiled, held, atLogin, renumbers, sent, logins>>
      /\ again \subseteq again'
  BY DEF ServerReceives, storeVars, screenVars, countVars
<1>3. Counts /\ Notes = {} /\ phase = "online"
  BY <1>1, <1>2 DEF Counts, PagingInv, TurnsInv
<1>4. /\ Page(1) \subseteq held /\ Page(2) \subseteq held /\ Pending \subseteq held
      /\ Page(1) \cap Page(2) = {} /\ (Cardinality(Page(2)) = PageSize => Cardinality(Pending) >= 2 * PageSize)
  BY <1>1, PageFacts
<1>5. \A m \in held' \ again' : CopiesOf(m)' <= logins'
  BY <1>2 DEF PagingInv, FetchedOnce, CopiesOf
<1>6. \A S \in SUBSET held : Fresh(S) => Fresh(S)'
  BY <1>2 DEF Fresh, CopiesOf
<1>7. ASSUME NEW B \in SUBSET Messages,
             up \in {<<ConfirmMessagesSynced(B)>>, <<ConfirmMessagesSynced(B), SyncOfflineMessages(2)>>}
      PROVE  PagingInv'
  <2>1. Head(up) = ConfirmMessagesSynced(B)
    BY <1>7
  <2>2. Head(up).kind = "confirm_messages_synced" /\ Head(up).ids = B
    BY <2>1 DEF ConfirmMessagesSynced, Request
  <2>3. confirmed' = confirmed \cup B /\ down' = down /\ again' = again
    BY <2>2 DEF ServerReceives
  <2>4. \/ up' = <<>>
        \/ up' = <<SyncOfflineMessages(2)>> /\ up = <<ConfirmMessagesSynced(B), SyncOfflineMessages(2)>>
    BY <1>2, <1>7, TakenInTurn
  <2>5. NotesFrom /\ ChatsApart /\ Notes' = {}
    BY <1>1, <1>3, <2>3, NotesUnchanged DEF NotesFrom
  <2>6. NumbersInv'
    BY <1>1, <1>2, <1>3, <2>5, NumbersStay
  <2>7. TurnsInv'
    BY <1>2, <1>3, <2>4, <2>5 DEF TurnsInv
  <2>8. SyncOfflineMessages(1) # SyncOfflineMessages(2)
    BY DEF SyncOfflineMessages, Request
  <2>9. /\ up' # <<SyncOfflineMessages(1)>>
        /\ \A C \in SUBSET Messages : up' # <<ConfirmMessagesSynced(C), SyncOfflineMessages(2)>>
    BY <2>4, <2>8
  <2>10. ASSUME up' = <<SyncOfflineMessages(2)>> PROVE Fresh(Waiting({}))'
    <3>1. Fresh(Waiting(B))
      BY <2>4, <2>10 DEF PagingInv, FetchedOnce
    <3>2. Waiting({})' = Waiting(B)
      <4>1. ~renumbers => Page(2)' = Page(2)
        BY <1>2 DEF Page, Pending, Rank
      <4> QED
        BY <1>2, <2>3, <4>1 DEF Waiting
    <3> QED
      BY <1>2, <2>3, <3>1, <3>2 DEF Fresh, CopiesOf
  <2>11. FetchedOnce'
    BY <1>5, <2>5, <2>9, <2>10 DEF FetchedOnce
  <2> QED
    BY <2>6, <2>7, <2>11 DEF PagingInv
<1>8. ASSUME NEW p \in {1, 2}, up = <<SyncOfflineMessages(p)>>, p = 1 => Fresh(held), p = 2 => Fresh(Waiting({}))
      PROVE  PagingInv'
  <2> DEFINE n == Notice("offline_messages", Page(p), Cardinality(Pending))
  <2>1. Head(up) = SyncOfflineMessages(p) /\ up' = <<>>
    BY <1>2, <1>8
  <2>2. Head(up).kind # "confirm_messages_synced" /\ Head(up).page = p
    BY <2>1 DEF SyncOfflineMessages, Request
  <2>3. down' = Append(down, n) /\ confirmed' = confirmed /\ again' = again \cup Surplus(p)
    BY <2>2 DEF ServerReceives
  <2>4. n \in Notices /\ n.kind = "offline_messages" /\ n.batch = Page(p) /\ n.count = Cardinality(Pending)
    <3>1. ServerTypes
      BY TypesByPart DEF IInv
    <3>2. n \in Notices
      BY <3>1, NoticeTypes
    <3> QED
      BY <3>2 DEF Notice
  <2> HIDE DEF n
  <2>5. ChatsApart /\ (\A i, j \in Notes' : i = j) /\ \A j \in Notes' : down'[j] = n
    BY <1>1, <1>3, <2>3, <2>4, NoteIsAdded
  <2>6. NumbersInv'
    BY <1>1, <1>2, <1>3, <2>5, NumbersStay
  <2>7. TurnsInv'
    BY <1>2, <1>3, <2>1, <2>5 DEF TurnsInv
  <2>8. Page(2)' = Page(2)
    BY <1>2, <2>3 DEF Page, Pending, Rank
  <2>9. n.batch \subseteq held /\ Fresh(n.batch) /\ Fresh(Waiting({}))
    <3>1. Waiting({}) \subseteq held
      BY <1>4 DEF Waiting
    <3>2. CASE p = 1
      BY <1>4, <1>8, <2>4, <3>1, <3>2 DEF Fresh
    <3>3. CASE p = 2
      <4>1. Page(2) \subseteq Waiting({})
        BY DEF Waiting, Page, Pending
      <4> QED
        BY <1>4, <1>8, <2>4, <3>3, <4>1 DEF Fresh
    <3> QED
      BY <3>2, <3>3
  <2>10. Goes(n.batch, n.count) => (~renumbers => n.batch \cap Page(2) = {} \/ Page(2) \subseteq again')
    <3>1. CASE p = 1
      BY <1>4, <2>4, <3>1
    <3>2. CASE p = 2
      <4> SUFFICES ASSUME Goes(n.batch, n.count), ~renumbers PROVE Page(2) \subseteq again'
        OBVIOUS
      <4>1. Cardinality(Pending) >= 2 * PageSize
        BY <1>4, <2>4, <3>2 DEF Goes
      <4>2. Surplus(p) = Page(2)
        BY <3>2, <4>1 DEF Surplus
      <4> QED
        BY <2>3, <4>2
    <3> QED
      BY <3>1, <3>2
  <2>11. ASSUME NEW j \in Notes' PROVE NoteIsFresh(down[j])'
    <3>1. down'[j] = n
      BY <2>5
    <3>2. \A m \in n.batch \ again' : CopiesOf(m)' < logins'
      BY <1>2, <2>9 DEF Fresh, CopiesOf
    <3>3. Waiting({})' = Waiting({})
      BY <1>2, <2>3, <2>8 DEF Waiting
    <3>4. Fresh(Waiting({}))'
      BY <1>2, <2>9, <3>3 DEF Fresh, CopiesOf
    <3>5. /\ n.kind = "offline_messages" /\ n.batch \subseteq held'
          /\ Goes(n.batch, n.count) =>
               (~renumbers' => n.batch \cap Page(2)' = {} \/ Page(2)' \subseteq again')
      BY <1>2, <2>4, <2>8, <2>9, <2>10
    <3>6. PICK k : k = n
      OBVIOUS
    <3>7. NoteIsFresh(k)'
      BY <3>2, <3>4, <3>5, <3>6 DEF NoteIsFresh, Fresh, Goes
    <3> QED
      BY <3>1, <3>6, <3>7 DEF NoteIsFresh
  <2>12. FetchedOnce'
    BY <1>5, <2>1, <2>11 DEF FetchedOnce
  <2> QED
    BY <2>6, <2>7, <2>12 DEF PagingInv
<1>9. CASE up = <<SyncOfflineMessages(1)>>
  BY <1>8, <1>9 DEF PagingInv, FetchedOnce
<1>10. CASE up = <<SyncOfflineMessages(2)>>
  BY <1>8, <1>10 DEF PagingInv, FetchedOnce
<1> QED
  BY <1>2, <1>7, <1>9, <1>10 DEF PagingInv, TurnsInv

LEMMA PagingKept ==
  ASSUME IInv, PagingInv, [Next]_vars
  PROVE  PagingInv'
<1>1. ASSUME UNCHANGED <<phase, wires, storeVars, serverVars, sent, logins>> PROVE PagingInv'
  <2>1. /\ UNCHANGED <<phase, up, down, stored, misfiled, held, confirmed, atLogin, renumbers, again, sent, logins>>
        /\ held \in SUBSET Messages /\ down \in Seq(Notices) /\ sent \in Nat
    BY <1>1, PagingTypes DEF wires, storeVars, serverVars
  <2>2. Counts
    BY <2>1 DEF Counts
  <2>3. NotesFrom /\ ChatsApart
    BY <2>1, <2>2, NotesUnchanged
  <2>4. phase # "online" => down' = <<>>
    BY <2>1 DEF PagingInv, TurnsInv
  <2>5. TurnsInv' /\ FetchedOnce'
    BY <2>1, <2>3, <2>4, HeldStays
  <2>6. NumbersInv'
    BY <2>1, <2>2, <2>3, NumbersStay
  <2> QED
    BY <2>5, <2>6 DEF PagingInv
<1>2. CASE UpdateMessages \/ UNCHANGED vars \/ \E c \in Conversations : OnMessageClicked(c)
  BY <1>1, <1>2 DEF UpdateMessages, vars, OnMessageClicked, Selects, wires, storeVars, serverVars, countVars
<1> QED
  BY <1>2, NewMessageKeepsPaging, ServerKeepsPaging, LoginAnswerKeepsPaging, PushedKeepsPaging,
     PageKeepsPaging, LoginKeepsPaging DEF Next

(* Paging never stores a message twice in one login, whether or not the    *)
(* server numbers its pages anew and however often connection and program  *)
(* end, but for the second of two full pages: the code takes every page    *)
(* for the first, and asks for the second again and again                  *)
(* (MessageHandler::handleOfflineMessages).                                *)
THEOREM FetchedOncePerLogin == Spec => []OneCopyPerLogin
<1>1. Init => PagingInv
  <2> SUFFICES ASSUME Init PROVE PagingInv
    OBVIOUS
  <2>1. /\ up = <<>> /\ down = <<>> /\ held = {} /\ stored = None /\ misfiled = None
    BY DEF Init
  <2>2. Len(down) = 0 /\ Notes = {} /\ \A m \in Messages : None[m] = 0
    BY <2>1 DEF Notes, None
  <2>3. NumbersInv
    BY <2>1, <2>2, FS_EmptySet, BoundsAssumption DEF NumbersInv
  <2> QED
    BY <2>1, <2>2, <2>3 DEF PagingInv, TurnsInv, FetchedOnce
<1>2. PagingInv => OneCopyPerLogin
  BY DEF PagingInv, FetchedOnce, CopiesOf, OneCopyPerLogin
<1>3. IInv /\ PagingInv /\ [Next]_vars => PagingInv'
  BY PagingKept
<1> QED
  BY <1>1, <1>2, <1>3, Inductive, PTL DEF Spec

-----------------------------------------------------------------------------
(* ChatList: the rows of the open conversation and the selection.         *)

LEMMA AppendFacts ==
  ASSUME NEW S, NEW s \in Seq(S), NEW e \in S
  PROVE  /\ Append(s, e) \in Seq(S) /\ Len(Append(s, e)) = Len(s) + 1 /\ Len(s) \in Nat
         /\ \A i \in 1..Len(s) : Append(s, e)[i] = s[i]
         /\ Append(s, e)[Len(s) + 1] = e
  BY AppendProperties, LenProperties

(* Induction over the numbers, for the rows that are added one by one.     *)
LEMMA LeastOf ==
  ASSUME NEW T \in SUBSET Nat, T # {}
  PROVE  \E x \in T : \A y \in T : x <= y
<1>1. PICK R : R = OpToRel(<, Nat)
  OBVIOUS
<1>2. \A x, y \in Nat : x < y => <<x, y>> \in R
  BY <1>1 DEF OpToRel
<1>3. IsWellFoundedOn(R, Nat)
  BY <1>1, NatLessThanWellFounded
<1>4. PICK x \in T : \A y \in T : ~ (<<y, x>> \in R)
  BY <1>3, WFMin
<1> QED
  <2> SUFFICES ASSUME NEW y \in T PROVE x <= y
    OBVIOUS
  <2>1. ~(y < x)
    BY <1>2, <1>4
  <2> QED
    BY <2>1

LEMMA Induction ==
  ASSUME NEW S, 0 \in S, \A n \in Nat : n \in S => n + 1 \in S
  PROVE  Nat \subseteq S
<1> DEFINE T == Nat \ S
<1>1. SUFFICES ASSUME T # {} PROVE FALSE
  OBVIOUS
<1>2. PICK x \in T : \A y \in T : x <= y
  BY <1>1, LeastOf
<1>3. x # 0 /\ x - 1 \in Nat /\ x - 1 \notin T
  BY <1>2
<1> QED
  BY <1>2, <1>3

EndsInSpace(list) ==
  list # <<>> => list[Len(list)] = BottomSpace /\ \A i \in 1..Len(list) - 1 : list[i] # BottomSpace

(* Each message under its time, and the last one just above the space.     *)
UnderTime(list, i) ==
  /\ i > 1
  /\ IF IsMessage(list[i - 1])
     THEN ~ShouldAddTimeHeader(list[i - 1].message.time, list[i].message.time)
     ELSE /\ list[i - 1] = Header(list[i].message)
          /\ i > 2 => ShouldAddTimeHeader(list[i - 2].message.time, list[i].message.time)
Headed(list) ==
  /\ \A i \in MessageRows(list) : UnderTime(list, i)
  /\ list # <<>> => Len(list) > 1 /\ IsMessage(list[Len(list) - 1])

(* The messages of a list, each once.                                      *)
Shows(list, messages) ==
  /\ \A i \in MessageRows(list) : list[i].message \in messages
  /\ \A m \in messages : \E i \in MessageRows(list) : list[i].message = m
  /\ \A i, j \in MessageRows(list) : list[i].message.id = list[j].message.id => i = j

LEMMA RowShapes ==
  /\ BottomSpace \in ChatRows /\ ~IsMessage(BottomSpace)
  /\ \A m \in ChatMessages : /\ Header(m) \in ChatRows /\ ~IsMessage(Header(m))
                             /\ MessageRow(m) \in ChatRows /\ IsMessage(MessageRow(m)) /\ MessageRow(m).message = m
                             /\ Header(m) # BottomSpace /\ MessageRow(m) # BottomSpace
                             /\ m.id \in 1..MaxStored /\ m.time \in Times
<1>1. BottomSpace \in ChatRows /\ ~IsMessage(BottomSpace)
  BY DEF BottomSpace, ChatRows, IsMessage
<1> SUFFICES ASSUME NEW m \in ChatMessages
             PROVE  /\ Header(m) \in ChatRows /\ ~IsMessage(Header(m))
                    /\ MessageRow(m) \in ChatRows /\ IsMessage(MessageRow(m)) /\ MessageRow(m).message = m
                    /\ Header(m) # BottomSpace /\ MessageRow(m) # BottomSpace
                    /\ m.id \in 1..MaxStored /\ m.time \in Times
  BY <1>1
<1>2. m.id \in 1..MaxStored /\ m.time \in Times
  BY DEF ChatMessages
<1>3. Header(m) \in ChatRows /\ ~IsMessage(Header(m)) /\ Header(m) # BottomSpace
  <2>1. Header(m).kind = "header" /\ BottomSpace.kind = "bottom"
    BY DEF Header, BottomSpace
  <2>2. Header(m) \in [kind : {"header"}, time : Times]
    BY <1>2 DEF Header
  <2> QED
    BY <2>1, <2>2 DEF ChatRows, IsMessage
<1>4. MessageRow(m) \in ChatRows /\ IsMessage(MessageRow(m)) /\ MessageRow(m).message = m /\ MessageRow(m) # BottomSpace
  <2>1. MessageRow(m).kind = "message" /\ BottomSpace.kind = "bottom" /\ MessageRow(m).message = m
    BY DEF MessageRow, BottomSpace
  <2>2. MessageRow(m) \in [kind : {"message"}, message : ChatMessages]
    BY DEF MessageRow
  <2> QED
    BY <2>1, <2>2 DEF ChatRows, IsMessage
<1> QED
  BY <1>2, <1>3, <1>4

LEMMA MessageTypes2 ==
  ASSUME NEW row \in ChatRows, IsMessage(row)
  PROVE  row.message \in ChatMessages /\ row = MessageRow(row.message)
<1>1. row \in [kind : {"message"}, message : ChatMessages]
  BY DEF ChatRows, IsMessage
<1> QED
  BY <1>1 DEF MessageRow

(* What a list has when the space is taken away, a time put there or not,  *)
(* and the message and the space put at the end.                           *)
Extended(r, list, m, k, h) ==
  /\ k \in Nat /\ h \in {0, 1} /\ r \in Seq(ChatRows) /\ Len(r) = k + h + 2
  /\ IF list = <<>> THEN k = 0 ELSE k = Len(list) - 1
  /\ \A i \in 1..k : r[i] = list[i]
  /\ h = 1 => r[k + 1] = Header(m)
  /\ r[k + h + 1] = MessageRow(m) /\ r[k + h + 2] = BottomSpace

LEMMA RowsExtended ==
  ASSUME NEW list \in Seq(ChatRows), EndsInSpace(list), NEW m \in ChatMessages
  PROVE  \E k, h, kept :
           /\ Extended(AddedRows(list, m), list, m, k, h)
           /\ kept \in Seq(ChatRows) /\ Len(kept) = k /\ \A i \in 1..k : kept[i] = list[i]
           /\ h = 1 <=> (MessageRows(kept) = {} \/ ShouldAddTimeHeader(LastMessage(kept).time, m.time))
<1>1. PICK kept : kept = WithoutBottomSpace(list)
  OBVIOUS
<1>2. PICK k : k = Len(kept)
  OBVIOUS
<1>3. /\ kept \in Seq(ChatRows) /\ k \in Nat /\ \A i \in 1..k : kept[i] = list[i]
      /\ IF list = <<>> THEN k = 0 ELSE k = Len(list) - 1
  <2>1. CASE list = <<>>
    <3>1. kept = <<>>
      BY <1>1, <2>1 DEF WithoutBottomSpace
    <3> QED
      BY <1>2, <2>1, <3>1, EmptySeq
  <2>2. CASE list # <<>>
    <3>1. kept = SubSeq(list, 1, Len(list) - 1)
      BY <1>1, <2>2 DEF WithoutBottomSpace, EndsInSpace
    <3>2. Len(list) \in Nat \ {0}
      BY <2>2, EmptySeq, LenProperties
    <3> QED
      <4>1. PICK n : n = Len(list) - 1
        OBVIOUS
      <4>2. n \in Nat /\ \A i \in 1..n : list[i] \in ChatRows
        BY <3>2, <4>1, LenProperties
      <4>3. /\ kept \in Seq(ChatRows) /\ Len(kept) = IF 1 <= n THEN n - 1 + 1 ELSE 0
            /\ \A i \in 1..n - 1 + 1 : kept[i] = list[1 + i - 1]
        BY <3>1, <4>1, <4>2, SubSeqProperties
      <4> QED
        BY <1>2, <2>2, <4>1, <4>2, <4>3
  <2> QED
    BY <2>1, <2>2
<1>4. PICK h : h = IF MessageRows(kept) = {} \/ ShouldAddTimeHeader(LastMessage(kept).time, m.time) THEN 1 ELSE 0
  OBVIOUS
<1>5. PICK hd, row : hd = Header(m) /\ row = MessageRow(m) /\ hd \in ChatRows /\ row \in ChatRows
  BY RowShapes
<1>6. PICK t : t = WithTimeHeader(kept, m)
  OBVIOUS
<1>7. t = IF h = 1 THEN Append(kept, hd) ELSE kept
  BY <1>4, <1>5, <1>6 DEF WithTimeHeader
<1>8. t \in Seq(ChatRows) /\ Len(t) = k + h /\ (\A i \in 1..k : t[i] = list[i]) /\ (h = 1 => t[k + 1] = hd)
  <2>1. CASE h = 1
    BY <1>2, <1>3, <1>5, <1>7, <2>1, AppendFacts
  <2>2. CASE h # 1
    BY <1>2, <1>3, <1>4, <1>7, <2>2
  <2> QED
    BY <2>1, <2>2
<1>9. PICK u : u = Append(t, row)
  OBVIOUS
<1>10. u \in Seq(ChatRows) /\ Len(u) = k + h + 1 /\ (\A i \in 1..(k + h) : u[i] = t[i]) /\ u[k + h + 1] = row
  BY <1>5, <1>8, <1>9, AppendFacts
<1>11. PICK r : r = Append(u, BottomSpace)
  OBVIOUS
<1>12. r \in Seq(ChatRows) /\ Len(r) = k + h + 2 /\ (\A i \in 1..(k + h + 1) : r[i] = u[i]) /\ r[k + h + 2] = BottomSpace
  <2>1. /\ r \in Seq(ChatRows) /\ Len(r) = Len(u) + 1
        /\ (\A i \in 1..Len(u) : r[i] = u[i]) /\ r[Len(u) + 1] = BottomSpace
    BY <1>10, <1>11, RowShapes, AppendFacts
  <2>2. Len(u) + 1 = k + h + 2
    BY <1>3, <1>4, <1>10
  <2> QED
    BY <1>10, <2>1, <2>2
<1>13. r = AddedRows(list, m)
  BY <1>1, <1>5, <1>6, <1>9, <1>11 DEF AddedRows
<1>14. \A i \in 1..k : r[i] = list[i]
  BY <1>3, <1>4, <1>8, <1>10, <1>12
<1>15. h = 1 => r[k + 1] = hd
  BY <1>3, <1>8, <1>10, <1>12
<1>16. r[k + h + 1] = row
  BY <1>3, <1>4, <1>10, <1>12
<1>17. h \in {0, 1}
  BY <1>4
<1>18. Extended(r, list, m, k, h)
  BY <1>3, <1>5, <1>12, <1>14, <1>15, <1>16, <1>17 DEF Extended
<1> QED
  BY <1>2, <1>3, <1>4, <1>13, <1>18

(* What stays, and what is new, in a list that was extended.               *)
LEMMA ExtendedRows ==
  ASSUME NEW list \in Seq(ChatRows), EndsInSpace(list), NEW m \in ChatMessages,
         NEW r, NEW k, NEW h, Extended(r, list, m, k, h)
  PROVE  /\ EndsInSpace(r)
         /\ k + h + 1 \in MessageRows(r)
         /\ \A i \in MessageRows(list) : i \in 1..k /\ i \in MessageRows(r)
         /\ \A i \in MessageRows(r) : i = k + h + 1 \/ (i \in MessageRows(list) /\ i \in 1..k)
<1>1. /\ k \in Nat /\ h \in {0, 1} /\ r \in Seq(ChatRows) /\ Len(r) = k + h + 2
      /\ (\A i \in 1..k : r[i] = list[i]) /\ (h = 1 => r[k + 1] = Header(m))
      /\ r[k + h + 1] = MessageRow(m) /\ r[k + h + 2] = BottomSpace
  BY DEF Extended
<1>2. /\ ~IsMessage(BottomSpace) /\ ~IsMessage(Header(m)) /\ IsMessage(MessageRow(m))
      /\ Header(m) # BottomSpace /\ MessageRow(m) # BottomSpace
  BY RowShapes
<1>3. \A i \in 1..Len(r) : i \in 1..k \/ (h = 1 /\ i = k + 1) \/ i = k + h + 1 \/ i = k + h + 2
  BY <1>1
<1>4. Len(list) \in Nat /\ \A i \in 1..Len(list) : i \in 1..k \/ (list # <<>> /\ i = Len(list))
  BY LenProperties, EmptySeq DEF Extended
<1>5. \A i \in 1..k : i \in 1..Len(list) - 1 /\ i \in 1..Len(list) /\ i \in 1..Len(r)
  BY <1>1, <1>4, EmptySeq DEF Extended
<1>6. EndsInSpace(r)
  <2>1. r[Len(r)] = BottomSpace
    BY <1>1
  <2>2. ASSUME NEW i \in 1..Len(r) - 1
        PROVE  r[i] # BottomSpace
    <3>1. i \in 1..k \/ (h = 1 /\ i = k + 1) \/ i = k + h + 1
      BY <1>1
    <3>2. CASE i \in 1..k
      <4>1. list # <<>>
        BY <1>1, <3>2 DEF Extended
      <4> QED
        BY <1>1, <1>5, <3>2, <4>1 DEF EndsInSpace
    <3> QED
      BY <1>1, <1>2, <3>1, <3>2
  <2> QED
    BY <2>1, <2>2 DEF EndsInSpace
<1>7. k + h + 1 \in MessageRows(r)
  BY <1>1, <1>2 DEF MessageRows
<1>8. ASSUME NEW i \in MessageRows(list)
      PROVE  i \in 1..k /\ i \in MessageRows(r)
  <2>1. i \in 1..Len(list) /\ IsMessage(list[i])
    BY DEF MessageRows
  <2>2. i \in 1..k
    BY <1>2, <1>4, <2>1 DEF EndsInSpace
  <2> QED
    BY <1>1, <1>5, <2>1, <2>2 DEF MessageRows
<1>9. ASSUME NEW i \in MessageRows(r)
      PROVE  i = k + h + 1 \/ (i \in MessageRows(list) /\ i \in 1..k)
  <2>1. i \in 1..Len(r) /\ IsMessage(r[i])
    BY DEF MessageRows
  <2>2. i \in 1..k \/ i = k + h + 1
    BY <1>1, <1>2, <1>3, <2>1
  <2> QED
    BY <1>1, <1>5, <2>1, <2>2 DEF MessageRows
<1> QED
  BY <1>6, <1>7, <1>8, <1>9

-----------------------------------------------------------------------------
LEMMA HeadersKept ==
  ASSUME NEW list \in Seq(ChatRows), EndsInSpace(list), Headed(list), NEW m \in ChatMessages
  PROVE  Headed(AddedRows(list, m))
<1>1. PICK r : r = AddedRows(list, m)
  OBVIOUS
<1>2. PICK k, h, kept :
        /\ Extended(r, list, m, k, h)
        /\ kept \in Seq(ChatRows) /\ Len(kept) = k /\ \A i \in 1..k : kept[i] = list[i]
        /\ h = 1 <=> (MessageRows(kept) = {} \/ ShouldAddTimeHeader(LastMessage(kept).time, m.time))
  BY <1>1, RowsExtended
<1>3. /\ k \in Nat /\ h \in {0, 1} /\ Len(r) = k + h + 2
      /\ (\A i \in 1..k : r[i] = list[i]) /\ (h = 1 => r[k + 1] = Header(m))
      /\ r[k + h + 1] = MessageRow(m)
      /\ IF list = <<>> THEN k = 0 ELSE k = Len(list) - 1
  BY <1>2 DEF Extended
<1>4. IsMessage(MessageRow(m)) /\ MessageRow(m).message = m /\ ~IsMessage(Header(m))
  BY RowShapes
<1>5. k # 0 => list # <<>> /\ k > 1 - 1 /\ IsMessage(list[k]) /\ LastMessage(kept) = list[k].message /\ MessageRows(kept) # {}
  <2> SUFFICES ASSUME k # 0
               PROVE  list # <<>> /\ k > 1 - 1 /\ IsMessage(list[k]) /\ LastMessage(kept) = list[k].message /\ MessageRows(kept) # {}
    OBVIOUS
  <2>1. list # <<>> /\ k > 1 - 1 /\ IsMessage(list[k])
    BY <1>3 DEF Headed
  <2>2. k \in MessageRows(kept) /\ \A j \in MessageRows(kept) : j \in 1..k
    BY <1>2, <1>3, <2>1 DEF MessageRows
  <2>3. PICK c : c = CHOOSE x \in MessageRows(kept) : \A j \in MessageRows(kept) : j <= x
    OBVIOUS
  <2>4. c \in MessageRows(kept) /\ \A j \in MessageRows(kept) : j <= c
    <3>1. \E x \in MessageRows(kept) : \A j \in MessageRows(kept) : j <= x
      BY <1>3, <2>2
    <3> QED
      BY <2>3, <3>1
  <2>5. c = k
    BY <1>3, <2>2, <2>4
  <2>6. LastMessage(kept) = kept[k].message /\ kept[k] = list[k]
    <3>1. LastMessage(kept) = kept[c].message
      BY <2>3 DEF LastMessage
    <3>2. kept[k] = list[k]
      BY <1>2, <1>3, <2>1
    <3> QED
      BY <2>5, <3>1, <3>2
  <2> QED
    BY <2>1, <2>2, <2>6
<1>6. k = 0 => h = 1
  BY <1>2 DEF MessageRows
<1>7. UnderTime(r, k + h + 1)
  <2>1. r[k + h + 1].message = m
    BY <1>3, <1>4
  <2>2. CASE h = 0
    <3>1. k # 0 /\ k + h + 1 > 1 /\ (k + h + 1) - 1 = k /\ k \in 1..k
      BY <1>3, <1>6, <2>2
    <3>2. r[k] = list[k] /\ IsMessage(r[k]) /\ ~ShouldAddTimeHeader(r[k].message.time, m.time)
      BY <1>2, <1>3, <1>5, <2>2, <3>1
    <3> QED
      BY <2>1, <3>1, <3>2 DEF UnderTime
  <2>3. CASE h = 1
    <3>1. k + h + 1 > 1 /\ (k + h + 1) - 1 = k + 1 /\ (k + h + 1) - 2 = k
      BY <1>3, <2>3
    <3>2. r[k + 1] = Header(m) /\ ~IsMessage(r[k + 1])
      BY <1>3, <1>4, <2>3
    <3>3. k + h + 1 > 2 => k # 0 /\ k \in 1..k
      BY <1>3, <2>3
    <3>4. k + h + 1 > 2 => ShouldAddTimeHeader(r[k].message.time, m.time)
      BY <1>2, <1>3, <1>5, <2>3, <3>3
    <3> QED
      BY <2>1, <3>1, <3>2, <3>4 DEF UnderTime
  <2> QED
    BY <1>3, <2>2, <2>3
<1>8. ASSUME NEW i \in MessageRows(list), i \in 1..k
      PROVE  UnderTime(r, i)
  <2>1. UnderTime(list, i)
    BY DEF Headed
  <2>2. i > 1 /\ i - 1 \in 1..k /\ (i > 2 => i - 2 \in 1..k)
    BY <1>3, <1>8, <2>1 DEF UnderTime
  <2>3. r[i] = list[i] /\ r[i - 1] = list[i - 1] /\ (i > 2 => r[i - 2] = list[i - 2])
    BY <1>3, <1>8, <2>2
  <2> QED
    BY <2>1, <2>3 DEF UnderTime
<1>9. \A i \in MessageRows(r) : UnderTime(r, i)
  BY <1>2, <1>7, <1>8, ExtendedRows
<1>10. Len(r) > 1 /\ IsMessage(r[Len(r) - 1])
  <2>1. Len(r) - 1 = k + h + 1 /\ Len(r) > 1
    BY <1>3
  <2> QED
    BY <1>3, <1>4, <2>1
<1> QED
  BY <1>1, <1>9, <1>10 DEF Headed

LEMMA MessageShown ==
  ASSUME NEW list \in Seq(ChatRows), EndsInSpace(list), NEW M, Shows(list, M),
         NEW m \in ChatMessages, \A x \in M : x.id # m.id
  PROVE  Shows(AddedRows(list, m), M \cup {m})
<1>1. PICK r : r = AddedRows(list, m)
  OBVIOUS
<1>2. PICK k, h : Extended(r, list, m, k, h)
  BY <1>1, RowsExtended
<1>3. k \in Nat /\ h \in {0, 1} /\ (\A i \in 1..k : r[i] = list[i]) /\ r[k + h + 1] = MessageRow(m)
  BY <1>2 DEF Extended
<1>4. r[k + h + 1].message = m
  BY <1>3, RowShapes
<1>5. /\ k + h + 1 \in MessageRows(r)
      /\ \A i \in MessageRows(list) : i \in 1..k /\ i \in MessageRows(r) /\ r[i] = list[i]
      /\ \A i \in MessageRows(r) : i = k + h + 1 \/ (i \in MessageRows(list) /\ r[i] = list[i])
  BY <1>2, <1>3, ExtendedRows
<1>6. \A i \in MessageRows(r) : r[i].message \in M \cup {m}
  BY <1>4, <1>5 DEF Shows
<1>7. \A x \in M \cup {m} : \E i \in MessageRows(r) : r[i].message = x
  BY <1>4, <1>5 DEF Shows
<1>8. \A i, j \in MessageRows(r) : r[i].message.id = r[j].message.id => i = j
  <2> SUFFICES ASSUME NEW i \in MessageRows(r), NEW j \in MessageRows(r), r[i].message.id = r[j].message.id
               PROVE  i = j
    OBVIOUS
  <2>1. \A l \in MessageRows(list) : r[l].message.id # m.id
    BY <1>5 DEF Shows
  <2> QED
    BY <1>4, <1>5, <2>1 DEF Shows
<1> QED
  BY <1>1, <1>6, <1>7, <1>8 DEF Shows

Whole(list, M) == list \in Seq(ChatRows) /\ EndsInSpace(list) /\ Headed(list) /\ Shows(list, M)

LEMMA RowsTyped ==
  ASSUME NEW list \in Seq(ChatRows), EndsInSpace(list), NEW m \in ChatMessages
  PROVE  AddedRows(list, m) \in Seq(ChatRows) /\ EndsInSpace(AddedRows(list, m))
<1>1. PICK r : r = AddedRows(list, m)
  OBVIOUS
<1>2. PICK k, h : Extended(r, list, m, k, h)
  BY <1>1, RowsExtended
<1>3. EndsInSpace(r)
  BY <1>2, ExtendedRows
<1> QED
  BY <1>1, <1>2, <1>3 DEF Extended

LEMMA RowsFilled ==
  ASSUME NEW messages \in Seq(ChatMessages),
         \A i, j \in 1..Len(messages) : messages[i].id = messages[j].id => i = j
  PROVE  Whole(RowsOf(messages), {messages[i] : i \in 1..Len(messages)})
<1> DEFINE L == Len(messages)
           Row(f, n) == IF n = 0 THEN <<>> ELSE AddedRows(f[n - 1], messages[n])
           S == {l \in Nat : \E f : f = [n \in 0..l |-> Row(f, n)]}
<1>0. L \in Nat
  BY LenProperties
<1>1. 0 \in S
  <2>1. PICK f : f = [n \in 0..0 |-> <<>>]
    OBVIOUS
  <2>2. [n \in 0..0 |-> Row(f, n)] = f
    BY <2>1
  <2> QED
    BY <2>2
<1>2. ASSUME NEW l \in Nat, l \in S PROVE l + 1 \in S
  <2>1. PICK f : f = [n \in 0..l |-> Row(f, n)]
    BY <1>2
  <2>2. PICK g : g = [n \in 0..(l + 1) |-> IF n = l + 1 THEN AddedRows(f[l], messages[l + 1]) ELSE f[n]]
    OBVIOUS
  <2>3. ASSUME NEW n \in 0..(l + 1) PROVE g[n] = Row(g, n)
    <3>1. CASE n = l + 1
      BY <3>1, <2>2
    <3>2. CASE n # l + 1
      <4>1. n \in 0..l /\ g[n] = f[n] /\ f[n] = Row(f, n)
        BY <3>2, <2>1, <2>2
      <4>2. n # 0 => g[n - 1] = f[n - 1]
        BY <4>1, <2>2
      <4> QED
        BY <4>1, <4>2
    <3> QED
      BY <3>1, <3>2
  <2>4. g = [n \in 0..(l + 1) |-> g[n]]
    BY <2>2
  <2>5. g = [n \in 0..(l + 1) |-> Row(g, n)]
    BY <2>3, <2>4
  <2>6. \E e : e = [n \in 0..(l + 1) |-> Row(e, n)]
    BY <2>5
  <2> HIDE DEF Row
  <2> QED
    BY <2>6
<1>3. Nat \subseteq S
  <2> HIDE DEF S
  <2> QED
    BY <1>1, <1>2, Induction
<1>4. \E f : f = [n \in 0..L |-> Row(f, n)]
  BY <1>0, <1>3
<1>5. PICK filled : filled = [n \in 0..L |-> Row(filled, n)] /\ RowsOf(messages) = filled[L]
  BY <1>4 DEF RowsOf
<1> DEFINE M(n) == {messages[i] : i \in 1..n}
           T == {n \in Nat : n \in 0..L => Whole(filled[n], M(n))}
<1>6. 0 \in T
  <2>1. filled[0] = <<>>
    BY <1>0, <1>5
  <2>2. MessageRows(<<>>) = {} /\ <<>> \in Seq(ChatRows)
    BY EmptySeq DEF MessageRows
  <2>3. M(0) = {}
    OBVIOUS
  <2>4. Whole(<<>>, {})
    BY <2>2 DEF Whole, EndsInSpace, Headed, Shows
  <2> QED
    BY <2>1, <2>3, <2>4
<1>7. ASSUME NEW n \in Nat, n \in T PROVE n + 1 \in T
  <2>1. SUFFICES ASSUME n + 1 \in 0..L PROVE Whole(filled[n + 1], M(n + 1))
    OBVIOUS
  <2>2. n \in 0..L /\ n + 1 \in 1..L /\ n + 1 # 0 /\ (n + 1) - 1 = n
    BY <2>1, <1>0
  <2>3. filled[n + 1] = AddedRows(filled[n], messages[n + 1])
    BY <2>1, <2>2, <1>5
  <2>4. PICK list, m, N : list = filled[n] /\ m = messages[n + 1] /\ N = M(n)
    OBVIOUS
  <2>5. Whole(list, N)
    BY <1>7, <2>2, <2>4
  <2>6. m \in ChatMessages
    BY <2>2, <2>4, LenProperties
  <2>7. \A x \in N : x.id # m.id
    <3>1. \A i \in 1..n : i \in 1..L /\ i # n + 1
      BY <2>2, <1>0
    <3> QED
      BY <2>2, <2>4, <3>1
  <2>8. Whole(AddedRows(list, m), N \cup {m})
    BY <2>5, <2>6, <2>7, RowsTyped, HeadersKept, MessageShown DEF Whole
  <2>9. M(n + 1) = N \cup {m}
    <3>1. \A i : i \in 1..(n + 1) <=> i \in 1..n \/ i = n + 1
      OBVIOUS
    <3> QED
      BY <2>4, <3>1
  <2> QED
    BY <2>3, <2>4, <2>8, <2>9
<1>8. Nat \subseteq T
  <2> HIDE DEF T
  <2> QED
    BY <1>6, <1>7, Induction
<1>9. L \in T
  BY <1>0, <1>8
<1>10. Whole(filled[L], M(L))
  BY <1>0, <1>9
<1> QED
  BY <1>5, <1>10

-----------------------------------------------------------------------------
(* Every message of the store has a number of its own, the next one is new. *)
StoreInv ==
  /\ \A c \in ConversationIds : IsFiniteSet(store[c])
  /\ \A c, d \in ConversationIds : \A m \in store[c] : \A k \in store[d] : m.id = k.id => c = d /\ m = k
  /\ \E n \in 0..MaxStored : StoredIds = 1..n

(* What the list shows is in the store, and what it does not show was       *)
(* deleted or is over the limit.                                            *)
RowsInv ==
  /\ EndsInSpace(items)
  /\ deleted = {} => Headed(items)
  /\ conversation = NoConversation => items = <<>> /\ hidden = {}
  /\ conversation # NoConversation =>
       /\ hidden \subseteq {m.id : m \in store[conversation]}
       /\ \E shown \in SUBSET store[conversation] :
            /\ Shows(items, shown)
            /\ \A m \in store[conversation] : m \in shown \/ m.id \in deleted \/ m.id \in hidden
       /\ \A m \in store[conversation] : m.id \in hidden =>
            Cardinality({k \in store[conversation] : k.id \notin hidden /\ m.time <= k.time}) >= Limit

(* The menu stands at the selected message.                                 *)
SelectedInv ==
  /\ SelectionIsMarked
  /\ stale => marked = {}
  /\ menu # 0 => HasMessage(menu) /\ IdAt(menu) = target /\ selectedMessageIndex = menu

ChatListInv == ChatListTypeOK /\ StoreInv /\ RowsInv /\ SelectedInv

LEMMA MessageAt ==
  ASSUME items \in Seq(ChatRows), NEW row \in MessageRows(items)
  PROVE  HasMessage(row) /\ items[row].message \in ChatMessages /\ IdAt(row) \in 1..MaxStored /\ row \in Nat
<1>1. row \in 1..Len(items) /\ IsMessage(items[row]) /\ items[row] \in ChatRows
  BY LenProperties DEF MessageRows
<1> QED
  BY <1>1, MessageTypes2, RowShapes DEF HasMessage, IdAt

LEMMA NextMessage ==
  ASSUME ChatListInv, Count < MaxStored, NEW t \in Times, NEW m, m = [id |-> Count + 1, time |-> t], NEW c \in ConversationIds
  PROVE  /\ m \in ChatMessages
         /\ \A d \in ConversationIds : \A k \in store[d] : k.id # m.id
         /\ \A n \in 0..MaxStored : StoredIds = 1..n => m.id = n + 1 /\ n + 1 \in 0..MaxStored
<1>1. store \in [ConversationIds -> SUBSET ChatMessages]
  BY DEF ChatListInv, ChatListTypeOK
<1>2. PICK n \in 0..MaxStored : StoredIds = 1..n
  BY DEF ChatListInv, StoreInv
<1>3. n \in Nat /\ Cardinality(1..n) = n
  BY ChatListAssumption, FS_Interval
<1>4. m.id = n + 1 /\ n < MaxStored /\ m.time = t
  BY <1>2, <1>3 DEF Count
<1>5. m \in ChatMessages
  BY <1>3, <1>4, ChatListAssumption DEF ChatMessages
<1>6. ASSUME NEW d \in ConversationIds, NEW k \in store[d]
      PROVE  k.id # m.id
  <2>1. k \in ChatMessages
    BY <1>1
  <2>2. k.id \in StoredIds
    BY <2>1 DEF StoredIds, ChatMessages
  <2>3. k.id \in 1..n
    BY <1>2, <2>2
  <2> QED
    BY <1>3, <1>4, <2>3
<1>7. ASSUME NEW l \in 0..MaxStored, StoredIds = 1..l
      PROVE  m.id = l + 1 /\ l + 1 \in 0..MaxStored
  <2>1. Cardinality(1..l) = l /\ l \in Nat
    BY ChatListAssumption, FS_Interval
  <2>2. Count = l
    BY <1>7, <2>1 DEF Count
  <2> QED
    BY <2>1, <2>2, ChatListAssumption
<1> QED
  BY <1>5, <1>6, <1>7

LEMMA StoreStep ==
  ASSUME ChatListInv, [ChatListNext]_chatListVars
  PROVE  StoreInv'
<1>1. StoreInv /\ store \in [ConversationIds -> SUBSET ChatMessages]
  BY DEF ChatListInv, ChatListTypeOK
<1>2. CASE UNCHANGED store
  BY <1>1, <1>2 DEF StoreInv, StoredIds
<1>3. CASE AddMessage
  <2>0. PICK c \in ConversationIds, t \in Times :
          /\ Count < MaxStored
          /\ store' = [store EXCEPT ![c] = store[c] \cup {[id |-> Count + 1, time |-> t]}]
    BY <1>3 DEF AddMessage
  <2>1. PICK m : m = [id |-> Count + 1, time |-> t] /\ store' = [store EXCEPT ![c] = store[c] \cup {m}]
    BY <2>0
  <2>2. m \in ChatMessages /\ (\A d \in ConversationIds : \A k \in store[d] : k.id # m.id)
        /\ (\A n \in 0..MaxStored : StoredIds = 1..n => m.id = n + 1 /\ n + 1 \in 0..MaxStored)
    BY <2>0, <2>1, NextMessage
  <2>3. \A d \in ConversationIds : store'[d] = (IF d = c THEN store[d] \cup {m} ELSE store[d])
    BY <1>1, <2>1
  <2>4. \A d \in ConversationIds : IsFiniteSet(store'[d])
    <3>1. IsFiniteSet(store[c] \cup {m})
      BY <1>1, FS_AddElement DEF StoreInv
    <3> QED
      BY <1>1, <2>3, <3>1 DEF StoreInv
  <2>5. \A d, e \in ConversationIds : \A k \in store'[d] : \A l \in store'[e] : k.id = l.id => d = e /\ k = l
    <3> SUFFICES ASSUME NEW d \in ConversationIds, NEW e \in ConversationIds, NEW k \in store'[d], NEW l \in store'[e], k.id = l.id
                 PROVE  d = e /\ k = l
      OBVIOUS
    <3>1. k \in store[d] \/ (d = c /\ k = m)
      BY <2>3
    <3>2. l \in store[e] \/ (e = c /\ l = m)
      BY <2>3
    <3> QED
      BY <1>1, <2>2, <3>1, <3>2 DEF StoreInv
  <2>6. PICK n \in 0..MaxStored : StoredIds = 1..n
    BY <1>1 DEF StoreInv
  <2>7. m.id = n + 1 /\ n + 1 \in 0..MaxStored /\ n \in Nat /\ MaxStored \in Nat
    BY <2>2, <2>6, ChatListAssumption
  <2>8. \A id \in 1..MaxStored : (\E d \in ConversationIds : \E k \in store'[d] : k.id = id)
                                 <=> (\E d \in ConversationIds : \E k \in store[d] : k.id = id) \/ id = m.id
    BY <2>3
  <2>9. \A id \in 1..MaxStored : id \in StoredIds' <=> id \in StoredIds \/ id = n + 1
    BY <2>7, <2>8 DEF StoredIds
  <2>10. StoredIds' \subseteq 1..MaxStored
    BY DEF StoredIds
  <2>11. StoredIds' = 1..(n + 1)
    <3>1. PICK s : s = StoredIds'
      OBVIOUS
    <3>2. \A id \in 1..MaxStored : id \in s <=> id \in 1..(n + 1)
      BY <2>6, <2>7, <2>9, <3>1
    <3>3. s \subseteq 1..MaxStored /\ 1..(n + 1) \subseteq 1..MaxStored
      BY <2>7, <2>10, <3>1
    <3> QED
      BY <3>1, <3>2, <3>3
  <2> QED
    BY <2>4, <2>5, <2>7, <2>11 DEF StoreInv
<1> QED
  BY <1>2, <1>3 DEF ChatListNext, ClickMessage, ClickBeside, ClickElsewhere, CloseMenu, DeleteMessage,
                    OnConversationClicked, chatListVars

(* The list when a conversation is opened.                                  *)
LEMMA ListOpened ==
  ASSUME ChatListInv, NEW c \in ConversationIds, NEW read \in Newest(store[c]), NEW messages \in InTimeOrder(read)
  PROVE  Whole(RowsOf(messages), read) /\ read \subseteq store[c] /\ IsFiniteSet(read)
<1>1. store[c] \subseteq ChatMessages /\ IsFiniteSet(store[c])
      /\ \A m, k \in store[c] : m.id = k.id => m = k
  BY DEF ChatListInv, ChatListTypeOK, StoreInv
<1>2. read \subseteq store[c]
  BY DEF Newest
<1>3. IsFiniteSet(read) /\ Cardinality(read) \in Nat
  BY <1>1, <1>2, FS_Subset, FS_CardinalityType
<1>4. PICK n : n = Cardinality(read)
  OBVIOUS
<1>5. messages \in [1..n -> read] /\ \A i, j \in 1..n : i < j => messages[i] # messages[j]
  BY <1>4 DEF InTimeOrder
<1>6. \A i, j \in 1..n : messages[i] = messages[j] => i = j
  <2> SUFFICES ASSUME NEW i \in 1..n, NEW j \in 1..n, messages[i] = messages[j], i # j PROVE FALSE
    OBVIOUS
  <2>1. i < j \/ j < i
    BY <1>3, <1>4
  <2> QED
    BY <1>5, <2>1
<1>7. messages \in Seq(ChatMessages) /\ Len(messages) = n
  <2>1. messages \in [1..n -> ChatMessages] /\ n \in Nat
    BY <1>1, <1>2, <1>3, <1>4, <1>5
  <2>2. messages \in Seq(ChatMessages)
    BY <2>1, SeqDef
  <2> QED
    BY <2>1, <2>2, LenProperties
<1>8. {messages[i] : i \in 1..n} = read
  <2>1. messages \in Injection(1..n, read)
    BY <1>5, <1>6 DEF Injection, IsInjective
  <2>2. IsFiniteSet(1..n) /\ Cardinality(1..n) = n
    BY <1>3, <1>4, FS_Interval
  <2>3. messages \in Surjection(1..n, read)
    BY <2>1, <2>2, <1>3, <1>4, FS_Injection
  <2> QED
    BY <1>5, <2>3 DEF Surjection
<1>9. \A i, j \in 1..n : messages[i].id = messages[j].id => i = j
  BY <1>1, <1>2, <1>5, <1>6
<1> QED
  BY <1>2, <1>3, <1>7, <1>8, <1>9, RowsFilled

(* A list without one of its messages.                                      *)
LEMMA RowTaken ==
  ASSUME items \in Seq(ChatRows), EndsInSpace(items), NEW row \in MessageRows(items), NEW r, r = Without(row)
  PROVE  /\ r \in Seq(ChatRows) /\ EndsInSpace(r) /\ Len(r) = Len(items) - 1 /\ Len(items) \in Nat
         /\ \A i \in 1..Len(r) : r[i] = (IF i < row THEN items[i] ELSE items[i + 1])
         /\ \A i \in 1..Len(items) : i = row \/ (i < row /\ i \in 1..Len(r)) \/ (i > row /\ i - 1 \in 1..Len(r))
         /\ \A i \in 1..Len(r) : IF i < row THEN i \in 1..Len(items) ELSE i + 1 \in 1..Len(items)
<1>1. row \in 1..Len(items) /\ IsMessage(items[row]) /\ Len(items) \in Nat
  BY LenProperties DEF MessageRows
<1>2. items # <<>> /\ row # Len(items)
  BY <1>1, RowShapes DEF EndsInSpace
<1>3. PICK n : n = Len(items) - 1
  OBVIOUS
<1>4. n \in Nat /\ row \in 1..n /\ Len(items) = n + 1
  BY <1>1, <1>2, <1>3
<1>5. r = [i \in 1..n |-> IF i < row THEN items[i] ELSE items[i + 1]]
  BY <1>3 DEF Without
<1>6. \A i \in 1..n : i \in 1..Len(items) /\ i + 1 \in 1..Len(items)
  BY <1>4
<1>7. \A i \in 1..n : r[i] \in ChatRows
  BY <1>5, <1>6, LenProperties
<1>8. r \in [1..n -> ChatRows]
  BY <1>5, <1>7
<1>9. r \in Seq(ChatRows)
  BY <1>4, <1>8, SeqDef
<1>10. Len(r) = n
  BY <1>4, <1>8, <1>9, LenProperties
<1>11. EndsInSpace(r)
  <2>1. r[n] = items[n + 1]
    BY <1>4, <1>5
  <2>2. r[n] = BottomSpace
    BY <1>2, <1>4, <2>1 DEF EndsInSpace
  <2>3. \A i \in 1..n - 1 : i \in 1..Len(items) - 1 /\ i + 1 \in 1..Len(items) - 1 /\ i \in 1..n
    BY <1>4
  <2>4. \A i \in 1..n - 1 : r[i] # BottomSpace
    BY <1>2, <1>5, <2>3 DEF EndsInSpace
  <2> QED
    BY <1>10, <2>2, <2>4 DEF EndsInSpace
<1> QED
  BY <1>4, <1>5, <1>9, <1>10, <1>11

-----------------------------------------------------------------------------
(* The row that is deleted, and how those left correspond to the others.    *)
LEMMA DeletedRow ==
  ASSUME ChatListInv, DeleteMessage
  PROVE  /\ menu \in MessageRows(items) /\ items[menu].message.id = target /\ target \in 1..MaxStored
         /\ items' \in Seq(ChatRows) /\ EndsInSpace(items)'
         /\ \A i \in 1..Len(items') : \E j \in 1..Len(items) \ {menu} : items'[i] = items[j] /\ j = (IF i < menu THEN i ELSE i + 1)
         /\ \A j \in 1..Len(items) \ {menu} : \E i \in 1..Len(items') : items'[i] = items[j] /\ i = (IF j < menu THEN j ELSE j - 1)
         /\ conversation # NoConversation
<1>1. menu # 0 /\ HasMessage(menu) /\ items' = Without(menu)
  BY DEF DeleteMessage
<1>2. IdAt(menu) = target /\ items \in Seq(ChatRows) /\ EndsInSpace(items)
  BY <1>1 DEF ChatListInv, SelectedInv, RowsInv, ChatListTypeOK
<1>3. menu \in MessageRows(items)
  BY <1>1 DEF HasMessage, MessageRows
<1>4. items[menu].message.id = target /\ target \in 1..MaxStored
  BY <1>2, <1>3, MessageAt DEF IdAt
<1>5. PICK r : r = Without(menu)
  OBVIOUS
<1>6. /\ r \in Seq(ChatRows) /\ EndsInSpace(r) /\ Len(r) = Len(items) - 1 /\ Len(items) \in Nat
      /\ \A i \in 1..Len(r) : r[i] = (IF i < menu THEN items[i] ELSE items[i + 1])
      /\ \A i \in 1..Len(items) : i = menu \/ (i < menu /\ i \in 1..Len(r)) \/ (i > menu /\ i - 1 \in 1..Len(r))
      /\ \A i \in 1..Len(r) : IF i < menu THEN i \in 1..Len(items) ELSE i + 1 \in 1..Len(items)
  BY <1>2, <1>3, <1>5, RowTaken
<1>7. menu \in Nat
  BY <1>2, <1>3, MessageAt
<1>8. ASSUME NEW i \in 1..Len(r)
      PROVE  \E j \in 1..Len(items) \ {menu} : r[i] = items[j] /\ j = (IF i < menu THEN i ELSE i + 1)
  <2>1. PICK j : j = IF i < menu THEN i ELSE i + 1
    OBVIOUS
  <2>2. j \in 1..Len(items) /\ j # menu /\ r[i] = items[j]
    BY <1>6, <1>7, <2>1
  <2> QED
    BY <2>1, <2>2
<1>9. ASSUME NEW j \in 1..Len(items) \ {menu}
      PROVE  \E i \in 1..Len(r) : r[i] = items[j] /\ i = (IF j < menu THEN j ELSE j - 1)
  <2>1. PICK i : i = IF j < menu THEN j ELSE j - 1
    OBVIOUS
  <2>2. CASE j < menu
    <3>1. i = j /\ i \in 1..Len(r)
      BY <1>6, <1>7, <2>1, <2>2
    <3> QED
      BY <1>6, <2>1, <2>2, <3>1
  <2>3. CASE ~(j < menu)
    <3>1. i = j - 1 /\ i \in 1..Len(r) /\ ~(i < menu) /\ i + 1 = j
      BY <1>6, <1>7, <2>1, <2>3
    <3> QED
      BY <1>6, <2>1, <2>3, <3>1
  <2> QED
    BY <2>2, <2>3
<1>10. items # <<>>
  BY <1>3, EmptySeq DEF MessageRows
<1>11. conversation # NoConversation
  BY <1>10 DEF ChatListInv, RowsInv
<1>12. items' = r /\ EndsInSpace(items)'
  BY <1>1, <1>5, <1>6 DEF EndsInSpace
<1> QED
  BY <1>3, <1>4, <1>6, <1>8, <1>9, <1>11, <1>12

(* The message the list is extended with.                                   *)
LEMMA AddedRow ==
  ASSUME ChatListInv, AddMessage
  PROVE  \E c \in ConversationIds : \E m \in ChatMessages :
           /\ store' = [store EXCEPT ![c] = store[c] \cup {m}]
           /\ \A d \in ConversationIds : \A k \in store[d] : k.id # m.id
           /\ items' = IF c = conversation THEN AddedRows(items, m) ELSE items
           /\ items' \in Seq(ChatRows) /\ EndsInSpace(items)'
           /\ \A i \in MessageRows(items) : i \in MessageRows(items)' /\ items'[i] = items[i]
           /\ UNCHANGED <<selectedMessageIndex, marked, conversation, menu, target, running, stale, deleted, hidden>>
<1>1. PICK c \in ConversationIds, t \in Times :
        /\ Count < MaxStored
        /\ store' = [store EXCEPT ![c] = store[c] \cup {[id |-> Count + 1, time |-> t]}]
        /\ items' = IF c = conversation THEN AddedRows(items, [id |-> Count + 1, time |-> t]) ELSE items
        /\ UNCHANGED <<selectedMessageIndex, marked, conversation, menu, target, running, stale, deleted, hidden>>
  BY DEF AddMessage
<1>2. PICK m : m = [id |-> Count + 1, time |-> t]
  OBVIOUS
<1>3. m \in ChatMessages /\ (\A d \in ConversationIds : \A k \in store[d] : k.id # m.id)
  BY <1>1, <1>2, NextMessage
<1>4. items \in Seq(ChatRows) /\ EndsInSpace(items)
  BY DEF ChatListInv, ChatListTypeOK, RowsInv
<1>5. PICK r : r = AddedRows(items, m)
  OBVIOUS
<1>6. r \in Seq(ChatRows) /\ EndsInSpace(r)
  BY <1>3, <1>4, <1>5, RowsTyped
<1>7. \A i \in MessageRows(items) : i \in MessageRows(r) /\ r[i] = items[i]
  <2>1. PICK k, h : Extended(r, items, m, k, h)
    BY <1>3, <1>4, <1>5, RowsExtended
  <2>2. \A i \in 1..k : r[i] = items[i]
    BY <2>1 DEF Extended
  <2> QED
    BY <1>3, <1>4, <2>1, <2>2, ExtendedRows
<1>8. items' = IF c = conversation THEN r ELSE items
  BY <1>1, <1>2, <1>5
<1>9. items' \in Seq(ChatRows) /\ EndsInSpace(items)' /\ \A i \in MessageRows(items) : i \in MessageRows(items)' /\ items'[i] = items[i]
  <2>1. CASE c = conversation
    <3>1. items' = r
      BY <1>8, <2>1
    <3> QED
      BY <1>6, <1>7, <3>1 DEF EndsInSpace, MessageRows
  <2>2. CASE c # conversation
    <3>1. items' = items
      BY <1>8, <2>2
    <3> QED
      BY <1>4, <3>1 DEF EndsInSpace, MessageRows
  <2> QED
    BY <2>1, <2>2
<1> QED
  BY <1>1, <1>2, <1>3, <1>9

LEMMA RowsKept ==
  ASSUME RowsInv, UNCHANGED <<items, conversation, deleted, hidden>>,
         conversation # NoConversation => store'[conversation] = store[conversation]
  PROVE  RowsInv'
<1>1. EndsInSpace(items)'
  BY DEF RowsInv, EndsInSpace
<1>2. MessageRows(items)' = MessageRows(items)
  BY DEF MessageRows
<1>3. (deleted = {} => Headed(items))'
  <2>1. SUFFICES ASSUME Headed(items)
                 PROVE  Headed(items)'
    BY DEF RowsInv
  <2>2. \A i \in MessageRows(items)' : UnderTime(items, i)'
    BY <1>2, <2>1 DEF Headed, UnderTime
  <2>3. (items # <<>> => Len(items) > 1 /\ IsMessage(items[Len(items) - 1]))'
    BY <2>1 DEF Headed
  <2> QED
    BY <2>2, <2>3 DEF Headed
<1>4. (conversation = NoConversation => items = <<>> /\ hidden = {})'
  BY DEF RowsInv
<1>5. ASSUME conversation # NoConversation
      PROVE  /\ hidden' \subseteq {m.id : m \in store'[conversation']}
             /\ \E shown \in SUBSET store'[conversation'] :
                  /\ Shows(items, shown)'
                  /\ \A m \in store'[conversation'] : m \in shown \/ m.id \in deleted' \/ m.id \in hidden'
             /\ \A m \in store'[conversation'] : m.id \in hidden' =>
                  Cardinality({k \in store'[conversation'] : k.id \notin hidden' /\ m.time <= k.time}) >= Limit
  <2>1. PICK s : s = store[conversation] /\ s = store'[conversation']
    BY <1>5
  <2>2. PICK shown \in SUBSET s : Shows(items, shown) /\ \A m \in s : m \in shown \/ m.id \in deleted \/ m.id \in hidden
    BY <1>5, <2>1 DEF RowsInv
  <2>3. Shows(items, shown)'
    BY <1>2, <2>2 DEF Shows
  <2>4. /\ hidden \subseteq {m.id : m \in s}
        /\ \A m \in s : m.id \in hidden => Cardinality({k \in s : k.id \notin hidden /\ m.time <= k.time}) >= Limit
    BY <1>5, <2>1 DEF RowsInv
  <2> QED
    BY <2>1, <2>2, <2>3, <2>4
<1> QED
  BY <1>1, <1>3, <1>4, <1>5 DEF RowsInv

LEMMA RowsStep ==
  ASSUME ChatListInv, [ChatListNext]_chatListVars
  PROVE  RowsInv'
<1>1. RowsInv /\ items \in Seq(ChatRows) /\ store \in [ConversationIds -> SUBSET ChatMessages] /\ conversation \in ConversationIds \cup {NoConversation}
  BY DEF ChatListInv, ChatListTypeOK
<1>2. CASE UNCHANGED <<items, store, conversation, deleted, hidden>>
  BY <1>1, <1>2, RowsKept
<1>3. CASE DeleteMessage
  <2>1. /\ menu \in MessageRows(items) /\ items[menu].message.id = target
        /\ EndsInSpace(items)'
        /\ \A i \in 1..Len(items') : \E j \in 1..Len(items) \ {menu} : items'[i] = items[j] /\ j = (IF i < menu THEN i ELSE i + 1)
        /\ \A j \in 1..Len(items) \ {menu} : \E i \in 1..Len(items') : items'[i] = items[j] /\ i = (IF j < menu THEN j ELSE j - 1)
        /\ conversation # NoConversation
    BY <1>3, DeletedRow
  <2>2. UNCHANGED <<store, conversation, hidden>> /\ deleted' = deleted \cup {target}
    BY <1>3 DEF DeleteMessage
  <2>3. PICK shown \in SUBSET store[conversation] :
          /\ Shows(items, shown)
          /\ \A m \in store[conversation] : m \in shown \/ m.id \in deleted \/ m.id \in hidden
    BY <1>1, <2>1 DEF RowsInv
  <2> DEFINE left == shown \ {items[menu].message}
  <2>4. PICK r : r = items'
    OBVIOUS
  <2>5. \A i \in MessageRows(r) : \E j \in MessageRows(items) : j # menu /\ r[i] = items[j] /\ j = (IF i < menu THEN i ELSE i + 1)
    BY <2>1, <2>4 DEF MessageRows
  <2>6. \A j \in MessageRows(items) : j # menu => \E i \in MessageRows(r) : r[i] = items[j]
    BY <2>1, <2>4 DEF MessageRows
  <2>7. Shows(r, left)
    <3>1. \A i \in MessageRows(r) : r[i].message \in left
      BY <2>1, <2>3, <2>5 DEF Shows
    <3>2. \A m \in left : \E i \in MessageRows(r) : r[i].message = m
      BY <2>3, <2>6 DEF Shows
    <3>3. ASSUME NEW i \in MessageRows(r), NEW j \in MessageRows(r), r[i].message.id = r[j].message.id
          PROVE  i = j
      <4>1. PICK a \in MessageRows(items) : r[i] = items[a] /\ a # menu /\ a = (IF i < menu THEN i ELSE i + 1)
        BY <2>5
      <4>2. PICK b \in MessageRows(items) : r[j] = items[b] /\ b # menu /\ b = (IF j < menu THEN j ELSE j + 1)
        BY <2>5
      <4>3. a = b
        BY <2>3, <3>3, <4>1, <4>2 DEF Shows
      <4>4. i \in Nat /\ j \in Nat /\ menu \in Nat
        BY <2>1 DEF MessageRows
      <4> QED
        BY <4>1, <4>2, <4>3, <4>4
    <3> QED
      BY <3>1, <3>2, <3>3 DEF Shows
  <2>8. Shows(items', left)
    BY <2>4, <2>7
  <2>9. \A m \in store[conversation] : m \in left \/ m.id \in deleted' \/ m.id \in hidden
    BY <2>1, <2>2, <2>3
  <2>10. deleted' # {}
    BY <2>2
  <2>11. /\ hidden' \subseteq {m.id : m \in store'[conversation']}
         /\ \A m \in store'[conversation'] : m.id \in hidden' =>
              Cardinality({k \in store'[conversation'] : k.id \notin hidden' /\ m.time <= k.time}) >= Limit
    BY <1>1, <2>1, <2>2 DEF RowsInv
  <2>12. \E s \in SUBSET store'[conversation'] :
           /\ Shows(items', s)
           /\ \A m \in store'[conversation'] : m \in s \/ m.id \in deleted' \/ m.id \in hidden'
    <3>1. left \in SUBSET store'[conversation']
      BY <2>2, <2>3
    <3>2. \A m \in store'[conversation'] : m \in left \/ m.id \in deleted' \/ m.id \in hidden'
      BY <2>2, <2>9
    <3> HIDE DEF left
    <3> QED
      BY <2>8, <3>1, <3>2
  <2>13. conversation' # NoConversation
    BY <2>1, <2>2
  <2> QED
    BY <2>1, <2>10, <2>11, <2>12, <2>13 DEF RowsInv, Shows, MessageRows
<1>4. CASE AddMessage
  <2>1. PICK c \in ConversationIds : \E m \in ChatMessages :
          /\ store' = [store EXCEPT ![c] = store[c] \cup {m}]
          /\ \A d \in ConversationIds : \A k \in store[d] : k.id # m.id
          /\ items' = IF c = conversation THEN AddedRows(items, m) ELSE items
          /\ EndsInSpace(items)'
          /\ UNCHANGED <<conversation, deleted, hidden>>
    BY <1>4, AddedRow
  <2>2. PICK m \in ChatMessages :
          /\ store' = [store EXCEPT ![c] = store[c] \cup {m}]
          /\ \A d \in ConversationIds : \A k \in store[d] : k.id # m.id
          /\ items' = IF c = conversation THEN AddedRows(items, m) ELSE items
          /\ EndsInSpace(items)'
          /\ UNCHANGED <<conversation, deleted, hidden>>
    BY <2>1
  <2>3. CASE c # conversation
    <3>1. items' = items
      BY <2>2, <2>3
    <3>2. conversation # NoConversation => store'[conversation] = store[conversation]
      BY <1>1, <2>2, <2>3
    <3> QED
      BY <1>1, <2>2, <3>1, <3>2, RowsKept
  <2>4. CASE c = conversation
    <3>1. PICK s, t, r : s = store[c] /\ t = store'[c] /\ r = items'
      OBVIOUS
    <3>2. t = s \cup {m} /\ r = AddedRows(items, m) /\ conversation # NoConversation /\ (\A k \in s : k.id # m.id)
      BY <1>1, <2>2, <2>4, <3>1, ChatListAssumption
    <3>3. EndsInSpace(items) /\ (deleted = {} => Headed(items)) /\ hidden \subseteq {k.id : k \in s}
      BY <1>1, <2>4, <3>1, <3>2 DEF RowsInv
    <3>4. deleted = {} => Headed(r)
      BY <1>1, <3>2, <3>3, HeadersKept
    <3>5. PICK shown \in SUBSET s :
            Shows(items, shown) /\ \A k \in s : k \in shown \/ k.id \in deleted \/ k.id \in hidden
      BY <1>1, <2>4, <3>1, <3>2 DEF RowsInv
    <3>6. Shows(r, shown \cup {m})
      BY <1>1, <3>2, <3>3, <3>5, MessageShown
    <3>7. \E x \in SUBSET t : Shows(r, x) /\ \A k \in t : k \in x \/ k.id \in deleted \/ k.id \in hidden
      <4>1. shown \cup {m} \in SUBSET t
        BY <3>2
      <4>2. \A k \in t : k \in shown \cup {m} \/ k.id \in deleted \/ k.id \in hidden
        BY <3>2, <3>5
      <4> QED
        BY <3>6, <4>1, <4>2
    <3>8. hidden \subseteq {k.id : k \in t} /\ m.id \notin hidden
      BY <3>2, <3>3
    <3>9. ASSUME NEW l \in t, l.id \in hidden
          PROVE  Cardinality({k \in t : k.id \notin hidden /\ l.time <= k.time}) >= Limit
      <4> DEFINE A == {k \in s : k.id \notin hidden /\ l.time <= k.time}
                 B == {k \in t : k.id \notin hidden /\ l.time <= k.time}
      <4>1. l \in s
        BY <3>2, <3>8, <3>9
      <4>2. Cardinality(A) >= Limit
        BY <1>1, <2>4, <3>1, <3>2, <3>9, <4>1 DEF RowsInv
      <4>3. IsFiniteSet(t)
        BY <3>1, <3>2, FS_AddElement DEF ChatListInv, StoreInv
      <4>4. B \subseteq t /\ A \subseteq B
        BY <3>2
      <4>5. IsFiniteSet(B)
        BY <4>3, <4>4, FS_Subset
      <4>6. Cardinality(A) <= Cardinality(B) /\ Cardinality(A) \in Nat /\ Cardinality(B) \in Nat
        BY <4>4, <4>5, FS_Subset, FS_CardinalityType
      <4> QED
        BY <4>2, <4>6, ChatListAssumption
    <3>10. r = items' /\ t = store'[conversation'] /\ UNCHANGED <<deleted, hidden>> /\ conversation' # NoConversation
      BY <2>2, <2>4, <3>1, <3>2
    <3>11. /\ deleted' = {} => Headed(items)'
           /\ \E x \in SUBSET store'[conversation'] :
                Shows(items', x) /\ \A k \in store'[conversation'] : k \in x \/ k.id \in deleted' \/ k.id \in hidden'
           /\ hidden' \subseteq {k.id : k \in store'[conversation']}
           /\ \A l \in store'[conversation'] : l.id \in hidden' =>
                Cardinality({k \in store'[conversation'] : k.id \notin hidden' /\ l.time <= k.time}) >= Limit
      BY <3>4, <3>7, <3>8, <3>9, <3>10 DEF Headed, MessageRows, UnderTime
    <3> QED
      BY <2>2, <3>10, <3>11 DEF RowsInv, Shows, MessageRows
  <2> QED
    BY <2>3, <2>4
<1>5. CASE OnConversationClicked
  <2>1. PICK c \in ConversationIds : \E read \in Newest(store[c]) : \E messages \in InTimeOrder(read) :
          /\ conversation' = c /\ items' = RowsOf(messages) /\ hidden' = {m.id : m \in store[c] \ read}
          /\ UNCHANGED <<store, deleted>>
    BY <1>5 DEF OnConversationClicked
  <2>a. PICK read \in Newest(store[c]) : \E messages \in InTimeOrder(read) :
          /\ conversation' = c /\ items' = RowsOf(messages) /\ hidden' = {m.id : m \in store[c] \ read}
          /\ UNCHANGED <<store, deleted>>
    BY <2>1
  <2>2. PICK messages \in InTimeOrder(read) :
          /\ conversation' = c /\ items' = RowsOf(messages) /\ hidden' = {m.id : m \in store[c] \ read}
          /\ UNCHANGED <<store, deleted>>
    BY <2>a
  <2>3. PICK s, r, H : s = store[c] /\ r = RowsOf(messages) /\ H = {m.id : m \in store[c] \ read}
    OBVIOUS
  <2>4. Whole(r, read) /\ read \subseteq s /\ IsFiniteSet(read)
    BY <2>3, ListOpened
  <2>5. IsFiniteSet(s) /\ \A m, k \in s : m.id = k.id => m = k
    BY <2>3 DEF ChatListInv, StoreInv
  <2>6. \A m \in s : m.id \in H <=> m \notin read
    BY <2>3, <2>4, <2>5
  <2>7. ASSUME NEW m \in s, m.id \in H
        PROVE  Cardinality({k \in s : k.id \notin H /\ m.time <= k.time}) >= Limit
    <3> DEFINE B == {k \in s : k.id \notin H /\ m.time <= k.time}
    <3>1. m \in s \ read /\ read # s
      BY <2>6, <2>7
    <3>2. Cardinality(read) # Cardinality(s)
      BY <2>4, <2>5, <3>1, FS_Subset
    <3>3. Cardinality(read) = Limit /\ \A k \in read : m.time <= k.time
      BY <2>3, <3>1, <3>2 DEF Newest
    <3>4. read \subseteq B
      BY <2>4, <2>6, <3>3
    <3>5. IsFiniteSet(B)
      BY <2>5, FS_Subset
    <3>6. Cardinality(read) <= Cardinality(B) /\ Cardinality(B) \in Nat
      BY <3>4, <3>5, FS_Subset, FS_CardinalityType
    <3> QED
      BY <3>3, <3>6, ChatListAssumption
  <2>8. H \subseteq {m.id : m \in s} /\ \A m \in s : m \in read \/ m.id \in deleted \/ m.id \in H
    BY <2>3, <2>6
  <2>9. /\ EndsInSpace(r) /\ Headed(r)
        /\ \E x \in SUBSET s : Shows(r, x) /\ \A m \in s : m \in x \/ m.id \in deleted \/ m.id \in H
    BY <2>4, <2>8 DEF Whole
  <2>10. items' = r /\ s = store'[conversation'] /\ H = hidden' /\ deleted' = deleted /\ conversation' # NoConversation
    BY <2>2, <2>3, ChatListAssumption
  <2>11. /\ EndsInSpace(items)' /\ Headed(items)'
         /\ hidden' \subseteq {k.id : k \in store'[conversation']}
         /\ \E x \in SUBSET store'[conversation'] :
              Shows(items', x) /\ \A k \in store'[conversation'] : k \in x \/ k.id \in deleted' \/ k.id \in hidden'
         /\ \A l \in store'[conversation'] : l.id \in hidden' =>
              Cardinality({k \in store'[conversation'] : k.id \notin hidden' /\ l.time <= k.time}) >= Limit
    BY <2>7, <2>8, <2>9, <2>10 DEF EndsInSpace, Headed, MessageRows, UnderTime
  <2> QED
    BY <2>10, <2>11 DEF RowsInv, Shows, MessageRows
<1> QED
  BY <1>2, <1>3, <1>4, <1>5 DEF ChatListNext, ClickMessage, ClickBeside, ClickElsewhere, Crash, CloseMenu, chatListVars

-----------------------------------------------------------------------------
(* What the selection needs of a step that leaves it alone.                 *)
LEMMA SelectionKept ==
  ASSUME SelectedInv, UNCHANGED <<selectedMessageIndex, marked, menu, target, running, stale>>,
         \A i \in MessageRows(items) : i \in MessageRows(items)' /\ items'[i] = items[i]
  PROVE  SelectedInv'
<1>1. \A i : HasMessage(i) => HasMessage(i)' /\ IdAt(i)' = IdAt(i)
  BY DEF HasMessage, IdAt, MessageRows
<1>2. SelectionIsMarked'
  <2> SUFFICES ASSUME ~stale'
               PROVE  running' /\ IF selectedMessageIndex' = 0 THEN marked' = {}
                                  ELSE HasMessage(selectedMessageIndex)' /\ marked' = {IdAt(selectedMessageIndex)'}
    BY DEF SelectionIsMarked
  <2>1. running /\ IF selectedMessageIndex = 0 THEN marked = {}
                   ELSE HasMessage(selectedMessageIndex) /\ marked = {IdAt(selectedMessageIndex)}
    BY DEF SelectedInv, SelectionIsMarked
  <2>2. IF selectedMessageIndex = 0 THEN marked = {}
        ELSE HasMessage(selectedMessageIndex)' /\ marked = {IdAt(selectedMessageIndex)'}
    <3>1. HasMessage(selectedMessageIndex) => HasMessage(selectedMessageIndex)' /\ IdAt(selectedMessageIndex)' = IdAt(selectedMessageIndex)
      BY DEF HasMessage, IdAt, MessageRows
    <3> QED
      BY <2>1, <3>1
  <2> QED
    BY <2>1, <2>2
<1>3. (menu # 0 => HasMessage(menu) /\ IdAt(menu) = target /\ selectedMessageIndex = menu)'
  <2>1. HasMessage(menu) => HasMessage(menu)' /\ IdAt(menu)' = IdAt(menu)
    BY DEF HasMessage, IdAt, MessageRows
  <2> QED
    BY <2>1 DEF SelectedInv
<1> QED
  BY <1>2, <1>3 DEF SelectedInv

(* Deselecting leaves no message marked.                                    *)
LEMMA Deselected ==
  ASSUME SelectedInv, running, Deselect
  PROVE  selectedMessageIndex' = 0 /\ marked' = {} /\ ~stale' /\ running'
<1>1. marked' = IF selectedMessageIndex = 0 THEN marked ELSE marked \ {IdAt(selectedMessageIndex)}
  BY DEF Deselect
<1>2. CASE stale
  BY <1>1, <1>2 DEF SelectedInv, Deselect
<1>3. CASE ~stale
  <2>1. IF selectedMessageIndex = 0 THEN marked = {} ELSE marked = {IdAt(selectedMessageIndex)}
    BY <1>3 DEF SelectedInv, SelectionIsMarked
  <2>2. marked' = {}
    BY <1>1, <2>1
  <2> QED
    BY <2>2 DEF Deselect
<1> QED
  BY <1>2, <1>3

LEMMA SelectedStep ==
  ASSUME ChatListInv, [ChatListNext]_chatListVars
  PROVE  SelectedInv'
<1>1. SelectedInv
  BY DEF ChatListInv
<1>2. CASE UNCHANGED chatListVars
  <2>1. \A i \in MessageRows(items) : i \in MessageRows(items)' /\ items'[i] = items[i]
    BY <1>2 DEF chatListVars, MessageRows
  <2> QED
    BY <1>1, <1>2, <2>1, SelectionKept DEF chatListVars
<1>3. ASSUME running, Deselect, menu' = 0
      PROVE  SelectedInv'
  BY <1>1, <1>3, Deselected DEF SelectedInv, SelectionIsMarked
<1>4. ASSUME Crash, ~Usable, UNCHANGED menu, menu = 0
      PROVE  SelectedInv'
  <2>1. stale
    BY <1>1, <1>4 DEF Usable, SelectedInv, SelectionIsMarked
  <2> QED
    BY <1>1, <1>4, <2>1 DEF Crash, SelectedInv, SelectionIsMarked
<1>5. CASE running /\ ClickMessage
  <2>1. PICK row \in 1..Len(items) :
          /\ IsMessage(items[row]) /\ menu = 0
          /\ \/ ~Usable /\ selectedMessageIndex # row /\ Crash
             \/ /\ Usable \/ selectedMessageIndex = row
                /\ Select(row)
                /\ \/ UNCHANGED <<menu, target>>
                   \/ menu' = row /\ target' = IdAt(row)
                /\ UNCHANGED <<items, deleted>>
    BY <1>5 DEF ClickMessage
  <2>2. CASE ~Usable /\ Crash
    BY <1>4, <2>1, <2>2 DEF Crash
  <2>3. CASE /\ Select(row)
             /\ \/ UNCHANGED <<menu, target>>
                \/ menu' = row /\ target' = IdAt(row)
             /\ UNCHANGED items
    <3>1. HasMessage(row) /\ HasMessage(row)' /\ IdAt(row)' = IdAt(row)
      BY <2>1, <2>3 DEF HasMessage, IdAt
    <3>2. menu' # 0 => menu' = row /\ target' = IdAt(row)
      BY <2>1, <2>3
    <3>3. CASE selectedMessageIndex = row
      <4>1. UNCHANGED <<marked, selectedMessageIndex, stale, running>>
        BY <2>3, <3>3 DEF Select
      <4>2. row # 0
        BY <2>1
      <4>3. SelectionIsMarked' /\ (stale => marked = {})'
        BY <1>1, <3>1, <3>3, <4>1, <4>2 DEF SelectedInv, SelectionIsMarked
      <4>4. (menu # 0 => HasMessage(menu) /\ IdAt(menu) = target /\ selectedMessageIndex = menu)'
        <5>1. menu' = row => HasMessage(menu)' /\ IdAt(menu)' = IdAt(row)
          BY <2>3, <3>1 DEF HasMessage, IdAt
        <5> QED
          BY <3>2, <3>3, <4>1, <5>1
      <4> QED
        BY <4>3, <4>4 DEF SelectedInv
    <3>4. CASE selectedMessageIndex # row
      <4>1. /\ marked' = (IF selectedMessageIndex = 0 THEN marked ELSE marked \ {IdAt(selectedMessageIndex)})
                         \cup {IdAt(row)}
            /\ selectedMessageIndex' = row /\ stale' = FALSE /\ running' = running
        BY <2>3, <3>4 DEF Select
      <4>2. row # 0
        BY <2>1
      <4>3. marked' = {IdAt(row)}
        <5>1. stale \/ IF selectedMessageIndex = 0 THEN marked = {} ELSE marked = {IdAt(selectedMessageIndex)}
          BY <1>1 DEF SelectedInv, SelectionIsMarked
        <5>2. stale => marked = {}
          BY <1>1 DEF SelectedInv
        <5> QED
          BY <4>1, <5>1, <5>2
      <4>4. HasMessage(selectedMessageIndex)' /\ IdAt(selectedMessageIndex)' = IdAt(row)
        BY <2>3, <3>1, <4>1 DEF HasMessage, IdAt
      <4>5. (menu # 0 => HasMessage(menu) /\ IdAt(menu) = target /\ selectedMessageIndex = menu)'
        <5>1. menu' = row => HasMessage(menu)' /\ IdAt(menu)' = IdAt(row)
          BY <2>3, <3>1 DEF HasMessage, IdAt
        <5> QED
          BY <3>2, <4>1, <5>1
      <4>6. ~stale' /\ running'
        BY <1>5, <4>1
      <4>7. SelectionIsMarked'
        BY <4>1, <4>2, <4>3, <4>4, <4>6 DEF SelectionIsMarked
      <4> QED
        BY <4>5, <4>6, <4>7 DEF SelectedInv
    <3> QED
      BY <3>3, <3>4
  <2> QED
    BY <2>1, <2>2, <2>3
<1>6. CASE running /\ ClickBeside
  <2>1. CASE Usable
    BY <1>3, <1>6, <2>1 DEF ClickBeside
  <2>2. CASE ~Usable
    BY <1>4, <1>6, <2>2 DEF ClickBeside, Crash
  <2> QED
    BY <2>1, <2>2
<1>7. CASE running /\ ClickElsewhere
  <2>1. CASE selectedMessageIndex > Len(items)
    BY <1>2, <1>7, <2>1 DEF ClickElsewhere
  <2>2. CASE ~(selectedMessageIndex > Len(items)) /\ Usable
    BY <1>3, <1>7, <2>2 DEF ClickElsewhere
  <2>3. CASE ~(selectedMessageIndex > Len(items)) /\ ~Usable
    BY <1>4, <1>7, <2>3 DEF ClickElsewhere, Crash
  <2> QED
    BY <2>1, <2>2, <2>3
<1>8. CASE running /\ CloseMenu
  BY <1>3, <1>8 DEF CloseMenu
<1>9. CASE running /\ DeleteMessage
  BY <1>3, <1>9 DEF DeleteMessage
<1>10. CASE AddMessage
  BY <1>1, <1>10, AddedRow, SelectionKept
<1>11. CASE running /\ OnConversationClicked
  <2>1. /\ menu' = 0 /\ marked' = {} /\ stale' = (selectedMessageIndex # 0)
        /\ selectedMessageIndex' = selectedMessageIndex /\ running' = running
    BY <1>11 DEF OnConversationClicked
  <2>2. ~stale' => selectedMessageIndex' = 0
    BY <2>1
  <2>3. SelectionIsMarked'
    BY <1>11, <2>1, <2>2 DEF SelectionIsMarked
  <2> QED
    BY <2>1, <2>3 DEF SelectedInv
<1> QED
  BY <1>2, <1>5, <1>6, <1>7, <1>8, <1>9, <1>10, <1>11 DEF ChatListNext

LEMMA ChatListTyped ==
  ASSUME ChatListInv, [ChatListNext]_chatListVars
  PROVE  ChatListTypeOK'
<1>1. ChatListTypeOK /\ SelectedInv
  BY DEF ChatListInv
<1>2. CASE UNCHANGED chatListVars
  BY <1>1, <1>2 DEF ChatListTypeOK, chatListVars
<1>3. ASSUME Deselect
      PROVE  selectedMessageIndex' \in Nat /\ marked' \subseteq 1..MaxStored /\ stale' \in BOOLEAN /\ running' \in BOOLEAN
  <2>1. selectedMessageIndex' = 0 /\ stale' = FALSE /\ running' = running /\ marked' \subseteq marked
    BY <1>3 DEF Deselect
  <2> QED
    BY <1>1, <2>1 DEF ChatListTypeOK
<1>4. ASSUME Deselect \/ Crash, UNCHANGED <<items, store, conversation, deleted, hidden>>,
             UNCHANGED <<menu, target>> \/ (menu' = 0 /\ target' = 0)
      PROVE  ChatListTypeOK'
  <2>1. selectedMessageIndex' \in Nat /\ marked' \subseteq 1..MaxStored /\ stale' \in BOOLEAN /\ running' \in BOOLEAN
    BY <1>1, <1>3, <1>4 DEF Crash, ChatListTypeOK
  <2>2. 0 \in 0..MaxStored /\ 0 \in 0..Len(items)
    BY <1>1, ChatListAssumption, LenProperties DEF ChatListTypeOK
  <2> QED
    BY <1>1, <1>4, <2>1, <2>2 DEF ChatListTypeOK
<1>5. CASE ClickMessage
  <2>1. PICK row \in 1..Len(items) :
          /\ IsMessage(items[row]) /\ menu = 0
          /\ \/ ~Usable /\ selectedMessageIndex # row /\ Crash
             \/ /\ Usable \/ selectedMessageIndex = row
                /\ Select(row)
                /\ \/ UNCHANGED <<menu, target>>
                   \/ menu' = row /\ target' = IdAt(row)
                /\ UNCHANGED <<items, deleted>>
    BY <1>5 DEF ClickMessage
  <2>2. UNCHANGED <<store, conversation, hidden>>
    BY <1>5 DEF ClickMessage
  <2>3. CASE Crash
    BY <1>4, <2>2, <2>3 DEF Crash
  <2>4. CASE /\ Select(row)
             /\ \/ UNCHANGED <<menu, target>>
                \/ menu' = row /\ target' = IdAt(row)
             /\ UNCHANGED <<items, deleted>>
    <3>1. row \in MessageRows(items)
      BY <2>1 DEF MessageRows
    <3>2. IdAt(row) \in 1..MaxStored /\ row \in Nat
      BY <1>1, <3>1, MessageAt DEF ChatListTypeOK
    <3>3. selectedMessageIndex' \in Nat /\ marked' \subseteq 1..MaxStored /\ stale' \in BOOLEAN /\ running' \in BOOLEAN
      BY <1>1, <2>4, <3>2 DEF Select, ChatListTypeOK
    <3>4. menu' \in 0..Len(items) /\ target' \in 0..MaxStored
      BY <1>1, <2>1, <2>4, <3>2, ChatListAssumption DEF ChatListTypeOK
    <3> QED
      BY <1>1, <2>2, <2>4, <3>3, <3>4 DEF ChatListTypeOK
  <2> QED
    BY <2>1, <2>3, <2>4
<1>6. CASE ClickBeside
  BY <1>4, <1>6 DEF ClickBeside, Crash
<1>7. CASE ClickElsewhere
  <2>1. CASE selectedMessageIndex > Len(items)
    BY <1>2, <1>7, <2>1 DEF ClickElsewhere
  <2>2. CASE ~(selectedMessageIndex > Len(items))
    BY <1>4, <1>7, <2>2 DEF ClickElsewhere, Crash
  <2> QED
    BY <2>1, <2>2
<1>8. CASE CloseMenu
  BY <1>4, <1>8 DEF CloseMenu
<1>9. CASE DeleteMessage
  <2>1. items' \in Seq(ChatRows) /\ target \in 1..MaxStored
    BY <1>9, DeletedRow
  <2>2. menu' = 0 /\ target' = 0 /\ Deselect /\ deleted' = deleted \cup {target} /\ UNCHANGED <<store, conversation, hidden>>
    BY <1>9 DEF DeleteMessage
  <2>3. 0 \in 0..MaxStored /\ 0 \in 0..Len(items')
    BY <2>1, ChatListAssumption, LenProperties
  <2> QED
    BY <1>1, <1>3, <2>1, <2>2, <2>3 DEF ChatListTypeOK
<1>10. CASE AddMessage
  <2>1. PICK c \in ConversationIds : \E m \in ChatMessages :
          /\ store' = [store EXCEPT ![c] = store[c] \cup {m}]
          /\ items' \in Seq(ChatRows)
          /\ \A i \in MessageRows(items) : i \in MessageRows(items)'
          /\ UNCHANGED <<selectedMessageIndex, marked, conversation, menu, target, running, stale, deleted, hidden>>
    BY <1>10, AddedRow
  <2>2. store' \in [ConversationIds -> SUBSET ChatMessages]
    BY <1>1, <2>1 DEF ChatListTypeOK
  <2>3. menu \in 0..Len(items')
    <3>1. CASE menu = 0
      BY <2>1, <3>1, LenProperties
    <3>2. CASE menu # 0
      <4>1. menu \in MessageRows(items)
        BY <1>1, <3>2 DEF SelectedInv, HasMessage, MessageRows
      <4>2. menu \in 1..Len(items')
        BY <2>1, <4>1 DEF MessageRows
      <4> QED
        BY <2>1, <4>2, LenProperties
    <3> QED
      BY <3>1, <3>2
  <2>4. items' \in Seq(ChatRows) /\ UNCHANGED <<selectedMessageIndex, marked, conversation, menu, target, running, stale, deleted, hidden>>
    BY <2>1
  <2> QED
    BY <1>1, <2>2, <2>3, <2>4 DEF ChatListTypeOK
<1>11. CASE OnConversationClicked
  <2>1. PICK c \in ConversationIds : \E read \in Newest(store[c]) : \E messages \in InTimeOrder(read) :
          conversation' = c /\ items' = RowsOf(messages) /\ hidden' = {m.id : m \in store[c] \ read}
    BY <1>11 DEF OnConversationClicked
  <2>2. PICK read \in Newest(store[c]) : \E messages \in InTimeOrder(read) :
          conversation' = c /\ items' = RowsOf(messages) /\ hidden' = {m.id : m \in store[c] \ read}
    BY <2>1
  <2>3. PICK messages \in InTimeOrder(read) :
          conversation' = c /\ items' = RowsOf(messages) /\ hidden' = {m.id : m \in store[c] \ read}
    BY <2>2
  <2>4. items' \in Seq(ChatRows)
    BY <2>3, ListOpened DEF Whole
  <2>5. hidden' \subseteq 1..MaxStored
    <3>1. \A m \in store[c] : m.id \in 1..MaxStored
      BY <1>1 DEF ChatListTypeOK, ChatMessages
    <3> QED
      BY <2>3, <3>1
  <2>6. menu = 0 /\ marked' = {} /\ stale' = (selectedMessageIndex # 0)
        /\ UNCHANGED <<selectedMessageIndex, store, menu, target, running, deleted>>
    BY <1>11 DEF OnConversationClicked
  <2>7. 0 \in 0..Len(items')
    BY <2>4, LenProperties
  <2>8. stale' \in BOOLEAN
    BY <2>6
  <2> QED
    BY <1>1, <2>3, <2>4, <2>5, <2>6, <2>7, <2>8 DEF ChatListTypeOK
<1> QED
  BY <1>2, <1>5, <1>6, <1>7, <1>8, <1>9, <1>10, <1>11 DEF ChatListNext

LEMMA ChatListBegins == ChatListInit => ChatListInv
<1> SUFFICES ASSUME ChatListInit
             PROVE  ChatListInv
  OBVIOUS
<1>1. ChatListTypeOK
  <2>1. <<>> \in Seq(ChatRows) /\ Len(<<>>) = 0 /\ 0 \in 0..0 /\ 0 \in 0..MaxStored
    BY ChatListAssumption, EmptySeq
  <2> QED
    BY <2>1 DEF ChatListInit, ChatListTypeOK
<1>2. StoreInv
  <2>1. \A c \in ConversationIds : store[c] = {}
    BY DEF ChatListInit
  <2>2. StoredIds = 1..0
    BY <2>1 DEF StoredIds
  <2>3. 0 \in 0..MaxStored
    BY ChatListAssumption
  <2> QED
    BY <2>1, <2>2, <2>3, FS_EmptySet DEF StoreInv
<1>3. RowsInv
  <2>1. MessageRows(<<>>) = {}
    BY EmptySeq DEF MessageRows
  <2> QED
    BY <2>1, ChatListAssumption DEF ChatListInit, RowsInv, EndsInSpace, Headed
<1>4. SelectedInv
  BY DEF ChatListInit, SelectedInv, SelectionIsMarked
<1> QED
  BY <1>1, <1>2, <1>3, <1>4 DEF ChatListInv

LEMMA ChatListStep == ChatListInv /\ [ChatListNext]_chatListVars => ChatListInv'
  BY StoreStep, RowsStep, SelectedStep, ChatListTyped DEF ChatListInv

LEMMA ChatListStays == ChatListSpec => []ChatListInv
<1>1. ChatListInv /\ [ChatListNext]_chatListVars => ChatListInv'
  BY ChatListStep
<1> QED
  BY <1>1, ChatListBegins, PTL DEF ChatListSpec

LEMMA RowsAreShown == ChatListInv => RowsAreConversation
<1> SUFFICES ASSUME ChatListInv
             PROVE  RowsAreConversation
  OBVIOUS
<1>1. ChatListTypeOK /\ SelectionIsMarked /\ RowsInv /\ StoreInv
  BY DEF ChatListInv, SelectedInv
<1>2. HeadersMarkGaps
  <2>1. \A i \in {k \in 1..Len(items) : HasMessage(k)} : i \in MessageRows(items)
    BY DEF HasMessage, MessageRows
  <2>2. deleted = {} => \A i \in {k \in 1..Len(items) : HasMessage(k)} : UnderTime(items, i)
    BY <1>1, <2>1 DEF RowsInv, Headed
  <2> QED
    BY <1>1, <2>2 DEF HeadersMarkGaps, UnderTime, RowsInv, EndsInSpace
<1>3. ConversationIsListed
  <2>1. CASE conversation = NoConversation
    BY <2>1 DEF ConversationIsListed
  <2>2. CASE conversation # NoConversation
    <3>1. PICK shown \in SUBSET store[conversation] :
            Shows(items, shown) /\ \A m \in store[conversation] : m \in shown \/ m.id \in deleted \/ m.id \in hidden
      BY <1>1, <2>2 DEF RowsInv
    <3>2. \A i, j \in MessageRows(items) : IdAt(i) = IdAt(j) => i = j
      BY <3>1 DEF Shows, IdAt
    <3>3. \A k \in MessageRows(items) : items[k].message \in store[conversation]
      BY <3>1 DEF Shows
    <3>4. \A m \in store[conversation] : m.id \in {IdAt(k) : k \in MessageRows(items)} \cup deleted \cup hidden
      BY <3>1 DEF Shows, IdAt
    <3>5. \A m \in store[conversation] : m.id \in hidden =>
            Cardinality({k \in store[conversation] : k.id \notin hidden /\ m.time <= k.time}) >= Limit
      BY <1>1, <2>2 DEF RowsInv
    <3> QED
      BY <3>2, <3>3, <3>4, <3>5 DEF ConversationIsListed
  <2> QED
    BY <2>1, <2>2
<1> QED
  BY <1>1, <1>2, <1>3 DEF RowsAreConversation

(* The list of a conversation (ChatListModel.cpp): whatever is inserted,    *)
(* deleted, selected and opened, in any order, its rows are the messages    *)
(* of the open conversation, each once and each under its time, with the    *)
(* space at the end; what is missing was deleted or is older than the last  *)
(* Limit; and the selected row is the one message that shows itself         *)
(* selected, until another conversation was opened with a selection.        *)
THEOREM ConversationStaysListed == ChatListSpec => []RowsAreConversation
<1>1. ChatListSpec => []ChatListInv
  BY ChatListStays
<1> QED
  BY <1>1, RowsAreShown, PTL

LEMMA DeletesTarget ==
  ASSUME ChatListInv, [ChatListNext]_chatListVars, deleted' # deleted
  PROVE  {items'[i] : i \in 1..Len(items')} =
         {items[i] : i \in {k \in 1..Len(items) : ~(IsMessage(items[k]) /\ items[k].message.id = target)}}
<1>1. DeleteMessage
  BY AddedRow DEF ChatListNext, ClickMessage, ClickBeside, ClickElsewhere, Crash, CloseMenu, AddMessage,
                  OnConversationClicked, chatListVars
<1>2. /\ menu \in MessageRows(items) /\ items[menu].message.id = target
      /\ \A i \in 1..Len(items') : \E j \in 1..Len(items) \ {menu} : items'[i] = items[j]
      /\ \A j \in 1..Len(items) \ {menu} : \E i \in 1..Len(items') : items'[i] = items[j]
      /\ conversation # NoConversation
  BY <1>1, DeletedRow
<1>3. \A j \in 1..Len(items) : j = menu <=> (IsMessage(items[j]) /\ items[j].message.id = target)
  <2>1. \A i, j \in MessageRows(items) : items[i].message.id = items[j].message.id => i = j
    BY <1>2 DEF ChatListInv, RowsInv, Shows
  <2>2. \A j \in 1..Len(items) : IsMessage(items[j]) <=> j \in MessageRows(items)
    BY DEF MessageRows
  <2> QED
    BY <1>2, <2>1, <2>2
<1>4. PICK D : D = {k \in 1..Len(items) : ~(IsMessage(items[k]) /\ items[k].message.id = target)}
  OBVIOUS
<1>5. D = 1..Len(items) \ {menu}
  BY <1>3, <1>4
<1>6. {items'[i] : i \in 1..Len(items')} = {items[i] : i \in D}
  <2>1. \A i \in 1..Len(items') : \E j \in D : items'[i] = items[j]
    BY <1>2, <1>5
  <2>2. \A j \in D : \E i \in 1..Len(items') : items'[i] = items[j]
    BY <1>2, <1>5
  <2>3. PICK r, n, old : r = items' /\ n = Len(items') /\ old = items
    OBVIOUS
  <2>4. {r[i] : i \in 1..n} = {old[j] : j \in D}
    BY <2>1, <2>2, <2>3
  <2> QED
    BY <2>3, <2>4
<1> QED
  BY <1>4, <1>6

(* Delete in the menu of a message (ChatItemDelegate.cpp, showContextMenu): *)
(* whatever was added while the menu was open, the row that goes is that of *)
(* the message the menu was opened on, and no other.                        *)
THEOREM MenuDeletesItsOwn == ChatListSpec => DeletesItsOwn
<1>1. ChatListInv /\ [ChatListNext]_chatListVars =>
        [deleted' # deleted =>
           {items'[i] : i \in 1..Len(items')} =
           {items[i] : i \in {k \in 1..Len(items) : ~(IsMessage(items[k]) /\ items[k].message.id = target)}}]_chatListVars
  BY DeletesTarget
<1> QED
  BY <1>1, ChatListStays, PTL DEF ChatListSpec, DeletesItsOwn
=============================================================================
