------------------------------- MODULE Contacts -------------------------------
(***************************************************************************)
(* The user's contacts while the main window is there: friend requests     *)
(* that come and are answered (NotificationPage), the reload of the        *)
(* contacts over the one HTTP manager of NetworkManager, the tables of     *)
(* UserRepository and GroupRepository, and the lists that show them.       *)
(*                                                                         *)
(* All handlers run in the Qt main thread.  The server is external: it     *)
(* keeps the friends, who may leave the user again, passes requests on and *)
(* answers a GET with what it has at that moment.  Its WebSocket keeps the *)
(* order, HTTP replies come in any order.  People are numbered in the      *)
(* order of the friend list.                                               *)
(***************************************************************************)
EXTENDS Integers, Sequences, FiniteSets

CONSTANTS
  People,              \* those who may become friends
  GroupCount,          \* groups of the user, in the order of the answer
  Members,             \* those who may be members of the groups
  Membership,          \* who are, in each revision of the groups
  MaxGets,             \* bound: GET requests
  MaxRevisions,        \* bound: changes of the groups at the server
  MaxLeavers,          \* bound: friends who have left the user
  MaxFaults            \* bound: SQL statements and HTTP requests that fail

ASSUME PeopleAssumption == People \subseteq Nat \ {0} /\ IsFiniteSet(People)
ASSUME BoundsAssumption == /\ GroupCount \in Nat /\ MaxGets \in Nat
                           /\ MaxRevisions \in Nat /\ MaxFaults \in Nat
                           /\ MaxLeavers \in Nat
ASSUME MembershipAssumption == Membership \in [0..MaxRevisions -> SUBSET Members]

Groups    == 1..GroupCount
Revisions == 0..MaxRevisions
Gets      == 1..MaxGets
Absent    == -1                             \* no row of this member

VARIABLES
  friends,             \* server: the friends
  asking,              \* server: whose requests wait for the user's answer
  applied,             \* server: whom the user asked
  revision,            \* server: of the groups and their members
  link,                \* the WebSocket is open
  up, down,            \* messages to and from the server
  gets,                \* GETs under way: not answered, or with the answer
  handlers,            \* reloadContacts: single-shot handlers of m_http
  started,             \* used part of MaxGets
  timers,              \* NotificationListItem: 2 s timers, by person
  status,              \* NotificationListItem::currentStatus
  page, unread,        \* FriendApplication: selected notifications, badge
  db,                  \* connection to the user's database
  users, selectedIndex,\* FriendListModel
  faults,              \* used part of MaxFaults
  clicked,             \* history: who was selected by the click
  unseen,              \* history: requests not on a page the user had open
  known,               \* history: the friends of the answers that were loaded
  left,                \* history: who was a friend and is none any more
  overlapped           \* history: two reloads were under way at once

server  == <<friends, asking, applied, revision>>
wires   == <<link, up, down>>
reloads == <<gets, handlers, started>>
views   == <<timers, status, page, unread>>
lists   == <<users, selectedIndex, clicked>>
history == <<unseen, known, left, overlapped>>
vars == <<server, wires, reloads, views, db, lists, faults, history>>

-----------------------------------------------------------------------------
(* SQLite, as the repositories use it.  A transaction cannot be begun      *)
(* inside another one; what is written outside one is committed at once.   *)

Begin(c)    == IF c.open THEN c ELSE [c EXCEPT !.open = TRUE, !.kept = c.rows]
Commit(c)   == [c EXCEPT !.open = FALSE]
Rollback(c) == IF c.open THEN [c EXCEPT !.open = FALSE, !.rows = c.kept] ELSE c

(* A statement that may fail: none, one for a user or one for a group.     *)
NoFailure == [what |-> "nothing", saved |-> {}, group |-> 0]
UserFailures  == {[what |-> "user", saved |-> s, group |-> 0] : s \in SUBSET People}
GroupFailures == {[what |-> w, saved |-> {}, group |-> g] : w \in {"group", "member"}, g \in Groups}
Failures == {NoFailure} \cup UserFailures \cup GroupFailures

(* The rows of friends are inserted or replaced, none is deleted.          *)
LoadUserAndContacts(c, answer, failure) ==
  LET begun == Begin(c)
      saved == IF failure.what = "user" THEN answer.friends \cap failure.saved ELSE answer.friends
      written == [begun EXCEPT !.rows.users = @ \cup saved]
  IN  IF failure.what = "user" THEN Rollback(written) ELSE Commit(written)

(* So are those of a group and its members: who has left it is kept.       *)
Written(rows, rev) == [m \in Members |-> IF m \in Membership[rev] THEN rev ELSE rows[m]]

InsertGroup(c, g, rev, failure) ==
  LET begun == Begin(c)
      named == [begun EXCEPT !.rows.groups[g].name = rev]
      whole == [named EXCEPT !.rows.groups[g].members = Written(@, rev)]
  IN  IF failure.group # g THEN Commit(whole)
      ELSE IF failure.what = "group" THEN Rollback(begun) ELSE Rollback(named)

(* Group after group, in the order of the answer.  The transaction begun   *)
(* here ends with the first group.                                         *)
LoadGroupsAndMembers(c, answer, failure) ==
  LET after[g \in 0..GroupCount] ==
        IF g = 0 THEN Begin(c) ELSE InsertGroup(after[g - 1], g, answer.revision, failure)
  IN  Commit(after[GroupCount])

(* FriendListModel::sortUsers: the rows in the order of the friend list.   *)
InOrder(who) ==
  CHOOSE s \in [1..Cardinality(who) -> who] : \A i, j \in 1..Cardinality(who) : i < j => s[i] < s[j]

-----------------------------------------------------------------------------
(* A GET of the contacts and what the server answered.                     *)
Get(state, who, rev) == [state |-> state, friends |-> who, revision |-> rev]
NoGet == Get("none", {}, 0)

(* The tables were filled at the login: see Session.                       *)
Init ==
  /\ friends \in SUBSET People /\ asking = {} /\ applied \in SUBSET (People \ friends)
  /\ revision = 0 /\ link = TRUE /\ up = <<>> /\ down = <<>>
  /\ gets = [n \in Gets |-> NoGet] /\ handlers = 0 /\ started = 0
  /\ timers = {} /\ status = [p \in People |-> "none"]
  /\ page = "default" /\ unread = 0
  /\ LET first  == [m \in Members |-> IF m \in Membership[0] THEN 0 ELSE Absent]
         tables == [users |-> friends, groups |-> [g \in Groups |-> [name |-> 0, members |-> first]]]
     IN  db = [rows |-> tables, kept |-> tables, open |-> FALSE]
  /\ users = InOrder(friends) /\ selectedIndex = 0 /\ clicked = 0
  /\ faults = 0 /\ unseen = {} /\ known = friends /\ left = {} /\ overlapped = FALSE

Message(type, person) == [type |-> type, person |-> person]

(* sendTextMessage on a socket that is not open sends nothing.             *)
SendWsMessage(m) == up' = IF link THEN Append(up, m) ELSE up
ServerSends(m)   == down' = IF link THEN Append(down, m) ELSE down

-----------------------------------------------------------------------------
(* The server.                                                             *)

PersonAsks(p) ==
  /\ p \notin friends \cup asking \cup applied /\ status[p] = "none" /\ link
  /\ asking' = asking \cup {p} /\ left' = left \ {p}
  /\ ServerSends(Message("friend_request_received", p))
  /\ UNCHANGED <<friends, applied, revision, link, up, reloads, views, db, lists, faults>>
  /\ UNCHANGED <<unseen, known, overlapped>>

(* The other one answers the user's own request.                           *)
PersonAnswers(p) ==
  /\ p \in applied
  /\ applied' = applied \ {p}
  /\ \/ /\ friends' = friends \cup {p}
        /\ ServerSends(Message("friend_request_result accept", p))
     \/ /\ ServerSends(Message("friend_request_result reject", p))
        /\ UNCHANGED friends
  /\ UNCHANGED <<asking, revision, link, up, reloads, views, db, lists, faults, history>>

(* A friend removes the user; the client is not told.                      *)
FriendLeaves(p) ==
  /\ p \in friends /\ Cardinality(left) < MaxLeavers
  /\ friends' = friends \ {p} /\ left' = left \cup {p}
  /\ UNCHANGED <<asking, applied, revision, wires, reloads, views, db, lists, faults>>
  /\ UNCHANGED <<unseen, known, overlapped>>

ServerHandles ==
  LET m == Head(up)
      accepts == m.type = "accept"
  IN  /\ up # <<>>
      /\ up' = Tail(up)
      /\ asking' = asking \ {m.person}
      /\ friends' = IF accepts THEN friends \cup {m.person} ELSE friends
      /\ ServerSends(Message(IF accepts THEN "accepted" ELSE "rejected", m.person))
      /\ UNCHANGED <<applied, revision, link, reloads, views, db, lists, faults, history>>

GroupsChange ==
  /\ revision < MaxRevisions /\ revision' = revision + 1
  /\ UNCHANGED <<friends, asking, applied, wires, reloads, views, db, lists, faults, history>>

ServerAnswers(n) ==
  /\ gets[n].state = "sent"
  /\ gets' = [gets EXCEPT ![n] = Get("answered", friends, revision)]
  /\ UNCHANGED <<server, wires, handlers, started, views, db, lists, faults, history>>

(* The connection is lost; only another login opens one.                   *)
LinkLost ==
  /\ link /\ faults < MaxFaults /\ faults' = faults + 1
  /\ link' = FALSE /\ up' = <<>> /\ down' = <<>>
  /\ UNCHANGED <<server, reloads, views, db, lists, history>>

-----------------------------------------------------------------------------
(* NetworkManager.                                                         *)

(* Faulty: the request is sent, nobody waits for the reply.                *)
ReloadContacts_NoHandler ==
  /\ started < MaxGets /\ started' = started + 1
  /\ gets' = [gets EXCEPT ![started'] = Get("sent", {}, 0)]
  /\ handlers' = handlers
  /\ overlapped' = (overlapped \/ handlers > 0)

ReloadContacts ==
  /\ started < MaxGets /\ started' = started + 1
  /\ gets' = [gets EXCEPT ![started'] = Get("sent", {}, 0)]
  /\ handlers' = handlers + 1
  /\ overlapped' = (overlapped \/ handlers > 0)

(* Faulty: the selection survives the reload.                              *)
ReloadUsers_SelectionKept ==
  /\ users' = InOrder(db'.rows.users)
  /\ UNCHANGED <<selectedIndex, clicked>>

(* friendRequestAccepted: FriendListModel and MessageListWidget read the   *)
(* tables anew.                                                            *)
ReloadUsers ==
  /\ users' = InOrder(db'.rows.users)
  /\ selectedIndex' = 0 /\ clicked' = 0

(* Any reply of m_http runs every handler that waits; the first one takes  *)
(* its data, the others find it empty.                                     *)
OnFinished(n) ==
  /\ gets[n].state = "answered"
  /\ gets' = [gets EXCEPT ![n] = NoGet]
  /\ handlers' = 0
  /\ \/ /\ handlers > 0
        /\ \E failure \in Failures :
             /\ failure # NoFailure => faults < MaxFaults
             /\ faults' = IF failure = NoFailure THEN faults ELSE faults + 1
             /\ db' = LoadGroupsAndMembers(LoadUserAndContacts(db, gets[n], failure), gets[n], failure)
             /\ known' = IF failure.what = "user" THEN known ELSE known \cup gets[n].friends
        /\ ReloadUsers
     \/ /\ handlers = 0
        /\ UNCHANGED <<db, lists, faults, known>>
  /\ UNCHANGED <<server, wires, started, views, unseen, left, overlapped>>

(* The request fails, or the answer is not what it should be.              *)
OnFinishedWithError(n) ==
  /\ gets[n] # NoGet /\ faults < MaxFaults /\ faults' = faults + 1
  /\ gets' = [gets EXCEPT ![n] = NoGet] /\ handlers' = 0
  /\ UNCHANGED <<server, wires, started, views, db, lists, history>>

(* onFriendRequestReceived of the page, and the badge of the left pane.    *)
OnFriendRequestReceived(p) ==
  /\ status' = [status EXCEPT ![p] = "Pending"]
  /\ unread' = IF page = "friend" THEN unread ELSE unread + 1
  /\ unseen' = IF page = "friend" THEN unseen ELSE unseen \cup {p}
  /\ UNCHANGED <<reloads, known, left, overlapped>>

OnWssTextMessage ==
  LET m == Head(down)
  IN  /\ down # <<>> /\ down' = Tail(down)
      /\ \/ /\ m.type = "friend_request_received"
            /\ OnFriendRequestReceived(m.person)
         \/ /\ m.type \in {"accepted", "friend_request_result accept"}
            /\ ReloadContacts
            /\ UNCHANGED <<status, unread, unseen, known, left>>
         \/ /\ m.type \in {"rejected", "friend_request_result reject"}
            /\ UNCHANGED <<reloads, status, unread, history>>
      /\ UNCHANGED <<server, link, up, timers, page, db, lists, faults>>

-----------------------------------------------------------------------------
(* The user.                                                               *)

(* The item shows the answer before the server has it.                     *)
Accept(p) ==
  /\ status[p] = "Pending" /\ status' = [status EXCEPT ![p] = "Accepted"]
  /\ timers' = timers \cup {p}
  /\ SendWsMessage(Message("accept", p))
  /\ UNCHANGED <<server, link, down, reloads, page, unread, db, lists, faults, history>>

Reject(p) ==
  /\ status[p] = "Pending" /\ status' = [status EXCEPT ![p] = "Rejected"]
  /\ SendWsMessage(Message("reject", p))
  /\ UNCHANGED <<server, link, down, reloads, timers, page, unread, db, lists, faults, history>>

(* Two seconds after the acceptance.                                       *)
TimerFires(p) ==
  /\ p \in timers /\ timers' = timers \ {p}
  /\ ReloadContacts
  /\ UNCHANGED <<server, wires, status, page, unread, db, lists, faults, unseen, known, left>>

OnGroupNotificationClicked ==
  /\ page # "group" /\ page' = "group"
  /\ UNCHANGED <<server, wires, reloads, timers, status, unread, db, lists, faults, history>>

OnFriendNotificationClicked ==
  /\ page # "friend" /\ page' = "friend"
  /\ unread' = 0 /\ unseen' = {}
  /\ UNCHANGED <<server, wires, reloads, timers, status, db, lists, faults, known, left, overlapped>>

SetSelectedIndex(i) ==
  /\ selectedIndex' = i
  /\ clicked' = IF i = 0 THEN 0 ELSE users[i]

(* A click on a row of the friend list: select, or deselect.               *)
OnItemClicked(i) ==
  /\ i \in DOMAIN users
  /\ SetSelectedIndex(IF selectedIndex = i THEN 0 ELSE i)
  /\ UNCHANGED <<server, wires, reloads, views, db, users, faults, history>>

-----------------------------------------------------------------------------
ServerStep ==
  \/ \E p \in People : PersonAsks(p) \/ PersonAnswers(p) \/ FriendLeaves(p)
  \/ ServerHandles
  \/ GroupsChange
  \/ \E n \in Gets : ServerAnswers(n)

UserStep ==
  \/ \E p \in People : Accept(p) \/ Reject(p)
  \/ OnGroupNotificationClicked \/ OnFriendNotificationClicked
  \/ \E i \in 1..Cardinality(People) : OnItemClicked(i)

EventStep ==
  \/ OnWssTextMessage
  \/ \E n \in Gets : OnFinished(n) \/ OnFinishedWithError(n)
  \/ \E p \in People : TimerFires(p)
  \/ LinkLost

Next == ServerStep \/ UserStep \/ EventStep

Spec == Init /\ [][Next]_vars

(* The server handles what it gets, replies arrive, timers fire.           *)
Fairness ==
  /\ WF_vars(ServerHandles) /\ WF_vars(OnWssTextMessage)
  /\ \A n \in Gets : WF_vars(ServerAnswers(n)) /\ WF_vars(OnFinished(n))
  /\ \A p \in People : WF_vars(TimerFires(p))

FairSpec == Spec /\ Fairness

-----------------------------------------------------------------------------
(* Properties.                                                             *)

MessageTypes == {"friend_request_received", "friend_request_result accept",
                 "friend_request_result reject", "accepted", "rejected", "accept", "reject"}
Mail    == [type : MessageTypes, person : People]
Group   == [name : Revisions, members : [Members -> Revisions \cup {Absent}]]
Rows    == [users : SUBSET People, groups : [Groups -> Group]]
GetType == [state : {"none", "sent", "answered"}, friends : SUBSET People, revision : Revisions]

(* Types.                                                                  *)
TypeOK ==
  /\ friends \subseteq People /\ asking \subseteq People /\ applied \subseteq People
  /\ revision \in Revisions /\ link \in BOOLEAN
  /\ up \in Seq(Mail) /\ down \in Seq(Mail)
  /\ gets \in [Gets -> GetType]
  /\ handlers \in 0..MaxGets /\ started \in 0..MaxGets
  /\ timers \subseteq {p \in People : status[p] = "Accepted"} /\ status \in [People -> {"none", "Pending", "Accepted", "Rejected"}]
  /\ page \in {"default", "friend", "group"} /\ unread \in Nat
  /\ db \in [rows : Rows, kept : Rows, open : BOOLEAN]
  /\ users \in Seq(People) /\ selectedIndex \in 0..Len(users) /\ clicked \in People \cup {0}
  /\ faults \in 0..MaxFaults /\ unseen \subseteq People
  /\ known \subseteq People /\ left \subseteq People /\ overlapped \in BOOLEAN

(* A group and its members of one answer; other rows of members are left   *)
(* from answers that named them.                                           *)
IsWhole(group) ==
  \A m \in Members :
    IF m \in Membership[group.name] THEN group.members[m] = group.name
    ELSE group.members[m] # Absent => m \in Membership[group.members[m]]

(* Whatever statement of a reload failed: no transaction is left open, no  *)
(* group has the name of one answer and members of another, and the users  *)
(* are exactly those of the answers that were loaded.                      *)
TablesAreWhole ==
  /\ ~db.open
  /\ \A g \in Groups : IsWhole(db.rows.groups[g])
  /\ db.rows.users = known

(* A reload in the background never makes the selection another person.    *)
SelectionIsClicked ==
  selectedIndex # 0 => selectedIndex \in DOMAIN users /\ users[selectedIndex] = clicked

(* The badge counts exactly the requests that came while their page was    *)
(* not selected and that the user has not looked at since.                 *)
UnseenAreCounted == unread = Cardinality(unseen)

(* The server is told one answer to a request, whatever is reloaded.       *)
AnsweredOnce ==
  \A p \in People : Cardinality({i \in DOMAIN up : up[i].person = p}) <= 1

Quiet == /\ up = <<>> /\ down = <<>> /\ timers = {}
         /\ \A n \in Gets : gets[n] = NoGet

(* When nothing is under way the lists show all friends, unless something  *)
(* failed or one reload was started before the other had its reply.        *)
FriendsAreListed ==
  Quiet /\ faults = 0 /\ ~overlapped => \A p \in friends : \E i \in DOMAIN users : users[i] = p

(* The bound on the GETs keeps a reload from being started.                *)
OutOfGets == started = MaxGets /\ (timers # {} \/ down # <<>>)

(* Who was accepted becomes a friend in the list, unless he leaves again,  *)
(* something failed, one reload was started before the other had its       *)
(* reply, or the bound is reached.                                         *)
AcceptedIsListed ==
  \A p \in People :
    status[p] = "Accepted" ~> \/ \E i \in DOMAIN users : users[i] = p
                              \/ p \in left \/ faults > 0 \/ overlapped \/ OutOfGets

(* Tables, lists, selection and badge agree with the server and with what  *)
(* the user did, whatever is reloaded in between.                          *)
ContactsAgree ==
  /\ TypeOK
  /\ TablesAreWhole
  /\ SelectionIsClicked
  /\ UnseenAreCounted
  /\ AnsweredOnce
  /\ FriendsAreListed
===============================================================================
