----------------------------- MODULE FriendSearch -----------------------------
(***************************************************************************)
(* Finding people: SearchFriendWindow with its tab and SearchResultList    *)
(* (a search half a second after the last change of the text, or at once   *)
(* when the kind changes; replies that append to the list), and the        *)
(* ApplyWindows, which all listen to every friendRequestResponse.          *)
(*                                                                         *)
(* The server is external; HTTP replies come in any order, the answers on  *)
(* the WebSocket in the order of the requests.  0 is the empty text.       *)
(***************************************************************************)
EXTENDS Integers, Sequences, FiniteSets

CONSTANTS
  Keywords,            \* what can be searched for, numbered from 1
  MaxSearches,         \* bound: searches
  MaxWindows,          \* bound: ApplyWindows
  MaxSends             \* bound: friend requests, and answers to others

ASSUME KeywordsAssumption == Keywords \subseteq Nat \ {0} /\ Keywords # {}
ASSUME SearchesAssumption == MaxSearches \in Nat /\ MaxWindows \in Nat /\ MaxSends \in Nat

Texts    == Keywords \cup {0}
Kinds    == {"users", "groups"}
Types    == {"All", "Users", "Groups"}
Searches == 1..MaxSearches
Windows  == 1..MaxWindows

VARIABLES
  instance,            \* SearchFriendWindow::instance: none, a window, or deleted
  searchText, searchType, \* SearchResultList::currentSearchText, currentSearchType
  searchTimer,         \* the 500 ms timer runs
  queries,             \* replies awaited: [search, kind]
  searches,            \* used part of MaxSearches
  items,               \* by kind: the searches whose results were appended
  titles,              \* kinds whose heading is shown
  applying,            \* ApplyWindows: closed, ready to send, or disabled
  wire,                \* friend requests on their way, oldest first; 0: another one
  responses,           \* friend_request_response: of which window, success
  sends, windowCount,  \* used parts of MaxSends and MaxWindows
  wssOpen,             \* the WebSocket is open
  alive,               \* the program runs
  keywordOf,           \* history: the text of each search
  current,             \* history: the latest search and what it looked for
  stale,               \* history: the list was cleared with a reply under way
  found,               \* history: replies that had results
  granted, welcomed,   \* history: windows the server accepted, that closed so
  shared               \* history: an answer met another window than its own

searchVars == <<instance, searchText, searchType, searchTimer, queries, searches,
                items, titles, keywordOf, current, stale, found>>
applyVars  == <<applying, wire, responses, sends, windowCount, wssOpen, granted, welcomed, shared>>
friendSearchVars == <<searchVars, applyVars, alive>>

NoItems  == [k \in Kinds |-> <<>>]
NoSearch == [search |-> 0, text |-> 0, type |-> "All"]

FriendSearchInit ==
  /\ instance = "none" /\ searchText = 0 /\ searchType = "All" /\ searchTimer = FALSE
  /\ queries = {} /\ searches = 0 /\ items = NoItems /\ titles = {}
  /\ applying = [w \in Windows |-> "closed"] /\ wire = <<>> /\ responses = <<>>
  /\ sends = 0 /\ windowCount = 0 /\ wssOpen = TRUE /\ alive = TRUE
  /\ keywordOf = [n \in Searches |-> 0] /\ current = NoSearch /\ stale = FALSE /\ found = {}
  /\ granted = {} /\ welcomed = {} /\ shared = FALSE

-----------------------------------------------------------------------------
(* The window.  Its own button deletes it and resets the instance; closed  *)
(* in another way it is deleted and stays the instance.                    *)

FreshWindow ==
  /\ searchText' = 0 /\ searchType' = "All" /\ searchTimer' = FALSE /\ queries' = {}
  /\ items' = NoItems /\ titles' = {} /\ current' = NoSearch
  /\ stale' = FALSE

(* getInstance and show: a deleted window is used, or the program ends.    *)
GetInstance ==
  \/ /\ instance = "none" /\ instance' = "open"
     /\ FreshWindow /\ UNCHANGED <<searches, keywordOf, found, alive>>
  \/ /\ instance = "open" /\ UNCHANGED <<searchVars, alive>>
  \/ /\ instance = "deleted" /\ alive' \in BOOLEAN /\ UNCHANGED searchVars

AddFriendAction ==
  /\ instance # "open" /\ GetInstance /\ UNCHANGED applyVars

CloseSearch(how) ==
  /\ instance = "open" /\ instance' = how
  /\ FreshWindow
  /\ UNCHANGED <<searches, keywordOf, found, applyVars, alive>>

-----------------------------------------------------------------------------
(* The list.  searchText', searchType' and queries are those of the step.  *)

ClearResults ==
  /\ items' = NoItems /\ titles' = {}
  /\ stale' = (stale \/ queries # {})

KindsOf(type) == CASE type = "All" -> Kinds [] type = "Users" -> {"users"} [] type = "Groups" -> {"groups"}

(* Faulty: what is there is left there.                                    *)
OnSearchTimeout_Keeps(text, type) ==
  /\ searchTimer' = FALSE
  /\ \/ /\ text = 0
        /\ current' = [search |-> 0, text |-> 0, type |-> type]
        /\ UNCHANGED <<queries, searches, keywordOf>>
     \/ /\ text # 0 /\ searches < MaxSearches /\ searches' = searches + 1
        /\ queries' = queries \cup {[search |-> searches', kind |-> k] : k \in KindsOf(type)}
        /\ keywordOf' = [keywordOf EXCEPT ![searches'] = text]
        /\ current' = [search |-> searches', text |-> text, type |-> type]
  /\ stale' = (stale \/ queries # {})
  /\ UNCHANGED <<items, titles>>

(* onSearchTimeout: an empty text only clears.                             *)
OnSearchTimeout(text, type) ==
  /\ searchTimer' = FALSE
  /\ ClearResults
  /\ \/ /\ text = 0
        /\ current' = [search |-> 0, text |-> 0, type |-> type]
        /\ UNCHANGED <<queries, searches, keywordOf>>
     \/ /\ text # 0 /\ searches < MaxSearches /\ searches' = searches + 1
        /\ queries' = queries \cup {[search |-> searches', kind |-> k] : k \in KindsOf(type)}
        /\ keywordOf' = [keywordOf EXCEPT ![searches'] = text]
        /\ current' = [search |-> searches', text |-> text, type |-> type]

SetSearchText(text) ==
  /\ text # searchText /\ searchText' = text /\ searchTimer' = TRUE
  /\ UNCHANGED <<instance, searchType, queries, searches, items, titles, keywordOf, current, stale,
                 found, applyVars, alive>>

SearchTimerFires ==
  /\ searchTimer /\ OnSearchTimeout(searchText, searchType)
  /\ UNCHANGED <<instance, searchText, searchType, found, applyVars, alive>>

(* With a text the timer is stopped and the search made at once.           *)
SetSearchType(type) ==
  /\ type # searchType /\ searchType' = type
  /\ \/ searchText # 0 /\ OnSearchTimeout(searchText, type)
     \/ /\ searchText = 0 /\ ClearResults
        /\ current' = [search |-> 0, text |-> current.text, type |-> type]
        /\ UNCHANGED <<searchTimer, queries, searches, keywordOf>>
  /\ UNCHANGED <<instance, searchText, found, applyVars, alive>>

(* updateLayout: the headings of the kinds that are wanted and not empty.  *)
UpdateLayout == titles' = {k \in KindsOf(searchType) : items'[k] # <<>>}

(* A reply appends what it has, results or none, whichever search it       *)
(* belongs to.                                                             *)
OnNetworkReplyFinished(q) ==
  /\ q \in queries /\ queries' = queries \ {q}
  /\ \/ items' = [items EXCEPT ![q.kind] = Append(@, q.search)] /\ found' = found \cup {q}
     \/ UNCHANGED <<items, found>>
  /\ UpdateLayout
  /\ UNCHANGED <<instance, searchText, searchType, searchTimer, searches, keywordOf, current, stale,
                 applyVars, alive>>

(* An error, or an answer that is none: the list and its layout stay.      *)
HandleNetworkError(q) ==
  /\ q \in queries /\ queries' = queries \ {q}
  /\ UNCHANGED <<instance, searchText, searchType, searchTimer, searches, items, titles, keywordOf, current,
                 stale, found, applyVars, alive>>

-----------------------------------------------------------------------------
(* Applying.                                                               *)

(* The button of a result; of which one does not matter to the window.     *)
OnActionButtonClicked ==
  /\ instance = "open" /\ items # NoItems /\ windowCount < MaxWindows
  /\ windowCount' = windowCount + 1
  /\ applying' = [applying EXCEPT ![windowCount'] = "ready"]
  /\ UNCHANGED <<wire, responses, sends, wssOpen, granted, welcomed, shared, searchVars, alive>>

CloseApply(w) ==
  /\ applying[w] # "closed" /\ applying' = [applying EXCEPT ![w] = "closed"]
  /\ shared' = (shared \/ applying[w] = "waiting")
  /\ UNCHANGED <<wire, responses, sends, windowCount, wssOpen, granted, welcomed, searchVars, alive>>

OnSendClicked(w) ==
  /\ applying[w] = "ready" /\ sends < MaxSends /\ sends' = sends + 1
  /\ applying' = [applying EXCEPT ![w] = "waiting"]
  /\ wire' = IF wssOpen THEN Append(wire, w) ELSE wire
  /\ UNCHANGED <<responses, windowCount, wssOpen, granted, welcomed, shared, searchVars, alive>>

(* The answer to somebody's request, sent from the list of notifications.  *)
AnswerToOther ==
  /\ sends < MaxSends /\ sends' = sends + 1 /\ wssOpen
  /\ wire' = Append(wire, 0)
  /\ UNCHANGED <<applying, responses, windowCount, wssOpen, granted, welcomed, shared, searchVars, alive>>

ServerResponds ==
  /\ wire # <<>> /\ wire' = Tail(wire)
  /\ \E success \in BOOLEAN :
       /\ responses' = Append(responses, [window |-> Head(wire), success |-> success])
       /\ granted' = IF success THEN granted \cup {Head(wire)} ELSE granted
  /\ UNCHANGED <<applying, sends, windowCount, wssOpen, welcomed, shared, searchVars, alive>>

(* Any message of type "error" is passed on as a friend request that failed, *)
(* whatever the server refused.                                            *)
ServerError ==
  /\ sends < MaxSends /\ sends' = sends + 1 /\ wssOpen
  /\ responses' = Append(responses, [window |-> 0, success |-> FALSE])
  /\ UNCHANGED <<applying, wire, windowCount, wssOpen, granted, welcomed, shared, searchVars, alive>>

Open == {w \in Windows : applying[w] # "closed"}

(* The signal reaches every window; history: was it another one's?         *)
Delivered ==
  /\ responses # <<>> /\ responses' = Tail(responses)
  /\ shared' = (shared \/ ~(Open \subseteq {Head(responses).window}))
  /\ UNCHANGED <<wire, sends, windowCount, wssOpen, granted>>

(* Every window turns its button on; success closes it and shows the       *)
(* search window, a new one if there is none.                              *)
OnFriendRequestResponse ==
  /\ Delivered
  /\ \/ /\ Head(responses).success
        /\ applying' = [w \in Windows |-> "closed"] /\ welcomed' = welcomed \cup Open
        /\ IF Open # {} THEN GetInstance ELSE UNCHANGED <<searchVars, alive>>
     \/ /\ ~Head(responses).success
        /\ applying' = [w \in Windows |-> IF w \in Open THEN "ready" ELSE "closed"]
        /\ UNCHANGED <<welcomed, searchVars, alive>>

(* Requests and answers under way are lost; nothing sets the buttons.      *)
WssLost ==
  /\ wssOpen /\ wssOpen' = FALSE /\ wire' = <<>> /\ responses' = <<>>
  /\ UNCHANGED <<applying, sends, windowCount, granted, welcomed, shared, searchVars, alive>>

-----------------------------------------------------------------------------
SearchStep ==
  /\ instance = "open"
  /\ \/ \E how \in {"none", "deleted"} : CloseSearch(how)
     \/ \E text \in Texts : SetSearchText(text)
     \/ \E type \in Types : SetSearchType(type)
     \/ SearchTimerFires
     \/ \E q \in queries : OnNetworkReplyFinished(q) \/ HandleNetworkError(q)

ApplyStep ==
  \/ OnActionButtonClicked
  \/ \E w \in Windows : CloseApply(w) \/ OnSendClicked(w)
  \/ AnswerToOther \/ ServerResponds \/ ServerError \/ OnFriendRequestResponse \/ WssLost

FriendSearchNext == alive /\ (AddFriendAction \/ SearchStep \/ ApplyStep)

FriendSearchSpec == FriendSearchInit /\ [][FriendSearchNext]_friendSearchVars

-----------------------------------------------------------------------------
(* Properties.                                                             *)

(* Types.                                                                  *)
FriendSearchTypeOK ==
  /\ instance \in {"none", "open", "deleted"} /\ searchText \in Texts /\ searchType \in Types
  /\ searchTimer \in BOOLEAN /\ queries \subseteq [search : Searches, kind : Kinds]
  /\ searches \in 0..MaxSearches /\ items \in [Kinds -> Seq(Searches)] /\ titles \subseteq Kinds
  /\ applying \in [Windows -> {"closed", "ready", "waiting"}]
  /\ wire \in Seq(0..MaxWindows) /\ responses \in Seq([window : 0..MaxWindows, success : BOOLEAN])
  /\ sends \in 0..MaxSends /\ windowCount \in 0..MaxWindows /\ wssOpen \in BOOLEAN /\ alive \in BOOLEAN
  /\ keywordOf \in [Searches -> Texts]
  /\ current \in [search : 0..MaxSearches, text : Texts, type : Types]
  /\ stale \in BOOLEAN /\ found \subseteq [search : Searches, kind : Kinds] /\ shared \in BOOLEAN
  /\ granted \subseteq 0..MaxWindows /\ welcomed \subseteq Windows

(* However text and kind are changed, what is in the field was searched    *)
(* for, in the kind that is selected, or the timer that will is running.   *)
LastTextIsSearched ==
  /\ searchTimer \/ current.text = searchText
  /\ current.type = searchType \/ searchText = 0
  /\ ~searchTimer /\ searchText # 0 => current.search # 0

Hit(kind) == [search |-> current.search, kind |-> kind] \in found

(* The list is what the replies to the latest search brought so far, never *)
(* mixed with those of another, and has a heading for each kind of which   *)
(* there is something; unless a search was made while a reply to an        *)
(* earlier one was under way.                                              *)
ResultsAreOfLatest ==
  ~stale => /\ \A k \in Kinds : items[k] = IF Hit(k) THEN <<current.search>> ELSE <<>>
            /\ titles = {k \in Kinds : Hit(k)}

(* A window waits with its button off only while an answer is to come, as  *)
(* long as the connection holds.                                           *)
WaitingIsAnswered ==
  wssOpen /\ (\E w \in Windows : applying[w] = "waiting") => wire # <<>> \/ responses # <<>>

InFlight(w) == Cardinality({i \in DOMAIN wire : wire[i] = w})
                 + Cardinality({i \in DOMAIN responses : responses[i].window = w})

(* A window that sent a request does not send it again before the answer,    *)
(* unless an answer met another window than the one that asked.              *)
AskedOnce      == ~shared => \A w \in Windows : InFlight(w) <= 1

(* A window tells of success only when the server accepted its request; with *)
(* the same exception.                                                       *)
SuccessIsOwn   == ~shared => welcomed \subseteq granted

(* Results are of the search that was asked for, and answers to requests   *)
(* reach the window that asked.                                            *)
RepliesFindTheirPlace ==
  /\ FriendSearchTypeOK
  /\ LastTextIsSearched
  /\ ResultsAreOfLatest
  /\ WaitingIsAnswered
  /\ AskedOnce
  /\ SuccessIsOwn
===============================================================================
