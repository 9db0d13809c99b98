------------------------------ MODULE ViewsProofs ------------------------------
(* What the window for finding people and the view of a conversation show,  *)
(* for every value of the constants: results and answers find the list and  *)
(* the window that asked for them (FriendSearch), and the scroll bars and   *)
(* the notice about unread messages follow the view (SmoothScroll,          *)
(* ChatScroll), and the user's contacts agree in tables, lists and badge    *)
(* (Contacts).  The three are independent; each has its invariant, and a    *)
(* lemma for each action or for each part of the invariant.                 *)
EXTENDS FriendSearch, ChatScroll, Contacts, FiniteSetTheorems, SequenceTheorems, WellFoundedInduction, TLAPS

(* What a sequence has after an element was appended, and without its      *)
(* first one.                                                              *)
LEMMA AppendFacts ==
  ASSUME NEW S, NEW s \in Seq(S), NEW e \in S
  PROVE  /\ Append(s, e) \in Seq(S) /\ Len(Append(s, e)) = Len(s) + 1 /\ Len(s) \in Nat
         /\ \A i \in 1..Len(s) : Append(s, e)[i] = s[i]
         /\ Append(s, e)[Len(s) + 1] = e
  BY AppendProperties, LenProperties

LEMMA TailFacts ==
  ASSUME NEW S, NEW s \in Seq(S), s # <<>>
  PROVE  /\ Tail(s) \in Seq(S) /\ Len(Tail(s)) = Len(s) - 1 /\ Len(s) \in Nat \ {0}
         /\ \A i \in 1..Len(Tail(s)) : Tail(s)[i] = s[i + 1]
         /\ Head(s) = s[1] /\ Head(s) \in S
  BY HeadTailProperties, LenProperties, EmptySeq

(***************************************************************************)
(* FriendSearch: results and answers find their place.                     *)
(***************************************************************************)

(* The latest search is of the text in the field, or the timer will make   *)
(* one.                                                                    *)
CurrentInv ==
  /\ current.type = searchType
  /\ searchTimer \/ current.text = searchText
  /\ ~searchTimer /\ searchText # 0 => current.search # 0

(* While nothing of an earlier search is under way, the list holds the     *)
(* results of the latest one, each once, and the others are awaited.       *)
ListInv ==
  /\ titles = {k \in KindsOf(searchType) : items[k] # <<>>}
  /\ \A q \in queries \cup found : q.search <= searches
  /\ ~stale =>
       /\ \A k \in Kinds : items[k] = IF Hit(k) THEN <<current.search>> ELSE <<>>
       /\ \A q \in queries : q.search = current.search /\ q.kind \in KindsOf(searchType) /\ ~Hit(q.kind)
       /\ \A k \in Kinds \ KindsOf(searchType) : ~Hit(k)

SearchTypeOK ==
  /\ instance \in {"none", "open", "deleted"} /\ searchText \in Texts /\ searchType \in Types
  /\ searchTimer \in BOOLEAN /\ queries \subseteq [search : Searches, kind : Kinds]
  /\ searches \in 0..MaxSearches /\ items \in [Kinds -> Seq(Searches)] /\ titles \subseteq Kinds
  /\ keywordOf \in [Searches -> Texts]
  /\ current \in [search : 0..MaxSearches, text : Texts, type : Types]
  /\ found \subseteq [search : Searches, kind : Kinds]
  /\ stale \in BOOLEAN /\ alive \in BOOLEAN

SearchInv == SearchTypeOK /\ CurrentInv /\ ListInv

LEMMA KindsAreKnown ==
  ASSUME NEW t \in Types
  PROVE  KindsOf(t) \subseteq Kinds
  BY DEF Types, KindsOf, Kinds

LEMMA SearchInitially ==
  ASSUME FriendSearchInit
  PROVE  SearchInv
<1>1. /\ instance = "none" /\ searchText = 0 /\ searchType = "All" /\ searchTimer = FALSE
      /\ queries = {} /\ searches = 0 /\ items = NoItems /\ titles = {} /\ alive = TRUE
      /\ keywordOf = [n \in Searches |-> 0] /\ current = NoSearch /\ stale = FALSE /\ found = {}
  BY DEF FriendSearchInit
<1>2. NoItems \in [Kinds -> Seq(Searches)] /\ \A k \in Kinds : NoItems[k] = <<>>
  BY DEF NoItems
<1>3. SearchTypeOK
  <2>1. 0 \in Texts /\ "All" \in Types /\ 0 \in 0..MaxSearches
    BY SearchesAssumption DEF Texts, Types
  <2>2. NoSearch \in [search : 0..MaxSearches, text : Texts, type : Types]
    BY <2>1 DEF NoSearch
  <2>3. [n \in Searches |-> 0] \in [Searches -> Texts]
    BY <2>1
  <2> QED
    BY <1>1, <1>2, <2>1, <2>2, <2>3 DEF SearchTypeOK
<1>4. CurrentInv
  BY <1>1 DEF CurrentInv, NoSearch
<1>5. ListInv
  <2>1. KindsOf("All") \subseteq Kinds
    BY KindsAreKnown DEF Types
  <2>2. titles = {k \in KindsOf("All") : items[k] # <<>>}
    BY <1>1, <1>2, <2>1
  <2> QED
    BY <1>1, <1>2, <2>1, <2>2 DEF ListInv, NoSearch, Hit
<1> QED
  BY <1>3, <1>4, <1>5 DEF SearchInv

(* A window that was just made, or closed.                                 *)
LEMMA FreshStep ==
  ASSUME SearchInv, FreshWindow, instance' \in {"none", "open", "deleted"}, alive' \in BOOLEAN,
         UNCHANGED <<searches, keywordOf, found>>
  PROVE  SearchInv'
<1>1. /\ searchText' = 0 /\ searchType' = "All" /\ searchTimer' = FALSE
      /\ queries' = {} /\ items' = NoItems /\ titles' = {}
      /\ current' = NoSearch /\ stale' = FALSE /\ found' = found
  BY DEF FreshWindow
<1>2. NoItems \in [Kinds -> Seq(Searches)] /\ \A k \in Kinds : NoItems[k] = <<>>
  BY DEF NoItems
<1>3. SearchTypeOK'
  <2>1. 0 \in Texts /\ "All" \in Types /\ 0 \in 0..MaxSearches
    BY SearchesAssumption DEF Texts, Types
  <2>2. NoSearch \in [search : 0..MaxSearches, text : Texts, type : Types]
    BY <2>1 DEF NoSearch
  <2> QED
    BY <1>1, <1>2, <2>1, <2>2 DEF SearchInv, SearchTypeOK
<1>4. CurrentInv'
  BY <1>1 DEF CurrentInv, NoSearch
<1>5. ListInv'
  <2>1. KindsOf("All") \subseteq Kinds
    BY KindsAreKnown DEF Types
  <2>2. titles' = {k \in KindsOf("All") : items'[k] # <<>>}
    BY <1>1, <1>2, <2>1
  <2>3. \A k \in Kinds : ~Hit(k)'
    <3>1. \A q \in found : q.search # 0
      BY DEF SearchInv, SearchTypeOK, Searches
    <3> QED
      BY <1>1, <3>1 DEF Hit, NoSearch
  <2>4. \A q \in queries' \cup found' : q.search <= searches'
    BY <1>1 DEF SearchInv, ListInv
  <2> QED
    BY <1>1, <1>2, <2>1, <2>2, <2>3, <2>4 DEF ListInv
<1> QED
  BY <1>3, <1>4, <1>5 DEF SearchInv

LEMMA GetInstanceStep ==
  ASSUME SearchInv, GetInstance
  PROVE  SearchInv'
<1>1. CASE instance = "none" /\ instance' = "open" /\ FreshWindow /\ UNCHANGED <<searches, keywordOf, found, alive>>
  BY <1>1, FreshStep DEF SearchInv, SearchTypeOK
<1>2. CASE UNCHANGED <<searchVars, alive>>
  BY <1>2 DEF SearchInv, SearchTypeOK, CurrentInv, ListInv, Hit, searchVars
<1>3. CASE alive' \in BOOLEAN /\ UNCHANGED searchVars
  BY <1>3 DEF SearchInv, SearchTypeOK, CurrentInv, ListInv, Hit, searchVars
<1> QED
  BY <1>1, <1>2, <1>3 DEF GetInstance

LEMMA CloseSearchStep ==
  ASSUME SearchInv, NEW how \in {"none", "deleted"}, CloseSearch(how)
  PROVE  SearchInv'
  BY FreshStep DEF CloseSearch, SearchInv, SearchTypeOK

LEMMA SetSearchTextStep ==
  ASSUME SearchInv, NEW text \in Texts, SetSearchText(text)
  PROVE  SearchInv'
<1>1. /\ searchText' = text /\ searchTimer' = TRUE
      /\ UNCHANGED <<instance, searchType, queries, searches, items, titles, keywordOf, current, stale,
                     found, alive>>
  BY DEF SetSearchText
<1>2. SearchTypeOK'
  BY <1>1 DEF SearchInv, SearchTypeOK
<1>3. CurrentInv'
  BY <1>1 DEF SearchInv, CurrentInv
<1>4. ListInv'
  BY <1>1 DEF SearchInv, ListInv, Hit
<1> QED
  BY <1>2, <1>3, <1>4 DEF SearchInv

(* The list is cleared and, for a text, a search is made: of everything    *)
(* that was under way nothing is left, or the list is stale.               *)
LEMMA SearchMade ==
  ASSUME SearchInv, searchType' \in Types, OnSearchTimeout(searchText, searchType'),
         UNCHANGED <<instance, searchText, found, alive>>
  PROVE  SearchInv'
<1> DEFINE n == searches + 1
           new == {[search |-> n, kind |-> k] : k \in KindsOf(searchType')}
<1>1. /\ searchTimer' = FALSE /\ items' = NoItems /\ titles' = {}
      /\ stale' = (stale \/ queries # {}) /\ searchText' = searchText
  BY DEF OnSearchTimeout, ClearResults
<1>2. NoItems \in [Kinds -> Seq(Searches)] /\ \A k \in Kinds : NoItems[k] = <<>>
  BY DEF NoItems
<1>3. KindsOf(searchType') \subseteq Kinds
  BY KindsAreKnown
<1>4. titles' = {k \in KindsOf(searchType') : items'[k] # <<>>}
  BY <1>1, <1>2, <1>3
<1>5. CASE /\ searchText = 0 /\ current' = [search |-> 0, text |-> searchText, type |-> searchType']
           /\ UNCHANGED <<queries, searches, keywordOf>>
  <2>1. SearchTypeOK'
    <3>1. current' \in [search : 0..MaxSearches, text : Texts, type : Types]
      BY <1>5, SearchesAssumption DEF SearchInv, SearchTypeOK
    <3> QED
      BY <1>1, <1>2, <1>5, <3>1 DEF SearchInv, SearchTypeOK
  <2>2. CurrentInv'
    BY <1>1, <1>5 DEF CurrentInv
  <2>3. current'.search = 0 /\ (~stale' => queries' = {})
    BY <1>1, <1>5
  <2>4. \A k \in Kinds : ~Hit(k)'
    <3>1. \A q \in found : q.search # 0
      BY DEF SearchInv, SearchTypeOK, Searches
    <3> QED
      BY <2>3, <3>1 DEF Hit
  <2>5. \A q \in queries' \cup found' : q.search <= searches'
    BY <1>5 DEF SearchInv, ListInv
  <2>6. ListInv'
    BY <1>1, <1>2, <1>3, <1>4, <2>3, <2>4, <2>5 DEF ListInv
  <2> QED
    BY <2>1, <2>2, <2>6 DEF SearchInv
<1>6. CASE /\ searchText # 0 /\ searches < MaxSearches /\ searches' = n
           /\ queries' = queries \cup new
           /\ keywordOf' = [keywordOf EXCEPT ![n] = searchText]
           /\ current' = [search |-> n, text |-> searchText, type |-> searchType']
  <2>1. n \in Searches /\ n # 0 /\ n \in 0..MaxSearches
    BY <1>6, SearchesAssumption DEF SearchInv, SearchTypeOK, Searches
  <2>2. new \subseteq [search : Searches, kind : Kinds]
    BY <2>1, <1>3
  <2>3. queries' \subseteq [search : Searches, kind : Kinds]
    BY <1>6, <2>2 DEF SearchInv, SearchTypeOK
  <2>4. SearchTypeOK'
    BY <1>1, <1>2, <1>6, <2>1, <2>3 DEF SearchInv, SearchTypeOK
  <2>5. CurrentInv'
    BY <1>1, <1>6, <2>1 DEF CurrentInv
  <2>6. ASSUME ~stale' PROVE queries' = new
    BY <1>1, <1>6, <2>6
  <2>7. \A q \in queries \cup found : q.search <= searches /\ q.search \in Nat /\ searches \in Nat
    BY SearchesAssumption DEF SearchInv, SearchTypeOK, ListInv, Searches
  <2>8. \A k \in Kinds : ~Hit(k)'
    <3>1. current'.search = n /\ \A q \in found : q.search # n
      BY <1>6, <2>7
    <3> QED
      BY <3>1 DEF Hit
  <2>9. \A q \in queries' \cup found' : q.search <= searches'
    BY <1>6, <2>7
  <2>10. \A q \in new : q.search = n /\ q.kind \in KindsOf(searchType') /\ q.kind \in Kinds
    BY <1>3
  <2>11. ListInv'
    BY <1>1, <1>2, <1>3, <1>4, <1>6, <2>6, <2>8, <2>9, <2>10 DEF ListInv
  <2> QED
    BY <2>4, <2>5, <2>11 DEF SearchInv
<1> QED
  BY <1>5, <1>6 DEF OnSearchTimeout

LEMMA SetSearchTypeStep ==
  ASSUME SearchInv, NEW type \in Types, SetSearchType(type)
  PROVE  SearchInv'
<1>1. searchType' = type /\ UNCHANGED <<instance, searchText, found, alive>>
  BY DEF SetSearchType
<1>2. CASE searchText # 0 /\ OnSearchTimeout(searchText, type)
  BY <1>1, <1>2, SearchMade
<1>3. CASE /\ searchText = 0 /\ ClearResults
           /\ current' = [search |-> 0, text |-> current.text, type |-> type]
           /\ UNCHANGED <<searchTimer, queries, searches, keywordOf>>
  <2>1. items' = NoItems /\ titles' = {} /\ stale' = (stale \/ queries # {})
    BY <1>3 DEF ClearResults
  <2>2. NoItems \in [Kinds -> Seq(Searches)] /\ \A k \in Kinds : NoItems[k] = <<>>
    BY DEF NoItems
  <2>3. KindsOf(type) \subseteq Kinds
    BY KindsAreKnown
  <2>4. SearchTypeOK'
    BY <1>1, <1>3, <2>1, <2>2, SearchesAssumption DEF SearchInv, SearchTypeOK
  <2>5. CurrentInv'
    BY <1>1, <1>3 DEF SearchInv, CurrentInv
  <2>6. \A k \in Kinds : ~Hit(k)'
    <3>1. \A q \in found : q.search # 0
      BY DEF SearchInv, SearchTypeOK, Searches
    <3> QED
      BY <1>1, <1>3, <3>1 DEF Hit
  <2>7. \A q \in queries' \cup found' : q.search <= searches'
    BY <1>1, <1>3 DEF SearchInv, ListInv
  <2>8. ListInv'
    BY <1>1, <1>3, <2>1, <2>2, <2>3, <2>6, <2>7 DEF ListInv
  <2> QED
    BY <2>4, <2>5, <2>8 DEF SearchInv
<1> QED
  BY <1>2, <1>3 DEF SetSearchType

LEMMA ReplyStep ==
  ASSUME SearchInv, NEW q \in queries, OnNetworkReplyFinished(q)
  PROVE  SearchInv'
<1>1. /\ queries' = queries \ {q}
      /\ \/ items' = [items EXCEPT ![q.kind] = Append(@, q.search)] /\ found' = found \cup {q}
         \/ items' = items /\ found' = found
      /\ UNCHANGED <<instance, searchText, searchType, searchTimer, searches, keywordOf, current, stale, alive>>
      /\ titles' = {k \in KindsOf(searchType) : items'[k] # <<>>}
  BY DEF OnNetworkReplyFinished, UpdateLayout
<1>2. /\ q.kind \in Kinds /\ q.search \in Searches /\ items \in [Kinds -> Seq(Searches)]
      /\ q = [search |-> q.search, kind |-> q.kind] /\ KindsOf(searchType) \subseteq Kinds
      /\ q \in [search : Searches, kind : Kinds]
  BY KindsAreKnown DEF SearchInv, SearchTypeOK
<1>3. Append(items[q.kind], q.search) \in Seq(Searches)
  BY <1>2, AppendFacts
<1>4. SearchTypeOK'
  <2>1. items' \in [Kinds -> Seq(Searches)]
    BY <1>1, <1>2, <1>3
  <2>2. found' \subseteq [search : Searches, kind : Kinds] /\ queries' \subseteq [search : Searches, kind : Kinds]
    BY <1>1, <1>2 DEF SearchInv, SearchTypeOK
  <2>3. titles' \subseteq Kinds
    BY <1>1, <1>2
  <2> QED
    BY <1>1, <2>1, <2>2, <2>3 DEF SearchInv, SearchTypeOK
<1>5. CurrentInv'
  BY <1>1 DEF SearchInv, CurrentInv
<1>6. \A p \in queries' \cup found' : p.search <= searches'
  BY <1>1 DEF SearchInv, ListInv
<1>7. ASSUME ~stale
      PROVE  /\ \A k \in Kinds : items'[k] = IF Hit(k)' THEN <<current.search>> ELSE <<>>
             /\ \A p \in queries' : p.search = current.search /\ p.kind \in KindsOf(searchType) /\ ~Hit(p.kind)'
             /\ \A k \in Kinds \ KindsOf(searchType) : ~Hit(k)'
  <2>1. q.search = current.search /\ q.kind \in KindsOf(searchType) /\ ~Hit(q.kind)
    BY <1>7 DEF SearchInv, ListInv
  <2>2. items[q.kind] = <<>>
    BY <1>2, <1>7, <2>1 DEF SearchInv, ListInv
  <2>3. \A k \in Kinds : k # q.kind => (Hit(k)' <=> Hit(k)) /\ items'[k] = items[k]
    BY <1>1, <1>2 DEF Hit
  <2>4. \A p \in queries' : p.kind # q.kind
    <3> SUFFICES ASSUME NEW p \in queries', p.kind = q.kind PROVE FALSE
      OBVIOUS
    <3>1. p \in queries /\ p # q
      BY <1>1
    <3>2. p.search = current.search /\ p \in [search : Searches, kind : Kinds]
      BY <1>7, <3>1 DEF SearchInv, ListInv, SearchTypeOK
    <3> QED
      BY <1>2, <2>1, <3>1, <3>2
  <2>5. items'[q.kind] = IF Hit(q.kind)' THEN <<current.search>> ELSE <<>>
    <3>1. CASE items' = [items EXCEPT ![q.kind] = Append(@, q.search)] /\ found' = found \cup {q}
      <4>1. Hit(q.kind)'
        BY <1>1, <1>2, <2>1, <3>1 DEF Hit
      <4>2. items'[q.kind] = <<current.search>>
        BY <1>2, <2>1, <2>2, <3>1
      <4> QED
        BY <4>1, <4>2
    <3>2. CASE items' = items /\ found' = found
      <4>1. ~Hit(q.kind)'
        BY <1>1, <2>1, <3>2 DEF Hit
      <4> QED
        BY <2>2, <3>2, <4>1
    <3> QED
      BY <1>1, <3>1, <3>2
  <2>6. \A p \in queries' : p \in queries /\ p.kind \in Kinds
    BY <1>1 DEF SearchInv, SearchTypeOK
  <2>7. /\ \A k \in Kinds : items[k] = IF Hit(k) THEN <<current.search>> ELSE <<>>
        /\ \A p \in queries : p.search = current.search /\ p.kind \in KindsOf(searchType) /\ ~Hit(p.kind)
        /\ \A k \in Kinds \ KindsOf(searchType) : ~Hit(k)
    BY <1>7 DEF SearchInv, ListInv
  <2>8. \A k \in Kinds : items'[k] = IF Hit(k)' THEN <<current.search>> ELSE <<>>
    BY <2>3, <2>5, <2>7
  <2>9. \A p \in queries' : p.search = current.search /\ p.kind \in KindsOf(searchType) /\ ~Hit(p.kind)'
    BY <2>3, <2>4, <2>6, <2>7
  <2>10. \A k \in Kinds \ KindsOf(searchType) : ~Hit(k)'
    BY <2>1, <2>3, <2>7
  <2> QED
    BY <2>8, <2>9, <2>10
<1>8. ListInv'
  BY <1>1, <1>6, <1>7 DEF ListInv
<1> QED
  BY <1>4, <1>5, <1>8 DEF SearchInv

LEMMA ErrorStep ==
  ASSUME SearchInv, NEW q \in queries, HandleNetworkError(q)
  PROVE  SearchInv'
<1>1. /\ queries' = queries \ {q}
      /\ UNCHANGED <<instance, searchText, searchType, searchTimer, searches, items, titles, keywordOf, current,
                     stale, found, alive>>
  BY DEF HandleNetworkError
<1>2. SearchTypeOK'
  BY <1>1 DEF SearchInv, SearchTypeOK
<1>3. CurrentInv'
  BY <1>1 DEF SearchInv, CurrentInv
<1>4. ListInv'
  BY <1>1 DEF SearchInv, ListInv, Hit
<1> QED
  BY <1>2, <1>3, <1>4 DEF SearchInv

LEMMA SearchStepKeeps ==
  ASSUME SearchInv, SearchStep
  PROVE  SearchInv' /\ UNCHANGED applyVars
<1>1. ASSUME SearchTimerFires PROVE SearchInv'
  <2>1. searchType' = searchType /\ searchType \in Types
        /\ UNCHANGED <<instance, searchText, found, alive>>
    BY <1>1 DEF SearchTimerFires, SearchInv, SearchTypeOK
  <2>2. OnSearchTimeout(searchText, searchType')
    BY <1>1, <2>1 DEF SearchTimerFires
  <2> QED
    BY <2>1, <2>2, SearchMade
<1>2. SearchInv'
  BY <1>1, CloseSearchStep, SetSearchTextStep, SetSearchTypeStep, ReplyStep, ErrorStep DEF SearchStep
<1>3. UNCHANGED applyVars
  BY DEF SearchStep, CloseSearch, SetSearchText, SearchTimerFires, SetSearchType, OnNetworkReplyFinished,
         HandleNetworkError
<1> QED
  BY <1>2, <1>3

-----------------------------------------------------------------------------
(* Applying.                                                               *)

(* The request of window w is on its way, or its answer.                   *)
Asked(w)    == \E i \in 1..Len(wire) : wire[i] = w
Answered(w) == \E i \in 1..Len(responses) : responses[i].window = w

OneOf(w) ==
  /\ ~(Asked(w) /\ Answered(w))
  /\ \A i, j \in 1..Len(wire) : wire[i] = w /\ wire[j] = w => i = j
  /\ \A i, j \in 1..Len(responses) : responses[i].window = w /\ responses[j].window = w => i = j

Answers == [window : 0..MaxWindows, success : BOOLEAN]

ApplyTypeOK ==
  /\ applying \in [Windows -> {"closed", "ready", "waiting"}]
  /\ wire \in Seq(0..MaxWindows) /\ responses \in Seq(Answers)
  /\ sends \in 0..MaxSends /\ windowCount \in 0..MaxWindows /\ wssOpen \in BOOLEAN
  /\ shared \in BOOLEAN /\ granted \subseteq 0..MaxWindows /\ welcomed \subseteq Windows

(* A window that waits has its request or the answer on the way; while all *)
(* answers met nobody but the window that asked, a window has one at most, *)
(* and only while it waits.                                                *)
ApplyInv ==
  /\ ApplyTypeOK
  /\ \A w \in Windows : w > windowCount => applying[w] = "closed"
  /\ wssOpen => \A w \in Windows : applying[w] = "waiting" => Asked(w) \/ Answered(w)
  /\ \A i \in 1..Len(responses) : responses[i].success => responses[i].window \in granted
  /\ ~shared => \A w \in Windows : OneOf(w) /\ (Asked(w) \/ Answered(w) => applying[w] = "waiting")
  /\ ~shared => welcomed \subseteq granted

LEMMA WindowsAreNumbers == Windows \subseteq 0..MaxWindows /\ 0 \notin Windows
  BY SearchesAssumption DEF Windows

LEMMA WithoutRequests ==
  ASSUME wire = <<>>, responses = <<>>, NEW w
  PROVE  ~Asked(w) /\ ~Answered(w) /\ OneOf(w)
<1>1. Len(wire) = 0 /\ Len(responses) = 0
  OBVIOUS
<1> QED
  BY <1>1 DEF Asked, Answered, OneOf

LEMMA ApplyInitially ==
  ASSUME FriendSearchInit
  PROVE  ApplyInv
<1>1. /\ applying = [w \in Windows |-> "closed"] /\ wire = <<>> /\ responses = <<>>
      /\ sends = 0 /\ windowCount = 0 /\ wssOpen = TRUE
      /\ granted = {} /\ welcomed = {} /\ shared = FALSE
  BY DEF FriendSearchInit
<1>2. ApplyTypeOK
  <2>1. /\ wire \in Seq(0..MaxWindows) /\ responses \in Seq(Answers)
        /\ 0 \in 0..MaxSends /\ 0 \in 0..MaxWindows
    BY <1>1, SearchesAssumption
  <2>2. applying \in [Windows -> {"closed", "ready", "waiting"}]
    BY <1>1
  <2> QED
    BY <1>1, <2>1, <2>2 DEF ApplyTypeOK
<1>3. \A w \in Windows : ~Asked(w) /\ ~Answered(w) /\ OneOf(w)
  BY <1>1, WithoutRequests
<1>4. \A w \in Windows : applying[w] = "closed"
  BY <1>1
<1>5. Len(responses) = 0
  BY <1>1
<1> QED
  BY <1>1, <1>2, <1>3, <1>4, <1>5 DEF ApplyInv

(* What is sent is asked for, and the rest of what is on the way stays.    *)
LEMMA SentOnWire ==
  ASSUME ApplyInv, NEW v \in 0..MaxWindows, wire' = Append(wire, v), responses' = responses
  PROVE  /\ wire' \in Seq(0..MaxWindows)
         /\ Asked(v)'
         /\ \A w : (Answered(w)' <=> Answered(w)) /\ (Asked(w) => Asked(w)')
         /\ \A w : w # v => (Asked(w)' <=> Asked(w)) /\ (OneOf(w) => OneOf(w)')
         /\ ~Asked(v) /\ ~Answered(v) /\ OneOf(v) => OneOf(v)'
<1> DEFINE n == Len(wire)
<1>1. wire \in Seq(0..MaxWindows)
  BY DEF ApplyInv, ApplyTypeOK
<1>2. /\ wire' \in Seq(0..MaxWindows) /\ n \in Nat /\ Len(wire') = n + 1
      /\ \A i \in 1..n : wire'[i] = wire[i]
      /\ wire'[n + 1] = v
  BY <1>1, AppendFacts
<1> HIDE DEF n
<1>3. \A i \in 1..Len(wire') : (i \in 1..n) \/ (i = n + 1)
  BY <1>2
<1>4. Asked(v)'
  BY <1>2 DEF Asked
<1>5. \A w : Asked(w) <=> \E i \in 1..n : wire[i] = w
  BY DEF Asked, n
<1>6. \A w : (Answered(w)' <=> Answered(w)) /\ (Asked(w) => Asked(w)')
  <2>1. \A w : Answered(w)' <=> Answered(w)
    BY DEF Answered
  <2>2. \A w : Asked(w) => Asked(w)'
    BY <1>2, <1>5 DEF Asked
  <2> QED
    BY <2>1, <2>2
<1>7. \A w : w # v => (Asked(w)' <=> Asked(w))
  BY <1>2, <1>3, <1>5, <1>6 DEF Asked
<1>8. \A w : OneOf(w) /\ (w # v \/ (~Asked(v) /\ ~Answered(v))) => OneOf(w)'
  <2> SUFFICES ASSUME NEW w, OneOf(w), w # v \/ (~Asked(v) /\ ~Answered(v))
               PROVE  OneOf(w)'
    OBVIOUS
  <2>1. ASSUME NEW i \in 1..Len(wire'), NEW j \in 1..Len(wire'), wire'[i] = w, wire'[j] = w
        PROVE  i = j
    <3>1. CASE i \in 1..n /\ j \in 1..n
      BY <1>2, <2>1, <3>1 DEF OneOf, n
    <3>2. CASE i = n + 1 \/ j = n + 1
      BY <1>2, <1>3, <1>5, <2>1, <3>2
    <3> QED
      BY <1>3, <3>1, <3>2
  <2>2. ~(Asked(w)' /\ Answered(w)')
    BY <1>6, <1>7 DEF OneOf
  <2>3. \A i, j \in 1..Len(responses') : responses'[i].window = w /\ responses'[j].window = w => i = j
    BY DEF OneOf
  <2> QED
    BY <2>1, <2>2, <2>3 DEF OneOf
<1>9. \A w : w # v => (OneOf(w) => OneOf(w)')
  BY <1>8
<1>10. ~Asked(v) /\ ~Answered(v) /\ OneOf(v) => OneOf(v)'
  BY <1>8
<1> QED
  BY <1>2, <1>4, <1>6, <1>7, <1>9, <1>10, Zenon

(* ApplyInv says nothing of windows that open and close as long as none    *)
(* that waits is closed, or the answer will meet no other.                 *)
LEMMA NothingSent ==
  ASSUME ApplyInv, UNCHANGED <<wire, responses, granted, welcomed>>, ApplyTypeOK',
         wssOpen' => wssOpen, ~shared' => ~shared,
         \A w \in Windows : w > windowCount' => applying'[w] = "closed",
         \A w \in Windows : applying'[w] = "waiting" => applying[w] = "waiting",
         ~shared' => \A w \in Windows : applying[w] = "waiting" => applying'[w] = "waiting"
  PROVE  ApplyInv'
<1>1. \A w : (Asked(w)' <=> Asked(w)) /\ (Answered(w)' <=> Answered(w)) /\ (OneOf(w) => OneOf(w)')
  BY DEF Asked, Answered, OneOf
<1>2. /\ wssOpen' => \A w \in Windows : applying'[w] = "waiting" => Asked(w)' \/ Answered(w)'
      /\ ~shared' => \A w \in Windows : OneOf(w)' /\ (Asked(w)' \/ Answered(w)' => applying'[w] = "waiting")
  BY <1>1, Zenon DEF ApplyInv
<1>3. /\ \A i \in 1..Len(responses') : responses'[i].success => responses'[i].window \in granted'
      /\ ~shared' => welcomed' \subseteq granted'
  BY DEF ApplyInv
<1> QED
  BY <1>2, <1>3 DEF ApplyInv

LEMMA ButtonStep ==
  ASSUME ApplyInv, OnActionButtonClicked
  PROVE  ApplyInv'
<1> DEFINE n == windowCount + 1
<1>1. /\ windowCount < MaxWindows /\ windowCount' = n
      /\ applying' = [applying EXCEPT ![n] = "ready"]
      /\ UNCHANGED <<wire, responses, sends, wssOpen, granted, welcomed, shared>>
  BY DEF OnActionButtonClicked
<1>2. /\ n \in Windows /\ n \in 0..MaxWindows /\ n > windowCount
      /\ applying \in [Windows -> {"closed", "ready", "waiting"}] /\ applying[n] = "closed"
      /\ \A w \in Windows : w > windowCount => applying[w] = "closed"
  BY <1>1, SearchesAssumption DEF ApplyInv, ApplyTypeOK, Windows
<1>3. /\ applying' \in [Windows -> {"closed", "ready", "waiting"}] /\ applying'[n] = "ready"
      /\ \A w \in Windows : w # n => applying'[w] = applying[w]
  BY <1>1, <1>2
<1>4. ApplyTypeOK'
  BY <1>1, <1>2, <1>3 DEF ApplyInv, ApplyTypeOK
<1>5. \A w \in Windows : w > windowCount' => applying'[w] = "closed"
  BY <1>1, <1>2, <1>3 DEF ApplyInv, ApplyTypeOK, Windows
<1>6. \A w \in Windows : (applying'[w] = "waiting") <=> (applying[w] = "waiting")
  BY <1>2, <1>3
<1> QED
  BY <1>1, <1>4, <1>5, <1>6, NothingSent

LEMMA CloseApplyStep ==
  ASSUME ApplyInv, NEW w \in Windows, CloseApply(w)
  PROVE  ApplyInv'
<1>1. /\ applying' = [applying EXCEPT ![w] = "closed"]
      /\ shared' = (shared \/ applying[w] = "waiting")
      /\ UNCHANGED <<wire, responses, sends, windowCount, wssOpen, granted, welcomed>>
  BY DEF CloseApply
<1>2. /\ applying' \in [Windows -> {"closed", "ready", "waiting"}] /\ applying'[w] = "closed"
      /\ \A v \in Windows : v # w => applying'[v] = applying[v]
  BY <1>1 DEF ApplyInv, ApplyTypeOK
<1>3. ApplyTypeOK'
  BY <1>1, <1>2 DEF ApplyInv, ApplyTypeOK
<1>4. \A v \in Windows : v > windowCount' => applying'[v] = "closed"
  BY <1>1, <1>2 DEF ApplyInv
<1>5. /\ \A v \in Windows : applying'[v] = "waiting" => applying[v] = "waiting"
      /\ ~shared' => \A v \in Windows : applying[v] = "waiting" => applying'[v] = "waiting"
  BY <1>1, <1>2
<1>6. ~shared' => ~shared
  BY <1>1
<1> QED
  BY <1>1, <1>3, <1>4, <1>5, <1>6, NothingSent

LEMMA SendClickedStep ==
  ASSUME ApplyInv, NEW w \in Windows, OnSendClicked(w)
  PROVE  ApplyInv'
<1>1. /\ applying[w] = "ready" /\ sends < MaxSends /\ sends' = sends + 1
      /\ applying' = [applying EXCEPT ![w] = "waiting"]
      /\ wire' = IF wssOpen THEN Append(wire, w) ELSE wire
      /\ UNCHANGED <<responses, windowCount, wssOpen, granted, welcomed, shared>>
  BY DEF OnSendClicked
<1>2. /\ applying' \in [Windows -> {"closed", "ready", "waiting"}] /\ applying'[w] = "waiting"
      /\ \A v \in Windows : v # w => applying'[v] = applying[v]
  BY <1>1 DEF ApplyInv, ApplyTypeOK
<1>3. sends' \in 0..MaxSends
  BY <1>1, SearchesAssumption DEF ApplyInv, ApplyTypeOK
<1>4. ~shared => ~Asked(w) /\ ~Answered(w) /\ OneOf(w)
  BY <1>1, Zenon DEF ApplyInv
<1>5. /\ \A v \in Windows : v > windowCount' => applying'[v] = "closed"
      /\ \A i \in 1..Len(responses') : responses'[i].success => responses'[i].window \in granted'
      /\ ~shared' => welcomed' \subseteq granted'
  <2>1. \A v \in Windows : v > windowCount => applying[v] = "closed"
    BY Zenon DEF ApplyInv
  <2>2. \A v \in Windows : v > windowCount => v # w
    BY <1>1, <2>1
  <2> QED
    BY <1>1, <1>2, <2>1, <2>2 DEF ApplyInv
<1>6. CASE wssOpen
  <2>1. w \in 0..MaxWindows
    BY WindowsAreNumbers
  <2>2. wire' = Append(wire, w) /\ responses' = responses
    BY <1>1, <1>6
  <2>3. /\ wire' \in Seq(0..MaxWindows)
        /\ Asked(w)'
        /\ \A v : (Answered(v)' <=> Answered(v)) /\ (Asked(v) => Asked(v)')
        /\ \A v : v # w => (Asked(v)' <=> Asked(v)) /\ (OneOf(v) => OneOf(v)')
        /\ ~Asked(w) /\ ~Answered(w) /\ OneOf(w) => OneOf(w)'
    BY <2>1, <2>2, SentOnWire
  <2>4. ApplyTypeOK'
    BY <1>1, <1>2, <1>3, <2>3 DEF ApplyInv, ApplyTypeOK
  <2>5. \A v \in Windows : applying'[v] = "waiting" => Asked(v)' \/ Answered(v)'
    <3>1. \A v \in Windows : applying[v] = "waiting" => Asked(v) \/ Answered(v)
      BY <1>6, Zenon DEF ApplyInv
    <3> QED
      BY <1>2, <2>3, <3>1, Zenon
  <2>6. ~shared' => \A v \in Windows : OneOf(v)' /\ (Asked(v)' \/ Answered(v)' => applying'[v] = "waiting")
    <3>1. SUFFICES ASSUME ~shared, NEW v \in Windows
                   PROVE  OneOf(v)' /\ (Asked(v)' \/ Answered(v)' => applying'[v] = "waiting")
      BY <1>1
    <3>2. OneOf(v) /\ (Asked(v) \/ Answered(v) => applying[v] = "waiting")
      BY <3>1, Zenon DEF ApplyInv
    <3> QED
      BY <1>2, <1>4, <2>3, <3>1, <3>2, Zenon
  <2> QED
    BY <1>5, <2>4, <2>5, <2>6 DEF ApplyInv
<1>7. CASE ~wssOpen
  <2>1. wire' = wire /\ responses' = responses
    BY <1>1, <1>7
  <2>2. ApplyTypeOK'
    BY <1>1, <1>2, <1>3, <2>1 DEF ApplyInv, ApplyTypeOK
  <2>3. \A v : (Asked(v)' <=> Asked(v)) /\ (Answered(v)' <=> Answered(v)) /\ (OneOf(v) => OneOf(v)')
    BY <2>1 DEF Asked, Answered, OneOf
  <2>4. ~shared' => \A v \in Windows : OneOf(v)' /\ (Asked(v)' \/ Answered(v)' => applying'[v] = "waiting")
    <3>1. SUFFICES ASSUME ~shared, NEW v \in Windows
                   PROVE  OneOf(v)' /\ (Asked(v)' \/ Answered(v)' => applying'[v] = "waiting")
      BY <1>1
    <3>2. OneOf(v) /\ (Asked(v) \/ Answered(v) => applying[v] = "waiting")
      BY <3>1, Zenon DEF ApplyInv
    <3> QED
      BY <1>2, <2>3, <3>2, Zenon
  <2>5. ~wssOpen'
    BY <1>1, <1>7
  <2> QED
    BY <1>5, <2>2, <2>4, <2>5 DEF ApplyInv
<1> QED
  BY <1>6, <1>7

LEMMA AnswerToOtherStep ==
  ASSUME ApplyInv, AnswerToOther
  PROVE  ApplyInv'
<1>1. /\ sends < MaxSends /\ sends' = sends + 1 /\ wire' = Append(wire, 0)
      /\ UNCHANGED <<applying, responses, windowCount, wssOpen, granted, welcomed, shared>>
  BY DEF AnswerToOther
<1>2. 0 \in 0..MaxWindows /\ \A v \in Windows : v # 0
  BY WindowsAreNumbers, SearchesAssumption
<1>3. /\ wire' \in Seq(0..MaxWindows)
      /\ \A v : (Answered(v)' <=> Answered(v)) /\ (Asked(v) => Asked(v)')
      /\ \A v : v # 0 => (Asked(v)' <=> Asked(v)) /\ (OneOf(v) => OneOf(v)')
  BY <1>1, <1>2, SentOnWire
<1>4. ApplyTypeOK'
  BY <1>1, <1>3, SearchesAssumption DEF ApplyInv, ApplyTypeOK
<1>5. /\ \A v \in Windows : v > windowCount' => applying'[v] = "closed"
      /\ \A i \in 1..Len(responses') : responses'[i].success => responses'[i].window \in granted'
      /\ ~shared' => welcomed' \subseteq granted'
  BY <1>1 DEF ApplyInv
<1>6. wssOpen' => \A v \in Windows : applying'[v] = "waiting" => Asked(v)' \/ Answered(v)'
  BY <1>1, <1>3, Zenon DEF ApplyInv
<1>7. ~shared' => \A v \in Windows : OneOf(v)' /\ (Asked(v)' \/ Answered(v)' => applying'[v] = "waiting")
  <2>1. SUFFICES ASSUME ~shared, NEW v \in Windows
                 PROVE  OneOf(v)' /\ (Asked(v)' \/ Answered(v)' => applying'[v] = "waiting")
    BY <1>1
  <2>2. OneOf(v) /\ (Asked(v) \/ Answered(v) => applying[v] = "waiting")
    BY <2>1, Zenon DEF ApplyInv
  <2>3. v # 0 /\ applying' = applying
    BY <1>1, <1>2
  <2> QED
    BY <1>3, <2>2, <2>3, Zenon
<1> QED
  BY <1>4, <1>5, <1>6, <1>7 DEF ApplyInv

LEMMA ServerErrorStep ==
  ASSUME ApplyInv, ServerError
  PROVE  ApplyInv'
<1> DEFINE e == [window |-> 0, success |-> FALSE]
           n == Len(responses)
<1>1. /\ sends < MaxSends /\ sends' = sends + 1 /\ responses' = Append(responses, e)
      /\ UNCHANGED <<applying, wire, windowCount, wssOpen, granted, welcomed, shared>>
  BY DEF ServerError
<1>2. e \in Answers /\ e.window = 0 /\ e.success = FALSE /\ \A v \in Windows : v # 0
  BY WindowsAreNumbers, SearchesAssumption DEF Answers
<1> HIDE DEF e
<1>3. /\ responses' \in Seq(Answers) /\ Len(responses') = n + 1 /\ n \in Nat
      /\ \A i \in 1..n : responses'[i] = responses[i]
      /\ responses'[n + 1] = e
  BY <1>1, <1>2, AppendFacts DEF ApplyInv, ApplyTypeOK
<1>4. \A i \in 1..Len(responses') : i \in 1..n \/ i = n + 1
  BY <1>3
<1>5. ApplyTypeOK'
  BY <1>1, <1>3, SearchesAssumption DEF ApplyInv, ApplyTypeOK
<1>6. \A v \in Windows : (Asked(v)' <=> Asked(v)) /\ (Answered(v)' <=> Answered(v)) /\ (OneOf(v) => OneOf(v)')
  <2> SUFFICES ASSUME NEW v \in Windows
               PROVE  (Asked(v)' <=> Asked(v)) /\ (Answered(v)' <=> Answered(v)) /\ (OneOf(v) => OneOf(v)')
    OBVIOUS
  <2>1. \A i \in 1..Len(responses') : responses'[i].window = v => i \in 1..n /\ responses[i].window = v
    BY <1>2, <1>3, <1>4
  <2>2. \A i \in 1..n : i \in 1..Len(responses') /\ responses'[i] = responses[i]
    BY <1>3
  <2>3. Asked(v)' <=> Asked(v)
    BY <1>1 DEF Asked
  <2>4. Answered(v)' <=> Answered(v)
    BY <2>1, <2>2 DEF Answered, n
  <2>5. ASSUME OneOf(v) PROVE OneOf(v)'
    <3>1. \A i, j \in 1..Len(responses') : responses'[i].window = v /\ responses'[j].window = v => i = j
      BY <2>1, <2>5 DEF OneOf, n
    <3>2. ~(Asked(v)' /\ Answered(v)')
      BY <2>3, <2>4, <2>5 DEF OneOf
    <3>3. \A i, j \in 1..Len(wire') : wire'[i] = v /\ wire'[j] = v => i = j
      BY <1>1, <2>5 DEF OneOf
    <3> QED
      BY <3>1, <3>2, <3>3 DEF OneOf
  <2> QED
    BY <2>3, <2>4, <2>5
<1>7. /\ \A v \in Windows : v > windowCount' => applying'[v] = "closed"
      /\ ~shared' => welcomed' \subseteq granted'
  BY <1>1 DEF ApplyInv
<1>8. \A i \in 1..Len(responses') : responses'[i].success => responses'[i].window \in granted'
  <2>1. \A i \in 1..n : responses[i].success => responses[i].window \in granted
    BY DEF ApplyInv, n
  <2> QED
    BY <1>1, <1>2, <1>3, <1>4, <2>1
<1>9. wssOpen' => \A v \in Windows : applying'[v] = "waiting" => Asked(v)' \/ Answered(v)'
  BY <1>1, <1>6, Zenon DEF ApplyInv
<1>10. ~shared' => \A v \in Windows : OneOf(v)' /\ (Asked(v)' \/ Answered(v)' => applying'[v] = "waiting")
  BY <1>1, <1>6, Zenon DEF ApplyInv
<1> QED
  BY <1>5, <1>7, <1>8, <1>9, <1>10 DEF ApplyInv

LEMMA WssLostStep ==
  ASSUME ApplyInv, WssLost
  PROVE  ApplyInv'
<1>1. /\ wssOpen' = FALSE /\ wire' = <<>> /\ responses' = <<>>
      /\ UNCHANGED <<applying, sends, windowCount, granted, welcomed, shared>>
  BY DEF WssLost
<1>2. wire' \in Seq(0..MaxWindows) /\ responses' \in Seq(Answers) /\ Len(wire') = 0 /\ Len(responses') = 0
  BY <1>1
<1>3. ApplyTypeOK'
  BY <1>1, <1>2 DEF ApplyInv, ApplyTypeOK
<1>4. \A w : ~Asked(w)' /\ ~Answered(w)' /\ OneOf(w)'
  BY <1>2 DEF Asked, Answered, OneOf
<1>5. /\ \A v \in Windows : v > windowCount' => applying'[v] = "closed"
      /\ \A i \in 1..Len(responses') : responses'[i].success => responses'[i].window \in granted'
      /\ ~shared' => welcomed' \subseteq granted'
  BY <1>1, <1>2 DEF ApplyInv
<1> QED
  BY <1>1, <1>3, <1>4, <1>5 DEF ApplyInv

LEMMA ServerRespondsStep ==
  ASSUME ApplyInv, ServerResponds
  PROVE  ApplyInv'
<1>0. PICK h : h = Head(wire)
  OBVIOUS
<1>1. /\ wire # <<>> /\ wire' = Tail(wire)
      /\ UNCHANGED <<applying, sends, windowCount, wssOpen, welcomed, shared>>
  BY DEF ServerResponds
<1>2. PICK success \in BOOLEAN :
        /\ responses' = Append(responses, [window |-> h, success |-> success])
        /\ granted' = IF success THEN granted \cup {h} ELSE granted
  BY <1>0 DEF ServerResponds
<1> DEFINE e == [window |-> h, success |-> success]
           n == Len(responses)
<1>3. /\ wire' \in Seq(0..MaxWindows) /\ Len(wire') = Len(wire) - 1 /\ Len(wire) \in Nat \ {0}
      /\ \A i \in 1..Len(wire') : wire'[i] = wire[i + 1]
      /\ h = wire[1] /\ h \in 0..MaxWindows
  BY <1>0, <1>1, TailFacts DEF ApplyInv, ApplyTypeOK
<1>4. e \in Answers /\ responses' = Append(responses, e) /\ e.window = h /\ e.success = success
  BY <1>2, <1>3 DEF Answers
<1> HIDE DEF e
<1>5. /\ responses' \in Seq(Answers) /\ Len(responses') = n + 1 /\ n \in Nat
      /\ \A i \in 1..n : responses'[i] = responses[i]
      /\ responses'[n + 1] = e
  BY <1>4, AppendFacts DEF ApplyInv, ApplyTypeOK
<1> HIDE DEF n
<1>6. ApplyTypeOK'
  BY <1>1, <1>2, <1>3, <1>5 DEF ApplyInv, ApplyTypeOK
<1>7. \A i \in 1..Len(responses') : responses'[i].success => responses'[i].window \in granted'
  <2>1. \A i \in 1..n : responses[i].success => responses[i].window \in granted
    BY DEF ApplyInv, n
  <2>2. \A i \in 1..Len(responses') : i \in 1..n \/ i = n + 1
    BY <1>5
  <2>3. granted \subseteq granted' /\ (success => h \in granted')
    BY <1>2
  <2> QED
    BY <1>4, <1>5, <2>1, <2>2, <2>3
<1>8. /\ \A v \in Windows : v > windowCount' => applying'[v] = "closed"
      /\ ~shared' => welcomed' \subseteq granted'
  BY <1>1, <1>2 DEF ApplyInv
<1>9. Answered(h)'
  BY <1>4, <1>5 DEF Answered
<1>10. \A w : w # h => (Answered(w)' <=> Answered(w))
  <2> SUFFICES ASSUME NEW w, w # h PROVE Answered(w)' <=> Answered(w)
    OBVIOUS
  <2>1. Answered(w)' <=> \E i \in 1..(n + 1) : responses'[i].window = w
    BY <1>5 DEF Answered
  <2>2. Answered(w) <=> \E i \in 1..n : responses[i].window = w
    BY DEF Answered, n
  <2> QED
    BY <1>4, <1>5, <2>1, <2>2
<1>11. \A w : w # h => (Asked(w)' <=> Asked(w))
  <2> SUFFICES ASSUME NEW w, w # h PROVE Asked(w)' <=> Asked(w)
    OBVIOUS
  <2>1. ASSUME NEW i \in 1..Len(wire), wire[i] = w PROVE Asked(w)'
    <3>1. i # 1
      BY <1>3, <2>1
    <3>2. i - 1 \in 1..Len(wire') /\ wire'[i - 1] = w
      BY <1>3, <2>1, <3>1
    <3> QED
      BY <3>2 DEF Asked
  <2>2. ASSUME NEW i \in 1..Len(wire'), wire'[i] = w PROVE Asked(w)
    <3>1. i + 1 \in 1..Len(wire) /\ wire[i + 1] = w
      BY <1>3, <2>2
    <3> QED
      BY <3>1 DEF Asked
  <2> QED
    BY <2>1, <2>2, Zenon DEF Asked
<1>12. Asked(h)
  BY <1>3 DEF Asked
<1>13. wssOpen' => \A w \in Windows : applying'[w] = "waiting" => Asked(w)' \/ Answered(w)'
  <2>1. wssOpen => \A w \in Windows : applying[w] = "waiting" => Asked(w) \/ Answered(w)
    BY Zenon DEF ApplyInv
  <2>2. SUFFICES ASSUME wssOpen, NEW w \in Windows, applying[w] = "waiting"
                 PROVE  Asked(w)' \/ Answered(w)'
    BY <1>1
  <2>3. Asked(w) \/ Answered(w)
    BY <2>1, <2>2
  <2>4. CASE w = h
    BY <1>9, <2>4
  <2>5. CASE w # h
    <3>1. (Answered(w)' <=> Answered(w)) /\ (Asked(w)' <=> Asked(w))
      BY <1>10, <1>11, <2>5
    <3> QED
      BY <2>3, <3>1, Zenon
  <2> QED
    BY <2>4, <2>5
<1>14. ~shared' => \A w \in Windows : OneOf(w)' /\ (Asked(w)' \/ Answered(w)' => applying'[w] = "waiting")
  <2>1. SUFFICES ASSUME ~shared, NEW w \in Windows
                 PROVE  OneOf(w)' /\ (Asked(w)' \/ Answered(w)' => applying'[w] = "waiting")
    BY <1>1
  <2>2. OneOf(w) /\ (Asked(w) \/ Answered(w) => applying[w] = "waiting")
    BY <2>1, Zenon DEF ApplyInv
  <2>3. ASSUME NEW i \in 1..Len(wire'), NEW j \in 1..Len(wire'), wire'[i] = w, wire'[j] = w
        PROVE  i = j
    <3>1. i + 1 \in 1..Len(wire) /\ j + 1 \in 1..Len(wire) /\ wire[i + 1] = w /\ wire[j + 1] = w
      BY <1>3, <2>3
    <3>2. i + 1 = j + 1
      BY <2>2, <3>1 DEF OneOf
    <3> QED
      BY <1>3, <3>2
  <2>4. CASE w = h
    <3>1. ~Answered(w)
      BY <1>12, <2>2, <2>4 DEF OneOf
    <3>2. ~Asked(w)'
      BY <1>3, <2>2, <2>4 DEF OneOf, Asked
    <3>3. \A i, j \in 1..Len(responses') : responses'[i].window = w /\ responses'[j].window = w => i = j
      <4>1. \A i \in 1..Len(responses') : i \in 1..n \/ i = n + 1
        BY <1>5
      <4>2. \A i \in 1..n : responses'[i].window # w
        BY <1>5, <3>1 DEF Answered, n
      <4> QED
        BY <4>1, <4>2
    <3>4. OneOf(w)'
      BY <2>3, <3>2, <3>3 DEF OneOf
    <3> QED
      BY <1>1, <1>12, <2>2, <2>4, <3>4, Zenon
  <2>5. CASE w # h
    <3>1. (Answered(w)' <=> Answered(w)) /\ (Asked(w)' <=> Asked(w))
      BY <1>10, <1>11, <2>5
    <3>2. \A i, j \in 1..Len(responses') : responses'[i].window = w /\ responses'[j].window = w => i = j
      <4>1. \A i \in 1..Len(responses') : i \in 1..n \/ i = n + 1
        BY <1>5
      <4>2. responses'[n + 1].window # w
        BY <1>4, <1>5, <2>5
      <4>3. \A i, j \in 1..n : responses[i].window = w /\ responses[j].window = w => i = j
        BY <2>2 DEF OneOf, n
      <4> QED
        BY <1>5, <4>1, <4>2, <4>3
    <3>3. OneOf(w)'
      BY <2>2, <2>3, <3>1, <3>2 DEF OneOf
    <3> QED
      BY <1>1, <2>2, <3>1, <3>3, Zenon
  <2> QED
    BY <2>4, <2>5
<1> QED
  BY <1>6, <1>7, <1>8, <1>13, <1>14 DEF ApplyInv

(* The answer meets every window that is open: one that failed makes them  *)
(* ready to send again, a success closes them.                             *)
LEMMA ResponseStep ==
  ASSUME ApplyInv, OnFriendRequestResponse
  PROVE  ApplyInv'
<1>0. PICK r : r = Head(responses)
  OBVIOUS
<1>1. /\ responses # <<>> /\ responses' = Tail(responses)
      /\ shared' = (shared \/ ~(Open \subseteq {r.window}))
      /\ UNCHANGED <<wire, sends, windowCount, wssOpen, granted>>
  BY <1>0 DEF OnFriendRequestResponse, Delivered
<1>2. /\ responses' \in Seq(Answers) /\ Len(responses') = Len(responses) - 1 /\ Len(responses) \in Nat \ {0}
      /\ \A i \in 1..Len(responses') : responses'[i] = responses[i + 1]
      /\ r = responses[1] /\ r \in Answers
  BY <1>0, <1>1, TailFacts DEF ApplyInv, ApplyTypeOK
<1>3. /\ applying \in [Windows -> {"closed", "ready", "waiting"}]
      /\ \A w \in Windows : w > windowCount => applying[w] = "closed"
      /\ welcomed \subseteq Windows
  BY DEF ApplyInv, ApplyTypeOK
<1>4. \/ /\ r.success
         /\ applying' = [w \in Windows |-> "closed"] /\ welcomed' = welcomed \cup Open
      \/ /\ ~r.success
         /\ applying' = [w \in Windows |-> IF w \in Open THEN "ready" ELSE "closed"]
         /\ welcomed' = welcomed
  BY <1>0 DEF OnFriendRequestResponse
<1>5. /\ applying' \in [Windows -> {"closed", "ready", "waiting"}]
      /\ \A w \in Windows : applying'[w] # "waiting"
      /\ \A w \in Windows : applying[w] = "closed" => applying'[w] = "closed"
      /\ welcomed' \subseteq Windows
  BY <1>3, <1>4 DEF Open
<1>6. ApplyTypeOK'
  BY <1>1, <1>2, <1>5 DEF ApplyInv, ApplyTypeOK
<1>7. \A i \in 1..Len(responses) : responses[i].success => responses[i].window \in granted
  BY DEF ApplyInv
<1>8. \A i \in 1..Len(responses') : responses'[i].success => responses'[i].window \in granted'
  <2> SUFFICES ASSUME NEW i \in 1..Len(responses'), responses'[i].success
               PROVE  responses'[i].window \in granted'
    OBVIOUS
  <2>1. i + 1 \in 1..Len(responses) /\ responses'[i] = responses[i + 1]
    BY <1>2
  <2> QED
    BY <1>1, <1>7, <2>1
<1>9. \A v \in Windows : v > windowCount' => applying'[v] = "closed"
  BY <1>1, <1>3, <1>5
<1>10. ASSUME ~shared' PROVE welcomed' \subseteq granted'
  <2>1. ~shared /\ Open \subseteq {r.window} /\ welcomed \subseteq granted
    BY <1>1, <1>10 DEF ApplyInv
  <2>2. r.success => r.window \in granted
    BY <1>2, <1>7
  <2> QED
    BY <1>1, <1>4, <2>1, <2>2
<1>11. ASSUME ~shared', NEW w \in Windows
       PROVE  ~Asked(w)' /\ ~Answered(w)' /\ OneOf(w)'
  <2>1. ~shared /\ Open \subseteq {r.window}
    BY <1>1, <1>11
  <2>2. OneOf(w) /\ (Asked(w) \/ Answered(w) => applying[w] = "waiting")
    BY <2>1, Zenon DEF ApplyInv
  <2>3. ASSUME NEW i \in 1..Len(responses'), responses'[i].window = w PROVE FALSE
    <3>1. i + 1 \in 1..Len(responses) /\ responses[i + 1].window = w /\ i + 1 # 1
      BY <1>2, <2>3
    <3>2. Answered(w)
      BY <3>1 DEF Answered
    <3>3. applying[w] = "waiting"
      BY <2>2, <3>2, Zenon
    <3>4. responses[1].window = w /\ 1 \in 1..Len(responses)
      BY <1>2, <2>1, <3>3 DEF Open
    <3> QED
      BY <2>2, <3>1, <3>4 DEF OneOf
  <2>4. ~Asked(w)
    <3>1. SUFFICES ASSUME Asked(w) PROVE FALSE
      OBVIOUS
    <3>2. applying[w] = "waiting" /\ ~Answered(w)
      BY <2>2, <3>1, Zenon DEF OneOf
    <3>3. responses[1].window = w /\ 1 \in 1..Len(responses)
      BY <1>2, <2>1, <3>2 DEF Open
    <3> QED
      BY <3>2, <3>3 DEF Answered
  <2>5. ~Asked(w)' /\ \A i, j \in 1..Len(wire') : wire'[i] = w /\ wire'[j] = w => i = j
    BY <1>1, <2>4 DEF Asked
  <2> QED
    BY <2>3, <2>5 DEF Answered, OneOf
<1> QED
  BY <1>5, <1>6, <1>8, <1>9, <1>10, <1>11 DEF ApplyInv

-----------------------------------------------------------------------------
(* Both together.                                                          *)

FriendSearchInv == SearchInv /\ ApplyInv

LEMMA SearchStays ==
  ASSUME SearchInv, UNCHANGED <<searchVars, alive>>
  PROVE  SearchInv'
<1>1. UNCHANGED <<instance, searchText, searchType, searchTimer, queries, searches,
                  items, titles, keywordOf, current, stale, found, alive>>
  BY DEF searchVars
<1>2. SearchTypeOK'
  BY <1>1 DEF SearchInv, SearchTypeOK
<1>3. CurrentInv' /\ ListInv'
  BY <1>1 DEF SearchInv, CurrentInv, ListInv, Hit
<1> QED
  BY <1>2, <1>3 DEF SearchInv

LEMMA ApplyStepKeeps ==
  ASSUME SearchInv, ApplyInv, ApplyStep
  PROVE  SearchInv' /\ ApplyInv'
<1>1. ApplyInv'
  BY ButtonStep, CloseApplyStep, SendClickedStep, AnswerToOtherStep, ServerRespondsStep, ServerErrorStep,
     ResponseStep, WssLostStep DEF ApplyStep
<1>2. UNCHANGED <<searchVars, alive>> \/ GetInstance
  BY DEF ApplyStep, OnActionButtonClicked, CloseApply, OnSendClicked, AnswerToOther, ServerResponds, ServerError, WssLost,
         OnFriendRequestResponse
<1>3. SearchInv'
  BY <1>2, SearchStays, GetInstanceStep
<1> QED
  BY <1>1, <1>3

LEMMA ApplyStays ==
  ASSUME ApplyInv, UNCHANGED applyVars
  PROVE  ApplyInv'
<1>1. UNCHANGED <<applying, wire, responses, sends, windowCount, wssOpen, granted, welcomed, shared>>
  BY DEF applyVars
<1>2. ApplyTypeOK'
  BY <1>1 DEF ApplyInv, ApplyTypeOK
<1>3. \A w \in Windows : w > windowCount' => applying'[w] = "closed"
  BY <1>1 DEF ApplyInv
<1> QED
  BY <1>1, <1>2, <1>3, NothingSent

LEMMA FriendSearchInductive == FriendSearchSpec => []FriendSearchInv
<1>1. FriendSearchInit => FriendSearchInv
  BY SearchInitially, ApplyInitially DEF FriendSearchInv
<1>2. FriendSearchInv /\ [FriendSearchNext]_friendSearchVars => FriendSearchInv'
  <2> SUFFICES ASSUME FriendSearchInv, [FriendSearchNext]_friendSearchVars PROVE FriendSearchInv'
    OBVIOUS
  <2>0. SearchInv /\ ApplyInv
    BY DEF FriendSearchInv
  <2>1. CASE AddFriendAction
    <3>1. GetInstance /\ UNCHANGED applyVars
      BY <2>1 DEF AddFriendAction
    <3> QED
      BY <2>0, <3>1, GetInstanceStep, ApplyStays DEF FriendSearchInv
  <2>2. CASE SearchStep
    BY <2>0, <2>2, SearchStepKeeps, ApplyStays DEF FriendSearchInv
  <2>3. CASE ApplyStep
    BY <2>0, <2>3, ApplyStepKeeps DEF FriendSearchInv
  <2>4. CASE UNCHANGED friendSearchVars
    <3>1. UNCHANGED <<searchVars, alive>> /\ UNCHANGED applyVars
      BY <2>4 DEF friendSearchVars
    <3> QED
      BY <2>0, <3>1, SearchStays, ApplyStays DEF FriendSearchInv
  <2> QED
    BY <2>1, <2>2, <2>3, <2>4 DEF FriendSearchNext
<1> QED
  BY <1>1, <1>2, PTL DEF FriendSearchSpec

(* A set of places with one at most has no or one element.                 *)
LEMMA OneAtMost ==
  ASSUME NEW S, \A i, j \in S : i = j
  PROVE  Cardinality(S) \in 0..1 /\ (Cardinality(S) = 1 => S # {})
<1>1. CASE S = {}
  BY <1>1, FS_EmptySet
<1>2. CASE S # {}
  <2>1. PICK x \in S : S = {x}
    BY <1>2
  <2> QED
    BY <1>2, <2>1, FS_Singleton
<1> QED
  BY <1>1, <1>2

LEMMA OneIsInFlight ==
  ASSUME ApplyTypeOK, NEW w, OneOf(w)
  PROVE  InFlight(w) <= 1
<1> DEFINE a == {i \in DOMAIN wire : wire[i] = w}
           b == {i \in DOMAIN responses : responses[i].window = w}
<1>1. DOMAIN wire = 1..Len(wire) /\ DOMAIN responses = 1..Len(responses)
  BY DEF ApplyTypeOK
<1>2. (a # {} => Asked(w)) /\ (b # {} => Answered(w))
  BY <1>1 DEF Asked, Answered
<1>3. (\A i, j \in a : i = j) /\ (\A i, j \in b : i = j) /\ ~(a # {} /\ b # {})
  BY <1>1, <1>2 DEF OneOf
<1>4. InFlight(w) = Cardinality(a) + Cardinality(b)
  BY DEF InFlight
<1> HIDE DEF a, b
<1>5. /\ Cardinality(a) \in 0..1 /\ (Cardinality(a) = 1 => a # {})
      /\ Cardinality(b) \in 0..1 /\ (Cardinality(b) = 1 => b # {})
  BY <1>3, OneAtMost
<1> QED
  BY <1>3, <1>4, <1>5

(* SearchResultList and ApplyWindow (SearchResultList.cpp, ApplyWindow.cpp): *)
(* for any number of searches, windows and requests, and replies in any    *)
(* order, the list shows the results of the latest search, under headings  *)
(* for those there are, unless one was made with a reply to an earlier one *)
(* under way; a window waits only for an answer that is to come; and       *)
(* unless an answer met another window, a window asks once and tells only  *)
(* of its own success.                                                     *)
THEOREM ResultsFindTheirPlace == FriendSearchSpec => []RepliesFindTheirPlace
<1>1. FriendSearchInv => RepliesFindTheirPlace
  <2> SUFFICES ASSUME SearchInv, ApplyInv PROVE RepliesFindTheirPlace
    BY DEF FriendSearchInv
  <2>1. FriendSearchTypeOK
    BY DEF SearchInv, SearchTypeOK, ApplyInv, ApplyTypeOK, Answers, FriendSearchTypeOK
  <2>2. LastTextIsSearched
    BY DEF SearchInv, CurrentInv, LastTextIsSearched
  <2>3. ResultsAreOfLatest
    <3>1. SUFFICES ASSUME ~stale
                   PROVE  /\ \A k \in Kinds : items[k] = IF Hit(k) THEN <<current.search>> ELSE <<>>
                          /\ titles = {k \in Kinds : Hit(k)}
      BY DEF ResultsAreOfLatest
    <3>2. /\ \A k \in Kinds : items[k] = IF Hit(k) THEN <<current.search>> ELSE <<>>
          /\ \A k \in Kinds \ KindsOf(searchType) : ~Hit(k)
          /\ titles = {k \in KindsOf(searchType) : items[k] # <<>>}
          /\ KindsOf(searchType) \subseteq Kinds
      BY <3>1, KindsAreKnown DEF SearchInv, SearchTypeOK, ListInv
    <3>3. \A k \in Kinds : (items[k] # <<>>) <=> Hit(k)
      BY <3>2
    <3>4. \A k : k \in titles <=> k \in Kinds /\ Hit(k)
      BY <3>2, <3>3
    <3> QED
      BY <3>2, <3>4
  <2>5. WaitingIsAnswered
    <3>1. SUFFICES ASSUME wssOpen, NEW w \in Windows, applying[w] = "waiting"
                   PROVE  wire # <<>> \/ responses # <<>>
      BY DEF WaitingIsAnswered
    <3>2. Asked(w) \/ Answered(w)
      BY <3>1, Zenon DEF ApplyInv
    <3>3. (wire = <<>> => ~Asked(w)) /\ (responses = <<>> => ~Answered(w))
      BY DEF Asked, Answered
    <3> QED
      BY <3>2, <3>3
  <2>6. AskedOnce
    <3>1. SUFFICES ASSUME ~shared, NEW w \in Windows PROVE InFlight(w) <= 1
      BY DEF AskedOnce
    <3>2. ApplyTypeOK /\ OneOf(w)
      BY <3>1, Zenon DEF ApplyInv
    <3> QED
      BY <3>2, OneIsInFlight
  <2>7. SuccessIsOwn
    BY DEF ApplyInv, SuccessIsOwn
  <2> QED
    BY <2>1, <2>2, <2>3, <2>5, <2>6, <2>7 DEF RepliesFindTheirPlace
<1> QED
  BY <1>1, FriendSearchInductive, PTL

(***************************************************************************)
(* SmoothScroll and ChatScroll: bar, view and notice agree.                *)
(***************************************************************************)

ViewOK(s) == s \in Views /\ s.value <= s.max

(* Nothing moves and the three positions are the same.                     *)
InStep(s) == s.bar = s.value /\ s.smooth = s.value /\ s.barMax = s.max
Synced(s) == ~Running(s) /\ s.max > 0 => InStep(s)

LEMMA SizesAreNumbers ==
  /\ Viewport \in Nat \ {0} /\ MaxRows \in Nat \ {0} /\ MaxRows >= 2 /\ MaxInputs \in Nat
  /\ MaxTimers \in Nat \ {0} /\ Near \in Nat /\ Follow \in Nat
  /\ NoAnimation \notin Positions
BY ScrollAssumption, ChatScrollAssumption DEF NoAnimation, Positions

LEMMA ExcessIsPosition ==
  ASSUME NEW r \in 0..MaxRows
  PROVE  Excess(r) \in Positions
BY SizesAreNumbers DEF Excess, Positions

(* More rows leave no smaller excess.                                      *)
LEMMA ExcessGrows ==
  ASSUME NEW r \in 0..MaxRows, NEW q \in 0..MaxRows, r <= q
  PROVE  Excess(r) <= Excess(q)
BY SizesAreNumbers DEF Excess

LEMMA ViewFields ==
  ASSUME NEW s \in Views
  PROVE  /\ s.max \in Positions /\ s.value \in Positions /\ s.smooth \in Positions
         /\ s.bar \in Positions /\ s.barMax \in Positions /\ s.target \in 0..NoAnimation
         /\ Running(s) => s.target \in Positions
BY SizesAreNumbers DEF Views, Running, NoAnimation, Positions

(* The bar keeps its value as far as the range allows.                     *)
LEMMA LaidOutFacts ==
  ASSUME NEW s, ViewOK(s), NEW r \in 0..MaxRows
  PROVE  LET t == LaidOut(s, r)
         IN /\ ViewOK(t) /\ t.max = Excess(r) /\ t.value = Bound(s.value, Excess(r))
            /\ t.target = s.target /\ t.smooth = s.smooth /\ t.bar = s.bar /\ t.barMax = s.barMax
<1>1. s \in Views /\ Excess(r) \in Positions /\ s.value \in Positions
  BY ExcessIsPosition, ViewFields DEF ViewOK
<1>2. Bound(s.value, Excess(r)) \in Positions /\ Bound(s.value, Excess(r)) <= Excess(r)
  BY <1>1 DEF Bound, Positions
<1> QED
  BY <1>1, <1>2 DEF LaidOut, ViewOK, Views

(* The painted bar takes over the range and the value.                     *)
LEMMA UpdateFacts ==
  ASSUME NEW s, ViewOK(s)
  PROVE  LET t == UpdateCustomScrollBar(s)
         IN ViewOK(t) /\ Synced(t) /\ t.max = s.max /\ t.value = s.value
<1>1. /\ s \in Views /\ s.max \in Positions /\ s.value \in Positions /\ s.value <= s.max
      /\ 0 \in Positions /\ Positions \subseteq Nat
  BY ViewFields, SizesAreNumbers DEF ViewOK, Positions
<1>2. CASE s.max > 0
  BY <1>1, <1>2 DEF UpdateCustomScrollBar, ViewOK, Views, Synced, InStep
<1>3. CASE ~(s.max > 0)
  <2>1. s.max = 0 /\ s.value = 0
    BY <1>1, <1>3 DEF Positions
  <2> QED
    BY <1>1, <1>3, <2>1 DEF UpdateCustomScrollBar, ViewOK, Views, Synced, InStep
<1> QED
  BY <1>2, <1>3

LEMMA CheckFacts ==
  ASSUME NEW s, ViewOK(s), NEW r \in 0..MaxRows
  PROVE  LET t == CheckScrollBarVisibility(s, r)
         IN ViewOK(t) /\ Synced(t) /\ t.max = Excess(r) /\ t.value = Bound(s.value, Excess(r))
<1>1. PICK l : l = LaidOut(s, r)
  OBVIOUS
<1>2. ViewOK(l) /\ l.max = Excess(r) /\ l.value = Bound(s.value, Excess(r))
  BY <1>1, LaidOutFacts
<1>3. /\ l \in Views /\ l.max \in Positions /\ l.value \in Positions /\ l.value <= l.max
      /\ 0 \in Positions /\ Positions \subseteq Nat
  BY <1>2, ViewFields, SizesAreNumbers DEF ViewOK, Positions
<1>4. CASE l.max = 0
  <2>1. l.value = 0
    BY <1>3, <1>4 DEF Positions
  <2>2. PICK t : t = [l EXCEPT !.smooth = 0, !.value = 0]
    OBVIOUS
  <2>3. CheckScrollBarVisibility(s, r) = t
    BY <1>1, <1>4, <2>2 DEF CheckScrollBarVisibility
  <2>4. t \in Views /\ t.max = 0 /\ t.value = 0
    BY <1>3, <1>4, <2>2 DEF Views
  <2> QED
    BY <1>2, <1>4, <2>1, <2>3, <2>4 DEF ViewOK, Synced
<1>5. CASE l.max # 0
  <2>1. CheckScrollBarVisibility(s, r) = UpdateCustomScrollBar(l)
    BY <1>1, <1>5 DEF CheckScrollBarVisibility
  <2> QED
    BY <1>2, <2>1, UpdateFacts
<1> QED
  BY <1>4, <1>5

LEMMA SmoothFacts ==
  ASSUME NEW s, ViewOK(s), NEW v \in Positions
  PROVE  LET t == SetSmoothScrollValue(s, v)
         IN ViewOK(t) /\ t.max = s.max /\ t.target = s.target
<1>1. /\ s \in Views /\ s.max \in Positions /\ s.barMax \in Positions /\ s.bar \in Positions
      /\ Positions \subseteq Nat
  BY ViewFields DEF ViewOK, Positions
<1>2. /\ Bound(v, s.max) \in Positions /\ Bound(v, s.max) <= s.max /\ Bound(v, s.barMax) \in Positions
  BY <1>1 DEF Bound, Positions
<1>3. CASE s.max = 0 \/ s.smooth = v
  BY <1>3 DEF SetSmoothScrollValue
<1>4. CASE ~(s.max = 0 \/ s.smooth = v)
  <2> DEFINE b == IF v >= s.max THEN s.bar ELSE Bound(v, s.barMax)
  <2>1. b \in Positions
    BY <1>1, <1>2
  <2>2. SetSmoothScrollValue(s, v) = [s EXCEPT !.smooth = v, !.value = Bound(v, s.max), !.bar = b]
    BY <1>4 DEF SetSmoothScrollValue
  <2> HIDE DEF b
  <2> QED
    BY <1>1, <1>2, <2>1, <2>2 DEF ViewOK, Views
<1> QED
  BY <1>3, <1>4

(* An animation goes on, or its end brings the positions together.         *)
LEMMA AnimationFacts ==
  ASSUME NEW s, ViewOK(s), Running(s), NEW t \in AnimationSteps(s)
  PROVE  ViewOK(t) /\ Synced(t) /\ t.max = s.max
<1>1. s.target \in Positions
  BY ViewFields DEF ViewOK
<1>2. CASE \E v \in Positions : t = SetSmoothScrollValue(s, v)
  <2>1. PICK v \in Positions : t = SetSmoothScrollValue(s, v)
    BY <1>2
  <2>2. ViewOK(t) /\ t.max = s.max /\ t.target = s.target
    BY <2>1, SmoothFacts
  <2> QED
    BY <2>2 DEF Synced, Running
<1>3. CASE t = OnAnimationFinished(SetSmoothScrollValue(s, s.target))
  <2>1. PICK l : l = SetSmoothScrollValue(s, s.target)
    OBVIOUS
  <2>2. ViewOK(l) /\ l.max = s.max
    BY <1>1, <2>1, SmoothFacts
  <2>3. PICK m : m = [l EXCEPT !.target = NoAnimation]
    OBVIOUS
  <2>4. ViewOK(m) /\ m.max = s.max
    <3>1. NoAnimation \in 0..NoAnimation
      BY SizesAreNumbers DEF NoAnimation
    <3> QED
      BY <2>2, <2>3, <3>1 DEF ViewOK, Views
  <2>5. t = UpdateCustomScrollBar(m)
    BY <1>3, <2>1, <2>3 DEF OnAnimationFinished
  <2> QED
    BY <2>4, <2>5, UpdateFacts
<1> QED
  BY <1>2, <1>3 DEF AnimationSteps

LEMMA WheelFacts ==
  ASSUME NEW s, ViewOK(s), s.max > 0, NEW v \in WheelTargets(s)
  PROVE  LET t == StartScrollAnimation(s, v)
         IN ViewOK(t) /\ Synced(t) /\ t.max = s.max /\ t.value = s.value
<1>1. s \in Views /\ s.max \in Positions /\ s.smooth \in Positions
  BY ViewFields DEF ViewOK
<1>2. v \in Positions
  BY <1>1, SizesAreNumbers DEF WheelTargets, Bound, Positions
<1>3. v \in 0..NoAnimation /\ v # NoAnimation
  BY <1>2, SizesAreNumbers DEF NoAnimation, Positions
<1>4. StartScrollAnimation(s, v) = [s EXCEPT !.target = v]
  BY <1>1 DEF StartScrollAnimation
<1> QED
  BY <1>1, <1>3, <1>4 DEF ViewOK, Views, Synced, Running

(* The handle cannot be dragged out of the range of the painted bar.       *)
LEMMA DragFacts ==
  ASSUME NEW s, ViewOK(s), s.max > 0, NEW v \in 0..s.barMax
  PROVE  LET t == Dragged(s, v)
         IN ViewOK(t) /\ (Synced(s) => Synced(t)) /\ t.max = s.max
<1>1. /\ s \in Views /\ s.max \in Positions /\ s.barMax \in Positions /\ Positions \subseteq Nat
      /\ s.value <= s.max
  BY ViewFields DEF ViewOK, Positions
<1>2. v \in Positions /\ v <= s.barMax
  BY <1>1, SizesAreNumbers DEF Positions
<1>3. Bound(v, s.max) \in Positions /\ Bound(v, s.max) <= s.max
  BY <1>1, <1>2 DEF Bound, Positions
<1>4. CASE v = s.bar
  BY <1>4 DEF Dragged
<1>5. CASE v # s.bar /\ Running(s)
  <2>1. Dragged(s, v) = [s EXCEPT !.bar = v]
    BY <1>1, <1>5 DEF Dragged, OnCustomScrollValueChanged, Running, Views
  <2> QED
    BY <1>1, <1>2, <1>5, <2>1 DEF ViewOK, Views, Synced, Running
<1>6. CASE v # s.bar /\ ~Running(s)
  <2>1. PICK t : t = [s EXCEPT !.bar = v, !.smooth = v, !.value = Bound(v, s.max)]
    OBVIOUS
  <2>2. Dragged(s, v) = t
    BY <1>1, <1>6, <2>1 DEF Dragged, OnCustomScrollValueChanged, Running, Views
  <2>3. /\ t \in Views /\ t.bar = v /\ t.smooth = v /\ t.value = Bound(v, s.max) /\ t.max = s.max
        /\ t.barMax = s.barMax
    BY <1>1, <1>2, <1>3, <2>1 DEF Views
  <2>4. ASSUME Synced(s) PROVE Synced(t)
    <3>1. s.barMax = s.max
      BY <1>6, <2>4 DEF Synced, InStep
    <3>2. Bound(v, s.max) = v
      BY <1>1, <1>2, <3>1 DEF Bound, Positions
    <3> QED
      BY <2>3, <3>1, <3>2 DEF Synced, InStep
  <2> QED
    BY <1>3, <2>2, <2>3, <2>4 DEF ViewOK
<1> QED
  BY <1>4, <1>5, <1>6

LEMMA BottomFacts ==
  ASSUME NEW s, ViewOK(s), NEW r \in 0..MaxRows
  PROVE  LET t == ScrollToBottom(s, r)
         IN ViewOK(t) /\ Synced(t) /\ t.max = Excess(r) /\ t.value = Bound(s.value, Excess(r))
<1>1. PICK l : l = LaidOut(s, r)
  OBVIOUS
<1>2. ViewOK(l) /\ l.max = Excess(r) /\ l.value = Bound(s.value, Excess(r))
  BY <1>1, LaidOutFacts
<1>3. CASE l.max = 0
  <2>1. ScrollToBottom(s, r) = l
    BY <1>1, <1>3 DEF ScrollToBottom
  <2> QED
    BY <1>2, <1>3, <2>1 DEF Synced
<1>4. CASE l.max # 0
  <2>1. ScrollToBottom(s, r) = [l EXCEPT !.target = l.max, !.smooth = l.value]
    BY <1>1, <1>4 DEF ScrollToBottom
  <2>2. l \in Views /\ l.max \in Positions /\ l.value \in Positions
    BY <1>2, ViewFields DEF ViewOK
  <2>3. l.max \in 0..NoAnimation /\ l.max # NoAnimation
    BY <2>2, SizesAreNumbers DEF NoAnimation, Positions
  <2> QED
    BY <1>2, <2>1, <2>2, <2>3 DEF ViewOK, Views, Synced, Running
<1> QED
  BY <1>3, <1>4

(* The range is the one of the last layout as soon as no timer is left that *)
(* would make it anew, and then the positions agree when nothing moves.    *)
BarInv == ViewOK(view) /\ (checks = 0 => view.max = Excess(rows) /\ Synced(view))

(* While messages are unread and no rows were removed, the end is below;   *)
(* the range is too large only after rows were removed.                    *)
UnreadInv ==
  /\ unreadMessageCount > 0 /\ ~shrunk => view.value < view.max
  /\ view.max > Excess(rows) => shrunk

ScrollInv == ChatScrollTypeOK /\ BarInv /\ UnreadInv

LEMMA NothingScrolled ==
  ASSUME ScrollInit
  PROVE  ScrollTypeOK /\ BarInv
<1>1. /\ view = [max |-> 0, value |-> 0, smooth |-> 0, bar |-> 0, barMax |-> 0, target |-> NoAnimation]
      /\ rows = 0 /\ checks = 1 /\ inputs = 0
  BY DEF ScrollInit
<1>2. 0 \in Positions /\ NoAnimation \in 0..NoAnimation
  BY SizesAreNumbers DEF Positions, NoAnimation
<1>3. view \in Views /\ view.value = 0 /\ view.max = 0
  BY <1>1, <1>2 DEF Views
<1>4. rows \in 0..MaxRows /\ checks \in 0..MaxTimers /\ inputs \in 0..MaxInputs
  BY <1>1, SizesAreNumbers
<1> QED
  BY <1>1, <1>3, <1>4 DEF ScrollTypeOK, BarInv, ViewOK

-----------------------------------------------------------------------------
(* The plain list.                                                         *)

(* What the steps of the view do to its range and value.                   *)
LEMMA ViewSteps ==
  ASSUME ScrollTypeOK, BarInv,
         DelayedLayout \/ CheckTimer \/ AnimationStep \/ WheelEvent \/ Drag
  PROVE  /\ ScrollTypeOK' /\ BarInv' /\ rows' = rows
         /\ view'.max = view.max \/ view'.max = Excess(rows)
<1>1. /\ ViewOK(view) /\ (checks = 0 => view.max = Excess(rows) /\ Synced(view))
      /\ rows \in 0..MaxRows /\ checks \in 0..MaxTimers /\ inputs \in 0..MaxInputs
  BY DEF ScrollTypeOK, BarInv
<1>2. CASE DelayedLayout
  <2>1. /\ view.max # Excess(rows) /\ view' = LaidOut(view, rows)
        /\ UNCHANGED <<rows, checks, inputs>>
    BY <1>2 DEF DelayedLayout
  <2>2. ViewOK(view') /\ view'.max = Excess(rows)
    BY <1>1, <2>1, LaidOutFacts
  <2> QED
    BY <1>1, <2>1, <2>2 DEF ScrollTypeOK, BarInv, ViewOK
<1>3. CASE CheckTimer
  <2>1. /\ checks > 0 /\ checks' = checks - 1
        /\ view' = CheckScrollBarVisibility(view, rows) /\ UNCHANGED <<rows, inputs>>
    BY <1>3 DEF CheckTimer
  <2>2. ViewOK(view') /\ Synced(view') /\ view'.max = Excess(rows)
    BY <1>1, <2>1, CheckFacts
  <2>3. checks' \in 0..MaxTimers
    BY <1>1, <2>1, SizesAreNumbers
  <2> QED
    BY <1>1, <2>1, <2>2, <2>3 DEF ScrollTypeOK, BarInv, ViewOK
<1>4. CASE AnimationStep
  <2>1. Running(view) /\ view' \in AnimationSteps(view) /\ UNCHANGED <<rows, checks, inputs>>
    BY <1>4 DEF AnimationStep
  <2>2. ViewOK(view') /\ Synced(view') /\ view'.max = view.max
    BY <1>1, <2>1, AnimationFacts
  <2> QED
    BY <1>1, <2>1, <2>2 DEF ScrollTypeOK, BarInv, ViewOK
<1>5. CASE WheelEvent
  <2>1. /\ inputs < MaxInputs /\ inputs' = inputs + 1 /\ view.max > 0
        /\ UNCHANGED <<rows, checks>>
    BY <1>5 DEF WheelEvent
  <2>2. PICK v \in WheelTargets(view) : view' = StartScrollAnimation(view, v)
    BY <1>5 DEF WheelEvent
  <2>3. ViewOK(view') /\ Synced(view') /\ view'.max = view.max
    BY <1>1, <2>1, <2>2, WheelFacts
  <2>4. inputs' \in 0..MaxInputs
    BY <1>1, <2>1, SizesAreNumbers
  <2> QED
    BY <1>1, <2>1, <2>3, <2>4 DEF ScrollTypeOK, BarInv, ViewOK
<1>6. CASE Drag
  <2>1. /\ inputs < MaxInputs /\ inputs' = inputs + 1 /\ view.max > 0
        /\ UNCHANGED <<rows, checks>>
    BY <1>6 DEF Drag
  <2>2. PICK v \in 0..view.barMax : view' = Dragged(view, v)
    BY <1>6 DEF Drag
  <2>3. ViewOK(view') /\ (Synced(view) => Synced(view')) /\ view'.max = view.max
    BY <1>1, <2>1, <2>2, DragFacts
  <2>4. inputs' \in 0..MaxInputs
    BY <1>1, <2>1, SizesAreNumbers
  <2> QED
    BY <1>1, <2>1, <2>3, <2>4 DEF ScrollTypeOK, BarInv, ViewOK
<1> QED
  BY <1>2, <1>3, <1>4, <1>5, <1>6

LEMMA BarIsFollowed ==
  ASSUME BarInv
  PROVE  BarFollowsView
BY DEF BarInv, Synced, InStep, BarFollowsView

(* FriendListView and AiChatListView (FriendListView.cpp): whatever the     *)
(* order of changes of the rows, turns of the wheel, drags, layouts and    *)
(* timers, once no timer and no animation is left the painted bar, the     *)
(* position of the animation and Qt's bar agree.                           *)
THEOREM PlainBarFollowsView == ScrollSpec => [](ScrollTypeOK /\ BarFollowsView)
<1>1. ScrollInit => ScrollTypeOK /\ BarInv
  BY NothingScrolled
<1>2. ScrollTypeOK /\ BarInv /\ [ScrollNext]_scrollVars => (ScrollTypeOK /\ BarInv)'
  <2> SUFFICES ASSUME ScrollTypeOK, BarInv, [ScrollNext]_scrollVars PROVE (ScrollTypeOK /\ BarInv)'
    OBVIOUS
  <2>1. CASE OnModelRowsChanged
    <3>1. /\ rows' \in 0..MaxRows /\ inputs < MaxInputs /\ inputs' = inputs + 1
          /\ checks < MaxTimers /\ checks' = checks + 1 /\ view' = view
      BY <2>1 DEF OnModelRowsChanged
    <3>2. checks' \in 0..MaxTimers /\ inputs' \in 0..MaxInputs /\ checks' # 0
      BY <3>1, SizesAreNumbers DEF ScrollTypeOK
    <3> QED
      BY <3>1, <3>2 DEF ScrollTypeOK, BarInv
  <2>2. CASE UNCHANGED scrollVars
    BY <2>2 DEF scrollVars, ScrollTypeOK, BarInv
  <2> QED
    BY <2>1, <2>2, ViewSteps DEF ScrollNext
<1>3. ScrollTypeOK /\ BarInv => ScrollTypeOK /\ BarFollowsView
  BY BarIsFollowed
<1> QED
  BY <1>1, <1>2, <1>3, PTL DEF ScrollSpec

-----------------------------------------------------------------------------
(* The conversation.                                                       *)

LEMMA ScrollInitially ==
  ASSUME ChatScrollInit
  PROVE  ScrollInv
<1>1. ScrollInit /\ unreadMessageCount = 0 /\ follows = 0 /\ jumps = 0 /\ toShow = 0 /\ shrunk = FALSE
  BY DEF ChatScrollInit
<1>2. ScrollTypeOK /\ BarInv
  BY <1>1, NothingScrolled
<1>3. view.max = 0 /\ Excess(rows) = 0
  BY <1>1, SizesAreNumbers DEF ScrollInit, Excess
<1>4. ChatScrollTypeOK
  <2>1. 0 \in Nat /\ 0 \in 0..MaxTimers /\ 0 \in 0..MaxRows
    BY SizesAreNumbers
  <2> QED
    BY <1>1, <1>2, <2>1 DEF ChatScrollTypeOK
<1>5. UnreadInv
  BY <1>1, <1>3 DEF UnreadInv
<1> QED
  BY <1>2, <1>4, <1>5 DEF ScrollInv

(* Rows that come or go leave the view as it is; a timer will look at it.  *)
LEMMA RowsStep ==
  ASSUME ScrollInv, RowsChanged, rows' \in 0..MaxRows, view' = view,
         inputs' \in 0..MaxInputs, unreadMessageCount' \in Nat, jumps' \in 0..MaxTimers,
         toShow' \in 0..MaxRows, shrunk' \in BOOLEAN, UnreadInv'
  PROVE  ScrollInv'
<1>1. /\ checks < MaxTimers /\ checks' = checks + 1
      /\ follows < MaxTimers /\ (follows' = follows \/ follows' = follows + 1)
      /\ checks \in 0..MaxTimers /\ follows \in 0..MaxTimers
  BY DEF RowsChanged, ScrollInv, ChatScrollTypeOK, ScrollTypeOK
<1>2. checks' \in 0..MaxTimers /\ checks' # 0 /\ follows' \in 0..MaxTimers
  BY <1>1, SizesAreNumbers
<1> QED
  BY <1>2 DEF ScrollInv, ChatScrollTypeOK, ScrollTypeOK, BarInv

(* A message is added: the range is not larger than before.                *)
LEMMA MessageAdded ==
  ASSUME ScrollInv, rows < MaxRows, rows' = IF rows = 0 THEN 2 ELSE rows + 1
  PROVE  /\ rows' \in 0..MaxRows /\ rows' - 1 \in 0..MaxRows
         /\ Excess(rows) <= Excess(rows') /\ Excess(rows') \in Nat /\ Excess(rows) \in Nat
<1>1. rows \in 0..MaxRows
  BY DEF ScrollInv, ChatScrollTypeOK, ScrollTypeOK
<1>2. rows' \in 0..MaxRows /\ rows <= rows' /\ rows' - 1 \in 0..MaxRows
  BY <1>1, SizesAreNumbers
<1>3. Excess(rows) \in Positions /\ Excess(rows') \in Positions
  BY <1>1, <1>2, ExcessIsPosition
<1> QED
  BY <1>1, <1>2, <1>3, ExcessGrows DEF Positions

LEMMA ReceivedStep ==
  ASSUME ScrollInv, OnMessageReceived
  PROVE  ScrollInv'
<1>1. /\ rows < MaxRows /\ rows' = IF rows = 0 THEN 2 ELSE rows + 1
      /\ RowsChanged /\ view' = view /\ inputs' = inputs /\ toShow' = toShow
      /\ shrunk' = (shrunk /\ (unreadMessageCount' > 0 \/ view'.max > Excess(rows')))
      /\ \/ IsNearBottom /\ jumps < MaxTimers /\ jumps' = jumps + 1 /\ unreadMessageCount' = unreadMessageCount
         \/ ~IsNearBottom /\ unreadMessageCount' = unreadMessageCount + 1 /\ jumps' = jumps
  BY DEF OnMessageReceived, NotShrunk, Unannounced
<1>2. /\ rows' \in 0..MaxRows /\ Excess(rows) <= Excess(rows') /\ Excess(rows') \in Nat /\ Excess(rows) \in Nat
  BY <1>1, MessageAdded
<1>3. /\ view.max \in Nat /\ view.value \in Nat
  BY ViewFields DEF ScrollInv, ChatScrollTypeOK, ScrollTypeOK, Positions
<1>4. /\ inputs \in 0..MaxInputs /\ unreadMessageCount \in Nat /\ jumps \in 0..MaxTimers
      /\ toShow \in 0..MaxRows /\ shrunk \in BOOLEAN
  BY DEF ScrollInv, ChatScrollTypeOK, ScrollTypeOK
<1>5. jumps' \in 0..MaxTimers /\ unreadMessageCount' \in Nat
  BY <1>1, <1>4, SizesAreNumbers
<1>6. ~IsNearBottom => view.value < view.max
  BY <1>3, SizesAreNumbers DEF IsNearBottom, DistanceToBottom
<1>7. UnreadInv'
  <2>1. /\ unreadMessageCount > 0 /\ ~shrunk => view.value < view.max
        /\ view.max > Excess(rows) => shrunk
    BY DEF ScrollInv, UnreadInv
  <2>2. view.max > Excess(rows') => shrunk'
    <3>1. view.max > Excess(rows') => view.max > Excess(rows)
      BY <1>2, <1>3
    <3>2. shrunk /\ view'.max > Excess(rows') => shrunk'
      BY <1>1, Zenon
    <3> QED
      BY <1>1, <2>1, <3>1, <3>2
  <2>3. unreadMessageCount' > 0 /\ ~shrunk' => view.value < view.max
    BY <1>1, <1>4, <1>6, <2>1
  <2> QED
    BY <1>1, <2>2, <2>3 DEF UnreadInv
<1> QED
  BY <1>1, <1>2, <1>4, <1>5, <1>7, RowsStep

LEMMA SendStep ==
  ASSUME ScrollInv, SendMessage
  PROVE  ScrollInv'
<1>1. /\ rows < MaxRows /\ rows' = IF rows = 0 THEN 2 ELSE rows + 1
      /\ RowsChanged /\ jumps < MaxTimers /\ jumps' = jumps + 1 /\ toShow' = rows' - 1
      /\ view' = view /\ inputs' = inputs /\ unreadMessageCount' = unreadMessageCount /\ shrunk' = shrunk
  BY DEF SendMessage
<1>2. /\ rows' \in 0..MaxRows /\ rows' - 1 \in 0..MaxRows
      /\ Excess(rows) <= Excess(rows') /\ Excess(rows') \in Nat /\ Excess(rows) \in Nat
  BY <1>1, MessageAdded
<1>3. view.max \in Nat
  BY ViewFields DEF ScrollInv, ChatScrollTypeOK, ScrollTypeOK, Positions
<1>4. /\ inputs \in 0..MaxInputs /\ unreadMessageCount \in Nat /\ jumps \in 0..MaxTimers /\ shrunk \in BOOLEAN
  BY DEF ScrollInv, ChatScrollTypeOK, ScrollTypeOK
<1>5. jumps' \in 0..MaxTimers
  BY <1>1, <1>4, SizesAreNumbers
<1>6. UnreadInv'
  BY <1>1, <1>2, <1>3 DEF ScrollInv, UnreadInv
<1> QED
  BY <1>1, <1>2, <1>4, <1>5, <1>6, RowsStep

LEMMA RemovedStep ==
  ASSUME ScrollInv, InitMessage \/ RemoveMessage
  PROVE  ScrollInv'
<1>1. /\ inputs < MaxInputs /\ inputs' = inputs + 1 /\ RowsChanged /\ toShow' = 0
      /\ view' = view /\ unreadMessageCount' = unreadMessageCount /\ jumps' = jumps
      /\ shrunk' = (unreadMessageCount' > 0 \/ view'.max > Excess(rows'))
  BY DEF InitMessage, RemoveMessage, NothingToShow, Shrink, Unannounced
<1>2. /\ rows \in 0..MaxRows /\ inputs \in 0..MaxInputs /\ unreadMessageCount \in Nat /\ jumps \in 0..MaxTimers
  BY DEF ScrollInv, ChatScrollTypeOK, ScrollTypeOK
<1>3. rows' \in 0..MaxRows
  BY <1>2, SizesAreNumbers DEF InitMessage, RemoveMessage
<1>4. inputs' \in 0..MaxInputs /\ toShow' \in 0..MaxRows
  BY <1>1, <1>2, SizesAreNumbers
<1>5. UnreadInv' /\ shrunk' \in BOOLEAN
  BY <1>1 DEF UnreadInv
<1> QED
  BY <1>1, <1>2, <1>3, <1>4, <1>5, RowsStep

(* A step that brings the view to the bottom or towards it.                *)
LEMMA ShowsBottom ==
  ASSUME ScrollInv, view' = ScrollToBottom(view, rows), rows' = rows, checks' = checks,
         inputs' \in 0..MaxInputs, follows' \in 0..MaxTimers, jumps' \in 0..MaxTimers, toShow' \in 0..MaxRows,
         unreadMessageCount' = 0 \/ OnScrollValueChanged, NotShrunk
  PROVE  ScrollInv'
<1>1. /\ ViewOK(view) /\ view \in Views /\ rows \in 0..MaxRows /\ checks \in 0..MaxTimers
      /\ unreadMessageCount \in Nat /\ shrunk \in BOOLEAN
  BY DEF ScrollInv, ChatScrollTypeOK, ScrollTypeOK, BarInv
<1>2. ViewOK(view') /\ Synced(view') /\ view'.max = Excess(rows)
  BY <1>1, BottomFacts
<1>3. BarInv'
  BY <1>2 DEF BarInv
<1>4. /\ view.max \in Nat /\ view.value \in Nat /\ view'.max \in Nat /\ view'.value \in Nat
      /\ view'.value <= view'.max
  BY <1>1, <1>2, ViewFields DEF ViewOK, Positions
<1>5. shrunk' = (shrunk /\ (unreadMessageCount' > 0 \/ view'.max > Excess(rows'))) /\ shrunk' \in BOOLEAN
  BY <1>1 DEF NotShrunk, Unannounced
<1>6. unreadMessageCount' \in Nat
  BY <1>1 DEF OnScrollValueChanged
<1>7. UnreadInv'
  <2>1. ~(view'.max > Excess(rows'))
    BY <1>2, <1>4
  <2>2. ASSUME unreadMessageCount' > 0, ~shrunk' PROVE view'.value < view'.max
    <3>1. ~shrunk
      BY <1>5, <2>2
    <3>2. /\ unreadMessageCount > 0
          /\ view'.value # view.value => ~IsScrollAtBottom(view')
      BY <2>2 DEF OnScrollValueChanged
    <3>3. view.value < view.max /\ view.max <= Excess(rows)
      BY <1>1, <1>4, <1>2, <3>1, <3>2 DEF ScrollInv, UnreadInv
    <3> QED
      BY <1>2, <1>4, <3>2, <3>3 DEF IsScrollAtBottom
  <2> QED
    BY <2>1, <2>2 DEF UnreadInv
<1> QED
  BY <1>1, <1>2, <1>3, <1>5, <1>6, <1>7 DEF ScrollInv, ChatScrollTypeOK, ScrollTypeOK, ViewOK

LEMMA ToShowStays ==
  ASSUME ScrollInv, StillToShow \/ NothingToShow
  PROVE  toShow' \in 0..MaxRows
BY SizesAreNumbers DEF ScrollInv, ChatScrollTypeOK, StillToShow, NothingToShow

LEMMA BottomStep ==
  ASSUME ScrollInv, JumpTimer \/ OnNewMessageNotifierClicked \/ FollowTimer
  PROVE  ScrollInv'
<1>1. /\ rows \in 0..MaxRows /\ inputs \in 0..MaxInputs /\ follows \in 0..MaxTimers /\ jumps \in 0..MaxTimers
  BY DEF ScrollInv, ChatScrollTypeOK, ScrollTypeOK
<1>2. CASE JumpTimer
  <2>1. /\ jumps > 0 /\ jumps' = jumps - 1 /\ view' = ScrollToBottom(view, rows) /\ unreadMessageCount' = 0
        /\ StillToShow /\ UNCHANGED <<rows, checks, inputs, follows>> /\ NotShrunk
    BY <1>2 DEF JumpTimer, AreaScrollToBottom
  <2>2. jumps' \in 0..MaxTimers /\ toShow' \in 0..MaxRows
    BY <1>1, <2>1, SizesAreNumbers, ToShowStays
  <2> QED
    BY <1>1, <2>1, <2>2, ShowsBottom
<1>3. CASE OnNewMessageNotifierClicked
  <2>1. /\ inputs < MaxInputs /\ inputs' = inputs + 1 /\ view' = ScrollToBottom(view, rows)
        /\ unreadMessageCount' = 0 /\ (toShow' = 0 \/ (rows > 1 /\ toShow' = rows - 1))
        /\ UNCHANGED <<rows, checks, follows, jumps>> /\ NotShrunk
    BY <1>3 DEF OnNewMessageNotifierClicked
  <2>2. inputs' \in 0..MaxInputs /\ toShow' \in 0..MaxRows
    BY <1>1, <2>1, SizesAreNumbers
  <2> QED
    BY <1>1, <2>1, <2>2, ShowsBottom
<1>4. CASE FollowTimer
  <2>1. /\ follows > 0 /\ follows' = follows - 1 /\ view' = ScrollToBottom(view, rows) /\ OnScrollValueChanged
        /\ StillToShow /\ UNCHANGED <<rows, checks, inputs, jumps>> /\ NotShrunk
    BY <1>4 DEF FollowTimer
  <2>2. follows' \in 0..MaxTimers /\ toShow' \in 0..MaxRows
    BY <1>1, <2>1, SizesAreNumbers, ToShowStays
  <2> QED
    BY <1>1, <2>1, <2>2, ShowsBottom
<1> QED
  BY <1>2, <1>3, <1>4

(* The view moves, by itself or because of the user, and tells the area.   *)
LEMMA ViewMoves ==
  ASSUME ScrollInv, DelayedLayout \/ CheckTimer \/ AnimationStep \/ WheelEvent \/ Drag,
         OnScrollValueChanged, StillToShow \/ NothingToShow, UNCHANGED <<follows, jumps>>, NotShrunk
  PROVE  ScrollInv'
<1>1. /\ ScrollTypeOK /\ BarInv /\ unreadMessageCount \in Nat /\ shrunk \in BOOLEAN /\ rows \in 0..MaxRows
      /\ follows \in 0..MaxTimers /\ jumps \in 0..MaxTimers
  BY DEF ScrollInv, ChatScrollTypeOK, ScrollTypeOK
<1>2. /\ ScrollTypeOK' /\ BarInv' /\ rows' = rows
      /\ view'.max = view.max \/ view'.max = Excess(rows)
  BY <1>1, ViewSteps
<1>3. /\ view.max \in Nat /\ view.value \in Nat /\ view'.max \in Nat /\ view'.value \in Nat
      /\ view'.value <= view'.max /\ Excess(rows) \in Nat
  BY <1>1, <1>2, ViewFields, ExcessIsPosition DEF ScrollTypeOK, BarInv, ViewOK, Positions
<1>4. shrunk' = (shrunk /\ (unreadMessageCount' > 0 \/ view'.max > Excess(rows'))) /\ shrunk' \in BOOLEAN
  BY <1>1 DEF NotShrunk, Unannounced
<1>5. unreadMessageCount' \in Nat
  BY <1>1 DEF OnScrollValueChanged
<1>6. /\ unreadMessageCount > 0 /\ ~shrunk => view.value < view.max
      /\ view.max > Excess(rows) => shrunk
  BY DEF ScrollInv, UnreadInv
<1>7. ASSUME unreadMessageCount' > 0, ~shrunk' PROVE view'.value < view'.max
  <2>1. ~shrunk
    BY <1>4, <1>7
  <2>2. /\ unreadMessageCount > 0
        /\ view'.value # view.value => ~IsScrollAtBottom(view')
    BY <1>7 DEF OnScrollValueChanged
  <2>3. view.value < view.max /\ view.max <= Excess(rows)
    BY <1>3, <1>6, <2>1, <2>2
  <2> QED
    BY <1>2, <1>3, <2>2, <2>3 DEF IsScrollAtBottom
<1>8. view'.max > Excess(rows') => shrunk'
  <2>1. view'.max > Excess(rows') => view.max > Excess(rows)
    BY <1>2, <1>3
  <2>2. shrunk /\ view'.max > Excess(rows') => shrunk'
    BY <1>4, Zenon
  <2> QED
    BY <1>6, <2>1, <2>2
<1>9. toShow' \in 0..MaxRows
  BY ToShowStays
<1> QED
  BY <1>1, <1>2, <1>4, <1>5, <1>7, <1>8, <1>9 DEF ScrollInv, ChatScrollTypeOK, UnreadInv

LEMMA MoveStep ==
  ASSUME ScrollInv, ChatDelayedLayout \/ ChatCheckTimer \/ ChatAnimationStep \/ UserScrolls
  PROVE  ScrollInv'
BY ViewMoves DEF ChatDelayedLayout, ChatCheckTimer, ChatAnimationStep, UserScrolls, OnScroll

LEMMA ScrollInductive == ChatScrollSpec => []ScrollInv
<1>1. ChatScrollInit => ScrollInv
  BY ScrollInitially
<1>2. ScrollInv /\ [ChatScrollNext]_chatScrollVars => ScrollInv'
  <2> SUFFICES ASSUME ScrollInv, [ChatScrollNext]_chatScrollVars PROVE ScrollInv'
    OBVIOUS
  <2>1. CASE UNCHANGED chatScrollVars
    <3>1. UNCHANGED <<view, rows, checks, inputs, unreadMessageCount, follows, jumps, toShow, shrunk>>
      BY <2>1 DEF chatScrollVars, scrollVars
    <3> QED
      BY <3>1 DEF ScrollInv, ChatScrollTypeOK, ScrollTypeOK, BarInv, UnreadInv
  <2> QED
    BY <2>1, ReceivedStep, SendStep, RemovedStep, BottomStep, MoveStep DEF ChatScrollNext
<1> QED
  BY <1>1, <1>2, PTL DEF ChatScrollSpec

(* ChatArea with ChatListView (ChatArea.cpp, ChatListView.cpp): for any    *)
(* size of the view and the messages, and any order of messages, timers,   *)
(* layouts, animations and the user's scrolling, the three positions agree *)
(* when nothing moves, and the notice about unread messages is shown only  *)
(* while the end of the conversation is out of the view, unless rows were  *)
(* removed.                                                                *)
THEOREM NoticeFollowsView == ChatScrollSpec => []ViewIsTold
<1>1. ScrollInv => ViewIsTold
  <2> SUFFICES ASSUME ScrollInv PROVE ViewIsTold
    OBVIOUS
  <2>1. ChatScrollTypeOK /\ BarInv /\ UnreadInv
    BY DEF ScrollInv
  <2>2. view.max \in Nat /\ view.value \in Nat
    BY <2>1, ViewFields DEF ChatScrollTypeOK, ScrollTypeOK, Positions
  <2> QED
    BY <2>1, <2>2, BarIsFollowed DEF UnreadInv, ViewIsTold, UnreadIsBelow, IsScrollAtBottom
<1> QED
  BY <1>1, ScrollInductive, PTL

(***************************************************************************)
(* Contacts: tables, lists, selection and badge.                           *)
(***************************************************************************)

(* A set of numbers has a least one, and what holds of 0 and of each next *)
(* number holds of all.                                                    *)
LEMMA LeastOf ==
  ASSUME NEW T \in SUBSET Nat, T # {}
  PROVE  \E x \in T : \A y \in T : x <= y
<1>1. PICK R : R = OpToRel(<, Nat)
  OBVIOUS
<1>2. \A x, y \in Nat : x < y => <<x, y>> \in R
  BY <1>1 DEF OpToRel
<1>3. IsWellFoundedOn(R, Nat)
  BY <1>1, NatLessThanWellFounded
<1>4. PICK x \in T : \A y \in T : ~ (<<y, x>> \in R)
  BY <1>3, WFMin
<1> QED
  <2> SUFFICES ASSUME NEW y \in T PROVE x <= y
    OBVIOUS
  <2>1. ~(y < x)
    BY <1>2, <1>4
  <2> QED
    BY <2>1

LEMMA Induction ==
  ASSUME NEW S, 0 \in S, \A n \in Nat : n \in S => n + 1 \in S
  PROVE  Nat \subseteq S
<1> DEFINE T == Nat \ S
<1>1. SUFFICES ASSUME T # {} PROVE FALSE
  OBVIOUS
<1>2. PICK x \in T : \A y \in T : x <= y
  BY <1>1, LeastOf
<1>3. x # 0 /\ x - 1 \in Nat /\ x - 1 \notin T
  BY <1>2
<1> QED
  BY <1>2, <1>3

Increasing(s, n) == \A i, j \in 1..n : i < j => s[i] < s[j]

(* A finite set of numbers can be listed in increasing order. *)
LEMMA OrderExists ==
  ASSUME NEW who \in SUBSET Nat, IsFiniteSet(who)
  PROVE  \E s \in [1..Cardinality(who) -> who] : Increasing(s, Cardinality(who))
<1> DEFINE Listed(W, n) == \E s \in [1..n -> W] : Increasing(s, n)
           S == {n \in Nat : \A W \in SUBSET Nat : IsFiniteSet(W) /\ Cardinality(W) = n => Listed(W, n)}
<1>1. 0 \in S
  <2>1. SUFFICES ASSUME NEW W \in SUBSET Nat PROVE Listed(W, 0)
    OBVIOUS
  <2>2. [i \in 1..0 |-> 0] \in [1..0 -> W]
    OBVIOUS
  <2>3. Increasing([i \in 1..0 |-> 0], 0)
    BY DEF Increasing
  <2> QED
    BY <2>2, <2>3
<1>2. ASSUME NEW n \in Nat, n \in S PROVE n + 1 \in S
  <2>1. SUFFICES ASSUME NEW W \in SUBSET Nat, IsFiniteSet(W), Cardinality(W) = n + 1 PROVE Listed(W, n + 1)
    OBVIOUS
  <2>2. W # {}
    BY <2>1, FS_EmptySet
  <2>3. PICK x \in W : \A y \in W : x <= y
    BY <2>2, LeastOf
  <2> DEFINE R == W \ {x}
  <2>4. IsFiniteSet(R) /\ Cardinality(R) = n
    <3>1. IsFiniteSet(W \ {x}) /\ Cardinality(W \ {x}) = Cardinality(W) - 1
      BY <2>1, FS_RemoveElement
    <3> QED
      BY <2>1, <3>1
  <2>5. PICK t \in [1..n -> R] : Increasing(t, n)
    BY <1>2, <2>4
  <2> DEFINE s == [i \in 1..(n + 1) |-> IF i = 1 THEN x ELSE t[i - 1]]
  <2>6. \A i \in 1..(n + 1) : i # 1 => i - 1 \in 1..n
    OBVIOUS
  <2>7. s \in [1..(n + 1) -> W]
    BY <2>6
  <2>8. Increasing(s, n + 1)
    <3> SUFFICES ASSUME NEW i \in 1..(n + 1), NEW j \in 1..(n + 1), i < j PROVE s[i] < s[j]
      BY DEF Increasing
    <3>1. j - 1 \in 1..n /\ s[j] = t[j - 1] /\ t[j - 1] \in R
      BY <2>6
    <3>2. CASE i = 1
      <4>1. s[i] = x
        BY <3>2
      <4>2. t[j - 1] \in Nat /\ x \in Nat /\ x <= t[j - 1] /\ t[j - 1] # x
        BY <3>1, <2>3
      <4>3. x < t[j - 1]
        BY <4>2
      <4> QED
        BY <3>1, <4>1, <4>3
    <3>3. CASE i # 1
      <4>1. i - 1 \in 1..n /\ s[i] = t[i - 1] /\ i - 1 < j - 1
        BY <3>3, <2>6
      <4> QED
        BY <3>1, <4>1, <2>5 DEF Increasing
    <3> QED
      BY <3>2, <3>3
  <2> QED
    BY <2>7, <2>8
<1>3. Nat \subseteq S
  <2> HIDE DEF S
  <2> QED
    BY <1>1, <1>2, Induction
<1>4. Cardinality(who) \in Nat
  BY FS_CardinalityType
<1> QED
  BY <1>3, <1>4

LEMMA InOrderFacts ==
  ASSUME NEW who \in SUBSET People
  PROVE  /\ InOrder(who) \in Seq(People) /\ Len(InOrder(who)) = Cardinality(who) /\ Cardinality(who) \in Nat
         /\ \A p \in People : p \in who <=> \E i \in DOMAIN InOrder(who) : InOrder(who)[i] = p
<1> DEFINE n == Cardinality(who)
<1>1. who \in SUBSET Nat /\ IsFiniteSet(who) /\ n \in Nat
  BY PeopleAssumption, FS_Subset, FS_CardinalityType
<1>2. PICK w : w = InOrder(who)
  OBVIOUS
<1>3. \E s \in [1..n -> who] : \A i, j \in 1..n : i < j => s[i] < s[j]
  BY <1>1, OrderExists DEF Increasing
<1>4. w \in [1..n -> who] /\ \A i, j \in 1..n : i < j => w[i] < w[j]
  BY <1>2, <1>3 DEF InOrder
<1>5. \A i, j \in 1..n : w[i] = w[j] => i = j
  <2> SUFFICES ASSUME NEW i \in 1..n, NEW j \in 1..n, w[i] = w[j], i # j PROVE FALSE
    OBVIOUS
  <2>1. w[i] \in Nat /\ w[j] \in Nat
    BY <1>4, <1>1
  <2>2. i < j \/ j < i
    BY <1>1
  <2> QED
    BY <2>1, <2>2, <1>4
<1>6. w \in Surjection(1..n, who)
  <2>1. w \in Injection(1..n, who)
    BY <1>4, <1>5 DEF Injection, IsInjective
  <2>2. IsFiniteSet(1..n) /\ Cardinality(1..n) = n
    BY <1>1, FS_Interval
  <2> QED
    BY <2>1, <2>2, <1>1, FS_Injection
<1>7. \A p \in who : \E i \in 1..n : w[i] = p
  BY <1>6 DEF Surjection
<1>8. w \in Seq(People) /\ Len(w) = n /\ DOMAIN w = 1..n
  <2>1. w \in [1..n -> People] /\ DOMAIN w = 1..n
    BY <1>4
  <2>2. w \in Seq(People)
    BY <2>1, <1>1, SeqDef
  <2> QED
    BY <2>1, <2>2, <1>1, LenProperties
<1>9. \A p \in People : p \in who <=> \E i \in DOMAIN w : w[i] = p
  BY <1>4, <1>7, <1>8
<1> QED
  <2>1. w \in Seq(People) /\ Len(w) = Cardinality(who) /\ Cardinality(who) \in Nat
    BY <1>1, <1>8
  <2> HIDE DEF n
  <2> QED
    BY <2>1, <1>2, <1>9

(* The tables and the connection to them, which a query of the users reads. *)
Tables == [users : SUBSET People, groups : [Groups -> Group]]
Connections == [rows : Tables, kept : Tables, open : BOOLEAN]
WholeGroups(tables) == \A g \in Groups : IsWhole(tables.groups[g])

(* What a statement of a reload, and a rollback after it, leave as it was. *)
Sound(c, who) ==
  /\ c \in Connections
  /\ c.open => c.kept = c.rows
  /\ WholeGroups(c.rows) /\ c.rows.users = who

LEMMA FailureTypes ==
  ASSUME NEW failure \in Failures
  PROVE  failure.what \in {"nothing", "user", "group", "member"} /\ failure.saved \subseteq People
  BY DEF Failures, NoFailure, UserFailures, GroupFailures

LEMMA Committed ==
  ASSUME NEW now, NEW before, NEW flag
  PROVE  Commit([rows |-> now, kept |-> before, open |-> flag]) = [rows |-> now, kept |-> before, open |-> FALSE]
<1>1. PICK c : c = [rows |-> now, kept |-> before, open |-> flag]
  OBVIOUS
<1>2. PICK f : f = FALSE /\ Commit(c) = [c EXCEPT !.open = f]
  BY DEF Commit
<1>3. [c EXCEPT !.open = f] = [rows |-> now, kept |-> before, open |-> f]
  BY <1>1
<1> QED
  BY <1>1, <1>2, <1>3

(* The rows of the members that an answer names, over those there were.    *)
LEMMA RowsWritten ==
  ASSUME NEW group \in Group, IsWhole(group), NEW rev \in Revisions
  PROVE  /\ [name |-> rev, members |-> group.members] \in Group
         /\ [name |-> rev, members |-> Written(group.members, rev)] \in Group
         /\ IsWhole([name |-> rev, members |-> Written(group.members, rev)])
<1>1. PICK x : x = group.members
  OBVIOUS
<1>2. x \in [Members -> Revisions \cup {Absent}] /\ group.name \in Revisions
  BY <1>1 DEF Group
<1>3. PICK w : w = Written(x, rev)
  OBVIOUS
<1>4. w = [m \in Members |-> IF m \in Membership[rev] THEN rev ELSE x[m]]
  BY <1>3 DEF Written
<1>5. w \in [Members -> Revisions \cup {Absent}]
  BY <1>2, <1>4
<1>6. PICK d : d = [name |-> rev, members |-> w]
  OBVIOUS
<1>7. d \in Group /\ d.name = rev /\ d.members = w
  BY <1>5, <1>6 DEF Group
<1>8. [name |-> rev, members |-> x] \in Group
  BY <1>2 DEF Group
<1>9. \A m \in Members : IF m \in Membership[rev] THEN w[m] = rev ELSE w[m] # Absent => m \in Membership[w[m]]
  <2> SUFFICES ASSUME NEW m \in Members, m \notin Membership[rev], x[m] # Absent
               PROVE  m \in Membership[x[m]]
    BY <1>4
  <2>1. IF m \in Membership[group.name] THEN x[m] = group.name ELSE x[m] # Absent => m \in Membership[x[m]]
    BY <1>1 DEF IsWhole
  <2> QED
    BY <2>1
<1>10. IsWhole(d)
  BY <1>7, <1>9 DEF IsWhole
<1> QED
  BY <1>1, <1>3, <1>6, <1>7, <1>8, <1>10

LEMMA GroupInserted ==
  ASSUME NEW c, NEW who, Sound(c, who), NEW g \in Groups, NEW rev \in Revisions, NEW failure \in Failures
  PROVE  Sound(InsertGroup(c, g, rev, failure), who) /\ ~InsertGroup(c, g, rev, failure).open
<1>1. c \in [rows : Tables, kept : Tables, open : BOOLEAN] /\ WholeGroups(c.rows) /\ c.rows.users = who
      /\ (c.open => c.kept = c.rows)
  BY DEF Sound, Connections
<1>2. PICK b : b = Begin(c)
  OBVIOUS
<1>3. b \in [rows : Tables, kept : Tables, open : BOOLEAN] /\ b.open /\ b.rows = c.rows /\ b.kept = c.rows
  BY <1>1, <1>2 DEF Begin
<1>4. PICK r : r = c.rows
  OBVIOUS
<1>5. r \in Tables /\ r.users = who /\ \A h \in Groups : IsWhole(r.groups[h])
  BY <1>1, <1>4 DEF WholeGroups
<1>a. PICK o, x, w : o = r.groups[g] /\ x = o.members /\ w = Written(x, rev)
  OBVIOUS
<1>b. o \in Group /\ x \in [Members -> Revisions \cup {Absent}] /\ o = [name |-> o.name, members |-> x]
  BY <1>5, <1>a DEF Tables, Group
<1>c. /\ [name |-> rev, members |-> x] \in Group /\ [name |-> rev, members |-> w] \in Group
      /\ IsWhole([name |-> rev, members |-> w])
  BY <1>5, <1>a, <1>b, RowsWritten
<1> DEFINE nr == [r EXCEPT !.groups[g].name = rev]
           wr == [nr EXCEPT !.groups[g].members = w]
<1>6. /\ nr \in Tables /\ nr.users = who
      /\ nr.groups = [r.groups EXCEPT ![g] = [name |-> rev, members |-> x]]
  <2>1. [r.groups[g] EXCEPT !.name = rev] = [name |-> rev, members |-> x]
    BY <1>a, <1>b
  <2>2. nr = [r EXCEPT !.groups = [r.groups EXCEPT ![g] = [name |-> rev, members |-> x]]]
    BY <2>1, <1>5 DEF Tables
  <2> HIDE DEF nr
  <2> QED
    BY <2>2, <1>5, <1>c DEF Tables
<1>7. /\ wr \in Tables /\ wr.users = who
      /\ wr.groups = [r.groups EXCEPT ![g] = [name |-> rev, members |-> w]]
  <2>1. PICK n : n = nr
    OBVIOUS
  <2>2. n \in Tables /\ n.users = who /\ n.groups = [r.groups EXCEPT ![g] = [name |-> rev, members |-> x]]
    BY <2>1, <1>6
  <2>3. n.groups[g] = [name |-> rev, members |-> x]
    BY <2>2, <1>5 DEF Tables
  <2>4. [n.groups[g] EXCEPT !.members = w] = [name |-> rev, members |-> w]
    BY <2>3
  <2>5. wr = [n EXCEPT !.groups[g].members = w]
    BY <2>1
  <2> HIDE DEF nr, wr
  <2>6. wr = [n EXCEPT !.groups = [n.groups EXCEPT ![g] = [name |-> rev, members |-> w]]]
    BY <2>2, <2>4, <2>5 DEF Tables
  <2>7. [n.groups EXCEPT ![g] = [name |-> rev, members |-> w]] = [r.groups EXCEPT ![g] = [name |-> rev, members |-> w]]
    BY <2>2, <1>5 DEF Tables
  <2> QED
    BY <2>2, <2>6, <2>7, <1>5, <1>c DEF Tables
<1>8. WholeGroups(wr)
  <2> HIDE DEF wr
  <2>1. \A h \in Groups : wr.groups[h] = IF h = g THEN [name |-> rev, members |-> w] ELSE r.groups[h]
    BY <1>5, <1>7 DEF Tables
  <2> QED
    BY <1>5, <1>c, <2>1 DEF WholeGroups
<1> DEFINE named == [b EXCEPT !.rows.groups[g].name = rev]
           whole == [named EXCEPT !.rows.groups[g].members = w]
<1>9. named = [rows |-> nr, kept |-> r, open |-> TRUE]
  <2>1. b = [rows |-> r, kept |-> r, open |-> TRUE]
    BY <1>3, <1>4
  <2>2. named = [b EXCEPT !.rows = [b.rows EXCEPT !.groups[g].name = rev]]
    BY <1>3
  <2>3. named = [b EXCEPT !.rows = nr]
    BY <2>1, <2>2
  <2> HIDE DEF named, nr
  <2> QED
    BY <2>1, <2>3
<1>10. whole = [rows |-> wr, kept |-> r, open |-> TRUE]
  <2>1. PICK n : n = named
    OBVIOUS
  <2>2. whole = [n EXCEPT !.rows.groups[g].members = w]
    BY <2>1
  <2>3. PICK m : m = nr
    OBVIOUS
  <2>4. n = [rows |-> m, kept |-> r, open |-> TRUE] /\ wr = [m EXCEPT !.groups[g].members = w]
    BY <1>9, <2>1, <2>3
  <2> HIDE DEF named, nr
  <2>5. whole = [n EXCEPT !.rows = [n.rows EXCEPT !.groups[g].members = w]]
    BY <2>2, <2>4
  <2>6. whole = [n EXCEPT !.rows = wr]
    BY <2>4, <2>5
  <2> HIDE DEF whole, wr
  <2> QED
    BY <2>4, <2>6
<1> HIDE DEF nr, wr
<1>11. InsertGroup(c, g, rev, failure) \in {Commit(whole), Rollback(b), Rollback(named)}
  <2>1. PICK n : n = named
    OBVIOUS
  <2>2. n.rows.groups[g].members = x
    <3>1. n.rows = nr
      BY <2>1, <1>9
    <3>2. nr.groups[g] = [name |-> rev, members |-> x]
      BY <1>5, <1>6 DEF Tables
    <3> QED
      BY <3>1, <3>2
  <2>3. [n EXCEPT !.rows.groups[g].members = Written(@, rev)] = [n EXCEPT !.rows.groups[g].members = Written(n.rows.groups[g].members, rev)]
    OBVIOUS
  <2>4. [n EXCEPT !.rows.groups[g].members = Written(@, rev)] = whole
    BY <2>1, <2>2, <2>3, <1>a
  <2> QED
    BY <1>2, <2>1, <2>4 DEF InsertGroup
<1> HIDE DEF named, whole
<1>12. Commit(whole) = [rows |-> wr, kept |-> r, open |-> FALSE]
  BY <1>10, Committed
<1>13. Rollback(b) = [rows |-> r, kept |-> r, open |-> FALSE]
  BY <1>3, <1>4 DEF Rollback
<1>14. Rollback(named) = [rows |-> r, kept |-> r, open |-> FALSE]
  BY <1>9 DEF Rollback
<1>15. PICK d : d = InsertGroup(c, g, rev, failure)
  OBVIOUS
<1>16. d = [rows |-> wr, kept |-> r, open |-> FALSE] \/ d = [rows |-> r, kept |-> r, open |-> FALSE]
  BY <1>11, <1>12, <1>13, <1>14, <1>15
<1>17. d \in Connections /\ ~d.open /\ (d.rows = r \/ d.rows = wr)
  <2>1. CASE d = [rows |-> wr, kept |-> r, open |-> FALSE]
    BY <2>1, <1>5, <1>7 DEF Connections
  <2>2. CASE d = [rows |-> r, kept |-> r, open |-> FALSE]
    BY <2>2, <1>5 DEF Connections
  <2> QED
    BY <1>16, <2>1, <2>2
<1> QED
  BY <1>1, <1>4, <1>5, <1>7, <1>8, <1>15, <1>17 DEF Sound

LEMMA GroupsLoaded ==
  ASSUME NEW c, NEW who, Sound(c, who), ~c.open, NEW answer, answer.revision \in Revisions, NEW failure \in Failures
  PROVE  Sound(LoadGroupsAndMembers(c, answer, failure), who) /\ ~LoadGroupsAndMembers(c, answer, failure).open
<1> DEFINE rev == answer.revision
           Next1(f, g) == IF g = 0 THEN Begin(c) ELSE InsertGroup(f[g - 1], g, rev, failure)
           S == {n \in Nat : \E f : f = [g \in 0..n |-> Next1(f, g)]}
<1>1. 0 \in S
  <2>1. PICK f : f = [g \in 0..0 |-> Begin(c)]
    OBVIOUS
  <2>2. [g \in 0..0 |-> Next1(f, g)] = f
    BY <2>1
  <2> QED
    BY <2>2
<1>2. ASSUME NEW n \in Nat, n \in S PROVE n + 1 \in S
  <2>1. PICK f : f = [g \in 0..n |-> Next1(f, g)]
    BY <1>2
  <2>2. PICK h : h = [g \in 0..(n + 1) |-> IF g = n + 1 THEN InsertGroup(f[n], n + 1, rev, failure) ELSE f[g]]
    OBVIOUS
  <2>3. \A g \in 0..(n + 1) : h[g] = Next1(h, g)
    <3> SUFFICES ASSUME NEW g \in 0..(n + 1) PROVE h[g] = Next1(h, g)
      OBVIOUS
    <3>1. CASE g = n + 1
      BY <3>1, <2>2
    <3>2. CASE g # n + 1
      <4>1. g \in 0..n /\ h[g] = f[g] /\ f[g] = Next1(f, g)
        BY <3>2, <2>1, <2>2
      <4>2. g # 0 => h[g - 1] = f[g - 1]
        BY <4>1, <2>2
      <4> QED
        BY <4>1, <4>2
    <3> QED
      BY <3>1, <3>2
  <2>4. h = [g \in 0..(n + 1) |-> h[g]]
    BY <2>2
  <2>5. h = [g \in 0..(n + 1) |-> Next1(h, g)]
    BY <2>3, <2>4
  <2> QED
    BY <2>5
<1>3. Nat \subseteq S
  <2> HIDE DEF S
  <2> QED
    BY <1>1, <1>2, Induction
<1>4. \E f : f = [g \in 0..GroupCount |-> Next1(f, g)]
  BY <1>3, BoundsAssumption
<1>5. PICK after : /\ after = [g \in 0..GroupCount |-> Next1(after, g)]
                   /\ LoadGroupsAndMembers(c, answer, failure) = Commit(after[GroupCount])
  BY <1>4 DEF LoadGroupsAndMembers
<1> DEFINE T == {n \in Nat : n \in 0..GroupCount => Sound(after[n], who)}
<1>6. 0 \in T
  BY <1>5 DEF Sound, Begin, Connections
<1>7. ASSUME NEW n \in Nat, n \in T PROVE n + 1 \in T
  <2>1. SUFFICES ASSUME n + 1 \in 0..GroupCount PROVE Sound(after[n + 1], who)
    OBVIOUS
  <2>2. n \in 0..GroupCount /\ n + 1 \in Groups /\ n + 1 # 0 /\ (n + 1) - 1 = n
    BY <2>1, BoundsAssumption DEF Groups
  <2>3. after[n + 1] = InsertGroup(after[n], n + 1, rev, failure)
    BY <2>1, <2>2, <1>5
  <2>4. Sound(after[n], who)
    BY <1>7, <2>2
  <2> QED
    BY <2>2, <2>3, <2>4, GroupInserted
<1>8. Nat \subseteq T
  <2> HIDE DEF T
  <2> QED
    BY <1>6, <1>7, Induction
<1>9. PICK d : d = after[GroupCount]
  OBVIOUS
<1>10. Sound(d, who)
  BY <1>8, <1>9, BoundsAssumption
<1>11. Commit(d) \in Connections /\ ~Commit(d).open /\ Commit(d).rows = d.rows
  BY <1>10 DEF Commit, Sound, Connections
<1> QED
  BY <1>5, <1>9, <1>10, <1>11 DEF Sound

LEMMA UsersLoaded ==
  ASSUME NEW c \in Connections, ~c.open, WholeGroups(c.rows),
         NEW answer, answer.friends \subseteq People, NEW failure \in Failures
  PROVE  \E who \in SUBSET People : 
           /\ Sound(LoadUserAndContacts(c, answer, failure), who) /\ ~LoadUserAndContacts(c, answer, failure).open
           /\ who = IF failure.what = "user" THEN c.rows.users ELSE c.rows.users \cup answer.friends
<1> DEFINE b == Begin(c)
           saved == IF failure.what = "user" THEN answer.friends \cap failure.saved ELSE answer.friends
           nr == [c.rows EXCEPT !.users = c.rows.users \cup saved]
           written == [b EXCEPT !.rows.users = @ \cup saved]
<1>1. c \in [rows : Tables, kept : Tables, open : BOOLEAN] /\ saved \subseteq People
  BY DEF Connections
<1>2. b = [rows |-> c.rows, kept |-> c.rows, open |-> TRUE]
  BY <1>1 DEF Begin
<1>3. nr \in Tables /\ nr.users = c.rows.users \cup saved /\ nr.groups = c.rows.groups
  BY <1>1 DEF Tables
<1>4. written = [rows |-> nr, kept |-> c.rows, open |-> TRUE]
  <2>1. PICK e : e = b
    OBVIOUS
  <2>2. e = [rows |-> c.rows, kept |-> c.rows, open |-> TRUE]
    BY <1>2, <2>1
  <2>3. written = [e EXCEPT !.rows = [e.rows EXCEPT !.users = e.rows.users \cup saved]]
    BY <2>1, <2>2
  <2> HIDE DEF b, saved
  <2>4. written = [e EXCEPT !.rows = nr]
    BY <2>2, <2>3
  <2> HIDE DEF written, nr
  <2> QED
    BY <2>2, <2>4
<1>5. LoadUserAndContacts(c, answer, failure) = IF failure.what = "user" THEN Rollback(written) ELSE Commit(written)
  BY DEF LoadUserAndContacts
<1> HIDE DEF written, nr, b
<1>6. Rollback(written) = [rows |-> c.rows, kept |-> c.rows, open |-> FALSE]
  BY <1>4 DEF Rollback
<1>7. Commit(written) = [rows |-> nr, kept |-> c.rows, open |-> FALSE]
  BY <1>4, Committed
<1>8. PICK d : d = LoadUserAndContacts(c, answer, failure)
  OBVIOUS
<1>9. CASE failure.what = "user"
  <2>1. d = [rows |-> c.rows, kept |-> c.rows, open |-> FALSE]
    BY <1>5, <1>6, <1>8, <1>9
  <2>2. d \in Connections /\ ~d.open /\ d.rows = c.rows
    BY <2>1, <1>1 DEF Connections
  <2>3. Sound(d, c.rows.users) /\ c.rows.users \in SUBSET People
    BY <2>2, <1>1 DEF Sound, Tables
  <2> QED
    BY <1>8, <1>9, <2>2, <2>3
<1>10. CASE failure.what # "user"
  <2>1. d = [rows |-> nr, kept |-> c.rows, open |-> FALSE]
    BY <1>5, <1>7, <1>8, <1>10
  <2>2. d \in Connections /\ ~d.open /\ d.rows = nr
    BY <2>1, <1>1, <1>3 DEF Connections
  <2>3. Sound(d, nr.users) /\ nr.users \in SUBSET People /\ nr.users = c.rows.users \cup answer.friends
    BY <2>2, <1>1, <1>3, <1>10 DEF Sound, Tables, WholeGroups
  <2> QED
    BY <1>8, <1>10, <2>2, <2>3
<1> QED
  BY <1>9, <1>10

LEMMA TablesLoaded ==
  ASSUME NEW c \in Connections, ~c.open, WholeGroups(c.rows),
         NEW answer \in GetType, NEW failure \in Failures
  PROVE  LET d == LoadGroupsAndMembers(LoadUserAndContacts(c, answer, failure), answer, failure)
         IN  /\ d \in Connections /\ ~d.open /\ WholeGroups(d.rows)
             /\ d.rows.users = IF failure.what = "user" THEN c.rows.users ELSE c.rows.users \cup answer.friends
<1>1. answer.friends \subseteq People /\ answer.revision \in Revisions
  BY DEF GetType
<1>2. PICK e : e = LoadUserAndContacts(c, answer, failure)
  OBVIOUS
<1>3. PICK who \in SUBSET People : Sound(e, who) /\ ~e.open
      /\ who = IF failure.what = "user" THEN c.rows.users ELSE c.rows.users \cup answer.friends
  BY <1>1, <1>2, UsersLoaded
<1>4. PICK d : d = LoadGroupsAndMembers(e, answer, failure)
  OBVIOUS
<1>5. Sound(d, who) /\ ~d.open
  BY <1>1, <1>3, <1>4, GroupsLoaded
<1>6. d \in Connections /\ ~d.open /\ WholeGroups(d.rows) /\ d.rows.users = who
  BY <1>5 DEF Sound
<1> QED
  BY <1>2, <1>3, <1>4, <1>6

(* The messages of a wire about a person. *)
About(m, types, p)   == m.type \in types /\ m.person = p
Holds(w, types, p)   == \E i \in 1..Len(w) : About(w[i], types, p)
AtMostOne(w, types, p) == \A i, j \in 1..Len(w) : About(w[i], types, p) /\ About(w[j], types, p) => i = j

Announced(p) == Holds(down, {"friend_request_received"}, p)
Told(p)      == Holds(up, MessageTypes, p)
Reported(p)  == Holds(down, {"accepted", "friend_request_result accept"}, p)

(* The rows of the users are those of the answers that were loaded.        *)
KnownInv == db.rows.users = known

DbInv == ~db.open /\ WholeGroups(db.rows)

(* A request is announced before it is answered and answered once.         *)
RequestInv(p) ==
  /\ Announced(p) => p \in asking /\ status[p] = "none"
  /\ Told(p) => p \in asking /\ status[p] \in {"Accepted", "Rejected"}
  /\ AtMostOne(up, MessageTypes, p)
  /\ AtMostOne(down, {"friend_request_received"}, p)
  /\ status[p] = "Pending" => p \in asking /\ ~Told(p)
  /\ p \in unseen => status[p] # "none"

AskInv == \A p \in People : RequestInv(p)

(* A handler for each reload, and no reload beside another one.            *)
HandlersInv ==
  /\ handlers <= started
  /\ faults = 0 => link
  /\ ~overlapped => /\ handlers <= 1
                    /\ \A n \in Gets : gets[n] # NoGet => handlers = 1
                    /\ \A n, m \in Gets : gets[n] # NoGet /\ gets[m] # NoGet => n = m

UsersShown == \A p \in People : p \in db.rows.users <=> \E i \in DOMAIN users : users[i] = p

(* A friend is in the tables, or news of him is under way.                 *)
Tidings(p) ==
  \/ p \in db.rows.users
  \/ Reported(p)
  \/ \E n \in Gets : gets[n].state = "sent" \/ (gets[n].state = "answered" /\ p \in gets[n].friends)

ListedInv == faults = 0 /\ ~overlapped => \A p \in friends : Tidings(p)

ContactsInv ==
  /\ TypeOK /\ KnownInv /\ DbInv /\ AskInv /\ HandlersInv /\ UsersShown /\ ListedInv
  /\ SelectionIsClicked /\ UnseenAreCounted

LEMMA MailAppended ==
  ASSUME NEW w \in Seq(Mail), NEW m \in Mail, NEW types, NEW p
  PROVE  /\ Append(w, m) \in Seq(Mail)
         /\ Holds(Append(w, m), types, p) <=> Holds(w, types, p) \/ About(m, types, p)
         /\ AtMostOne(w, types, p) /\ (About(m, types, p) => ~Holds(w, types, p)) => AtMostOne(Append(w, m), types, p)
<1>1. PICK v : v = Append(w, m)
  OBVIOUS
<1>2. /\ v \in Seq(Mail) /\ Len(v) = Len(w) + 1 /\ Len(w) \in Nat
      /\ (\A i \in 1..Len(w) : v[i] = w[i]) /\ v[Len(w) + 1] = m
  BY <1>1, AppendFacts
<1>3. \A i \in 1..Len(v) : i = Len(w) + 1 \/ i \in 1..Len(w)
  BY <1>2
<1>4. Len(w) + 1 \in 1..Len(v) /\ \A i \in 1..Len(w) : i \in 1..Len(v)
  BY <1>2
<1>5. Holds(v, types, p) <=> Holds(w, types, p) \/ About(m, types, p)
  BY <1>2, <1>3, <1>4 DEF Holds
<1>6. AtMostOne(w, types, p) /\ (About(m, types, p) => ~Holds(w, types, p)) => AtMostOne(v, types, p)
  BY <1>2, <1>3 DEF Holds, AtMostOne
<1> QED
  BY <1>1, <1>2, <1>5, <1>6

LEMMA MailTaken ==
  ASSUME NEW w \in Seq(Mail), w # <<>>, NEW types, NEW p
  PROVE  /\ Tail(w) \in Seq(Mail) /\ Head(w) \in Mail
         /\ Holds(w, types, p) <=> Holds(Tail(w), types, p) \/ About(Head(w), types, p)
         /\ AtMostOne(w, types, p) => AtMostOne(Tail(w), types, p) /\ (About(Head(w), types, p) => ~Holds(Tail(w), types, p))
<1>1. PICK v, h : v = Tail(w) /\ h = Head(w)
  OBVIOUS
<1>2. /\ v \in Seq(Mail) /\ Len(v) = Len(w) - 1 /\ Len(w) \in Nat \ {0}
      /\ (\A i \in 1..Len(v) : v[i] = w[i + 1]) /\ h = w[1] /\ h \in Mail
  BY <1>1, TailFacts
<1>3. \A i \in 1..Len(w) : i = 1 \/ (i - 1 \in 1..Len(v) /\ w[i] = v[i - 1])
  BY <1>2
<1>4. 1 \in 1..Len(w) /\ \A i \in 1..Len(v) : i + 1 \in 1..Len(w) /\ i + 1 # 1
  BY <1>2
<1>5. Holds(w, types, p) <=> Holds(v, types, p) \/ About(h, types, p)
  BY <1>2, <1>3, <1>4 DEF Holds
<1>6. ASSUME AtMostOne(w, types, p)
      PROVE  AtMostOne(v, types, p) /\ (About(h, types, p) => ~Holds(v, types, p))
  <2>1. \A i, j \in 1..Len(v) : i + 1 = j + 1 => i = j
    BY <1>2
  <2>2. AtMostOne(v, types, p)
    BY <1>2, <1>4, <1>6, <2>1 DEF AtMostOne
  <2>3. About(h, types, p) => ~Holds(v, types, p)
    BY <1>2, <1>4, <1>6 DEF AtMostOne, Holds
  <2> QED
    BY <2>2, <2>3
<1> QED
  BY <1>1, <1>2, <1>5, <1>6

(* A message to or from the server, on a socket that may be closed.        *)
LEMMA MailSent ==
  ASSUME NEW w \in Seq(Mail), NEW m \in Mail, NEW open, NEW v, v = IF open THEN Append(w, m) ELSE w
  PROVE  /\ v \in Seq(Mail)
         /\ \A types, p : /\ Holds(v, types, p) => Holds(w, types, p) \/ About(m, types, p)
                          /\ Holds(w, types, p) => Holds(v, types, p)
                          /\ open /\ About(m, types, p) => Holds(v, types, p)
                          /\ AtMostOne(w, types, p) /\ (About(m, types, p) => ~Holds(w, types, p)) => AtMostOne(v, types, p)
<1>1. CASE open
  BY <1>1, MailAppended
<1>2. CASE ~open
  BY <1>2
<1> QED
  BY <1>1, <1>2

LEMMA NoMail ==
  \A types, p : ~Holds(<<>>, types, p) /\ AtMostOne(<<>>, types, p)
  BY EmptySeq, LenProperties DEF Holds, AtMostOne

LEMMA MailTypes ==
  ASSUME NEW type \in MessageTypes, NEW p \in People
  PROVE  /\ Message(type, p) \in Mail
         /\ \A types, q : About(Message(type, p), types, q) <=> (type \in types /\ p = q)
  BY DEF Message, Mail, About

LEMMA TableTypes == TypeOK => db \in Connections /\ gets \in [Gets -> GetType]
  BY DEF TypeOK, Connections, Tables, Rows

(* A reply that finds a handler.                                           *)
LEMMA RepliesTaken ==
  ASSUME ContactsInv, NEW n \in Gets, OnFinished(n)
  PROVE  \/ handlers = 0 /\ UNCHANGED <<db, users, selectedIndex, clicked, faults, known>>
         \/ /\ handlers > 0
            /\ db' \in Connections /\ ~db'.open /\ WholeGroups(db'.rows)
            /\ faults' \in 0..MaxFaults /\ faults <= faults'
            /\ db'.rows.users = db.rows.users \cup gets[n].friends \/ (db'.rows.users = db.rows.users /\ faults' # 0)
            /\ db'.rows.users = known'
            /\ users' = InOrder(db'.rows.users) /\ selectedIndex' = 0 /\ clicked' = 0
<1>1. CASE handlers = 0
  BY <1>1 DEF OnFinished, lists
<1>2. CASE handlers # 0
  <2>1. db \in Connections /\ ~db.open /\ WholeGroups(db.rows) /\ gets[n] \in GetType
        /\ faults \in 0..MaxFaults /\ handlers \in Nat
    BY TableTypes DEF ContactsInv, DbInv, TypeOK
  <2>2. handlers > 0 /\ ReloadUsers
    BY <1>2, <2>1 DEF OnFinished
  <2>3. PICK failure \in Failures :
          /\ failure # NoFailure => faults < MaxFaults
          /\ faults' = IF failure = NoFailure THEN faults ELSE faults + 1
          /\ db' = LoadGroupsAndMembers(LoadUserAndContacts(db, gets[n], failure), gets[n], failure)
          /\ known' = IF failure.what = "user" THEN known ELSE known \cup gets[n].friends
    BY <1>2 DEF OnFinished
  <2>4. PICK d : d = LoadGroupsAndMembers(LoadUserAndContacts(db, gets[n], failure), gets[n], failure)
    OBVIOUS
  <2>5. /\ d \in Connections /\ ~d.open /\ WholeGroups(d.rows)
        /\ d.rows.users = IF failure.what = "user" THEN db.rows.users ELSE db.rows.users \cup gets[n].friends
    BY <2>1, <2>4, TablesLoaded
  <2>6. db' = d
    BY <2>3, <2>4
  <2>7. failure.what = "user" => failure # NoFailure
    BY DEF NoFailure
  <2>8. faults' \in 0..MaxFaults /\ faults <= faults' /\ (failure # NoFailure => faults' # 0)
    BY <2>1, <2>3, BoundsAssumption
  <2>9. db'.rows.users = db.rows.users \cup gets[n].friends \/ (db'.rows.users = db.rows.users /\ faults' # 0)
    <3>1. d.rows.users = db.rows.users \cup gets[n].friends \/ (d.rows.users = db.rows.users /\ failure.what = "user")
      BY <2>5
    <3>2. failure.what = "user" => faults' # 0
      BY <2>7, <2>8
    <3> QED
      BY <2>6, <3>1, <3>2
  <2>10. users' = InOrder(db'.rows.users) /\ selectedIndex' = 0 /\ clicked' = 0
    BY <2>2 DEF ReloadUsers
  <2>11. db'.rows.users = known'
    BY <2>3, <2>5, <2>6 DEF ContactsInv, KnownInv
  <2> QED
    BY <2>2, <2>5, <2>6, <2>8, <2>9, <2>10, <2>11
<1> QED
  BY <1>1, <1>2

LEMMA UserRows ==
  ASSUME NEW c \in Connections
  PROVE  c.rows.users \in SUBSET People
  BY DEF Connections, Tables

LEMMA TablesStep ==
  ASSUME ContactsInv, [Next]_vars
  PROVE  DbInv' /\ UsersShown' /\ SelectionIsClicked'
<1>1. DbInv /\ UsersShown /\ SelectionIsClicked /\ users \in Seq(People)
  BY DEF ContactsInv, TypeOK
<1>2. CASE UNCHANGED <<db, users, selectedIndex, clicked>>
  BY <1>1, <1>2 DEF DbInv, UsersShown, SelectionIsClicked
<1>3. ASSUME NEW n \in Gets, OnFinished(n)
      PROVE  DbInv' /\ UsersShown' /\ SelectionIsClicked'
  <2>1. CASE db' \in Connections /\ ~db'.open /\ WholeGroups(db'.rows) /\ users' = InOrder(db'.rows.users) /\ selectedIndex' = 0
    <3>1. PICK d : d = db'
      OBVIOUS
    <3>2. d \in Connections /\ ~d.open /\ WholeGroups(d.rows) /\ users' = InOrder(d.rows.users)
      BY <2>1, <3>1
    <3>3. \A p \in People : p \in d.rows.users <=> \E i \in DOMAIN users' : users'[i] = p
      BY <3>2, UserRows, InOrderFacts
    <3> QED
      BY <2>1, <3>1, <3>3 DEF DbInv, UsersShown, SelectionIsClicked
  <2> QED
    BY <1>2, <1>3, <2>1, RepliesTaken
<1>4. ASSUME NEW k, OnItemClicked(k)
      PROVE  DbInv' /\ UsersShown' /\ SelectionIsClicked'
  BY <1>1, <1>4 DEF OnItemClicked, SetSelectedIndex, DbInv, UsersShown, SelectionIsClicked
<1>5. CASE UNCHANGED vars
  BY <1>2, <1>5 DEF vars, lists
<1>6. ASSUME NEW p \in People,
             PersonAsks(p) \/ PersonAnswers(p) \/ FriendLeaves(p) \/ Accept(p) \/ Reject(p) \/ TimerFires(p)
      PROVE  UNCHANGED <<db, users, selectedIndex, clicked>>
  BY <1>6 DEF PersonAsks, PersonAnswers, FriendLeaves, Accept, Reject, TimerFires, lists
<1>7. ASSUME NEW n \in Gets, ServerAnswers(n) \/ OnFinishedWithError(n)
      PROVE  UNCHANGED <<db, users, selectedIndex, clicked>>
  BY <1>7 DEF ServerAnswers, OnFinishedWithError, lists
<1>8. ASSUME ServerHandles \/ GroupsChange \/ LinkLost \/ OnWssTextMessage
             \/ OnGroupNotificationClicked \/ OnFriendNotificationClicked
      PROVE  UNCHANGED <<db, users, selectedIndex, clicked>>
  BY <1>8 DEF ServerHandles, GroupsChange, LinkLost, OnWssTextMessage, OnGroupNotificationClicked,
     OnFriendNotificationClicked, lists
<1> QED
  BY <1>2, <1>3, <1>4, <1>5, <1>6, <1>7, <1>8 DEF Next, ServerStep, UserStep, EventStep

LEMMA KnownStep ==
  ASSUME ContactsInv, [Next]_vars
  PROVE  KnownInv'
<1>1. KnownInv
  BY DEF ContactsInv
<1>2. CASE UNCHANGED <<db, known>>
  BY <1>1, <1>2 DEF KnownInv
<1>3. ASSUME NEW n \in Gets, OnFinished(n)
      PROVE  KnownInv'
  <2>1. UNCHANGED <<db, known>> \/ db'.rows.users = known'
    BY <1>3, RepliesTaken
  <2> QED
    BY <1>2, <2>1 DEF KnownInv
<1>4. ASSUME NEW p \in People,
             PersonAsks(p) \/ PersonAnswers(p) \/ FriendLeaves(p) \/ Accept(p) \/ Reject(p) \/ TimerFires(p)
      PROVE  KnownInv'
  BY <1>2, <1>4 DEF PersonAsks, PersonAnswers, FriendLeaves, Accept, Reject, TimerFires, history
<1>5. ASSUME NEW n \in Gets, ServerAnswers(n) \/ OnFinishedWithError(n)
      PROVE  KnownInv'
  BY <1>2, <1>5 DEF ServerAnswers, OnFinishedWithError, history
<1>6. ASSUME OnWssTextMessage
      PROVE  KnownInv'
  BY <1>2, <1>6 DEF OnWssTextMessage, OnFriendRequestReceived, history
<1>7. ASSUME ServerHandles \/ GroupsChange \/ LinkLost \/ OnGroupNotificationClicked \/ OnFriendNotificationClicked
             \/ (\E i \in 1..Cardinality(People) : OnItemClicked(i)) \/ UNCHANGED vars
      PROVE  KnownInv'
  BY <1>2, <1>7 DEF ServerHandles, GroupsChange, LinkLost, OnGroupNotificationClicked, OnFriendNotificationClicked,
     OnItemClicked, vars, history
<1> QED
  BY <1>3, <1>4, <1>5, <1>6, <1>7 DEF Next, ServerStep, UserStep, EventStep

LEMMA AskStep ==
  ASSUME ContactsInv, [Next]_vars
  PROVE  AskInv'
<1> DEFINE R == {"friend_request_received"}
<1>1. /\ AskInv /\ up \in Seq(Mail) /\ down \in Seq(Mail) /\ status \in [People -> {"none", "Pending", "Accepted", "Rejected"}]
      /\ link \in BOOLEAN
  BY DEF ContactsInv, TypeOK
<1>2. ASSUME UNCHANGED <<up, asking, status>>, unseen' \subseteq unseen,
             \A q \in People : (Announced(q)' => Announced(q)) /\ AtMostOne(down', R, q)
      PROVE  AskInv'
  <2> SUFFICES ASSUME NEW q \in People PROVE RequestInv(q)'
    BY DEF AskInv
  <2>1. RequestInv(q)
    BY <1>1 DEF AskInv
  <2>2. Told(q)' <=> Told(q)
    BY <1>2 DEF Told
  <2> QED
    BY <1>2, <2>1, <2>2 DEF RequestInv
<1>3. CASE UNCHANGED <<up, down, asking, status, unseen>>
  <2>1. \A q \in People : (Announced(q)' => Announced(q)) /\ AtMostOne(down', R, q)
    BY <1>1, <1>3 DEF AskInv, RequestInv, Announced
  <2> QED
    BY <1>2, <1>3, <2>1
<1>4. ASSUME NEW type \in MessageTypes \ R, NEW p \in People, ServerSends(Message(type, p))
      PROVE  \A q \in People : (Announced(q)' => Announced(q)) /\ AtMostOne(down', R, q)
  <2> SUFFICES ASSUME NEW q \in People PROVE (Announced(q)' => Announced(q)) /\ AtMostOne(down', R, q)
    OBVIOUS
  <2>1. RequestInv(q)
    BY <1>1 DEF AskInv
  <2>2. PICK m : m = Message(type, p)
    OBVIOUS
  <2>3. m \in Mail /\ ~About(m, R, q)
    BY <1>4, <2>2, MailTypes
  <2>4. PICK v : v = down'
    OBVIOUS
  <2>5. v = IF link THEN Append(down, m) ELSE down
    BY <1>4, <2>2, <2>4 DEF ServerSends
  <2>6. (Holds(v, R, q) => Holds(down, R, q)) /\ (AtMostOne(down, R, q) => AtMostOne(v, R, q))
    BY <1>1, <2>3, <2>5, MailSent
  <2> QED
    BY <2>1, <2>4, <2>6 DEF Announced, RequestInv
<1>5. ASSUME NEW p \in People, PersonAsks(p)
      PROVE  AskInv'
  <2> SUFFICES ASSUME NEW q \in People PROVE RequestInv(q)'
    BY DEF AskInv
  <2>1. RequestInv(q)
    BY <1>1 DEF AskInv
  <2>2. /\ p \notin asking /\ status[p] = "none" /\ asking' = asking \cup {p}
        /\ ServerSends(Message("friend_request_received", p)) /\ UNCHANGED <<up, status, unseen>>
    BY <1>5 DEF PersonAsks, views, history
  <2>3. PICK m, v : m = Message("friend_request_received", p) /\ v = down'
    OBVIOUS
  <2>4. m \in Mail /\ (About(m, R, q) <=> p = q)
    BY <2>3, MailTypes DEF MessageTypes
  <2>5. v = IF link THEN Append(down, m) ELSE down
    BY <2>2, <2>3 DEF ServerSends
  <2>6. p = q => ~Holds(down, R, q)
    BY <2>1, <2>2 DEF RequestInv, Announced
  <2>7. (Holds(v, R, q) => Holds(down, R, q) \/ p = q) /\ AtMostOne(v, R, q)
    BY <1>1, <2>1, <2>4, <2>5, <2>6, MailSent DEF RequestInv
  <2>8. Told(q)' <=> Told(q)
    BY <2>2 DEF Told
  <2>9. Announced(q)' => q \in asking' /\ status'[q] = "none"
    BY <2>1, <2>2, <2>3, <2>7 DEF RequestInv, Announced
  <2> QED
    BY <2>1, <2>2, <2>3, <2>7, <2>8, <2>9 DEF RequestInv
<1>6. ASSUME NEW p \in People, PersonAnswers(p)
      PROVE  AskInv'
  <2>1. UNCHANGED <<up, asking, status, unseen>>
    BY <1>6 DEF PersonAnswers, views, history
  <2>2. ServerSends(Message("friend_request_result accept", p)) \/ ServerSends(Message("friend_request_result reject", p))
    BY <1>6 DEF PersonAnswers
  <2>3. \A q \in People : (Announced(q)' => Announced(q)) /\ AtMostOne(down', R, q)
    BY <1>4, <2>2 DEF MessageTypes
  <2> QED
    BY <1>2, <2>1, <2>3
<1>7. ASSUME ServerHandles
      PROVE  AskInv'
  <2>1. PICK h : h = Head(up)
    OBVIOUS
  <2>2. /\ up # <<>> /\ up' = Tail(up) /\ asking' = asking \ {h.person} /\ UNCHANGED <<status, unseen>>
        /\ ServerSends(Message(IF h.type = "accept" THEN "accepted" ELSE "rejected", h.person))
    BY <1>7, <2>1 DEF ServerHandles, views, history
  <2>3. h \in Mail /\ h.person \in People /\ h.type \in MessageTypes
    BY <1>1, <2>1, <2>2, MailTaken DEF Mail
  <2>4. \A q \in People : (Announced(q)' => Announced(q)) /\ AtMostOne(down', R, q)
    BY <1>4, <2>2, <2>3 DEF MessageTypes
  <2> SUFFICES ASSUME NEW q \in People PROVE RequestInv(q)'
    BY DEF AskInv
  <2>5. RequestInv(q)
    BY <1>1 DEF AskInv
  <2>6. About(h, MessageTypes, q) <=> q = h.person
    BY <2>3 DEF About
  <2>7. /\ Told(q) <=> Told(q)' \/ q = h.person
        /\ AtMostOne(up', MessageTypes, q) /\ (q = h.person => ~Told(q)')
    BY <1>1, <2>1, <2>2, <2>5, <2>6, MailTaken DEF Told, RequestInv
  <2>8. q = h.person => status[q] \in {"Accepted", "Rejected"} /\ ~Announced(q)
    BY <2>5, <2>7 DEF RequestInv
  <2> QED
    BY <2>2, <2>4, <2>5, <2>7, <2>8 DEF RequestInv
<1>8. ASSUME LinkLost
      PROVE  AskInv'
  <2>1. up' = <<>> /\ down' = <<>> /\ UNCHANGED <<asking, status, unseen>>
    BY <1>8 DEF LinkLost, server, views, history
  <2> SUFFICES ASSUME NEW q \in People PROVE RequestInv(q)'
    BY DEF AskInv
  <2>2. RequestInv(q)
    BY <1>1 DEF AskInv
  <2> QED
    BY <2>1, <2>2, NoMail DEF RequestInv, Told, Announced
<1>9. ASSUME OnWssTextMessage
      PROVE  AskInv'
  <2>1. PICK h : h = Head(down)
    OBVIOUS
  <2>2. down # <<>> /\ down' = Tail(down) /\ UNCHANGED <<up, asking>>
    BY <1>9 DEF OnWssTextMessage, server
  <2>3. h \in Mail /\ h.person \in People
    BY <1>1, <2>1, <2>2, MailTaken DEF Mail
  <2>4. \A q \in People : (Announced(q)' => Announced(q)) /\ AtMostOne(down', R, q)
        /\ (About(h, R, q) => Announced(q) /\ ~Announced(q)')
    <3> SUFFICES ASSUME NEW q \in People PROVE (Announced(q)' => Announced(q)) /\ AtMostOne(down', R, q)
        /\ (About(h, R, q) => Announced(q) /\ ~Announced(q)')
      OBVIOUS
    <3>1. RequestInv(q)
      BY <1>1 DEF AskInv
    <3> QED
      BY <1>1, <2>1, <2>2, <3>1, MailTaken DEF Announced, RequestInv
  <2>5. CASE h.type = "friend_request_received"
    <3>1. /\ status' = [status EXCEPT ![h.person] = "Pending"]
          /\ unseen' = IF page = "friend" THEN unseen ELSE unseen \cup {h.person}
      BY <1>9, <2>1, <2>5 DEF OnWssTextMessage, OnFriendRequestReceived
    <3> SUFFICES ASSUME NEW q \in People PROVE RequestInv(q)'
      BY DEF AskInv
    <3>2. RequestInv(q) /\ (Told(q)' <=> Told(q))
      BY <1>1, <2>2 DEF AskInv, Told
    <3>3. CASE q = h.person
      <4>1. Announced(q) /\ ~Announced(q)'
        BY <2>4, <2>5, <3>3 DEF About
      <4>2. q \in asking /\ status[q] = "none" /\ ~Told(q)
        BY <3>2, <4>1 DEF RequestInv
      <4>3. status'[q] = "Pending"
        BY <1>1, <3>1, <3>3
      <4> QED
        BY <2>2, <2>4, <3>2, <4>1, <4>2, <4>3 DEF RequestInv
    <3>4. CASE q # h.person
      <4>1. status'[q] = status[q] /\ (q \in unseen' => q \in unseen)
        BY <1>1, <3>1, <3>4
      <4> QED
        BY <2>2, <2>4, <3>2, <4>1 DEF RequestInv
    <3> QED
      BY <3>3, <3>4
  <2>6. CASE h.type # "friend_request_received"
    <3>1. UNCHANGED <<status, unseen>>
      BY <1>9, <2>1, <2>6 DEF OnWssTextMessage, history
    <3> QED
      BY <1>2, <2>2, <2>4, <3>1
  <2> QED
    BY <2>5, <2>6
<1>10. ASSUME NEW p \in People, NEW type \in {"accept", "reject"}, NEW answer \in {"Accepted", "Rejected"},
              status[p] = "Pending", status' = [status EXCEPT ![p] = answer],
              SendWsMessage(Message(type, p)), UNCHANGED <<down, asking, unseen>>
       PROVE  AskInv'
  <2> SUFFICES ASSUME NEW q \in People PROVE RequestInv(q)'
    BY DEF AskInv
  <2>1. RequestInv(q)
    BY <1>1 DEF AskInv
  <2>2. PICK m, v : m = Message(type, p) /\ v = up'
    OBVIOUS
  <2>3. m \in Mail /\ (About(m, MessageTypes, q) <=> p = q)
    <3>1. type \in MessageTypes
      BY <1>10 DEF MessageTypes
    <3> QED
      BY <2>2, <3>1, MailTypes
  <2>4. v = IF link THEN Append(up, m) ELSE up
    BY <1>10, <2>2 DEF SendWsMessage
  <2>5. p = q => ~Holds(up, MessageTypes, q) /\ q \in asking
    BY <1>10, <2>1 DEF RequestInv, Told
  <2>6. (Holds(v, MessageTypes, q) => Holds(up, MessageTypes, q) \/ p = q) /\ AtMostOne(v, MessageTypes, q)
    BY <1>1, <2>1, <2>3, <2>4, <2>5, MailSent DEF RequestInv
  <2>7. Told(q)' => Told(q) \/ p = q
    BY <2>2, <2>6 DEF Told
  <2>8. Announced(q)' <=> Announced(q)
    BY <1>10 DEF Announced
  <2>9. CASE p = q
    <3>1. status'[q] = answer /\ status[q] = "Pending" /\ ~Announced(q)
      BY <1>1, <1>10, <2>1, <2>9 DEF RequestInv
    <3> QED
      BY <1>10, <2>1, <2>2, <2>5, <2>6, <2>8, <2>9, <3>1 DEF RequestInv
  <2>10. CASE p # q
    <3>1. status'[q] = status[q]
      BY <1>1, <1>10, <2>10
    <3>2. Told(q)' => Told(q)
      BY <2>7, <2>10
    <3> QED
      BY <1>10, <2>1, <2>2, <2>6, <2>8, <3>1, <3>2 DEF RequestInv
  <2> QED
    BY <2>9, <2>10
<1>11. ASSUME NEW p \in People, Accept(p) \/ Reject(p)
       PROVE  AskInv'
  BY <1>10, <1>11 DEF Accept, Reject, server, history
<1>12. ASSUME OnFriendNotificationClicked
       PROVE  AskInv'
  <2>1. UNCHANGED <<up, down, asking, status>> /\ unseen' \subseteq unseen
    BY <1>12 DEF OnFriendNotificationClicked, server, wires
  <2>2. \A q \in People : (Announced(q)' => Announced(q)) /\ AtMostOne(down', R, q)
    BY <1>1, <2>1 DEF AskInv, RequestInv, Announced
  <2> QED
    BY <1>2, <2>1, <2>2
<1>13. ASSUME NEW n \in Gets, ServerAnswers(n) \/ OnFinished(n) \/ OnFinishedWithError(n)
       PROVE  AskInv'
  BY <1>3, <1>13 DEF ServerAnswers, OnFinished, OnFinishedWithError, server, wires, views, history
<1>14. ASSUME NEW p \in People, TimerFires(p)
       PROVE  AskInv'
  BY <1>3, <1>14 DEF TimerFires, server, wires
<1>16. ASSUME NEW p \in People, FriendLeaves(p)
       PROVE  AskInv'
  BY <1>3, <1>16 DEF FriendLeaves, wires, views
<1>15. ASSUME GroupsChange \/ OnGroupNotificationClicked \/ (\E i \in 1..Cardinality(People) : OnItemClicked(i)) \/ UNCHANGED vars
       PROVE  AskInv'
  BY <1>3, <1>15 DEF GroupsChange, OnGroupNotificationClicked, OnItemClicked, vars, server, wires, views,
     history
<1> QED
  BY <1>5, <1>6, <1>7, <1>8, <1>9, <1>11, <1>12, <1>13, <1>14, <1>15, <1>16
  DEF Next, ServerStep, UserStep, EventStep

LEMMA GetShapes ==
  /\ \A who, rev : Get("sent", who, rev).state = "sent" /\ Get("answered", who, rev).state = "answered"
                   /\ Get("answered", who, rev).friends = who
  /\ NoGet.state = "none"
  BY DEF Get, NoGet

LEMMA ReloadStarted ==
  ASSUME ContactsInv, ReloadContacts
  PROVE  \E k \in Gets : /\ gets' = [gets EXCEPT ![k] = Get("sent", {}, 0)] /\ started' \in 0..MaxGets
                         /\ handlers' = handlers + 1 /\ handlers \in Nat /\ handlers' <= started'
                         /\ overlapped' \in BOOLEAN
                         /\ ~overlapped' => ~overlapped /\ handlers = 0
<1>1. started \in 0..MaxGets /\ handlers \in Nat /\ handlers <= started /\ overlapped \in BOOLEAN
  BY BoundsAssumption DEF ContactsInv, TypeOK, HandlersInv
<1>2. started' \in Gets /\ started' \in 0..MaxGets /\ handlers + 1 <= started'
  BY <1>1, BoundsAssumption DEF ReloadContacts, Gets
<1>3. overlapped' \in BOOLEAN /\ (~overlapped' => ~overlapped)
  BY <1>1, Zenon DEF ReloadContacts
<1>4. handlers > 0 => overlapped'
  BY Zenon DEF ReloadContacts
<1>5. ~overlapped' => handlers = 0
  BY <1>1, <1>4
<1> QED
  BY <1>1, <1>2, <1>3, <1>5 DEF ReloadContacts

LEMMA HandlersStep ==
  ASSUME ContactsInv, [Next]_vars
  PROVE  HandlersInv'
<1>1. HandlersInv /\ gets \in [Gets -> GetType] /\ faults \in Nat
  BY TableTypes, BoundsAssumption DEF ContactsInv, TypeOK
<1>2. CASE UNCHANGED <<gets, handlers, started, faults, link, overlapped>>
  BY <1>1, <1>2 DEF HandlersInv
<1>3. ASSUME ReloadContacts, UNCHANGED <<faults, link>>
      PROVE  HandlersInv'
  <2>1. PICK k \in Gets :
          /\ gets' = [gets EXCEPT ![k] = Get("sent", {}, 0)] /\ handlers' = handlers + 1 /\ handlers' <= started'
          /\ ~overlapped' => ~overlapped /\ handlers = 0
    BY <1>3, ReloadStarted
  <2>2. CASE ~overlapped'
    <3>1. \A n \in Gets : gets[n] = NoGet
      BY <1>1, <2>1, <2>2 DEF HandlersInv
    <3>2. \A n \in Gets : gets'[n] # NoGet => n = k
      BY <1>1, <2>1, <3>1
    <3> QED
      BY <1>1, <1>3, <2>1, <2>2, <3>2 DEF HandlersInv
  <2> QED
    BY <1>1, <1>3, <2>1, <2>2 DEF HandlersInv
<1>4. ASSUME NEW n \in Gets, ServerAnswers(n)
      PROVE  HandlersInv'
  <2>1. gets[n].state = "sent" /\ gets' = [gets EXCEPT ![n] = Get("answered", friends, revision)]
        /\ UNCHANGED <<handlers, started, faults, link, overlapped>>
    BY <1>4 DEF ServerAnswers, wires, history
  <2>2. gets[n] # NoGet
    BY <2>1, GetShapes
  <2>3. \A m \in Gets : gets'[m] # NoGet => gets[m] # NoGet
    BY <1>1, <2>1, <2>2
  <2> QED
    BY <1>1, <2>1, <2>3 DEF HandlersInv
<1>5. ASSUME NEW n \in Gets, gets[n] # NoGet, gets' = [gets EXCEPT ![n] = NoGet], handlers' = 0,
             faults' \in Nat, faults <= faults', UNCHANGED <<started, link, overlapped>>
      PROVE  HandlersInv'
  <2>1. \A m \in Gets : gets'[m] # NoGet => gets[m] # NoGet /\ m # n
    BY <1>1, <1>5
  <2>2. faults' = 0 => faults = 0
    BY <1>1, <1>5
  <2>3. handlers' <= started'
    BY <1>5, BoundsAssumption DEF ContactsInv, TypeOK
  <2>4. ~overlapped' => \A m \in Gets : gets'[m] = NoGet
    BY <1>1, <1>5, <2>1 DEF HandlersInv
  <2> QED
    BY <1>1, <1>5, <2>2, <2>3, <2>4 DEF HandlersInv
<1>6. ASSUME NEW n \in Gets, OnFinished(n)
      PROVE  HandlersInv'
  <2>1. gets[n].state = "answered" /\ gets' = [gets EXCEPT ![n] = NoGet] /\ handlers' = 0
        /\ UNCHANGED <<started, link, overlapped>>
    BY <1>6 DEF OnFinished, wires, history
  <2>2. gets[n] # NoGet
    BY <2>1, GetShapes
  <2>3. faults' \in Nat /\ faults <= faults'
    BY <1>1, <1>6, RepliesTaken, BoundsAssumption
  <2> QED
    BY <1>5, <2>1, <2>2, <2>3
<1>7. ASSUME NEW n \in Gets, OnFinishedWithError(n)
      PROVE  HandlersInv'
  <2>1. faults' \in Nat /\ faults <= faults'
    BY <1>1, <1>7 DEF OnFinishedWithError
  <2> QED
    BY <1>5, <1>7, <2>1 DEF OnFinishedWithError, wires, history
<1>8. ASSUME LinkLost
      PROVE  HandlersInv'
  <2>1. faults' = faults + 1 /\ UNCHANGED <<gets, handlers, started, overlapped>>
    BY <1>8 DEF LinkLost, reloads, history
  <2>2. faults' # 0
    BY <1>1, <2>1
  <2> QED
    BY <1>1, <2>1, <2>2 DEF HandlersInv
<1>9. ASSUME OnWssTextMessage
      PROVE  HandlersInv'
  BY <1>2, <1>3, <1>9 DEF OnWssTextMessage, OnFriendRequestReceived, reloads, history
<1>10. ASSUME NEW p \in People, TimerFires(p)
       PROVE  HandlersInv'
  BY <1>3, <1>10 DEF TimerFires, wires
<1>11. ASSUME NEW p \in People, PersonAsks(p) \/ PersonAnswers(p) \/ FriendLeaves(p) \/ Accept(p) \/ Reject(p)
       PROVE  HandlersInv'
  BY <1>2, <1>11 DEF PersonAsks, PersonAnswers, FriendLeaves, wires, Accept, Reject, reloads, history
<1>12. ASSUME ServerHandles \/ GroupsChange \/ OnGroupNotificationClicked \/ OnFriendNotificationClicked
              \/ (\E i \in 1..Cardinality(People) : OnItemClicked(i)) \/ UNCHANGED vars
       PROVE  HandlersInv'
  BY <1>2, <1>12 DEF ServerHandles, GroupsChange, OnGroupNotificationClicked, OnFriendNotificationClicked,
     OnItemClicked,
                     vars, wires, reloads, history
<1> QED
  BY <1>4, <1>6, <1>7, <1>8, <1>9, <1>10, <1>11, <1>12 DEF Next, ServerStep, UserStep, EventStep

LEMMA ListedStep ==
  ASSUME ContactsInv, [Next]_vars
  PROVE  ListedInv'
<1> DEFINE A == {"accepted", "friend_request_result accept"}
<1>1. /\ ListedInv /\ HandlersInv /\ gets \in [Gets -> GetType] /\ faults \in Nat /\ friends \subseteq People
      /\ up \in Seq(Mail) /\ down \in Seq(Mail)
  BY TableTypes, BoundsAssumption DEF ContactsInv, TypeOK
<1>2. CASE /\ faults' = 0 => faults = 0
           /\ ~overlapped' => ~overlapped
           /\ friends' \subseteq friends
           /\ \A p \in friends' : Reported(p) => Reported(p)'
           /\ UNCHANGED <<gets, db>>
  <2> SUFFICES ASSUME faults' = 0, ~overlapped', NEW p \in friends' PROVE Tidings(p)'
    BY DEF ListedInv
  <2>1. Tidings(p)
    BY <1>1, <1>2 DEF ListedInv
  <2> QED
    BY <1>2, <2>1 DEF Tidings
<1>3. ASSUME NEW type \in MessageTypes, NEW q \in People, ServerSends(Message(type, q)),
             faults' = 0 => faults = 0, ~overlapped' => ~overlapped, UNCHANGED <<gets, db, link>>, 
             friends' = friends \/ (friends' = friends \cup {q} /\ type \in A)
      PROVE  ListedInv'
  <2> SUFFICES ASSUME faults' = 0, ~overlapped', NEW p \in friends' PROVE Tidings(p)'
    BY DEF ListedInv
  <2>1. PICK m, v : m = Message(type, q) /\ v = down'
    OBVIOUS
  <2>2. v = IF link THEN Append(down, m) ELSE down
    BY <1>3, <2>1 DEF ServerSends
  <2>3. m \in Mail /\ (About(m, A, p) <=> type \in A /\ p = q)
    BY <1>3, <2>1, MailTypes
  <2>4. link
    BY <1>1, <1>3 DEF HandlersInv
  <2>5. (Holds(down, A, p) => Holds(v, A, p)) /\ (About(m, A, p) => Holds(v, A, p))
    BY <1>1, <2>2, <2>3, <2>4, MailSent
  <2>6. CASE p \in friends
    <3>1. Tidings(p)
      BY <1>1, <1>3, <2>6 DEF ListedInv
    <3> QED
      BY <1>3, <2>1, <2>5, <3>1 DEF Tidings, Reported
  <2>7. CASE p \notin friends
    <3>1. Holds(v, A, p)
      BY <1>3, <2>3, <2>5, <2>7
    <3> QED
      BY <2>1, <3>1 DEF Tidings, Reported
  <2> QED
    BY <2>6, <2>7
<1>4. ASSUME ReloadContacts
      PROVE  ListedInv'
  <2>1. PICK k \in Gets : gets' = [gets EXCEPT ![k] = Get("sent", {}, 0)]
    BY <1>4, ReloadStarted
  <2>2. gets'[k].state = "sent"
    BY <1>1, <2>1, GetShapes
  <2> QED
    BY <2>2 DEF ListedInv, Tidings
<1>5. ASSUME NEW n \in Gets, ServerAnswers(n)
      PROVE  ListedInv'
  <2>1. gets' = [gets EXCEPT ![n] = Get("answered", friends, revision)] /\ friends' = friends
    BY <1>5 DEF ServerAnswers, server
  <2>2. gets'[n].state = "answered" /\ gets'[n].friends = friends'
    BY <1>1, <2>1, GetShapes
  <2> QED
    BY <2>2 DEF ListedInv, Tidings
<1>6. ASSUME NEW n \in Gets, OnFinished(n)
      PROVE  ListedInv'
  <2> SUFFICES ASSUME faults' = 0, ~overlapped', NEW p \in friends' PROVE Tidings(p)'
    BY DEF ListedInv
  <2>1. gets[n].state = "answered" /\ gets' = [gets EXCEPT ![n] = NoGet] /\ UNCHANGED <<friends, down, overlapped>>
    BY <1>6 DEF OnFinished, server, wires, history
  <2>2. gets[n] # NoGet
    BY <2>1, GetShapes
  <2>3. faults = 0
    BY <1>1, <1>6, RepliesTaken
  <2>4. handlers = 1
    BY <1>1, <2>1, <2>2 DEF HandlersInv
  <2>5. db'.rows.users = db.rows.users \cup gets[n].friends
    BY <1>6, <2>4, RepliesTaken
  <2>6. Tidings(p)
    BY <1>1, <2>1, <2>3 DEF ListedInv
  <2>7. CASE \E m \in Gets : gets[m].state = "sent" \/ (gets[m].state = "answered" /\ p \in gets[m].friends)
    <3>1. PICK m \in Gets : gets[m].state = "sent" \/ (gets[m].state = "answered" /\ p \in gets[m].friends)
      BY <2>7
    <3>2. CASE m = n
      BY <2>1, <2>5, <3>1, <3>2 DEF Tidings
    <3>3. CASE m # n
      BY <1>1, <2>1, <3>1, <3>3 DEF Tidings
    <3> QED
      BY <3>2, <3>3
  <2>8. CASE Reported(p)
    BY <2>1, <2>8 DEF Tidings, Reported
  <2>9. CASE p \in db.rows.users
    BY <2>5, <2>9 DEF Tidings
  <2> QED
    BY <2>6, <2>7, <2>8, <2>9 DEF Tidings
<1>7. ASSUME (\E n \in Gets : OnFinishedWithError(n)) \/ LinkLost
      PROVE  ListedInv'
  <2>1. faults' = faults + 1
    BY <1>7 DEF OnFinishedWithError, LinkLost
  <2>2. faults' # 0
    BY <1>1, <2>1
  <2> QED
    BY <2>2 DEF ListedInv
<1>8. ASSUME OnWssTextMessage
      PROVE  ListedInv'
  <2>1. PICK h : h = Head(down)
    OBVIOUS
  <2>2. down # <<>> /\ down' = Tail(down) /\ UNCHANGED <<friends, faults, db>>
    BY <1>8 DEF OnWssTextMessage, server
  <2>3. CASE ReloadContacts
    BY <1>4, <2>3
  <2>4. CASE ~ReloadContacts
    <3>1. h.type \notin A /\ UNCHANGED <<gets, overlapped>>
      BY <1>8, <2>1, <2>4 DEF OnWssTextMessage, OnFriendRequestReceived, reloads, history
    <3>2. \A p : Reported(p) => Reported(p)'
      BY <1>1, <2>1, <2>2, <3>1, MailTaken DEF Reported, About
    <3> QED
      BY <1>2, <2>2, <3>1, <3>2
  <2> QED
    BY <2>3, <2>4
<1>9. ASSUME NEW p \in People, TimerFires(p)
      PROVE  ListedInv'
  BY <1>4, <1>9 DEF TimerFires
<1>10. ASSUME NEW p \in People, PersonAsks(p)
       PROVE  ListedInv'
  BY <1>3, <1>10 DEF PersonAsks, reloads, history, MessageTypes
<1>11. ASSUME NEW p \in People, PersonAnswers(p)
       PROVE  ListedInv'
  <2>1. UNCHANGED <<gets, db, link, faults, overlapped>>
    BY <1>11 DEF PersonAnswers, reloads, history
  <2>2. CASE friends' = friends \cup {p} /\ ServerSends(Message("friend_request_result accept", p))
    BY <1>3, <2>1, <2>2 DEF MessageTypes
  <2>3. CASE friends' = friends /\ ServerSends(Message("friend_request_result reject", p))
    BY <1>3, <2>1, <2>3 DEF MessageTypes
  <2> QED
    BY <1>11, <2>2, <2>3 DEF PersonAnswers
<1>12. ASSUME ServerHandles
       PROVE  ListedInv'
  <2>1. PICK h : h = Head(up)
    OBVIOUS
  <2>2. /\ up # <<>> /\ friends' = IF h.type = "accept" THEN friends \cup {h.person} ELSE friends
        /\ ServerSends(Message(IF h.type = "accept" THEN "accepted" ELSE "rejected", h.person))
        /\ UNCHANGED <<gets, db, link, faults, overlapped>>
    BY <1>12, <2>1 DEF ServerHandles, reloads, history
  <2>3. h.person \in People
    BY <1>1, <2>1, <2>2, MailTaken DEF Mail
  <2>4. CASE h.type = "accept"
    BY <1>3, <2>2, <2>3, <2>4 DEF MessageTypes
  <2>5. CASE h.type # "accept"
    BY <1>3, <2>2, <2>3, <2>5 DEF MessageTypes
  <2> QED
    BY <2>4, <2>5
<1>13. ASSUME NEW p \in People, Accept(p) \/ Reject(p)
       PROVE  ListedInv'
  <2>1. UNCHANGED <<faults, overlapped, friends, down, gets, db>>
    BY <1>13 DEF Accept, Reject, server, reloads, history
  <2> QED
    BY <1>2, <2>1 DEF Reported
<1>15. ASSUME NEW p \in People, FriendLeaves(p)
       PROVE  ListedInv'
  <2>1. UNCHANGED <<faults, overlapped, down, gets, db>> /\ friends' \subseteq friends
    BY <1>15 DEF FriendLeaves, wires, reloads
  <2> QED
    BY <1>2, <2>1 DEF Reported
<1>14. ASSUME GroupsChange \/ OnGroupNotificationClicked \/ OnFriendNotificationClicked
              \/ (\E i \in 1..Cardinality(People) : OnItemClicked(i)) \/ UNCHANGED vars
       PROVE  ListedInv'
  <2>1. UNCHANGED <<faults, overlapped, friends, down, gets, db>>
    BY <1>14 DEF GroupsChange, OnGroupNotificationClicked, OnFriendNotificationClicked, OnItemClicked,
                 vars, server, wires, reloads, history
  <2> QED
    BY <1>2, <2>1 DEF Reported
<1> QED
  BY <1>5, <1>6, <1>7, <1>8, <1>9, <1>10, <1>11, <1>12, <1>13, <1>14, <1>15
  DEF Next, ServerStep, UserStep, EventStep

(* A message from the server is taken: who is announced was not seen yet.  *)
LEMMA AnnouncedIsNew ==
  ASSUME ContactsInv, down # <<>>
  PROVE  /\ Tail(down) \in Seq(Mail) /\ Head(down) \in Mail /\ Head(down).person \in People
         /\ Head(down).type = "friend_request_received" =>
              status[Head(down).person] = "none" /\ Head(down).person \notin unseen
<1>1. PICK h : h = Head(down)
  OBVIOUS
<1>2. AskInv /\ down \in Seq(Mail)
  BY DEF ContactsInv, TypeOK
<1>3. Tail(down) \in Seq(Mail) /\ h \in Mail /\ h.person \in People
  BY <1>1, <1>2, MailTaken DEF Mail
<1>4. RequestInv(h.person)
  BY <1>2, <1>3 DEF AskInv
<1>5. ASSUME h.type = "friend_request_received"
      PROVE  status[h.person] = "none" /\ h.person \notin unseen
  <2>1. About(h, {"friend_request_received"}, h.person)
    BY <1>5 DEF About
  <2>2. Announced(h.person)
    BY <1>1, <1>2, <2>1, MailTaken DEF Announced
  <2> QED
    BY <1>4, <2>2 DEF RequestInv
<1> QED
  BY <1>1, <1>3, <1>5

LEMMA UnseenStep ==
  ASSUME ContactsInv, [Next]_vars
  PROVE  UnseenAreCounted'
<1>1. UnseenAreCounted /\ IsFiniteSet(unseen) /\ unseen \subseteq People
  BY PeopleAssumption, FS_Subset DEF ContactsInv, TypeOK
<1>2. CASE UNCHANGED <<unread, unseen>>
  BY <1>1, <1>2 DEF UnseenAreCounted
<1>3. ASSUME NEW p, p \notin unseen, OnFriendRequestReceived(p)
      PROVE  UnseenAreCounted'
  <2>1. CASE page = "friend"
    BY <1>2, <1>3, <2>1 DEF OnFriendRequestReceived
  <2>2. CASE page # "friend"
    <3>1. unread' = unread + 1 /\ unseen' = unseen \cup {p}
      BY <1>3, <2>2 DEF OnFriendRequestReceived
    <3>2. Cardinality(unseen \cup {p}) = Cardinality(unseen) + 1
      BY <1>1, <1>3, FS_AddElement
    <3> QED
      BY <1>1, <3>1, <3>2 DEF UnseenAreCounted
  <2> QED
    BY <2>1, <2>2
<1>4. ASSUME OnWssTextMessage
      PROVE  UnseenAreCounted'
  <2>1. PICK h : h = Head(down)
    OBVIOUS
  <2>2. CASE h.type = "friend_request_received"
    <3>1. OnFriendRequestReceived(h.person) /\ down # <<>>
      BY <1>4, <2>1, <2>2 DEF OnWssTextMessage
    <3>2. h.person \notin unseen
      BY <2>1, <2>2, <3>1, AnnouncedIsNew
    <3> QED
      BY <1>3, <3>1, <3>2
  <2>3. CASE h.type # "friend_request_received"
    BY <1>2, <1>4, <2>1, <2>3 DEF OnWssTextMessage, history
  <2> QED
    BY <2>2, <2>3
<1>5. ASSUME OnFriendNotificationClicked
      PROVE  UnseenAreCounted'
  <2>1. unread' = 0 /\ unseen' = {}
    BY <1>5 DEF OnFriendNotificationClicked
  <2> QED
    BY <2>1, FS_EmptySet DEF UnseenAreCounted
<1>6. ASSUME NEW n \in Gets, ServerAnswers(n) \/ OnFinished(n) \/ OnFinishedWithError(n)
      PROVE  UnseenAreCounted'
  BY <1>2, <1>6 DEF ServerAnswers, OnFinished, OnFinishedWithError, views, history
<1>7. ASSUME NEW p \in People,
             PersonAsks(p) \/ PersonAnswers(p) \/ FriendLeaves(p) \/ Accept(p) \/ Reject(p) \/ TimerFires(p)
      PROVE  UnseenAreCounted'
  BY <1>2, <1>7 DEF PersonAsks, PersonAnswers, FriendLeaves, Accept, Reject, TimerFires, views, history
<1>8. ASSUME ServerHandles \/ GroupsChange \/ LinkLost \/ OnGroupNotificationClicked
             \/ (\E i \in 1..Cardinality(People) : OnItemClicked(i)) \/ UNCHANGED vars
      PROVE  UnseenAreCounted'
  BY <1>2, <1>8 DEF ServerHandles, GroupsChange, LinkLost, OnGroupNotificationClicked, OnItemClicked, vars,
     views, history
<1> QED
  BY <1>4, <1>5, <1>6, <1>7, <1>8 DEF Next, ServerStep, UserStep, EventStep

(* The types, by the parts of the state that change together.              *)
ServerTypes ==
  /\ friends \subseteq People /\ asking \subseteq People /\ applied \subseteq People
  /\ revision \in Revisions /\ left \subseteq People
WireTypes   == link \in BOOLEAN /\ up \in Seq(Mail) /\ down \in Seq(Mail)
ReloadTypes ==
  gets \in [Gets -> GetType] /\ handlers \in 0..MaxGets /\ started \in 0..MaxGets /\ overlapped \in BOOLEAN
ViewTypes ==
  /\ timers \subseteq {p \in People : status[p] = "Accepted"} /\ status \in [People -> {"none", "Pending", "Accepted", "Rejected"}]
  /\ page \in {"default", "friend", "group"} /\ unread \in Nat /\ unseen \subseteq People
ListTypes ==
  /\ db \in [rows : Rows, kept : Rows, open : BOOLEAN]
  /\ users \in Seq(People) /\ selectedIndex \in 0..Len(users) /\ clicked \in People \cup {0}
  /\ faults \in 0..MaxFaults /\ known \subseteq People

LEMMA TypesParted == TypeOK <=> ServerTypes /\ WireTypes /\ ReloadTypes /\ ViewTypes /\ ListTypes
  BY DEF TypeOK, ServerTypes, WireTypes, ReloadTypes, ViewTypes, ListTypes

LEMMA ReloadKeepsTypes ==
  ASSUME ContactsInv, ReloadContacts
  PROVE  ReloadTypes'
<1>1. PICK k \in Gets :
        /\ gets' = [gets EXCEPT ![k] = Get("sent", {}, 0)] /\ started' \in 0..MaxGets
        /\ handlers' = handlers + 1 /\ handlers \in Nat /\ handlers' <= started' /\ overlapped' \in BOOLEAN
  BY ReloadStarted
<1>2. gets \in [Gets -> GetType]
  BY DEF ContactsInv, TypeOK
<1>3. Get("sent", {}, 0) \in GetType
  BY BoundsAssumption DEF Get, GetType, Revisions
<1>4. gets' \in [Gets -> GetType]
  BY <1>1, <1>2, <1>3
<1>5. handlers' \in 0..MaxGets
  BY <1>1, BoundsAssumption
<1> QED
  BY <1>1, <1>4, <1>5 DEF ReloadTypes

LEMMA TypeStep ==
  ASSUME ContactsInv, [Next]_vars
  PROVE  TypeOK'
<1>1. ServerTypes /\ WireTypes /\ ReloadTypes /\ ViewTypes /\ ListTypes
  BY TypesParted DEF ContactsInv
<1> SUFFICES ServerTypes' /\ WireTypes' /\ ReloadTypes' /\ ViewTypes' /\ ListTypes'
  BY DEF TypeOK, ServerTypes, WireTypes, ReloadTypes, ViewTypes, ListTypes
<1>2. UNCHANGED <<server, left>> => ServerTypes'
  BY <1>1 DEF server, ServerTypes
<1>3. UNCHANGED wires => WireTypes'
  BY <1>1 DEF wires, WireTypes
<1>4. UNCHANGED <<reloads, overlapped>> => ReloadTypes'
  BY <1>1 DEF reloads, ReloadTypes
<1>5. UNCHANGED <<views, unseen>> => ViewTypes'
  BY <1>1 DEF views, ViewTypes
<1>6. UNCHANGED <<db, lists, known>> /\ faults' \in 0..MaxFaults => ListTypes'
  BY <1>1 DEF lists, ListTypes
<1>7. UNCHANGED faults => faults' \in 0..MaxFaults
  BY <1>1 DEF ListTypes
<1>8. ASSUME NEW type \in MessageTypes, NEW p \in People
      PROVE  /\ ServerSends(Message(type, p)) => down' \in Seq(Mail)
             /\ SendWsMessage(Message(type, p)) => up' \in Seq(Mail)
  <2>1. PICK m, v, w : m = Message(type, p) /\ v = down' /\ w = up'
    OBVIOUS
  <2>2. m \in Mail
    BY <2>1, MailTypes
  <2> QED
    BY <1>1, <2>1, <2>2, MailSent DEF ServerSends, SendWsMessage, WireTypes
<1>9. ASSUME NEW p \in People, PersonAsks(p)
      PROVE  ServerTypes' /\ WireTypes' /\ ReloadTypes' /\ ViewTypes' /\ ListTypes'
  <2>1. ServerTypes'
    BY <1>1, <1>9 DEF PersonAsks, ServerTypes, history
  <2>2. WireTypes'
    BY <1>1, <1>8, <1>9 DEF PersonAsks, WireTypes, MessageTypes
  <2> QED
    BY <1>4, <1>5, <1>6, <1>7, <1>9, <2>1, <2>2 DEF PersonAsks, history
<1>10. ASSUME NEW p \in People, PersonAnswers(p)
      PROVE  ServerTypes' /\ WireTypes' /\ ReloadTypes' /\ ViewTypes' /\ ListTypes'
  <2>1. ServerTypes'
    <3>1. applied' = applied \ {p} /\ UNCHANGED <<asking, revision>>
          /\ (friends' = friends \cup {p} \/ UNCHANGED friends) /\ UNCHANGED left
      BY <1>10 DEF PersonAnswers, history
    <3>2. friends' \subseteq People
      BY <1>1, <3>1 DEF ServerTypes
    <3> QED
      BY <1>1, <3>1, <3>2 DEF ServerTypes
  <2>2. down' \in Seq(Mail)
    BY <1>8, <1>10 DEF PersonAnswers, MessageTypes
  <2>3. WireTypes'
    BY <1>1, <1>10, <2>2 DEF PersonAnswers, WireTypes
  <2> QED
    BY <1>4, <1>5, <1>6, <1>7, <1>10, <2>1, <2>3 DEF PersonAnswers, history
<1>26. ASSUME NEW p \in People, FriendLeaves(p)
      PROVE  ServerTypes' /\ WireTypes' /\ ReloadTypes' /\ ViewTypes' /\ ListTypes'
  <2>1. ServerTypes'
    BY <1>1, <1>26 DEF FriendLeaves, ServerTypes
  <2> QED
    BY <1>3, <1>4, <1>5, <1>6, <1>7, <1>26, <2>1 DEF FriendLeaves
<1>11. ASSUME ServerHandles
      PROVE  ServerTypes' /\ WireTypes' /\ ReloadTypes' /\ ViewTypes' /\ ListTypes'
  <2>1. PICK h : h = Head(up)
    OBVIOUS
  <2>2. up # <<>> /\ up' = Tail(up) /\ asking' = asking \ {h.person} /\ (friends' = friends \/ friends' = friends \cup {h.person})
        /\ UNCHANGED <<applied, revision, link, left>>
        /\ ServerSends(Message(IF h.type = "accept" THEN "accepted" ELSE "rejected", h.person))
    BY <1>11, <2>1 DEF ServerHandles, history
  <2>3. h.person \in People /\ Tail(up) \in Seq(Mail)
    BY <1>1, <2>1, <2>2, MailTaken DEF Mail, WireTypes
  <2>4. ServerTypes'
    BY <1>1, <2>2, <2>3 DEF ServerTypes
  <2>5. down' \in Seq(Mail)
    BY <1>8, <2>2, <2>3 DEF MessageTypes
  <2>6. WireTypes'
    BY <1>1, <2>2, <2>3, <2>5 DEF WireTypes
  <2> QED
    BY <1>4, <1>5, <1>6, <1>7, <1>11, <2>4, <2>6 DEF ServerHandles, history
<1>12. ASSUME GroupsChange
      PROVE  ServerTypes' /\ WireTypes' /\ ReloadTypes' /\ ViewTypes' /\ ListTypes'
  <2>1. ServerTypes'
    BY <1>1, <1>12, BoundsAssumption DEF GroupsChange, ServerTypes, Revisions, history
  <2> QED
    BY <1>3, <1>4, <1>5, <1>6, <1>7, <1>12, <2>1 DEF GroupsChange, history
<1>13. ASSUME NEW n \in Gets, ServerAnswers(n)
      PROVE  ServerTypes' /\ WireTypes' /\ ReloadTypes' /\ ViewTypes' /\ ListTypes'
  <2>1. Get("answered", friends, revision) \in GetType
    BY <1>1 DEF Get, GetType, ServerTypes
  <2>2. ReloadTypes'
    BY <1>1, <1>13, <2>1 DEF ServerAnswers, ReloadTypes, history
  <2> QED
    BY <1>2, <1>3, <1>5, <1>6, <1>7, <1>13, <2>2 DEF ServerAnswers, history
<1>14. NoGet \in GetType
  BY BoundsAssumption DEF NoGet, Get, GetType, Revisions
<1>15. ASSUME NEW n \in Gets, OnFinished(n)
      PROVE  ServerTypes' /\ WireTypes' /\ ReloadTypes' /\ ViewTypes' /\ ListTypes'
  <2>1. ReloadTypes'
    BY <1>1, <1>14, <1>15, BoundsAssumption DEF OnFinished, ReloadTypes, history
  <2>2. ListTypes'
    <3>1. CASE UNCHANGED <<db, users, selectedIndex, clicked, faults, known>>
      BY <1>1, <3>1 DEF ListTypes
    <3>2. CASE /\ db' \in Connections /\ faults' \in 0..MaxFaults
               /\ users' = InOrder(db'.rows.users) /\ selectedIndex' = 0 /\ clicked' = 0
               /\ db'.rows.users = known'
      <4>1. PICK d : d = db'
        OBVIOUS
      <4>2. users' \in Seq(People)
        BY <3>2, <4>1, UserRows, InOrderFacts
      <4>3. selectedIndex' \in 0..Len(users')
        BY <3>2, <4>2, LenProperties
      <4>4. db' \in [rows : Rows, kept : Rows, open : BOOLEAN]
        BY <3>2 DEF Connections, Tables, Rows
      <4>5. known' \subseteq People
        BY <3>2, <4>1, UserRows
      <4> QED
        BY <3>2, <4>2, <4>3, <4>4, <4>5 DEF ListTypes
    <3> QED
      BY <1>15, <3>1, <3>2, RepliesTaken
  <2> QED
    BY <1>2, <1>3, <1>5, <1>15, <2>1, <2>2 DEF OnFinished, history
<1>16. ASSUME NEW n \in Gets, OnFinishedWithError(n)
      PROVE  ServerTypes' /\ WireTypes' /\ ReloadTypes' /\ ViewTypes' /\ ListTypes'
  <2>1. ReloadTypes'
    BY <1>1, <1>14, <1>16, BoundsAssumption DEF OnFinishedWithError, ReloadTypes, history
  <2>2. faults' \in 0..MaxFaults
    BY <1>1, <1>16, BoundsAssumption DEF OnFinishedWithError, ListTypes
  <2> QED
    BY <1>2, <1>3, <1>5, <1>6, <1>16, <2>1, <2>2 DEF OnFinishedWithError, history
<1>17. ASSUME LinkLost
      PROVE  ServerTypes' /\ WireTypes' /\ ReloadTypes' /\ ViewTypes' /\ ListTypes'
  <2>1. WireTypes'
    BY <1>17, EmptySeq DEF LinkLost, WireTypes
  <2>2. faults' \in 0..MaxFaults
    BY <1>1, <1>17, BoundsAssumption DEF LinkLost, ListTypes
  <2> QED
    BY <1>2, <1>4, <1>5, <1>6, <1>17, <2>1, <2>2 DEF LinkLost, history
<1>18. ASSUME OnWssTextMessage
      PROVE  ServerTypes' /\ WireTypes' /\ ReloadTypes' /\ ViewTypes' /\ ListTypes'
  <2>1. PICK h : h = Head(down)
    OBVIOUS
  <2>2. down # <<>> /\ down' = Tail(down) /\ UNCHANGED <<server, link, up, timers, page, db, lists, faults>>
    BY <1>18 DEF OnWssTextMessage
  <2>3. /\ Tail(down) \in Seq(Mail) /\ h.person \in People
        /\ h.type = "friend_request_received" => status[h.person] = "none"
    BY <2>1, <2>2, AnnouncedIsNew
  <2>4. WireTypes'
    BY <1>1, <2>2, <2>3 DEF WireTypes
  <2>5. ServerTypes' /\ ListTypes'
    BY <1>2, <1>6, <1>7, <1>18, <2>2 DEF OnWssTextMessage, OnFriendRequestReceived, history
  <2>6. CASE h.type = "friend_request_received" /\ OnFriendRequestReceived(h.person)
    <3>1. status' = [status EXCEPT ![h.person] = "Pending"]
          /\ unread' = (IF page = "friend" THEN unread ELSE unread + 1)
          /\ unseen' = (IF page = "friend" THEN unseen ELSE unseen \cup {h.person})
      BY <2>6 DEF OnFriendRequestReceived
    <3>2. \A p \in timers : p # h.person /\ status'[p] = "Accepted"
      BY <1>1, <2>3, <2>6, <3>1 DEF ViewTypes
    <3>3. unread' \in Nat /\ unseen' \subseteq People
      BY <1>1, <2>3, <3>1 DEF ViewTypes
    <3>4. status' \in [People -> {"none", "Pending", "Accepted", "Rejected"}]
      BY <1>1, <3>1 DEF ViewTypes
    <3>5. ViewTypes'
      BY <1>1, <2>2, <3>2, <3>3, <3>4 DEF ViewTypes
    <3>6. ReloadTypes'
      BY <1>4, <2>6 DEF OnFriendRequestReceived
    <3> QED
      BY <2>4, <2>5, <3>5, <3>6
  <2>7. CASE ReloadContacts /\ UNCHANGED <<status, unread, unseen, known, left>>
    BY <1>5, <2>2, <2>4, <2>5, <2>7, ReloadKeepsTypes DEF views
  <2>8. CASE UNCHANGED <<reloads, status, unread, history>>
    BY <1>4, <1>5, <2>2, <2>4, <2>5, <2>8 DEF views, history
  <2> QED
    BY <1>18, <2>1, <2>6, <2>7, <2>8 DEF OnWssTextMessage
<1>19. ASSUME NEW p \in People, NEW type \in {"accept", "reject"}, SendWsMessage(Message(type, p)),
              ViewTypes', UNCHANGED <<server, link, down, reloads, db, lists, faults, history>>
      PROVE  ServerTypes' /\ WireTypes' /\ ReloadTypes' /\ ViewTypes' /\ ListTypes'
  <2>1. type \in MessageTypes
    BY DEF MessageTypes
  <2>2. WireTypes'
    BY <1>1, <1>8, <1>19, <2>1 DEF WireTypes
  <2> QED
    BY <1>2, <1>4, <1>6, <1>7, <1>19, <2>2 DEF history
<1>20. ASSUME NEW p \in People, Accept(p)
      PROVE  ServerTypes' /\ WireTypes' /\ ReloadTypes' /\ ViewTypes' /\ ListTypes'
  <2>1. ViewTypes'
    BY <1>1, <1>20 DEF Accept, ViewTypes, history
  <2> QED
    BY <1>19, <1>20, <2>1 DEF Accept
<1>21. ASSUME NEW p \in People, Reject(p)
      PROVE  ServerTypes' /\ WireTypes' /\ ReloadTypes' /\ ViewTypes' /\ ListTypes'
  <2>1. status[p] = "Pending" /\ status' = [status EXCEPT ![p] = "Rejected"] /\ UNCHANGED <<timers, page, unread, unseen>>
    BY <1>21 DEF Reject, history
  <2>2. \A q \in timers : status'[q] = "Accepted"
    BY <1>1, <2>1 DEF ViewTypes
  <2>3. ViewTypes'
    BY <1>1, <2>1, <2>2 DEF ViewTypes
  <2> QED
    BY <1>19, <1>21, <2>3 DEF Reject
<1>22. ASSUME NEW p \in People, TimerFires(p)
      PROVE  ServerTypes' /\ WireTypes' /\ ReloadTypes' /\ ViewTypes' /\ ListTypes'
  <2>1. ViewTypes'
    BY <1>1, <1>22 DEF TimerFires, ViewTypes
  <2>2. ReloadTypes'
    BY <1>22, ReloadKeepsTypes DEF TimerFires
  <2> QED
    BY <1>2, <1>3, <1>6, <1>7, <1>22, <2>1, <2>2 DEF TimerFires
<1>23. ASSUME OnGroupNotificationClicked \/ OnFriendNotificationClicked
      PROVE  ServerTypes' /\ WireTypes' /\ ReloadTypes' /\ ViewTypes' /\ ListTypes'
  <2>1. ViewTypes'
    BY <1>1, <1>23 DEF OnGroupNotificationClicked, OnFriendNotificationClicked, ViewTypes, history
  <2> QED
    BY <1>2, <1>3, <1>4, <1>6, <1>7, <1>23, <2>1 DEF OnGroupNotificationClicked, OnFriendNotificationClicked,
       history
<1>24. ASSUME NEW i \in 1..Cardinality(People), OnItemClicked(i)
      PROVE  ServerTypes' /\ WireTypes' /\ ReloadTypes' /\ ViewTypes' /\ ListTypes'
  <2>1. i \in 1..Len(users) /\ users[i] \in People /\ Len(users) \in Nat /\ users' = users
    BY <1>1, <1>24, LenProperties DEF OnItemClicked, ListTypes
  <2>2. selectedIndex' \in {0, i} /\ clicked' \in {0, users[i]}
    BY <1>24, <2>1 DEF OnItemClicked, SetSelectedIndex
  <2>3. ListTypes'
    BY <1>1, <1>24, <2>1, <2>2 DEF OnItemClicked, ListTypes, history
  <2> QED
    BY <1>2, <1>3, <1>4, <1>5, <1>24, <2>3 DEF OnItemClicked, history
<1>25. CASE UNCHANGED vars
  BY <1>2, <1>3, <1>4, <1>5, <1>6, <1>7, <1>25 DEF vars, history
<1> QED
  BY <1>9, <1>10, <1>11, <1>12, <1>13, <1>15, <1>16, <1>17, <1>18, <1>20, <1>21, <1>22, <1>23, <1>24, <1>25, <1>26
  DEF Next, ServerStep, UserStep, EventStep

LEMMA ContactsBegin ==
  ASSUME Init
  PROVE  ContactsInv
<1>a. PICK f : f = [m \in Members |-> IF m \in Membership[0] THEN 0 ELSE Absent]
  OBVIOUS
<1>b. PICK o : o = [name |-> 0, members |-> f]
  OBVIOUS
<1>1. PICK t : t = [users |-> friends, groups |-> [g \in Groups |-> o]]
               /\ db = [rows |-> t, kept |-> t, open |-> FALSE]
  BY <1>a, <1>b DEF Init
<1>2. friends \subseteq People /\ up = <<>> /\ down = <<>> /\ gets = [n \in Gets |-> NoGet] /\ known = friends
  BY DEF Init
<1>3. 0 \in Revisions
  BY BoundsAssumption DEF Revisions
<1>4. t \in Rows /\ WholeGroups(t) /\ t.users = friends
  <2>1. f \in [Members -> Revisions \cup {Absent}]
    BY <1>a, <1>3
  <2>2. o \in Group /\ o.name = 0 /\ o.members = f
    BY <1>b, <1>3, <2>1 DEF Group
  <2>3. IsWhole(o)
    BY <1>a, <2>2 DEF IsWhole
  <2> QED
    BY <1>1, <1>2, <2>2, <2>3 DEF Rows, WholeGroups
<1>5. db \in [rows : Rows, kept : Rows, open : BOOLEAN] /\ ~db.open /\ db.rows = t
  BY <1>1, <1>4
<1>6. users \in Seq(People) /\ \A p \in People : p \in friends <=> \E i \in DOMAIN users : users[i] = p
  BY <1>2, InOrderFacts DEF Init
<1>7. NoGet \in GetType /\ NoGet.state = "none"
  BY <1>3 DEF NoGet, Get, GetType
<1>8. \A n \in Gets : gets[n] = NoGet
  BY <1>2
<1>9. ServerTypes /\ WireTypes
  BY <1>2, <1>3, EmptySeq DEF Init, ServerTypes, WireTypes
<1>10. ReloadTypes
  <2>1. gets \in [Gets -> GetType]
    BY <1>2, <1>7
  <2>2. handlers = 0 /\ started = 0 /\ overlapped = FALSE
    BY DEF Init
  <2>3. overlapped \in BOOLEAN
    BY <2>2
  <2>4. handlers \in 0..MaxGets /\ started \in 0..MaxGets
    BY <2>2, BoundsAssumption
  <2> QED
    BY <2>1, <2>3, <2>4 DEF ReloadTypes
<1>11. ViewTypes
  BY DEF Init, ViewTypes
<1>12. ListTypes
  BY <1>5, <1>6, LenProperties, BoundsAssumption DEF Init, ListTypes
<1>13. TypeOK
  BY <1>9, <1>10, <1>11, <1>12, TypesParted
<1>14. KnownInv
  BY <1>2, <1>4, <1>5 DEF KnownInv
<1>15. DbInv /\ UsersShown
  BY <1>4, <1>5, <1>6 DEF DbInv, UsersShown
<1>16. AskInv
  BY <1>2, NoMail DEF Init, AskInv, RequestInv, Announced, Told
<1>17. HandlersInv
  BY <1>8 DEF Init, HandlersInv
<1>18. ListedInv
  BY <1>4, <1>5 DEF ListedInv, Tidings
<1>19. SelectionIsClicked /\ UnseenAreCounted
  BY FS_EmptySet DEF Init, SelectionIsClicked, UnseenAreCounted
<1> QED
  BY <1>13, <1>14, <1>15, <1>16, <1>17, <1>18, <1>19 DEF ContactsInv

LEMMA ContactsStep ==
  ASSUME ContactsInv, [Next]_vars
  PROVE  ContactsInv'
  BY TypeStep, KnownStep, TablesStep, AskStep, HandlersStep, ListedStep, UnseenStep DEF ContactsInv

LEMMA InvariantMeansAgreement ==
  ASSUME ContactsInv
  PROVE  ContactsAgree
<1>1. TypeOK /\ SelectionIsClicked /\ UnseenAreCounted
  BY DEF ContactsInv
<1>2. TablesAreWhole
  BY DEF ContactsInv, DbInv, KnownInv, WholeGroups, TablesAreWhole
<1>3. AnsweredOnce
  <2> SUFFICES ASSUME NEW p \in People PROVE Cardinality({i \in DOMAIN up : up[i].person = p}) <= 1
    BY DEF AnsweredOnce
  <2> DEFINE S == {i \in DOMAIN up : up[i].person = p}
  <2>1. \A i \in DOMAIN up : i \in 1..Len(up) /\ up[i] \in Mail
    BY <1>1, LenProperties DEF TypeOK
  <2>2. AtMostOne(up, MessageTypes, p)
    BY DEF ContactsInv, AskInv, RequestInv
  <2>3. \A i, j \in S : i = j
    BY <2>1, <2>2 DEF AtMostOne, About, Mail
  <2>4. S = {} \/ \E i : S = {i}
    BY <2>3
  <2> QED
    <3>1. CASE S = {}
      BY <3>1, FS_EmptySet
    <3>2. ASSUME NEW i, S = {i}
          PROVE  Cardinality(S) <= 1
      <4>1. Cardinality({i}) = 1
        BY FS_Singleton
      <4> QED
        BY <3>2, <4>1
    <3> QED
      BY <2>4, <3>1, <3>2
<1>4. FriendsAreListed
  <2> SUFFICES ASSUME Quiet, faults = 0, ~overlapped, NEW p \in friends
               PROVE  \E i \in DOMAIN users : users[i] = p
    BY DEF FriendsAreListed
  <2>1. Tidings(p) /\ p \in People
    BY DEF ContactsInv, ListedInv, TypeOK
  <2>2. ~Reported(p)
    BY NoMail DEF Quiet, Reported
  <2>3. \A n \in Gets : gets[n].state = "none"
    BY DEF Quiet, NoGet, Get
  <2>4. p \in db.rows.users
    BY <2>1, <2>2, <2>3 DEF Tidings
  <2> QED
    BY <2>1, <2>4 DEF ContactsInv, UsersShown
<1> QED
  BY <1>1, <1>2, <1>3, <1>4 DEF ContactsAgree

(* Whatever is reloaded while the user selects, answers and looks at       *)
(* requests, and whatever fails: the tables written by UserRepository and  *)
(* GroupRepository are whole (every group with the members of its answer,  *)
(* the users exactly those of the loaded answers, although members and     *)
(* friends leave), the selection of FriendListModel stays with             *)
(* its person, the badge counts the requests not looked at, a request is   *)
(* answered once, and in the end every friend is listed, unless something  *)
(* failed or reloads of NetworkManager overlapped.                         *)
THEOREM ContactsStayAgreed == Spec => []ContactsAgree
<1>1. Init => ContactsInv
  BY ContactsBegin
<1>2. ContactsInv /\ [Next]_vars => ContactsInv'
  BY ContactsStep
<1>3. ContactsInv => ContactsAgree
  BY InvariantMeansAgreement
<1> QED
  BY <1>1, <1>2, <1>3, PTL DEF Spec
===============================================================================
