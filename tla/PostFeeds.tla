------------------------------ MODULE PostFeeds -------------------------------
(* The pages of the posts: the bar, the two feeds and their likes, and the  *)
(* page that writes a post (PostApplication.cpp, PostApplicationBar.cpp,    *)
(* PostFeedPage.cpp, PostPreviewItem.cpp, PostCreatePage.cpp).  Each feed   *)
(* keeps a list it once fetched; fetching, liking and posting are requests  *)
(* whose answers may come in any order.  A request is carried out by the    *)
(* server at some moment before its answer.                                 *)
EXTENDS Naturals, SequencesExt

CONSTANTS
  Posts,
  Texts,           \* what may be written
  MaxLoads,        \* bound: fetches of a feed under way
  MaxLikes,        \* bound: clicks on a heart
  MaxFaults        \* bound: requests that fail

ASSUME PostFeedsAssumption ==
  MaxLoads \in Nat /\ MaxLikes \in Nat /\ MaxFaults \in Nat

VARIABLES
  selectedItem, currentPage, visible,
  firstShow, needReload, loads, items,   \* of the feeds
  form, sends,
  exists, liked,                          \* the server
  likes, faults,
  told, crossed, blurred                  \* history

postFeedVars == <<selectedItem, currentPage, visible, firstShow, needReload, loads, items,
                  form, sends, exists, liked, likes, faults, told, crossed, blurred>>

Home == 0
Feeds == {0, 1}
CreatePage == 2
BarItems == 0..4
Empty == "empty"
NotServed == <<>>
Lists == UNION {[S -> BOOLEAN] : S \in SUBSET Posts}
Clicks == [old : BOOLEAN, served : BOOLEAN, alone : BOOLEAN]
PreviewItem(heart) == [liked |-> heart, shown |-> FALSE, image |-> TRUE, pending |-> <<>>]

PostFeedsInit ==
  /\ selectedItem = Home /\ currentPage = Home /\ visible = FALSE
  /\ firstShow = [f \in Feeds |-> TRUE] /\ needReload = [f \in Feeds |-> FALSE]
  /\ loads = [f \in Feeds |-> <<>>] /\ items = [f \in Feeds |-> <<>>]
  /\ form = Empty /\ sends = {} /\ exists \in SUBSET Posts /\ liked = [p \in Posts |-> FALSE]
  /\ likes = 0 /\ faults = 0 /\ told = {} /\ crossed = FALSE /\ blurred = {}

serverVars == <<exists, liked>>
historyVars == <<told, crossed, blurred>>
Fault == faults < MaxFaults /\ faults' = faults + 1

-----------------------------------------------------------------------------
(* Showing pages.                                                           *)

(* The page p of the stack, v: the view of the posts is the one on screen.  *)
(* A feed that appears gets a showEvent, and with it its widgets; reload is *)
(* a reloadData of the home page that follows.                              *)
ShowPage(p, v, reload) ==
  LET appears == {f \in Feeds : v /\ p = f /\ ~(visible /\ currentPage = f)}
      fetches(f) == (IF f \in appears /\ (firstShow[f] \/ needReload[f]) THEN <<NotServed>> ELSE <<>>)
                    \o (IF reload /\ f = Home /\ v THEN <<NotServed>> ELSE <<>>)
  IN /\ currentPage' = p /\ visible' = v
     /\ needReload' = IF reload THEN [needReload EXCEPT ![Home] = TRUE] ELSE needReload
     /\ firstShow' = [f \in Feeds |-> firstShow[f] /\ f \notin appears]
     /\ loads' = [f \in Feeds |-> loads[f] \o fetches(f)]
     /\ \A f \in Feeds : Len(loads'[f]) <= MaxLoads
     /\ items' = [f \in Feeds |-> IF f \in appears
                                  THEN [q \in DOMAIN items[f] |-> [items[f][q] EXCEPT !.shown = TRUE]]
                                  ELSE items[f]]

(* The main window turns to the posts or away from them.                    *)
Navigate ==
  /\ ShowPage(currentPage, ~visible, FALSE)
  /\ UNCHANGED <<selectedItem, form, sends, serverVars, likes, faults, historyVars>>

(* The bar; the last two of its items have no page.                         *)
OnItemClicked ==
  /\ visible
  /\ \E i \in BarItems \ {selectedItem} :
       /\ selectedItem' = i
       /\ ShowPage(IF i <= CreatePage THEN i ELSE currentPage, visible, FALSE)
  /\ UNCHANGED <<form, sends, serverVars, likes, faults, historyVars>>

-----------------------------------------------------------------------------
(* Fetching.                                                                *)

pageVars == <<selectedItem, currentPage, visible, firstShow>>

ServeLoad(f, i) ==
  /\ i \in 1..Len(loads[f]) /\ loads[f][i] = NotServed
  /\ loads' = [loads EXCEPT ![f][i] = <<[p \in exists |-> liked[p]]>>]
  /\ UNCHANGED <<pageVars, needReload, items, form, sends, serverVars, likes, faults, historyVars>>

(* setPosts: new widgets for all.  Those before are deleted, and with them  *)
(* the requests of their hearts, which the server may carry out or not.     *)
LoadSucceeds(f, i) ==
  /\ i \in 1..Len(loads[f]) /\ loads[f][i] # NotServed
  /\ LET list == loads[f][i][1]
         open == {p \in DOMAIN items[f] : \E k \in 1..Len(items[f][p].pending) : ~items[f][p].pending[k].served}
     IN \E done \in SUBSET open :
          /\ items' = [items EXCEPT ![f] = [p \in DOMAIN list |-> PreviewItem(list[p])]]
          /\ liked' = [p \in Posts |-> IF p \in done THEN ~liked[p] ELSE liked[p]]
          /\ blurred' = {b \in blurred : b[1] # f}
                          \cup {<<f, p>> : p \in {q \in DOMAIN list : list[q] # liked'[q]}}
                          \cup (Feeds \X done)
  /\ needReload' = [needReload EXCEPT ![f] = FALSE]
  /\ loads' = [loads EXCEPT ![f] = RemoveAt(@, i)]
  /\ UNCHANGED <<pageVars, form, sends, exists, likes, faults, told, crossed>>

(* A page whose first fetch failed stays empty: firstShow is over.          *)
LoadFails(f, i) ==
  /\ i \in 1..Len(loads[f]) /\ Fault
  /\ loads' = [loads EXCEPT ![f] = RemoveAt(@, i)]
  /\ UNCHANGED <<pageVars, needReload, items, form, sends, serverVars, likes, historyVars>>

(* downloadAndSetupImages: a widget added to a page on screen appears with  *)
(* its picture; without one it waits until the page is shown again.         *)
ImageArrives(f, p) ==
  /\ p \in DOMAIN items[f] /\ items[f][p].image
  /\ items' = [items EXCEPT ![f][p].image = FALSE, ![f][p].shown = TRUE]
  /\ UNCHANGED <<pageVars, needReload, loads, form, sends, serverVars, likes, faults, historyVars>>

ImageFails(f, p) ==
  /\ p \in DOMAIN items[f] /\ items[f][p].image /\ Fault
  /\ items' = [items EXCEPT ![f][p].image = FALSE]
  /\ UNCHANGED <<pageVars, needReload, loads, form, sends, serverVars, likes, historyVars>>

-----------------------------------------------------------------------------
(* Likes.                                                                   *)

OnClickLike(f, p) ==
  /\ visible /\ currentPage = f /\ p \in DOMAIN items[f] /\ items[f][p].shown
  /\ likes < MaxLikes /\ likes' = likes + 1
  /\ LET item == items[f][p]
         click == [old |-> item.liked, served |-> FALSE, alone |-> item.pending = <<>>]
     IN items' = [items EXCEPT ![f][p] =
          [item EXCEPT !.liked = ~item.liked,
                       !.pending = Append([k \in 1..Len(item.pending) |-> [item.pending[k] EXCEPT !.alone = FALSE]],
                                          click)]]
  /\ UNCHANGED <<pageVars, needReload, loads, form, sends, serverVars, faults, historyVars>>

(* The server turns the heart over.                                         *)
ServeLike(f, p, k) ==
  /\ p \in DOMAIN items[f] /\ k \in 1..Len(items[f][p].pending) /\ ~items[f][p].pending[k].served
  /\ items' = [items EXCEPT ![f][p].pending[k].served = TRUE]
  /\ liked' = [liked EXCEPT ![p] = ~@]
  /\ blurred' = blurred \cup {<<g, p>> : g \in Feeds \ {f}}
  /\ UNCHANGED <<pageVars, needReload, loads, form, sends, exists, likes, faults, told, crossed>>

LikeSucceeds(f, p, k) ==
  /\ p \in DOMAIN items[f] /\ k \in 1..Len(items[f][p].pending) /\ items[f][p].pending[k].served
  /\ items' = [items EXCEPT ![f][p].pending = RemoveAt(@, k)]
  /\ UNCHANGED <<pageVars, needReload, loads, form, sends, serverVars, likes, faults, historyVars>>

(* Faulty: the heart is left as it was clicked.                             *)
LikeFails_NotRolledBack(f, p, k) ==
  /\ p \in DOMAIN items[f] /\ k \in 1..Len(items[f][p].pending) /\ Fault
  /\ LET pending == items[f][p].pending
     IN /\ items' = [items EXCEPT ![f][p].pending = RemoveAt(@, k)]
        /\ blurred' = IF pending[k].served \/ ~pending[k].alone THEN blurred \cup {<<f, p>>} ELSE blurred
  /\ UNCHANGED <<pageVars, needReload, loads, form, sends, serverVars, likes, told, crossed>>

(* The heart goes back to what it was before this click, whatever was       *)
(* clicked since.                                                           *)
LikeFails(f, p, k) ==
  /\ p \in DOMAIN items[f] /\ k \in 1..Len(items[f][p].pending) /\ Fault
  /\ LET pending == items[f][p].pending
     IN /\ items' = [items EXCEPT ![f][p] = [@ EXCEPT !.liked = pending[k].old,
                                                      !.pending = RemoveAt(pending, k)]]
        /\ blurred' = IF pending[k].served \/ ~pending[k].alone THEN blurred \cup {<<f, p>>} ELSE blurred
  /\ UNCHANGED <<pageVars, needReload, loads, form, sends, serverVars, likes, told, crossed>>

-----------------------------------------------------------------------------
(* Writing a post.                                                          *)

EditForm ==
  /\ visible /\ currentPage = CreatePage
  /\ \E t \in (Texts \cup {Empty}) \ {form} : form' = t
  /\ UNCHANGED <<pageVars, needReload, loads, items, sends, serverVars, likes, faults, historyVars>>

(* The button stays enabled: the same text may be sent again.               *)
SendPost ==
  /\ visible /\ currentPage = CreatePage /\ form # Empty
  /\ \E p \in Posts \ (exists \cup {s.post : s \in sends}) :
       sends' = sends \cup {[post |-> p, served |-> FALSE]}
  /\ UNCHANGED <<pageVars, needReload, loads, items, form, serverVars, likes, faults, historyVars>>

ServeSend(s) ==
  /\ s \in sends /\ ~s.served /\ sends' = (sends \ {s}) \cup {[s EXCEPT !.served = TRUE]}
  /\ exists' = exists \cup {s.post}
  /\ UNCHANGED <<pageVars, needReload, loads, items, form, liked, likes, faults, historyVars>>

(* The stack, the bar, then the home page.                                  *)
OnPostCreated == ShowPage(Home, visible, TRUE) /\ selectedItem' = Home

(* The form is emptied whatever it holds by now.                            *)
SendSucceeds(s) ==
  /\ s \in sends /\ s.served /\ sends' = sends \ {s}
  /\ OnPostCreated
  /\ form' = Empty
  /\ told' = told \cup {s.post}
  /\ crossed' = (loads[Home] # <<>>)
  /\ UNCHANGED <<serverVars, likes, faults, blurred>>

SendFails(s) ==
  /\ s \in sends /\ sends' = sends \ {s} /\ Fault
  /\ UNCHANGED <<pageVars, needReload, loads, items, form, serverVars, likes, historyVars>>

-----------------------------------------------------------------------------
LoadStep(f, i) == ServeLoad(f, i) \/ LoadSucceeds(f, i) \/ LoadFails(f, i)
LikeStep(f, p, k) == ServeLike(f, p, k) \/ LikeSucceeds(f, p, k) \/ LikeFails(f, p, k)
SendStep(s) == ServeSend(s) \/ SendSucceeds(s) \/ SendFails(s)

PostFeedsNext ==
  \/ Navigate \/ OnItemClicked \/ EditForm \/ SendPost
  \/ \E s \in sends : SendStep(s)
  \/ \E f \in Feeds : \/ \E i \in 1..MaxLoads : LoadStep(f, i)
                      \/ \E p \in Posts : \/ ImageArrives(f, p) \/ ImageFails(f, p) \/ OnClickLike(f, p)
                                          \/ \E k \in 1..MaxLikes : LikeStep(f, p, k)

PostFeedsSpec == PostFeedsInit /\ [][PostFeedsNext]_postFeedVars

-----------------------------------------------------------------------------
PostFeedsTypeOK ==
  /\ selectedItem \in BarItems /\ currentPage \in 0..CreatePage /\ visible \in BOOLEAN
  /\ firstShow \in [Feeds -> BOOLEAN] /\ needReload \in [Feeds -> BOOLEAN]
  /\ \A f \in Feeds :
       /\ Len(loads[f]) <= MaxLoads /\ \A i \in 1..Len(loads[f]) : loads[f][i] = NotServed \/ loads[f][i][1] \in Lists
       /\ DOMAIN items[f] \subseteq exists
       /\ \A p \in DOMAIN items[f] : /\ items[f][p].liked \in BOOLEAN /\ items[f][p].shown \in BOOLEAN
                                     /\ items[f][p].image \in BOOLEAN
                                     /\ \A k \in 1..Len(items[f][p].pending) : items[f][p].pending[k] \in Clicks
  /\ form \in Texts \cup {Empty}
  /\ sends \subseteq [post : Posts, served : BOOLEAN]
  /\ exists \subseteq Posts /\ liked \in [Posts -> BOOLEAN] /\ likes \in 0..MaxLikes /\ faults \in 0..MaxFaults
  /\ told \subseteq exists /\ crossed \in BOOLEAN /\ blurred \subseteq (Feeds \X Posts)

(* The item the bar marks is the page on the stack, also after the answer   *)
(* to a post has turned to the home page from anywhere.                     *)
BarShowsPage == selectedItem <= CreatePage => currentPage = selectedItem

(* A post whose success was reported is on the home page, or the page knows *)
(* that it is old or is fetching; unless a fetch that began before was      *)
(* still under way when the last success was reported: its answer may be    *)
(* the last to come.                                                        *)
CreatedIsListed ==
  crossed \/ \A p \in told : p \in DOMAIN items[Home] \/ needReload[Home] \/ loads[Home] # <<>>

(* With no click under way, a heart is what the server has; unless a list   *)
(* was answered before the click it crosses, the same post was liked in the *)
(* other feed, or a failure crossed another click or came after the deed.   *)
HeartsAgree ==
  \A f \in Feeds : \A p \in DOMAIN items[f] :
    (items[f][p].pending = <<>> /\ <<f, p>> \notin blurred) => items[f][p].liked = liked[p]

(* Bar, pages and hearts agree with each other and with the server.         *)
FeedsAgree ==
  /\ PostFeedsTypeOK
  /\ BarShowsPage
  /\ CreatedIsListed
  /\ HeartsAgree
===============================================================================
