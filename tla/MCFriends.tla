------------------------------- MODULE MCFriends -------------------------------
(* Contacts and FriendSearch for model checking: independent parts of one  *)
(* run, as in MCAccount.  Searching and applying only meet in the window,  *)
(* so they are two parts: "search" opens no ApplyWindow, "apply" makes one *)
(* search.  Contacts has three, each of which leaves out what the others   *)
(* are about: "groups" change and rows are selected; a friend may be       *)
(* "leaving", of whom the user asked none; "pages" are opened.             *)
EXTENDS Contacts, FriendSearch
MCPeople   == 1..2
MCKeywords == 1..2

(* One member leaves the groups and another one comes.                     *)
MCMembers    == 1..3
MCMembership == [rev \in 0..1 |-> {rev + 1, rev + 2}]

VARIABLE part
allVars == <<vars, friendSearchVars, part>>

FriendsInit ==
  /\ FriendSearchInit /\ Init
  /\ \/ part \in {"groups", "pages"}
     \/ part = "leaving" /\ applied = {}
     \/ part \in {"search", "apply"} /\ friends = {} /\ applied = {}

FriendsNext ==
  \/ /\ Next /\ UNCHANGED <<friendSearchVars, part>>
     /\ \/ part = "groups" /\ left' = {} /\ page' = "default"
        \/ part = "leaving" /\ revision' = 0 /\ page' = "default" /\ selectedIndex' = 0
        \/ part = "pages" /\ revision' = 0 /\ left' = {} /\ selectedIndex' = 0
  \/ /\ FriendSearchNext /\ UNCHANGED <<vars, part>>
     /\ \/ part = "search" /\ windowCount' = 0 /\ sends' = 0
        \/ part = "apply" /\ searches' <= 1 /\ searchType' = "All" /\ searchText' \in {0, 1}

FriendsSpec == FriendsInit /\ [][FriendsNext]_allVars /\ Fairness
===============================================================================
