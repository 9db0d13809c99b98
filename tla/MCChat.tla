--------------------------------- MODULE MCChat ---------------------------------
(* ChatList, ChatScroll and the plain list of SmoothScroll for model        *)
(* checking: independent parts of one run, as in MCAccount.                 *)
EXTENDS ChatList, ChatScroll

MCTimes == {0, 1}

VARIABLE part
allVars == <<chatListVars, chatScrollVars, part>>

ChatInit == ChatListInit /\ ChatScrollInit /\ part \in {"list", "scroll", "plain"}

ChatNext ==
  \/ part = "list" /\ ChatListNext /\ UNCHANGED <<chatScrollVars, part>>
  \/ part = "scroll" /\ ChatScrollNext /\ UNCHANGED <<chatListVars, part>>
  \/ /\ part = "plain" /\ ScrollNext /\ UNCHANGED <<chatListVars, part>>
     /\ UNCHANGED <<unreadMessageCount, follows, jumps, toShow, shrunk>>

ChatSpec == ChatInit /\ [][ChatNext]_allVars /\ ChatFairness
===============================================================================
