-------------------------------- MODULE MCPosts --------------------------------
(* The posts for model checking: independent parts of one run, as in        *)
(* MCAccount.  Of the feeds, "writing" starts without posts and leaves out  *)
(* likes and pictures, "liking" has one post and leaves out the writing.    *)
EXTENDS PostFeeds, PostDetail, AvatarLoader

CONSTANT OldPost

VARIABLE part
allVars == <<postFeedVars, detailVars, avatarVars, part>>

PostsInit ==
  /\ part \in {"writing", "liking", "detail", "avatars"}
  /\ exists = IF part = "liking" THEN {OldPost} ELSE {}
  /\ PostFeedsInit /\ PostDetailInit /\ AvatarInit

PostsNext ==
  \/ /\ part \in {"writing", "liking"} /\ PostFeedsNext /\ UNCHANGED <<detailVars, avatarVars, part>>
     /\ part = "writing" => likes' = 0 /\ \A f \in Feeds, p \in Posts : ~ImageArrives(f, p) /\ ~ImageFails(f, p)
     /\ part = "liking" => form' = Empty
  \/ part = "detail" /\ PostDetailNext /\ UNCHANGED <<postFeedVars, avatarVars, part>>
  \/ part = "avatars" /\ AvatarNext /\ UNCHANGED <<postFeedVars, detailVars, part>>

PostsSpec == PostsInit /\ [][PostsNext]_allVars /\ AvatarFairness
===============================================================================
