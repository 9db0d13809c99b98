------------------------------ MODULE PostDetail ------------------------------
(* One post over the feeds: the grey overlay, the view that an answer of    *)
(* the server opens, its comments, its heart and how it is closed           *)
(* (PostApplication.cpp, PostDetailView.cpp).  A comment is shown before    *)
(* the server has it.                                                       *)
EXTENDS Naturals, SequencesExt

CONSTANTS
  Shown,           \* posts that may be clicked on
  Comments,        \* texts of comments
  MaxGets,         \* bound: posts clicked on
  MaxDetailFaults  \* bound: requests that fail

ASSUME PostDetailAssumption == MaxGets \in Nat /\ MaxDetailFaults \in Nat

VARIABLES
  overlay,
  detail,          \* the view, if there is one
  closing,         \* the animation back to the item runs
  gets,            \* requests for posts, in the order of the clicks
  commentSends,
  serverComments,
  clicks, detailFaults,
  clicked, written, late   \* history: the last click, comments written, and
                           \* whether an answer to an overlay dismissed went
                           \* into the view there is

detailVars == <<overlay, detail, closing, gets, commentSends, serverComments,
                clicks, detailFaults, clicked, written, late>>

NoPost == "no post"
NoDetail == <<>>
Open == detail # NoDetail
View == detail[1]
Entries == [post : Shown, text : Comments]
Total(p) == Len(serverComments[p])

PostDetailInit ==
  /\ overlay = FALSE /\ detail = NoDetail /\ closing = FALSE /\ gets = <<>> /\ commentSends = {}
  /\ serverComments = [p \in Shown |-> <<>>]
  /\ clicks = 0 /\ detailFaults = 0 /\ clicked = NoPost /\ written = {} /\ late = FALSE

DetailFault == detailFaults < MaxDetailFaults /\ detailFaults' = detailFaults + 1

-----------------------------------------------------------------------------
(* onPostClickedWithGeometry: under the overlay no item can be clicked; the *)
(* view of an answer that came late does not cover them all.                *)
OnPostClicked ==
  /\ ~overlay /\ clicks < MaxGets /\ clicks' = clicks + 1
  /\ overlay' = TRUE
  /\ \E p \in Shown : /\ gets' = Append(gets, [post |-> p, served |-> FALSE, comments |-> <<>>, dismissed |-> FALSE])
                      /\ clicked' = p
  /\ UNCHANGED <<detail, closing, commentSends, serverComments, detailFaults, written, late>>

ServeGet(i) ==
  /\ i \in 1..Len(gets) /\ ~gets[i].served
  /\ gets' = [gets EXCEPT ![i].served = TRUE, ![i].comments = serverComments[gets[i].post]]
  /\ UNCHANGED <<overlay, detail, closing, commentSends, serverComments, clicks, detailFaults, clicked, written, late>>

(* setPostData: the post, and widgets for its comments, the last one of the *)
(* list first; those of an earlier post are not removed.                    *)
SetPostData(before, post, comments) ==
  [post |-> post,
   comments |-> before \o Reverse([i \in 1..Len(comments) |-> [post |-> post, text |-> comments[i]]]),
   count |-> Len(comments)]

(* The answer opens the view or goes into the one there is.                 *)
GetSucceeds(i) ==
  /\ i \in 1..Len(gets) /\ gets[i].served /\ gets' = RemoveAt(gets, i)
  /\ detail' = <<SetPostData(IF Open THEN View.comments ELSE <<>>, gets[i].post, gets[i].comments)>>
  /\ late' = (late \/ gets[i].dismissed)
  /\ UNCHANGED <<overlay, closing, commentSends, serverComments, clicks, detailFaults, clicked, written>>

(* The overlay stays until it is clicked.                                   *)
GetFails(i) ==
  /\ i \in 1..Len(gets) /\ gets' = RemoveAt(gets, i) /\ DetailFault
  /\ UNCHANGED <<overlay, detail, closing, commentSends, serverComments, clicks, clicked, written, late>>

-----------------------------------------------------------------------------
(* Closing.                                                                 *)

Dismissed == [i \in 1..Len(gets) |-> [gets[i] EXCEPT !.dismissed = TRUE]]

(* eventFilter.                                                             *)
OnOverlayClicked ==
  /\ overlay
  /\ \/ Open /\ ~closing /\ closing' = TRUE /\ UNCHANGED <<overlay, gets>>
     \/ ~Open /\ overlay' = FALSE /\ gets' = Dismissed /\ UNCHANGED closing
  /\ UNCHANGED <<detail, commentSends, serverComments, clicks, detailFaults, clicked, written, late>>

(* Faulty: the view is only hidden with the overlay and is used again.      *)
AnimationEnds_KeepsView ==
  /\ closing /\ closing' = FALSE
  /\ overlay' = FALSE /\ gets' = Dismissed
  /\ UNCHANGED <<detail, commentSends, serverComments, clicks, detailFaults, clicked, written, late>>

(* The view is deleted and with it the requests it had under way: the       *)
(* server may still carry them out.                                         *)
AnimationEnds ==
  /\ closing /\ closing' = FALSE
  /\ overlay' = FALSE /\ gets' = Dismissed
  /\ detail' = NoDetail
  /\ \E aborted \in SUBSET commentSends : commentSends' = commentSends \ aborted
  /\ late' = FALSE
  /\ UNCHANGED <<serverComments, clicks, detailFaults, clicked, written>>

-----------------------------------------------------------------------------
(* Comments: returnPressed adds the widget, then sends.  Each text is       *)
(* written once, so that it can be told apart.                              *)

WriteComment ==
  /\ Open
  /\ \E t \in Comments \ {w.text : w \in written} :
       /\ detail' = <<[View EXCEPT !.comments = Append(@, [post |-> View.post, text |-> t]), !.count = @ + 1]>>
       /\ commentSends' = commentSends \cup {[post |-> View.post, text |-> t, served |-> FALSE]}
       /\ written' = written \cup {[post |-> View.post, text |-> t]}
  /\ UNCHANGED <<overlay, closing, gets, serverComments, clicks, detailFaults, clicked, late>>

ServeComment(c) ==
  /\ c \in commentSends /\ ~c.served
  /\ commentSends' = (commentSends \ {c}) \cup {[c EXCEPT !.served = TRUE]}
  /\ serverComments' = [serverComments EXCEPT ![c.post] = Append(@, c.text)]
  /\ UNCHANGED <<overlay, detail, closing, gets, clicks, detailFaults, clicked, written, late>>

(* The answer is only told to the user: a comment that failed stays.        *)
CommentAnswered(c) ==
  /\ c \in commentSends /\ commentSends' = commentSends \ {c}
  /\ \/ c.served /\ UNCHANGED detailFaults
     \/ DetailFault
  /\ UNCHANGED <<overlay, detail, closing, gets, serverComments, clicks, clicked, written, late>>

PostDetailNext ==
  \/ OnPostClicked \/ OnOverlayClicked \/ AnimationEnds \/ WriteComment
  \/ \E i \in 1..MaxGets : ServeGet(i) \/ GetSucceeds(i) \/ GetFails(i)
  \/ \E c \in commentSends : ServeComment(c) \/ CommentAnswered(c)

PostDetailSpec == PostDetailInit /\ [][PostDetailNext]_detailVars

-----------------------------------------------------------------------------
PostDetailTypeOK ==
  /\ overlay \in BOOLEAN /\ closing \in BOOLEAN /\ late \in BOOLEAN
  /\ Open => View \in [post : Shown, comments : Seq(Entries), count : Nat]
  /\ \A i \in 1..Len(gets) : gets[i] \in [post : Shown, served : BOOLEAN, comments : Seq(Comments), dismissed : BOOLEAN]
  /\ commentSends \subseteq [post : Shown, text : Comments, served : BOOLEAN]
  /\ serverComments \in [Shown -> Seq(Comments)]
  /\ clicks \in 0..MaxGets /\ detailFaults \in 0..MaxDetailFaults
  /\ clicked \in Shown \cup {NoPost} /\ written \subseteq Entries

(* A view lies on the overlay, so that it can be closed, and has the post   *)
(* that was clicked last; unless an answer whose overlay had been dismissed *)
(* went into this very view.                                                *)
DetailIsClicked == (Open /\ ~late) => overlay /\ View.post = clicked

(* Only comments of the post are listed, each once, and as many as are      *)
(* counted; with the same exception.                                        *)
CommentsAreOfPost ==
  (Open /\ ~late) =>
    /\ View.count = Len(View.comments)
    /\ \A i, j \in 1..Len(View.comments) : /\ View.comments[i].post = View.post
                                           /\ View.comments[i] = View.comments[j] => i = j

(* The server never has a comment under another post than the one it was    *)
(* written under, however late the posts came, and never has it twice.      *)
CommentsReachTheirPost ==
  \A p \in Shown : \A i, j \in 1..Total(p) :
    /\ [post |-> p, text |-> serverComments[p][i]] \in written
    /\ serverComments[p][i] = serverComments[p][j] => i = j

(* What is opened, listed and written belongs to the post that was clicked. *)
DetailIsOfPost ==
  /\ PostDetailTypeOK
  /\ DetailIsClicked
  /\ CommentsAreOfPost
  /\ CommentsReachTheirPost
===============================================================================
