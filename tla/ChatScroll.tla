------------------------------- MODULE ChatScroll -------------------------------
(* The scrolling of a conversation (ChatArea.cpp with ChatListView.cpp):    *)
(* what follows a new message, and the count of unread ones.  The last row  *)
(* of the view is the empty space under the input bar; rows counts messages *)
(* and that space.  Distances of the code in rows of about 200 pixels.      *)
EXTENDS SmoothScroll, Integers

CONSTANTS
  Near,       \* isNearBottom, 250 pixels
  Follow      \* onModelRowsChanged, 180 pixels

(* The first message brings two rows.                                       *)
ASSUME ChatScrollAssumption == Near \in Nat /\ Follow \in Nat /\ MaxRows >= 2

VARIABLES
  unreadMessageCount,
  follows,     \* ChatListView::scrollToBottom timers that are running, 50 ms
  jumps,       \* ChatArea::scrollToBottom timers, 0 ms
  toShow,      \* history: message to be shown by itself, 0 for none
  shrunk       \* history: rows were removed while messages were unread

chatScrollVars == <<scrollVars, unreadMessageCount, follows, jumps, toShow, shrunk>>

ChatScrollInit ==
  /\ ScrollInit /\ unreadMessageCount = 0 /\ follows = 0 /\ jumps = 0
  /\ toShow = 0 /\ shrunk = FALSE

DistanceToBottom == view.max - view.value
IsNearBottom == DistanceToBottom <= Near
IsScrollAtBottom(s) == s.value >= s.max

(* A value of the bar that is new is told to ChatArea::onScrollValueChanged. *)
OnScrollValueChanged ==
  unreadMessageCount' =
    IF view'.value # view.value /\ IsScrollAtBottom(view') THEN 0 ELSE unreadMessageCount

Reached(s, row) == row <= s.value + Viewport

(* Of a step the program takes, and of one that overrides the scrolling.    *)
StillToShow == toShow' = IF toShow # 0 /\ Reached(view', toShow) THEN 0 ELSE toShow
NothingToShow == toShow' = 0

(* Rows were removed and the bar may keep its value and tell nothing.       *)
Unannounced == unreadMessageCount' > 0 \/ view'.max > Excess(rows')
Shrink == shrunk' = Unannounced
NotShrunk == shrunk' = (shrunk /\ Unannounced)

(* ChatListView::onModelRowsChanged, for all rows of one message at once.   *)
RowsChanged ==
  /\ checks < MaxTimers /\ checks' = checks + 1
  /\ follows < MaxTimers /\ follows' = follows + IF DistanceToBottom <= Follow THEN 1 ELSE 0

ScrollToBottom(s, r) ==
  LET t == LaidOut(s, r)
  IN IF t.max = 0 THEN t ELSE [t EXCEPT !.target = t.max, !.smooth = t.value]

-----------------------------------------------------------------------------
(* Messages.  The first brings the space at the bottom with it.             *)

OnMessageReceived ==
  /\ rows < MaxRows /\ rows' = IF rows = 0 THEN 2 ELSE rows + 1
  /\ RowsChanged
  /\ IF IsNearBottom THEN jumps < MaxTimers /\ jumps' = jumps + 1 /\ UNCHANGED unreadMessageCount
     ELSE unreadMessageCount' = unreadMessageCount + 1 /\ UNCHANGED jumps
  /\ UNCHANGED <<view, inputs, toShow>> /\ NotShrunk

(* Faulty: the own message is handled as another's.                         *)
SendMessage_OfAnother ==
  /\ rows < MaxRows /\ rows' = IF rows = 0 THEN 2 ELSE rows + 1
  /\ RowsChanged
  /\ jumps' = jumps + IF IsNearBottom THEN 1 ELSE 0
  /\ toShow' = rows' - 1
  /\ UNCHANGED <<view, inputs, unreadMessageCount, shrunk>>

(* onSendText and onSendImage.                                              *)
SendMessage ==
  /\ rows < MaxRows /\ rows' = IF rows = 0 THEN 2 ELSE rows + 1
  /\ RowsChanged
  /\ jumps < MaxTimers /\ jumps' = jumps + 1
  /\ toShow' = rows' - 1
  /\ UNCHANGED <<view, inputs, unreadMessageCount, shrunk>>

(* Another conversation: the list is cleared and filled, the count and the  *)
(* timers stay.                                                             *)
InitMessage ==
  /\ inputs < MaxInputs /\ inputs' = inputs + 1
  /\ rows' \in {0} \cup 2..MaxRows
  /\ RowsChanged /\ NothingToShow
  /\ UNCHANGED <<view, unreadMessageCount, jumps>> /\ Shrink

RemoveMessage ==
  /\ inputs < MaxInputs /\ inputs' = inputs + 1
  /\ rows > 1 /\ rows' = rows - 1
  /\ RowsChanged /\ NothingToShow
  /\ UNCHANGED <<view, unreadMessageCount, jumps>> /\ Shrink

-----------------------------------------------------------------------------
(* Timers and layout.                                                       *)

(* ChatArea::scrollToBottom.                                                *)
AreaScrollToBottom ==
  view' = ScrollToBottom(view, rows) /\ unreadMessageCount' = 0 /\ StillToShow

JumpTimer ==
  /\ jumps > 0 /\ jumps' = jumps - 1
  /\ AreaScrollToBottom /\ UNCHANGED <<rows, checks, inputs, follows>> /\ NotShrunk

(* Clicking the notice about new messages.                                  *)
OnNewMessageNotifierClicked ==
  /\ inputs < MaxInputs /\ inputs' = inputs + 1 /\ unreadMessageCount > 0
  /\ view' = ScrollToBottom(view, rows) /\ unreadMessageCount' = 0
  /\ toShow' = IF rows > 1 /\ ~Reached(view, rows - 1) THEN rows - 1 ELSE 0
  /\ UNCHANGED <<rows, checks, follows, jumps>> /\ NotShrunk

FollowTimer ==
  /\ follows > 0 /\ follows' = follows - 1
  /\ view' = ScrollToBottom(view, rows) /\ OnScrollValueChanged /\ StillToShow
  /\ UNCHANGED <<rows, checks, inputs, jumps>> /\ NotShrunk

(* Steps of the plain list, with what ChatArea makes of the new value.      *)
OnScroll == OnScrollValueChanged /\ StillToShow /\ UNCHANGED <<follows, jumps>> /\ NotShrunk

ChatDelayedLayout == DelayedLayout /\ OnScroll
ChatCheckTimer == CheckTimer /\ OnScroll
ChatAnimationStep == AnimationStep /\ OnScroll

(* The user's own scrolling.                                                *)
UserScrolls ==
  /\ WheelEvent \/ Drag
  /\ OnScrollValueChanged /\ NothingToShow /\ UNCHANGED <<follows, jumps>> /\ NotShrunk

ChatScrollNext ==
  \/ OnMessageReceived \/ SendMessage \/ InitMessage \/ RemoveMessage
  \/ JumpTimer \/ OnNewMessageNotifierClicked \/ FollowTimer
  \/ ChatDelayedLayout \/ ChatCheckTimer \/ ChatAnimationStep \/ UserScrolls

ChatFairness ==
  /\ WF_chatScrollVars(JumpTimer) /\ WF_chatScrollVars(FollowTimer)
  /\ WF_chatScrollVars(ChatCheckTimer) /\ WF_chatScrollVars(ChatDelayedLayout)
  /\ WF_chatScrollVars(ChatAnimationStep)

ChatScrollSpec == ChatScrollInit /\ [][ChatScrollNext]_chatScrollVars /\ ChatFairness

-----------------------------------------------------------------------------
ChatScrollTypeOK ==
  /\ ScrollTypeOK
  /\ unreadMessageCount \in Nat /\ follows \in 0..MaxTimers /\ jumps \in 0..MaxTimers
  /\ toShow \in 0..MaxRows /\ shrunk \in BOOLEAN

(* The notice about unread messages is shown only while the end of the      *)
(* conversation is out of the view; removing rows can leave it there, as    *)
(* the bar tells no change of its range.                                    *)
UnreadIsBelow == unreadMessageCount > 0 /\ ~shrunk => ~IsScrollAtBottom(view)

(* A message just sent, or the newest when the notice was clicked, is       *)
(* scrolled into the view, however far away it was and whatever arrives     *)
(* meanwhile, unless the user scrolls.                                      *)
OwnMessageIsShown == (toShow # 0) ~> (toShow = 0)

(* Bar, view and the notice of unread messages agree.                       *)
ViewIsTold ==
  /\ ChatScrollTypeOK
  /\ BarFollowsView
  /\ UnreadIsBelow
===============================================================================
