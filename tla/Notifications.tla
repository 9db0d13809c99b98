----------------------------- MODULE Notifications -----------------------------
(* NotificationManager: one small window for all short messages, moved down  *)
(* into sight and up again by timers.  A message that comes while another is *)
(* shown tries again until it can be shown.                                  *)
(*                                                                           *)
(* Time passes in units of 50 ms.  A message goes to a window of the program *)
(* ("target", nearly all of them) or to the top of the screen ("screen").    *)
EXTENDS Naturals, Sequences, FiniteSets

CONSTANT MaxNotices   \* bound: messages

ASSUME NotificationsAssumption == MaxNotices \in Nat

VARIABLES
  notices,            \* kinds of the messages asked for so far, in order
  isShowing, text,    \* isShowing; messageLabel
  inSight,            \* where the last animation moves the window
  current,            \* the message shown last
  timers,             \* single shots: what for, of which message, when
  begun               \* history: messages that were shown

noticeVars == <<notices, isShowing, text, inSight, current, timers, begun>>

Again      == 6       \* 300 ms: try again
Stay       == 30      \* 1500 ms: a message in a window stays
SlideAway  == 5       \* 250 ms: then it is hidden
ScreenStay == 60      \* 3000 ms: a message on the screen stays

Timer(what, n, left) == [for |-> what, of |-> n, left |-> left]
Purposes == {"again", "stay", "away", "screenStay"}
Pending(what) == {t \in timers : t.for = what}

NotificationsInit ==
  /\ notices = <<>> /\ isShowing = FALSE /\ text = 0 /\ inSight = FALSE
  /\ current = 0 /\ timers = {} /\ begun = {}

-----------------------------------------------------------------------------
(* `rest` are the timers but for the one that calls.                         *)

(* Another message is shown: it is moved up; that of the screen counts as    *)
(* gone at once.                                                             *)
Waits(n, kind, rest) ==
  /\ isShowing /\ text' = n /\ inSight' = FALSE
  /\ isShowing' = (kind = "target")
  /\ timers' = rest \cup {Timer("again", n, Again)}
  /\ UNCHANGED <<current, begun>>

Shows(n, kind, rest) ==
  /\ ~isShowing /\ isShowing' = TRUE /\ text' = n /\ inSight' = TRUE
  /\ current' = n /\ begun' = begun \cup {n}
  /\ timers' = rest \cup {IF kind = "target" THEN Timer("stay", n, Stay)
                          ELSE Timer("screenStay", n, ScreenStay)}

ShowMessage(n, kind, rest) == Waits(n, kind, rest) \/ Shows(n, kind, rest)

Ask(kind) ==
  /\ Len(notices) < MaxNotices /\ notices' = Append(notices, kind)
  /\ ShowMessage(Len(notices) + 1, kind, timers)

-----------------------------------------------------------------------------
(* Timers.  One that is due is served before time goes on.                   *)

Due(what) == {t \in Pending(what) : t.left = 0}

(* Faulty: a message is given up if it still cannot be shown.                *)
Retry_Once ==
  \E t \in Due("again") :
     /\ \/ Shows(t.of, notices[t.of], timers \ {t})
        \/ isShowing /\ timers' = timers \ {t} /\ UNCHANGED <<isShowing, text, inSight, current, begun>>
     /\ UNCHANGED notices

Retry ==
  \E t \in Due("again") :
     ShowMessage(t.of, notices[t.of], timers \ {t}) /\ UNCHANGED notices

(* Faulty: the next message may come as soon as this one slides away.        *)
SlidesAway_Over ==
  \E t \in Due("stay") :
     /\ inSight' = FALSE /\ isShowing' = FALSE
     /\ timers' = (timers \ {t}) \cup {Timer("away", t.of, SlideAway)}
     /\ UNCHANGED <<notices, text, current, begun>>

SlidesAway ==
  \E t \in Due("stay") :
     /\ inSight' = FALSE
     /\ timers' = (timers \ {t}) \cup {Timer("away", t.of, SlideAway)}
     /\ UNCHANGED <<notices, isShowing, text, current, begun>>

Hides ==
  \E t \in Due("away") \cup Due("screenStay") :
     /\ isShowing' = FALSE /\ inSight' = FALSE /\ timers' = timers \ {t}
     /\ UNCHANGED <<notices, text, current, begun>>

TimePasses ==
  /\ timers # {} /\ \A t \in timers : t.left > 0
  /\ timers' = {[t EXCEPT !.left = @ - 1] : t \in timers}
  /\ UNCHANGED <<notices, isShowing, text, inSight, current, begun>>

TimerStep == Retry \/ SlidesAway \/ Hides \/ TimePasses

NotificationsNext == TimerStep \/ \E kind \in {"target", "screen"} : Ask(kind)

(* The event loop runs and serves its timers.                                *)
NotificationsFairness == WF_noticeVars(TimerStep)

NotificationsSpec == NotificationsInit /\ [][NotificationsNext]_noticeVars /\ NotificationsFairness

-----------------------------------------------------------------------------
(* Properties.                                                               *)

(* Types of the variables.                                                   *)
NotificationsTypeOK ==
  /\ notices \in Seq({"target", "screen"}) /\ Len(notices) <= MaxNotices
  /\ isShowing \in BOOLEAN /\ inSight \in BOOLEAN
  /\ {text, current} \cup begun \subseteq 0..Len(notices)
  /\ timers \subseteq [for : Purposes, of : 1..Len(notices), left : 0..ScreenStay]

InWindows == \A i \in DOMAIN notices : notices[i] = "target"

(* Among messages in windows no timer of an old one ends a new one: what     *)
(* ends the one that is shown is a single timer, its own, and it has one.    *)
EndedByItsOwn ==
  InWindows => LET ends == Pending("stay") \cup Pending("away")
               IN  {t.of : t \in ends} = (IF isShowing THEN {current} ELSE {}) /\ Cardinality(ends) <= 1

(* However messages replaced each other's text while they waited, the one    *)
(* that is left is in sight for its time, and with its own text.             *)
LastIsRead ==
  InWindows /\ Pending("again") = {} /\ Pending("stay") # {} => inSight /\ text = current

(* Nothing is forgotten: a message that had to wait is shown, however many   *)
(* there are and wherever they go.                                           *)
EveryNoticeIsShown ==
  \A n \in 1..MaxNotices : n <= Len(notices) ~> n \in begun

(* Messages in windows do not disturb each other.                            *)
NoticesAreApart ==
  /\ NotificationsTypeOK
  /\ EndedByItsOwn
  /\ LastIsRead
===============================================================================
