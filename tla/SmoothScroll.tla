------------------------------ MODULE SmoothScroll ------------------------------
(* A list scrolled smoothly (FriendListView.cpp; AiChatListView.cpp and the *)
(* scrolling of ChatListView.cpp are the same code): Qt's scroll bar, which *)
(* is hidden, the painted SmoothScrollBar and an animation keep three       *)
(* copies of the position.  One row is the unit of height.                  *)
EXTENDS Naturals

CONSTANTS
  Viewport,      \* rows that fit into the view
  MaxRows,
  MaxInputs,     \* bound: turns of the wheel, drags of the bar, changes by the user
  MaxTimers      \* bound: changes of the rows within 50 ms

ASSUME ScrollAssumption ==
  Viewport \in Nat \ {0} /\ MaxRows \in Nat \ {0} /\ MaxInputs \in Nat
  /\ MaxTimers \in Nat \ {0}

VARIABLES
  view,      \* the positions, see Views
  rows,      \* rows of the model
  checks,    \* checkScrollBarVisibility timers that are running
  inputs

scrollVars == <<view, rows, checks, inputs>>

NoAnimation == MaxRows + 1
Positions == 0..MaxRows

(* max, value: range and value of Qt's bar, as of the last layout; smooth:  *)
(* m_smoothScrollValue; bar, barMax: value and range of the painted bar;    *)
(* target: end of the running animation.                                    *)
Views == [max : Positions, value : Positions, smooth : Positions,
          bar : Positions, barMax : Positions, target : 0..NoAnimation]

ScrollInit ==
  /\ view = [max |-> 0, value |-> 0, smooth |-> 0, bar |-> 0, barMax |-> 0, target |-> NoAnimation]
  /\ rows = 0 /\ checks = 1 /\ inputs = 0

Bound(v, top) == IF v > top THEN top ELSE v
Excess(r) == IF r > Viewport THEN r - Viewport ELSE 0
Running(s) == s.target # NoAnimation

(* Qt: the layout sets the range, which keeps the value in it.              *)
LaidOut(s, r) == [s EXCEPT !.max = Excess(r), !.value = Bound(@, Excess(r))]

(* setRange, then setValue, whose signal onCustomScrollValueChanged handles *)
UpdateCustomScrollBar(s) ==
  IF s.max > 0 THEN [s EXCEPT !.barMax = s.max, !.bar = s.value, !.smooth = s.value]
  ELSE [s EXCEPT !.smooth = 0, !.value = 0]

CheckScrollBarVisibility(s, r) ==
  LET t == LaidOut(s, r)
  IN IF t.max = 0 THEN [t EXCEPT !.smooth = 0, !.value = 0] ELSE UpdateCustomScrollBar(t)

(* The painted bar follows everywhere but at the bottom.                    *)
SetSmoothScrollValue(s, v) ==
  IF s.max = 0 \/ s.smooth = v THEN s
  ELSE [s EXCEPT !.smooth = v, !.value = Bound(v, s.max),
                 !.bar = IF v >= s.max THEN @ ELSE Bound(v, s.barMax)]

StartScrollAnimation(s, v) == IF s.max = 0 THEN s ELSE [s EXCEPT !.target = v]

(* Faulty: the end of the animation synchronises nothing.                   *)
OnAnimationFinished_NoUpdate(s) == [s EXCEPT !.target = NoAnimation]

OnAnimationFinished(s) == UpdateCustomScrollBar([s EXCEPT !.target = NoAnimation])

(* One value of the animation: on the way, or the last one.                 *)
AnimationSteps(s) ==
  LET on == {v \in Positions : (s.smooth < v /\ v < s.target) \/ (s.target < v /\ v < s.smooth)}
  IN {SetSmoothScrollValue(s, v) : v \in on} \cup {OnAnimationFinished(SetSmoothScrollValue(s, s.target))}

(* A turn of the wheel by d rows, down or up.                               *)
WheelTargets(s) ==
  {Bound(s.smooth + d, s.max) : d \in {1, 2}} \cup {IF s.smooth > d THEN s.smooth - d ELSE 0 : d \in {1, 2}}

OnCustomScrollValueChanged(s, v) ==
  IF Running(s) THEN s ELSE [s EXCEPT !.smooth = v, !.value = Bound(v, s.max)]

(* The handle is dragged: the bar has the new value before the view.        *)
Dragged(s, v) ==
  IF v = s.bar THEN s ELSE OnCustomScrollValueChanged([s EXCEPT !.bar = v], v)

-----------------------------------------------------------------------------
(* The plain list.                                                          *)

OnModelRowsChanged ==
  /\ rows' \in (0..MaxRows) \ {rows} /\ inputs < MaxInputs /\ inputs' = inputs + 1
  /\ checks < MaxTimers /\ checks' = checks + 1 /\ UNCHANGED view

DelayedLayout ==
  /\ view.max # Excess(rows) /\ view' = LaidOut(view, rows)
  /\ UNCHANGED <<rows, checks, inputs>>

CheckTimer ==
  /\ checks > 0 /\ checks' = checks - 1
  /\ view' = CheckScrollBarVisibility(view, rows) /\ UNCHANGED <<rows, inputs>>

AnimationStep ==
  /\ Running(view) /\ view' \in AnimationSteps(view) /\ UNCHANGED <<rows, checks, inputs>>

WheelEvent ==
  /\ inputs < MaxInputs /\ inputs' = inputs + 1 /\ rows > 0 /\ view.max > 0
  /\ \E v \in WheelTargets(view) : view' = StartScrollAnimation(view, v)
  /\ UNCHANGED <<rows, checks>>

Drag ==
  /\ inputs < MaxInputs /\ inputs' = inputs + 1 /\ view.max > 0 /\ view.barMax > 0
  /\ \E v \in 0..view.barMax : view' = Dragged(view, v)
  /\ UNCHANGED <<rows, checks>>

ScrollNext ==
  \/ OnModelRowsChanged \/ DelayedLayout \/ CheckTimer \/ AnimationStep \/ WheelEvent \/ Drag

ScrollSpec ==
  ScrollInit /\ [][ScrollNext]_scrollVars
  /\ WF_scrollVars(DelayedLayout) /\ WF_scrollVars(CheckTimer) /\ WF_scrollVars(AnimationStep)

-----------------------------------------------------------------------------
ScrollTypeOK ==
  /\ view \in Views /\ rows \in 0..MaxRows /\ checks \in 0..MaxTimers /\ inputs \in 0..MaxInputs

(* The three positions agree as soon as nothing is running, and the painted *)
(* bar has the range of the real one: neither a change of the rows in the   *)
(* middle of an animation nor a drag against it leaves them apart.          *)
BarFollowsView ==
  ~Running(view) /\ checks = 0 /\ view.max = Excess(rows) /\ view.max > 0
    => view.bar = view.value /\ view.smooth = view.value /\ view.barMax = view.max
===============================================================================
