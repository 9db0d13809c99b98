----------------------------- MODULE CallDialogs -----------------------------
(***************************************************************************)
(* The windows of one client's calls: VideoCallManager, the one            *)
(* VideoCallDialog it keeps from the first call on, and an                 *)
(* IncomingCallDialog for every call that rings.                           *)
(*                                                                         *)
(* An IncomingCallDialog is not told what becomes of its call: it stays    *)
(* until it is answered, or its own 30 seconds are over, and acts on       *)
(* whatever call there is by then.  The handlers run in the Qt main thread,*)
(* but NotifyPeerConnectionEstablished in a thread of WebRTC: it reads the *)
(* state, sets it and changes the window in steps of its own.  Peers and   *)
(* signaling are external: what they may do to the CallManager (see        *)
(* CallSystem) happens at any time.                                        *)
(***************************************************************************)
EXTENDS Naturals

CONSTANTS
  Peers,              \* the other users
  NoPeer,             \* an empty id
  MaxRings            \* bound: calls that ring

ASSUME PeersAssumption == NoPeer \notin Peers
ASSUME RingsAssumption == MaxRings \in Nat

VARIABLES
  is_initialized,
  call_state, current_peer,   \* of the CallManager
  notifying,                  \* the thread of WebRTC: at rest, has found the
                              \* state Connecting, or has set Connected
  current_peer_id_,           \* of the VideoCallManager
  incoming_caller_id_,
  call_dialog,                \* the VideoCallDialog, NoDialog before it is created
  incoming,                   \* open IncomingCallDialogs, by the call that opened them
  rings,                      \* calls that rang so far; the last may still be
  dismissed                   \* history: dialogs that the window system closed

managerVars == <<current_peer_id_, incoming_caller_id_>>
callVars    == <<call_state, current_peer, notifying>>
ringVars    == <<incoming, rings, dismissed>>
vars == <<is_initialized, call_state, current_peer, notifying, current_peer_id_,
          incoming_caller_id_, call_dialog, incoming, rings, dismissed>>

CallStates == {"Idle", "Calling", "Receiving", "Connecting", "Connected"}
Ids == Peers \cup {NoPeer}

(* What the dialog was created for, whether it is visible, and the state   *)
(* it displays.                                                            *)
Dialog(exists, name, visible, state) ==
  [exists |-> exists, name |-> name, visible |-> visible, state |-> state]
NoDialog == Dialog(FALSE, NoPeer, FALSE, "Idle")

Init ==
  /\ is_initialized = FALSE
  /\ call_state = "Idle" /\ current_peer = NoPeer /\ notifying = "rest"
  /\ current_peer_id_ = NoPeer /\ incoming_caller_id_ = NoPeer
  /\ call_dialog = NoDialog
  /\ incoming = {} /\ rings = 0 /\ dismissed = {}

-----------------------------------------------------------------------------
(* The window of the call.                                                 *)

(* createCallDialog and showCallDialog: the dialog is created once.        *)
ShowCallDialog(name) ==
  IF call_dialog.exists THEN [call_dialog EXCEPT !.visible = TRUE]
  ELSE Dialog(TRUE, name, TRUE, "Idle")

HideCallDialog(d) == [d EXCEPT !.visible = FALSE]

UpdateCallState(d, state) == IF d.exists THEN [d EXCEPT !.state = state] ELSE d

(* The call goes on.  d is the dialog so far.                              *)
SetCallState(state, d) ==
  /\ call_state' = state /\ UNCHANGED notifying
  /\ call_dialog' = UpdateCallState(d, state)

(* Faulty: the connection stays open, with its callbacks.                  *)
CleanupCall_StaysOpen ==
  /\ call_state' = "Idle" /\ current_peer' = NoPeer /\ UNCHANGED notifying
  /\ call_dialog' = HideCallDialog(UpdateCallState(call_dialog, "Idle"))
  /\ current_peer_id_' = NoPeer

(* Closing the connection, which waits for a callback that is under way,   *)
(* then CleanupCall, and OnCallStateChanged for the idle state.            *)
CleanupCall ==
  /\ call_state' = "Idle" /\ current_peer' = NoPeer /\ notifying' = "rest"
  /\ call_dialog' = HideCallDialog(UpdateCallState(call_dialog, "Idle"))
  /\ current_peer_id_' = NoPeer

-----------------------------------------------------------------------------
(* The user.                                                               *)

Initialize ==
  /\ ~is_initialized /\ is_initialized' = TRUE
  /\ UNCHANGED <<callVars, managerVars, call_dialog, ringVars>>

(* The CallManager is destroyed with its call, and the dialog; the dialogs *)
(* of ringing calls stay.                                                  *)
Shutdown ==
  /\ is_initialized /\ is_initialized' = FALSE
  /\ call_state' = "Idle" /\ current_peer' = NoPeer /\ notifying' = "rest"
  /\ call_dialog' = NoDialog
  /\ UNCHANGED <<managerVars, ringVars>>

(* The dialog is shown first; nothing more happens without a connection to *)
(* the signaling server.                                                   *)
StartCall(p) ==
  /\ is_initialized /\ call_state = "Idle"
  /\ current_peer_id_' = p
  /\ \/ SetCallState("Calling", ShowCallDialog(p)) /\ current_peer' = p
     \/ call_dialog' = ShowCallDialog(p) /\ UNCHANGED callVars
  /\ UNCHANGED <<is_initialized, incoming_caller_id_, ringVars>>

(* The hang-up button, or closing the window.                              *)
EndCall ==
  /\ call_dialog.visible /\ is_initialized
  /\ \/ call_state # "Idle" /\ CleanupCall
     \/ /\ call_state = "Idle"
        /\ call_dialog' = HideCallDialog(call_dialog)
        /\ current_peer_id_' = NoPeer
        /\ UNCHANGED callVars
  /\ UNCHANGED <<is_initialized, incoming_caller_id_, ringVars>>

(* The window is shown whether or not there is a call to accept.           *)
AcceptCall ==
  IF ~is_initialized THEN UNCHANGED <<callVars, managerVars, call_dialog>>
  ELSE /\ current_peer_id_' = incoming_caller_id_
       /\ IF call_state = "Receiving"
          THEN SetCallState("Connecting", ShowCallDialog(incoming_caller_id_))
          ELSE /\ call_dialog' = ShowCallDialog(incoming_caller_id_)
               /\ UNCHANGED <<call_state, notifying>>
       /\ UNCHANGED <<current_peer, incoming_caller_id_>>

RejectCall ==
  IF ~is_initialized THEN UNCHANGED <<callVars, managerVars, call_dialog>>
  ELSE /\ incoming_caller_id_' = NoPeer
       /\ IF call_state = "Receiving" THEN CleanupCall
          ELSE UNCHANGED <<callVars, current_peer_id_, call_dialog>>

(* An IncomingCallDialog answers for whatever call there is, and closes.   *)
Closed(i) == incoming' = incoming \ {i} /\ UNCHANGED rings

OnAcceptClicked(i) ==
  /\ i \in incoming /\ Closed(i)
  /\ AcceptCall
  /\ UNCHANGED <<is_initialized, dismissed>>

OnRejectClicked(i) ==
  /\ i \in incoming /\ Closed(i)
  /\ RejectCall
  /\ UNCHANGED <<is_initialized, dismissed>>

(* Faulty: closes the dialog without an answer.                            *)
OnTimeout_OnlyCloses(i) ==
  /\ i \in incoming /\ \A j \in incoming : i <= j
  /\ Closed(i)
  /\ UNCHANGED <<callVars, managerVars, call_dialog, is_initialized, dismissed>>

(* Its timer: the dialogs time out in the order in which they were opened. *)
OnTimeout(i) ==
  /\ i \in incoming /\ \A j \in incoming : i <= j
  /\ Closed(i)
  /\ RejectCall
  /\ UNCHANGED <<is_initialized, dismissed>>

(* The window system closes it: no closeEvent of the dialog answers.       *)
CloseIncoming(i) ==
  /\ i \in incoming /\ Closed(i)
  /\ dismissed' = dismissed \cup {i}
  /\ UNCHANGED <<is_initialized, callVars, managerVars, call_dialog>>

-----------------------------------------------------------------------------
(* The CallManager, driven by peers and signaling.                         *)

(* An idle client rings; a busy one only answers.                          *)
HandleCallRequest(p) ==
  /\ is_initialized /\ call_state = "Idle" /\ rings < MaxRings
  /\ SetCallState("Receiving", call_dialog) /\ current_peer' = p
  /\ incoming_caller_id_' = p
  /\ rings' = rings + 1
  /\ incoming' = incoming \cup {rings'}
  /\ UNCHANGED <<is_initialized, current_peer_id_, dismissed>>

HandleCallAccepted ==
  /\ call_state = "Calling"
  /\ SetCallState("Connecting", call_dialog)
  /\ UNCHANGED <<is_initialized, current_peer, managerVars, ringVars>>

(* The call ends without the user: rejected or unanswered after 30 seconds,*)
(* called off, hung up by the peer, or the peer is gone.                   *)
CallFinishes(states) ==
  /\ call_state \in states
  /\ CleanupCall
  /\ UNCHANGED <<is_initialized, incoming_caller_id_, ringVars>>

HandleCallRejected   == CallFinishes({"Calling"})
OnCallRequestTimeout == CallFinishes({"Calling"})
HandleCallCancel     == CallFinishes({"Receiving"})
HandleCallEnd        == CallFinishes(CallStates \ {"Idle"})
OnUserOffline        == CallFinishes(CallStates \ {"Idle"})

-----------------------------------------------------------------------------
(* The thread of WebRTC.  The dialog's timer does not start in it, so the  *)
(* time of the call is not shown: it is left out.                          *)

NotifyPeerConnectionEstablished ==
  /\ call_state = "Connecting" /\ notifying = "rest"
  /\ notifying' = "found"
  /\ UNCHANGED <<is_initialized, call_state, current_peer, managerVars, call_dialog, ringVars>>

ConnectedIsSet ==
  /\ notifying = "found"
  /\ call_state' = "Connected" /\ notifying' = "set"
  /\ UNCHANGED <<is_initialized, current_peer, managerVars, call_dialog, ringVars>>

ConnectedIsDisplayed ==
  /\ notifying = "set"
  /\ call_dialog' = UpdateCallState(call_dialog, "Connected") /\ notifying' = "rest"
  /\ UNCHANGED <<is_initialized, call_state, current_peer, managerVars, ringVars>>

-----------------------------------------------------------------------------
TimesOut == \E i \in incoming : OnTimeout(i)

Next ==
  \/ Initialize \/ Shutdown \/ EndCall
  \/ \E p \in Peers : StartCall(p) \/ HandleCallRequest(p)
  \/ \E i \in incoming : OnAcceptClicked(i) \/ OnRejectClicked(i) \/ CloseIncoming(i)
  \/ TimesOut
  \/ HandleCallAccepted
  \/ NotifyPeerConnectionEstablished \/ ConnectedIsSet \/ ConnectedIsDisplayed
  \/ HandleCallRejected \/ OnCallRequestTimeout \/ HandleCallCancel
  \/ HandleCallEnd \/ OnUserOffline

Spec == Init /\ [][Next]_vars

(* Timers fire.  Nobody need answer, and peers need not do anything.       *)
FairSpec == Spec /\ WF_vars(TimesOut)

-----------------------------------------------------------------------------
(* Properties.                                                             *)

(* Every variable has its type.                                            *)
TypeOK ==
  /\ is_initialized \in BOOLEAN
  /\ call_state \in CallStates /\ notifying \in {"rest", "found", "set"}
  /\ current_peer \in Ids /\ current_peer_id_ \in Ids /\ incoming_caller_id_ \in Ids
  /\ call_dialog \in [exists : BOOLEAN, name : Ids, visible : BOOLEAN, state : CallStates]
  /\ rings \in 0..MaxRings
  /\ incoming \in SUBSET (1..rings) /\ dismissed \in SUBSET (1..rings)

Talking == call_state \in {"Calling", "Connecting", "Connected"}

(* A call the user takes part in can be seen and hung up: its window is    *)
(* shown, with the state of the call once the thread of WebRTC is through, *)
(* whatever dialogs of older calls are answered and however the call ends. *)
CallIsVisible ==
  Talking => /\ call_dialog.exists /\ call_dialog.visible
             /\ call_dialog.state = IF notifying = "set" THEN "Connecting" ELSE call_state

(* While a call rings, the caller that accepting it names is its caller.   *)
CallerIsRemembered == call_state = "Receiving" => incoming_caller_id_ = current_peer

(* While a call rings, the dialog that was opened for it is open, unless    *)
(* the window system closed it.                                            *)
RingingIsAnswerable == call_state = "Receiving" => rings \in incoming \cup dismissed

(* Ringing stops: a call nobody answers is rejected by its dialog, unless  *)
(* the window system closes that.                                          *)
RingingStops == (call_state = "Receiving") ~> (call_state # "Receiving" \/ rings \in dismissed)

(* The windows tell of the call there is, whatever dialogs of older calls  *)
(* are answered: it can be seen, answered, and names the right caller.     *)
WindowsFollowCall ==
  /\ TypeOK
  /\ CallIsVisible
  /\ CallerIsRemembered
  /\ RingingIsAnswerable
=============================================================================
