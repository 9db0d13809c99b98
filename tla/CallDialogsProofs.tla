-------------------------- MODULE CallDialogsProofs --------------------------
(***************************************************************************)
(* Proofs about the windows of calls, for any peers and any number of      *)
(* rings, and about the pictures in them: both follow the call, for any    *)
(* number of calls and tracks and however the threads interleave.          *)
(***************************************************************************)
EXTENDS CallDialogs, CallVideo, TLAPS

Dialogs == [exists : BOOLEAN, name : Ids, visible : BOOLEAN, state : CallStates]

(* Without a VideoCallManager at work there is no call and no window.      *)
QuietBefore == ~is_initialized => call_state = "Idle"

(* The thread of WebRTC is at work only in a call that goes on.            *)
NotifyInv ==
  /\ notifying \in {"rest", "found", "set"}
  /\ notifying = "found" => call_state = "Connecting"
  /\ notifying = "set" => call_state = "Connected"

IInv == TypeOK /\ CallIsVisible /\ CallerIsRemembered /\ QuietBefore /\ NotifyInv

(* The window of a call as it is after each of its operations.             *)
LEMMA DialogFacts ==
  ASSUME NEW d \in Dialogs, NEW name \in Ids, NEW state \in CallStates, call_dialog \in Dialogs
  PROVE  /\ NoDialog \in Dialogs
         /\ HideCallDialog(d) \in Dialogs
         /\ UpdateCallState(d, state) \in Dialogs
         /\ UpdateCallState(d, state).exists = d.exists
         /\ UpdateCallState(d, state).visible = d.visible
         /\ d.exists => UpdateCallState(d, state).state = state
         /\ ShowCallDialog(name) \in Dialogs
         /\ ShowCallDialog(name).exists /\ ShowCallDialog(name).visible
         /\ call_dialog.exists => ShowCallDialog(name).state = call_dialog.state
<1> USE DEF Dialogs, CallStates, Ids
<1>1. NoDialog \in Dialogs /\ HideCallDialog(d) \in Dialogs
  BY DEF NoDialog, Dialog, HideCallDialog
<1>2. /\ UpdateCallState(d, state) \in Dialogs
      /\ UpdateCallState(d, state).exists = d.exists
      /\ UpdateCallState(d, state).visible = d.visible
      /\ d.exists => UpdateCallState(d, state).state = state
  BY DEF UpdateCallState
<1>3. ShowCallDialog(name) \in Dialogs
  BY DEF ShowCallDialog, Dialog
<1>4. ShowCallDialog(name).exists /\ ShowCallDialog(name).visible
  BY DEF ShowCallDialog, Dialog
<1>5. call_dialog.exists => ShowCallDialog(name).state = call_dialog.state
  BY DEF ShowCallDialog, Dialog
<1>6. QED
  BY <1>1, <1>2, <1>3, <1>4, <1>5

-----------------------------------------------------------------------------
(* The end of a call, whoever ends it, takes its window away.              *)
LEMMA CleanupKeeps ==
  ASSUME IInv, CleanupCall, UNCHANGED is_initialized,
         incoming_caller_id_' \in Ids,
         rings' \in 0..MaxRings, incoming' \in SUBSET (1..rings'), dismissed' \in SUBSET (1..rings')
  PROVE  IInv'
<1>1. call_dialog \in Dialogs /\ "Idle" \in CallStates /\ NoPeer \in Ids
  BY DEF IInv, TypeOK, Dialogs, CallStates, Ids
<1>2. UpdateCallState(call_dialog, "Idle") \in Dialogs
  BY <1>1, DialogFacts
<1>3. HideCallDialog(UpdateCallState(call_dialog, "Idle")) \in Dialogs
  BY <1>1, <1>2, DialogFacts
<1>4. /\ call_dialog' \in Dialogs /\ notifying' = "rest"
      /\ call_state' = "Idle" /\ current_peer' = NoPeer /\ current_peer_id_' = NoPeer
  BY <1>3 DEF CleanupCall
<1>5. TypeOK'
  BY <1>1, <1>4 DEF IInv, TypeOK, Dialogs
<1>6. CallIsVisible' /\ CallerIsRemembered' /\ QuietBefore' /\ NotifyInv'
  BY <1>4 DEF CallIsVisible, Talking, CallerIsRemembered, QuietBefore, NotifyInv
<1>7. QED
  BY <1>5, <1>6 DEF IInv

(* A call that goes on has its window, and the window its state.           *)
LEMMA StateKeeps ==
  ASSUME IInv, NEW d \in Dialogs, NEW state \in {"Calling", "Receiving", "Connecting"},
         SetCallState(state, d), is_initialized' = TRUE, notifying = "rest",
         state # "Receiving" => d.exists /\ d.visible,
         state = "Receiving" => incoming_caller_id_' = current_peer',
         current_peer' \in Ids, current_peer_id_' \in Ids, incoming_caller_id_' \in Ids,
         rings' \in 0..MaxRings, incoming' \in SUBSET (1..rings'), dismissed' \in SUBSET (1..rings')
  PROVE  IInv'
<1>1. call_dialog \in Dialogs /\ NoPeer \in Ids /\ state \in CallStates
  BY DEF IInv, TypeOK, Dialogs, Ids, CallStates
<1>2. call_dialog' = UpdateCallState(d, state) /\ call_state' = state /\ notifying' = "rest"
  BY DEF SetCallState
<1>3. /\ call_dialog' \in Dialogs
      /\ call_dialog'.exists = d.exists /\ call_dialog'.visible = d.visible
      /\ d.exists => call_dialog'.state = state
  BY <1>1, <1>2, DialogFacts
<1>4. TypeOK'
  BY <1>1, <1>2, <1>3 DEF TypeOK, Dialogs
<1>5. CallIsVisible'
  BY <1>2, <1>3 DEF CallIsVisible, Talking
<1>6. CallerIsRemembered' /\ QuietBefore' /\ NotifyInv'
  BY <1>2 DEF CallerIsRemembered, QuietBefore, NotifyInv
<1>7. QED
  BY <1>4, <1>5, <1>6 DEF IInv

-----------------------------------------------------------------------------
(* Every step keeps the invariant.                                         *)
LEMMA Preserved == IInv /\ [Next]_vars => IInv'
<1> SUFFICES ASSUME IInv, [Next]_vars
             PROVE  IInv'
  OBVIOUS
<1> DEFINE RingTypes == /\ rings' \in 0..MaxRings
                       /\ incoming' \in SUBSET (1..rings') /\ dismissed' \in SUBSET (1..rings')
<1>1. /\ call_dialog \in Dialogs /\ NoPeer \in Ids
      /\ call_state \in CallStates
      /\ current_peer \in Ids /\ current_peer_id_ \in Ids /\ incoming_caller_id_ \in Ids
      /\ rings \in 0..MaxRings
      /\ incoming \in SUBSET (1..rings) /\ dismissed \in SUBSET (1..rings)
  BY DEF IInv, TypeOK, Dialogs, Ids
<1>2. /\ call_state # "Idle" => is_initialized
      /\ is_initialized \in BOOLEAN
      /\ Talking => call_dialog.exists /\ call_dialog.visible
      /\ call_state \notin {"Connecting", "Connected"} => notifying = "rest"
  BY DEF IInv, TypeOK, QuietBefore, CallIsVisible, NotifyInv
<1>3. UNCHANGED ringVars => RingTypes
  BY <1>1 DEF ringVars
<1>4. \A i \in incoming : Closed(i) /\ dismissed' \in {dismissed, dismissed \cup {i}} => RingTypes
  BY <1>1 DEF Closed
<1>5. ASSUME Initialize PROVE IInv'
  BY <1>5 DEF Initialize, IInv, TypeOK, CallIsVisible, Talking, CallerIsRemembered,
              QuietBefore, NotifyInv, callVars, managerVars, ringVars
<1>6. ASSUME Shutdown PROVE IInv'
  <2>1. /\ call_dialog' = NoDialog /\ call_state' = "Idle" /\ current_peer' = NoPeer
        /\ notifying' = "rest" /\ is_initialized' = FALSE /\ UNCHANGED <<managerVars, ringVars>>
    BY <1>6 DEF Shutdown
  <2>2. call_dialog' \in Dialogs
    BY <1>1, <2>1, DialogFacts DEF CallStates
  <2>3. TypeOK'
    BY <1>1, <2>1, <2>2 DEF TypeOK, Dialogs, managerVars, ringVars, CallStates
  <2>4. CallIsVisible' /\ CallerIsRemembered' /\ QuietBefore' /\ NotifyInv'
    BY <2>1 DEF CallIsVisible, Talking, CallerIsRemembered, QuietBefore, NotifyInv
  <2>5. QED
    BY <2>3, <2>4 DEF IInv
<1>7. ASSUME NEW p \in Ids, call_dialog' = ShowCallDialog(p), ~Talking \/ call_dialog.exists,
             UNCHANGED <<is_initialized, callVars, incoming_caller_id_>>,
             current_peer_id_' \in Ids, RingTypes
      PROVE  IInv'
  <2>1. /\ call_dialog' \in Dialogs /\ call_dialog'.exists /\ call_dialog'.visible
        /\ call_dialog.exists => call_dialog'.state = call_dialog.state
    BY <1>1, <1>7, DialogFacts DEF CallStates
  <2>2. TypeOK'
    BY <1>1, <1>2, <1>7, <2>1 DEF IInv, TypeOK, Dialogs, callVars
  <2>3. CallIsVisible'
    BY <1>7, <2>1 DEF IInv, CallIsVisible, Talking, callVars
  <2>4. CallerIsRemembered' /\ QuietBefore' /\ NotifyInv'
    BY <1>7 DEF IInv, CallerIsRemembered, QuietBefore, NotifyInv, callVars
  <2>5. QED
    BY <2>2, <2>3, <2>4 DEF IInv
<1>8. ASSUME NEW p \in Peers, StartCall(p) PROVE IInv'
  <2>1. /\ is_initialized /\ call_state = "Idle" /\ current_peer_id_' = p /\ p \in Ids
        /\ UNCHANGED <<is_initialized, incoming_caller_id_, ringVars>> /\ RingTypes
    BY <1>3, <1>8 DEF StartCall, Ids
  <2>2. ASSUME call_dialog' = ShowCallDialog(p), UNCHANGED callVars PROVE IInv'
    BY <1>7, <2>1, <2>2 DEF Talking
  <2>3. ASSUME SetCallState("Calling", ShowCallDialog(p)), current_peer' = p PROVE IInv'
    <3>1. notifying = "rest"
      BY <1>2, <2>1
    <3>2. /\ ShowCallDialog(p) \in Dialogs /\ ShowCallDialog(p).exists
          /\ ShowCallDialog(p).visible
      BY <1>1, <2>1, DialogFacts DEF CallStates
    <3>3. is_initialized' = TRUE
      BY <1>2, <2>1
    <3>4. QED
      BY <1>1, <2>1, <2>3, <3>1, <3>2, <3>3, StateKeeps
  <2>4. QED
    BY <1>8, <2>2, <2>3 DEF StartCall
<1>9. ASSUME EndCall PROVE IInv'
  <2>1. UNCHANGED <<is_initialized, incoming_caller_id_, ringVars>> /\ RingTypes
    BY <1>3, <1>9 DEF EndCall
  <2>2. ASSUME CleanupCall PROVE IInv'
    BY <1>1, <2>1, <2>2, CleanupKeeps
  <2>3. ASSUME call_state = "Idle", call_dialog' = HideCallDialog(call_dialog),
               current_peer_id_' = NoPeer, UNCHANGED callVars
        PROVE  IInv'
    <3>1. call_dialog' \in Dialogs
      BY <1>1, <2>3, DialogFacts DEF CallStates
    <3>2. TypeOK'
      BY <1>1, <1>2, <2>1, <2>3, <3>1 DEF IInv, TypeOK, Dialogs, callVars
    <3>3. CallIsVisible' /\ CallerIsRemembered' /\ QuietBefore' /\ NotifyInv'
      BY <2>1, <2>3
         DEF IInv, CallIsVisible, Talking, CallerIsRemembered, QuietBefore, NotifyInv, callVars
    <3>4. QED
      BY <3>2, <3>3 DEF IInv
  <2>4. QED
    BY <1>9, <2>2, <2>3 DEF EndCall
<1>10. ASSUME NEW i \in incoming, OnAcceptClicked(i) PROVE IInv'
  <2>1. Closed(i) /\ RingTypes /\ UNCHANGED is_initialized
    BY <1>4, <1>10 DEF OnAcceptClicked, AcceptCall
  <2>2. ASSUME ~is_initialized PROVE IInv'
    <3>1. UNCHANGED <<callVars, managerVars, call_dialog>>
      BY <1>10, <2>2 DEF OnAcceptClicked, AcceptCall
    <3>2. QED
      BY <2>1, <3>1 DEF IInv, TypeOK, CallIsVisible, Talking, CallerIsRemembered,
                        QuietBefore, NotifyInv, callVars, managerVars
  <2>3. ASSUME is_initialized PROVE IInv'
    <3> DEFINE p == incoming_caller_id_
    <3>1. /\ current_peer_id_' = p /\ p \in Ids
          /\ UNCHANGED <<current_peer, incoming_caller_id_>>
      BY <1>1, <1>10, <2>3 DEF OnAcceptClicked, AcceptCall
    <3>2. ASSUME call_state = "Receiving" PROVE IInv'
      <4>1. SetCallState("Connecting", ShowCallDialog(p))
        BY <1>10, <2>3, <3>2 DEF OnAcceptClicked, AcceptCall
      <4>2. notifying = "rest"
        BY <1>2, <3>2
      <4>3. /\ ShowCallDialog(p) \in Dialogs /\ ShowCallDialog(p).exists
            /\ ShowCallDialog(p).visible
        BY <1>1, <3>1, DialogFacts DEF CallStates
      <4>4. is_initialized' = TRUE
        BY <1>2, <2>1, <2>3
      <4>5. QED
        BY <1>1, <2>1, <3>1, <4>1, <4>2, <4>3, <4>4, StateKeeps
    <3>3. ASSUME call_state # "Receiving" PROVE IInv'
      <4>1. call_dialog' = ShowCallDialog(p) /\ UNCHANGED callVars
        BY <1>10, <2>3, <3>1, <3>3 DEF OnAcceptClicked, AcceptCall, callVars
      <4>2. QED
        BY <1>2, <1>7, <2>1, <3>1, <4>1
    <3>4. QED
      BY <3>2, <3>3
  <2>4. QED
    BY <2>2, <2>3
<1>11. ASSUME NEW i \in incoming, Closed(i), RejectCall, UNCHANGED <<is_initialized, dismissed>>
       PROVE  IInv'
  <2>1. RingTypes
    BY <1>4, <1>11
  <2>2. ASSUME CleanupCall, incoming_caller_id_' = NoPeer PROVE IInv'
    BY <1>1, <1>11, <2>1, <2>2, CleanupKeeps
  <2>3. ASSUME UNCHANGED <<callVars, current_peer_id_, call_dialog>>,
               incoming_caller_id_' = NoPeer, call_state # "Receiving"
        PROVE  IInv'
    BY <1>1, <1>11, <2>1, <2>3
       DEF IInv, TypeOK, CallIsVisible, Talking, CallerIsRemembered, QuietBefore, NotifyInv, callVars
  <2>4. ASSUME UNCHANGED <<callVars, managerVars, call_dialog>> PROVE IInv'
    BY <1>11, <2>1, <2>4 DEF IInv, TypeOK, CallIsVisible, Talking, CallerIsRemembered,
                             QuietBefore, NotifyInv, callVars, managerVars
  <2>5. QED
    BY <1>11, <2>2, <2>3, <2>4 DEF RejectCall
<1>12. ASSUME NEW i \in incoming, OnRejectClicked(i) \/ OnTimeout(i) PROVE IInv'
  BY <1>11, <1>12 DEF OnRejectClicked, OnTimeout
<1>13. ASSUME NEW i \in incoming, CloseIncoming(i) PROVE IInv'
  <2>1. RingTypes /\ UNCHANGED <<is_initialized, callVars, managerVars, call_dialog>>
    BY <1>4, <1>13 DEF CloseIncoming
  <2>2. QED
    BY <2>1 DEF IInv, TypeOK, CallIsVisible, Talking, CallerIsRemembered, QuietBefore,
                NotifyInv, callVars, managerVars
<1>14. ASSUME NEW p \in Peers, HandleCallRequest(p) PROVE IInv'
  <2>1. /\ SetCallState("Receiving", call_dialog) /\ is_initialized' = TRUE
        /\ current_peer' = p /\ incoming_caller_id_' = p /\ p \in Ids
        /\ UNCHANGED current_peer_id_
    BY <1>2, <1>14 DEF HandleCallRequest, Ids
  <2>2. RingTypes
    BY <1>1, <1>14, RingsAssumption DEF HandleCallRequest
  <2>3. notifying = "rest"
    BY <1>2, <1>14 DEF HandleCallRequest
  <2>4. QED
    BY <1>1, <2>1, <2>2, <2>3, StateKeeps
<1>15. ASSUME HandleCallAccepted PROVE IInv'
  <2>1. /\ call_state = "Calling" /\ SetCallState("Connecting", call_dialog)
        /\ UNCHANGED <<is_initialized, current_peer, managerVars, ringVars>>
    BY <1>15 DEF HandleCallAccepted
  <2>2. RingTypes /\ is_initialized' = TRUE /\ notifying = "rest"
    BY <1>2, <1>3, <2>1
  <2>3. call_dialog.exists /\ call_dialog.visible
    BY <1>2, <2>1 DEF Talking
  <2>4. current_peer' \in Ids /\ current_peer_id_' \in Ids /\ incoming_caller_id_' \in Ids
    BY <1>1, <2>1 DEF managerVars
  <2>5. QED
    BY <1>1, <2>1, <2>2, <2>3, <2>4, StateKeeps
<1>16. ASSUME NotifyPeerConnectionEstablished \/ ConnectedIsSet \/ ConnectedIsDisplayed PROVE IInv'
  <2>1. CASE NotifyPeerConnectionEstablished
    BY <2>1 DEF NotifyPeerConnectionEstablished, IInv, TypeOK, CallIsVisible, Talking,
                CallerIsRemembered, QuietBefore, NotifyInv, managerVars, ringVars
  <2>2. CASE ConnectedIsSet
    BY <2>2 DEF ConnectedIsSet, IInv, TypeOK, CallIsVisible, Talking, CallStates,
                CallerIsRemembered, QuietBefore, NotifyInv, managerVars, ringVars
  <2>3. CASE ConnectedIsDisplayed
    <3>1. /\ notifying = "set" /\ notifying' = "rest" /\ call_state = "Connected"
          /\ call_dialog' = UpdateCallState(call_dialog, "Connected")
          /\ UNCHANGED <<is_initialized, call_state, current_peer, managerVars, ringVars>>
      BY <2>3 DEF ConnectedIsDisplayed, IInv, NotifyInv
    <3>2. /\ call_dialog' \in Dialogs /\ call_dialog'.exists /\ call_dialog'.visible
          /\ call_dialog'.state = "Connected"
      BY <1>1, <1>2, <3>1, DialogFacts DEF Talking, CallStates
    <3>3. TypeOK'
      BY <1>1, <1>2, <3>1, <3>2 DEF TypeOK, Dialogs, managerVars, ringVars
    <3>4. CallIsVisible' /\ CallerIsRemembered' /\ QuietBefore' /\ NotifyInv'
      BY <1>2, <3>1, <3>2 DEF CallIsVisible, Talking, CallerIsRemembered, QuietBefore, NotifyInv
    <3>5. QED
      BY <3>3, <3>4 DEF IInv
  <2>4. QED
    BY <1>16, <2>1, <2>2, <2>3
<1>17. ASSUME NEW S, CallFinishes(S) PROVE IInv'
  BY <1>1, <1>3, <1>17, CleanupKeeps DEF CallFinishes
<1>18. ASSUME UNCHANGED vars PROVE IInv'
  BY <1>18 DEF vars, IInv, TypeOK, CallIsVisible, Talking, CallerIsRemembered, QuietBefore, NotifyInv
<1>19. QED
  BY <1>5, <1>6, <1>8, <1>9, <1>10, <1>12, <1>13, <1>14, <1>15, <1>16, <1>17, <1>18
     DEF Next, TimesOut, HandleCallRejected, OnCallRequestTimeout, HandleCallCancel,
         HandleCallEnd, OnUserOffline

(* The invariant is inductive, for any peers and any number of rings.      *)
THEOREM Inductive == Spec => []IInv
<1>1. Init => IInv
  <2> SUFFICES ASSUME Init PROVE IInv
    OBVIOUS
  <2>1. NoDialog \in Dialogs
    BY DEF NoDialog, Dialog, Dialogs, CallStates, Ids
  <2>2. 0 \in 0..MaxRings /\ {} \in SUBSET (1..0)
    BY RingsAssumption
  <2>3. TypeOK
    BY <2>1, <2>2 DEF Init, TypeOK, Dialogs, CallStates, Ids
  <2>4. CallIsVisible /\ CallerIsRemembered /\ QuietBefore /\ NotifyInv
    BY <2>1 DEF Init, CallIsVisible, Talking, CallerIsRemembered, QuietBefore, NotifyInv
  <2>5. QED
    BY <2>3, <2>4 DEF IInv
<1>2. QED
  BY <1>1, Preserved, PTL DEF Spec

(* Every variable has its type.                                            *)
THEOREM TypeCorrect == Spec => []TypeOK
<1>1. IInv => TypeOK
  BY DEF IInv
<1>2. QED
  BY <1>1, Inductive, PTL

(* Whatever dialogs of older calls are answered, and whenever the thread   *)
(* of WebRTC reports the connection, the window of the call the user takes *)
(* part in is shown with the state of the call.                            *)
THEOREM CallsAreVisible == Spec => []CallIsVisible
<1>1. IInv => CallIsVisible
  BY DEF IInv
<1>2. QED
  BY <1>1, Inductive, PTL

(* The caller remembered while a call rings is that call's.                *)
THEOREM CallersAreRemembered == Spec => []CallerIsRemembered
<1>1. IInv => CallerIsRemembered
  BY DEF IInv
<1>2. QED
  BY <1>1, Inductive, PTL

(* A ringing call can be answered: its own dialog is open, unless the      *)
(* window system closed it.                                                *)
THEOREM RingsAreAnswerable == Spec => []RingingIsAnswerable
<1>1. Init => RingingIsAnswerable
  BY DEF Init, RingingIsAnswerable
<1>2. IInv /\ RingingIsAnswerable /\ [Next]_vars => RingingIsAnswerable'
  <2> SUFFICES ASSUME IInv, RingingIsAnswerable, [Next]_vars, call_state' = "Receiving"
               PROVE  rings' \in incoming' \cup dismissed'
    BY DEF RingingIsAnswerable
  <2>1. ASSUME UNCHANGED <<call_state, ringVars>> PROVE rings' \in incoming' \cup dismissed'
    BY <2>1 DEF RingingIsAnswerable, ringVars
  <2>2. CASE Initialize \/ EndCall
    BY <2>1, <2>2 DEF Initialize, EndCall, CleanupCall, callVars, ringVars
  <2>3. ASSUME NEW p \in Peers, StartCall(p) PROVE rings' \in incoming' \cup dismissed'
    BY <2>1, <2>3 DEF StartCall, SetCallState, callVars, ringVars
  <2>4. ASSUME NEW p \in Peers, HandleCallRequest(p) PROVE rings' \in incoming' \cup dismissed'
    BY <2>4 DEF HandleCallRequest
  <2>5. ASSUME NEW i \in incoming, OnAcceptClicked(i) PROVE FALSE
    BY <2>5 DEF OnAcceptClicked, AcceptCall, SetCallState, IInv, QuietBefore, callVars
  <2>6. ASSUME NEW i \in incoming, OnRejectClicked(i) \/ OnTimeout(i) PROVE FALSE
    BY <2>6 DEF OnRejectClicked, OnTimeout, RejectCall, CleanupCall, IInv, QuietBefore, callVars
  <2>7. ASSUME NEW i \in incoming, CloseIncoming(i) PROVE rings' \in incoming' \cup dismissed'
    BY <2>7 DEF CloseIncoming, Closed, callVars, RingingIsAnswerable
  <2>8. ~(Shutdown \/ HandleCallAccepted \/ ConnectedIsSet)
    BY DEF Shutdown, HandleCallAccepted, ConnectedIsSet, SetCallState
  <2>12. CASE NotifyPeerConnectionEstablished \/ ConnectedIsDisplayed
    BY <2>1, <2>12 DEF NotifyPeerConnectionEstablished, ConnectedIsDisplayed
  <2>9. \A S : ~CallFinishes(S)
    BY DEF CallFinishes, CleanupCall
  <2>10. CASE UNCHANGED vars
    BY <2>1, <2>10 DEF vars, ringVars
  <2>11. QED
    BY <2>2, <2>3, <2>4, <2>5, <2>6, <2>7, <2>8, <2>9, <2>10, <2>12
       DEF Next, TimesOut, HandleCallRejected, OnCallRequestTimeout, HandleCallCancel,
           HandleCallEnd, OnUserOffline
<1>3. QED
  BY <1>1, <1>2, Inductive, PTL DEF Spec

(* The windows tell of the call there is, whatever dialogs of older calls  *)
(* are answered or closed.                                                 *)
THEOREM WindowsFollow == Spec => []WindowsFollowCall
<1>1. TypeOK /\ CallIsVisible /\ CallerIsRemembered /\ RingingIsAnswerable => WindowsFollowCall
  BY DEF WindowsFollowCall
<1>2. QED
  BY <1>1, TypeCorrect, CallsAreVisible, CallersAreRemembered, RingsAreAnswerable, PTL

-----------------------------------------------------------------------------
(* The pictures.                                                           *)

USE CallVideoAssumption

Steps == MainSteps \cup SignalingSteps
LocalSteps  == {<<"lock", "local">>, <<"stop", "local">>, <<"hide", "local">>}
RemoteSteps == {<<"lock", "remote">>, <<"stop", "remote">>, <<"hide", "remote">>}

(* The local renderer has its track as long as it is there, and its picture  *)
(* is of this call; a frame under way is one of the track.                   *)
TrackInv ==
  /\ \A r \in Renderers : track[r] \in {0, calls}
  /\ shown["local"] <=> track["local"] # 0 \/ at["main"] = <<"hide", "local">>
  /\ at["main"] = <<"hide", "local">> => track["local"] = 0
  /\ image["local"] \in {0, calls}
  /\ ~shown["local"] => image["local"] = 0
  /\ \A r \in Renderers : delivery[r] # "rest" => track[r] # 0 /\ frame[r] = calls

(* The end of a call: the local renderer, the remote one, the connection,    *)
(* and the remote renderer again, when the signaling thread is at rest.      *)
EndInv ==
  /\ callState # "Idle" => calls > 0
  /\ callState = "Idle" <=> at["main"] = Rest /\ ~open
  /\ ~open => at["signaling"] = Rest
  /\ at["main"] = <<"close", "none">> => open
  /\ at["main"] \in LocalSteps => open /\ shown["local"]
  /\ at["main"] = <<"cleanup", "none">> => ~open
  /\ at["main"] \in {<<"label", "remote">>, <<"close", "none">>, <<"cleanup", "none">>}
                    \cup RemoteSteps => ~shown["local"]
  /\ ~open => ~shown["local"]
  /\ ~open /\ at["main"] \notin {<<"lock", "remote">>, <<"stop", "remote">>} => track["remote"] = 0

(* Label and picture: as the signaling thread leaves them, until the main    *)
(* thread changes them too; in the end, as the main thread leaves them.      *)
LabelInv ==
  /\ open /\ at["main"] \notin {<<"label", "remote">>, <<"close", "none">>} =>
       /\ at["signaling"] \in {Rest, <<"connect", "none">>, <<"lockToAdd", "remote">>, <<"add", "remote">>}
                              \cup RemoteSteps
            => labelShown = ~shown["remote"]
       /\ at["signaling"] = <<"label", "remote">> => ~shown["remote"]
       /\ at["signaling"] \in {<<"unlabel", "added">>, <<"unlabel", "second">>} => shown["remote"]
       /\ at["signaling"] \in {<<"show", "first">>, <<"show", "second">>} => ~labelShown
  /\ ~open /\ at["main"] = <<"label", "remote">> => ~shown["remote"]
  /\ ~open /\ at["main"] \in {Rest, <<"cleanup", "none">>} => ~shown["remote"] /\ labelShown

VideoInv == VideoTypeOK /\ TrackInv /\ EndInv /\ LabelInv

(* A thread goes on, the other stays where it is.                            *)
LEMMA GoesOn ==
  ASSUME at \in [Threads -> Steps], NEW t \in Threads, NEW step \in Steps, Goes(t, step)
  PROVE  /\ at' \in [Threads -> Steps] /\ at'[t] = step
         /\ \A u \in Threads : u # t => at'[u] = at[u]
BY DEF Goes

-----------------------------------------------------------------------------
LEMMA VideoInitEstablishes == VideoInit => VideoInv
<1> SUFFICES ASSUME VideoInit PROVE VideoInv
  OBVIOUS
<1> USE DEF VideoInit, Threads, Renderers, Rest
<1>1. at["main"] = Rest /\ at["signaling"] = Rest /\ Rest \in MainSteps \cap SignalingSteps
  BY DEF MainSteps, SignalingSteps
<1>2. at \in [Threads -> MainSteps \cup SignalingSteps]
  BY DEF MainSteps, SignalingSteps
<1>5. \A t \in Threads, r \in Renderers : ~Holds(t, r)
  BY DEF Holds
<1>7. \A r \in Renderers : /\ delivery[r] = "draw" <=> mutex[r] = "frame"
                          /\ \A t \in Threads : Holds(t, r) <=> mutex[r] = t
  <2>1. \A r \in Renderers : delivery[r] # "draw" /\ mutex[r] # "frame"
    OBVIOUS
  <2>2. \A r \in Renderers : \A t \in Threads : mutex[r] # t
    OBVIOUS
  <2>3. QED
    BY <1>5, <2>1, <2>2
<1>8. /\ mutex \in [Renderers -> {"free", "main", "signaling", "frame"}]
      /\ track \in [Renderers -> CallIds] /\ image \in [Renderers -> CallIds]
      /\ frame \in [Renderers -> CallIds] /\ delivery \in [Renderers -> {"rest", "deliver", "draw"}]
      /\ shown \in [Renderers -> BOOLEAN] /\ calls \in CallIds
  BY DEF CallIds
<1>3. VideoTypeOK
  BY <1>1, <1>2, <1>7, <1>8 DEF VideoTypeOK
<1>4. TrackInv /\ EndInv /\ LabelInv
  BY <1>1 DEF TrackInv, LocalSteps, RemoteSteps, EndInv, LabelInv
<1>6. QED
  BY <1>3, <1>4 DEF VideoInv

LEMMA StartKeeps == ASSUME VideoInv, VideoCallStarts PROVE VideoInv'
<1> USE DEF VideoInv, VideoCallStarts, SetLocalVideoTrack, Renderers, Threads, frameVars
<1>1. /\ calls \in CallIds /\ calls' = calls + 1 /\ calls' \in CallIds /\ calls' > 0
      /\ at["main"] = Rest /\ at["signaling"] = Rest /\ ~open /\ ~shown["local"]
      /\ image["local"] = 0 /\ \A r \in Renderers : track[r] = 0 /\ delivery[r] = "rest"
  BY DEF VideoTypeOK, CallIds, TrackInv, LocalSteps, RemoteSteps, EndInv, Rest
<1>2. track' \in [Renderers -> CallIds] /\ shown' \in [Renderers -> BOOLEAN]
  BY <1>1 DEF VideoTypeOK
<1>3. UNCHANGED <<at, image, labelShown, delivery, frame, mutex>> /\ callState' = "Connecting" /\ open' = TRUE
  OBVIOUS
<1>4. VideoTypeOK'
  BY <1>1, <1>2, <1>3 DEF VideoTypeOK, Holds
<1>5. TrackInv'
  BY <1>1, <1>3 DEF VideoTypeOK, TrackInv, Rest
<1>6. EndInv'
  BY <1>1, <1>3 DEF LocalSteps, RemoteSteps, EndInv, Rest
<1>7. shown'["remote"] = FALSE /\ labelShown' = TRUE /\ open' = TRUE
  <2>1. shown["remote"] = FALSE /\ labelShown = TRUE
    BY <1>1 DEF VideoTypeOK, LabelInv
  <2>2. shown'["remote"] = shown["remote"]
    BY DEF VideoTypeOK
  <2>3. QED
    BY <2>1, <2>2
<1>8. LabelInv'
  <2>1. at'["main"] = Rest /\ at'["signaling"] = Rest
    BY <1>1, <1>3
  <2>2. /\ Rest \notin {<<"label", "remote">>, <<"unlabel", "added">>, <<"unlabel", "second">>}
        /\ Rest \notin {<<"show", "first">>, <<"show", "second">>}
    BY DEF Rest
  <2>3. QED
    BY <1>7, <2>1, <2>2 DEF LabelInv
<1>9. QED
  BY <1>4, <1>5, <1>6, <1>8

(* Steps that move one thread and change nothing but the call.               *)
LEMMA EndKeeps ==
  ASSUME VideoInv, VideoCallEnds \/ ClosePeerConnection \/ VideoCallIsOver
  PROVE  VideoInv'
<1> USE DEF VideoInv, Renderers, Threads, windowVars, frameVars, callVideoVars
<1>1. /\ at \in [Threads -> Steps] /\ at["main"] \in MainSteps
      /\ MainSteps \subseteq Steps
      /\ UNCHANGED <<calls, track, image, shown, labelShown, mutex, delivery, frame>>
  BY DEF VideoTypeOK, Steps, VideoCallEnds, ClosePeerConnection, VideoCallIsOver
<1>2. ASSUME NEW step \in MainSteps, Goes("main", step), open' \in BOOLEAN,
             step \notin {<<"stop", "local">>, <<"stop", "remote">>, <<"hide", "local">>},
             at["main"] \notin {<<"stop", "local">>, <<"stop", "remote">>, <<"hide", "local">>},
             callState' \in {"Idle", "Connecting", "Connected"}
      PROVE  VideoTypeOK' /\ TrackInv' /\ at'["main"] = step /\ at'["signaling"] = at["signaling"]
  <2>1. at' \in [Threads -> Steps] /\ at'["main"] = step /\ at'["signaling"] = at["signaling"]
    BY <1>1, <1>2, GoesOn
  <2>6. <<"add", "local">> \notin MainSteps /\ <<"add", "remote">> \notin MainSteps
    BY DEF MainSteps, Rest
  <2>2. \A r \in Renderers : ~Holds("main", r) /\ ~Holds("main", r)'
    BY <1>1, <1>2, <2>1, <2>6 DEF Holds
  <2>3. VideoTypeOK'
    BY <1>1, <1>2, <2>1, <2>2 DEF VideoTypeOK, Holds, Steps
  <2>4. TrackInv'
    BY <1>1, <1>2, <2>1 DEF TrackInv
  <2>5. QED
    BY <2>1, <2>3, <2>4
<1>3. CASE VideoCallEnds
  <2> DEFINE step == <<"lock", IF shown["local"] THEN "local" ELSE "remote">>
  <2>1. step \in MainSteps /\ Goes("main", step) /\ at["main"] = Rest /\ callState # "Idle"
    BY <1>3 DEF VideoCallEnds, MainSteps
  <2>2. UNCHANGED <<open, callState>> /\ open
    BY <1>3, <2>1 DEF VideoCallEnds, EndInv
  <2>3. step \in {<<"lock", "local">>, <<"lock", "remote">>} /\ (step = <<"lock", "remote">> <=> ~shown["local"])
    BY DEF VideoTypeOK
  <2>4. /\ VideoTypeOK' /\ TrackInv' /\ at'["signaling"] = at["signaling"]
        /\ at'["main"] \in {<<"lock", "local">>, <<"lock", "remote">>}
        /\ (at'["main"] = <<"lock", "remote">> <=> ~shown["local"])
    <3> HIDE DEF step
    <3>1. VideoTypeOK' /\ TrackInv' /\ at'["main"] = step /\ at'["signaling"] = at["signaling"]
      BY <1>2, <2>1, <2>2, <2>3 DEF VideoTypeOK, Rest
    <3>2. QED
      BY <2>3, <3>1
  <2>5. EndInv'
    BY <1>1, <2>1, <2>2, <2>4 DEF LocalSteps, RemoteSteps, EndInv, Rest
  <2>6. LabelInv'
    BY <1>1, <2>1, <2>2, <2>4 DEF LocalSteps, RemoteSteps, LabelInv, Rest
  <2>7. QED
    BY <2>4, <2>5, <2>6
<1>4. CASE ClosePeerConnection
  <2>1. /\ Goes("main", <<"lock", "remote">>) /\ open' = FALSE /\ UNCHANGED callState
        /\ at["main"] = <<"close", "none">> /\ at["signaling"] = Rest
        /\ <<"lock", "remote">> \in MainSteps
    BY <1>4 DEF ClosePeerConnection, MainSteps
  <2>5. /\ <<"lock", "remote">> \notin {<<"stop", "local">>, <<"stop", "remote">>, <<"hide", "local">>}
        /\ at["main"] \notin {<<"stop", "local">>, <<"stop", "remote">>, <<"hide", "local">>}
        /\ callState' \in {"Idle", "Connecting", "Connected"}
    BY <2>1 DEF VideoTypeOK
  <2>2. /\ VideoTypeOK' /\ TrackInv' /\ at'["main"] = <<"lock", "remote">>
        /\ at'["signaling"] = Rest
    BY <1>2, <2>1, <2>5
  <2>3. EndInv'
    BY <1>1, <2>1, <2>2 DEF LocalSteps, RemoteSteps, EndInv, Rest
  <2>4. LabelInv'
    BY <1>1, <2>1, <2>2 DEF LocalSteps, RemoteSteps, LabelInv, Rest
  <2>6. QED
    BY <2>2, <2>3, <2>4
<1>5. CASE VideoCallIsOver
  <2>1. /\ Goes("main", Rest) /\ callState' = "Idle" /\ UNCHANGED open
        /\ at["main"] = <<"cleanup", "none">> /\ ~open /\ Rest \in MainSteps
    BY <1>5 DEF VideoCallIsOver, MainSteps, EndInv
  <2>2. VideoTypeOK' /\ TrackInv' /\ at'["main"] = Rest /\ at'["signaling"] = at["signaling"]
    BY <1>2, <2>1 DEF VideoTypeOK, Rest
  <2>3. EndInv'
    BY <1>1, <2>1, <2>2 DEF LocalSteps, RemoteSteps, EndInv, Rest
  <2>4. LabelInv'
    BY <1>1, <2>1, <2>2 DEF LocalSteps, RemoteSteps, LabelInv, Rest
  <2>5. QED
    BY <2>2, <2>3, <2>4
<1>6. QED
  BY <1>3, <1>4, <1>5

(* The steps of the signaling thread alone.                                  *)
LEMMA CallbackKeeps ==
  ASSUME VideoInv,
         \/ RemoteTrackAdded \/ RemoteTrackRemoved \/ Established \/ SetConnected
         \/ \E o \in Occasions : HideLabel(o) \/ ShowPicture(o)
  PROVE  VideoInv'
<1> USE DEF VideoInv, Renderers, Threads, windowVars, frameVars, callVideoVars
<1>1. /\ at \in [Threads -> Steps] /\ at["main"] \in MainSteps
      /\ SignalingSteps \subseteq Steps
      /\ UNCHANGED <<calls, open, track, image, mutex, delivery, frame>>
      /\ at["signaling"] \in SignalingSteps
  BY DEF VideoTypeOK, Steps, RemoteTrackAdded, RemoteTrackRemoved, Established, Callback, SetConnected,
         HideLabel, ShowPicture
<1>2. ASSUME NEW step \in SignalingSteps, Goes("signaling", step), open,
             step \notin {<<"stop", "remote">>, <<"add", "remote">>},
             at["signaling"] \notin {<<"stop", "remote">>, <<"add", "remote">>},
             shown' \in [Renderers -> BOOLEAN], labelShown' \in BOOLEAN,
             shown'["local"] = shown["local"],
             callState' \in {callState, "Connected"}
      PROVE  /\ VideoTypeOK' /\ TrackInv' /\ EndInv'
             /\ at'["signaling"] = step /\ at'["main"] = at["main"]
  <2>1. at' \in [Threads -> Steps] /\ at'["signaling"] = step /\ at'["main"] = at["main"]
    BY <1>1, <1>2, GoesOn
  <2>2. \A r \in Renderers : ~Holds("signaling", r) /\ ~Holds("signaling", r)'
    BY <1>1, <1>2, <2>1 DEF Holds, SignalingSteps, Rest
  <2>3. callState # "Idle" /\ callState' # "Idle"
    BY <1>2 DEF LocalSteps, RemoteSteps, EndInv
  <2>4. VideoTypeOK'
    BY <1>1, <1>2, <2>1, <2>2 DEF VideoTypeOK, Holds, Steps
  <2>5. TrackInv'
    BY <1>1, <1>2, <2>1 DEF TrackInv
  <2>6. EndInv'
    BY <1>1, <1>2, <2>1, <2>3 DEF LocalSteps, RemoteSteps, EndInv
  <2>7. QED
    BY <2>1, <2>4, <2>5, <2>6
<1>3. open
  BY DEF RemoteTrackAdded, RemoteTrackRemoved, Established, Callback, SetConnected, HideLabel,
         ShowPicture, EndInv, Rest, Occasions
<1>4. ASSUME NEW step \in {<<"lockToAdd", "remote">>, <<"lock", "remote">>, <<"connect", "none">>},
             Callback(step)
      PROVE  VideoInv'
  <2>1. /\ step \in SignalingSteps /\ Goes("signaling", step) /\ at["signaling"] = Rest
        /\ UNCHANGED <<shown, labelShown, callState>>
    BY <1>4 DEF Callback, SignalingSteps
  <2>2. /\ VideoTypeOK' /\ TrackInv' /\ EndInv'
        /\ at'["signaling"] = step /\ at'["main"] = at["main"]
    BY <1>2, <1>3, <1>4, <2>1 DEF VideoTypeOK, Rest
  <2>3. LabelInv'
    BY <1>1, <1>4, <2>1, <2>2 DEF LocalSteps, RemoteSteps, LabelInv, Rest
  <2>4. QED
    BY <2>2, <2>3
<1>5. CASE SetConnected
  <2>1. /\ Goes("signaling", <<"unlabel", "first">>) /\ at["signaling"] = <<"connect", "none">>
        /\ UNCHANGED <<shown, labelShown>> /\ callState' = "Connected"
        /\ <<"unlabel", "first">> \in SignalingSteps
    BY <1>5 DEF SetConnected, SignalingSteps, Occasions
  <2>2. /\ VideoTypeOK' /\ TrackInv' /\ EndInv'
        /\ at'["signaling"] = <<"unlabel", "first">> /\ at'["main"] = at["main"]
    BY <1>2, <1>3, <2>1 DEF VideoTypeOK
  <2>3. LabelInv'
    BY <1>1, <2>1, <2>2 DEF LocalSteps, RemoteSteps, LabelInv, Rest
  <2>4. QED
    BY <2>2, <2>3
<1>6. ASSUME NEW o \in Occasions, HideLabel(o) PROVE VideoInv'
  <2> DEFINE step == AfterUnlabel[o]
  <2>1. /\ step \in SignalingSteps /\ step \notin {<<"stop", "remote">>, <<"add", "remote">>}
        /\ o = "added" => step = Rest
        /\ o = "first" => step = <<"show", "first">>
        /\ o = "second" => step = <<"show", "second">>
    BY DEF AfterUnlabel, Occasions, SignalingSteps, Rest
  <2>2. /\ Goes("signaling", step) /\ at["signaling"] = <<"unlabel", o>>
        /\ labelShown' = FALSE /\ UNCHANGED <<shown, callState>>
    BY <1>6 DEF HideLabel
  <2> HIDE DEF step
  <2>6. /\ at["signaling"] \notin {<<"stop", "remote">>, <<"add", "remote">>}
        /\ labelShown' \in BOOLEAN /\ shown' \in [Renderers -> BOOLEAN]
    <3>1. <<"unlabel", o>> # <<"stop", "remote">> /\ <<"unlabel", o>> # <<"add", "remote">>
      BY Z3
    <3>2. QED
      BY <2>2, <3>1 DEF VideoTypeOK
  <2>3. /\ VideoTypeOK' /\ TrackInv' /\ EndInv'
        /\ at'["signaling"] = step /\ at'["main"] = at["main"]
    BY <1>2, <1>3, <2>1, <2>2, <2>6
  <2>4. LabelInv'
    BY <1>1, <1>3, <2>1, <2>2, <2>3 DEF LocalSteps, RemoteSteps, LabelInv, Rest, Occasions, VideoTypeOK
  <2>5. QED
    BY <2>3, <2>4
<1>7. ASSUME NEW o \in Occasions, ShowPicture(o) PROVE VideoInv'
  <2> DEFINE step == AfterShow[o]
  <2>1. /\ step \in SignalingSteps /\ step \notin {<<"stop", "remote">>, <<"add", "remote">>}
        /\ o = "added" => step = <<"unlabel", "added">>
        /\ o = "first" => step = <<"unlabel", "second">>
        /\ o = "second" => step = Rest
    BY DEF AfterShow, Occasions, SignalingSteps, Rest
  <2>2. /\ Goes("signaling", step) /\ at["signaling"] = <<"show", o>>
        /\ shown' = [shown EXCEPT !["remote"] = TRUE] /\ UNCHANGED <<labelShown, callState>>
    BY <1>7 DEF ShowPicture
  <2> HIDE DEF step
  <2>3. shown' \in [Renderers -> BOOLEAN] /\ shown'["local"] = shown["local"] /\ shown'["remote"] = TRUE
    BY <2>2 DEF VideoTypeOK
  <2>4. /\ VideoTypeOK' /\ TrackInv' /\ EndInv'
        /\ at'["signaling"] = step /\ at'["main"] = at["main"]
    BY <1>2, <1>3, <2>1, <2>2, <2>3 DEF VideoTypeOK
  <2>5. LabelInv'
    BY <1>1, <1>3, <2>1, <2>2, <2>3, <2>4 DEF LocalSteps, RemoteSteps, LabelInv, Rest, Occasions, VideoTypeOK
  <2>6. QED
    BY <2>4, <2>5
<1>8. QED
  BY <1>4, <1>5, <1>6, <1>7 DEF RemoteTrackAdded, RemoteTrackRemoved, Established

-----------------------------------------------------------------------------
(* What the two threads share: the locks of a renderer and its window.       *)

LEMMA LockKeeps ==
  ASSUME VideoInv, NEW t \in Threads, NEW r \in Renderers, LockMutex(t, r)
  PROVE  VideoInv'
<1> USE DEF VideoInv, Renderers, Threads, windowVars, frameVars, callVideoVars
<1>1. PICK step \in {<<"stop", r>>, <<"add", r>>} :
        /\ Goes(t, step)
        /\ step = <<"stop", r>> => at[t] = <<"lock", r>>
        /\ step = <<"add", r>> => at[t] = <<"lockToAdd", r>>
  BY DEF LockMutex
<1>2. /\ at \in [Threads -> Steps] /\ UNCHANGED <<callVideoVars, track, image, windowVars, frameVars>>
      /\ mutex[r] = "free" /\ mutex' = [mutex EXCEPT ![r] = t]
  BY DEF LockMutex, VideoTypeOK, Steps
<1>3. step \in Steps /\ (t = "main" => step \in MainSteps) /\ (t = "signaling" => step \in SignalingSteps)
  BY <1>1 DEF VideoTypeOK, MainSteps, SignalingSteps, Steps, Rest
<1>4. at' \in [Threads -> Steps] /\ at'[t] = step /\ \A u \in Threads : u # t => at'[u] = at[u]
  BY <1>1, <1>2, <1>3, GoesOn
<1>5. /\ \A q \in Renderers : Holds(t, q)' <=> q = r
      /\ \A q \in Renderers : ~Holds(t, q)
      /\ \A u \in Threads, q \in Renderers : u # t => (Holds(u, q)' <=> Holds(u, q))
  BY <1>1, <1>4 DEF Holds
<1>6. VideoTypeOK'
  <2>1. mutex' \in [Renderers -> {"free", "main", "signaling", "frame"}]
    BY <1>2 DEF VideoTypeOK
  <2>2. \A q \in Renderers : delivery'[q] = "draw" <=> mutex'[q] = "frame"
    BY <1>2 DEF VideoTypeOK
  <2>3. \A q \in Renderers : \A u \in Threads : Holds(u, q)' <=> mutex'[q] = u
    BY <1>2, <1>5 DEF VideoTypeOK
  <2>4. at'["main"] \in MainSteps /\ at'["signaling"] \in SignalingSteps
    BY <1>3, <1>4 DEF VideoTypeOK
  <2>5. QED
    BY <1>2, <1>4, <2>1, <2>2, <2>3, <2>4 DEF VideoTypeOK, Steps
<1>7. TrackInv'
  BY <1>1, <1>2, <1>4 DEF TrackInv
<1>8. EndInv'
  BY <1>1, <1>2, <1>4 DEF LocalSteps, RemoteSteps, EndInv, Rest
<1>9. LabelInv'
  BY <1>1, <1>2, <1>4 DEF LocalSteps, RemoteSteps, LabelInv, Rest
<1>10. QED
  BY <1>6, <1>7, <1>8, <1>9

LEMMA SwapKeeps ==
  ASSUME VideoInv, NEW t \in Threads, NEW r \in Renderers, AddSink(t, r) \/ StopSink(t, r)
  PROVE  VideoInv'
<1> USE DEF VideoInv, Renderers, Threads, windowVars, frameVars, callVideoVars
<1>1. PICK new \in {0, calls}, step \in {<<"show", "added">>, <<"hide", r>>} :
        /\ SwapTrack(r, new) /\ Goes(t, step)
        /\ step = <<"hide", r>> => new = 0 /\ at[t] = <<"stop", r>>
        /\ step = <<"show", "added">> => new = calls /\ at[t] = <<"add", r>>
  BY DEF AddSink, StopSink
<1>2. /\ at \in [Threads -> Steps] /\ UNCHANGED <<callVideoVars, image, windowVars, frameVars>>
      /\ track' = [track EXCEPT ![r] = new] /\ mutex' = [mutex EXCEPT ![r] = "free"]
      /\ track[r] # 0 => delivery[r] = "rest"
  BY <1>1 DEF SwapTrack, VideoTypeOK, Steps
<1>3. /\ step \in Steps /\ (t = "main" => step \in MainSteps) /\ (t = "signaling" => step \in SignalingSteps)
      /\ step = <<"show", "added">> => t = "signaling" /\ r = "remote"
      /\ t = "signaling" => r = "remote"
  BY <1>1 DEF VideoTypeOK, MainSteps, SignalingSteps, Steps, Rest, Occasions
<1>4. at' \in [Threads -> Steps] /\ at'[t] = step /\ \A u \in Threads : u # t => at'[u] = at[u]
  BY <1>1, <1>2, <1>3, GoesOn
<1>5. /\ Holds(t, r) /\ mutex[r] = t /\ delivery[r] = "rest"
      /\ \A q \in Renderers : ~Holds(t, q)'
      /\ \A q \in Renderers : q # r => ~Holds(t, q)
      /\ \A u \in Threads, q \in Renderers : u # t => (Holds(u, q)' <=> Holds(u, q))
  <2>1. Holds(t, r)
    BY <1>1 DEF Holds
  <2>2. mutex[r] = t
    BY <2>1 DEF VideoTypeOK
  <2>3. delivery[r] = "rest"
    BY <1>2 DEF TrackInv
  <2>4. /\ \A q \in Renderers : ~Holds(t, q)'
        /\ \A q \in Renderers : q # r => ~Holds(t, q)
        /\ \A u \in Threads, q \in Renderers : u # t => (Holds(u, q)' <=> Holds(u, q))
    BY <1>1, <1>4 DEF Holds
  <2>5. QED
    BY <2>1, <2>2, <2>3, <2>4
<1>6. VideoTypeOK'
  <2>1. /\ mutex' \in [Renderers -> {"free", "main", "signaling", "frame"}]
        /\ track' \in [Renderers -> CallIds]
    BY <1>2 DEF VideoTypeOK, CallIds
  <2>2. \A q \in Renderers : delivery'[q] = "draw" <=> mutex'[q] = "frame"
    BY <1>2, <1>5 DEF VideoTypeOK
  <2>3. \A q \in Renderers : \A u \in Threads : Holds(u, q)' <=> mutex'[q] = u
    BY <1>2, <1>5 DEF VideoTypeOK
  <2>4. at'["main"] \in MainSteps /\ at'["signaling"] \in SignalingSteps
    BY <1>3, <1>4 DEF VideoTypeOK
  <2>5. QED
    BY <1>2, <1>4, <2>1, <2>2, <2>3, <2>4 DEF VideoTypeOK, Steps
<1>7. TrackInv'
  <2>1. \A q \in Renderers : track'[q] \in {0, calls'} /\ (q # r => track'[q] = track[q])
    BY <1>2 DEF TrackInv, VideoTypeOK
  <2>2. \A q \in Renderers : delivery'[q] # "rest" => track'[q] # 0 /\ frame'[q] = calls'
    BY <1>2, <1>5, <2>1 DEF TrackInv
  <2>3. shown'["local"] <=> track'["local"] # 0 \/ at'["main"] = <<"hide", "local">>
    <3>1. CASE r = "local"
      <4>1. t = "main" /\ step = <<"hide", "local">> /\ new = 0 /\ at["main"] = <<"stop", "local">>
        BY <1>1, <1>3, <3>1
      <4>2. shown["local"]
        BY <4>1 DEF LocalSteps, RemoteSteps, EndInv
      <4>3. QED
        BY <1>2, <1>4, <4>1, <4>2
    <3>2. CASE r = "remote"
      <4>1. track'["local"] = track["local"]
        BY <2>1, <3>2
      <4>2. at'["main"] = <<"hide", "local">> <=> at["main"] = <<"hide", "local">>
        <5>1. CASE t = "main"
          BY <1>1, <1>3, <1>4, <3>2, <5>1
        <5>2. CASE t # "main"
          BY <1>4, <5>2
        <5>3. QED
          BY <5>1, <5>2
      <4>3. QED
        BY <1>2, <4>1, <4>2 DEF TrackInv
    <3>3. QED
      BY <3>1, <3>2
  <2>4. at'["main"] = <<"hide", "local">> => track'["local"] = 0
    <3>1. CASE r = "local"
      <4>1. new = 0
        BY <1>1, <1>3, <3>1
      <4>2. QED
        BY <1>2, <3>1, <4>1 DEF VideoTypeOK
    <3>2. CASE r = "remote"
      <4>1. track'["local"] = track["local"] /\ step # <<"hide", "local">>
        BY <1>1, <2>1, <3>2
      <4>2. at'["main"] = <<"hide", "local">> => at["main"] = <<"hide", "local">>
        BY <1>4, <4>1
      <4>3. QED
        BY <4>1, <4>2 DEF TrackInv
    <3>3. QED
      BY <3>1, <3>2
  <2>5. image'["local"] \in {0, calls'} /\ (~shown'["local"] => image'["local"] = 0)
    BY <1>2 DEF TrackInv
  <2>6. QED
    BY <2>1, <2>2, <2>3, <2>4, <2>5 DEF TrackInv
<1>8. EndInv'
  BY <1>1, <1>2, <1>3, <1>4 DEF LocalSteps, RemoteSteps, EndInv, Rest, VideoTypeOK
<1>9. LabelInv'
  BY <1>1, <1>2, <1>3, <1>4 DEF LocalSteps, RemoteSteps, LabelInv, Rest
<1>10. QED
  BY <1>6, <1>7, <1>8, <1>9

LEMMA HideKeeps ==
  ASSUME VideoInv, NEW t \in Threads, NEW r \in Renderers, HideRenderer(t, r)
  PROVE  VideoInv'
<1> USE DEF VideoInv, Renderers, Threads, frameVars, callVideoVars
<1> DEFINE step == IF r = "local" THEN <<"lock", "remote">> ELSE <<"label", "remote">>
<1>1. /\ at \in [Threads -> Steps] /\ at[t] = <<"hide", r>> /\ Goes(t, step)
      /\ shown' = [shown EXCEPT ![r] = FALSE]
      /\ image' = IF r = "local" THEN [image EXCEPT ![r] = 0] ELSE image
      /\ UNCHANGED <<callVideoVars, track, labelShown, mutex, frameVars>>
  BY DEF HideRenderer, VideoTypeOK, Steps
<1>2. /\ r = "local" => t = "main" /\ step = <<"lock", "remote">>
      /\ r = "remote" => step = <<"label", "remote">>
      /\ step \in MainSteps /\ step \in SignalingSteps /\ step \in Steps
  BY <1>1 DEF VideoTypeOK, MainSteps, SignalingSteps, Steps, Rest
<1> HIDE DEF step
<1>3. at' \in [Threads -> Steps] /\ at'[t] = step /\ \A u \in Threads : u # t => at'[u] = at[u]
  BY <1>1, <1>2, GoesOn
<1>4. /\ shown' \in [Renderers -> BOOLEAN] /\ image' \in [Renderers -> CallIds]
      /\ shown'[r] = FALSE /\ \A q \in Renderers : q # r => shown'[q] = shown[q] /\ image'[q] = image[q]
      /\ r = "local" => image'["local"] = 0
      /\ r = "remote" => image' = image
  <2>1. shown \in [Renderers -> BOOLEAN] /\ image \in [Renderers -> CallIds] /\ 0 \in CallIds
    BY DEF VideoTypeOK, CallIds
  <2>2. /\ shown' \in [Renderers -> BOOLEAN] /\ shown'[r] = FALSE
        /\ \A q \in Renderers : q # r => shown'[q] = shown[q]
    BY <1>1, <2>1
  <2>3. CASE r = "local"
    <3>1. image' = [image EXCEPT !["local"] = 0]
      BY <1>1, <2>3
    <3>2. QED
      BY <2>1, <2>2, <2>3, <3>1
  <2>4. CASE r = "remote"
    <3>1. image' = image
      BY <1>1, <2>4
    <3>2. QED
      BY <2>1, <2>2, <2>4, <3>1
  <2>5. QED
    BY <2>3, <2>4
<1>5. VideoTypeOK'
  <2>1. \A u \in Threads, q \in Renderers : Holds(u, q)' <=> Holds(u, q)
    BY <1>1, <1>2, <1>3 DEF Holds
  <2>2. at'["main"] \in MainSteps /\ at'["signaling"] \in SignalingSteps
    BY <1>2, <1>3 DEF VideoTypeOK
  <2>3. QED
    BY <1>1, <1>3, <1>4, <2>1, <2>2 DEF VideoTypeOK, Steps
<1>6. TrackInv'
  <2>1. CASE r = "local"
    <3>1. t = "main" /\ at["main"] = <<"hide", "local">> /\ at'["main"] = <<"lock", "remote">>
      BY <1>1, <1>2, <1>3, <2>1
    <3>2. shown["local"] /\ track["local"] = 0
      BY <3>1 DEF TrackInv, LocalSteps, RemoteSteps, EndInv
    <3>3. QED
      BY <1>1, <1>4, <2>1, <3>1, <3>2 DEF TrackInv, VideoTypeOK
  <2>2. CASE r = "remote"
    BY <1>1, <1>2, <1>3, <1>4, <2>2 DEF TrackInv
  <2>3. QED
    BY <2>1, <2>2
<1>7. EndInv'
  <2>1. CASE r = "local"
    BY <1>1, <1>2, <1>3, <1>4, <2>1 DEF LocalSteps, RemoteSteps, EndInv, Rest
  <2>2. CASE r = "remote"
    BY <1>1, <1>2, <1>3, <1>4, <2>2 DEF LocalSteps, RemoteSteps, EndInv, Rest
  <2>3. QED
    BY <2>1, <2>2
<1>8. LabelInv'
  <2>1. CASE r = "local"
    BY <1>1, <1>2, <1>3, <1>4, <2>1 DEF LocalSteps, RemoteSteps, LabelInv, EndInv, Rest
  <2>2. CASE r = "remote"
    BY <1>1, <1>2, <1>3, <1>4, <2>2 DEF LocalSteps, RemoteSteps, LabelInv, EndInv, Rest
  <2>3. QED
    BY <2>1, <2>2
<1>9. QED
  BY <1>5, <1>6, <1>7, <1>8

LEMMA LabelKeeps ==
  ASSUME VideoInv, NEW t \in Threads, ShowLabel(t)
  PROVE  VideoInv'
<1> USE DEF VideoInv, Renderers, Threads, frameVars, callVideoVars
<1> DEFINE step == AfterLabel(t)
<1>1. /\ at \in [Threads -> Steps] /\ at[t] = <<"label", "remote">> /\ Goes(t, step)
      /\ labelShown' = TRUE
      /\ UNCHANGED <<callVideoVars, track, image, shown, mutex, frameVars>>
  BY DEF ShowLabel, VideoTypeOK, Steps
<1>2. /\ t = "signaling" => step = Rest
      /\ t = "main" /\ open => step = <<"close", "none">>
      /\ t = "main" /\ ~open => step = <<"cleanup", "none">>
      /\ t = "main" => step \in MainSteps
      /\ t = "signaling" => step \in SignalingSteps
      /\ step \in Steps
  BY DEF AfterLabel, MainSteps, SignalingSteps, Steps, Rest, VideoTypeOK
<1> HIDE DEF step
<1>3. at' \in [Threads -> Steps] /\ at'[t] = step /\ \A u \in Threads : u # t => at'[u] = at[u]
  BY <1>1, <1>2, GoesOn
<1>4. VideoTypeOK'
  <2>1. \A u \in Threads, q \in Renderers : Holds(u, q)' <=> Holds(u, q)
    BY <1>1, <1>2, <1>3 DEF Holds, Rest, VideoTypeOK
  <2>2. at'["main"] \in MainSteps /\ at'["signaling"] \in SignalingSteps
    BY <1>2, <1>3 DEF VideoTypeOK
  <2>3. QED
    BY <1>1, <1>3, <2>1, <2>2 DEF VideoTypeOK, Steps
<1>5. TrackInv'
  BY <1>1, <1>2, <1>3 DEF TrackInv, Rest, VideoTypeOK
<1>6. EndInv'
  BY <1>1, <1>2, <1>3 DEF LocalSteps, RemoteSteps, EndInv, Rest, VideoTypeOK
<1>7. LabelInv'
  <2>1. CASE t = "main"
    BY <1>1, <1>2, <1>3, <2>1 DEF LocalSteps, RemoteSteps, LabelInv, EndInv, Rest, VideoTypeOK
  <2>2. CASE t = "signaling"
    <3>1. at'["signaling"] = Rest /\ at'["main"] = at["main"] /\ open
      BY <1>1, <1>2, <1>3, <2>2 DEF EndInv, Rest
    <3>2. at["main"] \notin {<<"label", "remote">>, <<"close", "none">>} => shown'["remote"] = FALSE
      BY <1>1, <2>2, <3>1 DEF LabelInv, VideoTypeOK
    <3>3. /\ Rest \notin {<<"label", "remote">>, <<"unlabel", "added">>, <<"unlabel", "second">>}
          /\ Rest \notin {<<"show", "first">>, <<"show", "second">>}
      BY DEF Rest
    <3>4. QED
      BY <1>1, <3>1, <3>2, <3>3 DEF LabelInv
  <2>3. QED
    BY <2>1, <2>2
<1>8. QED
  BY <1>4, <1>5, <1>6, <1>7

LEMMA FrameKeeps ==
  ASSUME VideoInv, NEW r \in Renderers, Deliver(r) \/ FrameLocks(r) \/ OnFrame(r)
  PROVE  VideoInv'
<1> USE DEF VideoInv, Renderers, windowVars, callVideoVars
<1>1. UNCHANGED <<calls, callState, open, at, track, shown, labelShown>>
  BY DEF Deliver, FrameLocks, OnFrame
<1>2. EndInv' /\ LabelInv'
  BY <1>1 DEF LocalSteps, RemoteSteps, EndInv, LabelInv
<1>3. \A u \in Threads, q \in Renderers : Holds(u, q)' <=> Holds(u, q)
  BY <1>1 DEF Holds
<1>4. CASE Deliver(r)
  <2>1. track[r] = calls /\ calls # 0 /\ delivery[r] = "rest" /\ frame' = [frame EXCEPT ![r] = calls]
    BY <1>4 DEF Deliver, EndInv, VideoTypeOK, CallIds
  <2>2. VideoTypeOK'
    BY <1>1, <1>3, <1>4, <2>1 DEF Deliver, VideoTypeOK, Threads
  <2>3. TrackInv'
    BY <1>1, <1>4, <2>1 DEF Deliver, TrackInv, VideoTypeOK
  <2>4. QED
    BY <1>2, <2>2, <2>3
<1>5. CASE FrameLocks(r)
  <2>1. VideoTypeOK'
    BY <1>1, <1>3, <1>5 DEF FrameLocks, VideoTypeOK, Threads
  <2>2. TrackInv'
    BY <1>1, <1>5 DEF FrameLocks, TrackInv, VideoTypeOK
  <2>3. QED
    BY <1>2, <2>1, <2>2
<1>6. CASE OnFrame(r)
  <2>1. mutex[r] = "frame" /\ track[r] # 0 /\ frame[r] = calls
    BY <1>6 DEF OnFrame, VideoTypeOK, TrackInv
  <2>2. VideoTypeOK'
    BY <1>1, <1>3, <1>6, <2>1 DEF OnFrame, VideoTypeOK, Threads, CallIds
  <2>3. TrackInv'
    BY <1>1, <1>6, <2>1 DEF OnFrame, TrackInv, VideoTypeOK
  <2>4. QED
    BY <1>2, <2>2, <2>3
<1>7. QED
  BY <1>4, <1>5, <1>6

(* The invariant holds throughout.                                           *)
THEOREM VideoInductive == VideoSpec => []VideoInv
<1>1. VideoInv /\ [VideoNext]_videoVars => VideoInv'
  <2> SUFFICES ASSUME VideoInv, [VideoNext]_videoVars PROVE VideoInv'
    OBVIOUS
  <2>1. ASSUME NEW t \in Threads, Stops(t) PROVE VideoInv'
    BY <2>1, LockKeeps, SwapKeeps, HideKeeps, LabelKeeps DEF Stops
  <2>2. CASE VideoCallStarts \/ VideoCallEnds \/ MainStep
    BY <2>1, <2>2, StartKeeps, EndKeeps DEF MainStep, Threads
  <2>3. CASE RemoteTrackAdded \/ RemoteTrackRemoved \/ Established \/ SignalingStep
    BY <2>1, <2>3, CallbackKeeps DEF SignalingStep, Threads
  <2>4. CASE \E r \in Renderers : Deliver(r) \/ FrameLocks(r) \/ OnFrame(r)
    BY <2>4, FrameKeeps
  <2>5. CASE UNCHANGED videoVars
    BY <2>5 DEF videoVars, callVideoVars, windowVars, frameVars, VideoInv, VideoTypeOK, Holds, TrackInv, EndInv,
                LabelInv
  <2>6. QED
    BY <2>2, <2>3, <2>4, <2>5 DEF VideoNext
<1>2. QED
  BY VideoInitEstablishes, <1>1, PTL DEF VideoSpec

-----------------------------------------------------------------------------
(* For any number of calls, tracks and frames, and however the main thread,  *)
(* the signaling thread and the frames interleave: locks are held by one     *)
(* thread, the user's own picture is of this call, picture or state of the   *)
(* call is shown when both threads are done, and when the call is over       *)
(* nothing reaches a renderer and the window shows the state.                *)
THEOREM PicturesFollow == VideoSpec => []PicturesFollowCall
<1>1. VideoInv => OwnPictureIsFresh
  BY DEF VideoInv, TrackInv, OwnPictureIsFresh, Seen
<1>2. VideoInv => LabelOrPicture
  <2> SUFFICES ASSUME VideoInv, at["main"] = Rest, at["signaling"] = Rest
               PROVE  labelShown # shown["remote"]
    BY DEF LabelOrPicture, Threads
  <2>1. CASE open
    <3>1. labelShown = ~shown["remote"]
      BY <2>1 DEF VideoInv, LabelInv, Rest
    <3>2. shown["remote"] \in BOOLEAN
      BY DEF VideoInv, VideoTypeOK, Renderers
    <3>3. QED
      BY <3>1, <3>2
  <2>2. CASE ~open
    BY <2>2 DEF VideoInv, LabelInv, Rest, VideoTypeOK
  <2>3. QED
    BY <2>1, <2>2
<1>3. VideoInv => EndedIsStill
  <2> SUFFICES ASSUME VideoInv, callState = "Idle"
               PROVE  /\ \A r \in Renderers : track[r] = 0 /\ delivery[r] = "rest"
                      /\ labelShown /\ ~shown["remote"] /\ ~shown["local"]
    BY DEF EndedIsStill
  <2>1. at["main"] = Rest /\ ~open /\ ~shown["local"] /\ track["remote"] = 0
    BY DEF VideoInv, EndInv, Rest
  <2>2. labelShown /\ ~shown["remote"]
    BY <2>1 DEF VideoInv, LabelInv
  <2>3. track["local"] = 0
    BY <2>1 DEF VideoInv, TrackInv
  <2>4. QED
    BY <2>1, <2>2, <2>3 DEF VideoInv, TrackInv, Renderers
<1>4. VideoInv => PicturesFollowCall
  BY <1>1, <1>2, <1>3 DEF VideoInv, PicturesFollowCall
<1>5. QED
  BY <1>4, VideoInductive, PTL
=============================================================================
