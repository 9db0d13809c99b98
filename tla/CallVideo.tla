------------------------------- MODULE CallVideo -------------------------------
(* The pictures in the window of a call: the local and the remote            *)
(* VideoRenderer of VideoCallDialog, the threads that use them and the two   *)
(* locks between these: mutex_ of a renderer, and the lock under which a     *)
(* track's source (WebRTC, external) delivers a frame to its sinks.          *)
(*                                                                           *)
(* The main thread starts calls and ends them.  The signaling thread of      *)
(* WebRTC adds and removes the peer's track and reports the connection; it   *)
(* changes the window itself, whatever the main thread is at.  Frames come   *)
(* in threads of their own.  A picture or track is named by the number of    *)
(* its call.                                                                 *)
EXTENDS Naturals

CONSTANT MaxCalls     \* bound: calls

ASSUME CallVideoAssumption == MaxCalls \in Nat

VARIABLES
  calls,              \* calls so far; the last may go on
  callState,          \* call_state_, as far as it shows here
  open,               \* there is a peer connection: callbacks come
  at,                 \* what each of the two threads does next
  track,              \* rendered_track_, which delivers to the renderer
  image,              \* image_: of which call, 0 for none
  shown, labelShown,  \* renderers, call_status_label_; local: exists
  mutex,              \* who holds mutex_
  delivery, frame     \* thread of the frames: at rest, has the lock of the
                      \* source and is to lock mutex_, or has both; its frame

callVideoVars == <<calls, callState, open>>
windowVars    == <<shown, labelShown>>
frameVars     == <<delivery, frame>>
videoVars     == <<callVideoVars, at, track, image, windowVars, mutex, frameVars>>

Renderers == {"local", "remote"}
Threads   == {"main", "signaling"}
CallIds   == 0..MaxCalls
Rest      == <<"rest", "none">>

VideoInit ==
  /\ calls = 0 /\ callState = "Idle" /\ open = FALSE /\ at = [t \in Threads |-> Rest]
  /\ track = [r \in Renderers |-> 0] /\ image = [r \in Renderers |-> 0]
  /\ shown = [r \in Renderers |-> FALSE] /\ labelShown = TRUE
  /\ mutex = [r \in Renderers |-> "free"]
  /\ delivery = [r \in Renderers |-> "rest"] /\ frame = [r \in Renderers |-> 0]

Goes(t, step) == at' = [at EXCEPT ![t] = step]

-----------------------------------------------------------------------------
(* A call starts.  The local renderer is new: nobody else has its mutex.     *)

(* Faulty: mutex_ is not released.                                           *)
SetLocalVideoTrack_StaysLocked ==
  /\ track' = [track EXCEPT !["local"] = calls']
  /\ mutex' = [mutex EXCEPT !["local"] = "main"]
  /\ shown' = [shown EXCEPT !["local"] = TRUE]

SetLocalVideoTrack ==
  /\ track' = [track EXCEPT !["local"] = calls'] /\ UNCHANGED mutex
  /\ shown' = [shown EXCEPT !["local"] = TRUE]

(* AddTracks: without a camera there is no local track.                      *)
VideoCallStarts ==
  /\ callState = "Idle" /\ at["main"] = Rest /\ calls < MaxCalls
  /\ calls' = calls + 1 /\ callState' = "Connecting" /\ open' = TRUE
  /\ SetLocalVideoTrack \/ UNCHANGED <<track, mutex, shown>>
  /\ UNCHANGED <<at, image, labelShown, frameVars>>

(* Hung up by either side: both renderers are stopped, the connection is     *)
(* closed, and the same again, before call_state_ changes.                   *)
VideoCallEnds ==
  /\ callState # "Idle" /\ at["main"] = Rest
  /\ Goes("main", <<"lock", IF shown["local"] THEN "local" ELSE "remote">>)
  /\ UNCHANGED <<callVideoVars, track, image, windowVars, mutex, frameVars>>

(* Faulty: stops the renderers only before it closes the connection.         *)
ClosePeerConnection_StopsOnce ==
  /\ at["main"] = <<"close", "none">> /\ at["signaling"] = Rest
  /\ open' = FALSE /\ Goes("main", <<"cleanup", "none">>)
  /\ UNCHANGED <<calls, callState, track, image, windowVars, mutex, frameVars>>

(* Waits for the callback that is under way; none comes later.  The local    *)
(* renderer is gone by now, the remote one is stopped once more.             *)
ClosePeerConnection ==
  /\ at["main"] = <<"close", "none">> /\ at["signaling"] = Rest
  /\ open' = FALSE /\ Goes("main", <<"lock", "remote">>)
  /\ UNCHANGED <<calls, callState, track, image, windowVars, mutex, frameVars>>

VideoCallIsOver ==
  /\ at["main"] = <<"cleanup", "none">>
  /\ callState' = "Idle" /\ Goes("main", Rest)
  /\ UNCHANGED <<calls, open, track, image, windowVars, mutex, frameVars>>

-----------------------------------------------------------------------------
(* The callbacks of the signaling thread.                                    *)

Callback(step) ==
  /\ open /\ at["signaling"] = Rest /\ Goes("signaling", step)
  /\ UNCHANGED <<callVideoVars, track, image, windowVars, mutex, frameVars>>

RemoteTrackAdded   == Callback(<<"lockToAdd", "remote">>)
RemoteTrackRemoved == track["remote"] # 0 /\ Callback(<<"lock", "remote">>)
Established        == callState = "Connecting" /\ Callback(<<"connect", "none">>)

(* The state was read before, and is set now.                                *)
SetConnected ==
  /\ at["signaling"] = <<"connect", "none">>
  /\ callState' = "Connected" /\ Goes("signaling", <<"unlabel", "first">>)
  /\ UNCHANGED <<calls, open, track, image, windowVars, mutex, frameVars>>

(* updateCallState is called by the observer and by the signal; a track that *)
(* was added shows the picture first.                                        *)
AfterUnlabel ==
  [added |-> Rest, first |-> <<"show", "first">>, second |-> <<"show", "second">>]
AfterShow ==
  [added |-> <<"unlabel", "added">>, first |-> <<"unlabel", "second">>, second |-> Rest]
Occasions == {"added", "first", "second"}

HideLabel(o) ==
  /\ at["signaling"] = <<"unlabel", o>>
  /\ labelShown' = FALSE /\ Goes("signaling", AfterUnlabel[o])
  /\ UNCHANGED <<callVideoVars, track, image, shown, mutex, frameVars>>

ShowPicture(o) ==
  /\ at["signaling"] = <<"show", o>>
  /\ shown' = [shown EXCEPT !["remote"] = TRUE] /\ Goes("signaling", AfterShow[o])
  /\ UNCHANGED <<callVideoVars, track, image, labelShown, mutex, frameVars>>

-----------------------------------------------------------------------------
(* SetVideoTrack, stopLocalVideo and stopRemoteVideo, in either thread.      *)

LockMutex(t, r) ==
  /\ mutex[r] = "free" /\ mutex' = [mutex EXCEPT ![r] = t]
  /\ \/ at[t] = <<"lock", r>>      /\ Goes(t, <<"stop", r>>)
     \/ at[t] = <<"lockToAdd", r>> /\ Goes(t, <<"add", r>>)
  /\ UNCHANGED <<callVideoVars, track, image, windowVars, frameVars>>

(* RemoveSink waits for the source of the track there was.                   *)
SwapTrack(r, new) ==
  /\ track[r] # 0 => delivery[r] = "rest"
  /\ track' = [track EXCEPT ![r] = new] /\ mutex' = [mutex EXCEPT ![r] = "free"]
  /\ UNCHANGED <<callVideoVars, image, windowVars, frameVars>>

AddSink(t, r) ==
  /\ at[t] = <<"add", r>> /\ SwapTrack(r, calls) /\ Goes(t, <<"show", "added">>)

StopSink(t, r) ==
  /\ at[t] = <<"stop", r>> /\ SwapTrack(r, 0) /\ Goes(t, <<"hide", r>>)

(* The local renderer is deleted; the remote one keeps its last picture.     *)
HideRenderer(t, r) ==
  /\ at[t] = <<"hide", r>>
  /\ shown' = [shown EXCEPT ![r] = FALSE]
  /\ image' = IF r = "local" THEN [image EXCEPT ![r] = 0] ELSE image
  /\ Goes(t, IF r = "local" THEN <<"lock", "remote">> ELSE <<"label", "remote">>)
  /\ UNCHANGED <<callVideoVars, track, labelShown, mutex, frameVars>>

AfterLabel(t) ==
  IF t = "signaling" THEN Rest ELSE <<IF open THEN "close" ELSE "cleanup", "none">>

ShowLabel(t) ==
  /\ at[t] = <<"label", "remote">>
  /\ labelShown' = TRUE /\ Goes(t, AfterLabel(t))
  /\ UNCHANGED <<callVideoVars, track, image, shown, mutex, frameVars>>

-----------------------------------------------------------------------------
(* Frames.                                                                   *)

(* A source delivers while its call is there.                                *)
Deliver(r) ==
  /\ callState # "Idle" /\ track[r] = calls /\ delivery[r] = "rest"
  /\ delivery' = [delivery EXCEPT ![r] = "deliver"] /\ frame' = [frame EXCEPT ![r] = track[r]]
  /\ UNCHANGED <<callVideoVars, at, track, image, windowVars, mutex>>

FrameLocks(r) ==
  /\ delivery[r] = "deliver" /\ mutex[r] = "free"
  /\ delivery' = [delivery EXCEPT ![r] = "draw"] /\ mutex' = [mutex EXCEPT ![r] = "frame"]
  /\ UNCHANGED <<callVideoVars, at, track, image, windowVars, frame>>

OnFrame(r) ==
  /\ delivery[r] = "draw"
  /\ image' = [image EXCEPT ![r] = frame[r]] /\ frame' = [frame EXCEPT ![r] = 0]
  /\ delivery' = [delivery EXCEPT ![r] = "rest"] /\ mutex' = [mutex EXCEPT ![r] = "free"]
  /\ UNCHANGED <<callVideoVars, at, track, windowVars>>

-----------------------------------------------------------------------------
Stops(t) ==
  \/ \E r \in Renderers : LockMutex(t, r) \/ AddSink(t, r) \/ StopSink(t, r) \/ HideRenderer(t, r)
  \/ ShowLabel(t)

MainStep      == Stops("main") \/ ClosePeerConnection \/ VideoCallIsOver
SignalingStep ==
  Stops("signaling") \/ SetConnected \/ \E o \in Occasions : HideLabel(o) \/ ShowPicture(o)

VideoNext ==
  \/ VideoCallStarts \/ VideoCallEnds \/ MainStep
  \/ RemoteTrackAdded \/ RemoteTrackRemoved \/ Established \/ SignalingStep
  \/ \E r \in Renderers : Deliver(r) \/ FrameLocks(r) \/ OnFrame(r)

(* Threads run on, and one that waits for a mutex or for a thread that is    *)
(* free again and again gets its turn.  No frame need come, and no call end. *)
VideoFairness ==
  /\ SF_videoVars(MainStep) /\ SF_videoVars(SignalingStep)
  /\ \A r \in Renderers : WF_videoVars(FrameLocks(r)) /\ WF_videoVars(OnFrame(r))

VideoSpec == VideoInit /\ [][VideoNext]_videoVars

-----------------------------------------------------------------------------
(* Properties.                                                               *)

MainSteps == ({"lock", "stop", "hide"} \X Renderers)
             \cup {Rest, <<"label", "remote">>, <<"close", "none">>, <<"cleanup", "none">>}
SignalingSteps == {Rest, <<"connect", "none">>}
             \cup ({"lockToAdd", "add", "lock", "stop", "hide", "label"} \X {"remote"})
             \cup ({"show", "unlabel"} \X Occasions)

Holds(t, r) == at[t] \in {<<"stop", r>>, <<"add", r>>}

(* Types, and who holds which lock: one thread at a time.                    *)
VideoTypeOK ==
  /\ calls \in CallIds /\ callState \in {"Idle", "Connecting", "Connected"} /\ open \in BOOLEAN
  /\ at \in [Threads -> MainSteps \cup SignalingSteps]
  /\ at["main"] \in MainSteps /\ at["signaling"] \in SignalingSteps
  /\ track \in [Renderers -> CallIds] /\ image \in [Renderers -> CallIds]
  /\ frame \in [Renderers -> CallIds] /\ delivery \in [Renderers -> {"rest", "deliver", "draw"}]
  /\ shown \in [Renderers -> BOOLEAN] /\ labelShown \in BOOLEAN
  /\ mutex \in [Renderers -> {"free", "main", "signaling", "frame"}]
  /\ \A r \in Renderers : /\ delivery[r] = "draw" <=> mutex[r] = "frame"
                          /\ \A t \in Threads : Holds(t, r) <=> mutex[r] = t

(* paintEvent.                                                               *)
Seen(r) == IF shown[r] THEN image[r] ELSE 0

(* The user's own picture is never one of an earlier call.                   *)
OwnPictureIsFresh == Seen("local") \in {0, calls}

(* Where the peer's picture is, or would be, there is the state of the call  *)
(* instead, and never both or none once both threads are done with it,       *)
(* though each changes one after the other and neither waits.                *)
LabelOrPicture == (\A t \in Threads : at[t] = Rest) => labelShown # shown["remote"]

(* After a call no frame can reach a renderer any more, and the window shows *)
(* the state again, whatever the signaling thread added or showed meanwhile. *)
EndedIsStill ==
  callState = "Idle" => /\ \A r \in Renderers : track[r] = 0 /\ delivery[r] = "rest"
                        /\ labelShown /\ ~shown["remote"] /\ ~shown["local"]

(* A frame that was on its way when the renderer was stopped, and the thread *)
(* that stops it, wait for each other.                                       *)
Crossed == \E r \in Renderers, t \in Threads :
  Holds(t, r) /\ track[r] # 0 /\ delivery[r] = "deliver"

Ending == callState # "Idle" /\ at["main"] # Rest

(* A call that ends is over at last, unless a frame was on its way when a    *)
(* thread took mutex_: nothing but that can hold it up.                      *)
StopEnds == Ending ~> (~Ending \/ Crossed)

(* The pictures are those of the call, and nothing of a call is left to      *)
(* the next one.                                                             *)
PicturesFollowCall ==
  /\ VideoTypeOK
  /\ OwnPictureIsFresh
  /\ LabelOrPicture
  /\ EndedIsStill
===============================================================================
