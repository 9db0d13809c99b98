----------------------------- MODULE CallSystem -----------------------------
(***************************************************************************)
(* Video calls between NetherLink clients: every client runs a             *)
(* CallManager, a CallCoordinator and a WebRTCEngine, joined to the other  *)
(* clients by a SignalClient and the signaling server.                     *)
(*                                                                         *)
(* An action is one handler run by the Qt main thread of one client (a     *)
(* click, a received message, a timer, a posted lambda) or one callback of *)
(* its WebRTC signaling thread.  Handlers are atomic with respect to each  *)
(* other because they share the main thread; a callback that is under way  *)
(* is visible as "establishing".                                           *)
(***************************************************************************)
EXTENDS Naturals, Sequences, FiniteSets

CONSTANTS
  Clients,       \* the users' clients
  NoPeer,        \* an empty peer id
  Unstable,      \* the clients that may lose the connection, exit or fail
  MaxCalls,      \* bound: calls placed in a behaviour
  MaxFaults,     \* bound: connection losses, exits and WebRTC failures
  MaxCandidates  \* bound: ICE candidates gathered by one peer connection

ASSUME ClientsAssumption == NoPeer \notin Clients /\ Unstable \subseteq Clients
ASSUME BoundsAssumption  == MaxCalls \in Nat /\ MaxFaults \in Nat /\ MaxCandidates \in Nat

VARIABLES
  cm,            \* CallManager: call_state_, current_peer_, is_caller_, call_request_timer_
  coordPeer,     \* CallCoordinator: current_peer_id_
  engine,        \* WebRTCEngine: peer_connection_, video_source_, pending_ice_candidates_
  establishing,  \* WebRTC thread is inside NotifyPeerConnectionEstablished
  posted,        \* lambdas queued to the main thread by the WebRTC thread
  online,        \* SignalClient: is_connected_
  net,           \* net[f][t]: messages of f on their way to t, oldest first
  calls, faults, \* used part of MaxCalls and MaxFaults
  serial,        \* history: every call so far was placed in a quiet system
  paired,        \* history: every call so far was placed between a quiet pair
  late           \* history: of whom something of an answered call was left when
                 \* the client's peer connection was made

managerVars == <<cm, coordPeer>>
engineVars  == <<engine, establishing>>
signalVars  == <<posted, online, net>>
historyVars == <<serial, paired, late>>
vars == <<cm, coordPeer, engine, establishing, posted, online, net,
          calls, faults, serial, paired, late>>

CallStates == {"Idle", "Calling", "Receiving", "Connecting", "Connected"}

(* The state of peer_connection_: absent; created; CreateOffer pending;    *)
(* local offer set; CreateAnswer pending; both descriptions set; a         *)
(* description could not be created.                                       *)
PcStates == {"none", "new", "offering", "offered", "answering", "stable", "broken"}

MediaMessages == {"offer", "answer", "ice-candidate"}
Messages == {"call-request", "call-accepted", "call-rejected", "call-cancel",
             "call-end", "user-offline"} \cup MediaMessages

Manager(state, peer, isCaller, timer) ==
  [state |-> state, peer |-> peer, isCaller |-> isCaller, timer |-> timer]
IdleManager == Manager("Idle", NoPeer, FALSE, FALSE)

Engine(pc, camera, remote, pending, gathered) ==
  [pc |-> pc, camera |-> camera, remote |-> remote, pending |-> pending, gathered |-> gathered]
NewEngine(pc, camera) == Engine(pc, camera, NoPeer, 0, 0)
ClosedEngine == NewEngine("none", FALSE)

(* CreateOffer has been called for the caller's connection.                *)
InitialPcState(is_caller) == IF is_caller THEN "offering" ELSE "new"
(* AddTracks: without a usable camera the call goes on without video.      *)
CameraOutcomes == BOOLEAN

Init ==
  /\ cm           = [c \in Clients |-> IdleManager]
  /\ coordPeer    = [c \in Clients |-> NoPeer]
  /\ engine       = [c \in Clients |-> ClosedEngine]
  /\ establishing = [c \in Clients |-> FALSE]
  /\ posted       = [c \in Clients |-> <<>>]
  /\ online       = [c \in Clients |-> TRUE]
  /\ net          = [f \in Clients |-> [t \in Clients |-> <<>>]]
  /\ calls = 0 /\ faults = 0
  /\ serial = TRUE /\ paired = TRUE
  /\ late = [c \in Clients |-> {}]

-----------------------------------------------------------------------------
(* History: how undisturbed the behaviour has been.                        *)

Quiet(f, t) ==
  /\ net[f][t] = <<>> /\ net[t][f] = <<>>
  /\ cm[f].peer # t /\ cm[t].peer # f
  /\ \A i \in DOMAIN posted[f] : posted[f][i].to # t
  /\ \A i \in DOMAIN posted[t] : posted[t][i].to # f

AllQuiet == /\ \A c \in Clients : cm[c].state = "Idle" /\ posted[c] = <<>>
            /\ \A f, t \in Clients : net[f][t] = <<>>

OnTheWay(m, f, t) == \E i \in DOMAIN net[f][t] : net[f][t][i] = m
Posted(f, t)      == \E i \in DOMAIN posted[f] : posted[f][i].to = t

(* Nothing of an answered call between c and q is left by which q would    *)
(* still negotiate with c.  A call that q places to c, or an answer of q   *)
(* that c no longer waits for, may well be under way.                      *)
Apart(c, q) ==
  /\ \A m \in MediaMessages : ~OnTheWay(m, q, c)
  /\ ~OnTheWay("call-accepted", c, q) /\ ~OnTheWay("offer", c, q)
  /\ ~Posted(q, c) /\ ~Posted(c, q)
  /\ coordPeer[q] = c => engine[q].pc \in {"none", "new"}

Connects(c, p) ==
  /\ late' = [late EXCEPT ![c] = {q \in Clients \ {c, p} : ~Apart(c, q)}]
  /\ UNCHANGED <<serial, paired>>

Undisturbed == UNCHANGED historyVars
CalledOff   == paired' = FALSE /\ UNCHANGED <<serial, late>>
Disturbed   == serial' = FALSE /\ paired' = FALSE /\ UNCHANGED late
Fault(c)    == /\ c \in Unstable /\ faults < MaxFaults
               /\ faults' = faults + 1
               /\ Disturbed

-----------------------------------------------------------------------------
(* Helpers: one per function the handlers call.                            *)

(* SignalClient::SendMessage drops a message when the client is not        *)
(* connected; the server drops one whose addressee is not.                 *)
Sent(n, f, t, m) ==
  IF online[f] /\ online[t] THEN [n EXCEPT ![f][t] = Append(@, m)] ELSE n

(* HandleMessage dispatches the oldest message from f.                     *)
Receives(c, f, m) == online[c] /\ net[f][c] # <<>> /\ Head(net[f][c]) = m
Consumed(f, c)    == [net EXCEPT ![f][c] = Tail(@)]

HasPeerConnection(c) == engine[c].pc # "none"

(* Faulty: closes although a callback is under way.                        *)
ClosePeerConnection_NoWait(c) ==
  engine' = [engine EXCEPT ![c] = ClosedEngine] /\ UNCHANGED establishing

(* ClosePeerConnection calls into the WebRTC thread and waits for it, so   *)
(* it returns only when no callback of that thread is under way.           *)
ClosePeerConnection(c) ==
  /\ ~establishing[c]
  /\ engine' = [engine EXCEPT ![c] = ClosedEngine]
  /\ UNCHANGED establishing

CleanupCall(c) == cm' = [cm EXCEPT ![c] = IdleManager]

(* Faulty: takes the peer once and keeps it for the later calls.           *)
OnNeedCreatePeerConnection_FirstPeer(c, p, is_caller) ==
  /\ coordPeer' = [coordPeer EXCEPT ![c] = IF @ = NoPeer THEN p ELSE @]
  /\ engine' = [engine EXCEPT ![c] = NewEngine(InitialPcState(is_caller), TRUE)]
  /\ Connects(c, p) /\ UNCHANGED faults

(* Faulty: nobody creates the offer.                                       *)
OnNeedCreatePeerConnection_NoOffer(c, p, is_caller) ==
  /\ coordPeer' = [coordPeer EXCEPT ![c] = p]
  /\ engine' = [engine EXCEPT ![c] = NewEngine("new", TRUE)]
  /\ Connects(c, p) /\ UNCHANGED faults

(* Creates the connection and adds the tracks (the camera may be missing); *)
(* the caller goes on to create an offer.  A failure is only shown to the  *)
(* user: the call stays in Connecting.                                     *)
OnNeedCreatePeerConnection(c, p, is_caller) ==
  /\ coordPeer' = [coordPeer EXCEPT ![c] = p]
  /\ \/ /\ \E camera \in CameraOutcomes :
             engine' = [engine EXCEPT ![c] =
               IF HasPeerConnection(c) THEN @ ELSE NewEngine(InitialPcState(is_caller), camera)]
        /\ Connects(c, p)
        /\ UNCHANGED faults
     \/ ~HasPeerConnection(c) /\ Fault(c) /\ UNCHANGED engine

-----------------------------------------------------------------------------
(* The user's operations.                                                  *)

InitiateCall(c, t) ==
  /\ online[c] /\ cm[c].state = "Idle"
  /\ calls < MaxCalls /\ calls' = calls + 1
  /\ cm' = [cm EXCEPT ![c] = Manager("Calling", t, TRUE, TRUE)]
  /\ net' = Sent(net, c, t, "call-request")
  /\ serial' = (serial /\ AllQuiet)
  /\ paired' = (paired /\ Quiet(c, t))
  /\ UNCHANGED <<coordPeer, engineVars, posted, online, faults, late>>

(* No part of the user interface cancels: it hangs up with EndCall.        *)
CancelCall(c) ==
  /\ cm[c].state = "Calling"
  /\ net' = Sent(net, c, cm[c].peer, "call-cancel")
  /\ CleanupCall(c)
  /\ CalledOff
  /\ UNCHANGED <<coordPeer, engineVars, posted, online, calls, faults>>

AcceptCall(c) ==
  /\ cm[c].state = "Receiving"
  /\ net' = Sent(net, c, cm[c].peer, "call-accepted")
  /\ cm' = [cm EXCEPT ![c] = Manager("Connecting", @.peer, @.isCaller, @.timer)]
  /\ OnNeedCreatePeerConnection(c, cm[c].peer, FALSE)
  /\ UNCHANGED <<establishing, posted, online, calls>>

(* Clicked, or fired by the 30 s timer of the incoming-call dialog.        *)
RejectCall(c) ==
  /\ cm[c].state = "Receiving"
  /\ net' = Sent(net, c, cm[c].peer, "call-rejected")
  /\ CleanupCall(c)
  /\ Undisturbed
  /\ UNCHANGED <<coordPeer, engineVars, posted, online, calls, faults>>

(* Faulty: a call that still rings is given up without a word.             *)
EndCall_SilentWhenRinging(c) ==
  /\ cm[c].state # "Idle"
  /\ net' = IF cm[c].state = "Calling" THEN net ELSE Sent(net, c, cm[c].peer, "call-end")
  /\ ClosePeerConnection(c)
  /\ CleanupCall(c)
  /\ Undisturbed
  /\ UNCHANGED <<coordPeer, posted, online, calls, faults>>

EndCall(c) ==
  /\ cm[c].state # "Idle"
  /\ net' = Sent(net, c, cm[c].peer, "call-end")
  /\ ClosePeerConnection(c)
  /\ CleanupCall(c)
  /\ Undisturbed
  /\ UNCHANGED <<coordPeer, posted, online, calls, faults>>

OnCallRequestTimeout(c) ==
  /\ cm[c].timer
  /\ IF cm[c].state = "Calling"
     THEN ClosePeerConnection(c) /\ CleanupCall(c)
     ELSE cm' = [cm EXCEPT ![c] = Manager(@.state, @.peer, @.isCaller, FALSE)] /\ UNCHANGED engineVars
  /\ Disturbed
  /\ UNCHANGED <<coordPeer, signalVars, calls, faults>>

-----------------------------------------------------------------------------
(* Messages from the other clients.                                        *)

(* Faulty: busy only once the call was answered.                           *)
HandleCallRequest_RingsOver(c, f) ==
  /\ Receives(c, f, "call-request")
  /\ IF cm[c].state \in {"Connecting", "Connected"}
     THEN net' = Sent(Consumed(f, c), c, f, "call-rejected") /\ UNCHANGED cm
     ELSE /\ net' = Consumed(f, c)
          /\ cm' = [cm EXCEPT ![c] = Manager("Receiving", f, FALSE, @.timer)]
  /\ Undisturbed
  /\ UNCHANGED <<coordPeer, engineVars, posted, online, calls, faults>>

HandleCallRequest(c, f) ==
  /\ Receives(c, f, "call-request")
  /\ IF cm[c].state # "Idle"
     THEN net' = Sent(Consumed(f, c), c, f, "call-rejected") /\ UNCHANGED cm
     ELSE /\ net' = Consumed(f, c)
          /\ cm' = [cm EXCEPT ![c] = Manager("Receiving", f, FALSE, @.timer)]
  /\ Undisturbed
  /\ UNCHANGED <<coordPeer, engineVars, posted, online, calls, faults>>

(* A response counts only for the call being placed, to the peer it comes  *)
(* from; messages carry no identity of the call they belong to.            *)
ExpectsResponse(c, f) == cm[c].state = "Calling" /\ cm[c].peer = f

HandleCallAccepted(c, f) ==
  /\ Receives(c, f, "call-accepted")
  /\ net' = Consumed(f, c)
  /\ IF ExpectsResponse(c, f)
     THEN /\ cm' = [cm EXCEPT ![c] = Manager("Connecting", f, @.isCaller, FALSE)]
          /\ OnNeedCreatePeerConnection(c, f, TRUE)
     ELSE Undisturbed /\ UNCHANGED <<cm, coordPeer, engine, faults>>
  /\ UNCHANGED <<establishing, posted, online, calls>>

HandleCallRejected(c, f) ==
  /\ Receives(c, f, "call-rejected")
  /\ net' = Consumed(f, c)
  /\ IF ExpectsResponse(c, f)
     THEN ClosePeerConnection(c) /\ CleanupCall(c)
     ELSE UNCHANGED <<cm, engineVars>>
  /\ Undisturbed
  /\ UNCHANGED <<coordPeer, posted, online, calls, faults>>

(* Faulty: looks for the call at the wrong end.                            *)
HandleCallCancel_WrongEnd(c, f) ==
  /\ Receives(c, f, "call-cancel")
  /\ net' = Consumed(f, c)
  /\ IF ExpectsResponse(c, f)
     THEN ClosePeerConnection(c) /\ CleanupCall(c)
     ELSE UNCHANGED <<cm, engineVars>>
  /\ Undisturbed
  /\ UNCHANGED <<coordPeer, posted, online, calls, faults>>

HandleCallCancel(c, f) ==
  /\ Receives(c, f, "call-cancel")
  /\ net' = Consumed(f, c)
  /\ IF cm[c].state = "Receiving" /\ cm[c].peer = f
     THEN ClosePeerConnection(c) /\ CleanupCall(c)
     ELSE UNCHANGED <<cm, engineVars>>
  /\ Undisturbed
  /\ UNCHANGED <<coordPeer, posted, online, calls, faults>>

(* Faulty: a call can be ended only once it is connected.                  *)
HandleCallEnd_OnlyConnected(c, f) ==
  /\ Receives(c, f, "call-end")
  /\ net' = Consumed(f, c)
  /\ IF cm[c].peer = f /\ cm[c].state = "Connected"
     THEN ClosePeerConnection(c) /\ CleanupCall(c)
     ELSE UNCHANGED <<cm, engineVars>>
  /\ Undisturbed
  /\ UNCHANGED <<coordPeer, posted, online, calls, faults>>

HandleCallEnd(c, f) ==
  /\ Receives(c, f, "call-end")
  /\ net' = Consumed(f, c)
  /\ IF cm[c].peer = f
     THEN ClosePeerConnection(c) /\ CleanupCall(c)
     ELSE UNCHANGED <<cm, engineVars>>
  /\ Undisturbed
  /\ UNCHANGED <<coordPeer, posted, online, calls, faults>>

(* Faulty: only tells the user.                                            *)
OnUserOffline_OnlyTells(c, f) ==
  /\ Receives(c, f, "user-offline")
  /\ net' = Consumed(f, c)
  /\ Undisturbed
  /\ UNCHANGED <<cm, engineVars, coordPeer, posted, online, calls, faults>>

(* Ends the call if the coordinator last negotiated with f, whoever the    *)
(* call is with.                                                           *)
OnUserOffline(c, f) ==
  /\ Receives(c, f, "user-offline")
  /\ IF coordPeer[c] = f /\ cm[c].state # "Idle"
     THEN /\ net' = Sent(Consumed(f, c), c, cm[c].peer, "call-end")
          /\ ClosePeerConnection(c)
          /\ CleanupCall(c)
     ELSE net' = Consumed(f, c) /\ UNCHANGED <<cm, engineVars>>
  /\ Undisturbed
  /\ UNCHANGED <<coordPeer, posted, online, calls, faults>>

(* May WebRTC apply a remote offer in this state?  With an offer of its    *)
(* own being created it depends on which operation comes first.            *)
OfferOutcomes(pc) == {applied \in BOOLEAN :
                        /\ pc \in {"new", "answering", "stable"} => applied
                        /\ pc = "offered" => ~applied}

(* The remote description is f's; candidates that came early are added.    *)
Described(e, pc, f) == Engine(pc, e.camera, f, 0, e.gathered)

(* The offer is applied whoever sent it, and answered to the sender.       *)
ProcessOffer(c, f) ==
  /\ Receives(c, f, "offer")
  /\ net' = Consumed(f, c)
  /\ IF HasPeerConnection(c)
     THEN /\ coordPeer' = [coordPeer EXCEPT ![c] = f]
          /\ \E applied \in OfferOutcomes(engine[c].pc) :
               engine' = [engine EXCEPT ![c] =
                 IF applied THEN Described(@, "answering", f) ELSE @]
     ELSE UNCHANGED <<coordPeer, engine>>
  /\ Undisturbed
  /\ UNCHANGED <<cm, establishing, posted, online, calls, faults>>

ProcessAnswer(c, f) ==
  /\ Receives(c, f, "answer")
  /\ net' = Consumed(f, c)
  /\ engine' = [engine EXCEPT ![c] =
       IF @.pc = "offered" THEN Described(@, "stable", f) ELSE @]
  /\ Undisturbed
  /\ UNCHANGED <<cm, coordPeer, establishing, posted, online, calls, faults>>

(* Dropped without a peer connection, queued without a remote description. *)
ProcessIceCandidate(c, f) ==
  /\ Receives(c, f, "ice-candidate")
  /\ net' = Consumed(f, c)
  /\ engine' = [engine EXCEPT ![c] =
       IF HasPeerConnection(c) /\ @.remote = NoPeer
       THEN Engine(@.pc, @.camera, @.remote, @.pending + 1, @.gathered) ELSE @]
  /\ Undisturbed
  /\ UNCHANGED <<cm, coordPeer, establishing, posted, online, calls, faults>>

-----------------------------------------------------------------------------
(* Callbacks of the WebRTC thread.                                         *)

(* Both callbacks read current_peer_id_ now and leave the sending to the   *)
(* main thread.                                                            *)
Post(c, m) == posted' = [posted EXCEPT ![c] = Append(@, [msg |-> m, to |-> coordPeer[c]])]

PcBecomes(c, pc) == engine' = [engine EXCEPT ![c] =
                      Engine(pc, @.camera, @.remote, @.pending, @.gathered)]

OnSessionDescriptionSuccess(c) ==
  /\ \/ /\ engine[c].pc = "offering"
        /\ PcBecomes(c, "offered")
        /\ Post(c, "offer")
     \/ /\ engine[c].pc = "answering"
        /\ PcBecomes(c, "stable")
        /\ Post(c, "answer")
  /\ Undisturbed
  /\ UNCHANGED <<managerVars, establishing, online, net, calls, faults>>

OnSessionDescriptionFailure(c) ==
  /\ engine[c].pc \in {"offering", "answering"}
  /\ PcBecomes(c, "broken")
  /\ Fault(c)
  /\ UNCHANGED <<managerVars, establishing, signalVars, calls>>

(* Gathering runs once a local description is set.                         *)
OnIceCandidateGenerated(c) ==
  /\ engine[c].pc \in {"offered", "stable"}
  /\ engine[c].gathered < MaxCandidates
  /\ engine' = [engine EXCEPT ![c] =
       Engine(@.pc, @.camera, @.remote, @.pending, @.gathered + 1)]
  /\ Post(c, "ice-candidate")
  /\ Undisturbed
  /\ UNCHANGED <<managerVars, establishing, online, net, calls, faults>>

(* ICE connects two connections that hold each other's descriptions.  The  *)
(* check of call_state_ and its assignment are two steps of the WebRTC     *)
(* thread, with handlers of the main thread between them.                  *)
NotifyPeerConnectionEstablished(c) ==
  /\ ~establishing[c]
  /\ engine[c].pc = "stable"
  /\ LET d == engine[c].remote IN engine[d].pc = "stable" /\ engine[d].remote = c
  /\ cm[c].state = "Connecting"
  /\ establishing' = [establishing EXCEPT ![c] = TRUE]
  /\ Undisturbed
  /\ UNCHANGED <<managerVars, engine, signalVars, calls, faults>>

SetConnected(c) ==
  /\ establishing[c]
  /\ cm' = [cm EXCEPT ![c] = Manager("Connected", @.peer, @.isCaller, @.timer)]
  /\ establishing' = [establishing EXCEPT ![c] = FALSE]
  /\ Undisturbed
  /\ UNCHANGED <<coordPeer, engine, signalVars, calls, faults>>

-----------------------------------------------------------------------------
(* The main thread's posted lambdas, and the connection.                   *)

SendPosted(c) ==
  /\ posted[c] # <<>>
  /\ net' = Sent(net, c, Head(posted[c]).to, Head(posted[c]).msg)
  /\ posted' = [posted EXCEPT ![c] = Tail(@)]
  /\ Undisturbed
  /\ UNCHANGED <<managerVars, engineVars, online, calls, faults>>

(* The server drops what was on its way to c, may never have received the  *)
(* last of what c sent, and tells the others that c is offline.            *)
LosesConnection(c) ==
  /\ online' = [online EXCEPT ![c] = FALSE]
  /\ \E s \in Clients \ {c} : \E kept \in 0..Len(net[c][s]) :
       net' = [f \in Clients |-> [t \in Clients |->
                 IF t = c \/ (f = c /\ ~online[t]) THEN <<>>
                 ELSE IF f # c THEN net[f][t]
                 ELSE Append(IF t = s THEN SubSeq(net[c][s], 1, kept) ELSE net[c][t],
                             "user-offline")]]

(* The coordinator only tells the user; the call goes on.                  *)
OnDisconnected(c) ==
  /\ online[c]
  /\ LosesConnection(c)
  /\ Fault(c)
  /\ UNCHANGED <<managerVars, engineVars, posted, calls>>

OnConnected(c) ==
  /\ ~online[c]
  /\ online' = [online EXCEPT ![c] = TRUE]
  /\ Undisturbed
  /\ UNCHANGED <<managerVars, engineVars, posted, net, calls, faults>>

(* The application is closed in the middle of whatever it is doing: the    *)
(* coordinator is shut down with all it owns and no call-end is sent.      *)
Shutdown(c) ==
  /\ IF online[c] THEN LosesConnection(c) ELSE UNCHANGED <<online, net>>
  /\ ClosePeerConnection(c)
  /\ CleanupCall(c)
  /\ coordPeer' = [coordPeer EXCEPT ![c] = NoPeer]
  /\ posted' = [posted EXCEPT ![c] = <<>>]
  /\ Fault(c)
  /\ UNCHANGED calls

-----------------------------------------------------------------------------
UserAction(c) ==
  \/ \E t \in Clients \ {c} : InitiateCall(c, t)
  \/ CancelCall(c) \/ AcceptCall(c) \/ RejectCall(c) \/ EndCall(c)

Receive(c, f) ==
  \/ HandleCallRequest(c, f)  \/ HandleCallAccepted(c, f)
  \/ HandleCallRejected(c, f) \/ HandleCallCancel(c, f)
  \/ HandleCallEnd(c, f)      \/ OnUserOffline(c, f)
  \/ ProcessOffer(c, f) \/ ProcessAnswer(c, f) \/ ProcessIceCandidate(c, f)

WebRTCCallback(c) ==
  \/ OnSessionDescriptionSuccess(c) \/ OnSessionDescriptionFailure(c)
  \/ OnIceCandidateGenerated(c)
  \/ NotifyPeerConnectionEstablished(c) \/ SetConnected(c)

Next == \E c \in Clients :
  \/ UserAction(c)
  \/ OnCallRequestTimeout(c)
  \/ \E f \in Clients \ {c} : Receive(c, f)
  \/ WebRTCCallback(c)
  \/ SendPosted(c)
  \/ OnDisconnected(c) \/ OnConnected(c) \/ Shutdown(c)

Spec == Init /\ [][Next]_vars

(* The event loops keep running: a received message, a posted lambda and a *)
(* callback are handled, and the two 30 s timers (the caller's and the one *)
(* of the incoming-call dialog) fire if nothing stops them.  Nobody has to *)
(* place, accept or end a call, and ICE need not connect.                  *)
Fairness == \A c \in Clients :
  /\ WF_vars(OnCallRequestTimeout(c))
  /\ WF_vars(RejectCall(c))
  /\ \A f \in Clients \ {c} : WF_vars(Receive(c, f))
  /\ WF_vars(OnSessionDescriptionSuccess(c))
  /\ WF_vars(SetConnected(c))
  /\ WF_vars(SendPosted(c))

FairSpec == Spec /\ Fairness

-----------------------------------------------------------------------------
(* Properties.                                                             *)

Managers == [state : CallStates, peer : Clients \cup {NoPeer},
             isCaller : BOOLEAN, timer : BOOLEAN]
Engines  == [pc : PcStates, camera : BOOLEAN, remote : Clients \cup {NoPeer},
             pending : Nat, gathered : Nat]

(* Every variable has its type; posted lambdas name a real addressee.      *)
TypeOK ==
  /\ cm \in [Clients -> Managers]
  /\ coordPeer \in [Clients -> Clients \cup {NoPeer}]
  /\ engine \in [Clients -> Engines]
  /\ establishing \in [Clients -> BOOLEAN]
  /\ posted \in [Clients -> Seq([msg : MediaMessages, to : Clients])]
  /\ online \in [Clients -> BOOLEAN]
  /\ net \in [Clients -> [Clients -> Seq(Messages)]]
  /\ calls \in Nat /\ faults \in Nat
  /\ serial \in BOOLEAN /\ paired \in BOOLEAN /\ late \in [Clients -> SUBSET Clients]

(* The engine is open exactly while a call has been answered: outside      *)
(* Connecting and Connected there is no connection, the camera is off and  *)
(* no candidate is left for the next call; and a callback that has checked *)
(* the state finds it unchanged when it assigns it (no call comes back to  *)
(* life after it was ended).                                               *)
MediaMatchesCall == \A c \in Clients :
  /\ cm[c].state \notin {"Connecting", "Connected"} => engine[c] = ClosedEngine
  /\ establishing[c] => cm[c].state = "Connecting" /\ HasPeerConnection(c)
  /\ cm[c].state = "Connected" => HasPeerConnection(c)

(* A client is Idle exactly if it has no peer, and the request timer runs  *)
(* exactly while a call it placed is unanswered: no timer of an old call   *)
(* is left to end a new one.                                               *)
TimerMatchesCall == \A c \in Clients :
  /\ (cm[c].state = "Idle") <=> (cm[c].peer = NoPeer)
  /\ cm[c].timer <=> (cm[c].state = "Calling")
  /\ cm[c].state = "Calling" => cm[c].isCaller

(* No candidate waits in the queue once the remote description that it     *)
(* waited for is there.                                                    *)
CandidatesFlushed == \A c \in Clients : engine[c].remote # NoPeer => engine[c].pending = 0

(* Every client behaves as CallLifecycle says.                             *)
Lifecycle == INSTANCE CallLifecycle WITH
  phase  <- [c \in Clients |-> cm[c].state],
  party  <- [c \in Clients |-> cm[c].peer],
  camera <- [c \in Clients |-> engine[c].camera]
ImplementsLifecycle == Lifecycle!Spec

(* Agreement.  As long as no timer, failure, loss or CancelCall intervened *)
(* and no two clients called each other while messages of an earlier       *)
(* attempt between them were under way, two clients agree that they are in *)
(* a call and who placed it, or the message that tells the other is under  *)
(* way.  Calls of third parties at any moment do not matter.               *)
Agreement == paired => \A a \in Clients : \A b \in Clients \ {a} :
  cm[a].peer = b =>
    \/ /\ cm[b].peer = a
       /\ cm[a].isCaller # cm[b].isCaller
       /\ cm[a].state = "Calling" /\ cm[b].state # "Receiving" => OnTheWay("call-accepted", b, a)
       /\ cm[a].state = "Receiving" => cm[b].state = "Calling"
    \/ OnTheWay("call-end", b, a)
    \/ cm[a].state = "Calling" /\ (OnTheWay("call-request", a, b) \/ OnTheWay("call-rejected", b, a))

(* No message of the negotiation is compared with the call, and an offer   *)
(* is applied whoever sent it.  Nevertheless the engine negotiates with    *)
(* the client the call is with, or else with one of whom something of an   *)
(* answered call was left when the connection was made: nobody whose calls *)
(* to this client were refused, given up or not yet answered can divert    *)
(* it, in whatever order messages, timers, losses and exits come.          *)
NegotiatesWithPeer == \A c \in Clients : HasPeerConnection(c) =>
  /\ coordPeer[c] \in {cm[c].peer} \cup late[c]
  /\ engine[c].remote \in {cm[c].peer, NoPeer} \cup late[c]

(* Called off.  While calls are placed in a quiet system only, a client    *)
(* that rings for a caller who gave up has the news on its way.            *)
RingIsCalledOff == serial => \A a \in Clients : \A b \in Clients \ {a} :
  cm[b].state = "Receiving" /\ cm[b].peer = a /\ cm[a].peer # b =>
    OnTheWay("call-cancel", a, b) \/ OnTheWay("call-end", a, b)

(* A stable client in a connected call whose peer is gone has the news     *)
(* under way, as long as its coordinator still names that peer.            *)
PeerLossIsNoticed == \A a \in Clients \ Unstable : \A b \in Clients :
  /\ cm[a].state = "Connected" /\ cm[a].peer = b
  /\ coordPeer[a] = b /\ ~online[b]
  => OnTheWay("user-offline", b, a)

(* No ringing for ever, at either end.                                     *)
RingingEnds == \A c \in Clients :
  cm[c].state \in {"Calling", "Receiving"} ~> cm[c].state \notin {"Calling", "Receiving"}

(* When one end has left an undisturbed call the other leaves it too.      *)
HangupReachesPeer == \A a \in Clients : \A b \in Clients \ {a} :
  (paired /\ cm[a].peer = b /\ cm[b].state = "Idle")
    ~> (~paired \/ cm[a].peer # b \/ cm[b].peer = a)

(* An answered call has both descriptions in place at both ends, or ends.  *)
NegotiationCompletes == \A c \in Clients : \A p \in Clients \ {c} :
  (serial /\ cm[c].state = "Connecting" /\ cm[c].isCaller /\ cm[c].peer = p)
    ~> \/ ~serial \/ cm[c].peer # p
       \/ engine[c].pc = "stable" /\ engine[p].pc = "stable"

(* The engine, the request timer and the queue of candidates follow the    *)
(* call: nothing of it is left when it is over, and nothing is missing     *)
(* while it goes on.                                                       *)
EngineFollowsCall ==
  /\ TypeOK
  /\ MediaMatchesCall
  /\ TimerMatchesCall
  /\ CandidatesFlushed

(* A call ends at both ends: nobody rings for ever, and who hangs up is    *)
(* heard.                                                                  *)
CallsEnd == RingingEnds /\ HangupReachesPeer
=============================================================================
