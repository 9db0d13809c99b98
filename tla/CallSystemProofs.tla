-------------------------- MODULE CallSystemProofs --------------------------
(***************************************************************************)
(* Proofs about CallSystem for any set of clients and any bounds: the type *)
(* invariant, the invariants that relate a call to its timer, its engine   *)
(* and its queued candidates, and that CallSystem implements CallLifecycle.*)
(*                                                                         *)
(* The conjunction of these invariants is inductive together with one more *)
(* fact, PeerKnown.  It is split by what an action touches: CallInv speaks *)
(* of the call (manager, coordinator, engine), SignalInv of what is queued *)
(* and on the way.                                                         *)
(*                                                                         *)
(* The second half is about the two ends of a call: while nothing was lost *)
(* and every call was placed between a pair with nothing under way, two    *)
(* clients agree about their call or the news is on its way (Agreement), a *)
(* client that rings for nobody is told (RingIsCalledOff).  The last part  *)
(* needs no such condition: the engine negotiates with the client the call *)
(* is with, or with one of whom something of an answered call was left     *)
(* (NegotiatesWithPeer), and a stable client hears of the loss of its peer *)
(* (PeerLossIsNoticed).                                                    *)
(***************************************************************************)
EXTENDS CallSystem, SequenceTheorems, TLAPS

Nets == [Clients -> [Clients -> Seq(Messages)]]

(* An engine with a connection sends to somebody.                          *)
PeerKnown == \A c \in Clients : HasPeerConnection(c) => coordPeer[c] \in Clients

CallInv ==
  /\ cm \in [Clients -> Managers]
  /\ coordPeer \in [Clients -> Clients \cup {NoPeer}]
  /\ engine \in [Clients -> Engines]
  /\ establishing \in [Clients -> BOOLEAN]
  /\ MediaMatchesCall
  /\ TimerMatchesCall
  /\ CandidatesFlushed
  /\ PeerKnown

SignalInv ==
  /\ posted \in [Clients -> Seq([msg : MediaMessages, to : Clients])]
  /\ online \in [Clients -> BOOLEAN]
  /\ net \in Nets
  /\ calls \in Nat /\ faults \in Nat
  /\ serial \in BOOLEAN /\ paired \in BOOLEAN

IInv == CallInv /\ SignalInv

-----------------------------------------------------------------------------
(* Helpers of the specification.                                           *)

(* Whatever is sent, the network holds messages only.                      *)
LEMMA SentType ==
  ASSUME NEW n \in Nets, NEW f \in Clients, NEW t \in Clients, NEW m \in Messages
  PROVE  Sent(n, f, t, m) \in Nets
<1>1. n[f][t] \in Seq(Messages)
  BY DEF Nets
<1>2. Append(n[f][t], m) \in Seq(Messages)
  BY <1>1, AppendProperties
<1>3. QED
  BY <1>2 DEF Sent, Nets

(* Taking the oldest message leaves messages only.                         *)
LEMMA ConsumedType ==
  ASSUME NEW f \in Clients, NEW c \in Clients, net \in Nets, net[f][c] # <<>>
  PROVE  Consumed(f, c) \in Nets
<1>1. net[f][c] \in Seq(Messages)
  BY DEF Nets
<1>2. Tail(net[f][c]) \in Seq(Messages)
  BY <1>1, HeadTailProperties
<1>3. QED
  BY <1>2 DEF Consumed, Nets

(* A loss of connection leaves messages only.                              *)
LEMMA LosesConnectionType ==
  ASSUME NEW c \in Clients, SignalInv, LosesConnection(c)
  PROVE  net' \in Nets /\ online' \in [Clients -> BOOLEAN]
<1>1. PICK s \in Clients \ {c} : \E kept \in 0..Len(net[c][s]) :
       net' = [f \in Clients |-> [t \in Clients |->
                 IF t = c \/ (f = c /\ ~online[t]) THEN <<>>
                 ELSE IF f # c THEN net[f][t]
                 ELSE Append(IF t = s THEN SubSeq(net[c][s], 1, kept) ELSE net[c][t],
                             "user-offline")]]
  BY DEF LosesConnection
<1>2. PICK kept \in 0..Len(net[c][s]) :
       net' = [f \in Clients |-> [t \in Clients |->
                 IF t = c \/ (f = c /\ ~online[t]) THEN <<>>
                 ELSE IF f # c THEN net[f][t]
                 ELSE Append(IF t = s THEN SubSeq(net[c][s], 1, kept) ELSE net[c][t],
                             "user-offline")]]
  BY <1>1
<1>3. \A f, t \in Clients : net[f][t] \in Seq(Messages)
  BY DEF SignalInv, Nets
<1>4. SubSeq(net[c][s], 1, kept) \in Seq(Messages)
  BY <1>2, <1>3, SubSeqProperties
<1>5. \A q \in Seq(Messages) : Append(q, "user-offline") \in Seq(Messages)
  BY AppendProperties DEF Messages
<1>6. net' \in Nets
  BY <1>2, <1>3, <1>4, <1>5 DEF Nets
<1>7. QED
  BY <1>6 DEF LosesConnection, SignalInv

(* A fault is counted and remembered.                                      *)
LEMMA FaultType ==
  ASSUME NEW c \in Clients, SignalInv, Fault(c)
  PROVE  faults' \in Nat /\ serial' \in BOOLEAN /\ paired' \in BOOLEAN
<1>1. faults' \in Nat
  BY DEF SignalInv, Fault
<1>2. serial' \in BOOLEAN /\ paired' \in BOOLEAN
  BY DEF Fault, Disturbed
<1>3. QED
  BY <1>1, <1>2

(* Hanging up: the engine is closed and the manager cleaned up.            *)
LEMMA HangupPreserves ==
  ASSUME NEW c \in Clients, CallInv, ClosePeerConnection(c), CleanupCall(c),
         \/ UNCHANGED coordPeer
         \/ coordPeer' = [coordPeer EXCEPT ![c] = NoPeer]
  PROVE  CallInv'
BY ClientsAssumption
   DEF CallInv, ClosePeerConnection, CleanupCall, Managers, Engines, Manager, IdleManager,
       NewEngine, ClosedEngine, Engine, CallStates, PcStates, MediaMatchesCall, TimerMatchesCall,
       CandidatesFlushed, PeerKnown, HasPeerConnection

(* Joining: the answered call is in Connecting with its timer off, and the *)
(* coordinator creates the connection, or fails to.                        *)
LEMMA JoinPreserves ==
  ASSUME NEW c \in Clients, NEW p \in Clients, NEW is_caller \in BOOLEAN, CallInv, SignalInv,
         cm[c].state \in {"Calling", "Receiving"}, cm[c].peer = p,
         cm' = [cm EXCEPT ![c] = Manager("Connecting", p, cm[c].isCaller, FALSE)],
         OnNeedCreatePeerConnection(c, p, is_caller),
         UNCHANGED establishing
  PROVE  CallInv' /\ faults' \in Nat /\ serial' \in BOOLEAN /\ paired' \in BOOLEAN
<1>1. engine[c] = ClosedEngine /\ ~establishing[c]
  BY DEF CallInv, MediaMatchesCall
<1>2. ~HasPeerConnection(c)
  BY <1>1 DEF HasPeerConnection, ClosedEngine, NewEngine, Engine
<1>3. coordPeer' = [coordPeer EXCEPT ![c] = p]
  BY DEF OnNeedCreatePeerConnection
<1>4. ASSUME NEW camera \in BOOLEAN,
             engine' = [engine EXCEPT ![c] =
               NewEngine(InitialPcState(is_caller), camera)]
      PROVE  CallInv'
  BY <1>1, <1>3, <1>4, ClientsAssumption
     DEF CallInv, Managers, Engines, Manager, ClosedEngine, NewEngine, Engine, CallStates, PcStates,
         MediaMatchesCall, TimerMatchesCall, CandidatesFlushed, PeerKnown, HasPeerConnection,
         InitialPcState
<1>5. ASSUME UNCHANGED engine PROVE CallInv'
  BY <1>1, <1>2, <1>3, <1>5, ClientsAssumption
     DEF CallInv, Managers, Manager, CallStates,
         MediaMatchesCall, TimerMatchesCall, CandidatesFlushed, PeerKnown, HasPeerConnection
<1>6. CallInv'
  BY <1>2, <1>4, <1>5 DEF OnNeedCreatePeerConnection, CameraOutcomes
<1>7. faults' \in Nat /\ serial' \in BOOLEAN /\ paired' \in BOOLEAN
  BY FaultType DEF OnNeedCreatePeerConnection, SignalInv, Connects
<1>8. QED
  BY <1>6, <1>7

(* Negotiating: an open connection changes, and stays open.                *)
LEMMA EnginePreserves ==
  ASSUME NEW c \in Clients, CallInv, HasPeerConnection(c),
         NEW pc \in PcStates \ {"none"}, NEW remote \in Clients \cup {NoPeer},
         NEW pending \in Nat, NEW gathered \in Nat,
         remote # NoPeer => pending = 0,
         engine' = [engine EXCEPT ![c] = Engine(pc, @.camera, remote, pending, gathered)],
         UNCHANGED <<cm, coordPeer, establishing>>
  PROVE  CallInv'
<1>1. cm[c].state \in {"Connecting", "Connected"}
  BY DEF CallInv, MediaMatchesCall, HasPeerConnection, ClosedEngine, NewEngine, Engine
<1>2. QED
  BY <1>1
     DEF CallInv, Engine, Engines, MediaMatchesCall, TimerMatchesCall,
         CandidatesFlushed, PeerKnown, HasPeerConnection

(* What CallInv speaks of is left alone.                                   *)
LEMMA CallFrame ==
  ASSUME CallInv, UNCHANGED <<cm, coordPeer, engine, establishing>>
  PROVE  CallInv'
BY DEF CallInv, MediaMatchesCall, TimerMatchesCall, CandidatesFlushed, PeerKnown,
       HasPeerConnection

(* A call in progress has a peer to send to.                               *)
LEMMA PeerIsClient ==
  ASSUME CallInv, NEW c \in Clients, cm[c].state # "Idle"
  PROVE  cm[c].peer \in Clients
BY DEF CallInv, TimerMatchesCall, Managers

(* A message that was received leaves the network well-formed.             *)
LEMMA ReceivedType ==
  ASSUME SignalInv, NEW c \in Clients, NEW f \in Clients, NEW m, Receives(c, f, m)
  PROVE  Consumed(f, c) \in Nets
BY ConsumedType DEF SignalInv, Receives

-----------------------------------------------------------------------------
LEMMA InitEstablishes == Init => IInv
BY ClientsAssumption
   DEF Init, IInv, CallInv, SignalInv, Nets, Managers, Engines, Manager, IdleManager,
       NewEngine, ClosedEngine, Engine, CallStates, PcStates, MediaMatchesCall, TimerMatchesCall,
       CandidatesFlushed, PeerKnown, HasPeerConnection

LEMMA UserPreserves ==
  ASSUME IInv, NEW c \in Clients, UserAction(c)
  PROVE  IInv'
<1> USE DEF IInv
<1>1. ASSUME NEW t \in Clients \ {c}, InitiateCall(c, t) PROVE IInv'
  <2>1. CallInv'
    BY <1>1, ClientsAssumption
       DEF InitiateCall, CallInv, Managers, Manager, CallStates, engineVars,
           MediaMatchesCall, TimerMatchesCall, CandidatesFlushed, PeerKnown, HasPeerConnection
  <2>2. net' \in Nets
    BY <1>1, SentType DEF InitiateCall, SignalInv, Messages
  <2>3. serial' \in BOOLEAN /\ paired' \in BOOLEAN
    BY <1>1 DEF InitiateCall, SignalInv
  <2>4. calls' \in Nat /\ UNCHANGED <<posted, online, faults>>
    BY <1>1 DEF InitiateCall, SignalInv
  <2>5. QED
    BY <2>1, <2>2, <2>3, <2>4 DEF SignalInv
<1>2. ASSUME CancelCall(c) PROVE IInv'
  <2>1. engine[c] = ClosedEngine /\ ~establishing[c]
    BY <1>2 DEF CancelCall, CallInv, MediaMatchesCall
  <2>2. CallInv'
    BY <1>2, <2>1, ClientsAssumption
       DEF CancelCall, CleanupCall, IdleManager, CallInv, Managers, Manager, CallStates, engineVars,
           MediaMatchesCall, TimerMatchesCall, CandidatesFlushed, PeerKnown, HasPeerConnection
  <2>3. net' \in Nets
    BY <1>2, PeerIsClient, SentType DEF CancelCall, SignalInv, Messages
  <2>4. QED
    BY <1>2, <2>2, <2>3 DEF CancelCall, SignalInv, CalledOff
<1>3. ASSUME AcceptCall(c) PROVE IInv'
  <2>1. cm[c].peer \in Clients /\ ~cm[c].timer
    BY <1>3, PeerIsClient DEF AcceptCall, CallInv, TimerMatchesCall
  <2>2. cm' = [cm EXCEPT ![c] = Manager("Connecting", cm[c].peer, cm[c].isCaller, FALSE)]
    BY <1>3, <2>1 DEF AcceptCall, CallInv, Managers, Manager
  <2>3. CallInv' /\ faults' \in Nat /\ serial' \in BOOLEAN /\ paired' \in BOOLEAN
    BY <1>3, <2>1, <2>2, JoinPreserves DEF AcceptCall
  <2>4. net' \in Nets
    BY <1>3, <2>1, SentType DEF AcceptCall, SignalInv, Messages
  <2>5. QED
    BY <1>3, <2>3, <2>4 DEF AcceptCall, SignalInv
<1>4. ASSUME RejectCall(c) PROVE IInv'
  <2>1. engine[c] = ClosedEngine /\ ~establishing[c]
    BY <1>4 DEF RejectCall, CallInv, MediaMatchesCall
  <2>2. CallInv'
    BY <1>4, <2>1, ClientsAssumption
       DEF RejectCall, CleanupCall, IdleManager, CallInv, Managers, Manager, CallStates, engineVars,
           MediaMatchesCall, TimerMatchesCall, CandidatesFlushed, PeerKnown, HasPeerConnection
  <2>3. net' \in Nets
    BY <1>4, PeerIsClient, SentType DEF RejectCall, SignalInv, Messages
  <2>4. QED
    BY <1>4, <2>2, <2>3 DEF RejectCall, SignalInv, Undisturbed, historyVars
<1>5. ASSUME EndCall(c) PROVE IInv'
  <2>1. CallInv'
    BY <1>5, HangupPreserves DEF EndCall
  <2>2. net' \in Nets
    BY <1>5, PeerIsClient, SentType DEF EndCall, SignalInv, Messages
  <2>3. QED
    BY <1>5, <2>1, <2>2 DEF EndCall, SignalInv, Undisturbed, historyVars
<1>6. QED
  BY <1>1, <1>2, <1>3, <1>4, <1>5 DEF UserAction

LEMMA TimeoutPreserves ==
  ASSUME IInv, NEW c \in Clients, OnCallRequestTimeout(c)
  PROVE  IInv'
<1>1. cm[c].state = "Calling"
  BY DEF OnCallRequestTimeout, IInv, CallInv, TimerMatchesCall
<1>2. CallInv'
  BY <1>1, HangupPreserves DEF OnCallRequestTimeout, IInv
<1>3. QED
  BY <1>2 DEF OnCallRequestTimeout, IInv, SignalInv, Disturbed, signalVars

(* A received message that makes the client hang up, or nothing.           *)
LEMMA HangupMessagePreserves ==
  ASSUME IInv, NEW c \in Clients, NEW f \in Clients, net' \in Nets,
         \/ ClosePeerConnection(c) /\ CleanupCall(c)
         \/ UNCHANGED <<cm, engineVars>>,
         Undisturbed, UNCHANGED <<coordPeer, posted, online, calls, faults>>
  PROVE  IInv'
<1>1. CallInv'
  BY HangupPreserves, CallFrame DEF IInv, engineVars
<1>2. QED
  BY <1>1 DEF IInv, SignalInv, Undisturbed, historyVars

LEMMA ReceivePreserves ==
  ASSUME IInv, NEW c \in Clients, NEW f \in Clients, Receive(c, f)
  PROVE  IInv'
<1> USE DEF IInv
<1>1. ASSUME HandleCallRequest(c, f) PROVE IInv'
  <2>1. Consumed(f, c) \in Nets
    BY <1>1, ReceivedType DEF HandleCallRequest
  <2>2. net' \in Nets
    BY <1>1, <2>1, SentType DEF HandleCallRequest, Messages
  <2>3. CASE cm[c].state # "Idle"
    <3>1. CallInv'
      BY <1>1, <2>3, CallFrame DEF HandleCallRequest, engineVars
    <3>2. QED
      BY <1>1, <2>2, <3>1 DEF HandleCallRequest, SignalInv, Undisturbed, historyVars
  <2>4. CASE cm[c].state = "Idle"
    <3>1. ~cm[c].timer
      BY <2>4 DEF CallInv, TimerMatchesCall
    <3>2. cm' = [cm EXCEPT ![c] = Manager("Receiving", f, FALSE, FALSE)]
      BY <1>1, <2>4, <3>1 DEF HandleCallRequest, CallInv, Managers, Manager
    <3>3. CallInv'
      BY <1>1, <2>4, <3>2, ClientsAssumption
         DEF HandleCallRequest, CallInv, Managers, Manager, CallStates, engineVars,
             MediaMatchesCall, TimerMatchesCall, CandidatesFlushed, PeerKnown, HasPeerConnection
    <3>4. QED
      BY <1>1, <2>2, <3>3 DEF HandleCallRequest, SignalInv, Undisturbed, historyVars
  <2>5. QED
    BY <2>3, <2>4
<1>2. ASSUME HandleCallAccepted(c, f) PROVE IInv'
  <2>1. net' \in Nets
    BY <1>2, ReceivedType DEF HandleCallAccepted
  <2>2. CASE ExpectsResponse(c, f)
    <3>1. CallInv' /\ faults' \in Nat /\ serial' \in BOOLEAN /\ paired' \in BOOLEAN
      BY <1>2, <2>2, JoinPreserves DEF HandleCallAccepted, ExpectsResponse
    <3>2. QED
      BY <1>2, <2>1, <3>1 DEF HandleCallAccepted, SignalInv
  <2>3. CASE ~ExpectsResponse(c, f)
    <3>1. CallInv'
      BY <1>2, <2>3, CallFrame DEF HandleCallAccepted
    <3>2. QED
      BY <1>2, <2>1, <2>3, <3>1 DEF HandleCallAccepted, SignalInv, Undisturbed, historyVars
  <2>4. QED
    BY <2>2, <2>3
<1>3. ASSUME HandleCallRejected(c, f) PROVE IInv'
  BY <1>3, ReceivedType, HangupMessagePreserves DEF HandleCallRejected
<1>4. ASSUME HandleCallCancel(c, f) PROVE IInv'
  BY <1>4, ReceivedType, HangupMessagePreserves DEF HandleCallCancel
<1>5. ASSUME HandleCallEnd(c, f) PROVE IInv'
  BY <1>5, ReceivedType, HangupMessagePreserves DEF HandleCallEnd
<1>6. ASSUME OnUserOffline(c, f) PROVE IInv'
  <2>1. Consumed(f, c) \in Nets
    BY <1>6, ReceivedType DEF OnUserOffline
  <2>2. net' \in Nets
    BY <1>6, <2>1, PeerIsClient, SentType DEF OnUserOffline, Messages
  <2>3. QED
    BY <1>6, <2>2, HangupMessagePreserves DEF OnUserOffline
<1>7. ASSUME ProcessOffer(c, f) PROVE IInv'
  <2>1. net' \in Nets
    BY <1>7, ReceivedType DEF ProcessOffer
  <2>2. CASE HasPeerConnection(c)
    <3>1. PICK applied \in BOOLEAN :
            engine' = [engine EXCEPT ![c] = IF applied THEN Described(@, "answering", f) ELSE @]
      BY <1>7, <2>2 DEF ProcessOffer, OfferOutcomes
    <3>2. coordPeer' = [coordPeer EXCEPT ![c] = f] /\ UNCHANGED <<cm, establishing>>
      BY <1>7, <2>2 DEF ProcessOffer
    <3>3. cm[c].state \in {"Connecting", "Connected"}
      BY <2>2 DEF CallInv, MediaMatchesCall, HasPeerConnection, ClosedEngine, NewEngine, Engine
    <3>4. CallInv'
      BY <2>2, <3>1, <3>2, <3>3, ClientsAssumption
         DEF CallInv, Described, Engine, Engines, PcStates, MediaMatchesCall, TimerMatchesCall,
             CandidatesFlushed, PeerKnown, HasPeerConnection
    <3>5. QED
      BY <1>7, <2>1, <3>4 DEF ProcessOffer, SignalInv, Undisturbed, historyVars
  <2>3. CASE ~HasPeerConnection(c)
    <3>1. CallInv'
      BY <1>7, <2>3, CallFrame DEF ProcessOffer
    <3>2. QED
      BY <1>7, <2>1, <3>1 DEF ProcessOffer, SignalInv, Undisturbed, historyVars
  <2>4. QED
    BY <2>2, <2>3
<1>8. ASSUME ProcessAnswer(c, f) PROVE IInv'
  <2>1. net' \in Nets
    BY <1>8, ReceivedType DEF ProcessAnswer
  <2>2. CallInv'
    <3>1. CASE engine[c].pc = "offered"
      <4>1. engine' = [engine EXCEPT ![c] = Engine("stable", @.camera, f, 0, @.gathered)]
        BY <1>8, <3>1 DEF ProcessAnswer, Described
      <4>2. engine[c].gathered \in Nat /\ "stable" \in PcStates \ {"none"}
        BY DEF CallInv, Engines, PcStates
      <4>3. HasPeerConnection(c) /\ UNCHANGED <<cm, coordPeer, establishing>>
        BY <1>8, <3>1 DEF ProcessAnswer, HasPeerConnection
      <4>4. QED
        BY <4>1, <4>2, <4>3, EnginePreserves
    <3>2. CASE engine[c].pc # "offered"
      BY <1>8, <3>2, CallFrame DEF ProcessAnswer, CallInv
    <3>3. QED
      BY <3>1, <3>2
  <2>3. QED
    BY <1>8, <2>1, <2>2 DEF ProcessAnswer, SignalInv, Undisturbed, historyVars
<1>9. ASSUME ProcessIceCandidate(c, f) PROVE IInv'
  <2>1. net' \in Nets
    BY <1>9, ReceivedType DEF ProcessIceCandidate
  <2>2. CallInv'
    <3>1. CASE HasPeerConnection(c) /\ engine[c].remote = NoPeer
      <4>1. engine' = [engine EXCEPT ![c] =
               Engine(@.pc, @.camera, @.remote, @.pending + 1, @.gathered)]
        BY <1>9, <3>1 DEF ProcessIceCandidate
      <4>2. /\ engine[c].pc \in PcStates \ {"none"}
            /\ engine[c].pending + 1 \in Nat /\ engine[c].gathered \in Nat
        BY <3>1 DEF CallInv, Engines, HasPeerConnection
      <4>3. UNCHANGED <<cm, coordPeer, establishing>>
        BY <1>9 DEF ProcessIceCandidate
      <4>4. QED
        BY <3>1, <4>1, <4>2, <4>3, EnginePreserves
    <3>2. CASE ~(HasPeerConnection(c) /\ engine[c].remote = NoPeer)
      BY <1>9, <3>2, CallFrame DEF ProcessIceCandidate, CallInv
    <3>3. QED
      BY <3>1, <3>2
  <2>3. QED
    BY <1>9, <2>1, <2>2 DEF ProcessIceCandidate, SignalInv, Undisturbed, historyVars
<1>10. QED
  BY <1>1, <1>2, <1>3, <1>4, <1>5, <1>6, <1>7, <1>8, <1>9 DEF Receive

LEMMA CallbackPreserves ==
  ASSUME IInv, NEW c \in Clients, WebRTCCallback(c)
  PROVE  IInv'
<1> USE DEF IInv
<1>1. ASSUME NEW m \in MediaMessages, HasPeerConnection(c), Post(c, m)
      PROVE  posted' \in [Clients -> Seq([msg : MediaMessages, to : Clients])]
  <2>1. coordPeer[c] \in Clients
    BY <1>1 DEF CallInv, PeerKnown
  <2>2. [msg |-> m, to |-> coordPeer[c]] \in [msg : MediaMessages, to : Clients]
    BY <2>1
  <2>3. posted[c] \in Seq([msg : MediaMessages, to : Clients])
    BY DEF SignalInv
  <2>4. Append(posted[c], [msg |-> m, to |-> coordPeer[c]]) \in Seq([msg : MediaMessages, to : Clients])
    BY <2>2, <2>3, AppendProperties
  <2>5. QED
    BY <1>1, <2>4 DEF Post, SignalInv
<1>2. ASSUME NEW pc \in PcStates \ {"none"}, HasPeerConnection(c), PcBecomes(c, pc),
             UNCHANGED <<cm, coordPeer, establishing>>
      PROVE  CallInv'
  BY <1>2, EnginePreserves DEF PcBecomes, CallInv, Engines, CandidatesFlushed
<1>3. ASSUME OnSessionDescriptionSuccess(c) PROVE IInv'
  <2>1. HasPeerConnection(c)
    BY <1>3 DEF OnSessionDescriptionSuccess, HasPeerConnection
  <2>2. CallInv'
    BY <1>2, <1>3, <2>1 DEF OnSessionDescriptionSuccess, PcStates, managerVars
  <2>3. posted' \in [Clients -> Seq([msg : MediaMessages, to : Clients])]
    BY <1>1, <1>3, <2>1 DEF OnSessionDescriptionSuccess, MediaMessages
  <2>4. QED
    BY <1>3, <2>2, <2>3 DEF OnSessionDescriptionSuccess, SignalInv, Undisturbed, historyVars
<1>4. ASSUME OnSessionDescriptionFailure(c) PROVE IInv'
  <2>1. CallInv'
    BY <1>2, <1>4
       DEF OnSessionDescriptionFailure, HasPeerConnection, PcStates, managerVars
  <2>2. QED
    BY <1>4, <2>1, FaultType DEF OnSessionDescriptionFailure, SignalInv, signalVars
<1>5. ASSUME OnIceCandidateGenerated(c) PROVE IInv'
  <2>1. HasPeerConnection(c)
    BY <1>5 DEF OnIceCandidateGenerated, HasPeerConnection
  <2>2. CallInv'
    <3>1. /\ engine[c].pc \in PcStates \ {"none"}
          /\ engine[c].remote \in Clients \cup {NoPeer}
          /\ engine[c].pending \in Nat /\ engine[c].gathered + 1 \in Nat
          /\ engine[c].remote # NoPeer => engine[c].pending = 0
      BY <2>1 DEF CallInv, Engines, CandidatesFlushed, HasPeerConnection
    <3>2. engine' = [engine EXCEPT ![c] =
                       Engine(@.pc, @.camera, @.remote, @.pending, @.gathered + 1)]
      BY <1>5 DEF OnIceCandidateGenerated
    <3>3. UNCHANGED <<cm, coordPeer, establishing>>
      BY <1>5 DEF OnIceCandidateGenerated, managerVars
    <3>4. QED
      BY <2>1, <3>1, <3>2, <3>3, EnginePreserves
  <2>3. posted' \in [Clients -> Seq([msg : MediaMessages, to : Clients])]
    BY <1>1, <1>5, <2>1 DEF OnIceCandidateGenerated, MediaMessages
  <2>4. QED
    BY <1>5, <2>2, <2>3 DEF OnIceCandidateGenerated, SignalInv, Undisturbed, historyVars
<1>6. ASSUME NotifyPeerConnectionEstablished(c) PROVE IInv'
  <2>1. CallInv'
    BY <1>6
       DEF NotifyPeerConnectionEstablished, managerVars, CallInv, MediaMatchesCall,
           TimerMatchesCall, CandidatesFlushed, PeerKnown, HasPeerConnection
  <2>2. QED
    BY <1>6, <2>1
       DEF NotifyPeerConnectionEstablished, SignalInv, Undisturbed, historyVars, signalVars
<1>7. ASSUME SetConnected(c) PROVE IInv'
  <2>1. cm[c].state = "Connecting" /\ HasPeerConnection(c)
    BY <1>7 DEF SetConnected, CallInv, MediaMatchesCall
  <2>2. cm' = [cm EXCEPT ![c] = Manager("Connected", cm[c].peer, cm[c].isCaller, FALSE)]
    BY <1>7, <2>1 DEF SetConnected, CallInv, TimerMatchesCall, Managers
  <2>3. CallInv'
    BY <1>7, <2>1, <2>2
       DEF SetConnected, CallInv, Managers, Manager, CallStates, MediaMatchesCall,
           TimerMatchesCall, CandidatesFlushed, PeerKnown, HasPeerConnection
  <2>4. QED
    BY <1>7, <2>3 DEF SetConnected, SignalInv, Undisturbed, historyVars, signalVars
<1>8. QED
  BY <1>3, <1>4, <1>5, <1>6, <1>7 DEF WebRTCCallback

LEMMA SendPostedPreserves ==
  ASSUME IInv, NEW c \in Clients, SendPosted(c)
  PROVE  IInv'
<1>1. CallInv'
  BY CallFrame DEF IInv, SendPosted, managerVars, engineVars
<1>2. posted[c] \in Seq([msg : MediaMessages, to : Clients]) /\ posted[c] # <<>>
  BY DEF IInv, SignalInv, SendPosted
<1>3. /\ Head(posted[c]) \in [msg : MediaMessages, to : Clients]
      /\ Tail(posted[c]) \in Seq([msg : MediaMessages, to : Clients])
  BY <1>2, HeadTailProperties
<1>4. Head(posted[c]).to \in Clients /\ Head(posted[c]).msg \in Messages
  BY <1>3 DEF Messages
<1>5. net' \in Nets
  BY <1>4, SentType DEF IInv, SignalInv, SendPosted
<1>6. posted' \in [Clients -> Seq([msg : MediaMessages, to : Clients])]
  BY <1>3 DEF IInv, SignalInv, SendPosted
<1>7. QED
  BY <1>1, <1>5, <1>6 DEF IInv, SignalInv, SendPosted, Undisturbed, historyVars

LEMMA ConnectionPreserves ==
  ASSUME IInv, NEW c \in Clients, OnDisconnected(c) \/ OnConnected(c) \/ Shutdown(c)
  PROVE  IInv'
<1> USE DEF IInv
<1>1. ASSUME OnDisconnected(c) PROVE IInv'
  <2>1. CallInv'
    BY <1>1, CallFrame DEF OnDisconnected, managerVars, engineVars
  <2>2. QED
    BY <1>1, <2>1, LosesConnectionType, FaultType DEF OnDisconnected, SignalInv
<1>2. ASSUME OnConnected(c) PROVE IInv'
  <2>1. CallInv'
    BY <1>2, CallFrame DEF OnConnected, managerVars, engineVars
  <2>2. QED
    BY <1>2, <2>1 DEF OnConnected, SignalInv, Undisturbed, historyVars
<1>3. ASSUME Shutdown(c) PROVE IInv'
  <2>1. CallInv'
    BY <1>3, HangupPreserves DEF Shutdown
  <2>2. net' \in Nets /\ online' \in [Clients -> BOOLEAN]
    BY <1>3, LosesConnectionType DEF Shutdown, SignalInv
  <2>3. posted' \in [Clients -> Seq([msg : MediaMessages, to : Clients])]
    <3>1. <<>> \in Seq([msg : MediaMessages, to : Clients])
      BY EmptySeq
    <3>2. QED
      BY <1>3, <3>1 DEF Shutdown, SignalInv
  <2>4. QED
    BY <1>3, <2>1, <2>2, <2>3, FaultType DEF Shutdown, SignalInv
<1>4. QED
  BY <1>1, <1>2, <1>3

LEMMA StutterPreserves ==
  ASSUME IInv, UNCHANGED vars
  PROVE  IInv'
BY CallFrame DEF IInv, SignalInv, vars

(* The conjunction of the invariants is inductive.                         *)
THEOREM Inductive == Spec => []IInv
<1>1. IInv /\ [Next]_vars => IInv'
  <2>1. ASSUME IInv, Next PROVE IInv'
    BY <2>1, UserPreserves, TimeoutPreserves, ReceivePreserves, CallbackPreserves,
       SendPostedPreserves, ConnectionPreserves DEF Next
  <2>2. QED
    BY <2>1, StutterPreserves
<1>2. QED
  BY InitEstablishes, <1>1, PTL DEF Spec

(* Outside an answered call nothing of it is left in the engine, and no    *)
(* callback of the WebRTC thread revives a call that was ended.            *)
THEOREM MediaFollowsCall == Spec => []MediaMatchesCall
<1>1. IInv => MediaMatchesCall
  BY DEF IInv, CallInv
<1>2. QED
  BY <1>1, Inductive, PTL

(* The request timer runs exactly while a call that was placed is          *)
(* unanswered, so that it never ends another call.                         *)
THEOREM TimerFollowsCall == Spec => []TimerMatchesCall
<1>1. IInv => TimerMatchesCall
  BY DEF IInv, CallInv
<1>2. QED
  BY <1>1, Inductive, PTL

(* No candidate stays in the queue after the remote description came.      *)
THEOREM QueueIsFlushed == Spec => []CandidatesFlushed
<1>1. IInv => CandidatesFlushed
  BY DEF IInv, CallInv
<1>2. QED
  BY <1>1, Inductive, PTL

-----------------------------------------------------------------------------
(* Refinement of CallLifecycle.                                            *)

(* Hanging up ends the abstract call, if there is one.                     *)
LEMMA HangupFinishes ==
  ASSUME IInv, NEW c \in Clients, ClosePeerConnection(c), CleanupCall(c)
  PROVE  Lifecycle!Finish(c) \/ UNCHANGED Lifecycle!vars
<1>1. CASE cm[c].state = "Idle"
  <2>1. cm[c].peer = NoPeer /\ ~engine[c].camera
    BY <1>1 DEF IInv, CallInv, TimerMatchesCall, MediaMatchesCall, ClosedEngine, NewEngine, Engine
  <2>2. engine[c].camera = FALSE
    BY <2>1 DEF IInv, CallInv, Engines
  <2>3. UNCHANGED Lifecycle!vars
    BY <1>1, <2>1, <2>2
       DEF Lifecycle!vars, ClosePeerConnection, CleanupCall, IdleManager, Manager,
           ClosedEngine, NewEngine, Engine, IInv, CallInv, Managers, Engines
  <2>4. QED
    BY <2>3
<1>2. CASE cm[c].state # "Idle"
  BY <1>2
     DEF Lifecycle!Finish, ClosePeerConnection, CleanupCall, IdleManager, Manager,
         ClosedEngine, NewEngine, Engine, IInv, CallInv, Managers, Engines
<1>3. QED
  BY <1>1, <1>2

(* Switching off a camera that is off changes nothing.                     *)
LEMMA CameraStaysOff ==
  ASSUME NEW c \in Clients, engine \in [Clients -> Engines], engine[c] = ClosedEngine,
         UNCHANGED engine
  PROVE  [x \in Clients |-> engine[x].camera]'
           = [[x \in Clients |-> engine[x].camera] EXCEPT ![c] = FALSE]
<1>1. engine[c].camera = FALSE
  BY DEF ClosedEngine, NewEngine, Engine
<1>2. [x \in Clients |-> engine[x].camera]
        = [[x \in Clients |-> engine[x].camera] EXCEPT ![c] = FALSE]
  BY <1>1, Zenon
<1>3. QED
  BY <1>2

(* Answering joins the abstract call; the camera is what the engine got.   *)
LEMMA AnswerJoins ==
  ASSUME IInv, NEW c \in Clients, NEW p \in Clients, NEW is_caller \in BOOLEAN,
         cm[c].state \in {"Calling", "Receiving"}, cm[c].peer = p,
         cm' = [cm EXCEPT ![c] = Manager("Connecting", p, cm[c].isCaller, FALSE)],
         OnNeedCreatePeerConnection(c, p, is_caller)
  PROVE  Lifecycle!Join(c)
<1>1. engine[c] = ClosedEngine /\ engine \in [Clients -> Engines]
  BY DEF IInv, CallInv, MediaMatchesCall
<1>2. \E on \in BOOLEAN : [x \in Clients |-> engine[x].camera]'
                            = [[x \in Clients |-> engine[x].camera] EXCEPT ![c] = on]
  <2>1. ASSUME NEW camera \in BOOLEAN,
               engine' = [engine EXCEPT ![c] =
                 NewEngine(InitialPcState(is_caller), camera)]
        PROVE  [x \in Clients |-> engine[x].camera]'
                 = [[x \in Clients |-> engine[x].camera] EXCEPT ![c] = camera]
    BY <1>1, <2>1 DEF NewEngine, Engine, Engines
  <2>2. ASSUME UNCHANGED engine
        PROVE  [x \in Clients |-> engine[x].camera]'
                 = [[x \in Clients |-> engine[x].camera] EXCEPT ![c] = FALSE]
    BY <1>1, <2>2, CameraStaysOff
  <2>3. ~HasPeerConnection(c)
    BY <1>1 DEF HasPeerConnection, ClosedEngine, NewEngine, Engine
  <2>4. QED
    BY <2>1, <2>2, <2>3 DEF OnNeedCreatePeerConnection, CameraOutcomes
<1>3. QED
  BY <1>2 DEF Lifecycle!Join, Manager, IInv, CallInv, Managers

(* Negotiating is invisible: the manager and the camera stay as they are.  *)
LEMMA NegotiatingStutters ==
  ASSUME IInv, NEW c \in Clients, NEW pc, NEW remote, NEW pending, NEW gathered,
         UNCHANGED cm,
         \/ UNCHANGED engine
         \/ engine' = [engine EXCEPT ![c] = Engine(pc, @.camera, remote, pending, gathered)]
  PROVE  UNCHANGED Lifecycle!vars
BY DEF Lifecycle!vars, Engine, IInv, CallInv, Engines

LEMMA UserSimulates ==
  ASSUME IInv, NEW c \in Clients, UserAction(c)
  PROVE  Lifecycle!Next \/ UNCHANGED Lifecycle!vars
<1>1. ASSUME NEW t \in Clients \ {c}, InitiateCall(c, t) PROVE Lifecycle!Begin(c)
  BY <1>1 DEF InitiateCall, engineVars, Lifecycle!Begin, Manager, IInv, CallInv, Managers
<1>2. ASSUME CancelCall(c) \/ RejectCall(c) PROVE Lifecycle!Finish(c)
  <2>1. engine[c] = ClosedEngine /\ engine \in [Clients -> Engines] /\ cm \in [Clients -> Managers]
    BY <1>2 DEF CancelCall, RejectCall, IInv, CallInv, MediaMatchesCall
  <2>2. cm[c].state # "Idle" /\ CleanupCall(c) /\ UNCHANGED engine
    BY <1>2 DEF CancelCall, RejectCall, engineVars
  <2>3. /\ [x \in Clients |-> cm[x].state]'
              = [[x \in Clients |-> cm[x].state] EXCEPT ![c] = "Idle"]
        /\ [x \in Clients |-> cm[x].peer]'
              = [[x \in Clients |-> cm[x].peer] EXCEPT ![c] = NoPeer]
    BY <2>1, <2>2 DEF CleanupCall, IdleManager, Manager, Managers
  <2>4. QED
    BY <2>1, <2>2, <2>3, CameraStaysOff DEF Lifecycle!Finish
<1>3. ASSUME AcceptCall(c) PROVE Lifecycle!Join(c)
  <2>1. cm[c].peer \in Clients /\ ~cm[c].timer
    BY <1>3, PeerIsClient DEF AcceptCall, IInv, CallInv, TimerMatchesCall
  <2>2. cm' = [cm EXCEPT ![c] = Manager("Connecting", cm[c].peer, cm[c].isCaller, FALSE)]
    BY <1>3, <2>1 DEF AcceptCall, IInv, CallInv, Managers, Manager
  <2>3. QED
    BY <1>3, <2>1, <2>2, AnswerJoins DEF AcceptCall
<1>4. ASSUME EndCall(c) PROVE Lifecycle!Finish(c) \/ UNCHANGED Lifecycle!vars
  BY <1>4, HangupFinishes DEF EndCall
<1>5. QED
  BY <1>1, <1>2, <1>3, <1>4 DEF UserAction, Lifecycle!Next

LEMMA ReceiveSimulates ==
  ASSUME IInv, NEW c \in Clients, NEW f \in Clients \ {c}, Receive(c, f)
  PROVE  Lifecycle!Next \/ UNCHANGED Lifecycle!vars
<1>1. CASE UNCHANGED <<cm, engine>>
  BY <1>1, NegotiatingStutters
<1>2. CASE ClosePeerConnection(c) /\ CleanupCall(c)
  BY <1>2, HangupFinishes DEF Lifecycle!Next
<1>3. ASSUME HandleCallRequest(c, f) PROVE UNCHANGED <<cm, engine>> \/ Lifecycle!Begin(c)
  <2>1. CASE cm[c].state # "Idle"
    BY <1>3, <2>1 DEF HandleCallRequest, engineVars
  <2>2. CASE cm[c].state = "Idle"
    <3>1. /\ cm' = [cm EXCEPT ![c] = Manager("Receiving", f, FALSE, @.timer)]
          /\ UNCHANGED engine
      BY <1>3, <2>2 DEF HandleCallRequest, engineVars
    <3>2. /\ [x \in Clients |-> cm[x].state]'
                = [[x \in Clients |-> cm[x].state] EXCEPT ![c] = "Receiving"]
          /\ [x \in Clients |-> cm[x].peer]'
                = [[x \in Clients |-> cm[x].peer] EXCEPT ![c] = f]
      BY <3>1 DEF Manager, IInv, CallInv
    <3>3. Lifecycle!Begin(c)
      BY <2>2, <3>1, <3>2 DEF Lifecycle!Begin
    <3>4. QED
      BY <3>3
  <2>3. QED
    BY <2>1, <2>2
<1>4. ASSUME HandleCallAccepted(c, f) PROVE UNCHANGED <<cm, engine>> \/ Lifecycle!Join(c)
  BY <1>4, AnswerJoins DEF HandleCallAccepted, ExpectsResponse
<1>5. ASSUME HandleCallRejected(c, f) \/ HandleCallCancel(c, f)
             \/ HandleCallEnd(c, f) \/ OnUserOffline(c, f)
      PROVE  UNCHANGED <<cm, engine>> \/ (ClosePeerConnection(c) /\ CleanupCall(c))
  <2>1. CASE HandleCallRejected(c, f)
    BY <2>1 DEF HandleCallRejected, engineVars
  <2>2. CASE HandleCallCancel(c, f)
    BY <2>2 DEF HandleCallCancel, engineVars
  <2>3. CASE HandleCallEnd(c, f)
    BY <2>3 DEF HandleCallEnd, engineVars
  <2>4. CASE OnUserOffline(c, f)
    BY <2>4 DEF OnUserOffline, engineVars
  <2>5. QED
    BY <1>5, <2>1, <2>2, <2>3, <2>4
<1>6. ASSUME ProcessOffer(c, f) PROVE UNCHANGED Lifecycle!vars
  <2>1. CASE HasPeerConnection(c)
    <3>1. PICK applied \in BOOLEAN :
            engine' = [engine EXCEPT ![c] = IF applied THEN Described(@, "answering", f) ELSE @]
      BY <1>6, <2>1 DEF ProcessOffer, OfferOutcomes
    <3>2. \/ UNCHANGED engine
          \/ engine' = [engine EXCEPT ![c] = Engine("answering", @.camera, f, 0, @.gathered)]
      BY <3>1 DEF Described, IInv, CallInv
    <3>3. QED
      BY <1>6, <3>2, NegotiatingStutters DEF ProcessOffer
  <2>2. CASE ~HasPeerConnection(c)
    BY <1>6, <2>2, NegotiatingStutters DEF ProcessOffer
  <2>3. QED
    BY <2>1, <2>2
<1>7. ASSUME ProcessAnswer(c, f) PROVE UNCHANGED Lifecycle!vars
  <2>1. \/ UNCHANGED engine
        \/ engine' = [engine EXCEPT ![c] = Engine("stable", @.camera, f, 0, @.gathered)]
    BY <1>7 DEF ProcessAnswer, Described, IInv, CallInv
  <2>2. QED
    BY <1>7, <2>1, NegotiatingStutters DEF ProcessAnswer
<1>8. ASSUME ProcessIceCandidate(c, f) PROVE UNCHANGED Lifecycle!vars
  <2>1. \/ UNCHANGED engine
        \/ engine' = [engine EXCEPT ![c] =
             Engine(@.pc, @.camera, @.remote, @.pending + 1, @.gathered)]
    BY <1>8 DEF ProcessIceCandidate, IInv, CallInv
  <2>2. QED
    BY <1>8, <2>1, NegotiatingStutters DEF ProcessIceCandidate
<1>9. QED
  BY <1>1, <1>2, <1>3, <1>4, <1>5, <1>6, <1>7, <1>8 DEF Receive, Lifecycle!Next

LEMMA CallbackSimulates ==
  ASSUME IInv, NEW c \in Clients, WebRTCCallback(c)
  PROVE  Lifecycle!Next \/ UNCHANGED Lifecycle!vars
<1>1. ASSUME NEW pc, PcBecomes(c, pc), UNCHANGED managerVars
      PROVE  UNCHANGED Lifecycle!vars
  BY <1>1, NegotiatingStutters DEF PcBecomes, managerVars
<1>2. ASSUME OnIceCandidateGenerated(c) PROVE UNCHANGED Lifecycle!vars
  BY <1>2, NegotiatingStutters DEF OnIceCandidateGenerated, managerVars
<1>3. ASSUME NotifyPeerConnectionEstablished(c) PROVE UNCHANGED Lifecycle!vars
  BY <1>3, NegotiatingStutters DEF NotifyPeerConnectionEstablished, managerVars
<1>4. ASSUME SetConnected(c) PROVE Lifecycle!Establish(c)
  <2>1. cm[c].state = "Connecting"
    BY <1>4 DEF SetConnected, IInv, CallInv, MediaMatchesCall
  <2>2. QED
    BY <1>4, <2>1 DEF SetConnected, Lifecycle!Establish, Manager, IInv, CallInv, Managers
<1>5. QED
  BY <1>1, <1>2, <1>3, <1>4
     DEF WebRTCCallback, OnSessionDescriptionSuccess, OnSessionDescriptionFailure,
         Lifecycle!Next

LEMMA OtherSimulates ==
  ASSUME IInv, NEW c \in Clients,
         \/ OnCallRequestTimeout(c) \/ SendPosted(c)
         \/ OnDisconnected(c) \/ OnConnected(c) \/ Shutdown(c)
  PROVE  Lifecycle!Next \/ UNCHANGED Lifecycle!vars
<1>1. ASSUME OnCallRequestTimeout(c) \/ Shutdown(c)
      PROVE  ClosePeerConnection(c) /\ CleanupCall(c)
  BY <1>1 DEF OnCallRequestTimeout, Shutdown, IInv, CallInv, TimerMatchesCall
<1>2. ASSUME SendPosted(c) \/ OnDisconnected(c) \/ OnConnected(c)
      PROVE  UNCHANGED Lifecycle!vars
  BY <1>2, NegotiatingStutters
     DEF SendPosted, OnDisconnected, OnConnected, managerVars, engineVars
<1>3. QED
  BY <1>1, <1>2, HangupFinishes DEF Lifecycle!Next

(* Every behaviour of the clients is one of CallLifecycle: a call has one  *)
(* party from its first ring to its end, its phases in their order, and    *)
(* the camera is on only after it was answered and off once it ended.      *)
THEOREM Refinement == Spec => ImplementsLifecycle
<1>1. Init => Lifecycle!Init
  BY DEF Init, Lifecycle!Init, IdleManager, Manager, ClosedEngine, NewEngine, Engine
<1>2. IInv /\ [Next]_vars => [Lifecycle!Next]_(Lifecycle!vars)
  <2>1. ASSUME IInv, Next PROVE Lifecycle!Next \/ UNCHANGED Lifecycle!vars
    BY <2>1, UserSimulates, ReceiveSimulates, CallbackSimulates, OtherSimulates DEF Next
  <2>2. ASSUME UNCHANGED vars PROVE UNCHANGED Lifecycle!vars
    BY <2>2 DEF vars, Lifecycle!vars
  <2>3. QED
    BY <2>1, <2>2
<1>3. QED
  BY <1>1, <1>2, Inductive, PTL DEF Spec, ImplementsLifecycle, Lifecycle!Spec

(***************************************************************************)
(* The two ends of a call.  The invariants speak of one ordered pair of    *)
(* clients at a time: what the two managers think of each other, and which *)
(* control messages are on the way between them.  The messages of a pair   *)
(* change in two ways only, one is sent or the oldest is consumed; the     *)
(* lemmas of the first part say what that does to the messages carried.    *)
(***************************************************************************)

(* Message m is on its way from f to t in network n.                       *)
Carries(n, m, f, t) == \E i \in DOMAIN n[f][t] : n[f][t][i] = m

(* A call request is the oldest message of its channel.                    *)
RequestFirst(n, f, t) == \A i \in DOMAIN n[f][t] : n[f][t][i] = "call-request" => i = 1

(* No message about the state of a call is on its way from f to t.         *)
Silent(n, f, t) ==
  /\ ~Carries(n, "call-request", f, t)  /\ ~Carries(n, "call-accepted", f, t)
  /\ ~Carries(n, "call-rejected", f, t) /\ ~Carries(n, "call-end", f, t)

GivenUp(n, f, t) == Carries(n, "call-cancel", f, t) \/ Carries(n, "call-end", f, t)

-----------------------------------------------------------------------------
(* Channels.                                                               *)

LEMMA ChannelType ==
  ASSUME NEW n \in Nets, NEW f \in Clients, NEW t \in Clients
  PROVE  n[f][t] \in Seq(Messages) /\ DOMAIN n[f][t] = 1..Len(n[f][t]) /\ Len(n[f][t]) \in Nat
<1>1. n[f][t] \in Seq(Messages)
  BY DEF Nets
<1>2. QED
  BY <1>1, LenProperties

(* Sending adds the message to its channel, last, and nothing else.        *)
LEMMA SentCarries ==
  ASSUME NEW n \in Nets, NEW f \in Clients, NEW t \in Clients, NEW m \in Messages,
         online[f], online[t],
         NEW x, NEW g \in Clients, NEW u \in Clients
  PROVE  Carries(Sent(n, f, t, m), x, g, u)
           <=> Carries(n, x, g, u) \/ (x = m /\ g = f /\ u = t)
<1>1. Sent(n, f, t, m)[g][u] = IF g = f /\ u = t THEN Append(n[f][t], m) ELSE n[g][u]
  BY DEF Sent, Nets
<1>2. CASE g = f /\ u = t
  <2> DEFINE q == n[f][t]
  <2>1. q \in Seq(Messages) /\ DOMAIN q = 1..Len(q) /\ Len(q) \in Nat
    BY ChannelType
  <2>2. /\ Append(q, m) \in Seq(Messages) /\ Len(Append(q, m)) = Len(q) + 1
        /\ \A i \in 1..Len(q) : Append(q, m)[i] = q[i]
        /\ Append(q, m)[Len(q) + 1] = m
    BY <2>1, AppendProperties
  <2>3. DOMAIN Append(q, m) = 1..(Len(q) + 1)
    BY <2>2, LenProperties
  <2> HIDE DEF q
  <2>4. (\E i \in DOMAIN Append(q, m) : Append(q, m)[i] = x)
          <=> (\E i \in DOMAIN q : q[i] = x) \/ x = m
    BY <2>1, <2>2, <2>3
  <2>5. QED
    BY <1>1, <1>2, <2>4 DEF Carries, q
<1>3. CASE ~(g = f /\ u = t)
  BY <1>1, <1>3 DEF Carries
<1>4. QED
  BY <1>2, <1>3

(* A request stays the oldest of its channel whatever is sent after it.    *)
LEMMA SentRequestFirst ==
  ASSUME NEW n \in Nets, NEW f \in Clients, NEW t \in Clients, NEW m \in Messages,
         NEW g \in Clients, NEW u \in Clients, RequestFirst(n, g, u),
         m # "call-request" \/ n[f][t] = <<>>
  PROVE  RequestFirst(Sent(n, f, t, m), g, u)
<1>1. CASE online[f] /\ online[t] /\ g = f /\ u = t
  <2> DEFINE q == n[f][t]
  <2>1. q \in Seq(Messages) /\ DOMAIN q = 1..Len(q) /\ Len(q) \in Nat
    BY ChannelType
  <2>2. /\ Append(q, m) \in Seq(Messages) /\ Len(Append(q, m)) = Len(q) + 1
        /\ \A i \in 1..Len(q) : Append(q, m)[i] = q[i]
        /\ Append(q, m)[Len(q) + 1] = m
    BY <2>1, AppendProperties
  <2>3. DOMAIN Append(q, m) = 1..(Len(q) + 1)
    BY <2>2, LenProperties
  <2>4. q = <<>> => Len(q) = 0
    OBVIOUS
  <2>5. Sent(n, f, t, m)[g][u] = Append(q, m)
    BY <1>1 DEF Sent, Nets
  <2> HIDE DEF q
  <2>6. \A i \in 1..(Len(q) + 1) : Append(q, m)[i] = "call-request" => i = 1
    BY <1>1, <2>1, <2>2, <2>4 DEF RequestFirst, q
  <2>7. QED
    BY <2>3, <2>5, <2>6 DEF RequestFirst
<1>2. CASE ~(online[f] /\ online[t] /\ g = f /\ u = t)
  BY <1>2 DEF RequestFirst, Sent, Nets
<1>3. QED
  BY <1>1, <1>2

(* Receiving takes one message m from its channel; another one that was on *)
(* its way still is, and nothing new is.                                   *)
LEMMA ConsumedCarries ==
  ASSUME net \in Nets, NEW f \in Clients, NEW c \in Clients, NEW m, Receives(c, f, m),
         NEW x, NEW g \in Clients, NEW u \in Clients
  PROVE  /\ Carries(net, m, f, c)
         /\ Carries(Consumed(f, c), x, g, u) => Carries(net, x, g, u)
         /\ Carries(net, x, g, u) /\ ~(x = m /\ g = f /\ u = c) => Carries(Consumed(f, c), x, g, u)
<1> DEFINE q == net[f][c]
<1>1. q \in Seq(Messages) /\ DOMAIN q = 1..Len(q) /\ Len(q) \in Nat
  BY ChannelType
<1>2. q # <<>> /\ Head(q) = m
  BY DEF Receives
<1>3. /\ Tail(q) \in Seq(Messages) /\ Len(Tail(q)) = Len(q) - 1
      /\ \A i \in 1..Len(Tail(q)) : Tail(q)[i] = q[i + 1]
  BY <1>1, <1>2, HeadTailProperties
<1>4. DOMAIN Tail(q) = 1..(Len(q) - 1)
  BY <1>3, LenProperties
<1>5. Len(q) > 0 /\ q[1] = m
  BY <1>1, <1>2, EmptySeq
<1>6. Consumed(f, c)[g][u] = IF g = f /\ u = c THEN Tail(q) ELSE net[g][u]
  BY DEF Consumed, Nets
<1> HIDE DEF q
<1>7. Carries(net, m, f, c)
  BY <1>1, <1>5 DEF Carries, q
<1>8. (\E i \in DOMAIN Tail(q) : Tail(q)[i] = x) => \E i \in DOMAIN q : q[i] = x
  BY <1>1, <1>3, <1>4
<1>9. ASSUME x # m, NEW i \in DOMAIN q, q[i] = x
      PROVE  \E j \in DOMAIN Tail(q) : Tail(q)[j] = x
  <2>1. i # 1 /\ i - 1 \in 1..(Len(q) - 1)
    BY <1>1, <1>5, <1>9
  <2>2. Tail(q)[i - 1] = q[(i - 1) + 1] /\ (i - 1) + 1 = i
    BY <1>1, <1>3, <2>1
  <2>3. QED
    BY <1>4, <1>9, <2>1, <2>2
<1>10. CASE g = f /\ u = c
  BY <1>6, <1>7, <1>8, <1>9, <1>10 DEF Carries, q
<1>11. CASE ~(g = f /\ u = c)
  BY <1>6, <1>7, <1>11 DEF Carries
<1>12. QED
  BY <1>10, <1>11

(* If requests come first, the one that is received was the only one, and  *)
(* there is none behind another message that is received.                  *)
LEMMA ConsumedRequestFirst ==
  ASSUME net \in Nets, NEW f \in Clients, NEW c \in Clients, NEW m, Receives(c, f, m),
         RequestFirst(net, f, c)
  PROVE  /\ ~Carries(Consumed(f, c), "call-request", f, c)
         /\ m # "call-request" => ~Carries(net, "call-request", f, c)
         /\ \A g, u \in Clients : RequestFirst(net, g, u) => RequestFirst(Consumed(f, c), g, u)
<1> DEFINE q == net[f][c]
<1>1. q \in Seq(Messages) /\ DOMAIN q = 1..Len(q) /\ Len(q) \in Nat
  BY ChannelType
<1>2. q # <<>> /\ Head(q) = m
  BY DEF Receives
<1>3. /\ Tail(q) \in Seq(Messages) /\ Len(Tail(q)) = Len(q) - 1
      /\ \A i \in 1..Len(Tail(q)) : Tail(q)[i] = q[i + 1]
  BY <1>1, <1>2, HeadTailProperties
<1>4. DOMAIN Tail(q) = 1..(Len(q) - 1)
  BY <1>3, LenProperties
<1>5. Len(q) > 0 /\ q[1] = m
  BY <1>1, <1>2, EmptySeq
<1>6. \A i \in 1..Len(q) : q[i] = "call-request" => i = 1
  BY <1>1 DEF RequestFirst, q
<1>7. \A g, u \in Clients : Consumed(f, c)[g][u] = IF g = f /\ u = c THEN Tail(q) ELSE net[g][u]
  BY DEF Consumed, Nets
<1> HIDE DEF q
<1>8. \A i \in 1..(Len(q) - 1) : Tail(q)[i] # "call-request"
  BY <1>1, <1>3, <1>6
<1>9. ~Carries(Consumed(f, c), "call-request", f, c)
  BY <1>4, <1>7, <1>8 DEF Carries
<1>10. m # "call-request" => ~Carries(net, "call-request", f, c)
  BY <1>1, <1>5, <1>6 DEF Carries, q
<1>11. \A g, u \in Clients : RequestFirst(net, g, u) => RequestFirst(Consumed(f, c), g, u)
  BY <1>4, <1>7, <1>8 DEF RequestFirst
<1>12. QED
  BY <1>9, <1>10, <1>11
-----------------------------------------------------------------------------
(* The invariant of a pair.                                                *)

(* Nothing was lost so far: no connection, no timer.                       *)
Lossless ==
  /\ \A c \in Clients : online[c]
  /\ \A f, t \in Clients : ~Carries(net, "user-offline", f, t)

(* While the request of f is on its way, t has said nothing, and f still   *)
(* calls t or the news that it does not is behind the request.             *)
RequestPending(f, t) == Carries(net, "call-request", f, t) =>
  /\ cm[t].peer # f
  /\ Silent(net, t, f)
  /\ cm[f].peer = t => /\ cm[f].state = "Calling"
                       /\ ~Carries(net, "call-end", f, t)
                       /\ ~Carries(net, "call-rejected", f, t)
  /\ cm[f].peer # t => GivenUp(net, f, t)

(* The same once t received the request, until it answers.                 *)
Rings(f, t) == cm[t].state = "Receiving" /\ cm[t].peer = f =>
  /\ Silent(net, t, f)
  /\ cm[f].peer = t => cm[f].state = "Calling"
  /\ cm[f].peer # t => GivenUp(net, f, t)

Ringing(f, t) == RequestFirst(net, f, t) /\ RequestPending(f, t) /\ Rings(f, t)

(* A request is accepted or rejected, not both.                            *)
OneAnswer(f, t) == ~(Carries(net, "call-accepted", f, t) /\ Carries(net, "call-rejected", f, t))

(* Two clients that name each other are the two ends of one call, and      *)
(* nobody said otherwise.                                                  *)
InCall(f, t) == cm[f].peer = t /\ cm[t].peer = f =>
  /\ cm[f].isCaller # cm[t].isCaller
  /\ ~Carries(net, "call-rejected", f, t) /\ ~Carries(net, "call-end", f, t)
  /\ cm[f].state = "Calling" /\ cm[t].state # "Receiving" => Carries(net, "call-accepted", t, f)

(* A client that names one that does not name it will learn.               *)
Left(f, t) == cm[f].peer = t /\ cm[t].peer # f =>
  \/ Carries(net, "call-end", t, f)
  \/ cm[f].state = "Calling"
     /\ (Carries(net, "call-request", f, t) \/ Carries(net, "call-rejected", t, f))

Agreed(f, t) ==
  /\ ~Carries(net, "call-cancel", f, t)
  /\ OneAnswer(f, t)
  /\ InCall(f, t)
  /\ Left(f, t)

RingInv == serial \/ paired =>
  Lossless /\ \A f, t \in Clients : f # t => Ringing(f, t)
PairInv == paired => \A f, t \in Clients : f # t => Agreed(f, t)

AgreementInv == IInv /\ RingInv /\ PairInv

(* What the step lemmas prove for one pair.                                *)
PairHolds(f, t) ==
  /\ serial \/ paired => Ringing(f, t)
  /\ paired => Agreed(f, t)

LEMMA InitAgrees == Init => RingInv /\ PairInv
<1> SUFFICES ASSUME Init PROVE RingInv /\ PairInv
  OBVIOUS
<1>1. \A f, t \in Clients : net[f][t] = <<>> /\ online[f]
  BY DEF Init
<1>2. \A m : \A f, t \in Clients : ~Carries(net, m, f, t)
  BY <1>1 DEF Carries
<1>3. \A f, t \in Clients : RequestFirst(net, f, t)
  BY <1>1 DEF RequestFirst
<1>4. \A f \in Clients : cm[f].peer = NoPeer
  BY DEF Init, IdleManager, Manager
<1>5. QED
  BY <1>1, <1>2, <1>3, <1>4, ClientsAssumption
     DEF RingInv, PairInv, Lossless, Ringing, RequestPending, Rings, Agreed, OneAnswer, InCall, Left

(* A step that leaves the managers' view of their calls and the control    *)
(* messages alone preserves the pair's invariant.                          *)
LEMMA NeutralPreserves ==
  ASSUME AgreementInv, NEW f \in Clients, NEW t \in Clients, f # t,
         serial' => serial, paired' => paired,
         \A c \in Clients : /\ cm'[c].peer = cm[c].peer /\ cm'[c].isCaller = cm[c].isCaller
                            /\ cm'[c].state \in {"Calling", "Receiving"}
                                 \/ cm[c].state \in {"Calling", "Receiving"}
                                 => cm'[c].state = cm[c].state,
         serial' \/ paired' => RequestFirst(net', f, t),
         \A m \in Messages \ MediaMessages : \A g, u \in Clients :
           Carries(net', m, g, u) <=> Carries(net, m, g, u)
  PROVE  PairHolds(f, t)'
<1>1. \A m \in {"call-request", "call-accepted", "call-rejected", "call-cancel", "call-end",
                "user-offline"} : \A g, u \in Clients :
           Carries(net', m, g, u) <=> Carries(net, m, g, u)
  BY DEF Messages, MediaMessages
<1>2. QED
  BY <1>1
     DEF AgreementInv, RingInv, PairInv, PairHolds, Ringing, RequestPending, Rings, Agreed, Silent,
         GivenUp, OneAnswer, InCall, Left

-----------------------------------------------------------------------------
(* The steps, as they show between two clients.                            *)

(* What the step lemmas need of the managers: who is idle names nobody,    *)
(* and who calls is the caller.                                            *)
LEMMA ManagerFacts ==
  ASSUME IInv, NEW c \in Clients
  PROVE  /\ cm \in [Clients -> Managers]
         /\ cm[c].state = "Idle" <=> cm[c].peer = NoPeer
         /\ cm[c].state = "Calling" => cm[c].isCaller
         /\ cm[c].state # "Idle" => cm[c].peer \in Clients
BY DEF IInv, CallInv, TimerMatchesCall, Managers

LEMMA InitiateAgrees ==
  ASSUME AgreementInv, NEW c \in Clients, NEW p \in Clients \ {c}, InitiateCall(c, p),
         NEW f \in Clients, NEW t \in Clients, f # t
  PROVE  PairHolds(f, t)'
<1> SUFFICES ASSUME serial' \/ paired'
             PROVE  Ringing(f, t)' /\ (paired' => Agreed(f, t)')
  BY DEF PairHolds
<1>1. (serial \/ paired) /\ (paired' => paired)
  BY DEF InitiateCall
<1>2. /\ cm[c].state = "Idle" /\ cm[c].peer = NoPeer /\ NoPeer # f /\ NoPeer # t
      /\ cm' = [cm EXCEPT ![c] = Manager("Calling", p, TRUE, TRUE)]
      /\ cm \in [Clients -> Managers]
  BY ManagerFacts, ClientsAssumption DEF AgreementInv, InitiateCall
<1>3. net[c][p] = <<>> /\ net[p][c] = <<>> /\ cm[p].peer # c
  <2>1. CASE AllQuiet
    BY <2>1, ManagerFacts, ClientsAssumption DEF AgreementInv, AllQuiet
  <2>2. CASE Quiet(c, p)
    BY <2>2 DEF Quiet
  <2>3. QED
    BY <2>1, <2>2 DEF InitiateCall
<1>4. \A m : ~Carries(net, m, c, p) /\ ~Carries(net, m, p, c)
  BY <1>3 DEF Carries
<1>5. /\ net \in Nets /\ online[c] /\ online[p] /\ net' = Sent(net, c, p, "call-request")
      /\ "call-request" \in Messages
  BY <1>1 DEF AgreementInv, IInv, SignalInv, RingInv, Lossless, InitiateCall, Messages
<1>6. \A x : \A g, u \in Clients :
        Carries(net', x, g, u) <=> Carries(net, x, g, u) \/ (x = "call-request" /\ g = c /\ u = p)
  BY <1>5, SentCarries
<1>7. RequestFirst(net', f, t)
  BY <1>1, <1>3, <1>5, SentRequestFirst DEF AgreementInv, RingInv, Ringing
<1>8. /\ cm'[c].state = "Calling" /\ cm'[c].peer = p /\ cm'[c].isCaller
      /\ \A d \in Clients \ {c} : cm'[d] = cm[d]
  BY <1>2 DEF Manager
<1>9. Ringing(f, t) /\ (paired => Agreed(f, t)) /\ (paired => Agreed(t, f))
  BY <1>1 DEF AgreementInv, RingInv, PairInv
<1>10. Ringing(f, t)'
  <2>1. RequestPending(f, t)'
    <3>1. CASE f = c /\ t = p
      BY <1>3, <1>4, <1>6, <1>8, <3>1 DEF RequestPending, Silent
    <3>2. CASE f = c /\ t # p
      BY <1>2, <1>6, <1>8, <1>9, <3>2 DEF Ringing, RequestPending, Silent, GivenUp
    <3>3. CASE t = c
      BY <1>4, <1>6, <1>8, <1>9, <3>3 DEF Ringing, RequestPending, Silent, GivenUp
    <3>4. CASE f # c /\ t # c
      BY <1>6, <1>8, <1>9, <3>4 DEF Ringing, RequestPending, Silent, GivenUp
    <3>5. QED
      BY <3>1, <3>2, <3>3, <3>4
  <2>2. Rings(f, t)'
    BY <1>2, <1>3, <1>4, <1>6, <1>8, <1>9 DEF Ringing, Rings, Silent, GivenUp
  <2>3. QED
    BY <1>7, <2>1, <2>2 DEF Ringing
<1>11. ASSUME paired' PROVE Agreed(f, t)'
  <2>1. Agreed(f, t) /\ Agreed(t, f)
    BY <1>1, <1>9, <1>11
  <2>2. ~Carries(net', "call-cancel", f, t) /\ OneAnswer(f, t)'
    BY <1>6, <2>1 DEF Agreed, OneAnswer
  <2>3. InCall(f, t)'
    BY <1>2, <1>3, <1>4, <1>6, <1>8, <2>1 DEF Agreed, InCall
  <2>4. Left(f, t)'
    BY <1>2, <1>3, <1>4, <1>6, <1>8, <2>1 DEF Agreed, Left
  <2>5. QED
    BY <2>2, <2>3, <2>4 DEF Agreed
<1>12. QED
  BY <1>10, <1>11

(* c leaves its call and says so to its peer.                              *)
LEMMA LeavingAgrees ==
  ASSUME AgreementInv, NEW c \in Clients, NEW m \in {"call-cancel", "call-end"},
         cm[c].state # "Idle", CleanupCall(c), net' = Sent(net, c, cm[c].peer, m),
         serial' => serial, paired' => paired, m = "call-cancel" => ~paired',
         NEW f \in Clients, NEW t \in Clients, f # t
  PROVE  PairHolds(f, t)'
<1> SUFFICES ASSUME serial' \/ paired'
             PROVE  Ringing(f, t)' /\ (paired' => Agreed(f, t)')
  BY DEF PairHolds
<1> DEFINE p == cm[c].peer
<1>1. p \in Clients /\ m \in Messages /\ m # "call-request"
  BY ManagerFacts DEF AgreementInv, Messages
<1>2. net \in Nets /\ online[c] /\ online[p]
  BY <1>1 DEF AgreementInv, IInv, SignalInv, RingInv, Lossless
<1>3. \A x : \A g, u \in Clients :
        Carries(net', x, g, u) <=> Carries(net, x, g, u) \/ (x = m /\ g = c /\ u = p)
  BY <1>1, <1>2, SentCarries
<1>4. Ringing(f, t) /\ Ringing(t, f) /\ (paired => Agreed(f, t) /\ Agreed(t, f))
  BY DEF AgreementInv, RingInv, PairInv
<1>5. RequestFirst(net', f, t)
  BY <1>1, <1>2, <1>4, SentRequestFirst DEF Ringing
<1>6. /\ cm'[c].state = "Idle" /\ cm'[c].peer = NoPeer
      /\ \A d \in Clients \ {c} : cm'[d] = cm[d]
      /\ NoPeer # f /\ NoPeer # t
  BY ManagerFacts, ClientsAssumption DEF AgreementInv, CleanupCall, IdleManager, Manager
<1> HIDE DEF p
<1>7. Ringing(f, t)'
  BY <1>1, <1>3, <1>4, <1>5, <1>6
     DEF Ringing, RequestPending, Rings, Silent, GivenUp, p
<1>8. ASSUME paired' PROVE Agreed(f, t)'
  BY <1>1, <1>3, <1>4, <1>6, <1>8 DEF Agreed, OneAnswer, InCall, Left, p
<1>9. QED
  BY <1>7, <1>8

(* c answers the call it rings for: it rejects it and is idle again, or    *)
(* accepts it and is in the call.                                          *)
LEMMA AnsweringAgrees ==
  ASSUME AgreementInv, NEW c \in Clients, NEW m \in {"call-rejected", "call-accepted"},
         cm[c].state = "Receiving", net' = Sent(net, c, cm[c].peer, m),
         \A d \in Clients \ {c} : cm'[d] = cm[d],
         m = "call-rejected" => cm'[c].state = "Idle" /\ cm'[c].peer = NoPeer,
         m = "call-accepted" => /\ cm'[c].state = "Connecting" /\ cm'[c].peer = cm[c].peer
                                /\ cm'[c].isCaller = cm[c].isCaller,
         serial' => serial, paired' => paired,
         NEW f \in Clients, NEW t \in Clients, f # t
  PROVE  PairHolds(f, t)'
<1> SUFFICES ASSUME serial' \/ paired'
             PROVE  Ringing(f, t)' /\ (paired' => Agreed(f, t)')
  BY DEF PairHolds
<1> DEFINE p == cm[c].peer
<1>1. p \in Clients /\ m \in Messages /\ m # "call-request" /\ NoPeer # f /\ NoPeer # t
  BY ManagerFacts, ClientsAssumption DEF AgreementInv, Messages
<1>2. net \in Nets /\ online[c] /\ online[p]
  BY <1>1 DEF AgreementInv, IInv, SignalInv, RingInv, Lossless
<1>3. \A x : \A g, u \in Clients :
        Carries(net', x, g, u) <=> Carries(net, x, g, u) \/ (x = m /\ g = c /\ u = p)
  BY <1>1, <1>2, SentCarries
<1>4. Ringing(f, t) /\ Ringing(t, f) /\ (paired => Agreed(f, t) /\ Agreed(t, f))
  BY DEF AgreementInv, RingInv, PairInv
<1>5. RequestFirst(net', f, t)
  BY <1>1, <1>2, <1>4, SentRequestFirst DEF Ringing
<1>6. (cm[f].state = "Calling" => cm[f].isCaller) /\ (cm[t].state = "Calling" => cm[t].isCaller)
  BY ManagerFacts DEF AgreementInv
<1> HIDE DEF p
<1>7. Ringing(f, t)'
  <2>1. RequestPending(f, t)'
    BY <1>1, <1>3, <1>4 DEF Ringing, RequestPending, Rings, Silent, GivenUp, p
  <2>2. Rings(f, t)'
    BY <1>1, <1>3, <1>4 DEF Ringing, Rings, Silent, GivenUp, p
  <2>3. QED
    BY <1>5, <2>1, <2>2 DEF Ringing
<1>8. ASSUME paired' PROVE Agreed(f, t)'
  <2>1. Agreed(f, t) /\ Agreed(t, f)
    BY <1>4, <1>8
  <2>2. OneAnswer(f, t)'
    BY <1>3, <1>4, <2>1 DEF Agreed, OneAnswer, Ringing, Rings, Silent, p
  <2>3. InCall(f, t)'
    BY <1>1, <1>3, <1>4, <1>6, <2>1 DEF Agreed, InCall, Ringing, Rings, Silent, p
  <2>4. Left(f, t)'
    BY <1>1, <1>3, <1>4, <1>6, <2>1 DEF Agreed, InCall, Left, Ringing, Rings, p
  <2>5. QED
    BY <1>3, <2>1, <2>2, <2>3, <2>4 DEF Agreed
<1>9. QED
  BY <1>7, <1>8

(* What a client that receives m from g can rely on.                       *)
Heard(c, g, m) ==
  /\ Carries(net, m, g, c)
  /\ ~Carries(Consumed(g, c), "call-request", g, c)
  /\ m # "call-request" => ~Carries(net, "call-request", g, c)
  /\ \A f, t \in Clients : f # t => RequestFirst(Consumed(g, c), f, t)
  /\ \A x : \A f, t \in Clients :
       /\ Carries(Consumed(g, c), x, f, t) => Carries(net, x, f, t)
       /\ Carries(net, x, f, t) /\ ~(x = m /\ f = g /\ t = c) => Carries(Consumed(g, c), x, f, t)

LEMMA ReceivedFacts ==
  ASSUME AgreementInv, NEW c \in Clients, NEW g \in Clients \ {c}, NEW m, Receives(c, g, m),
         serial \/ paired
  PROVE  net \in Nets /\ Consumed(g, c) \in Nets /\ Heard(c, g, m)
<1>1. net \in Nets
  BY DEF AgreementInv, IInv, SignalInv
<1>2. \A f, t \in Clients : f # t => RequestFirst(net, f, t)
  BY DEF AgreementInv, RingInv, Ringing
<1>3. Heard(c, g, m)
  BY <1>1, <1>2, ConsumedCarries, ConsumedRequestFirst DEF Heard
<1>4. QED
  BY <1>1, <1>3, ReceivedType DEF AgreementInv, IInv

(* A message that does not concern c's call, or comes too late for it.     *)
LEMMA IgnoringAgrees ==
  ASSUME AgreementInv, NEW c \in Clients, NEW g \in Clients \ {c}, NEW m, Receives(c, g, m),
         m # "call-request",
         m \in {"call-accepted", "call-rejected"} => ~ExpectsResponse(c, g),
         m = "call-cancel" => ~(cm[c].state = "Receiving" /\ cm[c].peer = g),
         m = "call-end" => cm[c].peer # g,
         net' = Consumed(g, c), UNCHANGED cm,
         serial' => serial, paired' => paired,
         NEW f \in Clients, NEW t \in Clients, f # t
  PROVE  PairHolds(f, t)'
<1> SUFFICES ASSUME serial' \/ paired'
             PROVE  Ringing(f, t)' /\ (paired' => Agreed(f, t)')
  BY DEF PairHolds
<1>1. Heard(c, g, m)
  BY ReceivedFacts
<1>2. Ringing(f, t) /\ (paired => Agreed(f, t))
  BY DEF AgreementInv, RingInv, PairInv
<1>3. Ringing(f, t)'
  <2>1. RequestPending(f, t)'
    BY <1>1, <1>2 DEF Heard, Ringing, RequestPending, Silent, GivenUp
  <2>2. Rings(f, t)'
    BY <1>1, <1>2 DEF Heard, Ringing, Rings, Silent, GivenUp
  <2>3. QED
    BY <1>1, <2>1, <2>2 DEF Heard, Ringing
<1>4. ASSUME paired' PROVE Agreed(f, t)'
  BY <1>1, <1>2, <1>4 DEF Heard, Agreed, OneAnswer, InCall, Left, ExpectsResponse
<1>5. QED
  BY <1>3, <1>4

(* The other end refused the call, gave it up or ended it.                 *)
LEMMA HungUpAgrees ==
  ASSUME AgreementInv, NEW c \in Clients, NEW g \in Clients \ {c}, NEW m, Receives(c, g, m),
         \/ m = "call-rejected" /\ cm[c].state = "Calling"
         \/ m = "call-cancel" /\ cm[c].state = "Receiving"
         \/ m = "call-end",
         cm[c].peer = g, net' = Consumed(g, c), CleanupCall(c),
         serial' => serial, paired' => paired,
         NEW f \in Clients, NEW t \in Clients, f # t
  PROVE  PairHolds(f, t)'
<1> SUFFICES ASSUME serial' \/ paired'
             PROVE  Ringing(f, t)' /\ (paired' => Agreed(f, t)')
  BY DEF PairHolds
<1>1. Heard(c, g, m)
  BY ReceivedFacts
<1>2. Ringing(f, t) /\ Ringing(c, g) /\ (paired => Agreed(f, t) /\ Agreed(t, f))
  BY DEF AgreementInv, RingInv, PairInv
<1>3. /\ cm'[c].state = "Idle" /\ cm'[c].peer = NoPeer
      /\ \A d \in Clients \ {c} : cm'[d] = cm[d]
      /\ NoPeer # f /\ NoPeer # t
  BY ManagerFacts, ClientsAssumption DEF AgreementInv, CleanupCall, IdleManager, Manager
<1>4. Ringing(f, t)'
  <2>1. RequestPending(f, t)'
    BY <1>1, <1>2, <1>3 DEF Heard, Ringing, RequestPending, Silent, GivenUp
  <2>2. Rings(f, t)'
    BY <1>1, <1>2, <1>3 DEF Heard, Ringing, Rings, Silent, GivenUp
  <2>3. QED
    BY <1>1, <2>1, <2>2 DEF Heard, Ringing
<1>5. ASSUME paired' PROVE Agreed(f, t)'
  BY <1>1, <1>2, <1>3, <1>5 DEF Heard, Agreed, OneAnswer, InCall, Left
<1>6. QED
  BY <1>4, <1>5

(* The other end accepted the call.                                        *)
LEMMA AcceptedAgrees ==
  ASSUME AgreementInv, NEW c \in Clients, NEW g \in Clients \ {c},
         Receives(c, g, "call-accepted"), ExpectsResponse(c, g), net' = Consumed(g, c),
         cm'[c].state = "Connecting", cm'[c].peer = g, cm'[c].isCaller = cm[c].isCaller,
         \A d \in Clients \ {c} : cm'[d] = cm[d],
         serial' => serial, paired' => paired,
         NEW f \in Clients, NEW t \in Clients, f # t
  PROVE  PairHolds(f, t)'
<1> SUFFICES ASSUME serial' \/ paired'
             PROVE  Ringing(f, t)' /\ (paired' => Agreed(f, t)')
  BY DEF PairHolds
<1>1. Heard(c, g, "call-accepted")
  BY ReceivedFacts
<1>2. Ringing(f, t) /\ Ringing(c, g) /\ (paired => Agreed(f, t) /\ Agreed(t, f))
  BY DEF AgreementInv, RingInv, PairInv
<1>3. cm[c].isCaller /\ (cm[g].state = "Calling" => cm[g].isCaller)
  BY ManagerFacts DEF AgreementInv, ExpectsResponse
<1>4. Ringing(f, t)'
  <2>1. RequestPending(f, t)'
    BY <1>1, <1>2 DEF Heard, Ringing, RequestPending, Silent, GivenUp, ExpectsResponse
  <2>2. Rings(f, t)'
    BY <1>1, <1>2 DEF Heard, Ringing, Rings, Silent, GivenUp, ExpectsResponse
  <2>3. QED
    BY <1>1, <2>1, <2>2 DEF Heard, Ringing
<1>5. ASSUME paired' PROVE Agreed(f, t)'
  <2>1. ~Carries(net, "call-request", c, g)
    BY <1>1, <1>2 DEF Heard, Ringing, RequestPending, Silent
  <2>2. Agreed(f, t) /\ Agreed(t, f)
    BY <1>2, <1>5
  <2>3. OneAnswer(f, t)' /\ ~Carries(net', "call-cancel", f, t)
    BY <1>1, <2>2 DEF Heard, Agreed, OneAnswer
  <2>4. InCall(f, t)'
    BY <1>1, <1>3, <2>2 DEF Heard, Agreed, InCall, ExpectsResponse
  <2>5. Left(f, t)'
    BY <1>1, <1>3, <2>1, <2>2 DEF Heard, Agreed, OneAnswer, Left, ExpectsResponse
  <2>6. QED
    BY <2>3, <2>4, <2>5 DEF Agreed
<1>6. QED
  BY <1>4, <1>5

(* A call request reaches a client that is free, which rings.              *)
LEMMA RequestRings ==
  ASSUME AgreementInv, NEW c \in Clients, NEW g \in Clients \ {c},
         Receives(c, g, "call-request"), cm[c].state = "Idle", net' = Consumed(g, c),
         cm' = [cm EXCEPT ![c] = Manager("Receiving", g, FALSE, @.timer)],
         serial' => serial, paired' => paired,
         NEW f \in Clients, NEW t \in Clients, f # t
  PROVE  PairHolds(f, t)'
<1> SUFFICES ASSUME serial' \/ paired'
             PROVE  Ringing(f, t)' /\ (paired' => Agreed(f, t)')
  BY DEF PairHolds
<1>1. Heard(c, g, "call-request")
  BY ReceivedFacts
<1>2. Ringing(f, t) /\ Ringing(g, c) /\ (paired => Agreed(f, t) /\ Agreed(t, f))
  BY DEF AgreementInv, RingInv, PairInv
<1>3. /\ cm'[c].state = "Receiving" /\ cm'[c].peer = g /\ cm'[c].isCaller = FALSE
      /\ \A d \in Clients \ {c} : cm'[d] = cm[d]
      /\ cm[c].peer = NoPeer /\ NoPeer # f /\ NoPeer # t
      /\ cm[g].state = "Calling" => cm[g].isCaller
  BY ManagerFacts, ClientsAssumption DEF AgreementInv, Manager
<1>4. RequestPending(g, c) /\ Carries(net, "call-request", g, c)
  BY <1>1, <1>2 DEF Heard, Ringing
<1>5. Ringing(f, t)'
  <2>1. RequestPending(f, t)'
    BY <1>1, <1>2, <1>3, <1>4 DEF Heard, Ringing, RequestPending, Silent, GivenUp
  <2>2. Rings(f, t)'
    BY <1>1, <1>2, <1>3, <1>4 DEF Heard, Ringing, RequestPending, Rings, Silent, GivenUp
  <2>3. QED
    BY <1>1, <2>1, <2>2 DEF Heard, Ringing
<1>6. ASSUME paired' PROVE Agreed(f, t)'
  <2>1. Agreed(f, t) /\ Agreed(t, f)
    BY <1>2, <1>6
  <2>2. OneAnswer(f, t)' /\ ~Carries(net', "call-cancel", f, t)
    BY <1>1, <2>1 DEF Heard, Agreed, OneAnswer
  <2>3. InCall(f, t)'
    <3>1. CASE f = c /\ t = g
      BY <1>1, <1>3, <1>4, <2>1, <3>1 DEF Heard, InCall, RequestPending, Silent
    <3>2. CASE f = g /\ t = c
      BY <1>1, <1>3, <1>4, <2>1, <3>2 DEF Heard, InCall, RequestPending, Silent
    <3>3. CASE ~(f = c /\ t = g) /\ ~(f = g /\ t = c)
      BY <1>1, <1>3, <2>1, <3>3 DEF Heard, Agreed, InCall
    <3>4. QED
      BY <3>1, <3>2, <3>3
  <2>4. Left(f, t)'
    BY <1>1, <1>3, <1>4, <2>1 DEF Heard, Agreed, Left, RequestPending, GivenUp
  <2>5. QED
    BY <2>2, <2>3, <2>4 DEF Agreed
<1>7. QED
  BY <1>5, <1>6

(* A call request reaches a client that is busy, which rejects it.         *)
LEMMA RequestRefused ==
  ASSUME AgreementInv, NEW c \in Clients, NEW g \in Clients \ {c},
         Receives(c, g, "call-request"), net' = Sent(Consumed(g, c), c, g, "call-rejected"),
         UNCHANGED cm,
         serial' => serial, paired' => paired,
         NEW f \in Clients, NEW t \in Clients, f # t
  PROVE  PairHolds(f, t)'
<1> SUFFICES ASSUME serial' \/ paired'
             PROVE  Ringing(f, t)' /\ (paired' => Agreed(f, t)')
  BY DEF PairHolds
<1>1. Heard(c, g, "call-request")
  BY ReceivedFacts
<1>2. Ringing(f, t) /\ Ringing(g, c) /\ (paired => Agreed(f, t) /\ Agreed(t, f))
  BY DEF AgreementInv, RingInv, PairInv
<1>3. /\ Consumed(g, c) \in Nets /\ online[c] /\ online[g]
      /\ "call-rejected" \in Messages
  BY ReceivedFacts DEF AgreementInv, RingInv, Lossless, Messages
<1>4. \A x : \A h, u \in Clients :
        Carries(net', x, h, u)
          <=> Carries(Consumed(g, c), x, h, u) \/ (x = "call-rejected" /\ h = c /\ u = g)
  BY <1>3, SentCarries
<1>5. RequestPending(g, c)
  BY <1>2 DEF Ringing
<1>6. cm[c].peer # g /\ Silent(net, c, g)
  BY <1>1, <1>5 DEF Heard, RequestPending
<1>7. RequestFirst(net', f, t)
  BY <1>1, <1>3, SentRequestFirst DEF Heard
<1>8. Ringing(f, t)'
  <2>1. RequestPending(f, t)'
    BY <1>1, <1>2, <1>4, <1>6 DEF Heard, Ringing, RequestPending, Silent, GivenUp
  <2>2. Rings(f, t)'
    BY <1>1, <1>2, <1>4, <1>6 DEF Heard, Ringing, Rings, Silent, GivenUp
  <2>3. QED
    BY <1>7, <2>1, <2>2 DEF Ringing
<1>9. ASSUME paired' PROVE Agreed(f, t)'
  <2>1. Agreed(f, t) /\ Agreed(t, f)
    BY <1>2, <1>9
  <2>2. OneAnswer(f, t)' /\ ~Carries(net', "call-cancel", f, t)
    BY <1>1, <1>4, <1>6, <2>1 DEF Heard, Agreed, OneAnswer, Silent
  <2>3. InCall(f, t)'
    BY <1>1, <1>4, <1>6, <2>1 DEF Heard, Agreed, InCall, Silent
  <2>4. Left(f, t)'
    BY <1>1, <1>4, <1>5, <2>1 DEF Heard, Agreed, Left, RequestPending
  <2>5. QED
    BY <2>2, <2>3, <2>4 DEF Agreed
<1>10. QED
  BY <1>8, <1>9

(* A media message concerns nobody's call.                                 *)
LEMMA MediaAgrees ==
  ASSUME AgreementInv, NEW c \in Clients, NEW g \in Clients \ {c}, NEW m \in MediaMessages,
         Receives(c, g, m), net' = Consumed(g, c), UNCHANGED cm,
         serial' => serial, paired' => paired,
         NEW f \in Clients, NEW t \in Clients, f # t
  PROVE  PairHolds(f, t)'
BY IgnoringAgrees DEF MediaMessages

-----------------------------------------------------------------------------
(* The actions.                                                            *)

(* A fault or a timer ends what the invariant is about.                    *)
LEMMA DisturbedAgrees ==
  ASSUME Disturbed, NEW f \in Clients, NEW t \in Clients
  PROVE  PairHolds(f, t)'
BY DEF Disturbed, PairHolds

LEMMA JoinHistory ==
  ASSUME NEW c \in Clients, NEW p, NEW is_caller, OnNeedCreatePeerConnection(c, p, is_caller)
  PROVE  Disturbed \/ UNCHANGED <<serial, paired>>
BY DEF OnNeedCreatePeerConnection, Fault, Connects

LEMMA UserAgrees ==
  ASSUME AgreementInv, NEW c \in Clients, UserAction(c),
         NEW f \in Clients, NEW t \in Clients, f # t
  PROVE  PairHolds(f, t)'
<1>1. CASE \E p \in Clients \ {c} : InitiateCall(c, p)
  BY <1>1, InitiateAgrees
<1>2. CASE CancelCall(c)
  BY <1>2, LeavingAgrees DEF CancelCall, CalledOff
<1>3. CASE EndCall(c)
  BY <1>3, LeavingAgrees DEF EndCall, Undisturbed, historyVars
<1>4. CASE RejectCall(c)
  <2>1. /\ cm'[c].state = "Idle" /\ cm'[c].peer = NoPeer
        /\ \A d \in Clients \ {c} : cm'[d] = cm[d]
    BY <1>4, ManagerFacts DEF AgreementInv, RejectCall, CleanupCall, IdleManager, Manager
  <2>2. QED
    BY <1>4, <2>1, AnsweringAgrees DEF RejectCall, Undisturbed, historyVars
<1>5. CASE AcceptCall(c)
  <2>1. /\ cm'[c].state = "Connecting" /\ cm'[c].peer = cm[c].peer
        /\ cm'[c].isCaller = cm[c].isCaller
        /\ \A d \in Clients \ {c} : cm'[d] = cm[d]
    BY <1>5, ManagerFacts DEF AgreementInv, AcceptCall, Manager
  <2>2. Disturbed \/ UNCHANGED <<serial, paired>>
    BY <1>5, JoinHistory DEF AcceptCall
  <2>3. QED
    BY <1>5, <2>1, <2>2, AnsweringAgrees, DisturbedAgrees DEF AcceptCall, Undisturbed, historyVars
<1>6. QED
  BY <1>1, <1>2, <1>3, <1>4, <1>5 DEF UserAction

LEMMA ReceiveAgrees ==
  ASSUME AgreementInv, NEW c \in Clients, NEW g \in Clients \ {c}, Receive(c, g),
         NEW f \in Clients, NEW t \in Clients, f # t
  PROVE  PairHolds(f, t)'
<1> USE DEF Undisturbed, historyVars
<1>1. CASE HandleCallRequest(c, g)
  BY <1>1, RequestRings, RequestRefused DEF HandleCallRequest
<1>2. CASE HandleCallAccepted(c, g)
  <2>1. CASE ExpectsResponse(c, g)
    <3>1. /\ cm'[c].state = "Connecting" /\ cm'[c].peer = g /\ cm'[c].isCaller = cm[c].isCaller
          /\ \A d \in Clients \ {c} : cm'[d] = cm[d]
      BY <1>2, <2>1, ManagerFacts DEF AgreementInv, HandleCallAccepted, Manager
    <3>2. Disturbed \/ UNCHANGED <<serial, paired>>
      BY <1>2, <2>1, JoinHistory DEF HandleCallAccepted
    <3>3. QED
      BY <1>2, <2>1, <3>1, <3>2, AcceptedAgrees, DisturbedAgrees DEF HandleCallAccepted
  <2>2. CASE ~ExpectsResponse(c, g)
    BY <1>2, <2>2, IgnoringAgrees DEF HandleCallAccepted
  <2>3. QED
    BY <2>1, <2>2
<1>3. CASE HandleCallRejected(c, g)
  BY <1>3, HungUpAgrees, IgnoringAgrees DEF HandleCallRejected, ExpectsResponse
<1>4. CASE HandleCallCancel(c, g)
  BY <1>4, HungUpAgrees, IgnoringAgrees DEF HandleCallCancel
<1>5. CASE HandleCallEnd(c, g)
  BY <1>5, HungUpAgrees, IgnoringAgrees DEF HandleCallEnd
<1>6. CASE OnUserOffline(c, g)
  <2>1. Undisturbed /\ Receives(c, g, "user-offline")
    BY <1>6 DEF OnUserOffline
  <2>2. ASSUME serial \/ paired PROVE FALSE
    <3>1. Carries(net, "user-offline", g, c)
      BY <2>1, <2>2, ReceivedFacts DEF Heard
    <3>2. QED
      BY <2>2, <3>1 DEF AgreementInv, RingInv, Lossless
  <2>3. QED
    BY <2>1, <2>2 DEF PairHolds
<1>7. CASE ProcessOffer(c, g)
  BY <1>7, MediaAgrees DEF ProcessOffer, MediaMessages
<1>8. CASE ProcessAnswer(c, g)
  BY <1>8, MediaAgrees DEF ProcessAnswer, MediaMessages
<1>9. CASE ProcessIceCandidate(c, g)
  BY <1>9, MediaAgrees DEF ProcessIceCandidate, MediaMessages
<1>10. QED
  BY <1>1, <1>2, <1>3, <1>4, <1>5, <1>6, <1>7, <1>8, <1>9 DEF Receive

(* The callbacks of the WebRTC thread leave the calls alone; the end of    *)
(* its notification only turns Connecting into Connected.                  *)
LEMMA CallbackAgrees ==
  ASSUME AgreementInv, NEW c \in Clients, WebRTCCallback(c),
         NEW f \in Clients, NEW t \in Clients, f # t
  PROVE  PairHolds(f, t)'
<1>1. CASE OnSessionDescriptionFailure(c)
  BY <1>1, DisturbedAgrees DEF OnSessionDescriptionFailure, Fault
<1>2. CASE ~OnSessionDescriptionFailure(c)
  <2>1. UNCHANGED net /\ UNCHANGED <<serial, paired>>
    BY <1>2
       DEF WebRTCCallback, OnSessionDescriptionSuccess, OnIceCandidateGenerated,
           NotifyPeerConnectionEstablished, SetConnected, signalVars, Undisturbed, historyVars
  <2>2. \A d \in Clients : /\ cm'[d].peer = cm[d].peer /\ cm'[d].isCaller = cm[d].isCaller
                           /\ cm'[d].state \in {"Calling", "Receiving"}
                                \/ cm[d].state \in {"Calling", "Receiving"}
                                => cm'[d].state = cm[d].state
    <3>1. CASE SetConnected(c)
      <4>1. cm[c].state = "Connecting" /\ cm \in [Clients -> Managers]
        BY <3>1 DEF SetConnected, AgreementInv, IInv, CallInv, MediaMatchesCall
      <4>2. /\ cm'[c].state = "Connected" /\ cm'[c].peer = cm[c].peer
            /\ cm'[c].isCaller = cm[c].isCaller
            /\ \A d \in Clients \ {c} : cm'[d] = cm[d]
        BY <3>1, <4>1 DEF SetConnected, Manager
      <4>3. QED
        BY <4>1, <4>2
    <3>2. CASE ~SetConnected(c)
      BY <1>2, <3>2
         DEF WebRTCCallback, OnSessionDescriptionSuccess, OnIceCandidateGenerated,
             NotifyPeerConnectionEstablished, managerVars
    <3>3. QED
      BY <3>1, <3>2
  <2>3. serial' \/ paired' => RequestFirst(net', f, t)
    BY <2>1 DEF AgreementInv, RingInv, Ringing
  <2>4. QED
    BY <2>1, <2>2, <2>3, NeutralPreserves
<1>3. QED
  BY <1>1, <1>2

(* What the WebRTC thread left to be sent is about media.                  *)
LEMMA PostedFacts ==
  ASSUME IInv, NEW c \in Clients, SendPosted(c)
  PROVE  /\ Head(posted[c]).to \in Clients
         /\ Head(posted[c]).msg \in MediaMessages /\ MediaMessages \subseteq Messages
         /\ net \in Nets /\ net' = Sent(net, c, Head(posted[c]).to, Head(posted[c]).msg)
<1>1. posted[c] \in Seq([msg : MediaMessages, to : Clients]) /\ posted[c] # <<>>
  BY DEF IInv, SignalInv, SendPosted
<1>2. Head(posted[c]) \in [msg : MediaMessages, to : Clients]
  BY <1>1, HeadTailProperties
<1>3. QED
  BY <1>2 DEF IInv, SignalInv, SendPosted, Messages

LEMMA SendPostedAgrees ==
  ASSUME AgreementInv, NEW c \in Clients, SendPosted(c),
         NEW f \in Clients, NEW t \in Clients, f # t
  PROVE  PairHolds(f, t)'
<1> DEFINE p == Head(posted[c]).to
           m == Head(posted[c]).msg
<1>1. /\ p \in Clients /\ m \in MediaMessages /\ m \in Messages
      /\ net \in Nets /\ net' = Sent(net, c, p, m)
  BY PostedFacts DEF AgreementInv
<1> HIDE DEF p, m
<1>2. UNCHANGED <<cm, serial, paired>>
  BY DEF SendPosted, managerVars, Undisturbed, historyVars
<1>3. CASE ~(serial \/ paired)
  BY <1>2, <1>3 DEF PairHolds
<1>4. CASE serial \/ paired
  <2>1. online[c] /\ online[p]
    BY <1>1, <1>4 DEF AgreementInv, RingInv, Lossless
  <2>2. \A x \in Messages \ MediaMessages : \A g, u \in Clients :
          Carries(net', x, g, u) <=> Carries(net, x, g, u)
    BY <1>1, <2>1, SentCarries
  <2>3. RequestFirst(net', f, t)
    <3>1. m # "call-request" /\ RequestFirst(net, f, t)
      BY <1>1, <1>4 DEF MediaMessages, AgreementInv, RingInv, Ringing
    <3>2. QED
      BY <1>1, <3>1, SentRequestFirst
  <2>4. QED
    BY <1>2, <2>2, <2>3, NeutralPreserves
<1>5. QED
  BY <1>3, <1>4

LEMMA OtherAgrees ==
  ASSUME AgreementInv, NEW c \in Clients,
         \/ OnCallRequestTimeout(c)
         \/ OnDisconnected(c) \/ OnConnected(c) \/ Shutdown(c),
         NEW f \in Clients, NEW t \in Clients, f # t
  PROVE  PairHolds(f, t)'
<1>1. CASE Disturbed
  BY <1>1, DisturbedAgrees
<1>2. CASE OnConnected(c)
  <2>1. ~(serial \/ paired)
    BY <1>2 DEF OnConnected, AgreementInv, RingInv, Lossless
  <2>2. QED
    BY <1>2, <2>1 DEF OnConnected, Undisturbed, historyVars, PairHolds
<1>3. QED
  BY <1>1, <1>2 DEF OnCallRequestTimeout, OnDisconnected, Shutdown, Fault

(* Nothing restores the history.                                           *)
LEMMA HistoryOnlyEnds ==
  ASSUME Next
  PROVE  (serial' => serial) /\ (paired' => paired)
<1>1. ASSUME Disturbed \/ Undisturbed \/ CalledOff \/ UNCHANGED <<serial, paired>>
      PROVE  (serial' => serial) /\ (paired' => paired)
  BY <1>1 DEF Disturbed, Undisturbed, CalledOff, historyVars
<1>2. ASSUME NEW c \in Clients, UserAction(c)
      PROVE  (serial' => serial) /\ (paired' => paired)
  BY <1>1, <1>2, JoinHistory
     DEF UserAction, InitiateCall, CancelCall, AcceptCall, RejectCall, EndCall
<1>3. ASSUME NEW c \in Clients, NEW g \in Clients \ {c}, Receive(c, g)
      PROVE  (serial' => serial) /\ (paired' => paired)
  BY <1>1, <1>3, JoinHistory
     DEF Receive, HandleCallRequest, HandleCallAccepted, HandleCallRejected, HandleCallCancel,
         HandleCallEnd, OnUserOffline, ProcessOffer, ProcessAnswer, ProcessIceCandidate
<1>4. ASSUME NEW c \in Clients, WebRTCCallback(c) \/ SendPosted(c)
      PROVE  (serial' => serial) /\ (paired' => paired)
  BY <1>1, <1>4
     DEF WebRTCCallback, OnSessionDescriptionSuccess, OnSessionDescriptionFailure,
         OnIceCandidateGenerated, NotifyPeerConnectionEstablished, SetConnected, SendPosted, Fault
<1>5. ASSUME NEW c \in Clients,
             OnCallRequestTimeout(c) \/ OnDisconnected(c) \/ OnConnected(c) \/ Shutdown(c)
      PROVE  (serial' => serial) /\ (paired' => paired)
  BY <1>1, <1>5 DEF OnCallRequestTimeout, OnDisconnected, OnConnected, Shutdown, Fault
<1>6. QED
  BY <1>2, <1>3, <1>4, <1>5 DEF Next

(* Only faults cut a connection, and only then is user-offline sent.       *)
LEMMA StaysLossless ==
  ASSUME AgreementInv, Next, serial' \/ paired'
  PROVE  Lossless'
<1>1. (serial \/ paired) /\ Lossless /\ net \in Nets
  BY HistoryOnlyEnds DEF AgreementInv, RingInv, IInv, SignalInv
<1>2. ~Disturbed
  BY DEF Disturbed
<1>3. ASSUME UNCHANGED online, NEW n \in Nets,
             \A f, t \in Clients : Carries(n, "user-offline", f, t)
                                   => Carries(net, "user-offline", f, t),
             \/ net' = n
             \/ \E c \in Clients : \E p \in Clients : \E m \in Messages \ {"user-offline"} :
                  net' = Sent(n, c, p, m)
      PROVE  Lossless'
  <2>1. \A f, t \in Clients : ~Carries(n, "user-offline", f, t)
    BY <1>1, <1>3 DEF Lossless
  <2>2. ASSUME NEW c \in Clients, NEW p \in Clients, NEW m \in Messages \ {"user-offline"},
               net' = Sent(n, c, p, m)
        PROVE  \A f, t \in Clients : ~Carries(net', "user-offline", f, t)
    <3>1. online[c] /\ online[p]
      BY <1>1 DEF Lossless
    <3>2. QED
      BY <1>3, <2>1, <2>2, <3>1, SentCarries
  <2>3. QED
    BY <1>1, <1>3, <2>1, <2>2 DEF Lossless
<1>4. ASSUME NEW c \in Clients, UserAction(c) PROVE Lossless'
  <2>1. CASE \E p \in Clients \ {c} : InitiateCall(c, p)
    BY <1>1, <1>3, <2>1 DEF InitiateCall, Messages
  <2>2. CASE CancelCall(c) \/ AcceptCall(c) \/ RejectCall(c) \/ EndCall(c)
    <3>1. cm[c].peer \in Clients
      BY <2>2, ManagerFacts DEF CancelCall, AcceptCall, RejectCall, EndCall, AgreementInv
    <3>2. UNCHANGED online
      BY <2>2 DEF CancelCall, AcceptCall, RejectCall, EndCall
    <3>3. \E m \in Messages \ {"user-offline"} : net' = Sent(net, c, cm[c].peer, m)
      BY <2>2 DEF CancelCall, AcceptCall, RejectCall, EndCall, Messages
    <3>4. QED
      BY <1>1, <1>3, <3>1, <3>2, <3>3
  <2>3. QED
    BY <1>4, <2>1, <2>2 DEF UserAction
<1>5. ASSUME NEW c \in Clients, NEW g \in Clients \ {c}, Receive(c, g) PROVE Lossless'
  <2>1. PICK m : Receives(c, g, m)
    BY <1>5
       DEF Receive, HandleCallRequest, HandleCallAccepted, HandleCallRejected, HandleCallCancel,
           HandleCallEnd, OnUserOffline, ProcessOffer, ProcessAnswer, ProcessIceCandidate
  <2>2. /\ Consumed(g, c) \in Nets
        /\ \A f, t \in Clients : Carries(Consumed(g, c), "user-offline", f, t)
                                  => Carries(net, "user-offline", f, t)
    BY <1>1, <2>1, ReceivedFacts DEF Heard
  <2>3. UNCHANGED online
    BY <1>5
       DEF Receive, HandleCallRequest, HandleCallAccepted, HandleCallRejected, HandleCallCancel,
           HandleCallEnd, OnUserOffline, ProcessOffer, ProcessAnswer, ProcessIceCandidate
  <2>4. \/ net' = Consumed(g, c)
        \/ net' = Sent(Consumed(g, c), c, g, "call-rejected")
        \/ cm[c].state # "Idle" /\ net' = Sent(Consumed(g, c), c, cm[c].peer, "call-end")
    BY <1>5
       DEF Receive, HandleCallRequest, HandleCallAccepted, HandleCallRejected, HandleCallCancel,
           HandleCallEnd, OnUserOffline, ProcessOffer, ProcessAnswer, ProcessIceCandidate
  <2>5. cm[c].state # "Idle" => cm[c].peer \in Clients
    BY ManagerFacts DEF AgreementInv
  <2>6. {"call-rejected", "call-end"} \subseteq Messages \ {"user-offline"}
    BY DEF Messages
  <2>7. QED
    BY <1>3, <2>2, <2>3, <2>4, <2>5, <2>6
<1>6. ASSUME NEW c \in Clients, WebRTCCallback(c) PROVE Lossless'
  <2>1. UNCHANGED <<online, net>>
    BY <1>6
       DEF WebRTCCallback, OnSessionDescriptionSuccess, OnSessionDescriptionFailure,
           OnIceCandidateGenerated, NotifyPeerConnectionEstablished, SetConnected, signalVars
  <2>2. QED
    BY <1>1, <1>3, <2>1
<1>7. ASSUME NEW c \in Clients, SendPosted(c) PROVE Lossless'
  <2>1. UNCHANGED online
    BY <1>7 DEF SendPosted
  <2>2. Head(posted[c]).msg \in Messages \ {"user-offline"}
    BY <1>7, PostedFacts DEF AgreementInv, MediaMessages
  <2>3. QED
    BY <1>1, <1>3, <1>7, <2>1, <2>2, PostedFacts DEF AgreementInv
<1>8. ASSUME NEW c \in Clients,
             OnCallRequestTimeout(c) \/ OnDisconnected(c) \/ OnConnected(c) \/ Shutdown(c)
      PROVE  Lossless'
  BY <1>1, <1>2, <1>8
     DEF OnCallRequestTimeout, OnDisconnected, OnConnected, Shutdown, Fault, Lossless
<1>9. QED
  BY <1>4, <1>5, <1>6, <1>7, <1>8 DEF Next

(* The invariant of all pairs is inductive.                                *)
THEOREM PairsInductive == Spec => []AgreementInv
<1>1. ASSUME AgreementInv, Next PROVE RingInv' /\ PairInv'
  <2>1. ASSUME NEW f \in Clients, NEW t \in Clients, f # t PROVE PairHolds(f, t)'
    BY <1>1, <2>1, UserAgrees, ReceiveAgrees, CallbackAgrees, SendPostedAgrees, OtherAgrees DEF Next
  <2>2. RingInv'
    BY <1>1, <2>1, StaysLossless DEF RingInv, PairHolds
  <2>3. PairInv'
    BY <2>1 DEF PairInv, PairHolds
  <2>4. QED
    BY <2>2, <2>3
<1>2. ASSUME AgreementInv, UNCHANGED vars PROVE RingInv' /\ PairInv'
  BY <1>2
     DEF vars, AgreementInv, RingInv, PairInv, Lossless, Ringing, RequestPending, Rings, Agreed,
         OneAnswer, InCall, Left
<1>3. Init /\ IInv => AgreementInv
  BY InitAgrees DEF AgreementInv
<1>4. AgreementInv /\ [Next]_vars /\ IInv' => AgreementInv'
  BY <1>1, <1>2 DEF AgreementInv
<1>5. QED
  BY <1>3, <1>4, Inductive, PTL DEF Spec

(* As long as no timer, failure, loss or CancelCall intervened and every   *)
(* call was placed between a quiet pair, two clients agree that they are   *)
(* in a call and who placed it, or the message that tells the other is     *)
(* under way: whatever the other clients do, and however many calls the    *)
(* pair had before.                                                        *)
THEOREM EndsAgree == Spec => []Agreement
<1>1. AgreementInv => Agreement
  <2> SUFFICES ASSUME AgreementInv, paired, NEW a \in Clients, NEW b \in Clients \ {a},
                      cm[a].peer = b
               PROVE  \/ /\ cm[b].peer = a
                         /\ cm[a].isCaller # cm[b].isCaller
                         /\ cm[a].state = "Calling" /\ cm[b].state # "Receiving"
                              => OnTheWay("call-accepted", b, a)
                         /\ cm[a].state = "Receiving" => cm[b].state = "Calling"
                      \/ OnTheWay("call-end", b, a)
                      \/ cm[a].state = "Calling" /\ (OnTheWay("call-request", a, b)
                                                     \/ OnTheWay("call-rejected", b, a))
    BY DEF Agreement
  <2>1. \A m : \A f, t \in Clients : OnTheWay(m, f, t) <=> Carries(net, m, f, t)
    BY DEF OnTheWay, Carries
  <2>2. Agreed(a, b) /\ Ringing(b, a)
    BY DEF AgreementInv, RingInv, PairInv
  <2>3. QED
    BY <2>1, <2>2 DEF Agreed, InCall, Left, Ringing, Rings
<1>2. QED
  BY <1>1, PairsInductive, PTL

(* A client that rings for a caller who gave up has the news on its way,   *)
(* whoever the two are and whatever else is under way between them.        *)
THEOREM RingsAreCalledOff == Spec => []RingIsCalledOff
<1>1. AgreementInv => RingIsCalledOff
  BY DEF AgreementInv, RingInv, Ringing, Rings, GivenUp, Carries, RingIsCalledOff, OnTheWay
<1>2. QED
  BY <1>1, PairsInductive, PTL

-----------------------------------------------------------------------------
(* Who may divert a negotiation.  Each lemma says who can bring about one  *)
(* of the things that Apart excludes.                                      *)

(* A call that rings or waits has no connection.                           *)
LEMMA NoConnectionYet ==
  ASSUME IInv, NEW c \in Clients, HasPeerConnection(c)
  PROVE  cm[c].state \in {"Connecting", "Connected"}
BY DEF IInv, CallInv, MediaMatchesCall, HasPeerConnection, ClosedEngine, NewEngine, Engine

Negotiates(f, t) == coordPeer[f] = t /\ engine[f].pc \notin {"none", "new"}

(* A message of a negotiation is sent by a posted lambda, and a call is    *)
(* accepted where it rings; everything else on the way was there before.   *)
NetGrowth(f, t) ==
  /\ \A m \in MediaMessages : Carries(net', m, f, t) => Carries(net, m, f, t) \/ Posted(f, t)
  /\ Carries(net', "call-accepted", f, t) =>
       Carries(net, "call-accepted", f, t) \/ (cm[f].state = "Receiving" /\ cm[f].peer = t)

(* What one message adds.                                                  *)
LEMMA SentGrowth ==
  ASSUME NEW n \in Nets, NEW c \in Clients, NEW p \in Clients, NEW m \in Messages,
         NEW x, NEW f \in Clients, NEW t \in Clients,
         Carries(Sent(n, c, p, m), x, f, t)
  PROVE  Carries(n, x, f, t) \/ (x = m /\ f = c /\ t = p)
<1>1. CASE online[c] /\ online[p]
  BY <1>1, SentCarries
<1>2. CASE ~(online[c] /\ online[p])
  BY <1>2 DEF Sent
<1>3. QED
  BY <1>1, <1>2

(* A loss adds only the news of it.                                        *)
LEMMA LossGrowth ==
  ASSUME net \in Nets, NEW c \in Clients, LosesConnection(c), NEW x, x # "user-offline",
         NEW f \in Clients, NEW t \in Clients, Carries(net', x, f, t)
  PROVE  Carries(net, x, f, t)
<1>1. PICK s \in Clients \ {c} : \E kept \in 0..Len(net[c][s]) :
       net' = [g \in Clients |-> [u \in Clients |->
                 IF u = c \/ (g = c /\ ~online[u]) THEN <<>>
                 ELSE IF g # c THEN net[g][u]
                 ELSE Append(IF u = s THEN SubSeq(net[c][s], 1, kept) ELSE net[c][u],
                             "user-offline")]]
  BY DEF LosesConnection
<1>2. PICK kept \in 0..Len(net[c][s]) :
       net' = [g \in Clients |-> [u \in Clients |->
                 IF u = c \/ (g = c /\ ~online[u]) THEN <<>>
                 ELSE IF g # c THEN net[g][u]
                 ELSE Append(IF u = s THEN SubSeq(net[c][s], 1, kept) ELSE net[c][u],
                             "user-offline")]]
  BY <1>1
<1> DEFINE q == net[f][t]
           r == IF t = s THEN SubSeq(q, 1, kept) ELSE q
<1>3. q \in Seq(Messages) /\ DOMAIN q = 1..Len(q) /\ Len(q) \in Nat
  BY ChannelType
<1>4. t # c
  BY <1>2 DEF Carries
<1>5. CASE f # c
  BY <1>2, <1>4, <1>5 DEF Carries
<1>6. CASE f = c
  <2>1. net'[f][t] = Append(r, "user-offline")
    BY <1>2, <1>4, <1>6 DEF Carries
  <2>2. r \in Seq(Messages) /\ Len(r) \in Nat /\ Len(r) <= Len(q)
        /\ \A i \in 1..Len(r) : r[i] = q[i]
    <3>1. CASE t = s
      <4>1. kept \in 0..Len(q)
        BY <1>2, <1>6, <3>1
      <4>2. \A i \in 1..kept : q[i] \in Messages
        BY <1>3, <4>1
      <4> HIDE DEF q
      <4>3. /\ SubSeq(q, 1, kept) \in Seq(Messages)
            /\ Len(SubSeq(q, 1, kept)) = kept
            /\ \A i \in 1..kept : SubSeq(q, 1, kept)[i] = q[i]
        BY <1>3, <4>1, <4>2, SubSeqProperties
      <4>4. QED
        BY <1>3, <3>1, <4>1, <4>3
    <3>2. CASE t # s
      BY <1>3, <3>2
    <3>3. QED
      BY <3>1, <3>2
  <2>3. "user-offline" \in Messages
    BY DEF Messages
  <2> HIDE DEF r, q
  <2>4. /\ Append(r, "user-offline") \in Seq(Messages)
        /\ Len(Append(r, "user-offline")) = Len(r) + 1
        /\ \A i \in 1..Len(r) : Append(r, "user-offline")[i] = r[i]
        /\ Append(r, "user-offline")[Len(r) + 1] = "user-offline"
    BY <2>2, <2>3, AppendProperties
  <2>5. DOMAIN Append(r, "user-offline") = 1..(Len(r) + 1)
    BY <2>4, LenProperties
  <2>6. PICK i \in 1..(Len(r) + 1) : Append(r, "user-offline")[i] = x
    BY <2>1, <2>5 DEF Carries
  <2>7. i \in 1..Len(r) /\ r[i] = x
    BY <2>2, <2>4, <2>6
  <2>8. i \in DOMAIN q /\ q[i] = x
    BY <1>3, <2>2, <2>7
  <2>9. QED
    BY <2>8 DEF Carries, q
<1>7. QED
  BY <1>5, <1>6

LEMMA NetGrows ==
  ASSUME IInv, Next, NEW f \in Clients, NEW t \in Clients
  PROVE  NetGrowth(f, t)
<1>1. net \in Nets
  BY DEF IInv, SignalInv
<1>2. MediaMessages \subseteq Messages
      /\ {"call-accepted", "call-request", "call-rejected", "call-cancel", "call-end"} \subseteq Messages \ MediaMessages
  BY DEF Messages, MediaMessages
<1>3. ASSUME NEW n \in Nets, NEW c \in Clients, NEW p \in Clients,
             \A x : Carries(n, x, f, t) => Carries(net, x, f, t),
             NEW m \in {"call-request", "call-rejected", "call-cancel", "call-end"},
             net' = Sent(n, c, p, m) \/ net' = n
      PROVE  NetGrowth(f, t)
  <2>1. m \in Messages \ MediaMessages /\ m # "call-accepted"
    BY <1>2, <1>3
  <2>2. ASSUME NEW x, x # m, Carries(net', x, f, t) PROVE Carries(net, x, f, t)
    BY <1>3, <2>1, <2>2, SentGrowth
  <2>3. QED
    BY <2>1, <2>2 DEF NetGrowth
<1>4. ASSUME NEW c \in Clients, UserAction(c) PROVE NetGrowth(f, t)
  <2>1. CASE \E p \in Clients \ {c} : InitiateCall(c, p)
    BY <1>1, <1>3, <2>1 DEF InitiateCall
  <2>2. CASE CancelCall(c) \/ RejectCall(c) \/ EndCall(c)
    <3>1. cm[c].peer \in Clients
      BY <2>2, PeerIsClient DEF CancelCall, RejectCall, EndCall, IInv
    <3>2. QED
      BY <1>1, <1>3, <2>2, <3>1 DEF CancelCall, RejectCall, EndCall
  <2>3. CASE AcceptCall(c)
    <3>1. /\ cm[c].peer \in Clients /\ cm[c].state = "Receiving"
          /\ net' = Sent(net, c, cm[c].peer, "call-accepted")
      BY <2>3, PeerIsClient DEF AcceptCall, IInv
    <3>2. ASSUME NEW x, Carries(net', x, f, t)
          PROVE  Carries(net, x, f, t) \/ (x = "call-accepted" /\ f = c /\ t = cm[c].peer)
      BY <1>1, <1>2, <3>1, <3>2, SentGrowth
    <3>3. QED
      BY <1>2, <3>1, <3>2 DEF NetGrowth
  <2>4. QED
    BY <1>4, <2>1, <2>2, <2>3 DEF UserAction
<1>5. ASSUME NEW c \in Clients, NEW g \in Clients \ {c}, Receive(c, g) PROVE NetGrowth(f, t)
  <2>1. PICK m : Receives(c, g, m)
    BY <1>5
       DEF Receive, HandleCallRequest, HandleCallAccepted, HandleCallRejected, HandleCallCancel,
           HandleCallEnd, OnUserOffline, ProcessOffer, ProcessAnswer, ProcessIceCandidate
  <2>2. /\ Consumed(g, c) \in Nets
        /\ \A x : Carries(Consumed(g, c), x, f, t) => Carries(net, x, f, t)
    BY <1>1, <2>1, ReceivedType, ConsumedCarries DEF IInv
  <2>3. \/ net' = Consumed(g, c)
        \/ net' = Sent(Consumed(g, c), c, g, "call-rejected")
        \/ cm[c].state # "Idle" /\ net' = Sent(Consumed(g, c), c, cm[c].peer, "call-end")
    BY <1>5
       DEF Receive, HandleCallRequest, HandleCallAccepted, HandleCallRejected, HandleCallCancel,
           HandleCallEnd, OnUserOffline, ProcessOffer, ProcessAnswer, ProcessIceCandidate
  <2>4. cm[c].state # "Idle" => cm[c].peer \in Clients
    BY PeerIsClient DEF IInv
  <2>5. QED
    BY <1>3, <2>2, <2>3, <2>4
<1>6. ASSUME UNCHANGED net PROVE NetGrowth(f, t)
  BY <1>6 DEF NetGrowth
<1>7. ASSUME NEW c \in Clients, SendPosted(c) PROVE NetGrowth(f, t)
  <2> DEFINE p == Head(posted[c]).to
             m == Head(posted[c]).msg
  <2>1. p \in Clients /\ m \in MediaMessages /\ m \in Messages /\ net' = Sent(net, c, p, m)
    BY <1>7, PostedFacts
  <2>2. Posted(c, p)
    <3> DEFINE S == [msg : MediaMessages, to : Clients]
    <3>1. posted[c] \in Seq(S) /\ posted[c] # <<>>
      BY <1>7 DEF SendPosted, IInv, SignalInv
    <3>2. 1 \in DOMAIN posted[c] /\ Head(posted[c]) = posted[c][1]
      <4> HIDE DEF S
      <4>1. DOMAIN posted[c] = 1..Len(posted[c]) /\ Len(posted[c]) \in Nat
        BY <3>1, LenProperties
      <4>2. QED
        BY <3>1, <4>1, EmptySeq
    <3>3. QED
      BY <3>2 DEF Posted
  <2> HIDE DEF p, m
  <2>3. ASSUME NEW x, Carries(net', x, f, t)
        PROVE  Carries(net, x, f, t) \/ (x = m /\ f = c /\ t = p)
    BY <1>1, <2>1, <2>3, SentGrowth
  <2>4. QED
    BY <1>2, <2>1, <2>2, <2>3 DEF NetGrowth
<1>8. ASSUME NEW c \in Clients, LosesConnection(c) PROVE NetGrowth(f, t)
  <2>1. \A x : x # "user-offline" /\ Carries(net', x, f, t) => Carries(net, x, f, t)
    BY <1>1, <1>8, LossGrowth
  <2>2. QED
    BY <2>1 DEF NetGrowth, MediaMessages
<1>9. ASSUME NEW c \in Clients,
             \/ OnCallRequestTimeout(c) \/ WebRTCCallback(c)
             \/ OnDisconnected(c) \/ OnConnected(c) \/ Shutdown(c)
      PROVE  NetGrowth(f, t)
  <2>1. UNCHANGED net \/ LosesConnection(c)
    BY <1>9
       DEF OnCallRequestTimeout, WebRTCCallback, OnSessionDescriptionSuccess,
           OnSessionDescriptionFailure, OnIceCandidateGenerated, NotifyPeerConnectionEstablished,
           SetConnected, OnDisconnected, OnConnected, Shutdown, signalVars
  <2>2. QED
    BY <1>6, <1>8, <2>1
<1>10. QED
  BY <1>4, <1>5, <1>7, <1>9 DEF Next

(* The WebRTC thread leaves messages to be sent to the client that the     *)
(* coordinator negotiates with.                                            *)
LEMMA PostedGrows ==
  ASSUME IInv, Next, NEW f \in Clients, NEW t \in Clients, Posted(f, t)'
  PROVE  Posted(f, t) \/ Negotiates(f, t)
<1> DEFINE S == [msg : MediaMessages, to : Clients]
           q == posted[f]
<1>1. posted \in [Clients -> Seq(S)] /\ q \in Seq(S)
  BY DEF IInv, SignalInv
<1>2. DOMAIN q = 1..Len(q) /\ Len(q) \in Nat
  <2> HIDE DEF S, q
  <2>1. QED
    BY <1>1, LenProperties
<1>3. CASE posted'[f] = q
  BY <1>3 DEF Posted
<1>4. ASSUME NEW m \in MediaMessages, Post(f, m), engine[f].pc \notin {"none", "new"}
      PROVE  Posted(f, t) \/ Negotiates(f, t)
  <2> DEFINE e == [msg |-> m, to |-> coordPeer[f]]
  <2>1. e \in S /\ e.to = coordPeer[f]
    BY <1>4 DEF IInv, CallInv, PeerKnown, HasPeerConnection
  <2>2. posted'[f] = Append(q, e)
    BY <1>1, <1>4 DEF Post
  <2> HIDE DEF S, q, e
  <2>3. /\ DOMAIN Append(q, e) = 1..(Len(q) + 1)
        /\ \A i \in 1..Len(q) : Append(q, e)[i] = q[i]
        /\ Append(q, e)[Len(q) + 1] = e
    BY <1>1, <1>2, <2>1, AppendProperties, LenProperties
  <2>4. PICK i \in 1..(Len(q) + 1) : Append(q, e)[i].to = t
    BY <2>2, <2>3 DEF Posted
  <2>5. CASE i \in 1..Len(q)
    BY <1>2, <2>3, <2>4, <2>5 DEF Posted, q
  <2>6. CASE i = Len(q) + 1
    BY <1>4, <2>1, <2>3, <2>4, <2>6 DEF Negotiates
  <2>7. QED
    BY <1>2, <2>5, <2>6
<1>5. CASE posted'[f] = <<>>
  BY <1>5 DEF Posted
<1>6. CASE q # <<>> /\ posted'[f] = Tail(q)
  <2> HIDE DEF S, q
  <2>1. /\ Tail(q) \in Seq(S) /\ Len(Tail(q)) = Len(q) - 1
        /\ \A i \in 1..Len(Tail(q)) : Tail(q)[i] = q[i + 1]
    BY <1>1, <1>6, HeadTailProperties
  <2>2. DOMAIN Tail(q) = 1..Len(Tail(q))
    BY <2>1, LenProperties
  <2>3. PICK i \in 1..Len(Tail(q)) : Tail(q)[i].to = t
    BY <1>6, <2>2 DEF Posted
  <2>4. i + 1 \in DOMAIN q /\ q[i + 1].to = t
    BY <1>2, <2>1, <2>3
  <2>5. QED
    BY <2>4 DEF Posted, q
<1>7. \/ posted'[f] = q \/ posted'[f] = <<>>
      \/ q # <<>> /\ posted'[f] = Tail(q)
      \/ \E m \in MediaMessages : Post(f, m) /\ engine[f].pc \notin {"none", "new"}
  <2> HIDE DEF S
  <2>1. PICK c \in Clients :
          \/ UserAction(c) \/ OnCallRequestTimeout(c)
          \/ \E g \in Clients \ {c} : Receive(c, g)
          \/ WebRTCCallback(c) \/ SendPosted(c)
          \/ OnDisconnected(c) \/ OnConnected(c) \/ Shutdown(c)
    BY DEF Next
  <2>2. CASE UserAction(c)
    BY <2>2 DEF UserAction, InitiateCall, CancelCall, AcceptCall, RejectCall, EndCall
  <2>3. CASE \E g \in Clients \ {c} : Receive(c, g)
    BY <2>3
       DEF Receive, HandleCallRequest, HandleCallAccepted, HandleCallRejected, HandleCallCancel,
           HandleCallEnd, OnUserOffline, ProcessOffer, ProcessAnswer, ProcessIceCandidate
  <2>4. CASE WebRTCCallback(c)
    <3>1. UNCHANGED posted
          \/ \E m \in MediaMessages : Post(c, m) /\ engine[c].pc \notin {"none", "new"}
      BY <2>4
         DEF WebRTCCallback, OnSessionDescriptionSuccess, OnSessionDescriptionFailure,
             OnIceCandidateGenerated, NotifyPeerConnectionEstablished, SetConnected, signalVars,
             MediaMessages
    <3>2. c # f => posted'[f] = q
      BY <1>1, <3>1 DEF Post
    <3>3. QED
      BY <3>1, <3>2
  <2>5. CASE SendPosted(c)
    BY <1>1, <2>5 DEF SendPosted
  <2>6. CASE OnCallRequestTimeout(c) \/ OnDisconnected(c) \/ OnConnected(c)
    BY <2>6 DEF OnCallRequestTimeout, OnDisconnected, OnConnected, signalVars
  <2>7. CASE Shutdown(c)
    BY <1>1, <2>7 DEF Shutdown
  <2>8. QED
    BY <2>1, <2>2, <2>3, <2>4, <2>5, <2>6, <2>7
<1>8. QED
  BY <1>3, <1>4, <1>5, <1>6, <1>7

(* What a step does to the negotiation of one client: nothing, close it,   *)
(* take an offer or an answer that was on its way, or begin it.            *)
SamePeer(d)   == late'[d] = late[d] /\ (HasPeerConnection(d)' => cm'[d].peer = cm[d].peer)
Unmoved(d)    == /\ SamePeer(d)
                 /\ coordPeer'[d] = coordPeer[d] /\ engine'[d].remote = engine[d].remote
                 /\ (engine'[d].pc = "none") <=> (engine[d].pc = "none")
                 /\ (engine'[d].pc \in {"none", "new"}) <=> (engine[d].pc \in {"none", "new"})
Closed(d)     == engine'[d].pc = "none"
Offered(d, g) == /\ SamePeer(d)
                 /\ HasPeerConnection(d) /\ Carries(net, "offer", g, d)
                 /\ coordPeer'[d] = g /\ engine'[d].remote \in {engine[d].remote, g}
Answered(d, g) == /\ SamePeer(d)
                  /\ engine[d].pc = "offered" /\ Carries(net, "answer", g, d)
                  /\ coordPeer'[d] = coordPeer[d] /\ engine'[d].remote = g
Joined(d, p)  == /\ ~HasPeerConnection(d)
                 /\ Connects(d, p)
                 /\ cm[d].peer = p /\ cm'[d].peer = p
                 /\ coordPeer'[d] = p /\ engine'[d].remote = NoPeer
                 /\ engine'[d].pc = "new" \/ Carries(net, "call-accepted", p, d)

NegotiationStep(d) ==
  \/ Unmoved(d) \/ Closed(d)
  \/ \E g \in Clients \ {d} : Offered(d, g) \/ Answered(d, g)
  \/ \E p \in Clients : Joined(d, p)

(* The history of leftovers is well typed and kept by most steps.          *)
LateType == late \in [Clients -> SUBSET Clients]

LEMMA JoinSteps ==
  ASSUME IInv, LateType, NEW c \in Clients, NEW p \in Clients, NEW is_caller \in BOOLEAN,
         cm[c].state \in {"Calling", "Receiving"}, cm[c].peer = p,
         cm' = [cm EXCEPT ![c] = Manager("Connecting", p, cm[c].isCaller, FALSE)],
         OnNeedCreatePeerConnection(c, p, is_caller),
         is_caller => Carries(net, "call-accepted", p, c)
  PROVE  LateType' /\ \A d \in Clients : NegotiationStep(d)
<1>1. /\ engine[c] = ClosedEngine /\ engine \in [Clients -> Engines]
      /\ cm \in [Clients -> Managers] /\ coordPeer \in [Clients -> Clients \cup {NoPeer}]
  BY DEF IInv, CallInv, MediaMatchesCall
<1>2. ~HasPeerConnection(c)
  BY <1>1 DEF HasPeerConnection, ClosedEngine, NewEngine, Engine
<1>3. /\ coordPeer'[c] = p /\ cm'[c].peer = p
      /\ \A d \in Clients \ {c} : cm'[d] = cm[d] /\ coordPeer'[d] = coordPeer[d] /\ engine'[d] = engine[d]
  BY <1>1 DEF OnNeedCreatePeerConnection, Manager
<1>4. CASE UNCHANGED engine /\ UNCHANGED late
  <2>1. Closed(c)
    BY <1>2, <1>4 DEF Closed, HasPeerConnection
  <2>2. \A d \in Clients \ {c} : Unmoved(d)
    BY <1>3, <1>4 DEF Unmoved, SamePeer
  <2>3. QED
    BY <1>4, <2>1, <2>2 DEF NegotiationStep, LateType
<1>5. ASSUME NEW camera \in BOOLEAN, Connects(c, p),
             engine' = [engine EXCEPT ![c] = NewEngine(InitialPcState(is_caller), camera)]
      PROVE  LateType' /\ \A d \in Clients : NegotiationStep(d)
  <2>1. engine'[c].remote = NoPeer /\ engine'[c].pc = InitialPcState(is_caller)
    BY <1>1, <1>5 DEF NewEngine, Engine
  <2>2. engine'[c].pc = "new" \/ Carries(net, "call-accepted", p, c)
    BY <2>1 DEF InitialPcState
  <2>3. Joined(c, p)
    BY <1>2, <1>3, <1>5, <2>1, <2>2 DEF Joined
  <2>4. LateType' /\ \A d \in Clients \ {c} : late'[d] = late[d]
    BY <1>5 DEF Connects, LateType
  <2>5. \A d \in Clients \ {c} : Unmoved(d)
    BY <1>3, <2>4 DEF Unmoved, SamePeer
  <2>6. QED
    BY <2>3, <2>4, <2>5 DEF NegotiationStep
<1>6. QED
  BY <1>2, <1>4, <1>5 DEF OnNeedCreatePeerConnection, CameraOutcomes, Fault, Disturbed

LEMMA HangupSteps ==
  ASSUME IInv, LateType, NEW c \in Clients, CleanupCall(c), UNCHANGED late,
         ClosePeerConnection(c) \/ (UNCHANGED engine /\ ~HasPeerConnection(c)),
         \A d \in Clients \ {c} : coordPeer'[d] = coordPeer[d]
  PROVE  LateType' /\ \A d \in Clients : NegotiationStep(d)
<1>1. \A d \in Clients \ {c} : cm'[d] = cm[d] /\ engine'[d] = engine[d]
  BY DEF CleanupCall, ClosePeerConnection, IInv, CallInv
<1>2. Closed(c)
  BY DEF Closed, ClosePeerConnection, HasPeerConnection, IInv, CallInv, ClosedEngine, NewEngine, Engine
<1>3. \A d \in Clients \ {c} : Unmoved(d)
  BY <1>1 DEF Unmoved, SamePeer
<1>4. QED
  BY <1>2, <1>3 DEF NegotiationStep, LateType

(* A step that leaves coordinators and engines alone, and the peers of the *)
(* calls that have a connection.                                           *)
LEMMA QuietSteps ==
  ASSUME LateType, UNCHANGED <<coordPeer, engine, late>>,
         \A d \in Clients : HasPeerConnection(d) => cm'[d].peer = cm[d].peer
  PROVE  LateType' /\ \A d \in Clients : NegotiationStep(d)
BY DEF NegotiationStep, Unmoved, SamePeer, LateType, HasPeerConnection

LEMMA UserSteps ==
  ASSUME IInv, LateType, NEW c \in Clients, UserAction(c)
  PROVE  LateType' /\ \A d \in Clients : NegotiationStep(d)
<1>1. cm \in [Clients -> Managers] /\ (cm[c].state # "Idle" => cm[c].peer \in Clients)
  BY PeerIsClient DEF IInv, CallInv
<1>2. CASE \E p \in Clients \ {c} : InitiateCall(c, p)
  <2>1. ~HasPeerConnection(c)
    BY <1>2, NoConnectionYet DEF InitiateCall
  <2>2. UNCHANGED <<coordPeer, engine, late>> /\ \A d \in Clients \ {c} : cm'[d] = cm[d]
    BY <1>1, <1>2 DEF InitiateCall, engineVars
  <2>3. QED
    BY <2>1, <2>2, QuietSteps
<1>3. CASE CancelCall(c) \/ RejectCall(c)
  <2>1. ~HasPeerConnection(c)
    BY <1>3, NoConnectionYet DEF CancelCall, RejectCall
  <2>2. QED
    BY <1>3, <2>1, HangupSteps
       DEF CancelCall, RejectCall, engineVars, CalledOff, Undisturbed, historyVars
<1>4. CASE EndCall(c)
  BY <1>4, HangupSteps DEF EndCall, Undisturbed, historyVars
<1>5. CASE AcceptCall(c)
  <2>1. cm[c].peer \in Clients /\ ~cm[c].timer
    BY <1>1, <1>5 DEF AcceptCall, IInv, CallInv, TimerMatchesCall
  <2>2. cm' = [cm EXCEPT ![c] = Manager("Connecting", cm[c].peer, cm[c].isCaller, FALSE)]
    BY <1>5, <2>1 DEF AcceptCall, IInv, CallInv, Managers, Manager
  <2>3. QED
    BY <1>5, <2>1, <2>2, JoinSteps DEF AcceptCall
<1>6. QED
  BY <1>2, <1>3, <1>4, <1>5 DEF UserAction

LEMMA ReceiveSteps ==
  ASSUME IInv, LateType, NEW c \in Clients, NEW g \in Clients \ {c}, Receive(c, g)
  PROVE  LateType' /\ \A d \in Clients : NegotiationStep(d)
<1> USE DEF Undisturbed, historyVars
<1>1. /\ cm \in [Clients -> Managers] /\ engine \in [Clients -> Engines]
      /\ coordPeer \in [Clients -> Clients \cup {NoPeer}] /\ net \in Nets
  BY DEF IInv, CallInv, SignalInv
<1>2. CASE HandleCallRequest(c, g)
  <2>1. UNCHANGED <<coordPeer, engine, late>>
    BY <1>2 DEF HandleCallRequest, engineVars
  <2>2. \A d \in Clients : HasPeerConnection(d) => cm'[d].peer = cm[d].peer
    <3>1. cm[c].state # "Idle" => UNCHANGED cm
      BY <1>2 DEF HandleCallRequest
    <3>2. cm[c].state = "Idle" => ~HasPeerConnection(c) /\ \A d \in Clients \ {c} : cm'[d] = cm[d]
      BY <1>1, <1>2, NoConnectionYet DEF HandleCallRequest
    <3>3. QED
      BY <3>1, <3>2
  <2>3. QED
    BY <2>1, <2>2, QuietSteps
<1>3. CASE HandleCallAccepted(c, g)
  <2>1. CASE ExpectsResponse(c, g)
    <3>1. Carries(net, "call-accepted", g, c)
      BY <1>1, <1>3, ConsumedCarries DEF HandleCallAccepted
    <3>2. QED
      BY <1>3, <2>1, <3>1, JoinSteps DEF HandleCallAccepted, ExpectsResponse
  <2>2. CASE ~ExpectsResponse(c, g)
    BY <1>3, <2>2, QuietSteps DEF HandleCallAccepted
  <2>3. QED
    BY <2>1, <2>2
<1>4. CASE HandleCallRejected(c, g) \/ HandleCallCancel(c, g) \/ HandleCallEnd(c, g) \/ OnUserOffline(c, g)
  <2>1. /\ UNCHANGED <<coordPeer, late>>
        /\ (ClosePeerConnection(c) /\ CleanupCall(c)) \/ UNCHANGED <<cm, engine>>
    BY <1>4 DEF HandleCallRejected, HandleCallCancel, HandleCallEnd, OnUserOffline, engineVars
  <2>2. QED
    BY <2>1, HangupSteps, QuietSteps
<1>5. CASE ProcessIceCandidate(c, g)
  <2>1. /\ UNCHANGED <<cm, coordPeer, late>>
        /\ \A d \in Clients : engine'[d].pc = engine[d].pc /\ engine'[d].remote = engine[d].remote
    BY <1>1, <1>5 DEF ProcessIceCandidate, Engine
  <2>2. QED
    BY <2>1 DEF NegotiationStep, Unmoved, SamePeer, LateType
<1>6. CASE ProcessAnswer(c, g)
  <2>1. UNCHANGED <<cm, coordPeer, late>> /\ \A d \in Clients \ {c} : engine'[d] = engine[d]
    BY <1>1, <1>6 DEF ProcessAnswer
  <2>2. NegotiationStep(c)
    <3>1. CASE engine[c].pc = "offered"
      <4>1. Carries(net, "answer", g, c)
        BY <1>1, <1>6, ConsumedCarries DEF ProcessAnswer
      <4>2. engine'[c].remote = g
        BY <1>1, <1>6, <3>1 DEF ProcessAnswer, Described, Engine
      <4>3. QED
        BY <2>1, <3>1, <4>1, <4>2 DEF NegotiationStep, Answered, SamePeer
    <3>2. CASE engine[c].pc # "offered"
      <4>1. engine'[c] = engine[c]
        BY <1>1, <1>6, <3>2 DEF ProcessAnswer
      <4>2. QED
        BY <2>1, <4>1 DEF NegotiationStep, Unmoved, SamePeer
    <3>3. QED
      BY <3>1, <3>2
  <2>3. \A d \in Clients \ {c} : Unmoved(d)
    BY <2>1 DEF Unmoved, SamePeer
  <2>4. QED
    BY <2>1, <2>2, <2>3 DEF NegotiationStep, LateType
<1>7. CASE ProcessOffer(c, g)
  <2>1. CASE ~HasPeerConnection(c)
    BY <1>7, <2>1, QuietSteps DEF ProcessOffer
  <2>2. CASE HasPeerConnection(c)
    <3>1. Carries(net, "offer", g, c)
      BY <1>1, <1>7, ConsumedCarries DEF ProcessOffer
    <3>2. /\ UNCHANGED <<cm, late>> /\ coordPeer'[c] = g
          /\ \A d \in Clients \ {c} : coordPeer'[d] = coordPeer[d] /\ engine'[d] = engine[d]
      BY <1>1, <1>7, <2>2 DEF ProcessOffer
    <3>3. engine'[c].remote \in {engine[c].remote, g}
      BY <1>1, <1>7, <2>2 DEF ProcessOffer, Described, Engine
    <3>4. Offered(c, g)
      BY <2>2, <3>1, <3>2, <3>3 DEF Offered, SamePeer
    <3>5. \A d \in Clients \ {c} : Unmoved(d)
      BY <3>2 DEF Unmoved, SamePeer
    <3>6. QED
      BY <3>2, <3>4, <3>5 DEF NegotiationStep, LateType
  <2>3. QED
    BY <2>1, <2>2
<1>8. QED
  BY <1>2, <1>3, <1>4, <1>5, <1>6, <1>7 DEF Receive

LEMMA NegotiationSteps ==
  ASSUME IInv, LateType, Next
  PROVE  LateType' /\ \A d \in Clients : NegotiationStep(d)
<1>1. PICK c \in Clients :
        \/ UserAction(c) \/ OnCallRequestTimeout(c)
        \/ \E g \in Clients \ {c} : Receive(c, g)
        \/ WebRTCCallback(c) \/ SendPosted(c)
        \/ OnDisconnected(c) \/ OnConnected(c) \/ Shutdown(c)
  BY DEF Next
<1>2. cm \in [Clients -> Managers] /\ engine \in [Clients -> Engines]
      /\ coordPeer \in [Clients -> Clients \cup {NoPeer}]
  BY DEF IInv, CallInv
<1>3. CASE OnCallRequestTimeout(c)
  <2>1. cm[c].state = "Calling"
    BY <1>3 DEF OnCallRequestTimeout, IInv, CallInv, TimerMatchesCall
  <2>2. QED
    BY <1>3, <2>1, HangupSteps DEF OnCallRequestTimeout, Disturbed
<1>4. CASE WebRTCCallback(c)
  <2>1. UNCHANGED <<coordPeer, late>> /\ \A d \in Clients : cm'[d].peer = cm[d].peer
    BY <1>2, <1>4
       DEF WebRTCCallback, OnSessionDescriptionSuccess, OnSessionDescriptionFailure,
           OnIceCandidateGenerated, NotifyPeerConnectionEstablished, SetConnected, Manager,
           managerVars, Undisturbed, historyVars, Fault, Disturbed
  <2>2. \A d \in Clients :
          /\ engine'[d].remote = engine[d].remote
          /\ engine'[d].pc = engine[d].pc
             \/ (engine[d].pc \notin {"none", "new"} /\ engine'[d].pc \notin {"none", "new"})
    BY <1>2, <1>4
       DEF WebRTCCallback, OnSessionDescriptionSuccess, OnSessionDescriptionFailure,
           OnIceCandidateGenerated, NotifyPeerConnectionEstablished, SetConnected, PcBecomes, Engine
  <2>3. \A d \in Clients : Unmoved(d)
    BY <2>1, <2>2 DEF Unmoved, SamePeer
  <2>4. QED
    BY <2>1, <2>3 DEF NegotiationStep, LateType
<1>5. CASE SendPosted(c) \/ OnConnected(c) \/ OnDisconnected(c)
  BY <1>5, QuietSteps
     DEF SendPosted, OnConnected, OnDisconnected, managerVars, engineVars, Undisturbed, historyVars,
         Fault, Disturbed
<1>6. CASE Shutdown(c)
  BY <1>2, <1>6, HangupSteps DEF Shutdown, Fault, Disturbed
<1>7. QED
  BY <1>1, <1>3, <1>4, <1>5, <1>6, UserSteps, ReceiveSteps

(* While c has a connection, nothing is left between it and the clients    *)
(* that are neither its peer nor remembered as late.                       *)
WithPeer(c) == HasPeerConnection(c) =>
  /\ coordPeer[c] \in {cm[c].peer} \cup late[c]
  /\ engine[c].remote \in {cm[c].peer, NoPeer} \cup late[c]
  /\ \A q \in Clients \ ({c, cm[c].peer} \cup late[c]) : Apart(c, q)

LateInv == LateType /\ \A c \in Clients : WithPeer(c)

(* Two clients stay apart: what Apart excludes can come only from the      *)
(* coordinator of one of them, or from a call between them being answered. *)
LEMMA StaysApart ==
  ASSUME IInv, LateType, Next, NEW c \in Clients, NEW q \in Clients \ {c}, Apart(c, q),
         ~Negotiates(c, q), cm[c].state = "Receiving" => cm[c].peer # q
  PROVE  Apart(c, q)'
<1>1. \A m : \A f, t \in Clients : /\ OnTheWay(m, f, t) <=> Carries(net, m, f, t)
                                   /\ OnTheWay(m, f, t)' <=> Carries(net', m, f, t)
  BY DEF OnTheWay, Carries
<1>2. /\ \A m \in MediaMessages : ~Carries(net, m, q, c)
      /\ ~Carries(net, "call-accepted", c, q) /\ ~Carries(net, "offer", c, q)
      /\ ~Posted(q, c) /\ ~Posted(c, q) /\ ~Negotiates(q, c)
  BY <1>1 DEF Apart, Negotiates
<1>3. NetGrowth(q, c) /\ NetGrowth(c, q)
  BY NetGrows
<1>4. /\ \A m \in MediaMessages : ~Carries(net', m, q, c)
      /\ ~Carries(net', "call-accepted", c, q) /\ ~Carries(net', "offer", c, q)
  BY <1>2, <1>3 DEF NetGrowth, MediaMessages
<1>5. ~Posted(q, c)' /\ ~Posted(c, q)'
  BY <1>2, PostedGrows
<1>6. ~Negotiates(q, c)'
  <2>1. NegotiationStep(q)
    BY NegotiationSteps
  <2>2. QED
    BY <1>2, <2>1
       DEF NegotiationStep, Unmoved, Closed, Offered, Answered, Joined, Negotiates, HasPeerConnection
<1>7. QED
  BY <1>1, <1>4, <1>5, <1>6 DEF Apart, Negotiates

LEMMA StaysWithPeer ==
  ASSUME IInv, LateInv, Next, NEW c \in Clients
  PROVE  WithPeer(c)'
<1>1. LateType /\ WithPeer(c)
  BY DEF LateInv
<1>2. NegotiationStep(c)
  BY <1>1, NegotiationSteps
<1>3. CASE Closed(c)
  BY <1>3 DEF Closed, WithPeer, HasPeerConnection
<1>4. CASE HasPeerConnection(c) /\ SamePeer(c)
  <2>1. SUFFICES ASSUME HasPeerConnection(c)' PROVE WithPeer(c)'
    BY DEF WithPeer
  <2>2. cm'[c].peer = cm[c].peer /\ late'[c] = late[c] /\ cm[c].state # "Receiving"
    BY <1>4, <2>1, NoConnectionYet DEF SamePeer
  <2>3. ASSUME NEW q \in Clients \ ({c, cm[c].peer} \cup late[c]) PROVE Apart(c, q) /\ Apart(c, q)'
    <3>1. Apart(c, q) /\ ~Negotiates(c, q)
      BY <1>1, <1>4, <2>3 DEF WithPeer, Negotiates
    <3>2. QED
      BY <1>1, <2>2, <3>1, StaysApart
  <2>4. ASSUME NEW g \in Clients \ {c}, NEW m \in MediaMessages, Carries(net, m, g, c)
        PROVE  g \in {cm[c].peer} \cup late[c]
    BY <2>3, <2>4 DEF Apart, OnTheWay, Carries
  <2>5. /\ coordPeer'[c] \in {cm[c].peer} \cup late[c]
        /\ engine'[c].remote \in {cm[c].peer, NoPeer} \cup late[c]
    <3>1. CASE Unmoved(c)
      BY <1>1, <1>4, <3>1 DEF Unmoved, WithPeer
    <3>2. ASSUME NEW g \in Clients \ {c}, Offered(c, g) \/ Answered(c, g)
          PROVE  /\ coordPeer'[c] \in {cm[c].peer} \cup late[c]
                 /\ engine'[c].remote \in {cm[c].peer, NoPeer} \cup late[c]
      <4>1. g \in {cm[c].peer} \cup late[c]
        BY <2>4, <3>2 DEF Offered, Answered, MediaMessages
      <4>2. QED
        BY <1>1, <1>4, <3>2, <4>1 DEF Offered, Answered, WithPeer
    <3>3. QED
      BY <1>2, <1>4, <2>1, <3>1, <3>2 DEF NegotiationStep, Closed, Joined, HasPeerConnection
  <2>6. QED
    BY <2>2, <2>3, <2>5 DEF WithPeer
<1>5. ASSUME NEW p \in Clients, Joined(c, p) PROVE WithPeer(c)'
  <2>1. late'[c] = {q \in Clients \ {c, p} : ~Apart(c, q)}
    BY <1>1, <1>5 DEF Joined, Connects, LateType
  <2>2. ASSUME NEW q \in Clients \ ({c, p} \cup late'[c]) PROVE Apart(c, q)'
    <3>1. Apart(c, q) /\ ~Negotiates(c, q) /\ cm[c].peer # q
      BY <1>5, <2>1, <2>2 DEF Joined, Negotiates, HasPeerConnection
    <3>2. QED
      BY <1>1, <3>1, StaysApart
  <2>3. coordPeer'[c] = p /\ cm'[c].peer = p /\ engine'[c].remote = NoPeer
    BY <1>5 DEF Joined
  <2>4. QED
    BY <2>2, <2>3 DEF WithPeer
<1>6. CASE ~HasPeerConnection(c) /\ Unmoved(c)
  BY <1>6 DEF Unmoved, WithPeer, HasPeerConnection
<1>7. QED
  BY <1>2, <1>3, <1>4, <1>5, <1>6
     DEF NegotiationStep, Unmoved, Offered, Answered, HasPeerConnection

(* Leftovers are remembered.                                               *)
THEOREM LateInductive == Spec => []LateInv
<1>1. Init => LateInv
  BY DEF Init, LateInv, LateType, WithPeer, HasPeerConnection, ClosedEngine, NewEngine, Engine
<1>2. ASSUME IInv, LateInv, Next PROVE LateInv'
  BY <1>2, StaysWithPeer, NegotiationSteps DEF LateInv
<1>3. ASSUME LateInv, UNCHANGED vars PROVE LateInv'
  BY <1>3
     DEF vars, LateInv, LateType, WithPeer, HasPeerConnection, Apart, OnTheWay, Posted
<1>4. QED
  BY <1>1, <1>2, <1>3, Inductive, PTL DEF Spec

(* For any number of clients and calls, and whatever is lost, late or      *)
(* crossing: the coordinator and the engine negotiate with the client the  *)
(* call is with, or with one of whom something of an answered call was     *)
(* left when the connection was made.  An offer, applied whoever sent it,  *)
(* comes from nobody else.                                                 *)
THEOREM EngineNegotiatesWithPeer == Spec => []NegotiatesWithPeer
<1>1. LateInv => NegotiatesWithPeer
  BY DEF LateInv, WithPeer, NegotiatesWithPeer
<1>2. QED
  BY <1>1, LateInductive, PTL

(* Every variable has its type, whatever the clients, faults and bounds:   *)
(* in particular nothing is ever posted to an empty peer id.               *)
THEOREM TypeCorrect == Spec => []TypeOK
<1>1. IInv /\ LateInv => TypeOK
  BY DEF IInv, CallInv, SignalInv, TypeOK, Nets, LateInv, LateType
<1>2. QED
  BY <1>1, Inductive, LateInductive, PTL

(* Engine, timer and queue of candidates follow the call, for any clients, *)
(* calls and faults.                                                       *)
THEOREM EngineFollows == Spec => []EngineFollowsCall
<1>1. TypeOK /\ MediaMatchesCall /\ TimerMatchesCall /\ CandidatesFlushed => EngineFollowsCall
  BY DEF EngineFollowsCall
<1>2. QED
  BY <1>1, TypeCorrect, MediaFollowsCall, TimerFollowsCall, QueueIsFlushed, PTL

-----------------------------------------------------------------------------
(* The loss of a peer.                                                     *)

(* Once b is offline, "user-offline" is the last that a hears from it.     *)
NewsLast(a, b) == ~online[b] => net[b][a] = <<>> \/ net[b][a][Len(net[b][a])] = "user-offline"

(* a negotiates, or has negotiated, with b, its peer.                      *)
Negotiating(a, b) ==
  cm[a].peer = b /\ coordPeer[a] = b /\ engine[a].pc \notin {"none", "new"}

LossTold(a, b) == ~online[b] /\ Negotiating(a, b) => Carries(net, "user-offline", b, a)

StableOnline == \A a \in Clients \ Unstable : online[a]
EstablishedOpen == \A c \in Clients :
  establishing[c] \/ cm[c].state = "Connected" => engine[c].pc \notin {"none", "new"}

LossInv ==
  /\ StableOnline
  /\ EstablishedOpen
  /\ \A a \in Clients \ Unstable : \A b \in Clients : NewsLast(a, b) /\ LossTold(a, b)

(* Nothing is added to the channel of a client that is offline.            *)
LEMMA OfflineSaysNothing ==
  ASSUME NEW n \in Nets, NEW c \in Clients, NEW p \in Clients, NEW m,
         NEW a \in Clients, NEW b \in Clients, ~online[b]
  PROVE  Sent(n, c, p, m)[b][a] = n[b][a]
BY DEF Sent, Nets

(* A message of b that a receives leaves the news behind it, if there is   *)
(* news and the message is not it.                                         *)
LEMMA NewsStaysLast ==
  ASSUME net \in Nets, NEW a \in Clients, NEW b \in Clients, NEW m, Receives(a, b, m),
         ~online[b], NewsLast(a, b), NEW q, q = Consumed(b, a)[b][a]
  PROVE  /\ q = <<>> \/ q[Len(q)] = "user-offline"
         /\ m # "user-offline" => \E i \in DOMAIN q : q[i] = "user-offline"
<1> DEFINE r == net[b][a]
<1>1. r \in Seq(Messages) /\ DOMAIN r = 1..Len(r) /\ Len(r) \in Nat
  BY ChannelType
<1>2. r # <<>> /\ Head(r) = m /\ r[Len(r)] = "user-offline"
  BY DEF Receives, NewsLast
<1>3. q = Tail(r)
  BY DEF Consumed, Nets
<1> HIDE DEF r
<1>4. /\ Tail(r) \in Seq(Messages) /\ Len(Tail(r)) = Len(r) - 1
      /\ \A i \in 1..Len(Tail(r)) : Tail(r)[i] = r[i + 1]
  BY <1>1, <1>2, HeadTailProperties
<1>5. DOMAIN q = 1..Len(q) /\ Len(q) \in Nat /\ (Len(q) = 0 => q = <<>>)
  BY <1>3, <1>4, LenProperties, EmptySeq
<1>6. Len(q) > 0 => q[Len(q)] = "user-offline"
  BY <1>1, <1>2, <1>3, <1>4, <1>5
<1>7. Head(r) = r[1]
  BY <1>1, <1>2
<1>8. m # "user-offline" => Len(q) > 0
  BY <1>1, <1>2, <1>3, <1>4, <1>5, <1>7
<1>9. QED
  BY <1>5, <1>6, <1>8

(* What changes a client's negotiation is what it does itself.             *)
NegotiationKept(a, b) == Negotiating(a, b)' => Negotiating(a, b)

LEMMA LossFrame ==
  ASSUME NEW a \in Clients, NEW b \in Clients, NewsLast(a, b), LossTold(a, b),
         ~online'[b] => ~online[b] /\ net'[b][a] = net[b][a] /\ NegotiationKept(a, b)
  PROVE  NewsLast(a, b)' /\ LossTold(a, b)'
BY DEF NewsLast, LossTold, Carries, NegotiationKept

(* The connection of c is lost: all stable clients are told.               *)
LEMMA LosesConnectionTells ==
  ASSUME IInv, LossInv, NEW c \in Unstable, online[c], LosesConnection(c),
         NEW a \in Clients \ Unstable, NEW b \in Clients,
         b # c => NegotiationKept(a, b)
  PROVE  NewsLast(a, b)' /\ LossTold(a, b)'
<1>1. PICK s \in Clients \ {c} : \E kept \in 0..Len(net[c][s]) :
       net' = [f \in Clients |-> [t \in Clients |->
                 IF t = c \/ (f = c /\ ~online[t]) THEN <<>>
                 ELSE IF f # c THEN net[f][t]
                 ELSE Append(IF t = s THEN SubSeq(net[c][s], 1, kept) ELSE net[c][t],
                             "user-offline")]]
  BY DEF LosesConnection
<1>2. PICK kept \in 0..Len(net[c][s]) :
       net' = [f \in Clients |-> [t \in Clients |->
                 IF t = c \/ (f = c /\ ~online[t]) THEN <<>>
                 ELSE IF f # c THEN net[f][t]
                 ELSE Append(IF t = s THEN SubSeq(net[c][s], 1, kept) ELSE net[c][t],
                             "user-offline")]]
  BY <1>1
<1>3. a # c /\ online[a] /\ c \in Clients /\ NewsLast(a, b) /\ LossTold(a, b)
  BY ClientsAssumption DEF LossInv, StableOnline
<1>4. CASE b # c
  <2>1. net'[b][a] = net[b][a]
    BY <1>2, <1>3, <1>4
  <2>2. online'[b] = online[b]
    BY <1>4 DEF LosesConnection
  <2>3. QED
    BY <1>3, <1>4, <2>1, <2>2, LossFrame
<1>5. CASE b = c
  <2> DEFINE q == IF a = s THEN SubSeq(net[c][s], 1, kept) ELSE net[c][a]
  <2>1. net'[c][a] = Append(q, "user-offline")
    BY <1>2, <1>3
  <2>2. /\ net[c][s] \in Seq(Messages) /\ net[c][a] \in Seq(Messages)
        /\ DOMAIN net[c][s] = 1..Len(net[c][s]) /\ Len(net[c][s]) \in Nat
    BY <1>3, ChannelType DEF IInv, SignalInv
  <2>3. q \in Seq(Messages)
    BY <2>2, SubSeqProperties
  <2>4. "user-offline" \in Messages
    BY DEF Messages
  <2> HIDE DEF q
  <2>5. /\ Append(q, "user-offline") \in Seq(Messages)
        /\ Len(Append(q, "user-offline")) = Len(q) + 1 /\ Len(q) \in Nat
        /\ Append(q, "user-offline")[Len(q) + 1] = "user-offline"
    BY <2>3, <2>4, AppendProperties, LenProperties
  <2>6. Len(q) + 1 \in DOMAIN Append(q, "user-offline")
    BY <2>5, LenProperties
  <2>7. QED
    BY <1>5, <2>1, <2>5, <2>6 DEF NewsLast, LossTold, Carries
<1>6. QED
  BY <1>4, <1>5

(* What c's step leaves alone of the other clients' calls.                 *)
OthersKept(c) == \A d \in Clients \ {c} :
  /\ cm'[d] = cm[d] /\ coordPeer'[d] = coordPeer[d]
  /\ engine'[d] = engine[d] /\ establishing'[d] = establishing[d]

(* c's own call: it is over, is only now answered, or its connection is as *)
(* far as it was.                                                          *)
OwnCallKept(c) ==
  \/ cm'[c].state = "Idle" /\ cm'[c].peer = NoPeer /\ ~establishing'[c]
  \/ engine'[c].pc \in {"none", "new"} /\ cm'[c].state # "Connected" /\ ~establishing'[c]
  \/ /\ cm'[c].peer = cm[c].peer /\ coordPeer'[c] = coordPeer[c]
     /\ engine'[c].pc \in {"none", "new"} <=> engine[c].pc \in {"none", "new"}
     /\ cm'[c].state = "Connected" => cm[c].state = "Connected" \/ establishing[c]
     /\ establishing'[c] => establishing[c] \/ engine[c].pc = "stable"

LEMMA OwnStepKeeps ==
  ASSUME EstablishedOpen, NEW c \in Clients, OthersKept(c), OwnCallKept(c)
  PROVE  EstablishedOpen' /\ \A a, b \in Clients : NegotiationKept(a, b)
BY ClientsAssumption
   DEF EstablishedOpen, OthersKept, OwnCallKept, NegotiationKept, Negotiating

LEMMA HangupKept ==
  ASSUME IInv, NEW c \in Clients, ClosePeerConnection(c), CleanupCall(c),
         UNCHANGED coordPeer \/ coordPeer' = [coordPeer EXCEPT ![c] = NoPeer]
  PROVE  OthersKept(c) /\ OwnCallKept(c)
<1>1. OthersKept(c)
  BY DEF IInv, CallInv, ClosePeerConnection, CleanupCall, OthersKept
<1>2. OwnCallKept(c)
  BY DEF IInv, CallInv, ClosePeerConnection, CleanupCall, IdleManager, Manager, OwnCallKept
<1>3. QED
  BY <1>1, <1>2

LEMMA JoinKept ==
  ASSUME IInv, NEW c \in Clients, NEW p \in Clients, NEW is_caller \in BOOLEAN,
         cm[c].state \in {"Calling", "Receiving"},
         OnNeedCreatePeerConnection(c, p, is_caller), UNCHANGED establishing,
         cm'[c].state = "Connecting", \A d \in Clients \ {c} : cm'[d] = cm[d]
  PROVE  /\ OthersKept(c)
         /\ ~is_caller => OwnCallKept(c)
         /\ EstablishedOpen => EstablishedOpen'
<1>1. engine[c] = ClosedEngine /\ ~establishing[c] /\ engine \in [Clients -> Engines]
      /\ coordPeer \in [Clients -> Clients \cup {NoPeer}]
  BY DEF IInv, CallInv, MediaMatchesCall
<1>2. OthersKept(c)
  BY <1>1 DEF OnNeedCreatePeerConnection, OthersKept
<1>3. ~is_caller => engine'[c].pc \in {"none", "new"}
  BY <1>1
     DEF OnNeedCreatePeerConnection, InitialPcState, HasPeerConnection, ClosedEngine, NewEngine, Engine
<1>4. QED
  BY <1>1, <1>2, <1>3 DEF OwnCallKept, OthersKept, EstablishedOpen

(* Steps of c other than receiving.                                        *)
LEMMA OwnActionKept ==
  ASSUME IInv, NEW c \in Clients,
         \/ UserAction(c) \/ OnCallRequestTimeout(c) \/ WebRTCCallback(c) \/ SendPosted(c)
         \/ OnDisconnected(c) \/ OnConnected(c) \/ Shutdown(c)
  PROVE  OthersKept(c) /\ OwnCallKept(c)
<1>1. /\ cm \in [Clients -> Managers] /\ engine \in [Clients -> Engines]
      /\ cm[c].state \in {"Idle", "Calling", "Receiving"} => engine[c].pc = "none" /\ ~establishing[c]
      /\ establishing \in [Clients -> BOOLEAN]
  BY DEF IInv, CallInv, MediaMatchesCall, ClosedEngine, NewEngine, Engine
<1>2. CASE \E p \in Clients \ {c} : InitiateCall(c, p)
  BY <1>1, <1>2 DEF InitiateCall, Manager, engineVars, OthersKept, OwnCallKept
<1>3. CASE CancelCall(c) \/ RejectCall(c)
  BY <1>1, <1>3
     DEF CancelCall, RejectCall, CleanupCall, IdleManager, Manager, engineVars, OthersKept, OwnCallKept
<1>4. CASE AcceptCall(c)
  <2>1. /\ cm'[c].state = "Connecting" /\ \A d \in Clients \ {c} : cm'[d] = cm[d]
        /\ cm[c].peer \in Clients
    BY <1>1, <1>4, ManagerFacts DEF AcceptCall, Manager
  <2>2. QED
    BY <1>4, <2>1, JoinKept DEF AcceptCall
<1>5. CASE EndCall(c) \/ Shutdown(c)
  BY <1>5, HangupKept DEF EndCall, Shutdown
<1>6. CASE OnCallRequestTimeout(c)
  <2>1. cm[c].state = "Calling"
    BY <1>6 DEF OnCallRequestTimeout, IInv, CallInv, TimerMatchesCall
  <2>2. QED
    BY <1>6, <2>1, HangupKept DEF OnCallRequestTimeout
<1>7. CASE OnSessionDescriptionSuccess(c)
  BY <1>1, <1>7
     DEF OnSessionDescriptionSuccess, PcBecomes, Engine, managerVars, OthersKept, OwnCallKept
<1>8. CASE OnSessionDescriptionFailure(c)
  BY <1>1, <1>8
     DEF OnSessionDescriptionFailure, PcBecomes, Engine, managerVars, OthersKept, OwnCallKept
<1>9. CASE OnIceCandidateGenerated(c)
  BY <1>1, <1>9
     DEF OnIceCandidateGenerated, Engine, managerVars, OthersKept, OwnCallKept
<1>10. CASE NotifyPeerConnectionEstablished(c)
  BY <1>1, <1>10 DEF NotifyPeerConnectionEstablished, managerVars, OthersKept, OwnCallKept
<1>11. CASE SetConnected(c)
  BY <1>1, <1>11 DEF SetConnected, Manager, OthersKept, OwnCallKept
<1>12. CASE SendPosted(c) \/ OnDisconnected(c) \/ OnConnected(c)
  BY <1>12 DEF SendPosted, OnDisconnected, OnConnected, managerVars, engineVars, OthersKept, OwnCallKept
<1>13. QED
  BY <1>2, <1>3, <1>4, <1>5, <1>6, <1>7, <1>8, <1>9, <1>10, <1>11, <1>12
     DEF UserAction, WebRTCCallback

OnlyWith(c, g) == /\ EstablishedOpen'
                  /\ \A a, b \in Clients : a # c \/ b # g => NegotiationKept(a, b)

(* A message of g can set up a negotiation with g, but with no other.      *)
LEMMA ReceiveKept ==
  ASSUME IInv, EstablishedOpen, NEW c \in Clients, NEW g \in Clients \ {c}, Receive(c, g)
  PROVE  OnlyWith(c, g)
<1>1. /\ cm \in [Clients -> Managers] /\ engine \in [Clients -> Engines]
      /\ coordPeer \in [Clients -> Clients \cup {NoPeer}]
      /\ cm[c].state \in {"Idle", "Calling", "Receiving"} => engine[c].pc = "none" /\ ~establishing[c]
      /\ cm[c].state = "Idle" <=> cm[c].peer = NoPeer
      /\ establishing \in [Clients -> BOOLEAN]
  BY ManagerFacts DEF IInv, CallInv, MediaMatchesCall, ClosedEngine, NewEngine, Engine
<1>2. ASSUME OthersKept(c), OwnCallKept(c) PROVE OnlyWith(c, g)
  BY <1>2, OwnStepKeeps DEF OnlyWith
<1>3. ASSUME cm' = cm, coordPeer' = coordPeer, engine' = engine, establishing' = establishing
      PROVE  OnlyWith(c, g)
  BY <1>3 DEF OnlyWith, EstablishedOpen, NegotiationKept, Negotiating
<1>4. CASE HandleCallRequest(c, g)
  <2>1. CASE cm[c].state = "Idle"
    <3>1. OthersKept(c) /\ OwnCallKept(c)
      BY <1>1, <1>4, <2>1 DEF HandleCallRequest, Manager, engineVars, OthersKept, OwnCallKept
    <3>2. QED
      BY <1>2, <3>1
  <2>2. CASE cm[c].state # "Idle"
    BY <1>3, <1>4, <2>2 DEF HandleCallRequest, engineVars
  <2>3. QED
    BY <2>1, <2>2
<1>5. CASE HandleCallAccepted(c, g)
  <2>1. CASE ExpectsResponse(c, g)
    <3>1. /\ cm'[c].state = "Connecting" /\ cm'[c].peer = g
          /\ \A d \in Clients \ {c} : cm'[d] = cm[d]
      BY <1>1, <1>5, <2>1 DEF HandleCallAccepted, Manager
    <3>2. OthersKept(c) /\ EstablishedOpen'
      BY <1>5, <2>1, <3>1, JoinKept DEF HandleCallAccepted, ExpectsResponse
    <3>3. QED
      BY <3>1, <3>2 DEF OnlyWith, OthersKept, NegotiationKept, Negotiating
  <2>2. CASE ~ExpectsResponse(c, g)
    BY <1>3, <1>5, <2>2 DEF HandleCallAccepted
  <2>3. QED
    BY <2>1, <2>2
<1>6. CASE HandleCallRejected(c, g) \/ HandleCallCancel(c, g) \/ HandleCallEnd(c, g) \/ OnUserOffline(c, g)
  <2>1. /\ UNCHANGED coordPeer
        /\ (ClosePeerConnection(c) /\ CleanupCall(c)) \/ UNCHANGED <<cm, engine, establishing>>
    BY <1>6 DEF HandleCallRejected, HandleCallCancel, HandleCallEnd, OnUserOffline, engineVars
  <2>2. QED
    BY <1>2, <1>3, <2>1, HangupKept
<1>7. CASE ProcessOffer(c, g)
  <2>1. CASE HasPeerConnection(c)
    <3>1. /\ coordPeer'[c] = g /\ \A d \in Clients \ {c} : coordPeer'[d] = coordPeer[d]
          /\ UNCHANGED <<cm, establishing>>
      BY <1>1, <1>7, <2>1 DEF ProcessOffer
    <3>2. /\ engine'[c].pc \in {engine[c].pc, "answering"}
          /\ \A d \in Clients \ {c} : engine'[d] = engine[d]
      BY <1>1, <1>7, <2>1 DEF ProcessOffer, Described, Engine
    <3>3. QED
      BY <3>1, <3>2 DEF OnlyWith, EstablishedOpen, NegotiationKept, Negotiating
  <2>2. CASE ~HasPeerConnection(c)
    BY <1>3, <1>7, <2>2 DEF ProcessOffer
  <2>3. QED
    BY <2>1, <2>2
<1>8. CASE ProcessAnswer(c, g)
  <2>1. OthersKept(c) /\ OwnCallKept(c)
    BY <1>1, <1>8 DEF ProcessAnswer, Described, Engine, OthersKept, OwnCallKept
  <2>2. QED
    BY <1>2, <2>1
<1>9. CASE ProcessIceCandidate(c, g)
  <2>1. OthersKept(c) /\ OwnCallKept(c)
    BY <1>1, <1>9 DEF ProcessIceCandidate, Engine, OthersKept, OwnCallKept
  <2>2. QED
    BY <1>2, <2>1
<1>10. QED
  BY <1>4, <1>5, <1>6, <1>7, <1>8, <1>9 DEF Receive

(* The news that g is offline ends what c negotiates with it.              *)
LEMMA NewsEndsNegotiation ==
  ASSUME IInv, NEW c \in Clients, NEW g \in Clients \ {c}, OnUserOffline(c, g)
  PROVE  ~Negotiating(c, g)'
<1>1. /\ cm \in [Clients -> Managers] /\ g # NoPeer
      /\ cm[c].state = "Idle" <=> cm[c].peer = NoPeer
  BY ManagerFacts, ClientsAssumption DEF IInv, CallInv
<1>2. CASE coordPeer[c] = g /\ cm[c].state # "Idle"
  <2>1. cm'[c].peer = NoPeer
    BY <1>1, <1>2 DEF OnUserOffline, CleanupCall, IdleManager, Manager
  <2>2. QED
    BY <1>1, <2>1 DEF Negotiating
<1>3. CASE ~(coordPeer[c] = g /\ cm[c].state # "Idle")
  <2>1. cm' = cm /\ coordPeer' = coordPeer
    BY <1>3 DEF OnUserOffline
  <2>2. QED
    BY <1>1, <1>3, <2>1 DEF Negotiating
<1>4. QED
  BY <1>2, <1>3

LEMMA ReceiveTells ==
  ASSUME IInv, LossInv, NEW c \in Clients, NEW g \in Clients \ {c}, Receive(c, g),
         NEW a \in Clients \ Unstable, NEW b \in Clients
  PROVE  NewsLast(a, b)' /\ LossTold(a, b)'
<1> SUFFICES ASSUME ~online'[b] PROVE NewsLast(a, b)' /\ LossTold(a, b)'
  BY DEF NewsLast, LossTold
<1>1. ~online[b]
  BY DEF Receive, HandleCallRequest, HandleCallAccepted, HandleCallRejected, HandleCallCancel,
         HandleCallEnd, OnUserOffline, ProcessOffer, ProcessAnswer, ProcessIceCandidate
<1>2. NewsLast(a, b) /\ LossTold(a, b) /\ EstablishedOpen /\ a # b
  BY <1>1 DEF LossInv, StableOnline
<1>3. PICK m : Receives(c, g, m) /\ (m = "user-offline" => OnUserOffline(c, g))
  <2>1. CASE OnUserOffline(c, g)
    BY <2>1 DEF OnUserOffline
  <2>2. CASE ~OnUserOffline(c, g)
    <3>1. \E m \in Messages \ {"user-offline"} : Receives(c, g, m)
      BY <2>2 DEF Receive, HandleCallRequest, HandleCallAccepted, HandleCallRejected,
                  HandleCallCancel, HandleCallEnd, ProcessOffer, ProcessAnswer,
                  ProcessIceCandidate, Messages, MediaMessages
    <3>2. QED
      BY <3>1
  <2>3. QED
    BY <2>1, <2>2
<1>4. net \in Nets /\ Consumed(g, c) \in Nets
  BY <1>3, ReceivedType DEF IInv, SignalInv
<1>5. net'[b][a] = Consumed(g, c)[b][a]
  <2>1. \/ net' = Consumed(g, c)
        \/ net' = Sent(Consumed(g, c), c, g, "call-rejected")
        \/ cm[c].state # "Idle" /\ net' = Sent(Consumed(g, c), c, cm[c].peer, "call-end")
    BY DEF Receive, HandleCallRequest, HandleCallAccepted, HandleCallRejected, HandleCallCancel,
           HandleCallEnd, OnUserOffline, ProcessOffer, ProcessAnswer, ProcessIceCandidate
  <2>2. cm[c].state # "Idle" => cm[c].peer \in Clients
    BY ManagerFacts
  <2>3. QED
    BY <1>1, <1>4, <2>1, <2>2, OfflineSaysNothing
<1>6. CASE g = b /\ c = a
  <2>1. /\ net'[b][a] = <<>> \/ net'[b][a][Len(net'[b][a])] = "user-offline"
        /\ m # "user-offline" => \E i \in DOMAIN net'[b][a] : net'[b][a][i] = "user-offline"
    BY <1>1, <1>2, <1>3, <1>4, <1>5, <1>6, NewsStaysLast
  <2>2. m = "user-offline" => ~Negotiating(a, b)'
    BY <1>3, <1>6, NewsEndsNegotiation
  <2>3. QED
    BY <2>1, <2>2 DEF NewsLast, LossTold, Carries
<1>7. CASE ~(g = b /\ c = a)
  <2>1. net'[b][a] = net[b][a]
    BY <1>4, <1>5, <1>7 DEF Consumed, Nets
  <2>2. NegotiationKept(a, b)
    BY <1>2, <1>7, ReceiveKept DEF OnlyWith
  <2>3. QED
    BY <1>1, <1>2, <2>1, <2>2, LossFrame
<1>8. QED
  BY <1>6, <1>7

LEMMA OwnActionTells ==
  ASSUME IInv, LossInv, NEW c \in Clients,
         \/ UserAction(c) \/ OnCallRequestTimeout(c) \/ WebRTCCallback(c) \/ SendPosted(c)
         \/ OnDisconnected(c) \/ OnConnected(c) \/ Shutdown(c),
         NEW a \in Clients \ Unstable, NEW b \in Clients
  PROVE  NewsLast(a, b)' /\ LossTold(a, b)'
<1>1. NewsLast(a, b) /\ LossTold(a, b) /\ NegotiationKept(a, b) /\ net \in Nets
  BY OwnActionKept, OwnStepKeeps DEF LossInv, IInv, SignalInv
<1>2. ASSUME UNCHANGED online, \/ UNCHANGED net
                               \/ \E p \in Clients : \E m : net' = Sent(net, c, p, m)
      PROVE  NewsLast(a, b)' /\ LossTold(a, b)'
  <2>1. ~online[b] => net'[b][a] = net[b][a]
    BY <1>1, <1>2, OfflineSaysNothing
  <2>2. QED
    BY <1>1, <1>2, <2>1, LossFrame
<1>3. CASE \E p \in Clients \ {c} : InitiateCall(c, p)
  BY <1>2, <1>3 DEF InitiateCall
<1>4. CASE CancelCall(c) \/ AcceptCall(c) \/ RejectCall(c) \/ EndCall(c)
  <2>1. cm[c].peer \in Clients
    BY <1>4, ManagerFacts DEF CancelCall, AcceptCall, RejectCall, EndCall
  <2>2. QED
    BY <1>2, <1>4, <2>1 DEF CancelCall, AcceptCall, RejectCall, EndCall
<1>5. CASE OnCallRequestTimeout(c) \/ WebRTCCallback(c)
  <2>1. UNCHANGED <<online, net>>
    BY <1>5
       DEF OnCallRequestTimeout, WebRTCCallback, OnSessionDescriptionSuccess,
           OnSessionDescriptionFailure, OnIceCandidateGenerated, NotifyPeerConnectionEstablished,
           SetConnected, signalVars
  <2>2. QED
    BY <1>2, <2>1
<1>6. CASE SendPosted(c)
  <2>1. UNCHANGED online
    BY <1>6 DEF SendPosted
  <2>2. QED
    BY <1>2, <1>6, <2>1, PostedFacts
<1>7. CASE OnConnected(c)
  <2>1. net' = net /\ (~online'[b] => ~online[b])
    BY <1>7 DEF OnConnected, IInv, SignalInv
  <2>2. QED
    BY <1>1, <2>1, LossFrame
<1>8. CASE OnDisconnected(c) \/ Shutdown(c)
  <2>1. c \in Unstable
    BY <1>8 DEF OnDisconnected, Shutdown, Fault
  <2>2. CASE online[c]
    <3>1. LosesConnection(c)
      BY <1>8, <2>2 DEF OnDisconnected, Shutdown
    <3>2. QED
      BY <1>1, <2>1, <2>2, <3>1, LosesConnectionTells
  <2>3. CASE ~online[c]
    BY <1>2, <1>8, <2>3 DEF OnDisconnected, Shutdown
  <2>4. QED
    BY <2>2, <2>3
<1>9. QED
  BY <1>3, <1>4, <1>5, <1>6, <1>7, <1>8 DEF UserAction

(* A stable client in a connected call that has lost its peer has the news *)
(* on its way, as long as its coordinator names that peer: it never sits   *)
(* in a call that nobody is going to end.                                  *)
THEOREM PeerLossNoticed == Spec => []PeerLossIsNoticed
<1>1. Init => LossInv
  BY ClientsAssumption
     DEF Init, LossInv, StableOnline, EstablishedOpen, NewsLast, LossTold, IdleManager, Manager
<1>2. ASSUME IInv, LossInv, Next PROVE LossInv'
  <2>1. PICK c \in Clients :
          \/ \E g \in Clients \ {c} : Receive(c, g)
          \/ UserAction(c) \/ OnCallRequestTimeout(c) \/ WebRTCCallback(c) \/ SendPosted(c)
          \/ OnDisconnected(c) \/ OnConnected(c) \/ Shutdown(c)
    BY <1>2 DEF Next
  <2>2. \A a \in Clients \ Unstable : \A b \in Clients : NewsLast(a, b)' /\ LossTold(a, b)'
    BY <1>2, <2>1, ReceiveTells, OwnActionTells
  <2>3. EstablishedOpen'
    BY <1>2, <2>1, ReceiveKept, OwnActionKept, OwnStepKeeps DEF LossInv, OnlyWith
  <2>4. StableOnline'
    <3>1. UNCHANGED online \/ OnConnected(c) \/ (c \in Unstable /\ LosesConnection(c))
      <4>1. CASE \E g \in Clients \ {c} : Receive(c, g)
        BY <4>1
           DEF Receive, HandleCallRequest, HandleCallAccepted, HandleCallRejected,
               HandleCallCancel, HandleCallEnd, OnUserOffline, ProcessOffer, ProcessAnswer,
               ProcessIceCandidate
      <4>2. CASE UserAction(c) \/ SendPosted(c)
        BY <4>2
           DEF UserAction, InitiateCall, CancelCall, AcceptCall, RejectCall, EndCall, SendPosted
      <4>3. CASE OnCallRequestTimeout(c) \/ WebRTCCallback(c)
        BY <4>3
           DEF OnCallRequestTimeout, WebRTCCallback, OnSessionDescriptionSuccess,
               OnSessionDescriptionFailure, OnIceCandidateGenerated,
               NotifyPeerConnectionEstablished, SetConnected, signalVars
      <4>4. CASE OnDisconnected(c) \/ Shutdown(c)
        BY <4>4 DEF OnDisconnected, Shutdown, Fault
      <4>5. QED
        BY <2>1, <4>1, <4>2, <4>3, <4>4
    <3>2. online \in [Clients -> BOOLEAN]
      BY <1>2 DEF IInv, SignalInv
    <3>3. QED
      BY <1>2, <3>1, <3>2 DEF LossInv, StableOnline, OnConnected, LosesConnection
  <2>5. QED
    BY <2>2, <2>3, <2>4 DEF LossInv
<1>3. ASSUME LossInv, UNCHANGED vars PROVE LossInv'
  BY <1>3 DEF vars, LossInv, StableOnline, EstablishedOpen, NewsLast, LossTold, Negotiating
<1>4. LossInv => PeerLossIsNoticed
  BY DEF LossInv, EstablishedOpen, LossTold, Negotiating, Carries, PeerLossIsNoticed, OnTheWay
<1>5. QED
  BY <1>1, <1>2, <1>3, <1>4, Inductive, PTL DEF Spec
=============================================================================
