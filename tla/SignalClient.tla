---------------------------- MODULE SignalClient ----------------------------
(***************************************************************************)
(* One SignalClient: the WebSocket to the signaling server, kept up by a   *)
(* timer that reconnects with growing delays until it gives up, and the    *)
(* registration that each connection begins with.                          *)
(*                                                                         *)
(* The handlers run in the Qt main thread.  QWebSocket is external: it     *)
(* opens and closes asynchronously, reports each attempt that fails as a   *)
(* disconnection, and open() abandons the attempt that is under way.  The  *)
(* server is external too: it answers a registration with an ICE           *)
(* configuration, and takes no other message from an unregistered client.  *)
(***************************************************************************)
EXTENDS Naturals, Sequences

CONSTANTS
  MaxReconnectAttempts,   \* kMaxReconnectAttempts
  IceConfigs,             \* ICE configurations the server may hand out
  NoConfig,               \* none received yet: the default STUN server
  MaxInFlight             \* bound: messages on their way to the server

ASSUME AttemptsAssumption == MaxReconnectAttempts \in Nat
ASSUME ConfigAssumption   == NoConfig \notin IceConfigs
ASSUME InFlightAssumption == MaxInFlight \in Nat

VARIABLES
  socket,               \* state of websocket_
  is_connected,
  manual_disconnect,
  reconnect_attempts,
  timer,                \* {delay} of the running reconnect_timer_, or NoTimer
  ice_servers,          \* ice_servers_, as the engine got it
  up, down,             \* messages on this connection, oldest first
  issued,               \* server: the configuration of this connection
  used,                 \* history: Connect was called
  announced             \* history: delays chosen since the attempts began

backoffVars == <<reconnect_attempts, timer, announced>>
sessionVars == <<ice_servers, up, down, issued>>
vars == <<socket, is_connected, manual_disconnect, reconnect_attempts, timer, used, announced,
          ice_servers, up, down, issued>>

ClientMessages == {"register", "list-clients", "call"}

SocketStates == {"closed", "connecting", "open", "closing"}
NoTimer == {}

Init ==
  /\ socket = "closed"
  /\ is_connected = FALSE
  /\ manual_disconnect = FALSE
  /\ reconnect_attempts = 0
  /\ timer = NoTimer
  /\ used = FALSE
  /\ announced = <<>>
  /\ ice_servers = NoConfig
  /\ up = <<>> /\ down = <<>>
  /\ issued = NoConfig

-----------------------------------------------------------------------------
(* The delay before attempt n, in milliseconds.                            *)
Delay(n) == LET doubled == 1000 * 2^(n - 1)
            IN  IF doubled < 10000 THEN doubled ELSE 10000

(* Faulty: does not count the attempts.                                    *)
AttemptReconnect_Uncounted ==
  timer' = {Delay(1)} /\ UNCHANGED <<reconnect_attempts, announced>>

AttemptReconnect ==
  IF reconnect_attempts >= MaxReconnectAttempts
  THEN UNCHANGED backoffVars
  ELSE /\ reconnect_attempts' = reconnect_attempts + 1
       /\ timer' = {Delay(reconnect_attempts')}
       /\ announced' = Append(announced, Delay(reconnect_attempts'))

(* Faulty: forgets the attempts but not the timer.                         *)
ClearReconnectTimer_StillRunning ==
  reconnect_attempts' = 0 /\ announced' = <<>> /\ UNCHANGED timer

ClearReconnectTimer ==
  reconnect_attempts' = 0 /\ announced' = <<>> /\ timer' = NoTimer

(* The messages of a connection are lost with it.                          *)
SessionLost == up' = <<>> /\ down' = <<>> /\ issued' = NoConfig /\ UNCHANGED ice_servers

(* Nothing happens if connected; otherwise a new connection is opened,     *)
(* instead of one that may be opening or closing.                          *)
Open == IF is_connected THEN UNCHANGED <<socket, manual_disconnect, sessionVars>>
        ELSE socket' = "connecting" /\ manual_disconnect' = FALSE /\ SessionLost

(* SendMessage drops the message unless connected.                         *)
SendMessage(m) == up' = IF is_connected THEN Append(up, m) ELSE up

-----------------------------------------------------------------------------
Connect ==
  /\ Open
  /\ used' = TRUE
  /\ UNCHANGED <<is_connected, backoffVars>>

(* A connection that is still opening is not given up.                     *)
Disconnect ==
  /\ manual_disconnect' = TRUE
  /\ ClearReconnectTimer
  /\ socket' = IF socket = "open" THEN "closing" ELSE socket
  /\ is_connected' = FALSE
  /\ UNCHANGED <<used, sessionVars>>

(* Faulty: continues with the attempts of the last outage.                 *)
OnWebSocketConnected_AttemptsKept ==
  /\ socket = "connecting"
  /\ socket' = "open"
  /\ is_connected' = TRUE
  /\ announced' = <<>>
  /\ up' = <<"register">>
  /\ UNCHANGED <<manual_disconnect, reconnect_attempts, timer, used, ice_servers, down, issued>>

(* A timer that was started before is left running.                        *)
OnWebSocketConnected ==
  /\ socket = "connecting"
  /\ socket' = "open"
  /\ is_connected' = TRUE
  /\ reconnect_attempts' = 0
  /\ announced' = <<>>
  /\ up' = <<"register">>
  /\ UNCHANGED <<manual_disconnect, timer, used, ice_servers, down, issued>>

(* The connection was lost or closed, or could not be opened.              *)
OnWebSocketDisconnected ==
  /\ socket # "closed"
  /\ socket' = "closed"
  /\ is_connected' = FALSE
  /\ IF manual_disconnect THEN UNCHANGED backoffVars
                          ELSE AttemptReconnect
  /\ SessionLost
  /\ UNCHANGED <<manual_disconnect, used>>

OnReconnectTimer ==
  /\ timer # NoTimer
  /\ timer' = NoTimer
  /\ Open
  /\ UNCHANGED <<is_connected, reconnect_attempts, used, announced>>

-----------------------------------------------------------------------------
(* The answer to the registration, which may come after Disconnect.        *)
HandleRegistered ==
  /\ down # <<>> /\ socket \in {"open", "closing"}
  /\ ice_servers' = Head(down)
  /\ down' = Tail(down)
  /\ SendMessage("list-clients")
  /\ UNCHANGED <<socket, is_connected, manual_disconnect, backoffVars, used, issued>>

(* Any of the messages of a call.                                          *)
SendCall ==
  /\ Len(up) < MaxInFlight
  /\ SendMessage("call")
  /\ UNCHANGED <<socket, is_connected, manual_disconnect, backoffVars, used,
                 ice_servers, down, issued>>

(* External: the server takes the oldest message.                          *)
ServerReceives ==
  /\ socket = "open" /\ up # <<>>
  /\ up' = Tail(up)
  /\ IF Head(up) = "register"
     THEN \E config \in IceConfigs : issued' = config /\ down' = Append(down, config)
     ELSE UNCHANGED <<issued, down>>
  /\ UNCHANGED <<socket, is_connected, manual_disconnect, backoffVars, used, ice_servers>>

Next == \/ Connect \/ Disconnect
        \/ OnWebSocketConnected \/ OnWebSocketDisconnected
        \/ OnReconnectTimer
        \/ HandleRegistered \/ SendCall \/ ServerReceives

Spec == Init /\ [][Next]_vars

(* A timer fires, and an attempt to open or close a connection ends in one *)
(* way or another; the server need not be reachable, and an open           *)
(* connection need not be lost.                                            *)
Fairness == /\ WF_vars(OnReconnectTimer)
            /\ WF_vars(socket # "open" /\ (OnWebSocketConnected \/ OnWebSocketDisconnected))

FairSpec == Spec /\ Fairness

-----------------------------------------------------------------------------
(* Properties.                                                             *)

Delays == {Delay(n) : n \in 1..MaxReconnectAttempts}
Timers == {{d} : d \in Delays} \cup {NoTimer}

(* Every variable has its type: a delay is one of the schedule, the        *)
(* attempts never exceed their maximum.                                    *)
TypeOK ==
  /\ socket \in SocketStates
  /\ is_connected \in BOOLEAN /\ manual_disconnect \in BOOLEAN /\ used \in BOOLEAN
  /\ reconnect_attempts \in 0..MaxReconnectAttempts
  /\ timer \in Timers
  /\ announced \in Seq(Delays)
  /\ ice_servers \in IceConfigs \cup {NoConfig} /\ issued \in IceConfigs \cup {NoConfig}
  /\ up \in Seq(ClientMessages) /\ down \in Seq(IceConfigs)

(* is_connected_ tells what the socket can do: no message is handed to a   *)
(* socket that is not open, and none is dropped while it is.               *)
FlagFollowsSocket == is_connected <=> (socket = "open")

(* A client that was told to connect and not to disconnect is connected,   *)
(* about to be, waiting for its next attempt, or out of attempts.          *)
NeverStranded ==
  used /\ ~manual_disconnect /\ socket = "closed" =>
    timer # NoTimer \/ reconnect_attempts = MaxReconnectAttempts

GivenUp == /\ used /\ ~manual_disconnect
           /\ socket = "closed" /\ timer = NoTimer

(* Each outage starts the delays anew, and no delay is skipped, repeated   *)
(* or left out before the client gives up.                                 *)
BackoffSchedule ==
  /\ announced = [n \in 1..reconnect_attempts |-> Delay(n)]
  /\ GivenUp => Len(announced) = MaxReconnectAttempts

(* The server never gets a message from a client it does not know, on any  *)
(* of the connections, and a connection that has become quiet is           *)
(* registered and uses the ICE configuration issued for it, not an older.  *)
SessionEstablished ==
  /\ up # <<>> /\ issued = NoConfig => Head(up) = "register"
  /\ is_connected /\ up = <<>> /\ down = <<>> =>
       issued # NoConfig /\ ice_servers = issued

(* After Disconnect nothing but Connect begins an attempt: no timer starts  *)
(* or fires, whatever the socket reports later.  An attempt that was under  *)
(* way then may still open, once, and it is not renewed.                    *)
DisconnectIsFinal ==
  [][manual_disconnect =>
       \/ Connect
       \/ /\ manual_disconnect' /\ timer' = NoTimer
          /\ socket' = "connecting" => socket = "connecting"
          /\ socket' = "open" => socket \in {"connecting", "open"}]_vars

(* An outage ends: in a connection, in Disconnect or in giving up.         *)
OutageEnds ==
  (used /\ socket # "open" /\ ~manual_disconnect)
    ~> (socket = "open" \/ manual_disconnect \/ GivenUp)

(* The state of the connection at any moment: the flag is right, the       *)
(* client is never stranded, goes through the schedule, and each           *)
(* connection is registered with its own configuration.                    *)
ConnectionIsSound ==
  /\ TypeOK
  /\ FlagFollowsSocket
  /\ NeverStranded
  /\ BackoffSchedule
  /\ SessionEstablished
=============================================================================
