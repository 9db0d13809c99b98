------------------------- MODULE SignalClientProofs -------------------------
(***************************************************************************)
(* Proofs about SignalClient for any number of attempts and any ICE        *)
(* configurations.  The inductive invariant adds to the checked invariants *)
(* what the messages under way are in each phase of a connection.          *)
(***************************************************************************)
EXTENDS SignalClient, SequenceTheorems, TLAPS

BackoffInv ==
  /\ socket \in SocketStates
  /\ is_connected \in BOOLEAN /\ manual_disconnect \in BOOLEAN /\ used \in BOOLEAN
  /\ reconnect_attempts \in 0..MaxReconnectAttempts
  /\ timer \in Timers
  /\ announced \in Seq(Delays)
  /\ FlagFollowsSocket
  /\ announced = [n \in 1..reconnect_attempts |-> Delay(n)]
  /\ socket # "closed" \/ timer # NoTimer => used
  /\ manual_disconnect => timer = NoTimer
  /\ NeverStranded

(* The registration is on its way.                                         *)
Registering ==
  /\ issued = NoConfig /\ down = <<>>
  /\ up # <<>> /\ Head(up) = "register"
  /\ \A i \in 2..Len(up) : up[i] # "register"

(* The server knows the client.                                            *)
Registered ==
  /\ issued \in IceConfigs
  /\ \A i \in 1..Len(up) : up[i] # "register"
  /\ down = <<issued>> \/ (down = <<>> /\ ice_servers = issued)

SessionInv ==
  /\ ice_servers \in IceConfigs \cup {NoConfig}
  /\ up \in Seq(ClientMessages) /\ down \in Seq(IceConfigs)
  /\ \/ socket \in {"closed", "connecting"} /\ up = <<>> /\ down = <<>> /\ issued = NoConfig
     \/ socket \in {"open", "closing"} /\ (Registering \/ Registered)

IInv == BackoffInv /\ SessionInv

-----------------------------------------------------------------------------
(* Counting an attempt keeps the schedule.                                 *)
LEMMA AttemptPreserves ==
  ASSUME BackoffInv, AttemptReconnect
  PROVE  /\ reconnect_attempts' \in 0..MaxReconnectAttempts
         /\ timer' \in Timers
         /\ announced' \in Seq(Delays)
         /\ announced' = [n \in 1..reconnect_attempts' |-> Delay(n)]
         /\ timer' # NoTimer \/ reconnect_attempts' = MaxReconnectAttempts
<1>1. CASE reconnect_attempts >= MaxReconnectAttempts
  BY <1>1, AttemptsAssumption DEF AttemptReconnect, BackoffInv, backoffVars
<1>2. CASE ~(reconnect_attempts >= MaxReconnectAttempts)
  <2> DEFINE n == reconnect_attempts + 1
  <2>1. n \in 1..MaxReconnectAttempts
    BY <1>2, AttemptsAssumption DEF BackoffInv
  <2>2. reconnect_attempts' = n /\ timer' = {Delay(n)} /\ announced' = Append(announced, Delay(n))
    BY <1>2 DEF AttemptReconnect
  <2>3. Delay(n) \in Delays
    BY <2>1 DEF Delays
  <2>4. announced' \in Seq(Delays)
    BY <2>2, <2>3, AppendProperties DEF BackoffInv
  <2>5. announced' = [k \in 1..n |-> Delay(k)]
    BY <2>1, <2>2 DEF BackoffInv
  <2>6. QED
    BY <2>1, <2>2, <2>3, <2>4, <2>5 DEF Timers, NoTimer
<1>3. QED
  BY <1>1, <1>2

(* A message added behind the registration, or to a registered connection, *)
(* leaves the connection in its phase.                                     *)
LEMMA AddedMessage ==
  ASSUME NEW m \in ClientMessages \ {"register"}, up \in Seq(ClientMessages),
         up' = Append(up, m)
  PROVE  /\ up' \in Seq(ClientMessages) /\ up' # <<>>
         /\ up # <<>> => Head(up') = Head(up)
         /\ (\A i \in 1..Len(up) : up[i] # "register")
              => \A i \in 1..Len(up') : up'[i] # "register"
         /\ (\A i \in 2..Len(up) : up[i] # "register")
              => (up # <<>> => \A i \in 2..Len(up') : up'[i] # "register")
<1>1. /\ up' \in Seq(ClientMessages) /\ Len(up') = Len(up) + 1
      /\ \A i \in 1..Len(up) : up'[i] = up[i]
      /\ up'[Len(up) + 1] = m
  BY AppendProperties
<1>2. up # <<>> => Head(up') = Head(up)
  BY <1>1
<1>3. QED
  BY <1>1, <1>2

-----------------------------------------------------------------------------
(* An inactive timer.                                                      *)
LEMMA NoTimerType == NoTimer \in Timers
  BY DEF Timers

(* The socket, the flag and the backoff.                                   *)
LEMMA BackoffPreserved == BackoffInv /\ [Next]_vars => BackoffInv'
<1> SUFFICES ASSUME BackoffInv, [Next]_vars
             PROVE  BackoffInv'
  OBVIOUS
<1> USE DEF SocketStates
<1>1. ASSUME Connect PROVE BackoffInv'
  BY <1>1 DEF Connect, Open, BackoffInv, backoffVars, FlagFollowsSocket, NeverStranded
<1>2. ASSUME Disconnect PROVE BackoffInv'
  <2>1. /\ reconnect_attempts' = 0 /\ announced' = <<>> /\ timer' = NoTimer
        /\ manual_disconnect' = TRUE /\ is_connected' = FALSE /\ used' = used
        /\ socket' = IF socket = "open" THEN "closing" ELSE socket
    BY <1>2 DEF Disconnect, ClearReconnectTimer
  <2>2. announced' \in Seq(Delays) /\ announced' = [n \in 1..reconnect_attempts' |-> Delay(n)]
    BY <2>1
  <2>3. FlagFollowsSocket' /\ NeverStranded'
    BY <2>1 DEF FlagFollowsSocket, NeverStranded
  <2>4. /\ socket' \in SocketStates /\ used' \in BOOLEAN
        /\ reconnect_attempts' \in 0..MaxReconnectAttempts
        /\ socket' # "closed" => used'
    BY <2>1, AttemptsAssumption DEF BackoffInv
  <2>5. QED
    BY <2>1, <2>2, <2>3, <2>4, NoTimerType DEF BackoffInv
<1>3. ASSUME OnWebSocketConnected PROVE BackoffInv'
  <2>1. /\ socket' = "open" /\ is_connected' = TRUE
        /\ reconnect_attempts' = 0 /\ announced' = <<>>
        /\ UNCHANGED <<timer, manual_disconnect, used>> /\ socket # "closed"
    BY <1>3 DEF OnWebSocketConnected
  <2>2. announced' \in Seq(Delays) /\ announced' = [n \in 1..reconnect_attempts' |-> Delay(n)]
    BY <2>1
  <2>3. FlagFollowsSocket' /\ NeverStranded'
    BY <2>1 DEF FlagFollowsSocket, NeverStranded
  <2>4. QED
    BY <2>1, <2>2, <2>3, AttemptsAssumption DEF BackoffInv
<1>4. ASSUME OnWebSocketDisconnected PROVE BackoffInv'
  <2>1. /\ socket' = "closed" /\ is_connected' = FALSE
        /\ UNCHANGED <<manual_disconnect, used>>
    BY <1>4 DEF OnWebSocketDisconnected
  <2>2. FlagFollowsSocket' /\ used' = TRUE
    BY <1>4, <2>1 DEF BackoffInv, FlagFollowsSocket, OnWebSocketDisconnected
  <2>3. ASSUME manual_disconnect PROVE BackoffInv'
    <3>1. UNCHANGED backoffVars
      BY <1>4, <2>3 DEF OnWebSocketDisconnected
    <3>2. NeverStranded'
      BY <2>1, <2>3 DEF NeverStranded
    <3>3. QED
      BY <2>1, <2>2, <3>1, <3>2 DEF BackoffInv, backoffVars
  <2>4. ASSUME ~manual_disconnect PROVE BackoffInv'
    <3>1. AttemptReconnect
      BY <1>4, <2>4 DEF OnWebSocketDisconnected
    <3>2. /\ reconnect_attempts' \in 0..MaxReconnectAttempts
          /\ timer' \in Timers /\ announced' \in Seq(Delays)
          /\ announced' = [n \in 1..reconnect_attempts' |-> Delay(n)]
          /\ timer' # NoTimer \/ reconnect_attempts' = MaxReconnectAttempts
      BY <3>1, AttemptPreserves
    <3>3. NeverStranded'
      BY <3>2 DEF NeverStranded
    <3>4. manual_disconnect' = FALSE
      BY <2>1, <2>4 DEF BackoffInv
    <3>5. QED
      BY <2>1, <2>2, <3>2, <3>3, <3>4 DEF BackoffInv
  <2>5. QED
    BY <2>3, <2>4
<1>5. ASSUME OnReconnectTimer PROVE BackoffInv'
  <2>1. timer' = NoTimer /\ timer # NoTimer /\ Open
        /\ UNCHANGED <<is_connected, reconnect_attempts, used, announced>>
    BY <1>5 DEF OnReconnectTimer
  <2>2. is_connected \/ socket' = "connecting"
    BY <2>1 DEF Open
  <2>3. FlagFollowsSocket' /\ NeverStranded'
    BY <2>1, <2>2 DEF BackoffInv, FlagFollowsSocket, NeverStranded, Open
  <2>4. socket' \in SocketStates /\ manual_disconnect' \in BOOLEAN
    BY <2>1 DEF BackoffInv, Open
  <2>5. used' = TRUE
    BY <2>1 DEF BackoffInv
  <2>6. QED
    BY <2>1, <2>3, <2>4, <2>5, NoTimerType DEF BackoffInv
<1>6. ASSUME UNCHANGED <<socket, is_connected, manual_disconnect, backoffVars, used>>
      PROVE  BackoffInv'
  BY <1>6 DEF BackoffInv, backoffVars, FlagFollowsSocket, NeverStranded
<1>7. HandleRegistered \/ SendCall \/ ServerReceives
        => UNCHANGED <<socket, is_connected, manual_disconnect, backoffVars, used>>
  BY DEF HandleRegistered, SendCall, ServerReceives
<1>8. UNCHANGED vars => UNCHANGED <<socket, is_connected, manual_disconnect, backoffVars, used>>
  BY DEF vars, backoffVars
<1>9. QED
  BY <1>1, <1>2, <1>3, <1>4, <1>5, <1>6, <1>7, <1>8 DEF Next

-----------------------------------------------------------------------------
(* The messages of a connection.                                           *)

LEMMA SessionPreserved == IInv /\ [Next]_vars => SessionInv'
<1> SUFFICES ASSUME IInv, [Next]_vars
             PROVE  SessionInv'
  OBVIOUS
<1> DEFINE Quiet  == up = <<>> /\ down = <<>> /\ issued = NoConfig
           Types  == /\ ice_servers \in IceConfigs \cup {NoConfig}
                     /\ up \in Seq(ClientMessages) /\ down \in Seq(IceConfigs)
           Begun  == Registering \/ Registered
<1>1. /\ Types /\ socket \in SocketStates /\ is_connected \in BOOLEAN
      /\ is_connected <=> socket = "open"
      /\ socket \in {"closed", "connecting"} => Quiet
      /\ socket \in {"open", "closing"} => Begun
  BY DEF IInv, BackoffInv, SessionInv, FlagFollowsSocket
<1>2. ASSUME SessionLost, socket' \in {"closed", "connecting"} PROVE SessionInv'
  <2>1. Types' /\ Quiet'
    BY <1>1, <1>2 DEF SessionLost
  <2>2. QED
    BY <1>2, <2>1 DEF SessionInv
<1>3. ASSUME UNCHANGED <<ice_servers, up, down, issued>>,
             socket' = socket \/ (socket = "open" /\ socket' = "closing")
      PROVE  SessionInv'
  BY <1>3 DEF IInv, SessionInv, Registering, Registered
<1>4. ASSUME Open PROVE SessionInv'
  BY <1>2, <1>3, <1>4 DEF Open, sessionVars
<1>5. ASSUME OnWebSocketConnected PROVE SessionInv'
  <2>1. up' = <<"register">> /\ socket' = "open" /\ UNCHANGED <<ice_servers, down, issued>> /\ Quiet
    BY <1>1, <1>5 DEF OnWebSocketConnected
  <2>2. up' \in Seq(ClientMessages) /\ up' # <<>> /\ Len(up') = 1 /\ Head(up') = "register"
    BY <2>1 DEF ClientMessages
  <2>3. Registering' /\ Types'
    BY <1>1, <2>1, <2>2 DEF Registering
  <2>4. QED
    BY <2>1, <2>3 DEF SessionInv
<1>6. ASSUME NEW m \in ClientMessages \ {"register"}, SendMessage(m),
             UNCHANGED <<socket, issued>>,
             UNCHANGED <<ice_servers, down>>
      PROVE  SessionInv'
  <2>1. ASSUME ~is_connected PROVE SessionInv'
    BY <1>3, <1>6, <2>1 DEF SendMessage
  <2>2. ASSUME is_connected PROVE SessionInv'
    <3>1. up' = Append(up, m) /\ up \in Seq(ClientMessages)
      BY <1>1, <1>6, <2>2 DEF SendMessage
    <3>2. /\ up' \in Seq(ClientMessages) /\ up' # <<>>
          /\ up # <<>> => Head(up') = Head(up)
          /\ (\A i \in 1..Len(up) : up[i] # "register")
               => \A i \in 1..Len(up') : up'[i] # "register"
          /\ (\A i \in 2..Len(up) : up[i] # "register")
               => (up # <<>> => \A i \in 2..Len(up') : up'[i] # "register")
      BY <3>1, AddedMessage
    <3>3. Registering => Registering'
      BY <1>6, <3>2 DEF Registering
    <3>4. Registered => Registered'
      BY <1>6, <3>2 DEF Registered
    <3>5. Begun' /\ Types' /\ socket' = "open"
      BY <1>1, <1>6, <2>2, <3>2, <3>3, <3>4
    <3>6. QED
      BY <3>5 DEF SessionInv
  <2>3. QED
    BY <2>1, <2>2
<1>7. ASSUME HandleRegistered PROVE SessionInv'
  <2>1. /\ down # <<>> /\ socket \in {"open", "closing"}
        /\ ice_servers' = Head(down) /\ down' = Tail(down)
        /\ SendMessage("list-clients") /\ UNCHANGED <<socket, issued>>
    BY <1>7 DEF HandleRegistered
  <2>2. Registered /\ down = <<issued>>
    BY <1>1, <2>1 DEF Registering, Registered
  <2>3. ice_servers' = issued' /\ issued' \in IceConfigs /\ down' = <<>>
    BY <2>1, <2>2 DEF Registered
  <2>4. /\ up' \in Seq(ClientMessages)
        /\ \A i \in 1..Len(up') : up'[i] # "register"
    <3>1. ASSUME ~is_connected PROVE up' = up
      BY <2>1, <3>1 DEF SendMessage
    <3>2. ASSUME is_connected
          PROVE  up' \in Seq(ClientMessages) /\ \A i \in 1..Len(up') : up'[i] # "register"
      <4>1. up' = Append(up, "list-clients") /\ "list-clients" \in ClientMessages \ {"register"}
        BY <2>1, <3>2 DEF SendMessage, ClientMessages
      <4>2. \A i \in 1..Len(up) : up[i] # "register"
        BY <2>2 DEF Registered
      <4>3. QED
        BY <1>1, <4>1, <4>2, AddedMessage
    <3>3. QED
      BY <1>1, <2>2, <3>1, <3>2 DEF Registered
  <2>5. Registered' /\ Types'
    BY <2>3, <2>4 DEF Registered
  <2>6. QED
    BY <2>1, <2>5 DEF SessionInv
<1>8. ASSUME ServerReceives PROVE SessionInv'
  <2>1. /\ socket = "open" /\ socket' = "open" /\ up # <<>> /\ up' = Tail(up)
        /\ ice_servers' = ice_servers
    BY <1>8 DEF ServerReceives
  <2>2. /\ up' \in Seq(ClientMessages) /\ Len(up') = Len(up) - 1
        /\ \A i \in 1..Len(up') : up'[i] = up[i + 1]
        /\ Len(up) \in Nat /\ Head(up) = up[1] /\ Len(up) >= 1
    BY <1>1, <2>1, HeadTailProperties
  <2>3. CASE Head(up) = "register"
    <3>1. Registering
      BY <1>1, <2>1, <2>2, <2>3 DEF Registered
    <3>2. PICK config \in IceConfigs : issued' = config /\ down' = Append(down, config)
      BY <1>8, <2>3 DEF ServerReceives
    <3>3. down' = <<issued'>> /\ issued' \in IceConfigs
      BY <3>1, <3>2 DEF Registering
    <3>4. \A i \in 1..Len(up') : up'[i] # "register"
      BY <2>2, <3>1 DEF Registering
    <3>5. Registered' /\ Types'
      BY <1>1, <2>1, <2>2, <3>3, <3>4 DEF Registered
    <3>6. QED
      BY <2>1, <3>5 DEF SessionInv
  <2>4. CASE Head(up) # "register"
    <3>1. Registered
      BY <1>1, <2>1, <2>4 DEF Registering
    <3>2. UNCHANGED <<issued, down>>
      BY <1>8, <2>4 DEF ServerReceives
    <3>3. Registered' /\ Types'
      BY <1>1, <2>1, <2>2, <3>1, <3>2 DEF Registered
    <3>4. QED
      BY <2>1, <3>3 DEF SessionInv
  <2>5. QED
    BY <2>3, <2>4
<1>9. ASSUME Connect PROVE SessionInv'
  BY <1>4, <1>9 DEF Connect
<1>10. ASSUME OnReconnectTimer PROVE SessionInv'
  BY <1>4, <1>10 DEF OnReconnectTimer
<1>11. ASSUME Disconnect PROVE SessionInv'
  BY <1>3, <1>11 DEF Disconnect, sessionVars
<1>12. ASSUME OnWebSocketDisconnected PROVE SessionInv'
  BY <1>2, <1>12 DEF OnWebSocketDisconnected
<1>13. ASSUME SendCall PROVE SessionInv'
  <2>1. "call" \in ClientMessages \ {"register"}
    BY DEF ClientMessages
  <2>2. SendMessage("call") /\ UNCHANGED <<socket, issued>> /\ UNCHANGED <<ice_servers, down>>
    BY <1>13 DEF SendCall
  <2>3. QED
    BY <1>6, <2>1, <2>2
<1>14. ASSUME UNCHANGED vars PROVE SessionInv'
  BY <1>3, <1>14 DEF vars
<1>15. QED
  BY <1>5, <1>7, <1>8, <1>9, <1>10, <1>11, <1>12, <1>13, <1>14 DEF Next

-----------------------------------------------------------------------------
(* The invariant is inductive, for any number of attempts and messages.    *)
THEOREM Inductive == Spec => []IInv
<1>1. Init => IInv
  <2> SUFFICES ASSUME Init PROVE IInv
    OBVIOUS
  <2>1. BackoffInv
    <3>1. announced \in Seq(Delays) /\ announced = [n \in 1..reconnect_attempts |-> Delay(n)]
      BY DEF Init
    <3>2. FlagFollowsSocket /\ NeverStranded
      BY DEF Init, FlagFollowsSocket, NeverStranded
    <3>3. reconnect_attempts \in 0..MaxReconnectAttempts
      BY AttemptsAssumption DEF Init
    <3>4. QED
      BY <3>1, <3>2, <3>3, NoTimerType DEF Init, BackoffInv, SocketStates
  <2>2. SessionInv
    BY DEF Init, SessionInv
  <2>3. QED
    BY <2>1, <2>2 DEF IInv
<1>2. IInv /\ [Next]_vars => IInv'
  BY BackoffPreserved, SessionPreserved DEF IInv
<1>3. QED
  BY <1>1, <1>2, PTL DEF Spec

(* Every variable has its type: the delay of the timer is always one of    *)
(* the schedule's, and the attempts never exceed kMaxReconnectAttempts.    *)
THEOREM TypeCorrect == Spec => []TypeOK
<1>1. IInv => TypeOK
  <2> SUFFICES ASSUME IInv PROVE TypeOK
    OBVIOUS
  <2>1. issued \in IceConfigs \cup {NoConfig}
    BY DEF IInv, SessionInv, Registering, Registered
  <2>2. QED
    BY <2>1 DEF IInv, BackoffInv, SessionInv, TypeOK
<1>2. QED
  BY <1>1, Inductive, PTL

(* is_connected_ and the state of the WebSocket agree.                     *)
THEOREM FlagIsRight == Spec => []FlagFollowsSocket
<1>1. IInv => FlagFollowsSocket
  BY DEF IInv, BackoffInv
<1>2. QED
  BY <1>1, Inductive, PTL

(* A client that wants a connection has one, tries, waits or gave up.      *)
THEOREM NotStranded == Spec => []NeverStranded
<1>1. IInv => NeverStranded
  BY DEF IInv, BackoffInv
<1>2. QED
  BY <1>1, Inductive, PTL

(* Every outage goes through the whole schedule, in order, before the      *)
(* client gives up.                                                        *)
THEOREM ScheduleIsKept == Spec => []BackoffSchedule
<1>1. IInv => BackoffSchedule
  <2> SUFFICES ASSUME IInv PROVE BackoffSchedule
    OBVIOUS
  <2>1. Len(announced) = reconnect_attempts
    BY AttemptsAssumption DEF IInv, BackoffInv
  <2>2. QED
    BY <2>1 DEF IInv, BackoffInv, NeverStranded, GivenUp, BackoffSchedule
<1>2. QED
  BY <1>1, Inductive, PTL

(* A client speaks to the server only after it registered, and a connected *)
(* client with nothing under way uses the ICE configuration it was issued. *)
THEOREM SessionsAreEstablished == Spec => []SessionEstablished
<1>1. IInv => SessionEstablished
  <2> SUFFICES ASSUME IInv PROVE SessionEstablished
    OBVIOUS
  <2>1. up # <<>> /\ issued = NoConfig => Head(up) = "register"
    BY ConfigAssumption DEF IInv, SessionInv, Registering, Registered
  <2>2. is_connected /\ up = <<>> /\ down = <<>> => issued # NoConfig /\ ice_servers = issued
    BY ConfigAssumption DEF IInv, BackoffInv, FlagFollowsSocket, SessionInv, Registering, Registered
  <2>3. QED
    BY <2>1, <2>2 DEF SessionEstablished
<1>2. QED
  BY <1>1, Inductive, PTL

(* After Disconnect, whenever it comes, only Connect begins an attempt and *)
(* no timer runs (SignalClient::Disconnect, OnReconnectTimer).             *)
THEOREM DisconnectStays == Spec => DisconnectIsFinal
<1> DEFINE Final == \/ Connect
                    \/ /\ manual_disconnect' /\ timer' = NoTimer
                       /\ socket' = "connecting" => socket = "connecting"
                       /\ socket' = "open" => socket \in {"connecting", "open"}
<1>1. ASSUME IInv, [Next]_vars, manual_disconnect, vars' # vars PROVE Final
  <2>1. timer = NoTimer
    BY <1>1 DEF IInv, BackoffInv
  <2>2. CASE Disconnect
    BY <1>1, <2>2 DEF Disconnect, ClearReconnectTimer
  <2>3. CASE OnWebSocketConnected \/ OnWebSocketDisconnected
    BY <1>1, <2>1, <2>3 DEF OnWebSocketConnected, OnWebSocketDisconnected, backoffVars
  <2>4. CASE HandleRegistered \/ SendCall \/ ServerReceives
    BY <1>1, <2>1, <2>4 DEF HandleRegistered, SendCall, ServerReceives, backoffVars
  <2>5. QED
    BY <1>1, <2>1, <2>2, <2>3, <2>4 DEF Next, OnReconnectTimer
<1>2. IInv /\ [Next]_vars => [manual_disconnect => Final]_vars
  BY <1>1
<1>3. QED
  BY <1>2, Inductive, PTL DEF Spec, DisconnectIsFinal

(* At any moment the connection is up, being made, waited for or given up  *)
(* after the whole schedule, and registered with its own configuration.    *)
THEOREM ConnectionStaysSound == Spec => []ConnectionIsSound
<1>1. TypeOK /\ FlagFollowsSocket /\ NeverStranded /\ BackoffSchedule /\ SessionEstablished => ConnectionIsSound
  BY DEF ConnectionIsSound
<1>2. QED
  BY <1>1, TypeCorrect, FlagIsRight, NotStranded, ScheduleIsKept, SessionsAreEstablished, PTL
=============================================================================
