---------------------------- MODULE CallLifecycle ----------------------------
(***************************************************************************)
(* What a NetherLink client promises its user about calls, with the        *)
(* signaling, the negotiation and the timers left out.  A client takes     *)
(* part in at most one call; a call has one party from its first ring to   *)
(* its end, goes through its phases in one direction only, and the camera  *)
(* can be on only between joining and the end of the call.                 *)
(*                                                                         *)
(* CallSystem implements this specification (CallSystem!Lifecycle).        *)
(***************************************************************************)
CONSTANTS Clients,      \* the users' clients
          NoPeer        \* "nobody", not a client

VARIABLES phase,        \* phase[c]: where client c is in its call
          party,        \* party[c]: who c's call is with
          camera        \* camera[c]: is c's camera capturing?

vars == <<phase, party, camera>>

Phases == {"Idle", "Calling", "Receiving", "Connecting", "Connected"}

Init == /\ phase  = [c \in Clients |-> "Idle"]
        /\ party  = [c \in Clients |-> NoPeer]
        /\ camera = [c \in Clients |-> FALSE]

(* A free client starts to call somebody, or starts to ring.               *)
Begin(c) ==
  /\ phase[c] = "Idle"
  /\ \E next \in {"Calling", "Receiving"}, p \in Clients \ {c} :
       /\ phase' = [phase EXCEPT ![c] = next]
       /\ party' = [party EXCEPT ![c] = p]
  /\ UNCHANGED camera

(* The call was answered: the camera may be switched on now, not before.   *)
Join(c) ==
  /\ phase[c] \in {"Calling", "Receiving"}
  /\ phase' = [phase EXCEPT ![c] = "Connecting"]
  /\ \E on \in BOOLEAN : camera' = [camera EXCEPT ![c] = on]
  /\ UNCHANGED party

(* Media flows.                                                            *)
Establish(c) ==
  /\ phase[c] = "Connecting"
  /\ phase' = [phase EXCEPT ![c] = "Connected"]
  /\ UNCHANGED <<party, camera>>

(* The call ends, in whatever phase it is; the camera is released.         *)
Finish(c) ==
  /\ phase[c] # "Idle"
  /\ phase'  = [phase EXCEPT ![c] = "Idle"]
  /\ party'  = [party EXCEPT ![c] = NoPeer]
  /\ camera' = [camera EXCEPT ![c] = FALSE]

Next == \E c \in Clients : Begin(c) \/ Join(c) \/ Establish(c) \/ Finish(c)

Spec == Init /\ [][Next]_vars
=============================================================================
