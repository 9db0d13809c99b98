------------------------------- MODULE MCAccount -------------------------------
(* Session, Registration and Notifications for model checking: independent *)
(* parts of one run.  The choice of the part is made at the start; the     *)
(* others stay at their initial states.                                    *)
EXTENDS Session, Registration, Notifications
MCAccounts == 1..2
MCDrafts   == 1..2

VARIABLE part
allVars == <<vars, registrationVars, noticeVars, part>>

AccountInit ==
  /\ part \in {"session", "registration", "notices"}
  /\ Init /\ RegistrationInit /\ NotificationsInit

AccountNext ==
  \/ part = "session" /\ Next /\ UNCHANGED <<registrationVars, noticeVars, part>>
  \/ part = "registration" /\ RegistrationNext /\ UNCHANGED <<vars, noticeVars, part>>
  \/ part = "notices" /\ NotificationsNext /\ UNCHANGED <<vars, registrationVars, part>>

AccountSpec == AccountInit /\ [][AccountNext]_allVars /\ Fairness /\ NotificationsFairness
===============================================================================
