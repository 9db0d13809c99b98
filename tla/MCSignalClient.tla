--------------------------- MODULE MCSignalClient ---------------------------
(* Model values for SignalClient.                                          *)
EXTENDS SignalClient
CONSTANTS k1, k2    \* ICE configurations

(* The schedule of the comment in AttemptReconnect: 1, 2, 4, 8, 10 s.      *)
ASSUME ScheduleAsCommented ==
  [n \in 1..5 |-> Delay(n)] = <<1000, 2000, 4000, 8000, 10000>>
=============================================================================
