---------------------------- MODULE MCCallSystem ----------------------------
(* Model values for CallSystem.                                            *)
EXTENDS CallSystem
CONSTANTS a, b, c   \* clients
=============================================================================
