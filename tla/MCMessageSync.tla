---------------------------- MODULE MCMessageSync ----------------------------
EXTENDS MessageSync
CONSTANTS friend, group

(* The messages come in turn from either conversation.                     *)
InTurn == [m \in Messages |-> IF m % 2 = 1 THEN friend ELSE group]
AllTexts == Messages
AllButOne == Messages \ {2}
==============================================================================
