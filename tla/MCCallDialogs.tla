---------------------------- MODULE MCCallDialogs ----------------------------
(* The windows of calls and the pictures in them for model checking:       *)
(* independent parts of one run.                                           *)
EXTENDS CallDialogs, CallVideo

CONSTANTS p, q      \* two other users

VARIABLE part
allVars == <<vars, videoVars, part>>

WindowsInit == part \in {"dialogs", "video"} /\ Init /\ VideoInit

WindowsNext ==
  \/ part = "dialogs" /\ Next /\ UNCHANGED <<videoVars, part>>
  \/ part = "video" /\ VideoNext /\ UNCHANGED <<vars, part>>

WindowsSpec ==
  WindowsInit /\ [][WindowsNext]_allVars /\ WF_vars(TimesOut) /\ VideoFairness
=============================================================================
