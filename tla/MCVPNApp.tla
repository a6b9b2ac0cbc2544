-------------------------------- MODULE MCVPNApp --------------------------------
(* Small instances of VPNApp.                                              *)
EXTENDS VPNApp, TLC

CONSTANTS p1, p2, m1, m2, t1, t2

MCProfile == {p1, p2}
MCOneProfile == {p1}
MCManager == {m1, m2}
MCOneManager == {m1}
MCTask == {t1, t2}
MCOneTask == {t1}

MCAllFaults == {"hasty taps", "preferences", "slow stop", "relaunch"}
MCSlow == {"slow stop"}

(* What the properties of a run with this view read, and what that depends *)
(* on: no guard and no other assignment reads the history variables, the   *)
(* address shown or the requests for it.                                   *)
Essential == <<storeVars, taskVars, managerVars, connectionState, connectedDate, bytes,
               statsTask, logPollingTask, notices, saved, session>>

Symmetry == Permutations(MCProfile) \cup Permutations(MCManager) \cup Permutations(MCTask)
================================================================================
