------------------------------- MODULE Standalone -------------------------------
(***************************************************************************)
(* The components that share no state with another: of the app, the        *)
(* tunnel's log, the server for profiles and the speed test; of OpenVPN,   *)
(* the packet ids.  Every interleaving of their steps looks to each like   *)
(* its own steps alone; a behaviour here has one of them, chosen at the    *)
(* start.                                                                  *)
(***************************************************************************)
EXTENDS TunnelLog, ProfileServer, SpeedTest, PacketId

VARIABLE component

vars == <<component, logVars, serverVars, testVars, packetVars>>

Init ==
    /\ component \in {"log", "server", "test", "packets"}
    /\ LogInit /\ ServerInit /\ TestInit /\ PacketInit

Next ==
    /\ \/ component = "log" /\ LogNext /\ UNCHANGED <<serverVars, testVars, packetVars>>
       \/ component = "server" /\ ServerNext /\ UNCHANGED <<logVars, testVars, packetVars>>
       \/ component = "test" /\ TestNext /\ UNCHANGED <<logVars, serverVars, packetVars>>
       \/ component = "packets" /\ PacketNext /\ UNCHANGED <<logVars, serverVars, testVars>>
    /\ UNCHANGED component

Spec == Init /\ [][Next]_vars /\ TestFairness
================================================================================
