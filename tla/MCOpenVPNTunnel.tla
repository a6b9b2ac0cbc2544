---------------------------- MODULE MCOpenVPNTunnel ----------------------------
(* Small instances of OpenVPNTunnel.                                       *)
EXTENDS OpenVPNTunnel

MCNoFaults == {}
MCEarlyRestart == {"early restart"}

(* The first start reconnects once; the second does not have to.            *)
MCGenerations == <<2, 1>>
MCOneGeneration == <<1>>
================================================================================
