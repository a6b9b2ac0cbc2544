-------------------------- MODULE MCWireGuardAdapter --------------------------
(* Small instances of WireGuardAdapter.                                      *)
EXTENDS WireGuardAdapter, TLC

CONSTANTS c1, c2, d1, d2, m1, m2, wifi, offline, b1

MCConfig == {c1, c2}
MCDevice == {d1, d2}
MCMonitor == {m1, m2}
MCPath == {wifi, offline}
MCBumper == {b1}

Symmetry == Permutations(MCDevice) \cup Permutations(MCMonitor) \cup Permutations(MCConfig)

================================================================================
