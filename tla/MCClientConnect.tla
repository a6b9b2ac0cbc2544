---------------------------- MODULE MCClientConnect ----------------------------
(* Small instances of ClientConnect.                                         *)
EXTENDS ClientConnect

CONSTANTS h1, h2, a1, a2, b1

MCHost == {h1, h2}
MCAddress == {a1, a2, b1}
MCOneHost == <<h1, h1>>
MCTwoHosts == <<h1, h2>>
MCAnswers == [h \in MCHost |-> IF h = h1 THEN {<<a1, a2>>} ELSE {<<b1>>}]
MCShuffled == [h \in MCHost |-> IF h = h1 THEN {<<a1, a2>>, <<a2, a1>>} ELSE {<<b1>>}]
MCCaches == BOOLEAN
MCCommands == {"stop", "pause", "resume", "reconnect"}

================================================================================
