--------------------------- MODULE MCKeyRenegotiation ---------------------------
(***************************************************************************)
(* Instances of KeyRenegotiation.                                          *)
(***************************************************************************)
EXTENDS KeyRenegotiation

CONSTANTS ClientRenegotiate, ServerRenegotiate, KeyExpire, ClientLimits, ServerLimits, PromptTime, LossyTime

MCRenegotiate == [p \in Side |-> IF p = "client" THEN ClientRenegotiate ELSE ServerRenegotiate]
MCExpire == [p \in Side |-> KeyExpire]
MCLimitedKeys == [p \in Side |-> IF p = "client" THEN ClientLimits ELSE ServerLimits]
MCMaxTime == [m \in {"prompt", "lossy"} |-> IF m = "prompt" THEN PromptTime ELSE LossyTime]
=============================================================================
