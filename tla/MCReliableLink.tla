----------------------------- MODULE MCReliableLink -----------------------------
(* Small instances of ReliableLink: the reset and then distinct messages    *)
(* for the SSL object.  What the windows do does not depend on contents, so *)
(* distinct ones tell every stream apart that can be told apart.            *)
EXTENDS ReliableLink

CONSTANTS reset, hello, key, data

MCPayload == {reset, hello, key, data}
MCRaw == {reset}
MCStream == <<reset, hello, key, data>>
================================================================================
