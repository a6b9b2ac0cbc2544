----------------------------- MODULE ReliableChannel -----------------------------
(***************************************************************************)
(* What the reliability layer of the OpenVPN control channel promises in   *)
(* one direction (protostack.hpp: general-purpose protocols over SSL,      *)
(* "where the underlying transport layer is unreliable, such as UDP"): the *)
(* messages are handed up in the order in which they were sent, none left  *)
(* out and none twice.                                                     *)
(***************************************************************************)
EXTENDS Integers, Sequences

CONSTANT Payload  \* contents of a message

VARIABLES
    sent,       \* the messages of the sending side
    delivered   \* the messages the receiving side has handed up

Init == sent = <<>> /\ delivered = <<>>

Send ==
    /\ \E x \in Payload : sent' = Append(sent, x)
    /\ UNCHANGED delivered

(* One packet may close a gap and hand up what waited behind it.           *)
Deliver ==
    /\ \E n \in Len(delivered)+1..Len(sent) : delivered' = SubSeq(sent, 1, n)
    /\ UNCHANGED sent

Spec == Init /\ [][Send \/ Deliver]_<<sent, delivered>>
================================================================================
