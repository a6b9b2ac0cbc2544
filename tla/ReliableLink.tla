------------------------------ MODULE ReliableLink ------------------------------
(***************************************************************************)
(* The reliability layer of the OpenVPN control channel, one direction of  *)
(* it: ReliableSend of one peer, ReliableRecv and ReliableAck of the       *)
(* other, each a MessageWindow (msgwin.hpp, relsend.hpp, relrecv.hpp,      *)
(* relack.hpp), driven as protostack.hpp and KeyContext::decapsulate of    *)
(* proto.hpp do.  A peer runs on one thread; the network between the two   *)
(* loses, duplicates and reorders packets.                                 *)
(*                                                                         *)
(* Time is abstracted: which packets are due for retransmission is a       *)
(* choice.  An ACK is carried alone or with a control packet of the other  *)
(* direction; either way it is a list of ids that may be lost.  With a     *)
(* wrapped channel (tls-auth, tls-crypt) a packet also has a packet id,    *)
(* the same in all its retransmissions; the receiver's replay check        *)
(* (PacketIDReceive; see PacketId) refuses one that it has accepted.       *)
(***************************************************************************)
EXTENDS Integers, Sequences

CONSTANTS
    Payload,     \* contents of a control message
    Raw,         \* those that are not SSL ciphertext: the reset, sent first
    Stream,      \* the messages the sending side has to send, in their order
    Undefined,   \* a slot of a window without a packet
    Erased,      \* a slot whose packet was acknowledged
    Span,        \* reliable_window: 4
    MaxAckList,  \* max_ack_list: 4
    Modes,       \* the modes the channel may be in: see mode
    MaxAcks      \* bound: acknowledgements that wait to be sent

ASSUME SpanAssumption == Span \in Nat \ {0}
ASSUME MaxAckListAssumption == MaxAckList \in Nat \ {0}
ASSUME SlotAssumption == Undefined \notin Payload /\ Erased \notin Payload /\ Undefined # Erased
ASSUME StreamAssumption == Stream \in Seq(Payload) /\ Raw \subseteq Payload
ASSUME ModesAssumption == Modes \subseteq {"plain", "wrapped", "outage"}
ASSUME MaxAcksAssumption == MaxAcks \in Nat \ {0}

VARIABLES
    mode,        \* "wrapped" is tls-auth or tls-crypt: packets have packet ids;
                 \* "outage" is wrapped, with silences of more than 30 s
    next,        \* ReliableSend::next, the id of the next message; the id of
                 \* Stream[i] is i - 1
    sendHead,    \* head_id_ of the sender's window
    sendQ,       \* q_ of the sender's window
    net,         \* control packets in flight
    recvHead,    \* head_id_ of the receiver's window
    recvQ,       \* q_ of the receiver's window
    sslStarted,  \* of the receiver
    seen,        \* packet ids, by message id, the receiver's replay check knows
    acks,        \* xmit_acks of the receiver
    ackNet,      \* acknowledgements in flight: sets of ids
    delivered    \* history: the messages handed up

sendVars == <<next, sendHead, sendQ>>
recvVars == <<recvHead, recvQ, sslStarted, seen, acks, delivered>>
vars == <<mode, sendVars, net, recvVars, ackNet>>

Id == 0..Len(Stream)-1
Packet == [id : Id, payload : Payload]

TypeOK ==
    /\ mode \in Modes
    /\ next \in 0..Len(Stream)
    /\ sendHead \in 0..next
    /\ sendQ \in Seq(Payload \cup {Undefined, Erased})
    /\ Len(sendQ) <= Span
    /\ net \subseteq Packet
    /\ recvHead \in 0..next
    /\ recvQ \in Seq(Payload \cup {Undefined})
    /\ Len(recvQ) <= Span
    /\ sslStarted \in BOOLEAN
    /\ seen \subseteq Id
    /\ acks \in Seq(Id)
    /\ ackNet \subseteq SUBSET Id
    /\ delivered \in Seq(Payload)

Init ==
    /\ mode \in Modes
    /\ next = 0
    /\ sendHead = 0
    /\ sendQ = <<>>
    /\ net = {}
    /\ recvHead = 0
    /\ recvQ = <<>>
    /\ sslStarted = FALSE
    /\ seen = {}
    /\ acks = <<>>
    /\ ackNet = {}
    /\ delivered = <<>>

-----------------------------------------------------------------------------
(* MessageWindow: a head id and a queue, whose first slot is the head's.   *)

InWindow(head, id) == id >= head /\ id < head + Span

Grown(q, n) ==
    [i \in 1..(IF n > Len(q) THEN n ELSE Len(q)) |-> IF i <= Len(q) THEN q[i] ELSE Undefined]

Stored(head, q, id, x) == [Grown(q, id - head + 1) EXCEPT ![id - head + 1] = x]

Dropped(q, k) == SubSeq(q, k + 1, Len(q))

(* Acknowledged ids have been sent, so each has its slot.                  *)
ErasedIn(head, q, ids) ==
    [i \in 1..Len(q) |-> IF head + i - 1 \in ids THEN Erased ELSE q[i]]

(* How many slots the while loop of purge, or of up_sequenced, takes off.  *)
Leading(q, S, k) ==
    /\ \A i \in 1..k : q[i] \in S
    /\ k < Len(q) => q[k + 1] \notin S

-----------------------------------------------------------------------------
(* The sending peer.                                                       *)

(* One round of the loops of down_stack_raw and down_stack_app, and the    *)
(* update_retransmit of flush, which refers to every slot of the window.   *)
(* SSL is started by post_ack_action, when the reset is acknowledged.      *)
Send ==
    /\ next < Len(Stream)
    /\ Stream[next + 1] \in Raw \/ sendHead > 0
    /\ InWindow(sendHead, next)
    /\ sendQ' = Grown(Stored(sendHead, sendQ, next, Stream[next + 1]), Span)
    /\ next' = next + 1
    /\ net' = net \cup {[id |-> next, payload |-> Stream[next + 1]]}
    /\ UNCHANGED <<mode, sendHead, recvVars, ackNet>>

Unacked == {i \in 1..Len(sendQ) : sendQ[i] \in Payload}

Retransmit(due) ==
    /\ due # {}
    /\ due \subseteq Unacked
    /\ net' = net \cup {[id |-> sendHead + i - 1, payload |-> sendQ[i]] : i \in due}
    /\ sendQ' = Grown(sendQ, Span)
    /\ UNCHANGED <<mode, next, sendHead, recvVars, ackNet>>

(* ReliableAck::ack on each id of the list: rm_by_id, which ends in purge. *)
ReceiveAcks(ids) ==
    LET q == ErasedIn(sendHead, sendQ, ids) IN
    /\ ids \in ackNet
    /\ \E k \in 0..Len(q) :
          /\ Leading(q, {Erased}, k)
          /\ sendHead' = sendHead + k
          /\ sendQ' = Dropped(q, k)
    /\ ackNet' \in {ackNet, ackNet \ {ids}}
    /\ UNCHANGED <<mode, next, net, recvVars>>

-----------------------------------------------------------------------------
(* The receiving peer.                                                     *)

(* mutant: without the break before the handshake                         *)
MutUpSequenced(q, started) ==
    \E k \in 0..Len(q) :
        /\ Leading(q, Payload, k)
        /\ recvHead' = recvHead + k
        /\ recvQ' = Dropped(q, k)
        /\ delivered' = delivered \o
              SelectSeq(SubSeq(q, 1, k), LAMBDA slot : started \/ slot \in Raw)

(* up_sequenced on the window (head, q): it stops at a gap and, before the *)
(* handshake, at a packet for the SSL object.                              *)
UpSequenced(q, started) ==
    \E k \in 0..Len(q) :
        /\ Leading(q, IF started THEN Payload ELSE Raw, k)
        /\ recvHead' = recvHead + k
        /\ recvQ' = Dropped(q, k)
        /\ delivered' = delivered \o SubSeq(q, 1, k)

Acks(id) == Len(acks) < MaxAcks /\ acks' = Append(acks, id)

(* decapsulate and rel_recv.receive of a packet the replay check passes.   *)
Accept(p) ==
    /\ InWindow(recvHead, p.id)
    /\ Acks(p.id)
    /\ seen' = IF mode = "plain" THEN seen ELSE seen \cup {p.id}
    /\ UpSequenced(Stored(recvHead, recvQ, p.id, p.payload), sslStarted)

(* Before the window: received earlier, and the sender may not know.       *)
AcceptOld(p) ==
    /\ p.id < recvHead
    /\ Acks(p.id)
    /\ UNCHANGED <<recvHead, recvQ, seen, delivered>>

(* mutant: a packet that the window does not take is acknowledged          *)
MutAckIgnored(p) ==
    /\ p.id >= recvHead + Span
    /\ Acks(p.id)
    /\ UNCHANGED <<recvHead, recvQ, seen, delivered>>

Ignore(p) ==
    /\ p.id >= recvHead + Span
    /\ UNCHANGED <<recvHead, recvQ, seen, acks, delivered>>

(* mutant: a replayed packet is dropped                                    *)
MutDropReplay(p) == UNCHANGED <<recvHead, recvQ, seen, acks, delivered>>

(* "even replayed packets must be ACKed or protocol could deadlock"        *)
AckReplay(p) ==
    /\ Acks(p.id)
    /\ UNCHANGED <<recvHead, recvQ, seen, delivered>>

(* PKTID_EXPIRE: after 30 s without a packet, one older than the newest     *)
(* packet that was accepted is refused, received or not.                   *)
Refused(p) == p.id \in seen \/ (mode = "outage" /\ \E id \in seen : id > p.id)

Receive(p) ==
    /\ p \in net
    /\ \/ p.id \notin seen /\ (Accept(p) \/ AcceptOld(p) \/ Ignore(p))
       \/ Refused(p) /\ AckReplay(p)
    /\ net' \in {net, net \ {p}}
    /\ UNCHANGED <<mode, sendVars, sslStarted, ackNet>>

(* post_ack_action starts the handshake when the reset of the peer is      *)
(* there and its own is acknowledged (a link of the other direction);      *)
(* packets for the SSL object may have been waiting.                       *)
StartHandshake ==
    /\ ~sslStarted
    /\ recvHead > 0
    /\ sslStarted' = TRUE
    /\ UpSequenced(recvQ, TRUE)
    /\ UNCHANGED <<mode, sendVars, net, seen, acks, ackNet>>

(* ReliableAck::prepend of one packet.                                     *)
SendAcks ==
    LET n == IF Len(acks) < MaxAckList THEN Len(acks) ELSE MaxAckList IN
    /\ acks # <<>>
    /\ ackNet' = ackNet \cup {{acks[i] : i \in 1..n}}
    /\ acks' = SubSeq(acks, n + 1, Len(acks))
    /\ UNCHANGED <<mode, sendVars, net, recvHead, recvQ, sslStarted, seen, delivered>>

-----------------------------------------------------------------------------
(* The network loses packets.                                              *)

Lose ==
    /\ \/ \E p \in net : net' = net \ {p} /\ UNCHANGED ackNet
       \/ \E a \in ackNet : ackNet' = ackNet \ {a} /\ UNCHANGED net
    /\ UNCHANGED <<mode, sendVars, recvVars>>

Next ==
    \/ Send
    \/ \E due \in SUBSET Unacked : Retransmit(due)
    \/ \E ids \in ackNet : ReceiveAcks(ids)
    \/ \E p \in net : Receive(p)
    \/ StartHandshake
    \/ SendAcks
    \/ Lose

Spec == Init /\ [][Next]_vars

(* The peers' timers and threads go on, the handshake starts, and a packet *)
(* that is sent again and again arrives in the end.                        *)
Fairness ==
    /\ WF_vars(StartHandshake)
    /\ WF_vars(SendAcks)
    /\ \A id \in Id :
          /\ WF_vars(\E due \in SUBSET Unacked :
                        id - sendHead + 1 \in due /\ Retransmit(due))
          /\ SF_vars(\E p \in net : p.id = id /\ Receive(p) /\ (net' = net \ {p}))
          /\ SF_vars(\E ids \in ackNet : id \in ids /\ ReceiveAcks(ids))

FairSpec == Spec /\ Fairness

-----------------------------------------------------------------------------
(* The link is the reliable channel (up_sequenced, receive, rm_by_id).     *)
Channel == INSTANCE ReliableChannel WITH sent <- SubSeq(Stream, 1, next)
InOrder == Channel!Spec

Received(id) ==
    id < recvHead \/ (id - recvHead + 1 \in 1..Len(recvQ) /\ recvQ[id - recvHead + 1] \in Payload)

(* The sender keeps a message until the receiver has it: a packet that the *)
(* receiver dropped must not be acknowledged, whatever the windows and the *)
(* replay check did with it (receive, decapsulate_post_process, ack).      *)
(* Not so after more than 30 s of silence, when the replay check refuses,  *)
(* and the refusal acknowledges, packets that never came.                  *)
NothingForgotten ==
    mode # "outage" => \A id \in 0..next-1 :
        \/ Received(id)
        \/ id >= sendHead /\ sendQ[id - sendHead + 1] = Stream[id + 1]

(* What was sent is acknowledged in the end, also a message whose packets  *)
(* and whose acknowledgements were lost: what was received is acknowledged *)
(* again (receive's pre_window, the replay branch), so the sender's window *)
(* empties, and opens for the rest of the stream.  Not so after a silence  *)
(* that made the sender forget a message: the receiver waits for it, and   *)
(* ignores, unacknowledged, what lies beyond its window.                   *)
Acknowledged == mode # "outage" => []<>(sendHead = next)
================================================================================
