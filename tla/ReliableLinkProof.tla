---------------------------- MODULE ReliableLinkProof ----------------------------
(***************************************************************************)
(* Proofs about ReliableLink for every stream, window, length of the ACK   *)
(* list and bound on what waits.  The inductive invariant says what every  *)
(* slot, packet and acknowledgement stands for in the stream.              *)
(***************************************************************************)
EXTENDS ReliableLink, SequenceTheorems, TLAPS

Slot == Payload \cup {Undefined, Erased}
RecvSlot == Payload \cup {Undefined}

(* Of the sender's window: below next a slot holds the message of its id,  *)
(* or it is acknowledged; every id below next that is not acknowledged has *)
(* a slot.                                                                 *)
SenderInv ==
    /\ next <= sendHead + Len(sendQ)
    /\ \A i \in 1..Len(sendQ) :
          IF sendHead + i <= next
          THEN sendQ[i] \in {Stream[sendHead + i], Erased}
          ELSE sendQ[i] = Undefined

(* A packet in flight is a message that was sent.                          *)
PacketInv == \A p \in net : p.id < next /\ p.payload = Stream[p.id + 1]

(* Of the receiver's window: the same, and everything before the head has  *)
(* been handed up.                                                         *)
ReceiverInv ==
    /\ \A i \in 1..Len(recvQ) :
          recvQ[i] \in Payload => recvHead + i <= next /\ recvQ[i] = Stream[recvHead + i]
    /\ Len(delivered) = recvHead
    /\ \A i \in 1..recvHead : delivered[i] = Stream[i]

(* Ids that the receiver or an acknowledgement names.                      *)
Named(id) ==
    \/ id \in seen
    \/ \E i \in 1..Len(acks) : acks[i] = id
    \/ \E ids \in ackNet : id \in ids

NamedInv == \A id \in Id : Named(id) => id < next

LinkInv == TypeOK /\ SenderInv /\ PacketInv /\ ReceiverInv /\ NamedInv

(* Without an outage, what is named or forgotten has been received.        *)
ReceivedInv ==
    mode # "outage" =>
        /\ \A id \in Id : Named(id) => Received(id)
        /\ \A id \in 0..sendHead-1 : Received(id)
        /\ \A i \in 1..Len(sendQ) : sendQ[i] = Erased => Received(sendHead + i - 1)

--------------------------------------------------------------------------------
(* What the operations of a window do to its slots (msgwin.hpp).           *)

(* grow keeps the slots and adds undefined ones up to the one asked for.   *)
LEMMA GrownSlots ==
    ASSUME NEW S, Undefined \in S, NEW q \in Seq(S), NEW n \in Nat
    PROVE  /\ Grown(q, n) \in Seq(S)
           /\ Len(Grown(q, n)) = IF n > Len(q) THEN n ELSE Len(q)
           /\ \A i \in 1..Len(Grown(q, n)) :
                 Grown(q, n)[i] = IF i <= Len(q) THEN q[i] ELSE Undefined
<1> DEFINE m == IF n > Len(q) THEN n ELSE Len(q)
           f == [i \in 1..m |-> IF i <= Len(q) THEN q[i] ELSE Undefined]
<1>1. m \in Nat
  BY LenProperties
<1>2. \A i \in 1..m : (IF i <= Len(q) THEN q[i] ELSE Undefined) \in S
  BY ElementOfSeq
<1>3. f \in [1..m -> S]
  BY <1>2
<1>4. f \in Seq(S) /\ Len(f) = m
  BY <1>1, <1>3
<1>5. Grown(q, n) = f
  BY DEF Grown
<1> HIDE DEF m, f
<1>6. \A i \in 1..m : f[i] = IF i <= Len(q) THEN q[i] ELSE Undefined
  BY DEF f
<1> QED BY <1>4, <1>5, <1>6 DEF m

(* ref_by_id grows the window up to the id and the caller fills its slot.  *)
LEMMA StoredSlots ==
    ASSUME NEW S, Undefined \in S, NEW q \in Seq(S), NEW x \in S,
           NEW head \in Nat, NEW id \in Nat, id >= head
    PROVE  /\ Stored(head, q, id, x) \in Seq(S)
           /\ Len(Stored(head, q, id, x)) =
                 IF id - head + 1 > Len(q) THEN id - head + 1 ELSE Len(q)
           /\ \A i \in 1..Len(Stored(head, q, id, x)) :
                 Stored(head, q, id, x)[i] =
                    IF head + i - 1 = id THEN x
                    ELSE IF i <= Len(q) THEN q[i] ELSE Undefined
<1> DEFINE n == id - head + 1
           g == Grown(q, n)
<1>1. n \in Nat /\ n >= 1
  OBVIOUS
<1>2. /\ g \in Seq(S)
      /\ Len(g) = IF n > Len(q) THEN n ELSE Len(q)
      /\ \A i \in 1..Len(g) : g[i] = IF i <= Len(q) THEN q[i] ELSE Undefined
  BY <1>1, GrownSlots
<1>3. n \in 1..Len(g)
  BY <1>1, <1>2, LenProperties
<1>4. Stored(head, q, id, x) = [g EXCEPT ![n] = x]
  BY DEF Stored
<1>5. \A i \in 1..Len(g) : i = n <=> head + i - 1 = id
  BY <1>2, LenProperties
<1> HIDE DEF n, g
<1>6. /\ [g EXCEPT ![n] = x] \in Seq(S)
      /\ Len([g EXCEPT ![n] = x]) = Len(g)
      /\ \A j \in 1..Len(g) : [g EXCEPT ![n] = x][j] = IF j = n THEN x ELSE g[j]
  BY <1>2, <1>3, ExceptSeq
<1> QED BY <1>2, <1>4, <1>5, <1>6 DEF n

(* rm_head_nocheck and purge take slots off the front.                     *)
LEMMA DroppedSlots ==
    ASSUME NEW S, NEW q \in Seq(S), NEW k \in 0..Len(q)
    PROVE  /\ Dropped(q, k) \in Seq(S)
           /\ Len(Dropped(q, k)) = Len(q) - k
           /\ \A i \in 1..Len(q) - k : Dropped(q, k)[i] = q[k + i]
<1>1. Len(q) \in Nat /\ k \in Nat
  BY LenProperties
<1>2. \A i \in k+1..Len(q) : q[i] \in S
  BY <1>1, ElementOfSeq
<1>3. /\ SubSeq(q, k + 1, Len(q)) \in Seq(S)
      /\ Len(SubSeq(q, k + 1, Len(q))) = IF k + 1 <= Len(q) THEN Len(q) - (k + 1) + 1 ELSE 0
      /\ \A i \in 1..Len(q) - (k + 1) + 1 : SubSeq(q, k + 1, Len(q))[i] = q[k + 1 + i - 1]
  BY <1>1, <1>2, SubSeqProperties
<1> QED BY <1>1, <1>3 DEF Dropped

--------------------------------------------------------------------------------
(* What the receiver holds of the stream, for a window (recvHead, q).      *)

Holds(q, id) ==
    id < recvHead \/ (id - recvHead + 1 \in 1..Len(q) /\ q[id - recvHead + 1] \in Payload)

(* up_sequenced hands up a prefix of what the window holds, in order, and  *)
(* loses nothing of the rest.                                              *)
LEMMA UpSequencedKeeps ==
    ASSUME TypeOK, ReceiverInv, NEW q \in Seq(Payload \cup {Undefined}), Len(q) <= Span,
           \A i \in 1..Len(q) :
              q[i] \in Payload => recvHead + i <= next /\ q[i] = Stream[recvHead + i],
           NEW started \in BOOLEAN, UpSequenced(q, started), UNCHANGED next
    PROVE  /\ recvHead' \in recvHead..next
           /\ recvQ' \in Seq(Payload \cup {Undefined})
           /\ Len(recvQ') <= Span
           /\ delivered' \in Seq(Payload)
           /\ ReceiverInv'
           /\ \A id \in Nat : Holds(q, id) => Received(id)'
<1> DEFINE S == Payload \cup {Undefined}
           Front == IF started THEN Payload ELSE Raw
<1>1. PICK k \in 0..Len(q) :
         /\ Leading(q, Front, k)
         /\ recvHead' = recvHead + k
         /\ recvQ' = Dropped(q, k)
         /\ delivered' = delivered \o SubSeq(q, 1, k)
  BY DEF UpSequenced
<1>2. Len(q) \in Nat /\ k \in Nat /\ recvHead \in Nat /\ next \in Nat /\ recvHead <= next
      /\ Span \in Nat
  BY LenProperties, SpanAssumption, StreamAssumption DEF TypeOK
<1>3. \A i \in 1..k : q[i] \in Payload
  BY <1>1, StreamAssumption DEF Leading
<1>4. /\ recvQ' \in Seq(S)
      /\ Len(recvQ') = Len(q) - k
      /\ \A i \in 1..Len(q) - k : recvQ'[i] = q[k + i]
  BY <1>1, DroppedSlots
<1>5. recvHead + k <= next
  BY <1>2, <1>3
<1>6. /\ SubSeq(q, 1, k) \in Seq(Payload)
      /\ Len(SubSeq(q, 1, k)) = k
      /\ \A i \in 1..k : SubSeq(q, 1, k)[i] = q[i]
  <2>1. /\ SubSeq(q, 1, k) \in Seq(Payload)
        /\ Len(SubSeq(q, 1, k)) = IF 1 <= k THEN k - 1 + 1 ELSE 0
        /\ \A i \in 1..k - 1 + 1 : SubSeq(q, 1, k)[i] = q[1 + i - 1]
    BY <1>2, <1>3, SubSeqProperties
  <2> QED BY <1>2, <2>1
<1>7. delivered \in Seq(Payload) /\ Len(delivered) = recvHead
  BY DEF TypeOK, ReceiverInv
<1>8. /\ delivered' \in Seq(Payload)
      /\ Len(delivered') = recvHead + k
      /\ \A i \in 1..recvHead + k :
            delivered'[i] = IF i <= recvHead THEN delivered[i] ELSE q[i - recvHead]
  <2> DEFINE more == SubSeq(q, 1, k)
  <2>0. delivered \in Seq(Payload) /\ more \in Seq(Payload)
    BY <1>6, <1>7
  <2> HIDE DEF more
  <2>1. /\ delivered \o more \in Seq(Payload)
        /\ Len(delivered \o more) = Len(delivered) + Len(more)
        /\ \A i \in 1..Len(delivered) + Len(more) :
              (delivered \o more)[i] =
                 IF i <= Len(delivered) THEN delivered[i] ELSE more[i - Len(delivered)]
    BY <2>0, ConcatProperties
  <2> USE DEF more
  <2> QED BY <1>1, <1>2, <1>6, <1>7, <2>1
<1>9. ReceiverInv'
  <2>1. ASSUME NEW i \in 1..Len(recvQ'), recvQ'[i] \in Payload
        PROVE  recvHead' + i <= next /\ recvQ'[i] = Stream[recvHead' + i]
    <3>1. k + i \in 1..Len(q) /\ recvQ'[i] = q[k + i]
      BY <1>2, <1>4, <2>1
    <3>2. recvHead + (k + i) <= next /\ q[k + i] = Stream[recvHead + (k + i)]
      BY <2>1, <3>1
    <3>3. recvHead + (k + i) = recvHead' + i
      BY <1>1, <1>2, <3>1
    <3> QED BY <3>1, <3>2, <3>3
  <2>2. ASSUME NEW i \in 1..recvHead'
        PROVE  delivered'[i] = Stream[i]
    <3>1. CASE i <= recvHead
      BY <1>1, <1>2, <1>8, <3>1 DEF ReceiverInv
    <3>2. CASE i > recvHead
      <4>1. i - recvHead \in 1..k /\ i - recvHead \in 1..Len(q)
        BY <1>1, <1>2, <3>2
      <4>2. q[i - recvHead] = Stream[recvHead + (i - recvHead)]
        BY <1>3, <4>1
      <4>3. recvHead + (i - recvHead) = i
        BY <1>2
      <4>4. delivered'[i] = q[i - recvHead]
        BY <1>1, <1>2, <1>8, <3>2
      <4> QED BY <4>2, <4>3, <4>4
    <3> QED BY <1>2, <3>1, <3>2
  <2>3. Len(delivered') = recvHead'
    BY <1>1, <1>8
  <2> QED BY <2>1, <2>2, <2>3 DEF ReceiverInv
<1>10. ASSUME NEW id \in Nat, Holds(q, id)
       PROVE  Received(id)'
  <2>1. CASE id < recvHead + k
    BY <1>1, <2>1 DEF Received
  <2>2. CASE id >= recvHead + k
    <3>1. id - recvHead + 1 \in 1..Len(q) /\ q[id - recvHead + 1] \in Payload
      BY <1>2, <1>10, <2>2 DEF Holds
    <3>2. id - recvHead' + 1 \in 1..Len(q) - k /\ k + (id - recvHead' + 1) = id - recvHead + 1
      BY <1>1, <1>2, <2>2, <3>1
    <3> QED BY <1>4, <3>1, <3>2 DEF Received
  <2> QED BY <1>2, <2>1, <2>2
<1> QED BY <1>1, <1>2, <1>4, <1>5, <1>8, <1>9, <1>10

--------------------------------------------------------------------------------
(* The steps, one by one.                                                  *)

IInv == LinkInv /\ ReceivedInv

(* Facts about the constants and the ranges, for arithmetic.               *)
LEMMA Ranges ==
    ASSUME TypeOK
    PROVE  /\ Span \in Nat /\ Span >= 1 /\ Len(Stream) \in Nat
           /\ next \in Nat /\ next <= Len(Stream)
           /\ sendHead \in Nat /\ sendHead <= next /\ recvHead \in Nat /\ recvHead <= next
           /\ Len(sendQ) \in Nat /\ Len(recvQ) \in Nat
           /\ sendQ \in Seq(Slot)
           /\ \A i \in 1..Len(Stream) : Stream[i] \in Payload
BY SpanAssumption, StreamAssumption, LenProperties, ElementOfSeq DEF TypeOK, Slot

LEMMA InitInv == Init => IInv
<1> SUFFICES ASSUME Init PROVE IInv
  OBVIOUS
<1>1. /\ Len(sendQ) = 0 /\ Len(recvQ) = 0 /\ Len(acks) = 0 /\ Len(delivered) = 0
      /\ sendQ \in Seq(Slot) /\ recvQ \in Seq(Payload \cup {Undefined})
      /\ acks \in Seq(Id) /\ delivered \in Seq(Payload)
  BY EmptySeq DEF Init
<1>2. TypeOK
  <2>1. Len(Stream) \in Nat /\ Span \in Nat
    BY SpanAssumption, StreamAssumption, LenProperties
  <2>2. sendQ \in Seq(Payload \cup {Undefined, Erased})
    BY <1>1 DEF Slot
  <2>3. next \in 0..Len(Stream) /\ sendHead \in 0..next /\ recvHead \in 0..next
    BY <2>1 DEF Init
  <2>4. sslStarted \in BOOLEAN /\ mode \in Modes
    BY DEF Init
  <2>5. net \subseteq Packet /\ seen \subseteq Id /\ ackNet \subseteq SUBSET Id
    BY DEF Init
  <2>6. Len(sendQ) <= Span /\ Len(recvQ) <= Span
    BY <1>1, <2>1
  <2> QED BY <1>1, <2>2, <2>3, <2>4, <2>5, <2>6 DEF TypeOK
<1> QED BY <1>1, <1>2
  DEF Init, IInv, LinkInv, ReceivedInv, SenderInv, PacketInv, ReceiverInv, NamedInv, Named

(* A step of the sender that acknowledges nothing leaves this as it is.    *)
LEMMA ReceivedFrame ==
    ASSUME ReceivedInv,
           UNCHANGED <<mode, sendHead, recvHead, recvQ, seen, acks, ackNet>>,
           \A i \in 1..Len(sendQ') :
              sendQ'[i] = Erased => i \in 1..Len(sendQ) /\ sendQ[i] = Erased
    PROVE  ReceivedInv'
<1> SUFFICES ASSUME mode # "outage"
             PROVE  /\ \A id \in Id : Named(id)' => Received(id)'
                    /\ \A id \in 0..sendHead-1 : Received(id)'
                    /\ \A i \in 1..Len(sendQ') :
                          sendQ'[i] = Erased => Received(sendHead + i - 1)'
  BY DEF ReceivedInv, Named, Received
<1>1. \A id : (Named(id)' <=> Named(id)) /\ (Received(id)' <=> Received(id))
  BY DEF Named, Received
<1>2. /\ \A id \in Id : Named(id) => Received(id)
      /\ \A id \in 0..sendHead-1 : Received(id)
      /\ \A i \in 1..Len(sendQ) : sendQ[i] = Erased => Received(sendHead + i - 1)
  BY DEF ReceivedInv
<1> QED BY <1>1, <1>2

(* A new message takes the slot after those in use.                        *)
LEMMA SendKeeps == IInv /\ Send => IInv'
<1> SUFFICES ASSUME IInv, Send PROVE IInv'
  OBVIOUS
<1> DEFINE x == Stream[next + 1]
           q == Stored(sendHead, sendQ, next, x)
<1>1. TypeOK /\ SenderInv /\ PacketInv /\ ReceiverInv /\ NamedInv /\ ReceivedInv
  BY DEF IInv, LinkInv
<1>2. /\ next < Len(Stream) /\ next < sendHead + Span
      /\ sendQ' = Grown(q, Span) /\ next' = next + 1
      /\ net' = net \cup {[id |-> next, payload |-> x]}
      /\ UNCHANGED <<mode, sendHead, recvHead, recvQ, sslStarted, seen, acks, delivered, ackNet>>
  BY DEF Send, InWindow, recvVars
<1>3. x \in Payload
  BY <1>1, <1>2, Ranges
<1>4. /\ q \in Seq(Slot)
      /\ Len(q) = IF next - sendHead + 1 > Len(sendQ) THEN next - sendHead + 1 ELSE Len(sendQ)
      /\ \A i \in 1..Len(q) : q[i] = IF sendHead + i - 1 = next THEN x
                                   ELSE IF i <= Len(sendQ) THEN sendQ[i] ELSE Undefined
  <2>1. /\ Undefined \in Slot /\ x \in Slot /\ sendHead \in Nat /\ next \in Nat
        /\ next >= sendHead /\ sendQ \in Seq(Slot)
    BY <1>1, <1>3, Ranges DEF Slot
  <2> HIDE DEF x
  <2> QED BY <2>1, StoredSlots
<1>5. Len(q) <= Span
  BY <1>1, <1>2, <1>4, Ranges DEF TypeOK
<1> HIDE DEF q, x
<1>6. /\ sendQ' \in Seq(Slot)
      /\ Len(sendQ') = Span
      /\ \A i \in 1..Span : sendQ'[i] = IF i <= Len(q) THEN q[i] ELSE Undefined
  <2>1. Undefined \in Slot /\ Span \in Nat /\ Len(q) \in Nat
    BY <1>1, <1>4, Ranges, LenProperties DEF Slot
  <2>2. /\ Grown(q, Span) \in Seq(Slot)
        /\ Len(Grown(q, Span)) = IF Span > Len(q) THEN Span ELSE Len(q)
        /\ \A i \in 1..Len(Grown(q, Span)) :
              Grown(q, Span)[i] = IF i <= Len(q) THEN q[i] ELSE Undefined
    BY <1>4, <2>1, GrownSlots
  <2> QED BY <1>2, <1>5, <2>1, <2>2
<1>7. \A i \in 1..Span : sendQ'[i] = IF sendHead + i - 1 = next THEN x
                                   ELSE IF i <= Len(sendQ) THEN sendQ[i] ELSE Undefined
  <2> SUFFICES ASSUME NEW i \in 1..Span
               PROVE  sendQ'[i] = IF sendHead + i - 1 = next THEN x
                                  ELSE IF i <= Len(sendQ) THEN sendQ[i] ELSE Undefined
    OBVIOUS
  <2>1. CASE i <= Len(q)
    <3>1. i \in 1..Len(q)
      BY <1>4, <2>1, LenProperties
    <3> QED BY <1>4, <1>6, <2>1, <3>1
  <2>2. CASE i > Len(q)
    <3>1. sendHead + i - 1 # next /\ ~(i <= Len(sendQ)) /\ ~(i <= Len(q))
      BY <1>1, <1>4, <2>2, Ranges
    <3> QED BY <1>6, <3>1
  <2> QED BY <1>4, <2>1, <2>2, LenProperties
<1>8. TypeOK'
  <2>1. [id |-> next, payload |-> x] \in Packet
    BY <1>1, <1>2, <1>3, Ranges DEF Packet, Id
  <2> QED BY <1>1, <1>2, <1>6, <2>1, Ranges DEF TypeOK, Slot
<1>9. SenderInv'
  <2>1. next' <= sendHead' + Len(sendQ')
    BY <1>1, <1>2, <1>6, Ranges
  <2>2. ASSUME NEW i \in 1..Len(sendQ')
        PROVE  IF sendHead' + i <= next' THEN sendQ'[i] \in {Stream[sendHead' + i], Erased}
               ELSE sendQ'[i] = Undefined
    <3>1. i \in 1..Span /\ i \in Nat /\ next' = next + 1 /\ sendHead' = sendHead
      BY <1>1, <1>2, <1>6, Ranges
    <3>2. CASE sendHead + i - 1 = next
      BY <1>1, <1>7, <3>1, <3>2, Ranges DEF x
    <3>3. CASE sendHead + i <= next
      <4>1. i \in 1..Len(sendQ) /\ sendHead + i - 1 # next
        BY <1>1, <3>1, <3>3, Ranges DEF SenderInv
      <4>2. sendQ'[i] = sendQ[i]
        BY <1>7, <3>1, <4>1
      <4>3. sendQ[i] \in {Stream[sendHead + i], Erased}
        BY <1>1, <3>3, <4>1 DEF SenderInv
      <4> QED BY <1>1, <3>1, <3>3, <4>2, <4>3, Ranges
    <3>4. CASE sendHead + i - 1 > next
      <4>1. sendHead + i - 1 # next /\ ~(sendHead + i <= next) /\ ~(sendHead' + i <= next')
        BY <1>1, <3>1, <3>4, Ranges
      <4>2. i <= Len(sendQ) => sendQ[i] = Undefined
        BY <1>1, <3>1, <4>1, Ranges DEF SenderInv
      <4> QED BY <1>7, <3>1, <4>1, <4>2
    <3> QED BY <1>1, <3>1, <3>2, <3>3, <3>4, Ranges
  <2> QED BY <2>1, <2>2 DEF SenderInv
<1>10. PacketInv'
  BY <1>1, <1>2, Ranges DEF PacketInv, TypeOK, Packet, Id, x
<1>11. ReceiverInv' /\ NamedInv'
  BY <1>1, <1>2, Ranges DEF ReceiverInv, NamedInv, Named, Id
<1>12. ReceivedInv'
  <2>1. \A i \in 1..Len(sendQ') :
           sendQ'[i] = Erased => i \in 1..Len(sendQ) /\ sendQ[i] = Erased
    BY SMTT(30), <1>1, <1>3, <1>6, <1>7, Ranges, SlotAssumption
  <2> QED BY <1>1, <1>2, <2>1, ReceivedFrame
<1> QED BY <1>8, <1>9, <1>10, <1>11, <1>12 DEF IInv, LinkInv

(* Only what is in the window is sent again.                               *)
LEMMA RetransmitKeeps == ASSUME NEW due, IInv, Retransmit(due) PROVE IInv'
<1>1. TypeOK /\ SenderInv /\ PacketInv /\ ReceiverInv /\ NamedInv /\ ReceivedInv
  BY DEF IInv, LinkInv
<1>2. /\ due \subseteq Unacked
      /\ net' = net \cup {[id |-> sendHead + i - 1, payload |-> sendQ[i]] : i \in due}
      /\ sendQ' = Grown(sendQ, Span)
      /\ UNCHANGED <<mode, next, sendHead, recvHead, recvQ, sslStarted, seen, acks, delivered, ackNet>>
  BY DEF Retransmit, recvVars
<1>3. /\ sendQ' \in Seq(Slot)
      /\ Len(sendQ') = Span
      /\ \A i \in 1..Span : sendQ'[i] = IF i <= Len(sendQ) THEN sendQ[i] ELSE Undefined
  <2>1. Undefined \in Slot /\ Span \in Nat /\ Len(sendQ) \in Nat /\ Len(sendQ) <= Span
    BY <1>1, Ranges DEF Slot, TypeOK
  <2>2. /\ Grown(sendQ, Span) \in Seq(Slot)
        /\ Len(Grown(sendQ, Span)) = IF Span > Len(sendQ) THEN Span ELSE Len(sendQ)
        /\ \A i \in 1..Len(Grown(sendQ, Span)) :
              Grown(sendQ, Span)[i] = IF i <= Len(sendQ) THEN sendQ[i] ELSE Undefined
    BY <1>1, <2>1, GrownSlots, Ranges
  <2> QED BY <1>2, <2>1, <2>2
<1>4. ASSUME NEW i \in due
      PROVE  /\ i \in 1..Len(sendQ) /\ sendHead + i <= next
             /\ sendQ[i] \in Payload /\ sendQ[i] = Stream[sendHead + i]
  BY <1>1, <1>2, <1>4, SlotAssumption DEF Unacked, SenderInv
<1>5. ASSUME NEW p \in net'
      PROVE  p \in Packet /\ p.id < next /\ p.payload = Stream[p.id + 1]
  <2>1. CASE p \in net
    BY <1>1, <2>1 DEF TypeOK, PacketInv
  <2>2. ASSUME NEW i \in due, p = [id |-> sendHead + i - 1, payload |-> sendQ[i]]
        PROVE  p \in Packet /\ p.id < next /\ p.payload = Stream[p.id + 1]
    <3>1. sendHead + i - 1 \in Id /\ sendHead + i - 1 < next /\ sendHead + i - 1 + 1 = sendHead + i
      BY <1>1, <1>4, Ranges DEF Id
    <3> QED BY <1>4, <2>2, <3>1 DEF Packet
  <2> QED BY <1>2, <2>1, <2>2
<1>6. TypeOK'
  BY <1>1, <1>2, <1>3, <1>5, Ranges DEF TypeOK, Slot
<1>7. SenderInv'
  <2>0. next \in Nat /\ sendHead \in Nat /\ Span \in Nat /\ Len(sendQ) \in Nat /\ Len(sendQ) <= Span
    BY <1>1, Ranges DEF TypeOK
  <2>1. next' <= sendHead' + Len(sendQ')
    BY <1>1, <1>2, <1>3, <2>0 DEF SenderInv
  <2>2. ASSUME NEW i \in 1..Len(sendQ')
        PROVE  IF sendHead' + i <= next' THEN sendQ'[i] \in {Stream[sendHead' + i], Erased}
               ELSE sendQ'[i] = Undefined
    <3>1. i \in Nat /\ i >= 1 /\ i \in 1..Span /\ sendQ'[i] = IF i <= Len(sendQ) THEN sendQ[i] ELSE Undefined
      BY <1>3, <2>0, <2>2
    <3>2. CASE i <= Len(sendQ)
      <4>1. i \in 1..Len(sendQ) /\ sendQ'[i] = sendQ[i]
        BY <2>0, <3>1, <3>2
      <4> QED BY <1>1, <1>2, <4>1 DEF SenderInv
    <3>3. CASE ~ (i <= Len(sendQ))
      <4>1. ~ (sendHead + i <= next)
        BY <1>1, <2>0, <3>1, <3>3 DEF SenderInv
      <4> QED BY <1>2, <3>1, <3>3, <4>1
    <3> QED BY <3>2, <3>3
  <2> QED BY <2>1, <2>2 DEF SenderInv
<1>8. PacketInv' /\ ReceiverInv' /\ NamedInv'
  BY <1>1, <1>2, <1>5 DEF PacketInv, ReceiverInv, NamedInv, Named
<1>9. ReceivedInv'
  <2>1. \A i \in 1..Len(sendQ') :
           sendQ'[i] = Erased => i \in 1..Len(sendQ) /\ sendQ[i] = Erased
    BY <1>1, <1>3, Ranges, SlotAssumption
  <2> QED BY <1>1, <1>2, <2>1, ReceivedFrame
<1> QED BY <1>6, <1>7, <1>8, <1>9 DEF IInv, LinkInv

(* What is acknowledged was received: its slot may go.                     *)
LEMMA ReceiveAcksKeeps == ASSUME NEW ids, IInv, ReceiveAcks(ids) PROVE IInv'
<1> DEFINE q == ErasedIn(sendHead, sendQ, ids)
<1>1. TypeOK /\ SenderInv /\ PacketInv /\ ReceiverInv /\ NamedInv /\ ReceivedInv
  BY DEF IInv, LinkInv
<1>2. /\ ids \in ackNet /\ ackNet' \subseteq ackNet
      /\ UNCHANGED <<mode, next, net, recvHead, recvQ, sslStarted, seen, acks, delivered>>
  BY DEF ReceiveAcks, recvVars
<1>3. PICK k \in 0..Len(q) :
         Leading(q, {Erased}, k) /\ sendHead' = sendHead + k /\ sendQ' = Dropped(q, k)
  BY DEF ReceiveAcks
<1>4. /\ q \in Seq(Slot)
      /\ Len(q) = Len(sendQ)
      /\ \A i \in 1..Len(sendQ) : q[i] = IF sendHead + i - 1 \in ids THEN Erased ELSE sendQ[i]
  <2>1. Len(sendQ) \in Nat /\ \A i \in 1..Len(sendQ) : sendQ[i] \in Slot
    BY <1>1, Ranges, ElementOfSeq
  <2>2. q \in [1..Len(sendQ) -> Slot]
    BY <2>1 DEF ErasedIn, Slot
  <2> QED BY <2>1, <2>2 DEF ErasedIn
<1> HIDE DEF q
<1>5. ids \subseteq Id /\ \A id \in ids : Named(id) /\ id < next
  BY <1>1, <1>2 DEF TypeOK, Named, NamedInv
<1>6. \A i \in 1..Len(q) :
         IF sendHead + i <= next THEN q[i] \in {Stream[sendHead + i], Erased}
         ELSE q[i] = Undefined
  <2> SUFFICES ASSUME NEW i \in 1..Len(q)
               PROVE  IF sendHead + i <= next THEN q[i] \in {Stream[sendHead + i], Erased}
                      ELSE q[i] = Undefined
    OBVIOUS
  <2>1. sendHead + i - 1 \in ids => sendHead + i <= next
    BY <1>1, <1>4, <1>5, Ranges
  <2> QED BY <1>1, <1>4, <2>1 DEF SenderInv
<1>7. /\ k \in Nat /\ k <= Len(sendQ)
      /\ sendQ' \in Seq(Slot)
      /\ Len(sendQ') = Len(sendQ) - k
      /\ \A i \in 1..Len(sendQ) - k : sendQ'[i] = q[k + i]
  <2>1. k \in 0..Len(q) /\ q \in Seq(Slot) /\ sendQ' = Dropped(q, k)
    BY <1>3, <1>4
  <2>2. /\ Dropped(q, k) \in Seq(Slot)
        /\ Len(Dropped(q, k)) = Len(q) - k
        /\ \A i \in 1..Len(q) - k : Dropped(q, k)[i] = q[k + i]
    BY <2>1, DroppedSlots
  <2> QED BY <1>1, <1>4, <2>1, <2>2, Ranges
<1>8. \A i \in 1..k : q[i] = Erased /\ sendHead + i <= next
  <2> SUFFICES ASSUME NEW i \in 1..k PROVE q[i] = Erased /\ sendHead + i <= next
    OBVIOUS
  <2>1. i \in 1..Len(q) /\ q[i] = Erased
    BY <1>1, <1>3, <1>4, <1>7, Ranges DEF Leading
  <2> QED BY <1>6, <2>1, SlotAssumption
<1>81. /\ sendHead \in Nat /\ next \in Nat /\ k \in Nat /\ Len(sendQ) \in Nat
       /\ Len(q) = Len(sendQ) /\ k <= Len(sendQ)
       /\ sendHead' = sendHead + k /\ Len(sendQ') = Len(sendQ) - k
  BY <1>1, <1>3, <1>4, <1>7, Ranges
<1>82. ASSUME NEW i \in 1..Len(sendQ')
       PROVE  /\ i \in Nat /\ k + i \in 1..Len(q) /\ sendQ'[i] = q[k + i]
              /\ sendHead + (k + i) = sendHead' + i
  <2>1. i \in 1..Len(sendQ) - k
    BY <1>81, <1>82
  <2>2. sendQ'[i] = q[k + i]
    BY <1>7, <2>1
  <2>3. i \in Nat /\ k + i \in 1..Len(q) /\ sendHead + (k + i) = sendHead' + i
    BY <1>81, <2>1
  <2> QED BY <2>2, <2>3
<1>9. sendHead + k <= next
  BY <1>1, <1>7, <1>8, Ranges
<1>10. TypeOK'
  <2>1. sendHead' \in 0..next'
    BY <1>1, <1>2, <1>3, <1>7, <1>9, Ranges
  <2>2. sendQ' \in Seq(Payload \cup {Undefined, Erased}) /\ Len(sendQ') <= Span
    BY <1>1, <1>7, Ranges DEF Slot, TypeOK
  <2> QED BY <1>1, <1>2, <2>1, <2>2 DEF TypeOK
<1>11. SenderInv'
  <2>1. next' <= sendHead' + Len(sendQ')
    BY <1>1, <1>2, <1>3, <1>7, Ranges DEF SenderInv
  <2>2. ASSUME NEW i \in 1..Len(sendQ')
        PROVE  IF sendHead' + i <= next' THEN sendQ'[i] \in {Stream[sendHead' + i], Erased}
               ELSE sendQ'[i] = Undefined
    <3>1. k + i \in 1..Len(q) /\ sendQ'[i] = q[k + i] /\ sendHead + (k + i) = sendHead' + i
      BY <1>82, <2>2
    <3> QED BY <1>2, <1>6, <3>1
  <2> QED BY <2>1, <2>2 DEF SenderInv
<1>12. PacketInv' /\ ReceiverInv' /\ NamedInv'
  BY <1>1, <1>2 DEF PacketInv, ReceiverInv, NamedInv, Named
<1>13. ReceivedInv'
  <2> SUFFICES ASSUME mode # "outage"
               PROVE  /\ \A id \in Id : Named(id)' => Received(id)'
                      /\ \A id \in 0..sendHead'-1 : Received(id)'
                      /\ \A i \in 1..Len(sendQ') :
                            sendQ'[i] = Erased => Received(sendHead' + i - 1)
    <3>1. \A i : Received(sendHead' + i - 1) => Received(sendHead + i - 1)'
      BY <1>2 DEF Received
    <3> QED BY <1>2, <3>1 DEF ReceivedInv
  <2>1. \A id : (Named(id)' => Named(id)) /\ (Received(id)' <=> Received(id))
    BY <1>2 DEF Named, Received
  <2>2. /\ \A id \in Id : Named(id) => Received(id)
        /\ \A id \in 0..sendHead-1 : Received(id)
        /\ \A i \in 1..Len(sendQ) : sendQ[i] = Erased => Received(sendHead + i - 1)
    BY <1>1 DEF ReceivedInv
  <2>3. \A i \in 1..Len(q) : q[i] = Erased => Received(sendHead + i - 1)
    BY <1>4, <1>5, <2>2
  <2>4. ASSUME NEW id \in 0..sendHead'-1
        PROVE  Received(id)
    <3>1. CASE id < sendHead
      BY <1>1, <2>2, <3>1, Ranges
    <3>2. CASE id >= sendHead
      <4>0. id \in Nat /\ id < sendHead + k
        BY <1>81, <2>4
      <4>1. id - sendHead + 1 \in 1..k /\ id - sendHead + 1 \in 1..Len(q)
            /\ sendHead + (id - sendHead + 1) - 1 = id
        BY <1>81, <3>2, <4>0
      <4> QED BY <1>8, <2>3, <4>1
    <3> QED BY <1>1, <3>1, <3>2, Ranges
  <2>5. ASSUME NEW i \in 1..Len(sendQ'), sendQ'[i] = Erased
        PROVE  Received(sendHead' + i - 1)
    <3>1. k + i \in 1..Len(q) /\ sendQ'[i] = q[k + i] /\ sendHead + (k + i) = sendHead' + i
      BY <1>82, <2>5
    <3>2. sendHead + (k + i) - 1 = sendHead' + i - 1
      <4>1. i \in Nat /\ k \in Nat /\ sendHead \in Nat /\ sendHead' = sendHead + k
        BY <1>81, <1>82, <2>5
      <4> QED BY <4>1
    <3> QED BY <2>3, <2>5, <3>1, <3>2
  <2> QED BY <2>1, <2>2, <2>4, <2>5
<1> QED BY <1>10, <1>11, <1>12, <1>13 DEF IInv, LinkInv

(* What a step of the receiver or of the network has to keep: new ids are  *)
(* named only of messages that were sent and, without an outage, received. *)
LEMMA ReceiverFrame ==
    ASSUME IInv, TypeOK', ReceiverInv', UNCHANGED <<mode, next, sendHead, sendQ>>, net' \subseteq net,
           NEW E \in SUBSET Id,
           \A e \in E : e < next /\ (mode # "outage" => Received(e)'),
           \A id \in Id : Named(id)' => Named(id) \/ id \in E,
           \A id \in Nat : Received(id) => Received(id)'
    PROVE  IInv'
<1>1. TypeOK /\ SenderInv /\ PacketInv /\ NamedInv /\ ReceivedInv
  BY DEF IInv, LinkInv
<1>2. SenderInv' /\ PacketInv'
  BY <1>1 DEF SenderInv, PacketInv
<1>3. NamedInv'
  BY <1>1 DEF NamedInv
<1>4. ReceivedInv'
  <2> SUFFICES ASSUME mode # "outage"
               PROVE  /\ \A id \in Id : Named(id)' => Received(id)'
                      /\ \A id \in 0..sendHead-1 : Received(id)'
                      /\ \A i \in 1..Len(sendQ) :
                            sendQ[i] = Erased => Received(sendHead + i - 1)'
    BY DEF ReceivedInv
  <2>1. /\ \A id \in Id : Named(id) => Received(id)
        /\ \A id \in 0..sendHead-1 : Received(id)
        /\ \A i \in 1..Len(sendQ) : sendQ[i] = Erased => Received(sendHead + i - 1)
    BY <1>1 DEF ReceivedInv
  <2>2. Id \subseteq Nat /\ 0..sendHead-1 \subseteq Nat
    BY <1>1, Ranges DEF Id
  <2>3. \A id \in Id : Named(id)' => Received(id)'
    BY <2>1, <2>2
  <2>4. \A id \in 0..sendHead-1 : Received(id)'
    BY <2>1, <2>2
  <2>5. ASSUME NEW i \in 1..Len(sendQ), sendQ[i] = Erased
        PROVE  Received(sendHead + i - 1)'
    <3>1. PICK id \in Nat : id = sendHead + i - 1
      BY <1>1, Ranges
    <3>2. Received(id)'
      BY <2>1, <2>5, <3>1
    <3>3. sendHead' = sendHead
      OBVIOUS
    <3> QED BY <3>1, <3>2, <3>3 DEF Received
  <2> QED BY <2>3, <2>4, <2>5
<1> QED BY <1>2, <1>3, <1>4 DEF IInv, LinkInv

(* Acknowledging an id names this id.                                      *)
LEMMA AcksNames ==
    ASSUME TypeOK, NEW id \in Id, Acks(id), UNCHANGED ackNet, seen' \subseteq seen \cup {id}
    PROVE  /\ acks' \in Seq(Id)
           /\ \A j \in Id : Named(j)' => Named(j) \/ j \in {id}
<1>1. acks' = Append(acks, id) /\ acks \in Seq(Id)
  BY DEF Acks, TypeOK
<1>2. /\ acks' \in Seq(Id)
      /\ Len(acks') = Len(acks) + 1
      /\ \A i \in 1..Len(acks) : acks'[i] = acks[i]
      /\ acks'[Len(acks) + 1] = id
  BY <1>1, AppendProperties
<1>3. Len(acks) \in Nat
  BY <1>1, LenProperties
<1>4. \A i \in 1..Len(acks') : acks'[i] = id \/ \E j \in 1..Len(acks) : acks[j] = acks'[i]
  <2> SUFFICES ASSUME NEW i \in 1..Len(acks')
               PROVE  acks'[i] = id \/ \E j \in 1..Len(acks) : acks[j] = acks'[i]
    OBVIOUS
  <2>1. i = Len(acks) + 1 \/ i \in 1..Len(acks)
    BY <1>2, <1>3
  <2> QED BY <1>2, <2>1
<1> QED BY <1>2, <1>4 DEF Named

(* A packet: taken into the window, before it, beyond it, or refused.      *)
LEMMA ReceiveKeeps == ASSUME NEW p, IInv, Receive(p) PROVE IInv'
<1>1. TypeOK /\ SenderInv /\ PacketInv /\ ReceiverInv /\ NamedInv /\ ReceivedInv
  BY DEF IInv, LinkInv
<1>2. /\ p \in net /\ net' \subseteq net
      /\ UNCHANGED <<mode, next, sendHead, sendQ, sslStarted, ackNet>>
  BY DEF Receive, sendVars
<1>3. /\ p.id \in Id /\ p.id \in Nat /\ p.payload \in Payload
      /\ p.id < next /\ p.payload = Stream[p.id + 1]
  BY <1>1, <1>2 DEF TypeOK, Packet, PacketInv, Id
<1>4. CASE Accept(p)
  <2> DEFINE q == Stored(recvHead, recvQ, p.id, p.payload)
  <2>1. /\ p.id >= recvHead /\ p.id < recvHead + Span /\ Acks(p.id)
        /\ seen' \subseteq seen \cup {p.id} /\ UpSequenced(q, sslStarted)
    BY <1>4 DEF Accept, InWindow
  <2>2. /\ q \in Seq(RecvSlot)
        /\ Len(q) = IF p.id - recvHead + 1 > Len(recvQ) THEN p.id - recvHead + 1 ELSE Len(recvQ)
        /\ \A i \in 1..Len(q) :
              q[i] = IF recvHead + i - 1 = p.id THEN p.payload
                     ELSE IF i <= Len(recvQ) THEN recvQ[i] ELSE Undefined
    <3>1. /\ recvHead \in Nat /\ recvQ \in Seq(RecvSlot) /\ Undefined \in RecvSlot /\ p.payload \in RecvSlot
      BY <1>1, <1>3, Ranges DEF TypeOK, RecvSlot
    <3>2. ASSUME NEW id \in Nat, NEW x \in RecvSlot, id >= recvHead
          PROVE  /\ Stored(recvHead, recvQ, id, x) \in Seq(RecvSlot)
                 /\ Len(Stored(recvHead, recvQ, id, x)) =
                       IF id - recvHead + 1 > Len(recvQ) THEN id - recvHead + 1 ELSE Len(recvQ)
                 /\ \A i \in 1..Len(Stored(recvHead, recvQ, id, x)) :
                       Stored(recvHead, recvQ, id, x)[i] =
                          IF recvHead + i - 1 = id THEN x
                          ELSE IF i <= Len(recvQ) THEN recvQ[i] ELSE Undefined
      BY <3>1, <3>2, StoredSlots
    <3> QED BY <1>3, <2>1, <3>1, <3>2
  <2> HIDE DEF q
  <2>3. Len(q) <= Span
    <3>1. recvHead \in Nat /\ Span \in Nat /\ Len(recvQ) \in Nat /\ Len(recvQ) <= Span
      BY <1>1, Ranges DEF TypeOK
    <3>2. p.id \in Nat /\ p.id - recvHead + 1 <= Span
      BY <1>3, <2>1, <3>1
    <3> QED BY <2>2, <3>1, <3>2
  <2>4. ASSUME NEW i \in 1..Len(q), q[i] \in Payload
        PROVE  recvHead + i <= next /\ q[i] = Stream[recvHead + i]
    <3>1. CASE recvHead + i - 1 = p.id
      <4>1. recvHead \in Nat /\ next \in Nat /\ i \in Nat
        BY <1>1, <2>2, LenProperties, Ranges
      <4>2. recvHead + i = p.id + 1
        BY <1>3, <3>1, <4>1
      <4>3. q[i] = p.payload
        BY <2>2, <3>1
      <4>4. recvHead + i <= next
        BY <1>3, <4>1, <4>2
      <4>5. Stream[recvHead + i] = p.payload
        BY <1>3, <4>2
      <4> QED BY <4>3, <4>4, <4>5
    <3>2. CASE recvHead + i - 1 # p.id
      <4>1. i <= Len(recvQ) /\ q[i] = recvQ[i]
        BY <2>2, <2>4, <3>2, SlotAssumption
      <4>2. i \in 1..Len(recvQ)
        BY <1>1, <4>1, Ranges
      <4> QED BY <1>1, <2>4, <4>1, <4>2 DEF ReceiverInv
    <3> QED BY <3>1, <3>2
  <2>5. /\ recvHead' \in recvHead..next
        /\ recvQ' \in Seq(RecvSlot) /\ Len(recvQ') <= Span
        /\ delivered' \in Seq(Payload)
        /\ ReceiverInv'
        /\ \A id \in Nat : Holds(q, id) => Received(id)'
    <3>1. sslStarted \in BOOLEAN /\ UNCHANGED next
      BY <1>1, <1>2 DEF TypeOK
    <3> QED BY <1>1, <2>1, <2>2, <2>3, <2>4, <3>1, UpSequencedKeeps DEF RecvSlot
  <2>6. /\ acks' \in Seq(Id)
        /\ \A j \in Id : Named(j)' => Named(j) \/ j \in {p.id}
    BY <1>1, <1>2, <1>3, <2>1, AcksNames
  <2>7. TypeOK'
    <3>1. recvHead' \in 0..next' /\ sendHead' \in 0..next'
      BY <1>1, <1>2, <2>5, Ranges
    <3>2. seen' \subseteq Id
      BY <1>1, <1>3, <2>1 DEF TypeOK
    <3> QED BY <1>1, <1>2, <2>5, <2>6, <3>1, <3>2 DEF TypeOK, RecvSlot
  <2>8. ASSUME NEW id \in Nat, Received(id) \/ id = p.id
        PROVE  Received(id)'
    <3>1. CASE id < recvHead
      BY <2>5, <3>1 DEF Holds
    <3>2. CASE id = p.id
      <4>0. recvHead \in Nat /\ Len(q) \in Nat /\ Len(recvQ) \in Nat
        BY <1>1, <2>2, LenProperties, Ranges
      <4>00. Len(q) >= p.id - recvHead + 1
        BY <1>3, <2>2, <4>0
      <4>1. id - recvHead + 1 \in 1..Len(q) /\ recvHead + (id - recvHead + 1) - 1 = p.id
        BY <1>3, <2>1, <3>2, <4>0, <4>00
      <4>2. q[id - recvHead + 1] \in Payload
        BY <1>3, <2>2, <4>1
      <4> QED BY <2>5, <4>1, <4>2 DEF Holds
    <3>3. CASE ~(id < recvHead) /\ id # p.id
      <4>0. Len(q) >= Len(recvQ) /\ Len(q) \in Nat /\ Len(recvQ) \in Nat /\ recvHead \in Nat
        BY <1>1, <1>3, <2>2, Ranges, LenProperties
      <4>1. id - recvHead + 1 \in 1..Len(recvQ) /\ recvQ[id - recvHead + 1] \in Payload
        BY <2>8, <3>3 DEF Received
      <4>2. id - recvHead + 1 \in 1..Len(q) /\ recvHead + (id - recvHead + 1) - 1 # p.id
            /\ id - recvHead + 1 <= Len(recvQ)
        BY <1>3, <3>3, <4>1, <4>0
      <4>3. q[id - recvHead + 1] \in Payload
        BY <2>2, <4>1, <4>2
      <4> QED BY <2>5, <4>2, <4>3 DEF Holds
    <3> QED BY <3>1, <3>2, <3>3
  <2>9. p.id < next /\ Received(p.id)' /\ {p.id} \in SUBSET Id
    BY <1>3, <2>8
  <2> QED BY <1>2, <2>5, <2>6, <2>7, <2>8, <2>9, ReceiverFrame
<1>5. ASSUME UNCHANGED <<recvHead, recvQ, seen, delivered>>, Acks(p.id),
             mode # "outage" => Received(p.id)
      PROVE  IInv'
  <2>1. /\ acks' \in Seq(Id)
        /\ \A j \in Id : Named(j)' => Named(j) \/ j \in {p.id}
    BY <1>1, <1>2, <1>3, <1>5, AcksNames
  <2>2. TypeOK' /\ ReceiverInv'
    BY <1>1, <1>2, <1>5, <2>1 DEF TypeOK, ReceiverInv
  <2>3. \A id \in Nat : Received(id) <=> Received(id)'
    BY <1>5 DEF Received
  <2>4. {p.id} \in SUBSET Id /\ p.id < next /\ (mode # "outage" => Received(p.id)')
    BY <1>3, <1>5, <2>3
  <2> QED BY <1>2, <2>1, <2>2, <2>3, <2>4, ReceiverFrame
<1>6. CASE AcceptOld(p)
  BY <1>5, <1>6 DEF AcceptOld, Received
<1>7. CASE Refused(p) /\ AckReplay(p)
  <2>1. mode # "outage" => Received(p.id)
    BY <1>1, <1>3, <1>7 DEF Refused, ReceivedInv, Named
  <2> QED BY <1>5, <1>7, <2>1 DEF AckReplay
<1>8. CASE Ignore(p)
  <2>1. UNCHANGED <<recvHead, recvQ, seen, acks, delivered>>
    BY <1>8 DEF Ignore
  <2>2. TypeOK' /\ ReceiverInv'
    BY <1>1, <1>2, <2>1 DEF TypeOK, ReceiverInv
  <2>3. /\ {} \in SUBSET Id
        /\ \A id \in Id : Named(id)' => Named(id)
        /\ \A id \in Nat : Received(id) => Received(id)'
    BY <1>2, <2>1 DEF Named, Received
  <2> QED BY <1>2, <2>2, <2>3, ReceiverFrame
<1> QED BY <1>4, <1>6, <1>7, <1>8 DEF Receive

(* The handshake hands up what waited for it.                              *)
LEMMA StartHandshakeKeeps == IInv /\ StartHandshake => IInv'
<1> SUFFICES ASSUME IInv, StartHandshake PROVE IInv'
  OBVIOUS
<1>1. TypeOK /\ ReceiverInv
  BY DEF IInv, LinkInv
<1>2. /\ UpSequenced(recvQ, TRUE) /\ sslStarted' = TRUE
      /\ UNCHANGED <<mode, next, sendHead, sendQ, net, seen, acks, ackNet>>
  BY DEF StartHandshake, sendVars
<1>3. /\ recvHead' \in recvHead..next
      /\ recvQ' \in Seq(Payload \cup {Undefined}) /\ Len(recvQ') <= Span
      /\ delivered' \in Seq(Payload)
      /\ ReceiverInv'
      /\ \A id \in Nat : Holds(recvQ, id) => Received(id)'
  <2>1. /\ recvQ \in Seq(Payload \cup {Undefined}) /\ Len(recvQ) <= Span
        /\ TRUE \in BOOLEAN /\ UNCHANGED next
    BY <1>1, <1>2 DEF TypeOK
  <2> QED BY <1>1, <1>2, <2>1, UpSequencedKeeps DEF ReceiverInv
<1>4. TypeOK'
  <2>1. recvHead' \in 0..next' /\ sendHead' \in 0..next' /\ sslStarted' \in BOOLEAN
    BY <1>1, <1>2, <1>3, Ranges
  <2> QED BY <1>1, <1>2, <1>3, <2>1 DEF TypeOK
<1>5. /\ {} \in SUBSET Id
      /\ \A id \in Id : Named(id)' => Named(id)
      /\ \A id \in Nat : Received(id) => Received(id)'
  BY <1>2, <1>3 DEF Named, Received, Holds
<1> QED BY <1>2, <1>3, <1>4, <1>5, ReceiverFrame

(* Acknowledgements that go out name what waited to be acknowledged.       *)
LEMMA SendAcksKeeps == IInv /\ SendAcks => IInv'
<1> SUFFICES ASSUME IInv, SendAcks PROVE IInv'
  OBVIOUS
<1> DEFINE n == IF Len(acks) < MaxAckList THEN Len(acks) ELSE MaxAckList
           out == {acks[i] : i \in 1..n}
<1>1. TypeOK /\ ReceiverInv
  BY DEF IInv, LinkInv
<1>2. /\ ackNet' = ackNet \cup {out} /\ acks' = SubSeq(acks, n + 1, Len(acks))
      /\ UNCHANGED <<mode, next, sendHead, sendQ, net, recvHead, recvQ, sslStarted, seen, delivered>>
  BY DEF SendAcks, sendVars
<1>3. acks \in Seq(Id) /\ Len(acks) \in Nat /\ n \in 0..Len(acks)
  BY <1>1, MaxAckListAssumption, LenProperties DEF TypeOK
<1> HIDE DEF n
<1>4. /\ acks' \in Seq(Id)
      /\ Len(acks') = Len(acks) - n
      /\ \A i \in 1..Len(acks) - n : acks'[i] = acks[n + i]
  BY <1>2, <1>3, DroppedSlots DEF Dropped
<1>5. \A id \in out : id \in Id /\ Named(id)
  <2>1. \A i \in 1..n : i \in 1..Len(acks) /\ acks[i] \in Id
    BY <1>3, ElementOfSeq
  <2> QED BY <2>1 DEF Named
<1> HIDE DEF out
<1>6. TypeOK' /\ ReceiverInv'
  <2>1. ackNet' \subseteq SUBSET Id
    BY <1>1, <1>2, <1>5 DEF TypeOK
  <2> QED BY <1>1, <1>2, <1>4, <2>1 DEF TypeOK, ReceiverInv
<1>7. ASSUME NEW id \in Id, Named(id)'
      PROVE  Named(id)
  <2>1. CASE id \in seen
    BY <2>1 DEF Named
  <2>2. ASSUME NEW i \in 1..Len(acks'), acks'[i] = id
        PROVE  Named(id)
    <3>1. n + i \in 1..Len(acks) /\ acks[n + i] = id
      BY <1>3, <1>4, <2>2
    <3> QED BY <3>1 DEF Named
  <2>3. ASSUME NEW ids \in ackNet', id \in ids
        PROVE  Named(id)
    BY <1>2, <1>5, <2>3 DEF Named
  <2> QED BY <1>2, <1>7, <2>1, <2>2, <2>3 DEF Named
<1>8. {} \in SUBSET Id /\ \A id \in Nat : Received(id) => Received(id)'
  BY <1>2 DEF Received
<1> QED BY <1>2, <1>6, <1>7, <1>8, ReceiverFrame

(* What the network loses is named no more.                                *)
LEMMA LoseKeeps == IInv /\ Lose => IInv'
<1> SUFFICES ASSUME IInv, Lose PROVE IInv'
  OBVIOUS
<1>1. TypeOK /\ ReceiverInv
  BY DEF IInv, LinkInv
<1>2. /\ net' \subseteq net /\ ackNet' \subseteq ackNet
      /\ UNCHANGED <<mode, next, sendHead, sendQ, recvHead, recvQ, sslStarted, seen, acks, delivered>>
  BY DEF Lose, sendVars, recvVars
<1>3. TypeOK' /\ ReceiverInv'
  BY <1>1, <1>2 DEF TypeOK, ReceiverInv
<1>4. /\ {} \in SUBSET Id
      /\ \A id \in Id : Named(id)' => Named(id)
      /\ \A id \in Nat : Received(id) => Received(id)'
  BY <1>2 DEF Named, Received
<1> QED BY <1>2, <1>3, <1>4, ReceiverFrame

--------------------------------------------------------------------------------
(* The invariant holds, and what follows from it.                          *)

LEMMA StepKeeps == IInv /\ [Next]_vars => IInv'
<1> SUFFICES ASSUME IInv, [Next]_vars PROVE IInv'
  OBVIOUS
<1>1. CASE Send
  BY <1>1, SendKeeps
<1>2. ASSUME NEW due \in SUBSET Unacked, Retransmit(due) PROVE IInv'
  BY <1>2, RetransmitKeeps
<1>3. ASSUME NEW ids \in ackNet, ReceiveAcks(ids) PROVE IInv'
  BY <1>3, ReceiveAcksKeeps
<1>4. ASSUME NEW p \in net, Receive(p) PROVE IInv'
  BY <1>4, ReceiveKeeps
<1>5. CASE StartHandshake
  BY <1>5, StartHandshakeKeeps
<1>6. CASE SendAcks
  BY <1>6, SendAcksKeeps
<1>7. CASE Lose
  BY <1>7, LoseKeeps
<1>8. CASE UNCHANGED vars
  <2>1. UNCHANGED <<mode, next, sendHead, sendQ, net, recvHead, recvQ, sslStarted, seen, acks,
                    ackNet, delivered>>
    BY <1>8 DEF vars, sendVars, recvVars
  <2>2. TypeOK' /\ ReceiverInv'
    BY <2>1 DEF IInv, LinkInv, TypeOK, ReceiverInv
  <2>3. /\ {} \in SUBSET Id
        /\ \A id \in Id : Named(id)' => Named(id)
        /\ \A id \in Nat : Received(id) => Received(id)'
    BY <2>1 DEF Named, Received
  <2> QED BY <2>1, <2>2, <2>3, ReceiverFrame
<1> QED BY <1>1, <1>2, <1>3, <1>4, <1>5, <1>6, <1>7, <1>8 DEF Next

LEMMA Inductive == Spec => []IInv
BY InitInv, StepKeeps, PTL DEF Spec

(* The windows stay within their span, their heads within what was sent,   *)
(* and every acknowledgement names an id (MessageWindow, ReliableAck).     *)
THEOREM TypeCorrect == Spec => []TypeOK
<1>1. IInv => TypeOK
  BY DEF IInv, LinkInv
<1> QED BY <1>1, Inductive, PTL

(* As long as no silence lasts 30 s the sender keeps every message that    *)
(* the receiver does not have (ack, receive, decapsulate_post_process).    *)
THEOREM NothingForgottenCorrect == Spec => []NothingForgotten
<1>1. IInv => NothingForgotten
  <2> SUFFICES ASSUME IInv, mode # "outage", NEW id \in 0..next-1, ~ Received(id)
               PROVE  id >= sendHead /\ sendQ[id - sendHead + 1] = Stream[id + 1]
    BY DEF NothingForgotten
  <2>1. TypeOK /\ SenderInv /\ ReceivedInv
    BY DEF IInv, LinkInv
  <2>2. mode # "outage"
    OBVIOUS
  <2>3. id >= sendHead
    BY <2>1, <2>2, Ranges DEF ReceivedInv
  <2>0. id \in Nat /\ id < next /\ next \in Nat /\ sendHead \in Nat /\ Len(sendQ) \in Nat
        /\ next <= sendHead + Len(sendQ)
    BY <2>1, Ranges DEF SenderInv
  <2>4. PICK i \in Nat : i = id - sendHead + 1
    BY <2>0, <2>3
  <2>5. /\ i \in 1..Len(sendQ) /\ sendHead + i <= next
        /\ sendHead + i = id + 1 /\ sendHead + i - 1 = id
    BY <2>0, <2>3, <2>4
  <2>6. sendQ[i] # Erased
    BY <2>1, <2>2, <2>5 DEF ReceivedInv
  <2> QED BY <2>1, <2>3, <2>4, <2>5, <2>6 DEF SenderInv
<1> QED BY <1>1, Inductive, PTL

(* What has been handed up is a prefix of the stream.                      *)
LEMMA DeliveredPrefix == IInv => delivered = SubSeq(Stream, 1, recvHead)
<1> SUFFICES ASSUME IInv PROVE delivered = SubSeq(Stream, 1, recvHead)
  OBVIOUS
<1>1. TypeOK /\ ReceiverInv
  BY DEF IInv, LinkInv
<1>2. recvHead \in Nat /\ recvHead <= Len(Stream) /\ Len(Stream) \in Nat
      /\ \A i \in 1..Len(Stream) : Stream[i] \in Payload
  BY <1>1, Ranges
<1>3. /\ SubSeq(Stream, 1, recvHead) \in Seq(Payload)
      /\ Len(SubSeq(Stream, 1, recvHead)) = IF 1 <= recvHead THEN recvHead - 1 + 1 ELSE 0
      /\ \A i \in 1..recvHead - 1 + 1 : SubSeq(Stream, 1, recvHead)[i] = Stream[1 + i - 1]
  BY <1>2, SubSeqProperties
<1>4. Len(SubSeq(Stream, 1, recvHead)) = recvHead
      /\ \A i \in 1..recvHead : SubSeq(Stream, 1, recvHead)[i] = Stream[i]
  BY <1>2, <1>3
<1>5. delivered \in Seq(Payload) /\ Len(delivered) = recvHead
      /\ \A i \in 1..recvHead : delivered[i] = Stream[i]
  BY <1>1 DEF TypeOK, ReceiverInv
<1> QED BY <1>3, <1>4, <1>5, SeqEqual

(* Sending appends to what was sent.                                       *)
LEMMA SentAppends ==
    ASSUME NEW n \in Nat, n < Len(Stream)
    PROVE  /\ SubSeq(Stream, 1, n + 1) = Append(SubSeq(Stream, 1, n), Stream[n + 1])
           /\ Stream[n + 1] \in Payload
<1>1. Stream \in Seq(Payload) /\ Len(Stream) \in Nat
  BY StreamAssumption, LenProperties
<1>2. n + 1 \in 1..Len(Stream) /\ 1 \in 1..Len(Stream) /\ n + 1 \in 1..Len(Stream) /\ n + 1 - 1 = n
  BY <1>1
<1>3. Stream[n + 1] \in Payload
  BY <1>1, <1>2, ElementOfSeq
<1>4. SubSeq(Stream, 1, n + 1) = SubSeq(Stream, 1, n + 1 - 1) \o <<Stream[n + 1]>>
  BY <1>1, <1>2, SubSeqRecursiveSecond
<1>5. SubSeq(Stream, 1, n) \in Seq(Payload)
  <2>1. \A i \in 1..n : Stream[i] \in Payload
    BY <1>1, ElementOfSeq
  <2> QED BY <2>1, SubSeqProperties
<1>6. Append(SubSeq(Stream, 1, n), Stream[n + 1]) = SubSeq(Stream, 1, n) \o <<Stream[n + 1]>>
  BY <1>3, <1>5, AppendIsConcat
<1> QED BY <1>2, <1>3, <1>4, <1>6

(* What was handed up is a prefix of what was sent, so a longer prefix of  *)
(* the stream that was sent is one of those the channel may deliver.       *)
LEMMA PrefixOfSent ==
    ASSUME NEW n \in Nat, NEW m \in Nat, n <= m, m <= Len(Stream)
    PROVE  SubSeq(SubSeq(Stream, 1, m), 1, n) = SubSeq(Stream, 1, n)
<1>1. Stream \in Seq(Payload) /\ Len(Stream) \in Nat
  BY StreamAssumption, LenProperties
<1>2. \A i \in 1..m : Stream[i] \in Payload
  BY <1>1, ElementOfSeq
<1>3. /\ SubSeq(Stream, 1, m) \in Seq(Payload)
      /\ Len(SubSeq(Stream, 1, m)) = m
      /\ \A i \in 1..m : SubSeq(Stream, 1, m)[i] = Stream[i]
  <2>1. /\ SubSeq(Stream, 1, m) \in Seq(Payload)
        /\ Len(SubSeq(Stream, 1, m)) = IF 1 <= m THEN m - 1 + 1 ELSE 0
        /\ \A i \in 1..m - 1 + 1 : SubSeq(Stream, 1, m)[i] = Stream[1 + i - 1]
    BY <1>2, SubSeqProperties
  <2> QED BY <2>1
<1> DEFINE s == SubSeq(Stream, 1, m)
<1> HIDE DEF s
<1>4. /\ SubSeq(s, 1, n) \in Seq(Payload)
      /\ Len(SubSeq(s, 1, n)) = n
      /\ \A i \in 1..n : SubSeq(s, 1, n)[i] = s[i]
  <2>1. \A i \in 1..n : s[i] \in Payload
    BY <1>2, <1>3 DEF s
  <2>2. /\ SubSeq(s, 1, n) \in Seq(Payload)
        /\ Len(SubSeq(s, 1, n)) = IF 1 <= n THEN n - 1 + 1 ELSE 0
        /\ \A i \in 1..n - 1 + 1 : SubSeq(s, 1, n)[i] = s[1 + i - 1]
    BY <2>1, SubSeqProperties
  <2> QED BY <2>2
<1>5. /\ SubSeq(Stream, 1, n) \in Seq(Payload)
      /\ Len(SubSeq(Stream, 1, n)) = n
      /\ \A i \in 1..n : SubSeq(Stream, 1, n)[i] = Stream[i]
  <2>1. /\ SubSeq(Stream, 1, n) \in Seq(Payload)
        /\ Len(SubSeq(Stream, 1, n)) = IF 1 <= n THEN n - 1 + 1 ELSE 0
        /\ \A i \in 1..n - 1 + 1 : SubSeq(Stream, 1, n)[i] = Stream[1 + i - 1]
    BY <1>2, SubSeqProperties
  <2> QED BY <2>1
<1>6. \A i \in 1..n : s[i] = Stream[i]
  BY <1>3 DEF s
<1>7. SubSeq(s, 1, n) = SubSeq(Stream, 1, n)
  BY <1>4, <1>5, <1>6, SeqEqual
<1> QED BY <1>7 DEF s

(* Whatever the network and the replay check do, messages are handed up in *)
(* the order in which they were sent, none left out and none twice: the    *)
(* link implements the reliable channel (receive, up_sequenced, purge).    *)
THEOREM InOrderCorrect == Spec => InOrder
<1>1. Init => Channel!Init
  <2> SUFFICES ASSUME Init PROVE Channel!Init
    OBVIOUS
  <2>1. next = 0 /\ delivered = <<>>
    BY DEF Init
  <2>2. SubSeq(Stream, 1, 0) = <<>>
    BY SubSeqEmpty
  <2> QED BY <2>1, <2>2 DEF Channel!Init
<1>2. (IInv => delivered = SubSeq(Stream, 1, recvHead))'
  BY DeliveredPrefix, PTL
<1>3. IInv /\ IInv' /\ [Next]_vars =>
         [Channel!Send \/ Channel!Deliver]_<<SubSeq(Stream, 1, next), delivered>>
  <2> SUFFICES ASSUME IInv, IInv', [Next]_vars
               PROVE  \/ Channel!Send \/ Channel!Deliver
                      \/ UNCHANGED <<SubSeq(Stream, 1, next), delivered>>
    OBVIOUS
  <2>1. CASE Send
    <3>1. next' = next + 1 /\ next < Len(Stream) /\ UNCHANGED delivered
      BY <2>1 DEF Send, recvVars
    <3>2. next \in Nat
      BY Ranges DEF IInv, LinkInv
    <3>3. /\ SubSeq(Stream, 1, next + 1) = Append(SubSeq(Stream, 1, next), Stream[next + 1])
          /\ Stream[next + 1] \in Payload
      BY <3>1, <3>2, SentAppends
    <3> QED BY <3>1, <3>3 DEF Channel!Send
  <2>2. ASSUME UNCHANGED next, recvHead' \in recvHead..next
        PROVE  \/ Channel!Deliver
               \/ UNCHANGED <<SubSeq(Stream, 1, next), delivered>>
    <3>1. /\ delivered = SubSeq(Stream, 1, recvHead) /\ delivered' = SubSeq(Stream, 1, recvHead')
          /\ Len(delivered) = recvHead
      BY <1>2, DeliveredPrefix DEF IInv, LinkInv, ReceiverInv
    <3>2. recvHead \in Nat /\ recvHead' \in Nat /\ next \in Nat /\ next <= Len(Stream)
      BY <2>2, Ranges DEF IInv, LinkInv
    <3>3. \A n \in Nat : n <= next => SubSeq(SubSeq(Stream, 1, next), 1, n) = SubSeq(Stream, 1, n)
      BY <3>2, PrefixOfSent
    <3>4. Len(SubSeq(Stream, 1, next)) = next
      <4>1. \A i \in 1..next : Stream[i] \in Payload
        BY <3>2, Ranges DEF IInv, LinkInv
      <4>2. Len(SubSeq(Stream, 1, next)) = IF 1 <= next THEN next - 1 + 1 ELSE 0
        BY <3>2, <4>1, SubSeqProperties
      <4> QED BY <3>2, <4>2
    <3>5. CASE recvHead' = recvHead
      BY <2>2, <3>1, <3>5
    <3>6. CASE recvHead' > recvHead
      <4>1. recvHead' \in Len(delivered)+1..Len(SubSeq(Stream, 1, next))
        BY <2>2, <3>1, <3>2, <3>4, <3>6
      <4>2. delivered' = SubSeq(SubSeq(Stream, 1, next), 1, recvHead')
        <5>1. PICK n \in Nat : n = recvHead'
          BY <3>2
        <5>2. n <= next /\ delivered' = SubSeq(Stream, 1, n)
          BY <2>2, <3>1, <3>2, <5>1
        <5> QED BY <3>3, <5>1, <5>2
      <4> QED BY <2>2, <4>1, <4>2 DEF Channel!Deliver
    <3> QED BY <2>2, <3>2, <3>5, <3>6
  <2>3. ASSUME NEW q \in Seq(RecvSlot), NEW started, UpSequenced(q, started), UNCHANGED next
        PROVE  recvHead' \in recvHead..next
    <3>1. recvHead' \in Nat /\ recvHead' <= next' /\ recvHead \in Nat /\ next \in Nat
      BY Ranges, <2>3 DEF IInv, LinkInv, TypeOK
    <3>2. PICK k \in 0..Len(q) : recvHead' = recvHead + k
      BY <2>3 DEF UpSequenced
    <3>3. k \in Nat
      BY <3>2, LenProperties
    <3> QED BY <2>3, <3>1, <3>2, <3>3
  <2>4. ASSUME UNCHANGED <<next, delivered>>
        PROVE  UNCHANGED <<SubSeq(Stream, 1, next), delivered>>
    BY <2>4
  <2>5. ASSUME NEW due \in SUBSET Unacked, Retransmit(due)
        PROVE  UNCHANGED <<SubSeq(Stream, 1, next), delivered>>
    BY <2>5 DEF Retransmit, recvVars
  <2>6. ASSUME NEW ids \in ackNet, ReceiveAcks(ids)
        PROVE  UNCHANGED <<SubSeq(Stream, 1, next), delivered>>
    BY <2>6 DEF ReceiveAcks, recvVars
  <2>7. ASSUME NEW p \in net, Receive(p)
        PROVE  \/ Channel!Deliver
               \/ UNCHANGED <<SubSeq(Stream, 1, next), delivered>>
    <3>1. UNCHANGED next
      BY <2>7 DEF Receive, sendVars
    <3>2. CASE Accept(p)
      <4>1. PICK id, x : id = p.id /\ x = p.payload
        OBVIOUS
      <4>2. /\ recvHead \in Nat /\ recvQ \in Seq(RecvSlot) /\ Undefined \in RecvSlot
            /\ id \in Nat /\ x \in RecvSlot /\ id >= recvHead
        BY <2>7, <3>2, <4>1, Ranges
        DEF IInv, LinkInv, TypeOK, Packet, Id, RecvSlot, Accept, InWindow
      <4>3. Stored(recvHead, recvQ, id, x) \in Seq(RecvSlot)
        BY <4>2, StoredSlots
      <4>4. UpSequenced(Stored(recvHead, recvQ, id, x), sslStarted)
        BY <3>2, <4>1 DEF Accept
      <4> QED BY <2>2, <2>3, <3>1, <4>3, <4>4
    <3>3. CASE ~Accept(p)
      BY <2>7, <3>1, <3>3 DEF Receive, AcceptOld, Ignore, AckReplay
    <3> QED BY <3>2, <3>3
  <2>8. CASE StartHandshake
    <3>1. UNCHANGED next /\ UpSequenced(recvQ, TRUE) /\ recvQ \in Seq(RecvSlot)
      BY <2>8 DEF StartHandshake, sendVars, IInv, LinkInv, TypeOK, RecvSlot
    <3> QED BY <2>2, <2>3, <3>1
  <2>9. CASE SendAcks \/ Lose \/ UNCHANGED vars
    BY <2>9 DEF SendAcks, Lose, vars, sendVars, recvVars
  <2> QED BY <2>1, <2>5, <2>6, <2>7, <2>8, <2>9 DEF Next
<1> QED BY <1>1, <1>3, Inductive, PTL DEF Spec, InOrder, Channel!Spec

================================================================================
