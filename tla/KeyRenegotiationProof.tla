------------------------- MODULE KeyRenegotiationProof -------------------------
(***************************************************************************)
(* Proofs about KeyRenegotiation for every handshake window, timer, key id *)
(* mask, limit, network and clock.  A handler is a function on peers, so   *)
(* each operator has a lemma of its own: what it keeps of the types, what  *)
(* it keeps of the invariant of a key, and, on a prompt network without    *)
(* limits, what it keeps of the invariant that relates the two peers.      *)
(***************************************************************************)
EXTENDS KeyRenegotiation, TLAPS

(* What the assumptions say of the constants the operators use.            *)
LEMMA Durations ==
    /\ HandshakeWindow \in Nat /\ HandshakeWindow > 0 /\ BecomePrimary \in Nat /\ Never \in Nat
    /\ \A p \in Side : Renegotiate[p] \in Nat /\ Expire[p] \in Nat
BY WindowAssumption, TimesAssumption, KeyModesAssumption DEF Never, Side

--------------------------------------------------------------------------------
(* The types of what the operators on keys return.                         *)

LEMMA SetEventType ==
    ASSUME NEW k \in Key, NEW cur \in Event, NEW next \in Event, NEW at \in Nat
    PROVE  SetEvent(k, cur, next, at) \in Key
BY DEF SetEvent, Key

LEMMA InvalidateType ==
    ASSUME NEW k \in Key
    PROVE  Invalidate(k) \in Key
BY Durations DEF Invalidate, SetEvent, Key, Event

LEMMA NewKeyType ==
    ASSUME NEW id \in 0..KeyIdMask, NEW initiator \in BOOLEAN, NEW t \in Nat
    PROVE  NewKey(id, initiator, t) \in Key
<1>1. (IF initiator THEN <<"reset">> ELSE <<>>) \in Seq(Message)
  <2>1. "reset" \in Message
    BY DEF Message
  <2>2. <<"reset">> \in Seq(Message) /\ << >> \in Seq(Message)
    BY <2>1
  <2> QED BY <2>2
<1>2. t + HandshakeWindow \in Nat
  BY Durations
<1> QED BY <1>1, <1>2 DEF NewKey, Key, State, Event

LEMMA PrepareExpireType ==
    ASSUME NEW p \in Side, NEW k \in Key, NEW cur \in Event, NEW t \in Nat
    PROVE  PrepareExpire(p, k, cur, t) \in Key
<1> DEFINE at == IF k.fired THEN t + 2 * HandshakeWindow ELSE k.born + Expire[p]
<1>1. at \in Nat
  <2>1. k.born \in Nat
    BY DEF Key
  <2> QED BY <2>1, Durations
<1>2. "expire" \in Event
  BY DEF Event
<1> HIDE DEF at
<1>3. SetEvent(k, cur, "expire", at) \in Key
  BY <1>1, <1>2, SetEventType
<1> QED BY <1>3 DEF PrepareExpire, at

LEMMA KeyLimitRenegType ==
    ASSUME NEW p, NEW k \in Key, NEW ev \in Event, NEW t \in Nat
    PROVE  KeyLimitReneg(p, k, ev, t) \in Key
<1> DEFINE at == t + (IF p = "server" THEN 2 ELSE 1)
<1>1. at \in Nat /\ "none" \in Event
  BY DEF Event
<1> HIDE DEF at
<1>2. SetEvent(k, "none", ev, at) \in Key
  BY <1>1, SetEventType
<1> QED BY <1>2 DEF KeyLimitReneg, at

LEMMA ScheduleKeyLimitType ==
    ASSUME NEW p, NEW k \in Key, NEW t \in Nat
    PROVE  ScheduleKeyLimit(p, k, t) \in Key
<1> DEFINE f == [k EXCEPT !.fired = TRUE]
<1>1. f \in Key
  BY DEF Key
<1>2. [f EXCEPT !.cur = "renegotiateQueue"] \in Key
  BY <1>1 DEF Key, Event
<1>3. KeyLimitReneg(p, f, "renegotiate", t) \in Key
  BY <1>1, KeyLimitRenegType DEF Event
<1> QED BY <1>2, <1>3 DEF ScheduleKeyLimit

LEMMA DataLimitAddType ==
    ASSUME NEW p, NEW k \in Key, NEW red \in BOOLEAN, NEW t \in Nat
    PROVE  DataLimitAdd(p, k, red, t) \in Key
<1> DEFINE g == [k EXCEPT !.green = TRUE]
           r == IF red THEN ScheduleKeyLimit(p, g, t) ELSE g
<1>1. g \in Key
  BY DEF Key
<1>2. r \in Key
  BY <1>1, ScheduleKeyLimitType
<1>3. \A j \in Key : SetEvent(j, "none", "becomePrimary", t + 1) \in Key
  BY SetEventType DEF Event
<1> QED BY <1>2, <1>3 DEF DataLimitAdd

LEMMA EventPendingType ==
    ASSUME NEW p \in Side, NEW k \in Key, NEW t \in Nat
    PROVE  EventPending(p, k, t) \in Key
<1>1. SetEvent(k, "none", "primaryPending", t + 2 * HandshakeWindow) \in Key
  <2>1. t + 2 * HandshakeWindow \in Nat
    BY Durations
  <2> QED BY <2>1, SetEventType DEF Event
<1>2. SetEvent(k, "becomePrimary", "renegotiate", k.born + Renegotiate[p]) \in Key
  <2>1. k.born + Renegotiate[p] \in Nat
    BY Durations DEF Key
  <2> QED BY <2>1, SetEventType DEF Event
<1>3. PrepareExpire(p, k, k.next, t) \in Key
  BY PrepareExpireType DEF Key
<1>4. [Invalidate(k) EXCEPT !.cur = k.next] \in Key
  BY InvalidateType DEF Key
<1> QED BY <1>1, <1>2, <1>3, <1>4 DEF EventPending

LEMMA QueuedType ==
    ASSUME NEW k \in Key, NEW m \in Message
    PROVE  Queued(k, m) \in Key
<1>1. Append(k.queue, m) \in Seq(Message)
  BY DEF Key
<1> QED BY <1>1 DEF Queued, Key

LEMMA ToType ==
    ASSUME NEW k \in Key, NEW st \in State
    PROVE  To(k, st) \in Key
BY DEF To, Key

LEMMA MessageRecvType ==
    ASSUME NEW p, NEW k \in Key, NEW m
    PROVE  MessageRecv(p, k, m) \in Key
<1>1. \A n \in Message : Queued(k, n) \in Key
  BY QueuedType
<1>2. {"reset", "hello", "auth", "ack"} \subseteq Message
  BY DEF Message
<1>3. {"waitReset", "waitResetAck", "waitAuth", "waitAuthAck"} \subseteq State
  BY DEF State
<1>4. \A j \in Key, st \in State : To(j, st) \in Key
  BY ToType
<1> QED BY <1>1, <1>2, <1>3, <1>4 DEF MessageRecv

LEMMA NetRecvType ==
    ASSUME NEW p, NEW k \in Key, NEW pk \in Packet
    PROVE  NetRecv(p, k, pk) \in Key
<1> DEFINE a == [k EXCEPT !.acked = IF pk.ack > @ THEN pk.ack ELSE @]
<1>1. a \in Key
  BY DEF Key, Packet
<1>2. \A j \in Key : [j EXCEPT !.got = @ + 1] \in Key
  <2>1. \A j \in Key : j.got + 1 \in Nat
    BY DEF Key
  <2>2. \A j \in Key, n \in Nat : [j EXCEPT !.got = n] \in Key
    BY DEF Key
  <2> QED BY <2>1, <2>2
<1>3. MessageRecv(p, [a EXCEPT !.got = @ + 1], pk.msg) \in Key
  BY <1>1, <1>2, MessageRecvType
<1> QED BY <1>1, <1>3 DEF NetRecv

LEMMA PostAckActionType ==
    ASSUME NEW p, NEW k \in Key, NEW t \in Nat
    PROVE  PostAckAction(p, k, t) \in Key
<1>1. Queued(k, "hello") \in Key
  BY QueuedType DEF Message
<1>2. To(IF p = "client" THEN Queued(k, "hello") ELSE k, "waitAuth") \in Key
  BY <1>1, ToType DEF State
<1>3. SetEvent(To(k, "active"), "active", "becomePrimary", t + BecomePrimary) \in Key
  BY Durations, ToType, SetEventType DEF State, Event
<1> QED BY <1>2, <1>3 DEF PostAckAction

LEMMA FlushedKeyType ==
    ASSUME NEW k \in Key
    PROVE  FlushedKey(k) \in Key
<1>1. k.out + (IF k.valid THEN Len(k.queue) ELSE 0) \in Nat /\ << >> \in Seq(Message)
  BY DEF Key
<1> QED BY <1>1 DEF FlushedKey, Key

LEMMA PacketsType ==
    ASSUME NEW k \in Key
    PROVE  Packets(k) \subseteq Packet
<1>1. \A i \in 1..Len(k.queue) : k.out + i \in Nat /\ k.queue[i] \in Message
  BY DEF Key
<1> QED BY <1>1 DEF Packets, Packet, Key, Message

--------------------------------------------------------------------------------
(* The types of what the operators on peers return.                        *)

LEMMA NextKeyIdType ==
    ASSUME NEW id \in 0..KeyIdMask
    PROVE  NextKeyId(id) \in 0..KeyIdMask
<1>1. (id + 1) % (KeyIdMask + 1) \in 0..KeyIdMask
  BY MaskAssumption
<1> QED BY <1>1, MaskAssumption DEF NextKeyId

LEMMA NewSecondaryKeyType ==
    ASSUME NEW P \in Peer, NEW initiator \in BOOLEAN, NEW t \in Nat
    PROVE  NewSecondaryKey(P, initiator, t) \in Peer
<1>1. NewKey(P.up, initiator, t) \in Key /\ NextKeyId(P.up) \in 0..KeyIdMask
  BY NewKeyType, NextKeyIdType DEF Peer
<1> QED BY <1>1 DEF NewSecondaryKey, Peer

LEMMA PromoteType ==
    ASSUME NEW p \in Side, NEW P \in Peer, P.sec # NoKey, NEW t \in Nat
    PROVE  Promote(p, P, t) \in Peer
<1>1. PrepareExpire(p, P.pri, "none", t) \in Key
  BY PrepareExpireType DEF Peer, Event
<1> QED BY <1>1 DEF Promote, Peer

LEMMA DisconnectType ==
    ASSUME NEW P \in Peer
    PROVE  Disconnect(P) \in Peer
<1>1. \A k \in Key : Invalidate(k) \in Key
  BY InvalidateType
<1> QED BY <1>1 DEF Disconnect, Peer

LEMMA SpecifiedType ==
    ASSUME NEW p \in Side, NEW k \in Key \cup {NoKey}, NEW t \in Nat
    PROVE  /\ Specified(p, k, t) \in Key \cup {NoKey}
           /\ k \in Key => Specified(p, k, t) \in Key
<1>1. "none" \in Event
  BY DEF Event
<1> QED BY <1>1, PrepareExpireType DEF Specified

LEMMA PriType ==
    ASSUME NEW P \in Peer, NEW k \in Key
    PROVE  [P EXCEPT !.pri = k] \in Peer
BY DEF Peer

LEMMA SecType ==
    ASSUME NEW P \in Peer, NEW k \in Key \cup {NoKey}
    PROVE  [P EXCEPT !.sec = k] \in Peer
BY DEF Peer

LEMMA ProcessPrimaryEventType ==
    ASSUME NEW p \in Side, NEW P \in Peer, NEW t \in Nat
    PROVE  ProcessPrimaryEvent(p, P, t) \in Peer
<1> DEFINE k == EventPending(p, P.pri, t)
           Q == [P EXCEPT !.pri = [k EXCEPT !.cur = "none"]]
           R == CASE k.cur \in {"renegotiate", "renegotiateForce"} -> NewSecondaryKey(Q, TRUE, t)
                  [] k.cur = "expire" /\ P.sec # NoKey /\ P.sec.valid -> Promote(p, Q, t)
                  [] k.cur = "expire" /\ ~ (P.sec # NoKey /\ P.sec.valid) -> Disconnect(Q)
                  [] k.cur = "negotiate" -> Disconnect(Q)
                  [] OTHER -> Q
<1>1. k \in Key
  BY EventPendingType DEF Peer
<1>2. Q \in Peer /\ Q.sec = P.sec
  <2>1. [k EXCEPT !.cur = "none"] \in Key
    BY <1>1 DEF Key, Event
  <2> HIDE DEF k
  <2> QED BY <2>1, PriType DEF Peer
<1>3. R \in Peer
  <2> HIDE DEF k, Q
  <2>1. NewSecondaryKey(Q, TRUE, t) \in Peer /\ Disconnect(Q) \in Peer
    BY <1>2, NewSecondaryKeyType, DisconnectType
  <2>2. P.sec # NoKey => Promote(p, Q, t) \in Peer
    BY <1>2, PromoteType
  <2> QED BY <1>2, <2>1, <2>2
<1>4. [R EXCEPT !.pri = Specified(p, @, t)] \in Peer
  <2> HIDE DEF R
  <2>1. Specified(p, R.pri, t) \in Key
    BY <1>3, SpecifiedType DEF Peer
  <2> QED BY <1>3, <2>1, PriType
<1>5. [P EXCEPT !.pri = k] \in Peer
  BY <1>1, PriType
<1> QED BY <1>4, <1>5 DEF ProcessPrimaryEvent

LEMMA ProcessSecondaryEventType ==
    ASSUME NEW p \in Side, NEW P \in Peer, NEW t \in Nat
    PROVE  ProcessSecondaryEvent(p, P, t) \in Peer
<1> SUFFICES ASSUME P.sec # NoKey PROVE ProcessSecondaryEvent(p, P, t) \in Peer
  BY DEF ProcessSecondaryEvent
<1> DEFINE k == EventPending(p, P.sec, t)
           Q == [P EXCEPT !.sec = [k EXCEPT !.cur = "none"]]
           R == CASE k.cur = "active" -> [Q EXCEPT !.pri = PrepareExpire(p, @, "none", t)]
                  [] k.cur = "becomePrimary" /\ k.valid -> Promote(p, Q, t)
                  [] k.cur = "expire" -> [Q EXCEPT !.sec = NoKey]
                  [] k.cur = "renegotiateQueue" /\ k.next = "becomePrimary" ->
                        [Q EXCEPT !.pri = KeyLimitReneg(p, @, "renegotiateForce", k.at)]
                  [] k.cur \in {"negotiate", "primaryPending", "renegotiateForce"} ->
                        NewSecondaryKey(Q, TRUE, t)
                  [] OTHER -> Q
<1>1. k \in Key
  BY EventPendingType DEF Peer
<1>2. Q \in Peer /\ Q.sec \in Key
  <2>1. [k EXCEPT !.cur = "none"] \in Key
    BY <1>1 DEF Key, Event
  <2> HIDE DEF k
  <2> QED BY <2>1, SecType DEF Peer
<1>3. R \in Peer
  <2>1. k.at \in Nat
    BY <1>1 DEF Key
  <2> HIDE DEF k, Q
  <2>2. Q.pri \in Key
    BY <1>2 DEF Peer
  <2>3. [Q EXCEPT !.pri = PrepareExpire(p, @, "none", t)] \in Peer
    BY <1>2, <2>2, PrepareExpireType, PriType DEF Event
  <2>4. [Q EXCEPT !.pri = KeyLimitReneg(p, @, "renegotiateForce", k.at)] \in Peer
    BY <1>2, <2>1, <2>2, KeyLimitRenegType, PriType DEF Event
  <2>5. NewSecondaryKey(Q, TRUE, t) \in Peer /\ [Q EXCEPT !.sec = NoKey] \in Peer
    BY <1>2, NewSecondaryKeyType, SecType
  <2>6. Promote(p, Q, t) \in Peer
    BY <1>2, PromoteType, NoKeyAssumption
  <2> QED BY <1>2, <2>3, <2>4, <2>5, <2>6
<1>4. [R EXCEPT !.sec = Specified(p, @, t)] \in Peer
  <2> HIDE DEF R
  <2>1. Specified(p, R.sec, t) \in Key \cup {NoKey}
    BY <1>3, SpecifiedType DEF Peer
  <2> QED BY <1>3, <2>1, SecType
<1>5. [P EXCEPT !.sec = k] \in Peer
  BY <1>1, SecType
<1> QED BY <1>4, <1>5 DEF ProcessSecondaryEvent

LEMMA FlushKeysType ==
    ASSUME NEW p, NEW P \in Peer, NEW t \in Nat
    PROVE  FlushKeys(p, P, t) \in Peer
<1> DEFINE pri == PostAckAction(p, P.pri, t)
           sec == IF P.sec = NoKey THEN NoKey ELSE PostAckAction(p, P.sec, t)
<1>1. pri \in Key /\ sec \in Key \cup {NoKey}
  BY PostAckActionType DEF Peer
<1> HIDE DEF pri, sec
<1>2. /\ FlushedKey(pri) \in Key
      /\ (IF sec = NoKey THEN NoKey ELSE FlushedKey(sec)) \in Key \cup {NoKey}
  BY <1>1, FlushedKeyType
<1>3. (P.sent \cup Packets(pri) \cup (IF sec = NoKey THEN {} ELSE Packets(sec))) \subseteq Packet
  BY <1>1, PacketsType DEF Peer
<1>4. [P EXCEPT !.pri = FlushedKey(pri),
                !.sec = IF sec = NoKey THEN NoKey ELSE FlushedKey(sec),
                !.sent = @ \cup Packets(pri) \cup (IF sec = NoKey THEN {} ELSE Packets(sec))] \in Peer
  BY <1>2, <1>3 DEF Peer
<1> QED BY <1>4 DEF FlushKeys, pri, sec

LEMMA RoundType ==
    ASSUME NEW p \in Side, NEW P \in Peer, NEW t \in Nat
    PROVE  Round(p, P, t) \in Peer
BY FlushKeysType, ProcessPrimaryEventType, ProcessSecondaryEventType DEF Round

LEMMA FlushType ==
    ASSUME NEW p \in Side, NEW P \in Peer, NEW t \in Nat
    PROVE  Flush(p, P, t) \in Peer
BY RoundType DEF Flush

LEMMA ControlRecvType ==
    ASSUME NEW p \in Side, NEW P \in Peer, NEW pk \in Packet, NEW t \in Nat
    PROVE  ControlRecv(p, P, pk, t) \in Peer
<1> DEFINE N == NewSecondaryKey(P, FALSE, t)
<1>1. N \in Peer /\ N.sec \in Key
  <2>1. N \in Peer
    BY NewSecondaryKeyType
  <2>2. N.sec = NewKey(P.up, FALSE, t)
    BY DEF NewSecondaryKey, Peer
  <2> QED BY <2>1, <2>2, NewKeyType DEF Peer
<1>2. Flush(p, [P EXCEPT !.pri = NetRecv(p, @, pk)], t) \in Peer
  BY NetRecvType, PriType, FlushType DEF Peer
<1>3. P.sec # NoKey => Flush(p, [P EXCEPT !.sec = NetRecv(p, @, pk)], t) \in Peer
  BY NetRecvType, SecType, FlushType DEF Peer
<1>4. Flush(p, [N EXCEPT !.sec = NetRecv(p, @, pk)], t) \in Peer
  <2> HIDE DEF N
  <2> QED BY <1>1, NetRecvType, SecType, FlushType
<1>5. PacketKey(P, pk) = "secondary" => P.sec # NoKey
  BY DEF PacketKey
<1> HIDE DEF N
<1> QED BY <1>2, <1>3, <1>4, <1>5 DEF ControlRecv, N

--------------------------------------------------------------------------------
(* Every step keeps the types.                                             *)

LEMMA InitType == Init => TypeOK
<1> SUFFICES ASSUME Init PROVE TypeOK
  OBVIOUS
<1>1. 0 \in 0..KeyIdMask /\ now \in 0..MaxTime[mode] /\ mode \in Modes
  <2>1. mode \in Modes /\ now = 0
    BY DEF Init
  <2>2. MaxTime[mode] \in Nat
    BY <2>1, KeyModesAssumption
  <2> QED BY <2>1, <2>2, MaskAssumption
<1>2. ASSUME NEW p \in Side
      PROVE  [pri |-> NewKey(0, p = "client", 0), sec |-> NoKey, up |-> NextKeyId(0), sent |-> {}]
                \in Peer
  BY <1>1, NewKeyType, NextKeyIdType DEF Peer
<1>3. peer \in [Side -> Peer]
  BY <1>2, FlushType DEF Init
<1> QED BY <1>1, <1>3 DEF TypeOK

(* What a step does to one peer, and that the clock stands still.          *)
PeerStep(p, Q) == Q \in Peer /\ peer' = [peer EXCEPT ![p] = Q] /\ UNCHANGED <<mode, now>>

LEMMA PeerStepType ==
    ASSUME TypeOK, NEW p \in Side, NEW Q, PeerStep(p, Q)
    PROVE  TypeOK'
BY DEF TypeOK, PeerStep

LEMMA NowType == TypeOK => now \in Nat
BY KeyModesAssumption DEF TypeOK

LEMMA OtherType == \A p \in Side : Other(p) \in Side
BY DEF Other, Side

LEMMA TypeStep == TypeOK /\ [Next]_vars => TypeOK'
<1> SUFFICES ASSUME TypeOK, [Next]_vars PROVE TypeOK'
  OBVIOUS
<1>0. now \in Nat /\ \A p \in Side : peer[p] \in Peer
  BY NowType DEF TypeOK
<1>1. CASE Tick
  BY <1>1, KeyModesAssumption DEF Tick, TypeOK
<1>2. ASSUME NEW p \in Side, Housekeeping(p) PROVE TypeOK'
  BY <1>0, <1>2, FlushType, PeerStepType DEF Housekeeping, PeerStep
<1>3. ASSUME NEW p \in Side, Receive(p) PROVE TypeOK'
  <2>1. PICK pk \in peer[Other(p)].sent :
            peer' = [peer EXCEPT ![p] = ControlRecv(p, peer[p], pk, now)] /\ UNCHANGED <<mode, now>>
    BY <1>3 DEF Receive
  <2>2. pk \in Packet
    BY <1>0, <2>1, OtherType DEF Peer
  <2> QED BY <1>0, <2>1, <2>2, ControlRecvType, PeerStepType DEF PeerStep
<1>4. ASSUME NEW p \in Side, Encrypt(p) PROVE TypeOK'
  <2>1. [peer[p] EXCEPT !.pri = ScheduleKeyLimit(p, @, now)] \in Peer
    BY <1>0, ScheduleKeyLimitType, PriType DEF Peer
  <2> QED BY <1>0, <1>4, <2>1, FlushType, PeerStepType DEF Encrypt, PeerStep
<1>5. ASSUME NEW p \in Side, Decrypt(p) PROVE TypeOK'
  <2>1. PICK slot \in {"pri", "sec"}, red \in BOOLEAN :
            /\ Hears(p, slot)
            /\ peer' = [peer EXCEPT ![p] =
                  Flush(p, [peer[p] EXCEPT ![slot] = DataLimitAdd(p, peer[p][slot], red, now)], now)]
            /\ UNCHANGED <<mode, now>>
    BY <1>5 DEF Decrypt
  <2>2. peer[p].pri \in Key /\ (peer[p].sec # NoKey => peer[p].sec \in Key)
    BY <1>0 DEF Peer
  <2>3. CASE slot = "pri"
    <3>1. [peer[p] EXCEPT !.pri = DataLimitAdd(p, @, red, now)] \in Peer
      BY <1>0, <2>2, DataLimitAddType, PriType
    <3> QED BY <1>0, <2>1, <2>3, <3>1, FlushType, PeerStepType DEF PeerStep
  <2>4. CASE slot = "sec"
    <3>1. peer[p].sec # NoKey
      BY <2>1, <2>4 DEF Hears, Active
    <3>2. [peer[p] EXCEPT !.sec = DataLimitAdd(p, @, red, now)] \in Peer
      BY <1>0, <2>2, <3>1, DataLimitAddType, SecType
    <3> QED BY <1>0, <2>1, <2>4, <3>2, FlushType, PeerStepType DEF PeerStep
  <2> QED BY <2>3, <2>4
<1>6. ASSUME NEW p \in Side, KeepaliveTimeout(p) PROVE TypeOK'
  BY <1>0, <1>6, DisconnectType, PeerStepType DEF KeepaliveTimeout, PeerStep
<1>7. CASE UNCHANGED vars
  BY <1>7 DEF TypeOK, vars
<1> QED BY <1>1, <1>2, <1>3, <1>4, <1>5, <1>6, <1>7 DEF Next

(* A key of either end is in a state of KeyContext with an event of its    *)
(* kind, and a key id always fits its three bits.                          *)
THEOREM TypeCorrect == Spec => []TypeOK
BY InitType, TypeStep, PTL DEF Spec

--------------------------------------------------------------------------------
(* What the operators on keys keep of the shape of a key.                  *)

(* The shape of a key does not depend on what it sends and has received.   *)
LEMMA SameShape ==
    ASSUME NEW p, NEW t, NEW k \in Key, NEW j \in Key, KeyShape(p, k, t),
           j.cur # "renegotiateQueue", j.fired = k.fired, j.valid = k.valid, j.next = k.next,
           j.at = k.at, j.born = k.born, j.st = "active" <=> k.st = "active"
    PROVE  KeyShape(p, j, t)
BY DEF KeyShape

LEMMA LaterShape ==
    ASSUME NEW p, NEW t \in Nat, NEW k \in Key, KeyShape(p, k, t)
    PROVE  KeyShape(p, k, t + 1)
BY Durations DEF KeyShape, Key

(* A key that is not valid any more has nothing to show.                   *)
LEMMA InvalidShape ==
    ASSUME NEW p, NEW t, NEW k, KeyShape(p, k, t), NEW j,
           ~ j.valid, j.fired = k.fired, j.st = k.st, j.cur # "renegotiateQueue"
    PROVE  KeyShape(p, j, t)
BY DEF KeyShape

LEMMA SetEventFields ==
    ASSUME NEW k \in Key, NEW cur, NEW next, NEW at
    PROVE  LET j == SetEvent(k, cur, next, at) IN
           /\ j.cur = cur /\ j.next = next /\ j.at = at
           /\ j.id = k.id /\ j.st = k.st /\ j.born = k.born /\ j.fired = k.fired
           /\ j.green = k.green /\ j.valid = k.valid
BY DEF SetEvent, Key

LEMMA InvalidateFields ==
    ASSUME NEW k \in Key
    PROVE  LET j == Invalidate(k) IN
           /\ ~ j.valid /\ j.cur = k.cur /\ j.id = k.id /\ j.st = k.st /\ j.fired = k.fired
           /\ ~ k.valid => j = k
BY DEF Invalidate, SetEvent, Key

LEMMA InvalidateShape ==
    ASSUME NEW p, NEW t, NEW k \in Key, KeyShape(p, k, t)
    PROVE  KeyShape(p, Invalidate(k), t)
BY InvalidateFields, InvalidShape DEF KeyShape

LEMMA NewKeyShape ==
    ASSUME NEW p, NEW id, NEW initiator, NEW t
    PROVE  KeyShape(p, NewKey(id, initiator, t), t)
BY DEF NewKey, KeyShape

LEMMA PrepareExpireShape ==
    ASSUME NEW p \in Side, NEW t \in Nat, NEW k \in Key, KeyShape(p, k, t),
           NEW cur, cur # "renegotiateQueue"
    PROVE  KeyShape(p, PrepareExpire(p, k, cur, t), t)
<1> DEFINE at == IF k.fired THEN t + 2 * HandshakeWindow ELSE k.born + Expire[p]
           j == SetEvent(k, cur, "expire", at)
<1>1. /\ j.cur = cur /\ j.next = "expire" /\ j.at = at
      /\ j.st = k.st /\ j.born = k.born /\ j.fired = k.fired
  BY SetEventFields
<1>2. k.fired => j.at <= t + 2 * HandshakeWindow
  BY <1>1, Durations
<1> HIDE DEF j
<1>3. KeyShape(p, j, t)
  BY <1>1, <1>2 DEF KeyShape
<1> QED BY <1>3 DEF PrepareExpire, j

LEMMA KeyLimitRenegShape ==
    ASSUME NEW p \in Side, NEW t \in Nat, NEW k \in Key, k.fired, k.st = "active"
    PROVE  KeyShape(p, KeyLimitReneg(p, k, "renegotiate", t), t)
<1> DEFINE at == t + (IF p = "server" THEN 2 ELSE 1)
           j == SetEvent(k, "none", "renegotiate", at)
<1>1. at <= t + 2
  OBVIOUS
<1>2. /\ j.cur = "none" /\ j.next = "renegotiate" /\ j.at = at /\ j.st = k.st /\ j.fired = k.fired
  BY DEF SetEvent, Key
<1> HIDE DEF j
<1>3. KeyShape(p, j, t)
  BY <1>1, <1>2 DEF KeyShape
<1> QED BY <1>3 DEF KeyLimitReneg, j

(* A limit that is not reached early is acted on at once.                  *)
LEMMA ScheduleKeyLimitShape ==
    ASSUME NEW p \in Side, NEW t \in Nat, NEW k \in Key, KeyShape(p, k, t),
           k.next # "becomePrimary"
    PROVE  KeyShape(p, ScheduleKeyLimit(p, k, t), t)
<1> DEFINE f == [k EXCEPT !.fired = TRUE]
<1>1. f \in Key /\ f.fired /\ f.st = k.st /\ f.next = k.next
  BY DEF Key
<1> HIDE DEF f
<1>2. k.st = "active" => KeyShape(p, KeyLimitReneg(p, f, "renegotiate", t), t)
  BY <1>1, KeyLimitRenegShape
<1> QED BY <1>1, <1>2 DEF ScheduleKeyLimit, f

LEMMA DataLimitAddShape ==
    ASSUME NEW p \in Side, NEW t \in Nat, NEW k \in Key, KeyShape(p, k, t), NEW red \in BOOLEAN,
           red => k.next # "becomePrimary", Active(k)
    PROVE  KeyShape(p, DataLimitAdd(p, k, red, t), t)
<1> DEFINE g == [k EXCEPT !.green = TRUE]
           r == IF red THEN ScheduleKeyLimit(p, g, t) ELSE g
           j == SetEvent(r, "none", "becomePrimary", t + 1)
<1>1. /\ g \in Key /\ g.cur = k.cur /\ g.fired = k.fired /\ g.valid = k.valid
      /\ g.next = k.next /\ g.at = k.at /\ g.born = k.born /\ g.st = k.st
  BY DEF Key
<1> HIDE DEF g
<1>2. KeyShape(p, g, t)
  BY <1>1, SameShape DEF KeyShape
<1>3. r \in Key /\ KeyShape(p, r, t)
  BY <1>1, <1>2, ScheduleKeyLimitType, ScheduleKeyLimitShape
<1>4. r.next = "primaryPending" => ~ r.fired /\ r.st = "active"
  <2>1. red /\ ~ g.fired => r.next = "renegotiate"
    <3> DEFINE f == [g EXCEPT !.fired = TRUE]
    <3>1. f \in Key
      BY <1>1 DEF Key
    <3>2. KeyLimitReneg(p, f, "renegotiate", t).next = "renegotiate"
      BY <3>1, SetEventFields DEF KeyLimitReneg
    <3>3. f.next = g.next /\ g.st = "active" /\ g.valid
      BY <1>1 DEF Active, Key
    <3> HIDE DEF f
    <3> QED BY <1>1, <3>2, <3>3 DEF ScheduleKeyLimit, f
  <2>2. red /\ g.fired => r = g
    BY DEF ScheduleKeyLimit
  <2>3. g.st = "active" /\ g.valid
    BY <1>1 DEF Active
  <2> HIDE DEF r
  <2>4. CASE red /\ ~ g.fired
    BY <2>1, <2>4
  <2>5. CASE ~ (red /\ ~ g.fired)
    <3>1. r = g
      BY <2>2, <2>5 DEF r
    <3> QED BY <1>2, <2>3, <3>1 DEF KeyShape
  <2> QED BY <2>4, <2>5
<1> HIDE DEF r
<1>5. ASSUME r.next = "primaryPending" PROVE KeyShape(p, j, t)
  <2>1. /\ j.cur = "none" /\ j.next = "becomePrimary" /\ j.at = t + 1 /\ j.st = "active" /\ ~ j.fired
    BY <1>3, <1>4, <1>5, SetEventFields
  <2> HIDE DEF j
  <2>2. t + 1 <= t + BecomePrimary + 1
    BY Durations
  <2> QED BY <2>1, <2>2 DEF KeyShape
<1> HIDE DEF j
<1> QED BY <1>3, <1>5 DEF DataLimitAdd, r, g, j

LEMMA EventPendingShape ==
    ASSUME NEW p \in Side, NEW t \in Nat, NEW k \in Key, KeyShape(p, k, t)
    PROVE  KeyShape(p, EventPending(p, k, t), t)
<1>1. ASSUME k.next = "becomePrimary"
      PROVE  KeyShape(p, SetEvent(k, "none", "primaryPending", t + 2 * HandshakeWindow), t)
  <2> DEFINE j == SetEvent(k, "none", "primaryPending", t + 2 * HandshakeWindow)
  <2>1. /\ j.cur = "none" /\ j.next = "primaryPending" /\ j.at = t + 2 * HandshakeWindow
        /\ j.st = k.st /\ j.fired = k.fired /\ j.valid = k.valid
    BY SetEventFields
  <2> HIDE DEF j
  <2>2. KeyShape(p, j, t)
    BY <1>1, <2>1, Durations DEF KeyShape
  <2> QED BY <2>2 DEF j
<1>2. ASSUME k.next = "becomePrimary"
      PROVE  KeyShape(p, SetEvent(k, "becomePrimary", "renegotiate", k.born + Renegotiate[p]), t)
  <2> DEFINE j == SetEvent(k, "becomePrimary", "renegotiate", k.born + Renegotiate[p])
  <2>1. /\ j.cur = "becomePrimary" /\ j.next = "renegotiate" /\ j.at = k.born + Renegotiate[p]
        /\ j.st = k.st /\ j.born = k.born /\ j.fired = k.fired /\ j.valid = k.valid
    BY SetEventFields
  <2> HIDE DEF j
  <2>2. KeyShape(p, j, t)
    BY <1>2, <2>1, Durations DEF KeyShape
  <2> QED BY <2>2 DEF j
<1>3. KeyShape(p, PrepareExpire(p, k, k.next, t), t) \/ k.next = "renegotiateQueue"
  BY PrepareExpireShape
<1>4. k.next # "renegotiateQueue" => KeyShape(p, [Invalidate(k) EXCEPT !.cur = k.next], t)
  <2> DEFINE i == Invalidate(k)
             j == [i EXCEPT !.cur = k.next]
  <2>1. i \in Key /\ ~ i.valid /\ i.st = k.st /\ i.fired = k.fired
    BY InvalidateType, InvalidateFields
  <2> HIDE DEF i
  <2>2. j.cur = k.next /\ ~ j.valid /\ j.st = k.st /\ j.fired = k.fired
    BY <2>1 DEF Key
  <2> HIDE DEF j
  <2> SUFFICES k.next # "renegotiateQueue" => KeyShape(p, j, t)
    BY DEF i, j
  <2> QED BY <2>2, InvalidShape
<1> QED BY <1>1, <1>2, <1>3, <1>4 DEF EventPending

LEMMA QueuedFields ==
    ASSUME NEW k \in Key, NEW m \in Message
    PROVE  LET j == Queued(k, m) IN
           /\ j \in Key /\ j.cur = k.cur /\ j.next = k.next /\ j.at = k.at /\ j.id = k.id
           /\ j.st = k.st /\ j.born = k.born /\ j.fired = k.fired /\ j.valid = k.valid
BY QueuedType DEF Queued, Key

LEMMA ToFields ==
    ASSUME NEW k \in Key, NEW st \in State
    PROVE  LET j == To(k, st) IN
           /\ j \in Key /\ j.cur = k.cur /\ j.next = k.next /\ j.at = k.at /\ j.id = k.id
           /\ j.st = st /\ j.born = k.born /\ j.fired = k.fired /\ j.valid = k.valid
BY ToType DEF To, Key

LEMMA MessageRecvShape ==
    ASSUME NEW p, NEW t, NEW k \in Key, KeyShape(p, k, t), NEW m
    PROVE  KeyShape(p, MessageRecv(p, k, m), t)
<1>1. /\ {"reset", "hello", "auth"} \subseteq Message
      /\ {"waitReset", "waitResetAck", "waitAuth", "waitAuthAck"} \subseteq State
  BY DEF Message, State
<1>2. \A n \in Message : Queued(k, n) \in Key /\ KeyShape(p, Queued(k, n), t)
                         /\ Queued(k, n).st = k.st
  BY QueuedFields, SameShape DEF KeyShape
<1>3. \A j \in Key, st \in State :
          KeyShape(p, j, t) /\ j.st # "active" /\ st # "active" => KeyShape(p, To(j, st), t)
  BY ToFields, SameShape DEF KeyShape
<1> QED BY <1>1, <1>2, <1>3 DEF MessageRecv

LEMMA NetRecvShape ==
    ASSUME NEW p, NEW t, NEW k \in Key, KeyShape(p, k, t), NEW pk \in Packet
    PROVE  KeyShape(p, NetRecv(p, k, pk), t)
<1> DEFINE a == [k EXCEPT !.acked = IF pk.ack > @ THEN pk.ack ELSE @]
           g == [a EXCEPT !.got = @ + 1]
<1>1. a \in Key /\ KeyShape(p, a, t)
  <2>1. /\ a \in Key /\ a.cur = k.cur /\ a.fired = k.fired /\ a.valid = k.valid /\ a.next = k.next
        /\ a.at = k.at /\ a.born = k.born /\ a.st = k.st
    BY DEF Key, Packet
  <2> HIDE DEF a
  <2> QED BY <2>1, SameShape DEF KeyShape
<1> HIDE DEF a
<1>2. g \in Key /\ KeyShape(p, g, t)
  <2>0. a.got + 1 \in Nat
    BY <1>1 DEF Key
  <2>1. /\ g \in Key /\ g.cur = a.cur /\ g.fired = a.fired /\ g.valid = a.valid /\ g.next = a.next
        /\ g.at = a.at /\ g.born = a.born /\ g.st = a.st
    BY <1>1, <2>0 DEF Key
  <2> HIDE DEF g
  <2> QED BY <1>1, <2>1, SameShape DEF KeyShape
<1>3. KeyShape(p, MessageRecv(p, g, pk.msg), t)
  BY <1>2, MessageRecvShape
<1> QED BY <1>1, <1>3 DEF NetRecv, a

LEMMA PostAckActionShape ==
    ASSUME NEW p, NEW t \in Nat, NEW k \in Key, KeyShape(p, k, t)
    PROVE  KeyShape(p, PostAckAction(p, k, t), t)
<1>1. "hello" \in Message /\ {"waitAuth", "active"} \subseteq State
  BY DEF Message, State
<1>2. ASSUME k.st = "waitResetAck"
      PROVE  KeyShape(p, To(IF p = "client" THEN Queued(k, "hello") ELSE k, "waitAuth"), t)
  <2> DEFINE q == IF p = "client" THEN Queued(k, "hello") ELSE k
  <2>1. q \in Key /\ KeyShape(p, q, t) /\ q.st = k.st
    BY <1>1, QueuedFields, SameShape DEF KeyShape
  <2> HIDE DEF q
  <2>2. KeyShape(p, To(q, "waitAuth"), t)
    BY <1>1, <1>2, <2>1, ToFields, SameShape DEF KeyShape
  <2> QED BY <2>2 DEF q
<1>3. ASSUME k.st = "waitAuthAck"
      PROVE  KeyShape(p, SetEvent(To(k, "active"), "active", "becomePrimary", t + BecomePrimary), t)
  <2> DEFINE q == To(k, "active")
             j == SetEvent(q, "active", "becomePrimary", t + BecomePrimary)
  <2>1. q \in Key /\ q.st = "active" /\ q.fired = k.fired
    BY <1>1, ToFields
  <2> HIDE DEF q
  <2>2. /\ j.cur = "active" /\ j.next = "becomePrimary" /\ j.at = t + BecomePrimary
        /\ j.st = "active" /\ j.fired = k.fired
    BY <2>1, SetEventFields
  <2>3. ~ k.fired
    BY <1>3 DEF KeyShape
  <2>4. t + BecomePrimary <= t + BecomePrimary + 1
    BY Durations
  <2> HIDE DEF j
  <2>5. KeyShape(p, j, t)
    BY <2>2, <2>3, <2>4 DEF KeyShape
  <2> QED BY <2>5 DEF j, q
<1> QED BY <1>2, <1>3 DEF PostAckAction

LEMMA FlushedKeyFields ==
    ASSUME NEW k \in Key
    PROVE  LET j == FlushedKey(k) IN
           /\ j \in Key /\ j.cur = k.cur /\ j.next = k.next /\ j.at = k.at /\ j.id = k.id
           /\ j.st = k.st /\ j.born = k.born /\ j.fired = k.fired /\ j.valid = k.valid
           /\ j.green = k.green
BY FlushedKeyType DEF FlushedKey, Key

LEMMA FlushedKeyShape ==
    ASSUME NEW p, NEW t, NEW k \in Key, KeyShape(p, k, t)
    PROVE  KeyShape(p, FlushedKey(k), t)
BY FlushedKeyFields, SameShape DEF KeyShape

--------------------------------------------------------------------------------
(* What the operators on peers keep of the shape of the keys.              *)

LEMMA PriShape ==
    ASSUME NEW p, NEW t, NEW P \in Peer, PeerShape(p, P, t), NEW k \in Key, KeyShape(p, k, t)
    PROVE  PeerShape(p, [P EXCEPT !.pri = k], t)
BY DEF PeerShape, Peer

LEMMA SecShape ==
    ASSUME NEW p, NEW t, NEW P \in Peer, PeerShape(p, P, t), NEW k \in Key \cup {NoKey},
           k # NoKey => KeyShape(p, k, t)
    PROVE  PeerShape(p, [P EXCEPT !.sec = k], t)
BY DEF PeerShape, Peer

LEMMA NewSecondaryKeyShape ==
    ASSUME NEW p, NEW P \in Peer, NEW initiator \in BOOLEAN, NEW t \in Nat, PeerShape(p, P, t)
    PROVE  PeerShape(p, NewSecondaryKey(P, initiator, t), t)
<1> DEFINE N == NewSecondaryKey(P, initiator, t)
<1>1. N.pri = P.pri /\ N.sec = NewKey(P.up, initiator, t)
  BY DEF NewSecondaryKey, Peer
<1>2. KeyShape(p, NewKey(P.up, initiator, t), t)
  BY NewKeyShape
<1> HIDE DEF N
<1>3. PeerShape(p, N, t)
  BY <1>1, <1>2 DEF PeerShape
<1> QED BY <1>3 DEF N

LEMMA PromoteShape ==
    ASSUME NEW p \in Side, NEW P \in Peer, NEW t \in Nat, PeerShape(p, P, t), P.sec # NoKey
    PROVE  PeerShape(p, Promote(p, P, t), t)
<1> DEFINE N == Promote(p, P, t)
<1>1. N.pri = P.sec /\ N.sec = PrepareExpire(p, P.pri, "none", t)
  BY DEF Promote, Peer
<1>2. KeyShape(p, PrepareExpire(p, P.pri, "none", t), t)
  BY PrepareExpireShape DEF PeerShape, Peer
<1> HIDE DEF N
<1>3. PeerShape(p, N, t)
  BY <1>1, <1>2 DEF PeerShape
<1> QED BY <1>3 DEF N

LEMMA DisconnectShape ==
    ASSUME NEW p, NEW P \in Peer, NEW t, PeerShape(p, P, t)
    PROVE  PeerShape(p, Disconnect(P), t)
<1> DEFINE N == Disconnect(P)
<1>1. N.pri = Invalidate(P.pri) /\ N.sec = (IF P.sec = NoKey THEN P.sec ELSE Invalidate(P.sec))
  BY DEF Disconnect, Peer
<1>2. KeyShape(p, Invalidate(P.pri), t) /\ (P.sec # NoKey => KeyShape(p, Invalidate(P.sec), t))
  BY InvalidateShape DEF PeerShape, Peer
<1> HIDE DEF N
<1>3. PeerShape(p, N, t)
  BY <1>1, <1>2 DEF PeerShape
<1> QED BY <1>3 DEF N

LEMMA SpecifiedShape ==
    ASSUME NEW p \in Side, NEW k \in Key \cup {NoKey}, NEW t \in Nat, k # NoKey => KeyShape(p, k, t)
    PROVE  Specified(p, k, t) # NoKey => KeyShape(p, Specified(p, k, t), t)
BY PrepareExpireShape DEF Specified

(* A key without its current event.                                        *)
LEMMA ClearedFields ==
    ASSUME NEW k \in Key
    PROVE  LET j == [k EXCEPT !.cur = "none"] IN
           /\ j \in Key /\ j.cur = "none" /\ j.next = k.next /\ j.at = k.at /\ j.id = k.id
           /\ j.st = k.st /\ j.born = k.born /\ j.fired = k.fired /\ j.valid = k.valid
           /\ j.green = k.green
BY DEF Key, Event

LEMMA ClearedShape ==
    ASSUME NEW p, NEW t, NEW k \in Key, KeyShape(p, k, t)
    PROVE  KeyShape(p, [k EXCEPT !.cur = "none"], t)
BY ClearedFields, SameShape

LEMMA ProcessPrimaryEventShape ==
    ASSUME NEW p \in Side, NEW P \in Peer, NEW t \in Nat, PeerShape(p, P, t)
    PROVE  PeerShape(p, ProcessPrimaryEvent(p, P, t), t)
<1> DEFINE k == EventPending(p, P.pri, t)
           Q == [P EXCEPT !.pri = [k EXCEPT !.cur = "none"]]
           R == CASE k.cur \in {"renegotiate", "renegotiateForce"} -> NewSecondaryKey(Q, TRUE, t)
                  [] k.cur = "expire" /\ P.sec # NoKey /\ P.sec.valid -> Promote(p, Q, t)
                  [] k.cur = "expire" /\ ~ (P.sec # NoKey /\ P.sec.valid) -> Disconnect(Q)
                  [] k.cur = "negotiate" -> Disconnect(Q)
                  [] OTHER -> Q
<1>1. k \in Key /\ KeyShape(p, k, t)
  BY EventPendingType, EventPendingShape DEF Peer, PeerShape
<1>2. Q \in Peer /\ PeerShape(p, Q, t) /\ Q.sec = P.sec
  <2>1. [k EXCEPT !.cur = "none"] \in Key /\ KeyShape(p, [k EXCEPT !.cur = "none"], t)
    BY <1>1, ClearedFields, ClearedShape
  <2> HIDE DEF k
  <2>2. Q.sec = P.sec
    BY DEF Peer
  <2> QED BY <2>1, <2>2, PriType, PriShape
<1>3. R \in Peer /\ PeerShape(p, R, t)
  <2> HIDE DEF k, Q
  <2>1. /\ NewSecondaryKey(Q, TRUE, t) \in Peer /\ PeerShape(p, NewSecondaryKey(Q, TRUE, t), t)
        /\ Disconnect(Q) \in Peer /\ PeerShape(p, Disconnect(Q), t)
    BY <1>2, NewSecondaryKeyType, NewSecondaryKeyShape, DisconnectType, DisconnectShape
  <2>2. P.sec # NoKey => Promote(p, Q, t) \in Peer /\ PeerShape(p, Promote(p, Q, t), t)
    BY <1>2, PromoteType, PromoteShape
  <2> QED BY <1>2, <2>1, <2>2
<1>4. PeerShape(p, [R EXCEPT !.pri = Specified(p, @, t)], t)
  <2> HIDE DEF R
  <2>1. R.pri \in Key /\ KeyShape(p, R.pri, t)
    BY <1>3 DEF Peer, PeerShape
  <2>2. Specified(p, R.pri, t) \in Key /\ KeyShape(p, Specified(p, R.pri, t), t)
    BY <2>1, SpecifiedType, PrepareExpireShape DEF Specified
  <2> QED BY <1>3, <2>2, PriShape
<1>5. PeerShape(p, [P EXCEPT !.pri = k], t)
  BY <1>1, PriShape
<1> QED BY <1>4, <1>5 DEF ProcessPrimaryEvent

LEMMA ProcessSecondaryEventShape ==
    ASSUME NEW p \in Side, NEW P \in Peer, NEW t \in Nat, PeerShape(p, P, t)
    PROVE  PeerShape(p, ProcessSecondaryEvent(p, P, t), t)
<1> SUFFICES ASSUME P.sec # NoKey PROVE PeerShape(p, ProcessSecondaryEvent(p, P, t), t)
  BY DEF ProcessSecondaryEvent
<1> DEFINE k == EventPending(p, P.sec, t)
           Q == [P EXCEPT !.sec = [k EXCEPT !.cur = "none"]]
           R == CASE k.cur = "active" -> [Q EXCEPT !.pri = PrepareExpire(p, @, "none", t)]
                  [] k.cur = "becomePrimary" /\ k.valid -> Promote(p, Q, t)
                  [] k.cur = "expire" -> [Q EXCEPT !.sec = NoKey]
                  [] k.cur = "renegotiateQueue" /\ k.next = "becomePrimary" ->
                        [Q EXCEPT !.pri = KeyLimitReneg(p, @, "renegotiateForce", k.at)]
                  [] k.cur \in {"negotiate", "primaryPending", "renegotiateForce"} ->
                        NewSecondaryKey(Q, TRUE, t)
                  [] OTHER -> Q
<1>1. k \in Key /\ KeyShape(p, k, t) /\ k.cur # "renegotiateQueue"
  BY EventPendingType, EventPendingShape DEF Peer, PeerShape, KeyShape
<1>2. Q \in Peer /\ Q.sec \in Key /\ PeerShape(p, Q, t)
  <2>1. [k EXCEPT !.cur = "none"] \in Key /\ KeyShape(p, [k EXCEPT !.cur = "none"], t)
    BY <1>1, ClearedFields, ClearedShape
  <2> HIDE DEF k
  <2>2. Q.sec \in Key
    BY <2>1 DEF Peer
  <2> QED BY <2>1, <2>2, SecType, SecShape
<1>3. R \in Peer /\ PeerShape(p, R, t)
  <2> HIDE DEF k, Q
  <2>1. Q.pri \in Key /\ KeyShape(p, Q.pri, t)
    BY <1>2 DEF Peer, PeerShape
  <2>2. ASSUME NEW j \in Key, KeyShape(p, j, t)
        PROVE  PrepareExpire(p, j, "none", t) \in Key /\ KeyShape(p, PrepareExpire(p, j, "none", t), t)
    BY <2>2, PrepareExpireType, PrepareExpireShape DEF Event
  <2>3. /\ [Q EXCEPT !.pri = PrepareExpire(p, @, "none", t)] \in Peer
        /\ PeerShape(p, [Q EXCEPT !.pri = PrepareExpire(p, @, "none", t)], t)
    BY <1>2, <2>1, <2>2, PriType, PriShape
  <2>4. /\ NewSecondaryKey(Q, TRUE, t) \in Peer /\ PeerShape(p, NewSecondaryKey(Q, TRUE, t), t)
        /\ [Q EXCEPT !.sec = NoKey] \in Peer /\ PeerShape(p, [Q EXCEPT !.sec = NoKey], t)
    BY <1>2, NewSecondaryKeyType, NewSecondaryKeyShape, SecType, SecShape
  <2>5. Promote(p, Q, t) \in Peer /\ PeerShape(p, Promote(p, Q, t), t)
    BY <1>2, PromoteType, PromoteShape, NoKeyAssumption
  <2> QED BY <1>1, <1>2, <2>3, <2>4, <2>5
<1>4. PeerShape(p, [R EXCEPT !.sec = Specified(p, @, t)], t)
  <2> HIDE DEF R
  <2>1. R.sec \in Key \cup {NoKey} /\ (R.sec # NoKey => KeyShape(p, R.sec, t))
    BY <1>3 DEF Peer, PeerShape
  <2>2. /\ Specified(p, R.sec, t) \in Key \cup {NoKey}
        /\ Specified(p, R.sec, t) # NoKey => KeyShape(p, Specified(p, R.sec, t), t)
    BY <2>1, SpecifiedType, SpecifiedShape
  <2> QED BY <1>3, <2>2, SecShape
<1>5. PeerShape(p, [P EXCEPT !.sec = k], t)
  BY <1>1, SecShape
<1> QED BY <1>4, <1>5 DEF ProcessSecondaryEvent

LEMMA FlushKeysShape ==
    ASSUME NEW p, NEW P \in Peer, NEW t \in Nat, PeerShape(p, P, t)
    PROVE  PeerShape(p, FlushKeys(p, P, t), t)
<1> DEFINE pri == PostAckAction(p, P.pri, t)
           sec == IF P.sec = NoKey THEN NoKey ELSE PostAckAction(p, P.sec, t)
           F == FlushKeys(p, P, t)
<1>1. pri \in Key /\ sec \in Key \cup {NoKey} /\ (sec # NoKey => sec \in Key)
  BY PostAckActionType DEF Peer
<1>2. KeyShape(p, pri, t) /\ (sec # NoKey => KeyShape(p, sec, t))
  BY PostAckActionShape DEF Peer, PeerShape
<1>3. F.pri = FlushedKey(pri) /\ F.sec = (IF sec = NoKey THEN NoKey ELSE FlushedKey(sec))
  BY DEF FlushKeys, Peer
<1> HIDE DEF pri, sec, F
<1>4. KeyShape(p, FlushedKey(pri), t) /\ (sec # NoKey => KeyShape(p, FlushedKey(sec), t))
  BY <1>1, <1>2, FlushedKeyShape
<1>5. PeerShape(p, F, t)
  BY <1>3, <1>4 DEF PeerShape
<1> QED BY <1>5 DEF F

LEMMA RoundShape ==
    ASSUME NEW p \in Side, NEW P \in Peer, NEW t \in Nat, PeerShape(p, P, t)
    PROVE  PeerShape(p, Round(p, P, t), t)
BY FlushKeysType, ProcessPrimaryEventType, FlushKeysShape, ProcessPrimaryEventShape,
   ProcessSecondaryEventShape DEF Round

LEMMA FlushShape ==
    ASSUME NEW p \in Side, NEW P \in Peer, NEW t \in Nat, PeerShape(p, P, t)
    PROVE  PeerShape(p, Flush(p, P, t), t)
BY RoundType, RoundShape DEF Flush

LEMMA ControlRecvShape ==
    ASSUME NEW p \in Side, NEW P \in Peer, NEW pk \in Packet, NEW t \in Nat, PeerShape(p, P, t)
    PROVE  PeerShape(p, ControlRecv(p, P, pk, t), t)
<1> DEFINE N == NewSecondaryKey(P, FALSE, t)
<1>1. N \in Peer /\ PeerShape(p, N, t) /\ N.sec \in Key /\ KeyShape(p, N.sec, t)
  <2>1. N \in Peer /\ PeerShape(p, N, t)
    BY NewSecondaryKeyType, NewSecondaryKeyShape
  <2>2. N.sec = NewKey(P.up, FALSE, t) /\ NewKey(P.up, FALSE, t) \in Key
    BY NewKeyType DEF NewSecondaryKey, Peer
  <2>3. KeyShape(p, NewKey(P.up, FALSE, t), t)
    BY NewKeyShape
  <2> HIDE DEF N
  <2> QED BY <2>1, <2>2, <2>3
<1>2. ASSUME NEW k \in Key, KeyShape(p, k, t)
      PROVE  NetRecv(p, k, pk) \in Key /\ KeyShape(p, NetRecv(p, k, pk), t)
  BY <1>2, NetRecvType, NetRecvShape
<1>3. PeerShape(p, Flush(p, [P EXCEPT !.pri = NetRecv(p, @, pk)], t), t)
  BY <1>2, PriType, PriShape, FlushShape DEF Peer, PeerShape
<1>4. P.sec # NoKey => PeerShape(p, Flush(p, [P EXCEPT !.sec = NetRecv(p, @, pk)], t), t)
  <2>1. P.sec # NoKey => P.sec \in Key /\ KeyShape(p, P.sec, t)
    BY DEF Peer, PeerShape
  <2> QED BY <1>2, <2>1, SecType, SecShape, FlushShape
<1>5. PeerShape(p, Flush(p, [N EXCEPT !.sec = NetRecv(p, @, pk)], t), t)
  <2> HIDE DEF N
  <2> QED BY <1>1, <1>2, SecType, SecShape, FlushShape
<1>6. PacketKey(P, pk) = "secondary" => P.sec # NoKey
  BY DEF PacketKey
<1> HIDE DEF N
<1> QED BY <1>3, <1>4, <1>5, <1>6 DEF ControlRecv, N

LEMMA PeerStepShape ==
    ASSUME TypeOK, KeysShape, NEW p \in Side, NEW Q, PeerStep(p, Q),
           ~ EarlyLimits => PeerShape(p, Q, now)
    PROVE  KeysShape'
<1> SUFFICES ASSUME ~ EarlyLimits, NEW q \in Side PROVE PeerShape(q, peer'[q], now')
  BY DEF KeysShape
<1>1. now' = now /\ peer'[q] = IF q = p THEN Q ELSE peer[q]
  BY DEF PeerStep, TypeOK
<1> QED BY <1>1 DEF KeysShape

--------------------------------------------------------------------------------
(* Every step keeps the shape of the keys.                                 *)

LEMMA InitShape == Init => KeysShape
<1> SUFFICES ASSUME Init, NEW p \in Side PROVE PeerShape(p, peer[p], now)
  BY DEF KeysShape
<1> DEFINE P == [pri |-> NewKey(0, p = "client", 0), sec |-> NoKey, up |-> NextKeyId(0),
                 sent |-> {}]
<1>1. P \in Peer
  <2>1. 0 \in 0..KeyIdMask
    BY MaskAssumption
  <2> QED BY <2>1, NewKeyType, NextKeyIdType DEF Peer
<1>2. PeerShape(p, P, 0)
  BY NewKeyShape DEF PeerShape
<1>3. peer[p] = Flush(p, P, 0) /\ now = 0
  BY DEF Init
<1> HIDE DEF P
<1> QED BY <1>1, <1>2, <1>3, FlushShape

LEMMA ShapeStep == TypeOK /\ KeysShape /\ [Next]_vars => KeysShape'
<1> SUFFICES ASSUME TypeOK, KeysShape, [Next]_vars PROVE KeysShape'
  OBVIOUS
<1>0. /\ now \in Nat
      /\ \A p \in Side : peer[p] \in Peer
      /\ ~ EarlyLimits => \A p \in Side : PeerShape(p, peer[p], now)
  BY NowType DEF TypeOK, KeysShape
<1>1. CASE Tick
  <2> SUFFICES ASSUME ~ EarlyLimits, NEW p \in Side PROVE PeerShape(p, peer[p], now + 1)
    BY <1>1 DEF Tick, KeysShape
  <2>1. PeerShape(p, peer[p], now) /\ peer[p].pri \in Key
        /\ (peer[p].sec # NoKey => peer[p].sec \in Key)
    BY <1>0 DEF Peer
  <2> QED BY <1>0, <2>1, LaterShape DEF PeerShape
<1>2. ASSUME NEW p \in Side, Housekeeping(p) PROVE KeysShape'
  <2>1. PeerStep(p, Flush(p, peer[p], now))
    BY <1>0, <1>2, FlushType DEF Housekeeping, PeerStep
  <2> QED BY <1>0, <2>1, FlushShape, PeerStepShape
<1>3. ASSUME NEW p \in Side, Receive(p) PROVE KeysShape'
  <2>1. PICK pk \in peer[Other(p)].sent :
            peer' = [peer EXCEPT ![p] = ControlRecv(p, @, pk, now)] /\ UNCHANGED <<mode, now>>
    BY <1>3 DEF Receive
  <2>2. pk \in Packet
    BY <1>0, OtherType DEF Peer
  <2>3. PeerStep(p, ControlRecv(p, peer[p], pk, now))
    BY <1>0, <2>1, <2>2, ControlRecvType DEF PeerStep
  <2> QED BY <1>0, <2>2, <2>3, ControlRecvShape, PeerStepShape
<1>4. ASSUME NEW p \in Side, Encrypt(p) PROVE KeysShape'
  <2> DEFINE P == peer[p]
             k == ScheduleKeyLimit(p, P.pri, now)
             Q == [P EXCEPT !.pri = k]
  <2>1. k \in Key /\ Q \in Peer
    BY <1>0, ScheduleKeyLimitType, PriType DEF Peer
  <2>2. ~ EarlyLimits => PeerShape(p, Q, now)
    <3>1. ~ EarlyLimits => KeyShape(p, k, now)
      BY <1>0, <1>4, ScheduleKeyLimitShape DEF Encrypt, ReachesLimit, Peer, PeerShape
    <3> QED BY <1>0, <2>1, <3>1, PriShape
  <2>3. PeerStep(p, Flush(p, Q, now))
    BY <1>0, <1>4, <2>1, FlushType DEF Encrypt, PeerStep
  <2> HIDE DEF Q
  <2> QED BY <1>0, <2>1, <2>2, <2>3, FlushShape, PeerStepShape
<1>5. ASSUME NEW p \in Side, Decrypt(p) PROVE KeysShape'
  <2> DEFINE P == peer[p]
  <2>1. PICK slot \in {"pri", "sec"}, red \in BOOLEAN :
          /\ Hears(p, slot)
          /\ red => ReachesLimit(p, P[slot])
          /\ peer' = [peer EXCEPT ![p] =
                         Flush(p, [P EXCEPT ![slot] = DataLimitAdd(p, @, red, now)], now)]
          /\ UNCHANGED <<mode, now>>
    BY <1>5 DEF Decrypt
  <2> DEFINE k == DataLimitAdd(p, P[slot], red, now)
             Q == [P EXCEPT ![slot] = k]
  <2>2. P[slot] \in Key /\ Active(P[slot])
    BY <1>0, <2>1 DEF Hears, Active, Peer
  <2>3. ~ EarlyLimits => KeyShape(p, P[slot], now)
    BY <1>0, <2>2 DEF PeerShape, Active
  <2>4. k \in Key /\ (~ EarlyLimits => KeyShape(p, k, now))
    BY <1>0, <2>1, <2>2, <2>3, DataLimitAddType, DataLimitAddShape DEF ReachesLimit
  <2> HIDE DEF k
  <2>5. Q \in Peer /\ (~ EarlyLimits => PeerShape(p, Q, now))
    BY <1>0, <2>4, PriType, SecType, PriShape, SecShape
  <2>6. PeerStep(p, Flush(p, Q, now))
    BY <1>0, <2>1, <2>5, FlushType DEF PeerStep, k
  <2> HIDE DEF Q
  <2> QED BY <1>0, <2>5, <2>6, FlushShape, PeerStepShape
<1>6. ASSUME NEW p \in Side, KeepaliveTimeout(p) PROVE KeysShape'
  <2>1. PeerStep(p, Disconnect(peer[p]))
    BY <1>0, <1>6, DisconnectType DEF KeepaliveTimeout, PeerStep
  <2> QED BY <1>0, <2>1, DisconnectShape, PeerStepShape
<1>7. CASE UNCHANGED vars
  BY <1>7 DEF KeysShape, vars
<1> QED BY <1>1, <1>2, <1>3, <1>4, <1>5, <1>6, <1>7 DEF Next

LEMMA ShapeCorrect == Spec => [](TypeOK /\ KeysShape)
BY InitType, InitShape, TypeStep, ShapeStep, PTL DEF Spec

(* A primary that has reached its limit is replaced within a second or     *)
(* two, or already retires, for every limit that is not reached while the  *)
(* key still waits to become the primary (schedule_key_limit_renegotiation,*)
(* prepare_expire).                                                        *)
THEOREM LimitCorrect ==
    ASSUME ~ EarlyLimits
    PROVE  Spec => []LimitHonoured
<1>1. KeysShape => LimitHonoured
  BY DEF KeysShape, PeerShape, KeyShape, LimitHonoured, Alive
<1> QED BY <1>1, ShapeCorrect, PTL

--------------------------------------------------------------------------------
(* What a peer is like when the loop of flush(true) has come to its end.   *)

(* The events that a key may wait for.                                     *)
Coming == {"negotiate", "becomePrimary", "primaryPending", "renegotiate", "renegotiateForce",
           "expire"}

LEMMA ShapeComing ==
    ASSUME NEW p, NEW t, NEW k, KeyShape(p, k, t), k.valid
    PROVE  k.next \in Coming
BY DEF KeyShape, Coming

LEMMA PrepareExpireFields ==
    ASSUME NEW p \in Side, NEW k \in Key, NEW t \in Nat
    PROVE  LET j == PrepareExpire(p, k, "none", t) IN
           j \in Key /\ j.cur = "none" /\ j.next = "expire" /\ j.st = k.st /\ j.valid = k.valid
<1> DEFINE at == IF k.fired THEN t + 2 * HandshakeWindow ELSE k.born + Expire[p]
           j == SetEvent(k, "none", "expire", at)
<1>1. j.cur = "none" /\ j.next = "expire" /\ j.st = k.st /\ j.valid = k.valid
  BY SetEventFields
<1>2. PrepareExpire(p, k, "none", t) \in Key
  BY PrepareExpireType DEF Event
<1> QED BY <1>1, <1>2 DEF PrepareExpire

LEMMA SpecifiedSame ==
    ASSUME NEW p, NEW t, NEW k, k # NoKey => KeyShape(p, k, t)
    PROVE  Specified(p, k, t) = k
BY ShapeComing DEF Specified, Coming

(* An event that is due is replaced by another one, or the key is over.    *)
LEMMA EventPendingCases ==
    ASSUME NEW p \in Side, NEW k \in Key, NEW t \in Nat, k.next \in Coming
    PROVE  LET e == EventPending(p, k, t) IN
           /\ k.cur # "none" \/ t < k.at => e = k
           /\ k.cur = "none" /\ k.at <= t =>
                 \/ /\ k.next = "becomePrimary" /\ e.cur = "none" /\ e.next = "primaryPending"
                    /\ e.st = k.st /\ e.valid = k.valid
                 \/ /\ k.next = "becomePrimary" /\ e.cur = "becomePrimary" /\ e.next = "renegotiate"
                    /\ e.st = k.st /\ e.valid = k.valid
                 \/ /\ k.next \in {"renegotiate", "renegotiateForce"}
                    /\ e.cur = k.next /\ e.next = "expire" /\ e.st = k.st /\ e.valid = k.valid
                 \/ /\ k.next \in {"negotiate", "primaryPending", "expire"}
                    /\ e.cur = k.next /\ e.st = k.st /\ ~ e.valid
<1> DEFINE e == EventPending(p, k, t)
<1>1. k.cur # "none" \/ t < k.at => e = k
  BY DEF EventPending
<1>2. ASSUME k.cur = "none", k.at <= t
      PROVE  \/ /\ k.next = "becomePrimary" /\ e.cur = "none" /\ e.next = "primaryPending"
                /\ e.st = k.st /\ e.valid = k.valid
             \/ /\ k.next = "becomePrimary" /\ e.cur = "becomePrimary" /\ e.next = "renegotiate"
                /\ e.st = k.st /\ e.valid = k.valid
             \/ /\ k.next \in {"renegotiate", "renegotiateForce"}
                /\ e.cur = k.next /\ e.next = "expire" /\ e.st = k.st /\ e.valid = k.valid
             \/ /\ k.next \in {"negotiate", "primaryPending", "expire"}
                /\ e.cur = k.next /\ e.st = k.st /\ ~ e.valid
  <2>0. ~ (k.cur # "none" \/ t < k.at)
    BY <1>2 DEF Key
  <2>1. CASE k.next = "becomePrimary" /\ DataLimitDefer(p, k)
    <3>1. e = SetEvent(k, "none", "primaryPending", t + 2 * HandshakeWindow)
      BY <2>0, <2>1 DEF EventPending
    <3> HIDE DEF e
    <3> QED BY <2>1, <3>1, SetEventFields
  <2>2. CASE k.next = "becomePrimary" /\ ~ DataLimitDefer(p, k)
    <3>1. e = SetEvent(k, "becomePrimary", "renegotiate", k.born + Renegotiate[p])
      BY <2>0, <2>2 DEF EventPending
    <3> HIDE DEF e
    <3> QED BY <2>2, <3>1, SetEventFields
  <2>3. CASE k.next \in {"renegotiate", "renegotiateForce"}
    <3> DEFINE at == IF k.fired THEN t + 2 * HandshakeWindow ELSE k.born + Expire[p]
    <3>1. e = SetEvent(k, k.next, "expire", at)
      BY <2>0, <2>3 DEF EventPending, PrepareExpire
    <3> HIDE DEF e, at
    <3> QED BY <2>3, <3>1 DEF SetEvent, Key
  <2>4. CASE k.next \in {"negotiate", "primaryPending", "expire"}
    <3> DEFINE i == Invalidate(k)
    <3>1. e = [i EXCEPT !.cur = k.next]
      BY <2>0, <2>4 DEF EventPending
    <3>2. i \in Key /\ ~ i.valid /\ i.st = k.st
      BY InvalidateType, InvalidateFields
    <3> HIDE DEF e, i
    <3>3. e.cur = k.next /\ e.st = i.st /\ e.valid = i.valid
      BY <3>1, <3>2 DEF Key
    <3> QED BY <2>4, <3>2, <3>3
  <2> QED BY <2>1, <2>2, <2>3, <2>4 DEF Coming
<1> QED BY <1>1, <1>2

(* What the flush of the packets does to a key: a handshake that has been  *)
(* acknowledged goes on.                                                   *)
LEMMA FlushedCases ==
    ASSUME NEW p, NEW k \in Key, NEW t \in Nat
    PROVE  LET j == FlushedKey(PostAckAction(p, k, t)) IN
           /\ j \in Key /\ j.valid = k.valid
           /\ \/ j.st = k.st /\ j.cur = k.cur /\ j.next = k.next /\ j.at = k.at
              \/ /\ k.st = "waitResetAck" /\ j.st = "waitAuth"
                 /\ j.cur = k.cur /\ j.next = k.next /\ j.at = k.at
              \/ k.st = "waitAuthAck" /\ j.st = "active" /\ j.cur = "active"
<1> DEFINE q == PostAckAction(p, k, t)
           j == FlushedKey(q)
<1>0. "hello" \in Message /\ {"waitAuth", "active"} \subseteq State
  BY DEF Message, State
<1>1. /\ q \in Key /\ q.valid = k.valid
      /\ \/ q.st = k.st /\ q.cur = k.cur /\ q.next = k.next /\ q.at = k.at
         \/ /\ k.st = "waitResetAck" /\ q.st = "waitAuth"
            /\ q.cur = k.cur /\ q.next = k.next /\ q.at = k.at
         \/ k.st = "waitAuthAck" /\ q.st = "active" /\ q.cur = "active"
  <2>1. CASE k.acked = k.out /\ k.st = "waitResetAck"
    <3> DEFINE h == IF p = "client" THEN Queued(k, "hello") ELSE k
    <3>1. q = To(h, "waitAuth")
      BY <2>1 DEF PostAckAction
    <3>2. h \in Key /\ h.cur = k.cur /\ h.next = k.next /\ h.at = k.at /\ h.valid = k.valid
      BY <1>0, QueuedFields
    <3> HIDE DEF h, q
    <3> QED BY <1>0, <2>1, <3>1, <3>2, ToFields
  <2>2. CASE k.acked = k.out /\ k.st = "waitAuthAck"
    <3> DEFINE h == To(k, "active")
    <3>1. q = SetEvent(h, "active", "becomePrimary", t + BecomePrimary)
      BY <2>2 DEF PostAckAction
    <3>2. h \in Key /\ h.st = "active" /\ h.valid = k.valid
      BY <1>0, ToFields
    <3>3. q \in Key
      BY PostAckActionType
    <3> HIDE DEF h, q
    <3> QED BY <2>2, <3>1, <3>2, <3>3, SetEventFields
  <2>3. CASE ~ (k.acked = k.out /\ k.st \in {"waitResetAck", "waitAuthAck"})
    BY <2>3 DEF PostAckAction
  <2> QED BY <2>1, <2>2, <2>3
<1> HIDE DEF q
<1>2. /\ j \in Key /\ j.cur = q.cur /\ j.next = q.next /\ j.at = q.at /\ j.st = q.st
      /\ j.valid = q.valid
  BY <1>1, FlushedKeyFields
<1> HIDE DEF j
<1>3. /\ j \in Key /\ j.valid = k.valid
      /\ \/ j.st = k.st /\ j.cur = k.cur /\ j.next = k.next /\ j.at = k.at
         \/ /\ k.st = "waitResetAck" /\ j.st = "waitAuth"
            /\ j.cur = k.cur /\ j.next = k.next /\ j.at = k.at
         \/ k.st = "waitAuthAck" /\ j.st = "active" /\ j.cur = "active"
  BY <1>1, <1>2
<1> QED BY <1>3 DEF j, q

(* What is left of the two keys after the event of the primary.            *)
PrimaryOutcome(p, P, t, e, c, N) ==
    \/ e.cur = "none" /\ N.pri = e /\ N.sec = P.sec
    \/ /\ e.cur \in {"renegotiate", "renegotiateForce"}
       /\ N.pri = c /\ N.sec = NewKey(P.up, TRUE, t)
    \/ /\ e.cur = "expire" /\ P.sec # NoKey /\ P.sec.valid
       /\ N.pri = P.sec /\ N.sec = PrepareExpire(p, c, "none", t)
    \/ /\ e.cur \in {"expire", "negotiate"}
       /\ N.pri = Invalidate(c) /\ (N.sec = NoKey \/ ~ N.sec.valid)
    \/ /\ e.cur \notin {"none", "renegotiate", "renegotiateForce", "expire", "negotiate"}
       /\ N.pri = c /\ N.sec = P.sec

LEMMA PrimaryCases ==
    ASSUME NEW p \in Side, NEW P \in Peer, NEW t \in Nat, PeerShape(p, P, t)
    PROVE  LET e == EventPending(p, P.pri, t) IN
           PrimaryOutcome(p, P, t, e, [e EXCEPT !.cur = "none"], ProcessPrimaryEvent(p, P, t))
<1> DEFINE k == EventPending(p, P.pri, t)
           c == [k EXCEPT !.cur = "none"]
           Q == [P EXCEPT !.pri = c]
           R == CASE k.cur \in {"renegotiate", "renegotiateForce"} -> NewSecondaryKey(Q, TRUE, t)
                  [] k.cur = "expire" /\ P.sec # NoKey /\ P.sec.valid -> Promote(p, Q, t)
                  [] k.cur = "expire" /\ ~ (P.sec # NoKey /\ P.sec.valid) -> Disconnect(Q)
                  [] k.cur = "negotiate" -> Disconnect(Q)
                  [] OTHER -> Q
           N == ProcessPrimaryEvent(p, P, t)
<1>1. k \in Key /\ KeyShape(p, k, t)
  BY EventPendingType, EventPendingShape DEF Peer, PeerShape
<1>2. c \in Key /\ KeyShape(p, c, t)
  BY <1>1, ClearedFields, ClearedShape
<1>3. /\ N = IF k.cur = "none" THEN [P EXCEPT !.pri = k]
             ELSE [R EXCEPT !.pri = Specified(p, @, t)]
  BY DEF ProcessPrimaryEvent
<1> HIDE DEF k, c, N
<1>4. Q \in Peer /\ PeerShape(p, Q, t) /\ Q.pri = c /\ Q.sec = P.sec /\ Q.up = P.up
  <2>1. Q.pri = c /\ Q.sec = P.sec /\ Q.up = P.up
    BY DEF Peer
  <2> HIDE DEF Q
  <2> QED BY <1>2, <2>1, PriType, PriShape DEF Q
<1> HIDE DEF Q
<1>5. /\ R \in Peer
      /\ R.pri # NoKey => KeyShape(p, R.pri, t)
      /\ \/ /\ k.cur \in {"renegotiate", "renegotiateForce"}
            /\ R.pri = c /\ R.sec = NewKey(P.up, TRUE, t)
         \/ /\ k.cur = "expire" /\ P.sec # NoKey /\ P.sec.valid
            /\ R.pri = P.sec /\ R.sec = PrepareExpire(p, c, "none", t)
         \/ /\ k.cur \in {"expire", "negotiate"}
            /\ R.pri = Invalidate(c) /\ (R.sec = NoKey \/ ~ R.sec.valid)
         \/ /\ k.cur \notin {"renegotiate", "renegotiateForce", "expire", "negotiate"}
            /\ R = Q
  <2>1. CASE k.cur \in {"renegotiate", "renegotiateForce"}
    <3>1. R = NewSecondaryKey(Q, TRUE, t)
      BY <2>1
    <3> HIDE DEF R
    <3>2. R \in Peer /\ PeerShape(p, R, t)
      BY <1>4, <3>1, NewSecondaryKeyType, NewSecondaryKeyShape
    <3>3. R.pri = c /\ R.sec = NewKey(P.up, TRUE, t)
      BY <1>4, <3>1 DEF NewSecondaryKey, Peer
    <3> QED BY <2>1, <3>2, <3>3 DEF PeerShape
  <2>2. CASE k.cur = "expire" /\ P.sec # NoKey /\ P.sec.valid
    <3>1. R = Promote(p, Q, t)
      BY <2>2
    <3> HIDE DEF R
    <3>2. R \in Peer /\ PeerShape(p, R, t)
      BY <1>4, <2>2, <3>1, PromoteType, PromoteShape
    <3>3. R.pri = P.sec /\ R.sec = PrepareExpire(p, c, "none", t)
      BY <1>4, <3>1 DEF Promote, Peer
    <3> QED BY <2>2, <3>2, <3>3 DEF PeerShape
  <2>3. CASE k.cur = "negotiate" \/ (k.cur = "expire" /\ ~ (P.sec # NoKey /\ P.sec.valid))
    <3>1. R = Disconnect(Q)
      BY <2>3
    <3> HIDE DEF R
    <3>2. R \in Peer /\ PeerShape(p, R, t)
      BY <1>4, <3>1, DisconnectType, DisconnectShape
    <3>3. /\ R.pri = Invalidate(c)
          /\ R.sec = IF P.sec = NoKey THEN P.sec ELSE Invalidate(P.sec)
      BY <1>4, <3>1 DEF Disconnect, Peer
    <3>4. R.sec = NoKey \/ ~ R.sec.valid
      BY <3>3, InvalidateFields DEF Peer
    <3> QED BY <2>3, <3>2, <3>3, <3>4 DEF PeerShape
  <2>4. CASE k.cur \notin {"renegotiate", "renegotiateForce", "expire", "negotiate"}
    BY <1>4, <2>4 DEF PeerShape
  <2> QED BY <2>1, <2>2, <2>3, <2>4
<1> HIDE DEF R
<1>6. [R EXCEPT !.pri = Specified(p, @, t)] = R
  <2>1. Specified(p, R.pri, t) = R.pri
    BY <1>5, SpecifiedSame
  <2> QED BY <1>5, <2>1 DEF Peer
<1>7. k.cur = "none" => N.pri = k /\ N.sec = P.sec
  BY <1>3 DEF Peer
<1>8. PrimaryOutcome(p, P, t, k, c, N)
  BY <1>3, <1>4, <1>5, <1>6, <1>7 DEF PrimaryOutcome
<1> QED BY <1>8 DEF k, c, N

(* The same of the event of the secondary.                                 *)
SecondaryOutcome(p, P, t, f, c, N) ==
    \/ f.cur = "none" /\ N.pri = P.pri /\ N.sec = f
    \/ f.cur = "active" /\ N.pri = PrepareExpire(p, P.pri, "none", t) /\ N.sec = c
    \/ /\ f.cur = "becomePrimary" /\ f.valid
       /\ N.pri = c /\ N.sec = PrepareExpire(p, P.pri, "none", t)
    \/ f.cur = "expire" /\ N.pri = P.pri /\ N.sec = NoKey
    \/ /\ f.cur \in {"negotiate", "primaryPending", "renegotiateForce"}
       /\ N.pri = P.pri /\ N.sec = NewKey(P.up, TRUE, t)
    \/ /\ f.cur \notin {"none", "active", "expire", "negotiate", "primaryPending",
                        "renegotiateForce"}
       /\ N.pri = P.pri /\ N.sec = c

LEMMA SecondaryCases ==
    ASSUME NEW p \in Side, NEW P \in Peer, NEW t \in Nat, PeerShape(p, P, t), P.sec # NoKey
    PROVE  LET f == EventPending(p, P.sec, t) IN
           SecondaryOutcome(p, P, t, f, [f EXCEPT !.cur = "none"], ProcessSecondaryEvent(p, P, t))
<1> DEFINE k == EventPending(p, P.sec, t)
           c == [k EXCEPT !.cur = "none"]
           Q == [P EXCEPT !.sec = c]
           R == CASE k.cur = "active" -> [Q EXCEPT !.pri = PrepareExpire(p, @, "none", t)]
                  [] k.cur = "becomePrimary" /\ k.valid -> Promote(p, Q, t)
                  [] k.cur = "expire" -> [Q EXCEPT !.sec = NoKey]
                  [] k.cur = "renegotiateQueue" /\ k.next = "becomePrimary" ->
                        [Q EXCEPT !.pri = KeyLimitReneg(p, @, "renegotiateForce", k.at)]
                  [] k.cur \in {"negotiate", "primaryPending", "renegotiateForce"} ->
                        NewSecondaryKey(Q, TRUE, t)
                  [] OTHER -> Q
           N == ProcessSecondaryEvent(p, P, t)
<1>1. k \in Key /\ KeyShape(p, k, t) /\ k.cur # "renegotiateQueue"
  BY EventPendingType, EventPendingShape DEF Peer, PeerShape, KeyShape
<1>2. c \in Key /\ KeyShape(p, c, t)
  BY <1>1, ClearedFields, ClearedShape
<1>3. N = IF k.cur = "none" THEN [P EXCEPT !.sec = k] ELSE [R EXCEPT !.sec = Specified(p, @, t)]
  BY DEF ProcessSecondaryEvent
<1> HIDE DEF k, c, N
<1>4. Q \in Peer /\ PeerShape(p, Q, t) /\ Q.pri = P.pri /\ Q.sec = c /\ Q.up = P.up
  <2>1. Q.pri = P.pri /\ Q.sec = c /\ Q.up = P.up
    BY DEF Peer
  <2> HIDE DEF Q
  <2> QED BY <1>2, <2>1, SecType, SecShape DEF Q
<1>5. c # NoKey
  BY <1>2, NoKeyAssumption
<1> HIDE DEF Q
<1>6. PrepareExpire(p, P.pri, "none", t) \in Key /\ KeyShape(p, PrepareExpire(p, P.pri, "none", t), t)
  BY PrepareExpireFields, PrepareExpireShape DEF Peer, PeerShape
<1>7. /\ R \in Peer
      /\ R.sec # NoKey => KeyShape(p, R.sec, t)
      /\ \/ k.cur = "active" /\ R.pri = PrepareExpire(p, P.pri, "none", t) /\ R.sec = c
         \/ /\ k.cur = "becomePrimary" /\ k.valid
            /\ R.pri = c /\ R.sec = PrepareExpire(p, P.pri, "none", t)
         \/ k.cur = "expire" /\ R.pri = P.pri /\ R.sec = NoKey
         \/ /\ k.cur \in {"negotiate", "primaryPending", "renegotiateForce"}
            /\ R.pri = P.pri /\ R.sec = NewKey(P.up, TRUE, t)
         \/ /\ k.cur \notin {"active", "expire", "negotiate", "primaryPending", "renegotiateForce"}
            /\ R = Q
  <2>1. CASE k.cur = "active"
    <3>1. R = [Q EXCEPT !.pri = PrepareExpire(p, P.pri, "none", t)]
      BY <1>4, <2>1
    <3> HIDE DEF R
    <3>2. R \in Peer
      BY <1>4, <1>6, <3>1, PriType
    <3>3. R.pri = PrepareExpire(p, P.pri, "none", t) /\ R.sec = c
      BY <1>4, <3>1 DEF Peer
    <3> QED BY <1>2, <2>1, <3>2, <3>3
  <2>2. CASE k.cur = "becomePrimary" /\ k.valid
    <3>1. R = Promote(p, Q, t)
      BY <2>2
    <3> HIDE DEF R
    <3>2. R \in Peer
      BY <1>4, <1>5, <3>1, PromoteType
    <3>3. R.pri = c /\ R.sec = PrepareExpire(p, P.pri, "none", t)
      BY <1>4, <3>1 DEF Promote, Peer
    <3> QED BY <1>6, <2>2, <3>2, <3>3
  <2>3. CASE k.cur = "expire"
    <3>1. R = [Q EXCEPT !.sec = NoKey]
      BY <2>3
    <3> HIDE DEF R
    <3>2. R \in Peer /\ R.pri = P.pri /\ R.sec = NoKey
      BY <1>4, <3>1 DEF Peer
    <3> QED BY <2>3, <3>2
  <2>4. CASE k.cur \in {"negotiate", "primaryPending", "renegotiateForce"}
    <3>1. R = NewSecondaryKey(Q, TRUE, t)
      BY <2>4
    <3> HIDE DEF R
    <3>2. R \in Peer
      BY <1>4, <3>1, NewSecondaryKeyType
    <3>3. R.pri = P.pri /\ R.sec = NewKey(P.up, TRUE, t)
      BY <1>4, <3>1 DEF NewSecondaryKey, Peer
    <3> QED BY <2>4, <3>2, <3>3, NewKeyShape
  <2>5. CASE /\ k.cur \notin {"active", "expire", "negotiate", "primaryPending", "renegotiateForce"}
             /\ ~ (k.cur = "becomePrimary" /\ k.valid)
    <3>1. R = Q
      BY <1>1, <2>5
    <3> HIDE DEF R
    <3> QED BY <1>2, <1>4, <2>5, <3>1
  <2> QED BY <2>1, <2>2, <2>3, <2>4, <2>5
<1> HIDE DEF R
<1>8. [R EXCEPT !.sec = Specified(p, @, t)] = R
  <2>1. Specified(p, R.sec, t) = R.sec
    BY <1>7, SpecifiedSame
  <2> QED BY <1>7, <2>1 DEF Peer
<1>9. k.cur = "none" => N.pri = P.pri /\ N.sec = k
  BY <1>3 DEF Peer
<1>10. SecondaryOutcome(p, P, t, k, c, N)
  BY <1>3, <1>4, <1>7, <1>8, <1>9 DEF SecondaryOutcome
<1> QED BY <1>10 DEF k, c, N

LEMMA EventPendingValid ==
    ASSUME NEW p \in Side, NEW k \in Key, NEW t, EventPending(p, k, t).valid
    PROVE  k.valid
<1> SUFFICES ASSUME ~ k.valid PROVE FALSE
  OBVIOUS
<1>1. \A cur, next, at : ~ SetEvent(k, cur, next, at).valid
  BY DEF SetEvent, Key
<1>2. Invalidate(k) = k /\ ~ [k EXCEPT !.cur = k.next].valid
  BY DEF Invalidate, Key
<1> QED BY <1>1, <1>2 DEF EventPending, PrepareExpire

(* What the flush of the packets makes of the key k.                       *)
Went(k, j) ==
    /\ j.valid = k.valid
    /\ \/ j.st = k.st /\ j.cur = k.cur /\ j.next = k.next /\ j.at = k.at
       \/ /\ k.st = "waitResetAck" /\ j.st = "waitAuth"
          /\ j.cur = k.cur /\ j.next = k.next /\ j.at = k.at
       \/ k.st = "waitAuthAck" /\ j.st = "active" /\ j.cur = "active"

(* What is left of the key k when its event is due.                        *)
Due(k, e) ==
    \/ /\ k.next = "becomePrimary" /\ e.cur = "none" /\ e.next = "primaryPending"
       /\ e.st = k.st /\ e.valid = k.valid
    \/ /\ k.next = "becomePrimary" /\ e.cur = "becomePrimary" /\ e.next = "renegotiate"
       /\ e.st = k.st /\ e.valid = k.valid
    \/ /\ k.next \in {"renegotiate", "renegotiateForce"}
       /\ e.cur = k.next /\ e.next = "expire" /\ e.st = k.st /\ e.valid = k.valid
    \/ /\ k.next \in {"negotiate", "primaryPending", "expire"}
       /\ e.cur = k.next /\ e.st = k.st /\ ~ e.valid

(* Where another round of flush changes nothing, no key that is valid has  *)
(* an event that is due: each event that is served leaves a trace in one   *)
(* of the two keys.                                                        *)
LEMMA ServedKeys ==
    ASSUME NEW p \in Side, NEW P \in Peer, NEW t \in Nat, PeerShape(p, P, t), P.pri.valid,
           Round(p, P, t) = P
    PROVE  /\ t < P.pri.at /\ (P.sec # NoKey /\ P.sec.valid => t < P.sec.at)
           /\ P.pri.cur = "none" /\ (P.sec # NoKey => P.sec.cur = "none")
<1> DEFINE P1 == FlushKeys(p, P, t)
           P2 == ProcessPrimaryEvent(p, P1, t)
           a == P1.pri
           s == P1.sec
           e == EventPending(p, a, t)
           c == [e EXCEPT !.cur = "none"]
           f == EventPending(p, P2.sec, t)
           d == [f EXCEPT !.cur = "none"]
           x == PrepareExpire(p, c, "none", t)
           y == PrepareExpire(p, P2.pri, "none", t)
<1>1. P1 \in Peer /\ PeerShape(p, P1, t)
  BY FlushKeysType, FlushKeysShape
<1>2. P2 \in Peer /\ PeerShape(p, P2, t)
  BY <1>1, ProcessPrimaryEventType, ProcessPrimaryEventShape
<1>3. /\ a \in Key /\ Went(P.pri, a)
      /\ s = NoKey <=> P.sec = NoKey
      /\ s # NoKey => s \in Key /\ Went(P.sec, s)
  <2>1. a = FlushedKey(PostAckAction(p, P.pri, t))
    BY DEF FlushKeys, Peer
  <2>2. P.sec = NoKey => s = NoKey
    BY DEF FlushKeys, Peer
  <2>3. P.sec # NoKey => s = FlushedKey(PostAckAction(p, P.sec, t))
    BY PostAckActionType, NoKeyAssumption DEF FlushKeys, Peer
  <2> HIDE DEF P1
  <2>4. P.pri \in Key /\ (P.sec # NoKey => P.sec \in Key)
    BY DEF Peer
  <2>5. ASSUME NEW k \in Key
        PROVE  FlushedKey(PostAckAction(p, k, t)) \in Key /\ Went(k, FlushedKey(PostAckAction(p, k, t)))
    BY FlushedCases DEF Went
  <2> QED BY <2>1, <2>2, <2>3, <2>4, <2>5, NoKeyAssumption
<1>4. KeyShape(p, a, t) /\ (s # NoKey => KeyShape(p, s, t))
  BY <1>1 DEF PeerShape
<1>5. P2.pri \in Key /\ (P2.sec # NoKey => P2.sec \in Key /\ KeyShape(p, P2.sec, t))
  BY <1>2 DEF Peer, PeerShape
<1>6. e \in Key /\ PrimaryOutcome(p, P1, t, e, c, P2)
  BY <1>1, <1>3, EventPendingType, PrimaryCases
<1>7. P2.sec # NoKey => f \in Key /\ SecondaryOutcome(p, P2, t, f, d, P)
  BY <1>2, <1>5, EventPendingType, SecondaryCases DEF Round
<1>8. P2.sec = NoKey => P = P2
  <2>1. P = ProcessSecondaryEvent(p, P2, t)
    BY DEF Round
  <2> HIDE DEF P2
  <2> QED BY <2>1 DEF ProcessSecondaryEvent
<1>9. /\ c \in Key /\ c.cur = "none" /\ c.st = e.st /\ c.next = e.next /\ c.valid = e.valid
      /\ P2.sec # NoKey => d.cur = "none" /\ d.st = f.st /\ d.next = f.next /\ d.valid = f.valid
  BY <1>6, <1>7, ClearedFields
<1>10. /\ x \in Key /\ x.cur = "none" /\ x.next = "expire" /\ x.valid = c.valid
       /\ y.cur = "none" /\ y.next = "expire" /\ y.st = P2.pri.st /\ y.valid = P2.pri.valid
  <2> HIDE DEF P2, c
  <2> QED BY <1>5, <1>9, PrepareExpireFields
<1>11. \A id : LET k == NewKey(id, TRUE, t) IN
         k.cur = "none" /\ k.next = "negotiate" /\ k.at = t + HandshakeWindow
  BY DEF NewKey
<1>12. \A k \in Key : k.next \in Coming =>
         /\ k.cur # "none" \/ t < k.at => EventPending(p, k, t) = k
         /\ k.cur = "none" /\ k.at <= t => Due(k, EventPending(p, k, t))
  BY EventPendingCases DEF Due
<1>13. a.next \in Coming /\ (s # NoKey /\ s.valid => s.next \in Coming)
  BY <1>3, <1>4, ShapeComing DEF Went
<1>14. /\ a.cur # "none" \/ t < a.at => e = a
       /\ a.cur = "none" /\ a.at <= t => Due(a, e)
  BY <1>3, <1>12, <1>13
<1>15. /\ P2.sec # NoKey /\ P2.sec.next \in Coming =>
             /\ P2.sec.cur # "none" \/ t < P2.sec.at => f = P2.sec
             /\ P2.sec.cur = "none" /\ P2.sec.at <= t => Due(P2.sec, f)
       /\ P2.sec # NoKey /\ f.valid => P2.sec.valid /\ P2.sec.next \in Coming
  BY <1>5, <1>12, EventPendingValid, ShapeComing
<1>inv. ~ Invalidate(c).valid /\ Invalidate(c).cur = "none" /\ Invalidate(c).st = e.st
  <2> HIDE DEF c
  <2> QED BY <1>9, InvalidateFields
<1>nat. /\ a.at \in Nat /\ (s # NoKey => s.at \in Nat) /\ (P2.sec # NoKey => P2.sec.at \in Nat)
      /\ HandshakeWindow \in Nat /\ HandshakeWindow > 0
  BY <1>3, <1>5, Durations DEF Key
<1> HIDE DEF P1, P2, e, c, f, d, x, y
(* A secondary has no current event.                                       *)
<1>16. P.sec = NoKey \/ P.sec.cur = "none"
  BY <1>7, <1>8, <1>9, <1>10, <1>11 DEF SecondaryOutcome, y
(* The event of the primary has not promoted the secondary.                *)
<1>17. ~ (e.cur = "expire" /\ s # NoKey /\ s.valid /\ P2.pri = s /\ P2.sec = x)
  <2> SUFFICES ASSUME e.cur = "expire", s # NoKey, s.valid, P2.pri = s, P2.sec = x PROVE FALSE
    OBVIOUS
  <2>1. P.sec # NoKey /\ x # NoKey
    BY <1>3, <1>10, NoKeyAssumption
  <2>2. P.sec = x /\ P.pri = s
    <3>1. x.next \in Coming
      BY <1>10 DEF Coming
    <3>2. f = x \/ Due(x, f)
      BY <1>10, <1>15, <1>nat, <2>1, <3>1
    <3>3. f.cur = "expire" \/ f = x
      BY <1>10, <3>2 DEF Due
    <3> QED BY <1>7, <1>10, <2>1, <3>3 DEF SecondaryOutcome
  <2>3. e.valid
    BY <1>3, <1>9, <1>10, <2>1, <2>2 DEF Went
  <2>4. e = a
    <3>1. ~ Due(a, e)
      BY <2>3 DEF Due
    <3> QED BY <1>14, <1>nat, <3>1
  <2>5. s.cur = "expire"
    BY <1>3, <2>2, <2>4 DEF Went
  <2> QED BY <1>3, <1>16, <2>1, <2>5 DEF Went
<1>18. P2.pri.cur = "none"
  BY <1>6, <1>9, <1>17, <1>inv DEF PrimaryOutcome, x
(* The event of the secondary has not promoted it.                         *)
<1>19. P2.sec # NoKey => ~ (f.cur = "becomePrimary" /\ f.valid /\ P.sec = y)
  <2> SUFFICES ASSUME P2.sec # NoKey, f.cur = "becomePrimary", f.valid, P.sec = y PROVE FALSE
    OBVIOUS
  <2>1. P2.sec.valid /\ P2.sec.next \in Coming
    BY <1>15
  <2>2. P2.sec.cur = "becomePrimary" \/ (P2.sec.cur = "none" /\ P2.sec.next = "becomePrimary")
    <3>1. f = P2.sec \/ (P2.sec.cur = "none" /\ Due(P2.sec, f))
      BY <1>15, <1>nat, <2>1
    <3> QED BY <3>1 DEF Due
  <2>3. P2.sec = s
    BY <1>6, <1>11, <1>17, <2>1, <2>2 DEF PrimaryOutcome, x
  <2>4. s # NoKey /\ Went(P.sec, s) /\ P.sec.cur = "none" /\ P.sec.next = "expire"
    BY <1>3, <1>10, <2>3
  <2> QED BY <2>2, <2>3, <2>4 DEF Went
<1>20. /\ P.pri.cur = "none" /\ P.pri.st = P2.pri.st /\ P.pri.valid = P2.pri.valid
       /\ P.pri.next = P2.pri.next \/ P.pri.next = "expire"
  <2>1. CASE P2.sec = NoKey
    BY <1>8, <1>18, <2>1
  <2>2. CASE P2.sec # NoKey
    <3>1. P.pri = P2.pri \/ P.pri = y
      BY <1>7, <1>19, <2>2 DEF SecondaryOutcome, y
    <3> QED BY <1>10, <1>18, <3>1
  <2> QED BY <2>1, <2>2
(* The primary waits, as it did before the round.                          *)
<1>21. P2.pri.st = e.st /\ (P2.pri.valid => e.valid /\ P2.pri.next = e.next)
  BY <1>6, <1>9, <1>17, <1>inv DEF PrimaryOutcome, x
<1>22. e.st = a.st
  BY <1>14, <1>nat DEF Due
<1>23. a.cur = "none" /\ a.next = P.pri.next /\ a.at = P.pri.at
  BY <1>3, <1>20, <1>21, <1>22 DEF Went
<1>24. t < a.at
  <2> SUFFICES ASSUME a.at <= t PROVE FALSE
    BY <1>nat
  <2>1. Due(a, e)
    BY <1>14, <1>23
  <2>2. e.valid /\ (a.next = e.next \/ a.next = "expire")
    BY <1>20, <1>21, <1>23
  <2> QED BY <2>1, <2>2 DEF Due
(* So does the secondary.                                                  *)
<1>25. P2.sec = s
  BY <1>6, <1>14, <1>23, <1>24 DEF PrimaryOutcome
<1>26. ASSUME P.sec # NoKey, P.sec.valid PROVE t < P.sec.at
  <2>1. s # NoKey /\ Went(P.sec, s) /\ s.next \in Coming /\ P.sec.cur = "none"
    BY <1>3, <1>13, <1>16, <1>26 DEF Went
  <2>2. s.cur = "none"
    <3> SUFFICES ASSUME s.cur # "none" PROVE FALSE
      OBVIOUS
    <3>1. s.cur = "active" /\ s.st = "active" /\ P.sec.st = "waitAuthAck"
      BY <2>1 DEF Went
    <3>2. f = s
      BY <1>15, <1>25, <2>1
    <3>3. P.sec = d
      BY <1>7, <1>25, <2>1, <3>1, <3>2 DEF SecondaryOutcome
    <3> QED BY <1>9, <1>25, <2>1, <3>1, <3>2, <3>3
  <2>3. s.next = P.sec.next /\ s.at = P.sec.at
    BY <2>1, <2>2 DEF Went
  <2> SUFFICES ASSUME s.at <= t PROVE FALSE
    BY <1>nat, <2>1, <2>3
  <2>4. Due(s, f)
    BY <1>15, <1>25, <2>1, <2>2
  <2>5. \/ P.sec.next = f.next /\ f.cur \in {"none", "active", "becomePrimary", "renegotiate"}
        \/ P.sec.next = "negotiate" /\ P.sec.at = t + HandshakeWindow
    BY <1>7, <1>9, <1>11, <1>19, <1>25, <1>26, <2>1, <2>4 DEF SecondaryOutcome, Due, y
  <2> QED BY <1>nat, <2>3, <2>4, <2>5 DEF Due
<1> QED BY <1>16, <1>20, <1>23, <1>24, <1>26

(* The keys of an end whose events have all been served.                   *)
LEMMA ServedShape ==
    ASSUME TypeOK, KeysShape, ~ EarlyLimits, NEW p \in Side, Alive(p), Served(p),
           NEW k \in Keys(p), k.valid
    PROVE  k \in Key /\ KeyShape(p, k, now) /\ now < k.at
<1>1. peer[p] \in Peer /\ now \in Nat /\ PeerShape(p, peer[p], now)
  BY NowType DEF TypeOK, KeysShape
<1>2. /\ now < peer[p].pri.at
      /\ peer[p].sec # NoKey /\ peer[p].sec.valid => now < peer[p].sec.at
  BY <1>1, ServedKeys DEF Alive, Served
<1>3. CASE k = peer[p].pri
  BY <1>1, <1>2, <1>3 DEF Peer, PeerShape
<1>4. CASE peer[p].sec # NoKey /\ k = peer[p].sec
  BY <1>1, <1>2, <1>4 DEF Peer, PeerShape
<1> QED BY <1>3, <1>4 DEF Keys

(* Every key that is valid has an event to come, and not later than by the *)
(* age of the key or from the present on, whichever events have replaced   *)
(* one another in its slot (process_next_event, prepare_expire,            *)
(* key_limit_reneg).                                                       *)
THEOREM LifetimeCorrect ==
    ASSUME ~ EarlyLimits
    PROVE  Spec => []KeyLifetime
<1>1. TypeOK /\ KeysShape => KeyLifetime
  <2> SUFFICES ASSUME TypeOK, KeysShape, NEW p \in Side, Alive(p), Served(p),
                      NEW k \in Keys(p), k.valid
               PROVE  k.next # "none" /\ now < k.at /\ k.at <= NextEventBy(p, k)
    BY DEF KeyLifetime
  <2>1. k \in Key /\ KeyShape(p, k, now) /\ now < k.at /\ now \in Nat
    BY ServedShape, NowType
  <2>2. k.next \in Coming
    BY <2>1, ShapeComing
  <2>3. k.at <= NextEventBy(p, k)
    <3>1. /\ now + 2 <= now + 2 * HandshakeWindow
          /\ k.born + HandshakeWindow \in Nat
          /\ k.born + Renegotiate[p] \in Nat /\ k.born + Expire[p] \in Nat
      <4>1. k.born \in Nat /\ now \in Nat
        BY <2>1 DEF Key
      <4> QED BY <4>1, Durations
    <3>2. CASE k.fired
      <4>1. NextEventBy(p, k) = now + 2 * HandshakeWindow
        BY <3>2 DEF NextEventBy
      <4>2. k.at <= now + 2 * HandshakeWindow \/ k.at <= now + 2
        BY <2>1, <3>2 DEF KeyShape
      <4>3. now + 2 * HandshakeWindow \in Nat /\ k.at \in Nat
        BY <2>1, Durations DEF Key
      <4> QED BY <2>1, <3>1, <4>1, <4>2, <4>3
    <3>3. CASE ~ k.fired
      BY <2>1, <3>1, <3>3 DEF NextEventBy, KeyShape, Key
    <3> QED BY <3>2, <3>3
  <2> QED BY <2>1, <2>2, <2>3 DEF Coming
<1> QED BY <1>1, ShapeCorrect, PTL

(* No handshake outlives the handshake window, whatever is lost and        *)
(* whatever limits are reached: only KEV_EXPIRE takes the place of the     *)
(* KEV_NEGOTIATE of a key that is not active (set_next_event).             *)
THEOREM NegotiatesCorrect ==
    ASSUME ~ EarlyLimits
    PROVE  Spec => []NegotiatesInTime
<1>1. TypeOK /\ KeysShape => NegotiatesInTime
  <2> SUFFICES ASSUME TypeOK, KeysShape, NEW p \in Side, Alive(p), Served(p),
                      NEW k \in Keys(p), k.valid, k.st # "active", k.next # "expire"
               PROVE  now < k.born + HandshakeWindow
    BY DEF NegotiatesInTime
  <2>1. KeyShape(p, k, now) /\ now < k.at
    BY ServedShape
  <2>2. k.at = k.born + HandshakeWindow
    BY <2>1 DEF KeyShape
  <2> QED BY <2>1, <2>2
<1> QED BY <1>1, ShapeCorrect, PTL

--------------------------------------------------------------------------------
(* The two peers on a prompt network.                                      *)

(* No key reaches a limit, key ids are used again late enough (KEY_ID_MASK *)
(* is 7), and the times are as load_common makes them of the defaults: the *)
(* server waits longer than the client before it renegotiates ("avoid      *)
(* renegotiation collision with client"), a key is primary before it is    *)
(* renegotiated, and the transition window exceeds become_primary.         *)
NoLimits == \A p \in Side : LimitedKeys[p] = {}
Windows ==
    /\ KeyIdMask >= 5
    /\ BecomePrimary > 0
    /\ BecomePrimary + 1 < Renegotiate["client"]
    /\ Renegotiate["client"] < Renegotiate["server"]
    /\ \A p \in Side : Renegotiate["client"] + BecomePrimary + 1 < Expire[p]

(* The n-th message of a handshake, with what it acknowledges; n = 0 is an *)
(* acknowledgement alone.                                                  *)
HandshakeMessage(n) == CASE n = 1 -> "reset" [] n = 2 -> "hello" [] OTHER -> "auth"
PacketShape(p, pk) ==
    \/ pk.n = 0 /\ pk.msg = "ack" /\ pk.ack \in 1..3
    \/ /\ pk.n \in 1..3 /\ pk.msg = HandshakeMessage(pk.n)
       /\ pk.ack = IF p = "client" THEN pk.n - 1 ELSE pk.n

(* How far the handshake of a key is, by what it has got.                  *)
Handshake(p, k) ==
    /\ k.got \in 0..3
    /\ k.st = CASE k.got = 0 -> "waitReset" [] k.got = 3 -> "active" [] OTHER -> "waitAuth"
    /\ IF k.queue = <<>>
         THEN /\ p = "client" => k.out = (IF k.got = 3 THEN 3 ELSE k.got + 1) /\ k.got <= k.acked
              /\ p = "server" => k.out = k.got /\ k.got <= k.acked + 1
              /\ k.acked <= k.out
         ELSE p = "client" /\ k.queue = <<"reset">> /\ k.out = 0 /\ k.acked = 0 /\ k.got = 0

(* The event a key waits for.                                              *)
Awaits(p, k, t) ==
    /\ k.valid /\ ~ k.fired /\ t <= k.at /\ k.born <= t
    /\ k.next = "negotiate" <=> k.got < 3
    /\ k.cur \in {"none", "active"}
    /\ k.cur = "active" => k.next = "becomePrimary" /\ k.born = t
    /\ \/ k.next = "negotiate" /\ k.at = k.born + HandshakeWindow /\ k.born = t
       \/ k.next = "becomePrimary" /\ k.at = k.born + BecomePrimary
       \/ /\ k.next = "becomePrimary" /\ k.at = k.born + BecomePrimary + 1
          /\ p = "client" /\ k.green /\ k.id # 0
       \/ /\ k.next = "primaryPending" /\ t = k.born + BecomePrimary /\ k.at = t + 2 * HandshakeWindow
          /\ p = "client" /\ DataLimited /\ ~ k.green /\ k.id # 0
       \/ k.next = "renegotiate" /\ k.at = k.born + Renegotiate[p]
       \/ k.next = "expire" /\ k.at = k.born + Expire[p]

Good(p, k, t) == Handshake(p, k) /\ Awaits(p, k, t)

(* A peer renews its key while a secondary is not the one being retired.   *)
Renewing(P) == P.sec # NoKey /\ P.sec.next # "expire"
Newest(P) == IF Renewing(P) THEN P.sec ELSE P.pri

SteadyShape(p, P, t) ==
    /\ Good(p, P.pri, t)
    /\ P.pri.next \in {"negotiate", "becomePrimary", "renegotiate"}
    /\ P.pri.next # "renegotiate" => P.pri.id = 0
    /\ P.sec # NoKey => Good(p, P.sec, t) /\ NextKeyId(P.sec.id) = P.pri.id

RenewingShape(p, P, t) ==
    /\ Good(p, P.pri, t) /\ Good(p, P.sec, t)
    /\ \/ P.pri.next = "expire"
       \/ /\ p = "server" /\ P.pri.next = "renegotiate"
          /\ P.sec.born = t /\ (P.sec.next = "negotiate" \/ P.sec.cur = "active")
    /\ P.sec.next \in {"negotiate", "becomePrimary", "primaryPending"}
    /\ P.sec.id = NextKeyId(P.pri.id) /\ P.sec.born = P.pri.born + Renegotiate["client"]

(* What may still arrive of a peer: of its newest key what it has sent,    *)
(* otherwise packets of the two keys before.                               *)
Near(id, newest) ==
    newest \in {id, NextKeyId(id), NextKeyId(NextKeyId(id))}
SentShape(p, P) ==
    /\ \A pk \in P.sent :
          /\ PacketShape(p, pk) /\ Near(pk.kid, Newest(P).id)
          /\ pk.kid = Newest(P).id => pk.n <= Newest(P).out /\ pk.ack <= Newest(P).got
    /\ \A n \in 1..3 : n <= Newest(P).out =>
          \E pk \in P.sent : pk.kid = Newest(P).id /\ pk.n = n

OnePeer(p, P, t) ==
    /\ P \in Peer
    /\ IF Renewing(P) THEN RenewingShape(p, P, t) ELSE SteadyShape(p, P, t)
    /\ P.up = NextKeyId(Newest(P).id)
    /\ SentShape(p, P)

SameKey(j, k) == j.id = k.id /\ j.born = k.born

(* The two copies of the newest key, the client's c and the server's s.    *)
Coupled(c, s, t) ==
    /\ SameKey(c, s)
    /\ c.got <= s.got /\ s.got <= c.out
    /\ c.acked <= s.got /\ s.acked <= c.got
    /\ c.got < 3 \/ s.got < 3 => t = c.born

(* Each end has the other's newest key, and is ahead by one promotion at   *)
(* the most.                                                               *)
Together(C, S, t) ==
    /\ Coupled(Newest(C), Newest(S), t)
    /\ Renewing(C) /\ Renewing(S) =>
          /\ SameKey(C.pri, S.pri)
          /\ C.sec.next = "becomePrimary" => C.sec.at = C.sec.born + BecomePrimary
    /\ Renewing(C) /\ ~ Renewing(S) =>
          S.sec # NoKey /\ SameKey(C.pri, S.sec) /\ t >= C.sec.born + BecomePrimary
    /\ ~ Renewing(C) /\ Renewing(S) =>
          C.sec # NoKey /\ SameKey(C.sec, S.pri) /\ t >= S.sec.born + BecomePrimary

(* The server has yet to hear that the client renews the key.              *)
Lagging(C, S, t) ==
    /\ Renewing(C) /\ ~ Renewing(S)
    /\ SameKey(C.pri, S.pri) /\ C.sec.got = 0 /\ C.sec.acked = 0 /\ C.sec.born = t

TwoPeers(C, S, t) ==
    /\ OnePeer("client", C, t) /\ OnePeer("server", S, t)
    /\ Together(C, S, t) \/ Lagging(C, S, t)

PairShape == mode = "prompt" => TwoPeers(peer["client"], peer["server"], now)

--------------------------------------------------------------------------------
(* Five key ids in a row are different.                                    *)
LEMMA NextId ==
    ASSUME NEW i \in 0..KeyIdMask
    PROVE  NextKeyId(i) = IF i = KeyIdMask THEN 1 ELSE i + 1
<1>1. (KeyIdMask + 1) % (KeyIdMask + 1) = 0
  BY MaskAssumption
<1>2. i < KeyIdMask => (i + 1) % (KeyIdMask + 1) = i + 1
  BY MaskAssumption
<1> QED BY <1>1, <1>2, MaskAssumption DEF NextKeyId

LEMMA FiveIds ==
    ASSUME KeyIdMask >= 5, NEW i \in 0..KeyIdMask
    PROVE  LET a == NextKeyId(i)
               b == NextKeyId(a)
               c == NextKeyId(b)
               d == NextKeyId(c)
           IN  /\ {a, b, c, d} \subseteq 0..KeyIdMask
               /\ a # i /\ b # i /\ c # i /\ d # i
               /\ a # b /\ a # c /\ a # d /\ b # c /\ b # d /\ c # d /\ a # 0
<1> DEFINE a == NextKeyId(i)
           b == NextKeyId(a)
           c == NextKeyId(b)
           d == NextKeyId(c)
<1>1. a \in 0..KeyIdMask /\ a = IF i = KeyIdMask THEN 1 ELSE i + 1
  BY NextId, NextKeyIdType
<1> HIDE DEF a
<1>2. b \in 0..KeyIdMask /\ b = IF a = KeyIdMask THEN 1 ELSE a + 1
  BY <1>1, NextId, NextKeyIdType
<1> HIDE DEF b
<1>3. c \in 0..KeyIdMask /\ c = IF b = KeyIdMask THEN 1 ELSE b + 1
  BY <1>2, NextId, NextKeyIdType
<1> HIDE DEF c
<1>4. d \in 0..KeyIdMask /\ d = IF c = KeyIdMask THEN 1 ELSE c + 1
  BY <1>3, NextId, NextKeyIdType
<1> HIDE DEF d
<1>5. /\ a # i /\ b # i /\ c # i /\ d # i
      /\ a # b /\ a # c /\ a # d /\ b # c /\ b # d /\ c # d /\ a # 0
  BY <1>1, <1>2, <1>3, <1>4, MaskAssumption
<1> QED BY <1>1, <1>2, <1>3, <1>4, <1>5 DEF a, b, c, d

(* What is still under way when i is the newest key does not bear one of   *)
(* the next two ids.                                                       *)
LEMMA NotNear ==
    ASSUME KeyIdMask >= 5, NEW i \in 0..KeyIdMask, NEW x, Near(x, i)
    PROVE  x # NextKeyId(i) /\ x # NextKeyId(NextKeyId(i))
BY FiveIds DEF Near

--------------------------------------------------------------------------------
(* What the flush makes of the key k of the peer p: it is the key j, and   *)
(* pks are its packets.                                                    *)
Advances(p, k, j, pks, t) ==
    /\ j \in Key /\ Good(p, j, t) /\ j.queue = <<>> /\ SameKey(j, k)
    /\ k.got <= j.got /\ k.acked <= j.acked /\ k.out <= j.out
    /\ \/ j.next = k.next /\ j.cur = k.cur /\ j.at = k.at
       \/ /\ k.next = "negotiate" /\ j.next = "becomePrimary" /\ j.cur = "active"
          /\ j.at = k.born + BecomePrimary
    /\ \A pk \in pks :
          /\ pk \in Packet /\ PacketShape(p, pk) /\ pk.kid = k.id
          /\ pk.n <= j.out /\ pk.ack <= j.got
    /\ \A n \in 1..3 : k.out < n /\ n <= j.out => \E pk \in pks : pk.n = n

(* A key whose handshake does not go on just sends what is queued.         *)
LEMMA KeyFlushed ==
    ASSUME NEW p \in Side, NEW t \in Nat, NEW k \in Key, Good(p, k, t)
    PROVE  /\ PostAckAction(p, k, t) = k
           /\ Advances(p, k, FlushedKey(k), Packets(k), t)
           /\ k.queue = <<>> => FlushedKey(k) = k
<1> DEFINE j == FlushedKey(k)
<1>1. k.st \notin {"waitResetAck", "waitAuthAck"} /\ k.valid
  BY DEF Good, Handshake, Awaits
<1>2. PostAckAction(p, k, t) = k
  BY <1>1 DEF PostAckAction
<1>3. /\ j \in Key /\ j.id = k.id /\ j.st = k.st /\ j.born = k.born /\ j.cur = k.cur
      /\ j.next = k.next /\ j.at = k.at /\ j.fired = k.fired /\ j.green = k.green
      /\ j.valid = k.valid /\ j.queue = <<>> /\ j.acked = k.acked /\ j.got = k.got
      /\ j.out = k.out + Len(k.queue)
  <2>1. /\ j.queue = <<>> /\ j.acked = k.acked /\ j.got = k.got
        /\ j.out = k.out + Len(k.queue)
    BY <1>1 DEF FlushedKey, Key
  <2> QED BY <2>1, FlushedKeyFields
<1>4. /\ k.out \in Nat /\ k.acked \in Nat /\ k.got \in Nat /\ k.id \in 0..KeyIdMask
      /\ k.queue \in Seq(Message) /\ k.at \in Nat /\ k.born \in Nat
  BY DEF Key
<1> HIDE DEF j
<1>5. Awaits(p, j, t)
  BY <1>3 DEF Good, Awaits
<1>6. Packets(k) \subseteq Packet
  BY PacketsType
<1>7. CASE k.queue = <<>>
  <2>1. j.out = k.out
    BY <1>3, <1>4, <1>7
  <2>2. Handshake(p, j)
    BY <1>3, <1>7, <2>1 DEF Good, Handshake
  <2>3. \A pk \in Packets(k) : pk.kid = k.id /\ pk.n = 0 /\ pk.msg = "ack" /\ pk.ack = k.got /\ k.got > 0
    BY <1>1, <1>7 DEF Packets
  <2>4. k.got \in 0..3
    BY DEF Good, Handshake
  <2>5. Advances(p, k, j, Packets(k), t)
    BY <1>3, <1>4, <1>5, <1>6, <2>1, <2>2, <2>3, <2>4 DEF Advances, Good, PacketShape, SameKey
  <2>6. j \in Key /\ j.out = k.out /\ j.queue = k.queue
    BY <1>3, <1>7, <2>1
  <2>7. j = k
    BY <1>3, <2>6 DEF Key
  <2> QED BY <1>2, <2>5, <2>7 DEF j
<1>8. CASE k.queue # <<>>
  <2>1. p = "client" /\ k.queue = <<"reset">> /\ k.out = 0 /\ k.acked = 0 /\ k.got = 0 /\ k.st = "waitReset"
    BY <1>8 DEF Good, Handshake
  <2>2. Len(k.queue) = 1 /\ k.queue[1] = "reset"
    BY <2>1
  <2>3. j.out = 1
    BY <1>3, <2>1, <2>2
  <2>4. Handshake(p, j)
    BY <1>3, <2>1, <2>3 DEF Handshake
  <2>5. Packets(k) = {[kid |-> k.id, n |-> 0 + i, msg |-> k.queue[i], ack |-> 0] : i \in 1..1}
    BY <1>1, <1>8, <2>1, <2>2 DEF Packets
  <2>6. Packets(k) = {[kid |-> k.id, n |-> 1, msg |-> "reset", ack |-> 0]}
    BY <2>2, <2>5
  <2>7. \A pk \in Packets(k) : pk.kid = k.id /\ pk.n = 1 /\ pk.msg = "reset" /\ pk.ack = 0
    BY <2>6
  <2>8. \E pk \in Packets(k) : pk.n = 1
    BY <2>6
  <2>9. \A n \in 1..3 : k.out < n /\ n <= j.out => n = 1
    BY <2>1, <2>3
  <2>10. \A pk \in Packets(k) : PacketShape(p, pk)
    BY <2>1, <2>7 DEF PacketShape, HandshakeMessage
  <2>11. Advances(p, k, j, Packets(k), t)
    BY <1>3, <1>5, <1>6, <2>1, <2>3, <2>4, <2>7, <2>8, <2>9, <2>10 DEF Advances, Good, SameKey
  <2> QED BY <1>2, <1>8, <2>11 DEF j
<1> QED BY <1>7, <1>8

(* The fields of a key that no event changes.                              *)
SameHandshake(j, k) ==
    j.queue = k.queue /\ j.out = k.out /\ j.acked = k.acked /\ j.got = k.got
SameEvents(j, k) == j.cur = k.cur /\ j.next = k.next /\ j.at = k.at
SameLife(j, k) ==
    j.id = k.id /\ j.born = k.born /\ j.fired = k.fired /\ j.green = k.green /\ j.valid = k.valid

LEMMA ToSame ==
    ASSUME NEW k \in Key, NEW st \in State
    PROVE  LET j == To(k, st) IN
           j \in Key /\ SameHandshake(j, k) /\ SameEvents(j, k) /\ SameLife(j, k) /\ j.st = st
<1>1. To(k, st) \in Key
  BY ToType
<1> QED BY <1>1 DEF To, Key, SameHandshake, SameEvents, SameLife

LEMMA QueuedSame ==
    ASSUME NEW k \in Key, NEW m \in Message
    PROVE  LET j == Queued(k, m) IN
           /\ j \in Key /\ SameEvents(j, k) /\ SameLife(j, k) /\ j.st = k.st
           /\ j.out = k.out /\ j.acked = k.acked /\ j.got = k.got
           /\ k.queue = <<>> => j.queue = <<m>>
<1>1. Queued(k, m) \in Key
  BY QueuedType
<1>2. k.queue = <<>> => Append(k.queue, m) = <<m>>
  OBVIOUS
<1> QED BY <1>1, <1>2 DEF Queued, Key, SameEvents, SameLife

LEMMA SetEventSame ==
    ASSUME NEW k \in Key, NEW cur \in Event, NEW next \in Event, NEW at \in Nat
    PROVE  LET j == SetEvent(k, cur, next, at) IN
           /\ j \in Key /\ SameHandshake(j, k) /\ SameLife(j, k) /\ j.st = k.st
           /\ j.cur = cur /\ j.next = next /\ j.at = at
<1>1. SetEvent(k, cur, next, at) \in Key
  BY SetEventType
<1> QED BY <1>1 DEF SetEvent, Key, SameHandshake, SameLife

(* What a key becomes when the next message of its handshake arrives.      *)
LEMMA KeyTakes ==
    ASSUME NEW p \in Side, NEW t \in Nat, NEW k \in Key, Good(p, k, t), k.queue = <<>>,
           NEW pk \in Packet, PacketShape(Other(p), pk), pk.ack <= k.out, pk.n = k.got + 1
    PROVE  LET q == PostAckAction(p, NetRecv(p, k, pk), t) IN
           /\ q \in Key /\ SameLife(q, k) /\ q.got = pk.n /\ q.out = k.out
           /\ q.acked = k.out
           /\ q.queue = IF p = "client" /\ pk.n = 3 THEN <<>>
                        ELSE <<HandshakeMessage(IF p = "client" THEN pk.n + 1 ELSE pk.n)>>
           /\ IF pk.n = 3
                THEN /\ q.st = "active" /\ q.cur = "active" /\ q.next = "becomePrimary"
                     /\ q.at = t + BecomePrimary
                ELSE q.st = "waitAuth" /\ SameEvents(q, k)
<1> DEFINE a == [k EXCEPT !.acked = IF pk.ack > @ THEN pk.ack ELSE @]
           b == [a EXCEPT !.got = @ + 1]
           r == NetRecv(p, k, pk)
           q == PostAckAction(p, r, t)
<1>0. /\ k.out \in Nat /\ k.acked \in Nat /\ k.got \in Nat /\ pk.ack \in Nat /\ pk.n \in Nat
      /\ k.queue \in Seq(Message)
  BY DEF Key, Packet
<1>1. k.valid /\ ~ k.fired
  BY DEF Good, Awaits
<1>2. pk.n \in 1..3 /\ pk.msg = HandshakeMessage(pk.n) /\ pk.ack = k.out
  <2>1. pk.n # 0
    BY <1>0
  <2>2. pk.n \in 1..3 /\ pk.msg = HandshakeMessage(pk.n)
        /\ pk.ack = IF Other(p) = "client" THEN pk.n - 1 ELSE pk.n
    BY <2>1 DEF PacketShape
  <2>3. CASE p = "client"
    BY <1>0, <2>2, <2>3 DEF Other, Good, Handshake
  <2>4. CASE p = "server"
    BY <1>0, <2>2, <2>4 DEF Other, Good, Handshake
  <2> QED BY <2>2, <2>3, <2>4 DEF Side
<1>3. a \in Key /\ SameEvents(a, k) /\ SameLife(a, k) /\ a.st = k.st /\ a.queue = <<>>
      /\ a.out = k.out /\ a.got = k.got /\ a.acked = k.out
  <2>1. k.acked <= k.out
    BY DEF Good, Handshake
  <2>2. (IF pk.ack > k.acked THEN pk.ack ELSE k.acked) = k.out
    BY <1>0, <1>2, <2>1
  <2>3. a = [k EXCEPT !.acked = k.out]
    BY <2>2 DEF Key
  <2> HIDE DEF a
  <2> QED BY <1>0, <2>3 DEF Key, SameEvents, SameLife
<1>4. b \in Key /\ SameEvents(b, k) /\ SameLife(b, k) /\ b.st = k.st /\ b.queue = <<>>
      /\ b.out = k.out /\ b.acked = k.out /\ b.got = pk.n
  <2>1. b = [a EXCEPT !.got = pk.n]
    BY <1>3 DEF Key
  <2> HIDE DEF a, b
  <2> QED BY <1>0, <1>3, <2>1 DEF Key, SameEvents, SameLife
<1>5. r = MessageRecv(p, b, pk.msg)
  BY <1>1 DEF NetRecv
<1> HIDE DEF a, b, r
<1>6. {"reset", "hello", "auth"} \subseteq Message
      /\ {"waitResetAck", "waitAuth", "waitAuthAck", "active"} \subseteq State
      /\ {"active", "becomePrimary"} \subseteq Event /\ t + BecomePrimary \in Nat
  BY Durations DEF Message, State, Event
<1>7. CASE pk.n = 1
  <2>1. pk.msg = "reset" /\ b.st = "waitReset"
    BY <1>0, <1>2, <1>4, <1>7 DEF HandshakeMessage, Good, Handshake
  <2> DEFINE h == IF p = "server" THEN Queued(b, "reset") ELSE b
             g == IF p = "client" THEN Queued(r, "hello") ELSE r
  <2>2. h \in Key /\ SameEvents(h, k) /\ SameLife(h, k) /\ h.out = k.out /\ h.acked = k.out
        /\ h.got = pk.n /\ h.queue = IF p = "server" THEN <<"reset">> ELSE <<>>
    BY <1>4, <1>6, QueuedSame DEF SameEvents, SameLife
  <2>3. r = To(h, "waitResetAck")
    BY <1>5, <2>1 DEF MessageRecv
  <2> HIDE DEF h
  <2>4. r \in Key /\ SameEvents(r, k) /\ SameLife(r, k) /\ r.out = k.out /\ r.acked = k.out
        /\ r.got = pk.n /\ r.queue = (IF p = "server" THEN <<"reset">> ELSE <<>>)
        /\ r.st = "waitResetAck"
    BY <1>6, <2>2, <2>3, ToSame DEF SameEvents, SameLife, SameHandshake
  <2>5. g \in Key /\ SameEvents(g, k) /\ SameLife(g, k) /\ g.out = k.out /\ g.acked = k.out
        /\ g.got = pk.n /\ g.queue = (IF p = "server" THEN <<"reset">> ELSE <<"hello">>)
    BY <1>6, <2>4, QueuedSame DEF SameEvents, SameLife, Side
  <2>6. q = To(g, "waitAuth")
    BY <2>4 DEF PostAckAction
  <2> HIDE DEF g, q
  <2>7. q \in Key /\ SameEvents(q, k) /\ SameLife(q, k) /\ q.out = k.out /\ q.acked = k.out
        /\ q.got = pk.n /\ q.queue = (IF p = "server" THEN <<"reset">> ELSE <<"hello">>)
        /\ q.st = "waitAuth"
    BY <1>6, <2>5, <2>6, ToSame DEF SameEvents, SameLife, SameHandshake
  <2> QED BY <1>7, <2>7 DEF Side, HandshakeMessage, q, r
<1>8. CASE pk.n = 2
  <2>1. pk.msg = "hello" /\ b.st = "waitAuth"
    BY <1>0, <1>2, <1>4, <1>8 DEF HandshakeMessage, Good, Handshake
  <2>2. r = Queued(b, IF p = "server" THEN "hello" ELSE "auth")
    BY <1>5, <2>1 DEF MessageRecv
  <2>3. r \in Key /\ SameEvents(r, k) /\ SameLife(r, k) /\ r.out = k.out /\ r.acked = k.out
        /\ r.got = pk.n /\ r.queue = <<IF p = "server" THEN "hello" ELSE "auth">>
        /\ r.st = "waitAuth"
    BY <1>4, <1>6, <2>1, <2>2, QueuedSame DEF SameEvents, SameLife
  <2>4. q = r
    BY <2>3 DEF PostAckAction
  <2> HIDE DEF q
  <2> QED BY <1>8, <2>3, <2>4 DEF Side, HandshakeMessage, q, r
<1>9. CASE pk.n = 3
  <2>1. pk.msg = "auth" /\ b.st = "waitAuth"
    BY <1>0, <1>2, <1>4, <1>9 DEF HandshakeMessage, Good, Handshake
  <2> DEFINE h == IF p = "server" THEN Queued(b, "auth") ELSE b
             g == To(r, "active")
  <2>2. h \in Key /\ SameEvents(h, k) /\ SameLife(h, k) /\ h.out = k.out /\ h.acked = k.out
        /\ h.got = pk.n /\ h.queue = IF p = "server" THEN <<"auth">> ELSE <<>>
    BY <1>4, <1>6, QueuedSame DEF SameEvents, SameLife
  <2>3. r = To(h, "waitAuthAck")
    BY <1>5, <2>1 DEF MessageRecv
  <2> HIDE DEF h
  <2>4. r \in Key /\ SameEvents(r, k) /\ SameLife(r, k) /\ r.out = k.out /\ r.acked = k.out
        /\ r.got = pk.n /\ r.queue = (IF p = "server" THEN <<"auth">> ELSE <<>>)
        /\ r.st = "waitAuthAck"
    BY <1>6, <2>2, <2>3, ToSame DEF SameEvents, SameLife, SameHandshake
  <2>5. g \in Key /\ SameLife(g, k) /\ g.out = k.out /\ g.acked = k.out
        /\ g.got = pk.n /\ g.queue = (IF p = "server" THEN <<"auth">> ELSE <<>>)
        /\ g.st = "active"
    BY <1>6, <2>4, ToSame DEF SameLife, SameHandshake
  <2>6. q = SetEvent(g, "active", "becomePrimary", t + BecomePrimary)
    BY <2>4 DEF PostAckAction
  <2> HIDE DEF g, q
  <2>7. q \in Key /\ SameLife(q, k) /\ q.out = k.out /\ q.acked = k.out
        /\ q.got = pk.n /\ q.queue = (IF p = "server" THEN <<"auth">> ELSE <<>>)
        /\ q.st = "active" /\ q.cur = "active" /\ q.next = "becomePrimary"
        /\ q.at = t + BecomePrimary
    <3>1. /\ q \in Key /\ SameHandshake(q, g) /\ SameLife(q, g) /\ q.st = g.st
          /\ q.cur = "active" /\ q.next = "becomePrimary" /\ q.at = t + BecomePrimary
      <4> DEFINE at == t + BecomePrimary
      <4>1. /\ "active" \in Event /\ "becomePrimary" \in Event /\ g \in Key
            /\ at \in Nat /\ q = SetEvent(g, "active", "becomePrimary", at)
        BY <1>6, <2>5, <2>6 DEF Event
      <4> HIDE DEF at
      <4>2. q \in Key
        BY <4>1, SetEventType
      <4>3. /\ q.st = g.st /\ q.cur = "active" /\ q.next = "becomePrimary" /\ q.at = at
            /\ SameHandshake(q, g) /\ SameLife(q, g)
        BY <4>1 DEF SetEvent, Key, SameHandshake, SameLife
      <4> QED BY <4>2, <4>3 DEF at
    <3> QED BY <2>5, <3>1 DEF SameLife, SameHandshake
  <2> QED BY <1>9, <2>7 DEF Side, HandshakeMessage, q, r
<1> QED BY <1>2, <1>7, <1>8, <1>9

(* The message n is the next one for the key k, and the key j is what k    *)
(* counts after the packet pk.                                             *)
Follows(n, k) == n = k.got + 1
Counted(j, k, pk) ==
    /\ j.got = IF Follows(pk.n, k) THEN k.got + 1 ELSE k.got
    /\ j.acked <= k.acked \/ j.acked <= pk.ack

(* What the packet pk and the flush after it make of the key k.            *)
LEMMA KeyReceived ==
    ASSUME NEW p \in Side, NEW t \in Nat, NEW k \in Key, Good(p, k, t), k.queue = <<>>,
           NEW pk \in Packet, PacketShape(Other(p), pk), pk.ack <= k.out
    PROVE  LET q == PostAckAction(p, NetRecv(p, k, pk), t) IN
           /\ Advances(p, k, FlushedKey(q), Packets(q), t)
           /\ Counted(FlushedKey(q), k, pk)
<1> DEFINE q == PostAckAction(p, NetRecv(p, k, pk), t)
           j == FlushedKey(q)
<1>0. /\ k.out \in Nat /\ k.acked \in Nat /\ k.got \in 0..3 /\ pk.ack \in Nat /\ pk.n \in Nat
      /\ k.id \in 0..KeyIdMask /\ k.born \in Nat /\ k.at \in Nat
  BY DEF Key, Packet, Good, Handshake
<1>1. k.valid /\ ~ k.fired /\ k.born <= t /\ k.acked <= k.out
  BY DEF Good, Awaits, Handshake
<1>2. CASE pk.n # k.got + 1
  <2> DEFINE a == [k EXCEPT !.acked = IF pk.ack > @ THEN pk.ack ELSE @]
  <2>1. NetRecv(p, k, pk) = a
    BY <1>1, <1>2 DEF NetRecv
  <2>2. /\ a \in Key /\ SameEvents(a, k) /\ SameLife(a, k) /\ a.st = k.st /\ a.queue = <<>>
        /\ a.out = k.out /\ a.got = k.got /\ k.acked <= a.acked /\ a.acked <= k.out
        /\ a.acked <= k.acked \/ a.acked <= pk.ack
    <3> DEFINE n == IF pk.ack > k.acked THEN pk.ack ELSE k.acked
    <3>1. a = [k EXCEPT !.acked = n] /\ n \in Nat /\ k.acked <= n /\ n <= k.out
          /\ (n <= k.acked \/ n <= pk.ack)
      BY <1>0, <1>1 DEF Key
    <3> HIDE DEF n, a
    <3>2. /\ a \in Key /\ SameEvents(a, k) /\ SameLife(a, k) /\ a.st = k.st /\ a.queue = <<>>
          /\ a.out = k.out /\ a.got = k.got /\ a.acked = n
      BY <3>1 DEF Key, SameEvents, SameLife
    <3> QED BY <3>1, <3>2
  <2> HIDE DEF a
  <2>3. Good(p, a, t)
    BY <1>0, <2>2 DEF Good, Handshake, Awaits, SameEvents, SameLife, Key
  <2>4. PostAckAction(p, a, t) = a /\ Advances(p, a, a, Packets(a), t) /\ FlushedKey(a) = a
    BY <2>2, <2>3, KeyFlushed
  <2>5. Advances(p, k, a, Packets(a), t)
    BY <1>0, <2>2, <2>4 DEF Advances, SameEvents, SameLife, SameKey
  <2> QED BY <1>2, <2>1, <2>2, <2>4, <2>5 DEF Counted, Follows
<1>3. CASE pk.n = k.got + 1
  <2>1. /\ q \in Key /\ SameLife(q, k) /\ q.got = pk.n /\ q.out = k.out
        /\ q.acked = k.out
        /\ q.queue = IF p = "client" /\ pk.n = 3 THEN <<>>
                     ELSE <<HandshakeMessage(IF p = "client" THEN pk.n + 1 ELSE pk.n)>>
        /\ IF pk.n = 3
             THEN /\ q.st = "active" /\ q.cur = "active" /\ q.next = "becomePrimary"
                  /\ q.at = t + BecomePrimary
             ELSE q.st = "waitAuth" /\ SameEvents(q, k)
    BY <1>3, KeyTakes
  <2>2. pk.n \in 1..3 /\ pk.ack = k.out
    <3>1. pk.n \in 1..3 /\ pk.ack = IF Other(p) = "client" THEN pk.n - 1 ELSE pk.n
      BY <1>0, <1>3 DEF PacketShape
    <3>2. k.out = IF p = "client" THEN k.got + 1 ELSE k.got
      BY <1>0, <1>3, <3>1 DEF Good, Handshake, Side
    <3> QED BY <1>0, <1>3, <3>1, <3>2 DEF Other, Side
  <2>3. k.next = "negotiate" /\ k.born = t /\ k.cur = "none" /\ k.at = k.born + HandshakeWindow
    BY <1>0, <1>3, <2>2 DEF Good, Awaits
  <2> HIDE DEF q
  <2>4. /\ j \in Key /\ SameLife(j, k) /\ j.queue = <<>> /\ j.acked = k.out /\ j.got = pk.n
        /\ j.out = k.out + Len(q.queue) /\ j.st = q.st /\ SameEvents(j, q)
    <3>1. j.queue = <<>> /\ j.acked = q.acked /\ j.got = q.got /\ j.out = q.out + Len(q.queue)
      BY <1>1, <2>1 DEF FlushedKey, Key, SameLife
    <3> HIDE DEF j
    <3>2. FlushedKey(q) = j
      BY DEF j
    <3> QED BY <2>1, <3>1, <3>2, FlushedKeyFields DEF SameLife, SameEvents
  <2> HIDE DEF j
  <2> DEFINE m == IF p = "client" THEN pk.n + 1 ELSE pk.n
  <2>5. k.out + 1 = m /\ m \in 1..4
    BY <1>0, <1>3, <2>2 DEF Good, Handshake, Side
  <2> HIDE DEF m
  <2>6. CASE p = "client" /\ pk.n = 3
    <3>1. q.queue = <<>> /\ Len(q.queue) = 0 /\ q.valid
      BY <1>1, <2>1, <2>6 DEF SameLife
    <3>2. j.out = 3 /\ k.out = 3
      BY <1>0, <2>4, <2>5, <2>6, <3>1 DEF m
    <3>3. \A x \in Packets(q) : x.kid = q.id /\ x.n = 0 /\ x.msg = "ack" /\ x.ack = q.got
      BY <3>1 DEF Packets
    <3>4. Handshake(p, j)
      BY <2>1, <2>4, <2>6, <3>2 DEF Handshake
    <3>5. Awaits(p, j, t)
      BY <1>0, <1>1, <2>1, <2>3, <2>4, <2>6, Durations DEF Awaits, SameLife, SameEvents
    <3>6. Packets(q) \subseteq Packet
      BY <2>1, PacketsType
    <3>7. \A x \in Packets(q) : PacketShape(p, x)
      BY <2>1, <2>6, <3>3 DEF PacketShape
    <3>8. Advances(p, k, j, Packets(q), t)
      BY <1>0, <1>1, <1>3, <2>1, <2>3, <2>4, <2>6, <3>2, <3>3, <3>4, <3>5, <3>6, <3>7
         DEF Advances, Good, SameLife, SameEvents, SameKey
    <3> QED BY <1>3, <2>2, <2>4, <3>8 DEF Counted, Follows, q, j
  <2>7. CASE ~ (p = "client" /\ pk.n = 3)
    <3>1. q.queue = <<HandshakeMessage(m)>> /\ Len(q.queue) = 1 /\ q.queue[1] = HandshakeMessage(m)
          /\ q.valid
      BY <1>1, <2>1, <2>7 DEF m, SameLife
    <3>2. j.out = m /\ m \in 1..3
      BY <1>0, <2>2, <2>4, <2>5, <2>7, <3>1 DEF m
    <3>3. Packets(q) = {[kid |-> q.id, n |-> k.out + i, msg |-> q.queue[i], ack |-> q.got] : i \in 1..1}
      BY <2>1, <3>1 DEF Packets
    <3>4. Packets(q) = {[kid |-> k.id, n |-> m, msg |-> HandshakeMessage(m), ack |-> pk.n]}
      <4>1. 1..1 = {1}
        OBVIOUS
      <4> QED BY <2>1, <2>5, <3>1, <3>3, <4>1 DEF SameLife
    <3>5. \A x \in Packets(q) : x.kid = k.id /\ x.n = m /\ x.msg = HandshakeMessage(m) /\ x.ack = pk.n
      BY <3>4
    <3>6. \E x \in Packets(q) : x.n = m
      BY <3>4
    <3>7. Packets(q) \subseteq Packet
      BY <2>1, PacketsType
    <3>8. pk.n = IF p = "client" THEN m - 1 ELSE m
      BY <1>0 DEF m
    <3>9. \A x \in Packets(q) : PacketShape(p, x)
      BY <3>2, <3>5, <3>8 DEF PacketShape
    <3>10. Handshake(p, j)
      BY <1>0, <2>1, <2>2, <2>4, <2>5, <2>7, <3>2, <3>8 DEF Handshake, Side
    <3>11. Awaits(p, j, t)
      BY <1>0, <1>1, <2>1, <2>2, <2>3, <2>4, Durations DEF Awaits, SameLife, SameEvents
    <3>12. \A n \in 1..3 : k.out < n /\ n <= j.out => n = m
      BY <1>0, <2>5, <3>2
    <3>13. Advances(p, k, j, Packets(q), t)
      BY <1>0, <1>1, <1>3, <2>1, <2>2, <2>3, <2>4, <2>5, <3>2, <3>5, <3>6, <3>7, <3>9, <3>10, <3>11, <3>12
         DEF Advances, Good, SameLife, SameEvents, SameKey
    <3> QED BY <1>3, <2>2, <2>4, <3>13 DEF Counted, Follows, q, j
  <2> QED BY <2>6, <2>7
<1> QED BY <1>2, <1>3

--------------------------------------------------------------------------------
(* What one peer keeps of its shape.                                       *)

LEMMA OneKeys ==
    ASSUME Windows, NEW p \in Side, NEW t \in Nat, NEW P, OnePeer(p, P, t)
    PROVE  /\ P \in Peer /\ P.pri \in Key /\ Good(p, P.pri, t) /\ P.sent \subseteq Packet
           /\ P.sec # NoKey => P.sec \in Key /\ Good(p, P.sec, t) /\ P.sec.id # P.pri.id
           /\ Newest(P) \in Key /\ Good(p, Newest(P), t)
           /\ P.up \in 0..KeyIdMask
<1>1. /\ P \in Peer /\ P.pri \in Key /\ (P.sec # NoKey => P.sec \in Key) /\ P.sent \subseteq Packet
      /\ P.up \in 0..KeyIdMask
  BY DEF OnePeer, Peer
<1>2. P.pri.id \in 0..KeyIdMask /\ (P.sec # NoKey => P.sec.id \in 0..KeyIdMask)
  BY <1>1 DEF Key
<1>3. CASE Renewing(P)
  <2>1. RenewingShape(p, P, t) /\ P.sec # NoKey
    BY <1>3 DEF OnePeer, Renewing
  <2>2. P.sec.id # P.pri.id
    BY <1>2, <2>1, FiveIds DEF RenewingShape, Windows
  <2> QED BY <1>1, <1>3, <2>1, <2>2 DEF RenewingShape, Newest
<1>4. CASE ~ Renewing(P)
  <2>1. SteadyShape(p, P, t)
    BY <1>4 DEF OnePeer
  <2>2. P.sec # NoKey => P.sec.id # P.pri.id
    BY <1>2, <2>1, FiveIds DEF SteadyShape, Windows
  <2> QED BY <1>1, <1>4, <2>1, <2>2 DEF SteadyShape, Newest
<1> QED BY <1>3, <1>4

(* The flush makes the peer Q of P.                                        *)
Moves(p, P, Q, t) ==
    /\ Q \in Peer /\ Q.up = P.up /\ (Q.sec = NoKey <=> P.sec = NoKey)
    /\ \E A, B \in SUBSET Packet :
          /\ Q.sent = P.sent \cup A \cup B
          /\ Advances(p, P.pri, Q.pri, A, t)
          /\ IF P.sec = NoKey THEN B = {} ELSE Advances(p, P.sec, Q.sec, B, t)

(* The same peer with as many keys.                                        *)
Keeps(P, Q) ==
    /\ Renewing(P) <=> Renewing(Q)
    /\ SameKey(Q.pri, P.pri)
    /\ Q.sec # NoKey => P.sec # NoKey /\ SameKey(Q.sec, P.sec)

LEMMA MovesKeeps ==
    ASSUME NEW p, NEW t, NEW P, NEW Q, Moves(p, P, Q, t)
    PROVE  /\ Keeps(P, Q) /\ (Q.sec = NoKey <=> P.sec = NoKey)
           /\ \E A : Advances(p, Newest(P), Newest(Q), A, t)
<1> PICK A \in SUBSET Packet, B \in SUBSET Packet :
          /\ Advances(p, P.pri, Q.pri, A, t)
          /\ IF P.sec = NoKey THEN B = {} ELSE Advances(p, P.sec, Q.sec, B, t)
  BY DEF Moves
<1>1. Q.sec = NoKey <=> P.sec = NoKey
  BY DEF Moves
<1>2. P.sec # NoKey => (Q.sec.next = "expire" <=> P.sec.next = "expire")
  BY DEF Advances
<1>3. Renewing(P) <=> Renewing(Q)
  BY <1>1, <1>2 DEF Renewing
<1>4. SameKey(Q.pri, P.pri) /\ (P.sec # NoKey => SameKey(Q.sec, P.sec))
  BY DEF Advances
<1>5. Advances(p, Newest(P), Newest(Q), IF Renewing(P) THEN B ELSE A, t)
  BY <1>3 DEF Newest, Renewing
<1> QED BY <1>1, <1>3, <1>4, <1>5 DEF Keeps

LEMMA MovesOne ==
    ASSUME Windows, NEW p \in Side, NEW t \in Nat, NEW P, OnePeer(p, P, t), NEW Q, Moves(p, P, Q, t)
    PROVE  OnePeer(p, Q, t)
<1> PICK A \in SUBSET Packet, B \in SUBSET Packet :
          /\ Q.sent = P.sent \cup A \cup B
          /\ Advances(p, P.pri, Q.pri, A, t)
          /\ IF P.sec = NoKey THEN B = {} ELSE Advances(p, P.sec, Q.sec, B, t)
  BY DEF Moves
<1> DEFINE k == Newest(P)
           j == Newest(Q)
<1>1. Q \in Peer /\ Q.up = P.up /\ (Q.sec = NoKey <=> P.sec = NoKey)
  BY DEF Moves
<1>2. (Renewing(P) <=> Renewing(Q)) /\ \E D : Advances(p, k, j, D, t)
  BY MovesKeeps DEF Keeps
<1>3. /\ P \in Peer /\ P.pri \in Key /\ P.sent \subseteq Packet /\ k \in Key
      /\ P.sec # NoKey => P.sec \in Key /\ P.sec.id # P.pri.id
  BY OneKeys
<1>4. j.id = k.id /\ k.out <= j.out /\ k.got <= j.got /\ j \in Key
  BY <1>2 DEF Advances, SameKey
<1>5. Q.up = NextKeyId(j.id)
  BY <1>1, <1>4 DEF OnePeer
<1> HIDE DEF k, j
<1>6. IF Renewing(Q) THEN RenewingShape(p, Q, t) ELSE SteadyShape(p, Q, t)
  <2>1. CASE Renewing(P)
    <3>1. RenewingShape(p, P, t) /\ P.sec # NoKey
      BY <2>1 DEF OnePeer, Renewing
    <3>2. Good(p, Q.pri, t) /\ Good(p, Q.sec, t) /\ SameKey(Q.pri, P.pri) /\ SameKey(Q.sec, P.sec)
      BY <3>1 DEF Advances
    <3>3. Q.pri.next = P.pri.next
      BY <3>1 DEF Advances, RenewingShape
    <3>4. \/ Q.sec.next = P.sec.next /\ Q.sec.cur = P.sec.cur
          \/ P.sec.next = "negotiate" /\ Q.sec.next = "becomePrimary" /\ Q.sec.cur = "active"
      BY <3>1 DEF Advances
    <3>5. RenewingShape(p, Q, t)
      BY <3>1, <3>2, <3>3, <3>4 DEF RenewingShape, SameKey
    <3> QED BY <1>2, <2>1, <3>5
  <2>2. CASE ~ Renewing(P)
    <3>1. SteadyShape(p, P, t)
      BY <2>2 DEF OnePeer
    <3>2. /\ Good(p, Q.pri, t) /\ SameKey(Q.pri, P.pri)
          /\ P.sec # NoKey => Good(p, Q.sec, t) /\ SameKey(Q.sec, P.sec)
      BY DEF Advances
    <3>3. \/ Q.pri.next = P.pri.next
          \/ P.pri.next = "negotiate" /\ Q.pri.next = "becomePrimary"
      BY DEF Advances
    <3>4. SteadyShape(p, Q, t)
      BY <1>1, <3>1, <3>2, <3>3 DEF SteadyShape, SameKey
    <3> QED BY <1>2, <2>2, <3>4
  <2> QED BY <2>1, <2>2
<1>7. ASSUME NEW pk \in Q.sent
      PROVE  /\ PacketShape(p, pk) /\ Near(pk.kid, j.id)
             /\ pk.kid = j.id => pk.n <= j.out /\ pk.ack <= j.got
  <2>1. CASE pk \in P.sent
    <3>1. /\ PacketShape(p, pk) /\ Near(pk.kid, k.id)
          /\ pk.kid = k.id => pk.n <= k.out /\ pk.ack <= k.got
      BY <2>1 DEF OnePeer, SentShape, k
    <3>2. pk.n \in Nat /\ pk.ack \in Nat
      BY <1>3, <2>1 DEF Packet
    <3>3. k.out \in Nat /\ j.out \in Nat /\ k.got \in Nat /\ j.got \in Nat
      BY <1>3, <1>4 DEF Key
    <3> QED BY <1>4, <3>1, <3>2, <3>3
  <2>2. CASE pk \in A
    <3>1. PacketShape(p, pk) /\ pk.kid = P.pri.id /\ pk.n <= Q.pri.out /\ pk.ack <= Q.pri.got
      BY <2>2 DEF Advances
    <3>2. CASE Renewing(P)
      <4>1. j.id = NextKeyId(P.pri.id) /\ j.id # P.pri.id
        BY <1>3, <1>4, <3>2 DEF k, Newest, OnePeer, RenewingShape, Renewing
      <4> QED BY <3>1, <4>1 DEF Near
    <3>3. CASE ~ Renewing(P)
      BY <1>2, <1>4, <3>1, <3>3 DEF Near, k, j, Newest
    <3> QED BY <3>2, <3>3
  <2>3. CASE pk \in B
    <3>1. P.sec # NoKey
      BY <2>3
    <3>2. PacketShape(p, pk) /\ pk.kid = P.sec.id /\ pk.n <= Q.sec.out /\ pk.ack <= Q.sec.got
      BY <2>3, <3>1 DEF Advances
    <3>3. CASE Renewing(P)
      BY <1>2, <1>4, <3>2, <3>3 DEF Near, k, j, Newest
    <3>4. CASE ~ Renewing(P)
      <4>1. j.id = NextKeyId(P.sec.id) /\ j.id # P.sec.id
        BY <1>3, <1>4, <3>1, <3>4 DEF k, Newest, OnePeer, SteadyShape
      <4> QED BY <3>2, <4>1 DEF Near
    <3> QED BY <3>3, <3>4
  <2> QED BY <2>1, <2>2, <2>3
<1>8. ASSUME NEW n \in 1..3, n <= j.out
      PROVE  \E pk \in Q.sent : pk.kid = j.id /\ pk.n = n
  <2>1. CASE n <= k.out
    <3>1. \E pk \in P.sent : pk.kid = k.id /\ pk.n = n
      BY <2>1 DEF OnePeer, SentShape, k
    <3> QED BY <1>4, <3>1
  <2>2. CASE k.out < n
    <3>1. CASE Renewing(P)
      <4>1. Advances(p, k, j, B, t)
        BY <1>2, <3>1 DEF k, j, Newest, Renewing
      <4>2. \E pk \in B : pk.n = n /\ pk.kid = k.id
        BY <1>8, <2>2, <4>1 DEF Advances
      <4> QED BY <1>4, <4>2
    <3>2. CASE ~ Renewing(P)
      <4>1. Advances(p, k, j, A, t)
        BY <1>2, <3>2 DEF k, j, Newest
      <4>2. \E pk \in A : pk.n = n /\ pk.kid = k.id
        BY <1>8, <2>2, <4>1 DEF Advances
      <4> QED BY <1>4, <4>2
    <3> QED BY <3>1, <3>2
  <2> QED BY <1>3, <2>1, <2>2 DEF Key
<1>9. SentShape(p, Q)
  BY <1>7, <1>8 DEF SentShape, j
<1> QED BY <1>1, <1>5, <1>6, <1>9 DEF OnePeer, j

LEMMA FlushKeysFields ==
    ASSUME NEW p, NEW P \in Peer, NEW t \in Nat
    PROVE  LET Q == FlushKeys(p, P, t)
               a == PostAckAction(p, P.pri, t)
               b == PostAckAction(p, P.sec, t)
           IN  /\ Q \in Peer /\ Q.pri = FlushedKey(a) /\ Q.up = P.up
               /\ Q.sec = IF P.sec = NoKey THEN NoKey ELSE FlushedKey(b)
               /\ Q.sec = NoKey <=> P.sec = NoKey
               /\ Q.sent = P.sent \cup Packets(a) \cup (IF P.sec = NoKey THEN {} ELSE Packets(b))
               /\ Packets(a) \subseteq Packet /\ (P.sec # NoKey => Packets(b) \subseteq Packet)
<1> DEFINE Q == FlushKeys(p, P, t)
           a == PostAckAction(p, P.pri, t)
           b == PostAckAction(p, P.sec, t)
           s == IF P.sec = NoKey THEN NoKey ELSE b
<1>1. a \in Key /\ (P.sec # NoKey => b \in Key /\ b # NoKey)
  BY PostAckActionType, NoKeyAssumption DEF Peer
<1>2. Q = [P EXCEPT !.pri = FlushedKey(a),
                    !.sec = IF s = NoKey THEN NoKey ELSE FlushedKey(s),
                    !.sent = @ \cup Packets(a) \cup (IF s = NoKey THEN {} ELSE Packets(s))]
  BY DEF FlushKeys
<1>3. Packets(a) \subseteq Packet /\ (P.sec # NoKey => Packets(b) \subseteq Packet)
  BY <1>1, PacketsType
<1>4. P.sec # NoKey => FlushedKey(b) # NoKey
  BY <1>1, FlushedKeyType, NoKeyAssumption
<1>5. Q \in Peer
  BY FlushKeysType
<1> HIDE DEF a, b, Q
<1>6. /\ Q.pri = FlushedKey(a) /\ Q.up = P.up
      /\ Q.sec = (IF P.sec = NoKey THEN NoKey ELSE FlushedKey(b))
      /\ Q.sent = P.sent \cup Packets(a) \cup (IF P.sec = NoKey THEN {} ELSE Packets(b))
  BY <1>1, <1>2 DEF Peer
<1>7. Q.sec = NoKey <=> P.sec = NoKey
  BY <1>4, <1>6
<1> QED BY <1>3, <1>5, <1>6, <1>7 DEF a, b, Q

LEMMA FlushMoves ==
    ASSUME Windows, NEW p \in Side, NEW t \in Nat, NEW P, OnePeer(p, P, t)
    PROVE  LET Q == FlushKeys(p, P, t) IN
           /\ Moves(p, P, Q, t)
           /\ Newest(Q).got = Newest(P).got /\ Newest(Q).acked = Newest(P).acked
           /\ Newest(Q).queue = <<>>
<1> DEFINE Q == FlushKeys(p, P, t)
           A == Packets(P.pri)
           B == IF P.sec = NoKey THEN {} ELSE Packets(P.sec)
<1>1. /\ P \in Peer /\ P.pri \in Key /\ Good(p, P.pri, t)
      /\ P.sec # NoKey => P.sec \in Key /\ Good(p, P.sec, t)
  BY OneKeys
<1>2. /\ PostAckAction(p, P.pri, t) = P.pri /\ Advances(p, P.pri, FlushedKey(P.pri), A, t)
      /\ P.sec # NoKey => /\ PostAckAction(p, P.sec, t) = P.sec
                          /\ Advances(p, P.sec, FlushedKey(P.sec), Packets(P.sec), t)
  BY <1>1, KeyFlushed
<1>3. /\ Q \in Peer /\ Q.pri = FlushedKey(P.pri) /\ Q.up = P.up
      /\ Q.sec = IF P.sec = NoKey THEN NoKey ELSE FlushedKey(P.sec)
      /\ Q.sec = NoKey <=> P.sec = NoKey
      /\ Q.sent = P.sent \cup A \cup B
      /\ A \subseteq Packet /\ B \subseteq Packet
  BY <1>1, <1>2, FlushKeysFields
<1> HIDE DEF Q
<1>4. Moves(p, P, Q, t)
  <2> HIDE DEF A
  <2>1. Advances(p, P.pri, Q.pri, A, t)
    BY <1>2, <1>3
  <2>2. IF P.sec = NoKey THEN B = {} ELSE Advances(p, P.sec, Q.sec, B, t)
    BY <1>2, <1>3
  <2> QED BY <1>3, <2>1, <2>2 DEF Moves
<1>5. \A k \in Key : FlushedKey(k).got = k.got /\ FlushedKey(k).acked = k.acked
                     /\ FlushedKey(k).queue = <<>>
  BY DEF FlushedKey, Key
<1>6. Newest(Q) = FlushedKey(Newest(P)) /\ Newest(P) \in Key
  BY <1>1, <1>3, <1>4, MovesKeeps DEF Newest, Keeps, Renewing
<1> QED BY <1>4, <1>5, <1>6 DEF Q

(* The packet pk arrives for the primary or for the secondary: for the     *)
(* newest key it is what the handshake waits for or nothing new, and an    *)
(* older key is past its handshake.                                        *)
LEMMA ReceiveMoves ==
    ASSUME Windows, NEW p \in Side, NEW t \in Nat, NEW P, OnePeer(p, P, t),
           NEW pk \in Packet, PacketShape(Other(p), pk), NEW slot \in {"pri", "sec"},
           slot = "sec" => P.sec # NoKey,
           P[slot].got < 3 => P[slot].queue = <<>> /\ pk.ack <= P[slot].out
    PROVE  LET Q == FlushKeys(p, [P EXCEPT ![slot] = NetRecv(p, @, pk)], t) IN
           /\ Moves(p, P, Q, t)
           /\ P[slot] = Newest(P) => Counted(Newest(Q), Newest(P), pk)
           /\ P[slot] # Newest(P) =>
                 Newest(Q).got = Newest(P).got /\ Newest(Q).acked = Newest(P).acked
<1> DEFINE k == P[slot]
           r == NetRecv(p, k, pk)
           M == [P EXCEPT ![slot] = r]
           Q == FlushKeys(p, M, t)
           q == PostAckAction(p, r, t)
<1>1. /\ P \in Peer /\ P.pri \in Key /\ Good(p, P.pri, t)
      /\ P.sec # NoKey => P.sec \in Key /\ Good(p, P.sec, t) /\ P.sec.id # P.pri.id
  BY OneKeys
<1>2. k \in Key /\ Good(p, k, t)
  BY <1>1
<1>3. k.queue = <<>> /\ pk.ack <= k.out
  <2>1. CASE k.got < 3
    BY <2>1
  <2>2. CASE ~ k.got < 3
    <3>1. k.got = 3
      BY <1>2, <2>2 DEF Good, Handshake
    <3>2. k.queue = <<>> /\ k.out = 3
      BY <1>2, <3>1 DEF Good, Handshake, Side
    <3>3. pk.ack <= 3
      BY DEF PacketShape
    <3> QED BY <3>2, <3>3
  <2> QED BY <2>1, <2>2
<1>4. /\ r \in Key
      /\ Advances(p, k, FlushedKey(q), Packets(q), t)
      /\ Counted(FlushedKey(q), k, pk)
  <2> HIDE DEF k
  <2> QED BY <1>2, <1>3, KeyReceived, NetRecvType
<1>5. \A j \in Key : Good(p, j, t) =>
        /\ PostAckAction(p, j, t) = j /\ Advances(p, j, FlushedKey(j), Packets(j), t)
        /\ FlushedKey(j).got = j.got /\ FlushedKey(j).acked = j.acked
  BY KeyFlushed DEF FlushedKey, Key
<1>6. Q = FlushKeys(p, [P EXCEPT ![slot] = NetRecv(p, @, pk)], t)
  BY <1>1 DEF Peer
<1> HIDE DEF r, Q
<1>7. /\ M \in Peer /\ M.up = P.up /\ M.sent = P.sent /\ (M.sec = NoKey <=> P.sec = NoKey)
      /\ M.pri = IF slot = "pri" THEN r ELSE P.pri
      /\ M.sec = IF slot = "sec" THEN r ELSE P.sec
  BY <1>1, <1>4, NoKeyAssumption DEF Peer
<1> HIDE DEF M, k
<1> DEFINE a == PostAckAction(p, M.pri, t)
           b == PostAckAction(p, M.sec, t)
           A == Packets(a)
           B == IF P.sec = NoKey THEN {} ELSE Packets(b)
<1>8. /\ Q \in Peer /\ Q.pri = FlushedKey(a) /\ Q.up = P.up
      /\ Q.sec = IF P.sec = NoKey THEN NoKey ELSE FlushedKey(b)
      /\ Q.sec = NoKey <=> P.sec = NoKey
      /\ Q.sent = P.sent \cup A \cup B
      /\ A \subseteq Packet /\ B \subseteq Packet
  <2>1. /\ Q \in Peer /\ Q.pri = FlushedKey(a) /\ Q.up = M.up
        /\ Q.sec = IF M.sec = NoKey THEN NoKey ELSE FlushedKey(b)
        /\ Q.sec = NoKey <=> M.sec = NoKey
        /\ Q.sent = M.sent \cup Packets(a) \cup (IF M.sec = NoKey THEN {} ELSE Packets(b))
        /\ Packets(a) \subseteq Packet /\ (M.sec # NoKey => Packets(b) \subseteq Packet)
    <3>1. M \in Peer
      BY <1>7
    <3> QED BY <3>1, FlushKeysFields DEF Q
  <2> HIDE DEF a, b
  <2> QED BY <1>7, <2>1
<1>9. Advances(p, P.pri, Q.pri, A, t) /\ (slot = "pri" => Q.pri = FlushedKey(q))
      /\ (slot = "sec" => Q.pri.got = P.pri.got /\ Q.pri.acked = P.pri.acked)
  <2>1. CASE slot = "pri"
    BY <1>4, <1>7, <1>8, <2>1 DEF k
  <2>2. CASE slot = "sec"
    BY <1>1, <1>5, <1>7, <1>8, <2>2
  <2> QED BY <2>1, <2>2
<1>10. P.sec # NoKey =>
         /\ Advances(p, P.sec, Q.sec, B, t) /\ (slot = "sec" => Q.sec = FlushedKey(q))
         /\ slot = "pri" => Q.sec.got = P.sec.got /\ Q.sec.acked = P.sec.acked
  <2>1. CASE slot = "sec"
    BY <1>4, <1>7, <1>8, <2>1 DEF k
  <2>2. CASE slot = "pri"
    BY <1>1, <1>5, <1>7, <1>8, <2>2
  <2> QED BY <2>1, <2>2
<1>11. Moves(p, P, Q, t)
  <2> HIDE DEF A, a, b
  <2>1. IF P.sec = NoKey THEN B = {} ELSE Advances(p, P.sec, Q.sec, B, t)
    BY <1>10
  <2> QED BY <1>8, <1>9, <2>1 DEF Moves
<1>12. /\ Newest(P) = (IF Renewing(P) THEN P.sec ELSE P.pri)
       /\ Newest(Q) = (IF Renewing(P) THEN Q.sec ELSE Q.pri)
       /\ Renewing(P) => P.sec # NoKey
  BY <1>11, MovesKeeps DEF Newest, Keeps, Renewing
<1>13. k = IF slot = "pri" THEN P.pri ELSE P.sec
  BY DEF k
<1>14. k = Newest(P) => Newest(Q) = FlushedKey(q)
  BY <1>1, <1>9, <1>10, <1>12, <1>13
<1>15. k # Newest(P) => Newest(Q).got = Newest(P).got /\ Newest(Q).acked = Newest(P).acked
  BY <1>9, <1>10, <1>12, <1>13
<1>16. /\ Moves(p, P, Q, t)
       /\ k = Newest(P) => Counted(Newest(Q), Newest(P), pk)
       /\ k # Newest(P) =>
             Newest(Q).got = Newest(P).got /\ Newest(Q).acked = Newest(P).acked
  <2> HIDE DEF q
  <2> QED BY <1>4, <1>11, <1>14, <1>15
<1> QED BY <1>6, <1>16 DEF k

--------------------------------------------------------------------------------
(* The events of one peer.                                                 *)

LEMMA TimesNat ==
    ASSUME Windows, NEW p \in Side
    PROVE  /\ BecomePrimary \in Nat /\ BecomePrimary > 0
           /\ HandshakeWindow \in Nat /\ HandshakeWindow > 0
           /\ Renegotiate["client"] \in Nat /\ Renegotiate["server"] \in Nat
           /\ Renegotiate[p] \in Nat /\ Expire[p] \in Nat
           /\ BecomePrimary + 1 < Renegotiate["client"]
           /\ Renegotiate["client"] < Renegotiate["server"]
           /\ Renegotiate["client"] <= Renegotiate[p]
           /\ Renegotiate["client"] + BecomePrimary + 1 < Expire[p]
BY Durations DEF Windows, Side

(* The times of the events a key waits for.                                *)
LEMMA GoodTimes ==
    ASSUME Windows, NEW p \in Side, NEW t \in Nat, NEW k \in Key, Good(p, k, t)
    PROVE  /\ k.got \in 0..3 /\ (k.next # "negotiate" => k.got = 3)
           /\ k.next = "negotiate" => k.born = t /\ t < k.at
           /\ k.next = "primaryPending" => t < k.at
           /\ k.next = "becomePrimary" => t <= k.born + BecomePrimary + 1
           /\ k.next = "renegotiate" => k.at = k.born + Renegotiate[p]
           /\ k.next = "expire" => k.at = k.born + Expire[p]
<1>1. k.born \in Nat /\ k.at \in Nat
  BY DEF Key
<1>2. k.got \in 0..3 /\ (k.next = "negotiate" <=> k.got < 3) /\ t <= k.at
  BY DEF Good, Handshake, Awaits
<1>3. /\ k.next = "negotiate" => k.born = t /\ k.at = k.born + HandshakeWindow
      /\ k.next = "primaryPending" => k.at = t + 2 * HandshakeWindow
      /\ k.next = "becomePrimary" =>
            k.at = k.born + BecomePrimary \/ k.at = k.born + BecomePrimary + 1
      /\ k.next = "renegotiate" => k.at = k.born + Renegotiate[p]
      /\ k.next = "expire" => k.at = k.born + Expire[p]
  BY DEF Good, Awaits
<1>4. BecomePrimary \in Nat /\ HandshakeWindow \in Nat /\ HandshakeWindow > 0
  BY TimesNat
<1>5. k.next = "negotiate" => t < k.at
  BY <1>1, <1>3, <1>4
<1>6. k.next = "primaryPending" => t < k.at
  BY <1>3, <1>4
<1>7. k.next = "becomePrimary" => t <= k.born + BecomePrimary + 1
  BY <1>1, <1>2, <1>3, <1>4
<1> QED BY <1>2, <1>3, <1>5, <1>6, <1>7

(* A key with another event to come.                                       *)
LEMMA EventGood ==
    ASSUME NEW p \in Side, NEW t \in Nat, NEW k \in Key, Good(p, k, t), NEW j \in Key,
           SameHandshake(j, k), SameLife(j, k), j.st = k.st, j.cur = "none", k.got = 3, t <= j.at,
           \/ j.next = k.next /\ j.at = k.at
           \/ j.next = "renegotiate" /\ j.at = k.born + Renegotiate[p]
           \/ j.next = "expire" /\ j.at = k.born + Expire[p]
           \/ /\ j.next = "primaryPending" /\ t = k.born + BecomePrimary
              /\ j.at = t + 2 * HandshakeWindow
              /\ p = "client" /\ DataLimited /\ ~ k.green /\ k.id # 0
    PROVE  Good(p, j, t)
<1>1. Handshake(p, j)
  BY DEF Good, Handshake, SameHandshake
<1>2. Awaits(p, j, t)
  BY DEF Good, Awaits, SameHandshake, SameLife
<1> QED BY <1>1, <1>2 DEF Good

(* The same peer when the events of its keys have changed, or it has       *)
(* promoted the newest one.                                                *)
LEMMA SameRole ==
    ASSUME NEW p, NEW t, NEW P, OnePeer(p, P, t),
           NEW Q \in Peer, Q.up = P.up, Q.sent = P.sent,
           Newest(Q).id = Newest(P).id, SameHandshake(Newest(Q), Newest(P)),
           IF Renewing(Q) THEN RenewingShape(p, Q, t) ELSE SteadyShape(p, Q, t)
    PROVE  OnePeer(p, Q, t)
<1>1. SentShape(p, Q)
  BY DEF OnePeer, SentShape, SameHandshake
<1> QED BY <1>1 DEF OnePeer

(* A peer renews its key for a short time.                                 *)
LEMMA RenewingSoon ==
    ASSUME Windows, NEW p \in Side, NEW t \in Nat, NEW P, OnePeer(p, P, t), Renewing(P)
    PROVE  /\ RenewingShape(p, P, t) /\ P.sec # NoKey
           /\ P.sec.born <= t /\ t <= P.sec.born + BecomePrimary + 1
           /\ P.sec.born = P.pri.born + Renegotiate["client"]
           /\ t < P.pri.born + Expire[p] /\ t < P.pri.at
           /\ P.pri.got = 3 /\ P.pri.cur = "none" /\ Newest(P) = P.sec
<1>1. RenewingShape(p, P, t) /\ P.sec # NoKey
  BY DEF OnePeer, Renewing
<1>2. P.pri \in Key /\ P.sec \in Key
  BY OneKeys, <1>1
<1>3. P.pri.born \in Nat /\ P.sec.born \in Nat /\ P.sec.at \in Nat /\ P.pri.at \in Nat
  BY <1>2 DEF Key
<1>4. Good(p, P.pri, t) /\ Good(p, P.sec, t) /\ P.sec.born = P.pri.born + Renegotiate["client"]
  BY <1>1 DEF RenewingShape
<1>5. P.sec.born <= t /\ t <= P.sec.born + BecomePrimary + 1
  BY <1>1, <1>3, <1>4, TimesNat DEF RenewingShape, Good, Awaits
<1>6. t < P.pri.born + Expire[p]
  BY <1>3, <1>4, <1>5, TimesNat
<1>7. P.pri.got = 3 /\ P.pri.cur = "none"
  BY <1>1, <1>4 DEF RenewingShape, Good, Awaits, Handshake
<1>8. t < P.pri.at
  <2>1. CASE P.pri.next = "expire"
    BY <1>3, <1>4, <1>6, <2>1 DEF Good, Awaits
  <2>2. CASE P.pri.next # "expire"
    <3>1. p = "server" /\ P.pri.at = P.pri.born + Renegotiate[p] /\ P.sec.born = t
      BY <1>1, <1>4, <2>2 DEF RenewingShape, Good, Awaits
    <3> QED BY <1>3, <1>4, <3>1, TimesNat
  <2> QED BY <2>1, <2>2
<1> QED BY <1>1, <1>4, <1>5, <1>6, <1>7, <1>8 DEF Newest

(* What an event may change of a peer without the other one having to know. *)
Calm(p, P, Q, t) ==
    /\ OnePeer(p, Q, t) /\ Keeps(P, Q) /\ SameHandshake(Newest(Q), Newest(P))
    /\ Renewing(Q) /\ Q.sec.next = "becomePrimary" =>
          P.sec.next = "becomePrimary" /\ Q.sec.at = P.sec.at
    /\ P.sec # NoKey /\ Q.sec = NoKey => ~ Renewing(P) /\ t = P.sec.born + Expire[p]

(* A new secondary as the initiator, or as the peer's request asks for.    *)
LEMMA RenewOne ==
    ASSUME Windows, NEW p \in Side, NEW t \in Nat, NEW P, OnePeer(p, P, t), ~ Renewing(P),
           NEW initiator \in BOOLEAN, initiator <=> p = "client",
           NEW M \in Peer, SameKey(M.pri, P.pri), M.sec = P.sec, M.up = P.up, M.sent = P.sent,
           Good(p, M.pri, t), t = P.pri.born + Renegotiate["client"],
           IF p = "client" THEN M.pri.next = "expire" ELSE M.pri.next = "renegotiate"
    PROVE  LET Q == NewSecondaryKey(M, initiator, t) IN
           /\ OnePeer(p, Q, t) /\ Renewing(Q) /\ Q.sec # NoKey /\ Q.pri = M.pri
           /\ Q.sec.id = NextKeyId(P.pri.id) /\ Q.sec.born = t /\ Q.sec.next = "negotiate"
           /\ Q.sec.got = 0 /\ Q.sec.acked = 0 /\ Q.sec.out = 0 /\ Q.sec.id = P.up
<1> DEFINE Q == NewSecondaryKey(M, initiator, t)
           s == NewKey(P.up, initiator, t)
           kept == {P.pri.id} \cup (IF P.sec = NoKey THEN {} ELSE {P.sec.id})
<1>1. /\ P \in Peer /\ P.pri \in Key /\ P.sent \subseteq Packet
      /\ P.sec # NoKey => P.sec \in Key /\ P.sec.id # P.pri.id
      /\ P.up \in 0..KeyIdMask
  BY OneKeys
<1>2. SteadyShape(p, P, t) /\ P.up = NextKeyId(P.pri.id) /\ SentShape(p, P) /\ Newest(P) = P.pri
  BY DEF OnePeer, Newest
<1>3. s \in Key /\ s # NoKey
  BY <1>1, NewKeyType, NoKeyAssumption
<1>4. Q \in Peer
  BY NewSecondaryKeyType
<1>5. /\ Q.pri = M.pri /\ Q.sec = s /\ Q.up = NextKeyId(P.up)
      /\ Q.sent = {pk \in P.sent : pk.kid \in kept \ {P.up}}
  BY DEF NewSecondaryKey, Peer, SameKey
<1>6. /\ s.id = P.up /\ s.st = "waitReset" /\ s.cur = "none" /\ s.next = "negotiate"
      /\ s.at = t + HandshakeWindow /\ s.born = t /\ ~ s.fired /\ ~ s.green /\ s.valid
      /\ s.queue = (IF p = "client" THEN <<"reset">> ELSE <<>>)
      /\ s.out = 0 /\ s.acked = 0 /\ s.got = 0
  BY DEF NewKey
<1> HIDE DEF Q, s
<1>7. Handshake(p, s)
  BY <1>6 DEF Handshake, Side
<1>8. Awaits(p, s, t)
  BY <1>6, TimesNat DEF Awaits
<1>9. Renewing(Q) /\ Newest(Q) = s
  BY <1>3, <1>5, <1>6 DEF Renewing, Newest
<1>10. RenewingShape(p, Q, t)
  BY <1>2, <1>5, <1>6, <1>7, <1>8 DEF RenewingShape, Good, SameKey, Side
<1>11. SentShape(p, Q)
  <2>1. ASSUME NEW pk \in Q.sent
        PROVE  PacketShape(p, pk) /\ Near(pk.kid, s.id) /\ pk.kid # s.id
    <3>1. pk \in P.sent /\ pk.kid \in kept /\ pk.kid # P.up
      BY <1>5
    <3>2. CASE pk.kid = P.pri.id
      BY <1>2, <1>6, <3>1, <3>2 DEF SentShape, Near
    <3>3. CASE P.sec # NoKey /\ pk.kid = P.sec.id
      <4>1. NextKeyId(P.sec.id) = P.pri.id
        BY <1>2, <3>3 DEF SteadyShape
      <4> QED BY <1>2, <1>6, <3>1, <3>3, <4>1 DEF SentShape, Near
    <3> QED BY <3>1, <3>2, <3>3
  <2> QED BY <1>6, <1>9, <2>1 DEF SentShape
<1>12. OnePeer(p, Q, t)
  BY <1>4, <1>5, <1>6, <1>9, <1>10, <1>11 DEF OnePeer
<1> QED BY <1>2, <1>3, <1>5, <1>6, <1>9, <1>12 DEF Q

(* The event of the primary: the first key settles, and a client whose key *)
(* is due for renewal starts with the next one.                            *)
Renews(P, Q, t) ==
    /\ ~ Renewing(P) /\ P.pri.next = "renegotiate" /\ P.pri.at = t /\ P.pri.got = 3
    /\ Renewing(Q) /\ Q.sec.id = NextKeyId(P.pri.id) /\ Q.sec.born = t
    /\ Q.sec.got = 0 /\ Q.sec.acked = 0 /\ SameKey(Q.pri, P.pri)

LEMMA PriCalm ==
    ASSUME Windows, NEW p \in Side, NEW t \in Nat, NEW P, OnePeer(p, P, t),
           NEW j \in Key, Good(p, j, t), SameHandshake(j, P.pri), SameLife(j, P.pri),
           Renewing(P) => j.next = P.pri.next,
           ~ Renewing(P) => /\ j.next \in {"negotiate", "becomePrimary", "renegotiate"}
                            /\ j.next # "renegotiate" => j.id = 0
    PROVE  LET Q == [P EXCEPT !.pri = j] IN
           Calm(p, P, Q, t) /\ Q.sec = P.sec
<1> DEFINE Q == [P EXCEPT !.pri = j]
<1>1. P \in Peer /\ P.pri \in Key
  BY OneKeys
<1>2. /\ Q \in Peer /\ Q.pri = j /\ Q.sec = P.sec /\ Q.up = P.up /\ Q.sent = P.sent
  BY <1>1 DEF Peer
<1> HIDE DEF Q
<1>3. (Renewing(P) <=> Renewing(Q)) /\ SameKey(Q.pri, P.pri)
  BY <1>2 DEF Renewing, SameKey, SameLife
<1>4. Newest(Q).id = Newest(P).id /\ SameHandshake(Newest(Q), Newest(P))
  BY <1>2, <1>3 DEF Newest, SameLife, SameHandshake
<1>5. IF Renewing(Q) THEN RenewingShape(p, Q, t) ELSE SteadyShape(p, Q, t)
  <2>1. CASE Renewing(P)
    <3>1. RenewingShape(p, P, t)
      BY <2>1 DEF OnePeer
    <3>2. RenewingShape(p, Q, t)
      BY <1>2, <2>1, <3>1 DEF RenewingShape, SameLife
    <3> QED BY <1>3, <2>1, <3>2
  <2>2. CASE ~ Renewing(P)
    <3>1. SteadyShape(p, P, t)
      BY <2>2 DEF OnePeer
    <3>2. SteadyShape(p, Q, t)
      BY <1>2, <2>2, <3>1 DEF SteadyShape, SameLife
    <3> QED BY <1>3, <2>2, <3>2
  <2> QED BY <2>1, <2>2
<1>6. OnePeer(p, Q, t)
  BY <1>2, <1>4, <1>5, SameRole
<1>7. Calm(p, P, Q, t)
  BY <1>2, <1>3, <1>4, <1>6 DEF Calm, Keeps, SameKey
<1> QED BY <1>2, <1>7 DEF Q

LEMMA SelfCalm ==
    ASSUME NEW p, NEW t, NEW P, OnePeer(p, P, t)
    PROVE  Calm(p, P, P, t)
BY DEF Calm, Keeps, SameKey, SameHandshake

LEMMA PrimaryMoves ==
    ASSUME Windows, NEW p \in Side, NEW t \in Nat, NEW P, OnePeer(p, P, t),
           p = "server" /\ ~ Renewing(P) /\ P.pri.next = "renegotiate" => t < P.pri.at
    PROVE  LET Q == ProcessPrimaryEvent(p, P, t) IN
           \/ Calm(p, P, Q, t) /\ Q.sec = P.sec
           \/ p = "client" /\ OnePeer(p, Q, t) /\ Renews(P, Q, t)
<1> DEFINE k == P.pri
           e == EventPending(p, k, t)
           N == ProcessPrimaryEvent(p, P, t)
           c == [e EXCEPT !.cur = "none"]
           M == [P EXCEPT !.pri = c]
<1>1. P \in Peer /\ k \in Key /\ Good(p, k, t)
  BY OneKeys
<1>2. /\ k.at \in Nat /\ k.born \in Nat /\ k.id \in 0..KeyIdMask /\ k.valid /\ ~ k.fired
      /\ t <= k.at /\ k.born <= t /\ k.next # "none" /\ k.cur \in {"none", "active"}
  BY <1>1 DEF Key, Good, Awaits
<1>3. k.next # "none" /\ [P EXCEPT !.pri = k] = P
  BY <1>1, <1>2 DEF Peer
<1>4. \A j \in Key : j.next # "none" => Specified(p, j, t) = j
  BY DEF Specified
<1>5. \A R \in Peer : [R EXCEPT !.pri = R.pri] = R
  BY DEF Peer
<1>6. CASE k.cur = "active" \/ t < k.at
  <2>1. e = k
    BY <1>6 DEF EventPending
  <2>2. CASE k.cur = "none"
    <3>1. N = P
      BY <1>3, <2>1, <2>2 DEF ProcessPrimaryEvent
    <3> QED BY <3>1, SelfCalm
  <2>3. CASE k.cur = "active"
    <3>1. c \in Key /\ SameHandshake(c, k) /\ SameLife(c, k) /\ c.st = k.st /\ c.cur = "none"
          /\ c.next = k.next /\ c.at = k.at
      BY <1>1, <2>1, ClearedFields DEF Key, SameHandshake, SameLife
    <3>2. k.got = 3
      BY <1>1, <2>3 DEF Good, Awaits, Handshake
    <3>3. N = [M EXCEPT !.pri = Specified(p, @, t)]
      BY <2>1, <2>3 DEF ProcessPrimaryEvent
    <3> HIDE DEF c
    <3>4. M \in Peer /\ M.pri = c
      BY <1>1, <3>1 DEF Peer
    <3> HIDE DEF M
    <3>5. N = M
      BY <1>2, <1>4, <1>5, <3>1, <3>3, <3>4
    <3>6. Good(p, c, t)
      BY <1>1, <1>2, <3>1, <3>2, EventGood
    <3>7. Renewing(P) \/ SteadyShape(p, P, t)
      BY DEF OnePeer
    <3>8. Calm(p, P, M, t) /\ M.sec = P.sec
      BY <3>1, <3>6, <3>7, PriCalm DEF M, SteadyShape, SameLife
    <3> QED BY <3>5, <3>8
  <2> QED BY <1>2, <2>2, <2>3
<1>7. CASE k.cur = "none" /\ k.at = t
  <2>1. ~ Renewing(P)
    BY <1>2, <1>7, RenewingSoon
  <2>2. SteadyShape(p, P, t)
    BY <2>1 DEF OnePeer
  <2>3. ~ (k.cur # "none" \/ t < k.at)
    BY <1>7
  <2>4. k.next \in {"becomePrimary", "renegotiate"} /\ k.got = 3
    <3>1. /\ k.next # "negotiate" => k.got = 3
          /\ k.next = "negotiate" => t < k.at
      BY <1>1, GoodTimes
    <3> QED BY <1>2, <1>7, <2>2, <3>1 DEF SteadyShape
  <2>5. CASE k.next = "becomePrimary"
    <3> DEFINE at == k.born + Renegotiate[p]
    <3>1. k.id = 0
      BY <2>2, <2>5 DEF SteadyShape
    <3>2. e = SetEvent(k, "becomePrimary", "renegotiate", at)
      BY <2>3, <2>5, <3>1 DEF EventPending, DataLimitDefer
    <3>3. at \in Nat /\ t <= at
      BY <1>1, <1>2, <1>7, <2>5, <3>1, TimesNat DEF Good, Awaits
    <3> HIDE DEF at
    <3>4. e \in Key /\ SameHandshake(e, k) /\ SameLife(e, k) /\ e.st = k.st
          /\ e.cur = "becomePrimary" /\ e.next = "renegotiate" /\ e.at = at
      <4>1. "becomePrimary" \in Event /\ "renegotiate" \in Event
        BY DEF Event
      <4> HIDE DEF e, k
      <4> QED BY <1>1, <3>2, <3>3, <4>1, SetEventSame
    <3> HIDE DEF e
    <3>5. c \in Key /\ SameHandshake(c, k) /\ SameLife(c, k) /\ c.st = k.st /\ c.cur = "none"
          /\ c.next = "renegotiate" /\ c.at = at
      BY <3>4, ClearedFields DEF Key, SameHandshake, SameLife
    <3>6. N = [M EXCEPT !.pri = Specified(p, @, t)]
      BY <3>4 DEF ProcessPrimaryEvent, e
    <3> HIDE DEF c
    <3>7. M \in Peer /\ M.pri = c
      BY <1>1, <3>5 DEF Peer
    <3> HIDE DEF M
    <3>8. N = M
      BY <1>4, <1>5, <3>5, <3>6, <3>7
    <3>9. Good(p, c, t)
      BY <1>1, <2>4, <3>3, <3>5, EventGood DEF at
    <3>10. Calm(p, P, M, t) /\ M.sec = P.sec
      BY <2>1, <3>5, <3>9, PriCalm DEF M
    <3> QED BY <3>8, <3>10
  <2>6. CASE k.next = "renegotiate"
    <3> DEFINE at == k.born + Expire[p]
    <3>1. p = "client"
      BY <1>7, <1>2, <2>1, <2>6 DEF Side
    <3>2. e = SetEvent(k, "renegotiate", "expire", at)
      BY <1>2, <2>3, <2>6 DEF EventPending, PrepareExpire
    <3>3. t = k.born + Renegotiate["client"]
      BY <1>1, <1>7, <2>6, <3>1 DEF Good, Awaits
    <3>4. at \in Nat /\ t <= at
      BY <1>2, <3>3, TimesNat
    <3> HIDE DEF at
    <3>5. e \in Key /\ SameHandshake(e, k) /\ SameLife(e, k) /\ e.st = k.st
          /\ e.cur = "renegotiate" /\ e.next = "expire" /\ e.at = at
      <4>1. "renegotiate" \in Event /\ "expire" \in Event
        BY DEF Event
      <4> HIDE DEF e, k
      <4> QED BY <1>1, <3>2, <3>4, <4>1, SetEventSame
    <3> HIDE DEF e
    <3>6. c \in Key /\ SameHandshake(c, k) /\ SameLife(c, k) /\ c.st = k.st /\ c.cur = "none"
          /\ c.next = "expire" /\ c.at = at
      BY <3>5, ClearedFields DEF Key, SameHandshake, SameLife
    <3> DEFINE R == NewSecondaryKey(M, TRUE, t)
    <3>7. N = [R EXCEPT !.pri = Specified(p, @, t)]
      BY <3>5 DEF ProcessPrimaryEvent, e
    <3> HIDE DEF c
    <3>8. M \in Peer /\ M.pri = c /\ M.sec = P.sec /\ M.up = P.up /\ M.sent = P.sent
      BY <1>1, <3>6 DEF Peer
    <3> HIDE DEF M
    <3>9. Good(p, c, t)
      BY <1>1, <2>4, <3>4, <3>6, EventGood DEF at
    <3>10. SameKey(M.pri, P.pri)
      BY <3>6, <3>8 DEF SameKey, SameLife
    <3>11. /\ OnePeer(p, R, t) /\ Renewing(R) /\ R.sec # NoKey /\ R.pri = M.pri
           /\ R.sec.id = NextKeyId(P.pri.id) /\ R.sec.born = t
           /\ R.sec.got = 0 /\ R.sec.acked = 0
      <4>1. Good(p, M.pri, t) /\ (IF p = "client" THEN M.pri.next = "expire" ELSE M.pri.next = "renegotiate")
        BY <3>1, <3>6, <3>8, <3>9
      <4>2. TRUE \in BOOLEAN /\ (TRUE <=> p = "client")
        BY <3>1
      <4>3. ASSUME NEW initiator \in BOOLEAN, initiator <=> p = "client"
            PROVE  LET Q == NewSecondaryKey(M, initiator, t) IN
                   /\ OnePeer(p, Q, t) /\ Renewing(Q) /\ Q.sec # NoKey /\ Q.pri = M.pri
                   /\ Q.sec.id = NextKeyId(P.pri.id) /\ Q.sec.born = t
                   /\ Q.sec.got = 0 /\ Q.sec.acked = 0
        BY <2>1, <3>3, <3>8, <3>10, <4>1, <4>3, RenewOne
      <4> QED BY <4>2, <4>3
    <3> HIDE DEF R
    <3>12. N = R
      <4>1. R \in Peer
        BY <3>11 DEF OnePeer
      <4> QED BY <1>4, <1>5, <3>6, <3>7, <3>8, <3>11, <4>1
    <3>13. Renews(P, R, t)
      BY <1>7, <2>1, <2>4, <2>6, <3>10, <3>11 DEF Renews
    <3> QED BY <3>1, <3>11, <3>12, <3>13
  <2> QED BY <2>4, <2>5, <2>6
<1> QED BY <1>2, <1>6, <1>7

(* The event of the secondary: it becomes the primary when its time has    *)
(* come.                                                                   *)
Promotes(P, Q, t) ==
    /\ Renewing(P) /\ P.sec.next = "becomePrimary" /\ P.sec.at = t /\ P.sec.got = 3
    /\ ~ Renewing(Q) /\ Q.sec # NoKey
    /\ SameKey(Q.pri, P.sec) /\ SameHandshake(Q.pri, P.sec) /\ SameKey(Q.sec, P.pri)

(* The old primary waits for its end.                                      *)
LEMMA RetiredGood ==
    ASSUME Windows, NEW p \in Side, NEW t \in Nat, NEW P, OnePeer(p, P, t), Renewing(P)
    PROVE  LET x == PrepareExpire(p, P.pri, "none", t) IN
           /\ x \in Key /\ Good(p, x, t) /\ SameKey(x, P.pri) /\ x.next = "expire"
<1> DEFINE k == P.pri
           at == k.born + Expire[p]
           x == PrepareExpire(p, k, "none", t)
<1>1. k \in Key /\ Good(p, k, t) /\ k.got = 3 /\ t < at
  BY OneKeys, RenewingSoon
<1>2. at \in Nat /\ ~ k.fired
  <2>1. k.born \in Nat
    BY <1>1 DEF Key
  <2> QED BY <1>1, <2>1, TimesNat DEF Good, Awaits
<1>3. x = SetEvent(k, "none", "expire", at)
  BY <1>2 DEF PrepareExpire
<1> HIDE DEF at, k, x
<1>4. x \in Key /\ SameHandshake(x, k) /\ SameLife(x, k) /\ x.st = k.st /\ x.cur = "none"
      /\ x.next = "expire" /\ x.at = at
  <2>1. "none" \in Event /\ "expire" \in Event
    BY DEF Event
  <2> QED BY <1>1, <1>2, <1>3, <2>1, SetEventSame
<1>5. t <= x.at
  BY <1>1, <1>2, <1>4
<1>6. Good(p, x, t)
  BY <1>1, <1>4, <1>5, EventGood DEF at
<1> QED BY <1>4, <1>6 DEF SameKey, SameLife, x, k

LEMMA SecondaryMoves ==
    ASSUME Windows, NEW p \in Side, NEW t \in Nat, NEW P, OnePeer(p, P, t)
    PROVE  LET Q == ProcessSecondaryEvent(p, P, t) IN
           \/ Calm(p, P, Q, t)
           \/ OnePeer(p, Q, t) /\ Promotes(P, Q, t)
<1> DEFINE k == P.sec
           e == EventPending(p, k, t)
           N == ProcessSecondaryEvent(p, P, t)
           c == [e EXCEPT !.cur = "none"]
           M == [P EXCEPT !.sec = c]
<1>1. CASE P.sec = NoKey
  <2>1. N = P
    BY <1>1 DEF ProcessSecondaryEvent
  <2> QED BY <2>1, SelfCalm
<1> SUFFICES ASSUME P.sec # NoKey PROVE Calm(p, P, N, t) \/ (OnePeer(p, N, t) /\ Promotes(P, N, t))
  BY <1>1
<1>2. P \in Peer /\ P.pri \in Key /\ k \in Key /\ Good(p, k, t) /\ Good(p, P.pri, t)
  BY OneKeys
<1>3. /\ k.at \in Nat /\ k.born \in Nat /\ k.id \in 0..KeyIdMask /\ k.valid /\ ~ k.fired
      /\ t <= k.at /\ k.born <= t /\ k.next # "none" /\ k.cur \in {"none", "active"}
  BY <1>2 DEF Key, Good, Awaits
<1>4. [P EXCEPT !.sec = k] = P
  BY <1>2 DEF Peer
<1>5. \A j \in Key : j.next # "none" => Specified(p, j, t) = j
  BY DEF Specified
<1>6. \A R \in Peer : [R EXCEPT !.sec = R.sec] = R
  BY DEF Peer
<1>7. CASE k.cur = "none" /\ t < k.at
  <2>1. e = k
    BY <1>7 DEF EventPending
  <2>2. N = P
    BY <1>4, <1>7, <2>1 DEF ProcessSecondaryEvent
  <2> QED BY <2>2, SelfCalm
<1>8. CASE k.cur = "active"
  <2> DEFINE x == PrepareExpire(p, P.pri, "none", t)
             R == [M EXCEPT !.pri = PrepareExpire(p, @, "none", t)]
  <2>1. e = k
    BY <1>8 DEF EventPending
  <2>2. c \in Key /\ SameHandshake(c, k) /\ SameLife(c, k) /\ c.st = k.st /\ c.cur = "none"
        /\ c.next = k.next /\ c.at = k.at
    BY <1>2, <2>1, ClearedFields DEF Key, SameHandshake, SameLife
  <2>3. k.got = 3 /\ k.next = "becomePrimary" /\ Renewing(P)
    BY <1>2, <1>8 DEF Good, Awaits, Handshake, Renewing
  <2>4. x \in Key /\ Good(p, x, t) /\ SameKey(x, P.pri) /\ x.next = "expire"
    BY <2>3, RetiredGood
  <2>5. N = [R EXCEPT !.sec = Specified(p, @, t)]
    BY <1>8, <2>1 DEF ProcessSecondaryEvent
  <2> HIDE DEF c, x
  <2>6. M \in Peer /\ M.pri = P.pri /\ M.sec = c /\ M.up = P.up /\ M.sent = P.sent
    BY <1>2, <2>2 DEF Peer
  <2> HIDE DEF M
  <2>7. R \in Peer /\ R.pri = x /\ R.sec = c /\ R.up = P.up /\ R.sent = P.sent
    BY <2>4, <2>6 DEF Peer, x
  <2> HIDE DEF R
  <2>8. N = R
    BY <1>3, <1>5, <1>6, <2>2, <2>5, <2>7
  <2>9. Good(p, c, t)
    BY <1>2, <1>3, <2>2, <2>3, EventGood
  <2>10. Renewing(R) /\ Newest(R) = c /\ Newest(P) = k
    BY <2>2, <2>3, <2>7, NoKeyAssumption DEF Renewing, Newest
  <2>11. RenewingShape(p, R, t)
    <3>1. RenewingShape(p, P, t)
      BY <2>3 DEF OnePeer
    <3> QED BY <2>2, <2>4, <2>7, <2>9, <3>1 DEF RenewingShape, SameKey, SameLife
  <2>12. OnePeer(p, R, t)
    BY <2>2, <2>7, <2>10, <2>11, SameRole DEF SameLife
  <2>13. Calm(p, P, R, t)
    BY <2>2, <2>3, <2>4, <2>7, <2>10, <2>12, NoKeyAssumption DEF Calm, Keeps, SameKey, SameLife
  <2> QED BY <2>8, <2>13
<1>9. CASE k.cur = "none" /\ k.at = t
  <2>1. ~ (k.cur # "none" \/ t < k.at)
    BY <1>9
  <2>2. CASE ~ Renewing(P)
    <3>1. k.next = "expire" /\ t = k.born + Expire[p]
      BY <1>2, <1>9, <2>2 DEF Renewing, Good, Awaits
    <3>2. e.cur = "expire"
      <4> DEFINE i == Invalidate(k)
      <4>1. e = [i EXCEPT !.cur = "expire"]
        BY <2>1, <3>1 DEF EventPending
      <4>2. i \in Key
        BY <1>2, InvalidateType
      <4> HIDE DEF i, e
      <4> QED BY <4>1, <4>2 DEF Key
    <3> DEFINE R == [M EXCEPT !.sec = NoKey]
    <3>3. N = [R EXCEPT !.sec = Specified(p, @, t)]
      BY <3>2 DEF ProcessSecondaryEvent
    <3> HIDE DEF e
    <3>4. R = [P EXCEPT !.sec = NoKey]
      BY <1>2 DEF Peer
    <3> HIDE DEF R
    <3>5. R \in Peer /\ R.pri = P.pri /\ R.sec = NoKey /\ R.up = P.up /\ R.sent = P.sent
      BY <1>2, <3>4 DEF Peer
    <3>6. N = R
      <4>1. Specified(p, NoKey, t) = NoKey
        BY DEF Specified
      <4> QED BY <1>6, <3>3, <3>5, <4>1
    <3>7. ~ Renewing(R) /\ Newest(R) = P.pri /\ Newest(P) = P.pri
      BY <2>2, <3>5 DEF Renewing, Newest
    <3>8. SteadyShape(p, R, t)
      BY <2>2, <3>5 DEF OnePeer, SteadyShape
    <3>9. OnePeer(p, R, t)
      BY <3>5, <3>7, <3>8, SameRole DEF SameHandshake
    <3>10. Calm(p, P, R, t)
      BY <2>2, <3>1, <3>5, <3>7, <3>9 DEF Calm, Keeps, SameKey, SameHandshake
    <3> QED BY <3>6, <3>10
  <2>3. CASE Renewing(P)
    <3>1. RenewingShape(p, P, t) /\ t <= k.born + BecomePrimary + 1 /\ t < P.pri.born + Expire[p]
      BY <2>3, RenewingSoon
    <3>2. k.next = "becomePrimary" /\ k.got = 3
      <4>1. /\ k.next # "negotiate" => k.got = 3
            /\ k.next = "negotiate" \/ k.next = "primaryPending" => t < k.at
        BY <1>2, GoodTimes
      <4> QED BY <1>3, <1>9, <3>1, <4>1 DEF RenewingShape
    <3>3. CASE DataLimitDefer(p, k)
      <4> DEFINE at == t + 2 * HandshakeWindow
                 R == [P EXCEPT !.sec = e]
      <4>1. e = SetEvent(k, "none", "primaryPending", at)
        BY <2>1, <3>2, <3>3 DEF EventPending
      <4>2. at \in Nat /\ t <= at
        BY TimesNat
      <4>3. t = k.born + BecomePrimary /\ p = "client" /\ DataLimited /\ ~ k.green /\ k.id # 0
        BY <1>2, <1>9, <3>2, <3>3 DEF DataLimitDefer, Good, Awaits
      <4> HIDE DEF e, k, at
      <4>4. e \in Key /\ SameHandshake(e, k) /\ SameLife(e, k) /\ e.st = k.st
            /\ e.cur = "none" /\ e.next = "primaryPending" /\ e.at = at
        <5>1. "none" \in Event /\ "primaryPending" \in Event
          BY DEF Event
        <5> QED BY <1>2, <4>1, <4>2, <5>1, SetEventSame
      <4>5. N = R
        BY <4>4 DEF ProcessSecondaryEvent, e, k
      <4>6. R \in Peer /\ R.pri = P.pri /\ R.sec = e /\ R.up = P.up /\ R.sent = P.sent
        BY <1>2, <4>4 DEF Peer
      <4> HIDE DEF R
      <4>7. Good(p, e, t)
        BY <1>2, <3>2, <4>2, <4>3, <4>4, EventGood DEF at
      <4>8. Renewing(R) /\ Newest(R) = e /\ Newest(P) = k
        BY <2>3, <4>4, <4>6, NoKeyAssumption DEF Renewing, Newest, k
      <4>9. RenewingShape(p, R, t)
        BY <1>2, <3>1, <3>2, <4>4, <4>6, <4>7 DEF RenewingShape, SameLife, k, Good, Awaits
      <4>10. OnePeer(p, R, t)
        BY <4>4, <4>6, <4>8, <4>9, SameRole DEF SameLife
      <4>11. Calm(p, P, R, t)
        BY <2>3, <4>4, <4>6, <4>8, <4>10, NoKeyAssumption DEF Calm, Keeps, SameKey, SameLife, k
      <4> QED BY <4>5, <4>11
    <3>4. CASE ~ DataLimitDefer(p, k)
      <4> DEFINE at == k.born + Renegotiate[p]
                 x == PrepareExpire(p, P.pri, "none", t)
                 R == Promote(p, M, t)
      <4>1. e = SetEvent(k, "becomePrimary", "renegotiate", at)
        BY <2>1, <3>2, <3>4 DEF EventPending
      <4>2. at \in Nat /\ t <= at
        BY <1>3, <3>1, TimesNat
      <4> HIDE DEF e, k, at
      <4>3. e \in Key /\ SameHandshake(e, k) /\ SameLife(e, k) /\ e.st = k.st
            /\ e.cur = "becomePrimary" /\ e.next = "renegotiate" /\ e.at = at
        <5>1. "becomePrimary" \in Event /\ "renegotiate" \in Event
          BY DEF Event
        <5> QED BY <1>2, <4>1, <4>2, <5>1, SetEventSame
      <4>4. c \in Key /\ SameHandshake(c, k) /\ SameLife(c, k) /\ c.st = k.st /\ c.cur = "none"
            /\ c.next = "renegotiate" /\ c.at = at
        BY <4>3, ClearedFields DEF Key, SameHandshake, SameLife
      <4>5. N = [R EXCEPT !.sec = Specified(p, @, t)]
        BY <1>3, <4>3 DEF ProcessSecondaryEvent, e, k, SameLife
      <4>6. x \in Key /\ Good(p, x, t) /\ SameKey(x, P.pri) /\ x.next = "expire"
        BY <2>3, RetiredGood
      <4> HIDE DEF c, x
      <4>7. M \in Peer /\ M.pri = P.pri /\ M.sec = c /\ M.up = P.up /\ M.sent = P.sent
        BY <1>2, <4>4 DEF Peer
      <4> HIDE DEF M
      <4>8. R \in Peer /\ R.pri = c /\ R.sec = x /\ R.up = P.up /\ R.sent = P.sent
        BY <4>4, <4>6, <4>7 DEF Peer, Promote, x
      <4> HIDE DEF R
      <4>9. N = R
        BY <1>5, <1>6, <4>5, <4>6, <4>8
      <4>10. Good(p, c, t)
        BY <1>2, <3>2, <4>2, <4>4, EventGood DEF at
      <4>11. ~ Renewing(R) /\ R.sec # NoKey /\ Newest(R) = c /\ Newest(P) = k
        BY <2>3, <4>6, <4>8, NoKeyAssumption DEF Renewing, Newest, k
      <4>12. SteadyShape(p, R, t)
        BY <3>1, <4>4, <4>6, <4>8, <4>10 DEF SteadyShape, RenewingShape, SameKey, SameLife, k
      <4>13. OnePeer(p, R, t)
        BY <4>4, <4>8, <4>11, <4>12, SameRole DEF SameLife
      <4>14. Promotes(P, R, t)
        BY <1>9, <2>3, <3>2, <4>4, <4>6, <4>8, <4>11 DEF Promotes, SameKey, SameLife, k
      <4> QED BY <4>9, <4>13, <4>14
    <3> QED BY <3>3, <3>4
  <2> QED BY <2>2, <2>3
<1> QED BY <1>3, <1>7, <1>8, <1>9

--------------------------------------------------------------------------------
(* What the two peers keep of their shape when one of them moves.          *)

LEMMA KeyNat ==
    ASSUME NEW k \in Key
    PROVE  /\ k.got \in Nat /\ k.acked \in Nat /\ k.out \in Nat /\ k.born \in Nat /\ k.at \in Nat
           /\ k.id \in 0..KeyIdMask
BY DEF Key

LEMMA ClientFollows ==
    ASSUME Windows, NEW t \in Nat, NEW C, NEW S, TwoPeers(C, S, t),
           NEW D, OnePeer("client", D, t), Keeps(C, D),
           D.sec = NoKey /\ C.sec # NoKey => ~ Renewing(C) /\ t = C.sec.born + Expire["client"],
           Renewing(D) /\ Renewing(S) /\ D.sec.next = "becomePrimary" =>
              \/ D.sec.at = D.sec.born + BecomePrimary
              \/ C.sec.next = "becomePrimary" /\ D.sec.at = C.sec.at,
           Newest(C).out <= Newest(D).out, Newest(C).got <= Newest(D).got,
           Together(C, S, t) =>
              Newest(D).got <= Newest(S).got /\ Newest(D).acked <= Newest(S).got,
           Lagging(C, S, t) => Newest(D).got = 0 /\ Newest(D).acked = 0
    PROVE  TwoPeers(D, S, t)
<1>0. "client" \in Side /\ "server" \in Side
  BY DEF Side
<1>1. OnePeer("client", C, t) /\ OnePeer("server", S, t)
  BY DEF TwoPeers
<1>2. /\ Newest(C) \in Key /\ Newest(D) \in Key /\ Newest(S) \in Key
      /\ S.pri \in Key /\ (C.sec # NoKey => C.sec \in Key) /\ (S.sec # NoKey => S.sec \in Key)
  BY <1>0, <1>1, OneKeys
<1>3. /\ Newest(C).got \in Nat /\ Newest(D).got \in Nat /\ Newest(S).got \in Nat
      /\ Newest(C).acked \in Nat /\ Newest(D).acked \in Nat /\ Newest(S).acked \in Nat
      /\ Newest(C).out \in Nat /\ Newest(D).out \in Nat /\ Newest(S).out \in Nat
  BY <1>2, KeyNat
<1>4. (Renewing(C) <=> Renewing(D)) /\ SameKey(Newest(D), Newest(C)) /\ SameKey(D.pri, C.pri)
      /\ (D.sec # NoKey => C.sec # NoKey /\ SameKey(D.sec, C.sec))
  BY DEF Keeps, Newest, Renewing
<1>5. Renewing(D) => D.sec # NoKey /\ Newest(D) = D.sec /\ Newest(C) = C.sec
  BY <1>4 DEF Newest, Renewing
<1>6. CASE Together(C, S, t)
  <2>1. Coupled(Newest(D), Newest(S), t)
    <3>1. /\ SameKey(Newest(C), Newest(S)) /\ Newest(S).got <= Newest(C).out
          /\ Newest(S).acked <= Newest(C).got
          /\ Newest(C).got < 3 \/ Newest(S).got < 3 => t = Newest(C).born
      BY <1>6 DEF Together, Coupled
    <3> QED BY <1>3, <1>4, <1>6, <3>1 DEF Coupled, SameKey
  <2>2. Renewing(D) /\ Renewing(S) =>
          /\ SameKey(D.pri, S.pri)
          /\ D.sec.next = "becomePrimary" => D.sec.at = D.sec.born + BecomePrimary
    BY <1>4, <1>5, <1>6 DEF Together, SameKey
  <2>3. Renewing(D) /\ ~ Renewing(S) =>
          S.sec # NoKey /\ SameKey(D.pri, S.sec) /\ t >= D.sec.born + BecomePrimary
    BY <1>4, <1>5, <1>6 DEF Together, SameKey
  <2>4. ~ Renewing(D) /\ Renewing(S) =>
          D.sec # NoKey /\ SameKey(D.sec, S.pri) /\ t >= S.sec.born + BecomePrimary
    <3> SUFFICES ASSUME ~ Renewing(D), Renewing(S)
                 PROVE  D.sec # NoKey /\ SameKey(D.sec, S.pri) /\ t >= S.sec.born + BecomePrimary
      OBVIOUS
    <3>1. C.sec # NoKey /\ SameKey(C.sec, S.pri) /\ t >= S.sec.born + BecomePrimary
      BY <1>4, <1>6 DEF Together
    <3>2. D.sec # NoKey
      <4>1. t <= S.sec.born + BecomePrimary + 1 /\ S.sec # NoKey
            /\ S.sec.born = S.pri.born + Renegotiate["client"]
        BY <1>0, <1>1, RenewingSoon
      <4>2. C.sec.born \in Nat /\ S.pri.born \in Nat /\ S.sec.born \in Nat /\ C.sec.born = S.pri.born
        BY <1>2, <3>1, <4>1, KeyNat DEF SameKey
      <4>3. t # C.sec.born + Expire["client"]
        BY <1>0, <4>1, <4>2, TimesNat
      <4> QED BY <3>1, <4>3
    <3> QED BY <1>4, <3>1, <3>2 DEF SameKey
  <2>5. Together(D, S, t)
    BY <2>1, <2>2, <2>3, <2>4 DEF Together
  <2> QED BY <1>1, <2>5 DEF TwoPeers
<1>7. CASE Lagging(C, S, t)
  <2>1. Lagging(D, S, t)
    BY <1>4, <1>5, <1>7 DEF Lagging, SameKey
  <2> QED BY <1>1, <2>1 DEF TwoPeers
<1> QED BY <1>6, <1>7 DEF TwoPeers

LEMMA ServerFollows ==
    ASSUME Windows, NEW t \in Nat, NEW C, NEW S, TwoPeers(C, S, t),
           NEW U, OnePeer("server", U, t), Keeps(S, U),
           U.sec = NoKey /\ S.sec # NoKey => ~ Renewing(S) /\ t = S.sec.born + Expire["server"],
           Newest(S).out <= Newest(U).out, Newest(S).got <= Newest(U).got,
           Together(C, S, t) =>
              Newest(U).got <= Newest(C).out /\ Newest(U).acked <= Newest(C).got
    PROVE  TwoPeers(C, U, t)
<1>0. "client" \in Side /\ "server" \in Side
  BY DEF Side
<1>1. OnePeer("client", C, t) /\ OnePeer("server", S, t)
  BY DEF TwoPeers
<1>2. /\ Newest(C) \in Key /\ Newest(U) \in Key /\ Newest(S) \in Key
      /\ C.pri \in Key /\ (C.sec # NoKey => C.sec \in Key) /\ (S.sec # NoKey => S.sec \in Key)
  BY <1>0, <1>1, OneKeys
<1>3. /\ Newest(C).got \in Nat /\ Newest(U).got \in Nat /\ Newest(S).got \in Nat
      /\ Newest(C).acked \in Nat /\ Newest(U).acked \in Nat /\ Newest(S).acked \in Nat
      /\ Newest(C).out \in Nat /\ Newest(U).out \in Nat /\ Newest(S).out \in Nat
  BY <1>2, KeyNat
<1>4. (Renewing(S) <=> Renewing(U)) /\ SameKey(Newest(U), Newest(S)) /\ SameKey(U.pri, S.pri)
      /\ (U.sec # NoKey => S.sec # NoKey /\ SameKey(U.sec, S.sec))
  BY DEF Keeps, Newest, Renewing
<1>5. Renewing(U) => U.sec # NoKey
  BY <1>4 DEF Renewing
<1>6. CASE Together(C, S, t)
  <2>1. Coupled(Newest(C), Newest(U), t)
    <3>1. /\ SameKey(Newest(C), Newest(S)) /\ Newest(C).got <= Newest(S).got
          /\ Newest(C).acked <= Newest(S).got
          /\ Newest(C).got < 3 \/ Newest(S).got < 3 => t = Newest(C).born
      BY <1>6 DEF Together, Coupled
    <3> QED BY <1>3, <1>4, <1>6, <3>1 DEF Coupled, SameKey
  <2>2. Renewing(C) /\ Renewing(U) =>
          /\ SameKey(C.pri, U.pri)
          /\ C.sec.next = "becomePrimary" => C.sec.at = C.sec.born + BecomePrimary
    BY <1>4, <1>6 DEF Together, SameKey
  <2>3. Renewing(C) /\ ~ Renewing(U) =>
          U.sec # NoKey /\ SameKey(C.pri, U.sec) /\ t >= C.sec.born + BecomePrimary
    <3> SUFFICES ASSUME Renewing(C), ~ Renewing(U)
                 PROVE  U.sec # NoKey /\ SameKey(C.pri, U.sec) /\ t >= C.sec.born + BecomePrimary
      OBVIOUS
    <3>1. S.sec # NoKey /\ SameKey(C.pri, S.sec) /\ t >= C.sec.born + BecomePrimary
      BY <1>4, <1>6 DEF Together
    <3>2. U.sec # NoKey
      <4>1. t <= C.sec.born + BecomePrimary + 1 /\ C.sec # NoKey
            /\ C.sec.born = C.pri.born + Renegotiate["client"]
        BY <1>0, <1>1, RenewingSoon
      <4>2. S.sec.born \in Nat /\ C.pri.born \in Nat /\ C.sec.born \in Nat /\ S.sec.born = C.pri.born
        BY <1>2, <3>1, <4>1, KeyNat DEF SameKey
      <4>3. t # S.sec.born + Expire["server"]
        BY <1>0, <4>1, <4>2, TimesNat
      <4> QED BY <3>1, <4>3
    <3> QED BY <1>4, <3>1, <3>2 DEF SameKey
  <2>4. ~ Renewing(C) /\ Renewing(U) =>
          C.sec # NoKey /\ SameKey(C.sec, U.pri) /\ t >= U.sec.born + BecomePrimary
    BY <1>4, <1>5, <1>6 DEF Together, SameKey
  <2>5. Together(C, U, t)
    BY <2>1, <2>2, <2>3, <2>4 DEF Together
  <2> QED BY <1>1, <2>5 DEF TwoPeers
<1>7. CASE Lagging(C, S, t)
  <2>1. Lagging(C, U, t)
    BY <1>4, <1>7 DEF Lagging, SameKey
  <2> QED BY <1>1, <2>1 DEF TwoPeers
<1> QED BY <1>6, <1>7 DEF TwoPeers

LEMMA ClientCalm ==
    ASSUME Windows, NEW t \in Nat, NEW C, NEW S, TwoPeers(C, S, t),
           NEW D, Calm("client", C, D, t)
    PROVE  TwoPeers(D, S, t)
<1>0. "client" \in Side /\ "server" \in Side
  BY DEF Side
<1>1. OnePeer("client", C, t) /\ OnePeer("client", D, t)
  BY DEF TwoPeers, Calm
<1>2. Newest(C) \in Key /\ Newest(D) \in Key
  BY <1>0, <1>1, OneKeys
<1>3. /\ Newest(D).out = Newest(C).out /\ Newest(D).got = Newest(C).got
      /\ Newest(D).acked = Newest(C).acked
  BY DEF Calm, SameHandshake
<1>4. Newest(C).out <= Newest(D).out /\ Newest(C).got <= Newest(D).got
  BY <1>2, <1>3, KeyNat
<1>5. Together(C, S, t) => Newest(D).got <= Newest(S).got /\ Newest(D).acked <= Newest(S).got
  BY <1>3 DEF Together, Coupled
<1>6. Lagging(C, S, t) => Newest(D).got = 0 /\ Newest(D).acked = 0
  BY <1>3 DEF Lagging, Newest
<1>7. /\ Keeps(C, D)
      /\ Renewing(D) /\ D.sec.next = "becomePrimary" =>
            C.sec.next = "becomePrimary" /\ D.sec.at = C.sec.at
      /\ C.sec # NoKey /\ D.sec = NoKey => ~ Renewing(C) /\ t = C.sec.born + Expire["client"]
  BY DEF Calm
<1> QED BY <1>1, <1>4, <1>5, <1>6, <1>7, ClientFollows

LEMMA ServerCalm ==
    ASSUME Windows, NEW t \in Nat, NEW C, NEW S, TwoPeers(C, S, t),
           NEW U, Calm("server", S, U, t)
    PROVE  TwoPeers(C, U, t)
<1>0. "client" \in Side /\ "server" \in Side
  BY DEF Side
<1>1. OnePeer("server", S, t) /\ OnePeer("server", U, t)
  BY DEF TwoPeers, Calm
<1>2. Newest(S) \in Key /\ Newest(U) \in Key
  BY <1>0, <1>1, OneKeys
<1>3. /\ Newest(U).out = Newest(S).out /\ Newest(U).got = Newest(S).got
      /\ Newest(U).acked = Newest(S).acked
  BY DEF Calm, SameHandshake
<1>4. Newest(S).out <= Newest(U).out /\ Newest(S).got <= Newest(U).got
  BY <1>2, <1>3, KeyNat
<1>5. Together(C, S, t) => Newest(U).got <= Newest(C).out /\ Newest(U).acked <= Newest(C).got
  BY <1>3 DEF Together, Coupled
<1>6. /\ Keeps(S, U)
      /\ S.sec # NoKey /\ U.sec = NoKey => ~ Renewing(S) /\ t = S.sec.born + Expire["server"]
  BY DEF Calm
<1> QED BY <1>1, <1>4, <1>5, <1>6, ServerFollows

(* The client is the first to renew a key.                                 *)
LEMMA ClientRenews ==
    ASSUME Windows, NEW t \in Nat, NEW C, NEW S, TwoPeers(C, S, t),
           NEW D, OnePeer("client", D, t), Renews(C, D, t)
    PROVE  TwoPeers(D, S, t)
<1>0. "client" \in Side /\ "server" \in Side
  BY DEF Side
<1>1. OnePeer("client", C, t) /\ OnePeer("server", S, t) /\ ~ Renewing(C)
  BY DEF TwoPeers, Renews
<1>2. Together(C, S, t) /\ SameKey(C.pri, Newest(S))
  BY <1>1 DEF TwoPeers, Lagging, Together, Coupled, Newest
<1>3. C.pri \in Key /\ Good("client", C.pri, t)
  BY <1>0, <1>1, OneKeys
<1>4. t = C.pri.born + Renegotiate["client"]
  BY <1>3 DEF Renews, Good, Awaits
<1>5. ~ Renewing(S)
  <2> SUFFICES ASSUME Renewing(S) PROVE FALSE
    OBVIOUS
  <2>1. t <= S.sec.born + BecomePrimary + 1 /\ S.sec.born = C.pri.born
    BY <1>0, <1>1, <1>2, RenewingSoon DEF SameKey
  <2> QED BY <1>0, <1>3, <1>4, <2>1, TimesNat, KeyNat
<1>6. Lagging(D, S, t)
  BY <1>2, <1>5 DEF Lagging, Renews, SameKey, Newest
<1> QED BY <1>1, <1>6 DEF TwoPeers

LEMMA ClientPromotes ==
    ASSUME Windows, NEW t \in Nat, NEW C, NEW S, TwoPeers(C, S, t),
           NEW D, OnePeer("client", D, t), Promotes(C, D, t)
    PROVE  TwoPeers(D, S, t)
<1>0. "client" \in Side /\ "server" \in Side
  BY DEF Side
<1>1. OnePeer("client", C, t) /\ OnePeer("server", S, t) /\ Renewing(C) /\ ~ Renewing(D)
  BY DEF TwoPeers, Promotes
<1>2. Together(C, S, t)
  BY DEF TwoPeers, Lagging, Promotes
<1>3. Newest(C) = C.sec /\ Newest(D) = D.pri
  BY <1>1 DEF Newest
<1>4. Coupled(Newest(D), Newest(S), t)
  BY <1>2, <1>3 DEF Together, Coupled, Promotes, SameKey, SameHandshake
<1>5. Renewing(S) => D.sec # NoKey /\ SameKey(D.sec, S.pri) /\ t >= S.sec.born + BecomePrimary
  <2> SUFFICES ASSUME Renewing(S)
               PROVE  D.sec # NoKey /\ SameKey(D.sec, S.pri) /\ t >= S.sec.born + BecomePrimary
    OBVIOUS
  <2>1. t = C.sec.born + BecomePrimary /\ SameKey(C.pri, S.pri) /\ SameKey(C.sec, S.sec)
    BY <1>1, <1>2, <1>3 DEF Together, Coupled, Promotes, Newest
  <2> QED BY <2>1 DEF Promotes, SameKey
<1>6. Together(D, S, t)
  BY <1>1, <1>4, <1>5 DEF Together
<1> QED BY <1>1, <1>6 DEF TwoPeers

LEMMA ServerPromotes ==
    ASSUME Windows, NEW t \in Nat, NEW C, NEW S, TwoPeers(C, S, t),
           NEW U, OnePeer("server", U, t), Promotes(S, U, t)
    PROVE  TwoPeers(C, U, t)
<1>0. "client" \in Side /\ "server" \in Side
  BY DEF Side
<1>1. OnePeer("client", C, t) /\ OnePeer("server", S, t) /\ Renewing(S) /\ ~ Renewing(U)
  BY DEF TwoPeers, Promotes
<1>2. Together(C, S, t)
  BY <1>1 DEF TwoPeers, Lagging
<1>3. Newest(S) = S.sec /\ Newest(U) = U.pri
  BY <1>1 DEF Newest
<1>4. Coupled(Newest(C), Newest(U), t)
  BY <1>2, <1>3 DEF Together, Coupled, Promotes, SameKey, SameHandshake
<1>5. Renewing(C) => U.sec # NoKey /\ SameKey(C.pri, U.sec) /\ t >= C.sec.born + BecomePrimary
  <2> SUFFICES ASSUME Renewing(C)
               PROVE  U.sec # NoKey /\ SameKey(C.pri, U.sec) /\ t >= C.sec.born + BecomePrimary
    OBVIOUS
  <2>1. SameKey(C.pri, S.pri) /\ SameKey(C.sec, S.sec)
    BY <1>1, <1>2, <1>3 DEF Together, Coupled, Newest
  <2>2. Good("server", S.sec, t)
    BY <1>0, <1>1, RenewingSoon DEF RenewingShape
  <2>3. t = S.sec.born + BecomePrimary
    BY <2>2 DEF Promotes, Good, Awaits
  <2> QED BY <2>1, <2>3 DEF Promotes, SameKey
<1>6. Together(C, U, t)
  BY <1>1, <1>4, <1>5 DEF Together
<1> QED BY <1>1, <1>6 DEF TwoPeers

(* The server never has to ask for a renewal: the client is earlier.       *)
LEMMA ServerNotDue ==
    ASSUME Windows, NEW t \in Nat, NEW C, NEW S, TwoPeers(C, S, t),
           ~ Renewing(S), S.pri.next = "renegotiate"
    PROVE  t < S.pri.at
<1>0. "client" \in Side /\ "server" \in Side
  BY DEF Side
<1>1. OnePeer("client", C, t) /\ OnePeer("server", S, t)
  BY DEF TwoPeers
<1>2. /\ C.pri \in Key /\ S.pri \in Key /\ Good("client", C.pri, t) /\ Good("server", S.pri, t)
      /\ C.sec # NoKey => C.sec \in Key
  BY <1>0, <1>1, OneKeys
<1>3. S.pri.at = S.pri.born + Renegotiate["server"] /\ Newest(S) = S.pri
  BY <1>2 DEF Good, Awaits, Newest
<1>4. C.pri.born \in Nat /\ S.pri.born \in Nat /\ C.pri.at \in Nat
  BY <1>2, KeyNat
<1>5. CASE Renewing(C)
  <2>1. /\ t <= C.sec.born + BecomePrimary + 1 /\ Newest(C) = C.sec /\ C.sec # NoKey
        /\ C.sec.born = C.pri.born + Renegotiate["client"]
    BY <1>0, <1>1, <1>5, RenewingSoon
  <2>2. S.pri.born = C.sec.born \/ (S.pri.born = C.pri.born /\ t = C.sec.born)
    BY <1>3, <2>1 DEF TwoPeers, Together, Lagging, Coupled, SameKey
  <2>3. C.sec.born \in Nat
    BY <1>2, <2>1, KeyNat
  <2> QED BY <1>0, <1>3, <1>4, <2>1, <2>2, <2>3, TimesNat
<1>6. CASE ~ Renewing(C)
  <2>1. SteadyShape("client", C, t) /\ Newest(C) = C.pri
    BY <1>1, <1>6 DEF OnePeer, Newest
  <2>2. S.pri.born = C.pri.born
    BY <1>3, <1>6, <2>1 DEF TwoPeers, Together, Lagging, Coupled, SameKey
  <2>3. t <= C.pri.born + Renegotiate["client"]
    BY <1>0, <1>2, <1>4, <2>1, TimesNat DEF SteadyShape, Good, Awaits
  <2> QED BY <1>0, <1>3, <1>4, <2>2, <2>3, TimesNat
<1> QED BY <1>5, <1>6

(* The events of either end.                                               *)
LEMMA ClientEvents ==
    ASSUME Windows, NEW t \in Nat, NEW C, NEW S, TwoPeers(C, S, t)
    PROVE  /\ TwoPeers(ProcessPrimaryEvent("client", C, t), S, t)
           /\ TwoPeers(ProcessSecondaryEvent("client", C, t), S, t)
<1>0. "client" \in Side /\ OnePeer("client", C, t)
  BY DEF Side, TwoPeers
<1>1. TwoPeers(ProcessPrimaryEvent("client", C, t), S, t)
  BY <1>0, PrimaryMoves, ClientCalm, ClientRenews
<1>2. TwoPeers(ProcessSecondaryEvent("client", C, t), S, t)
  BY <1>0, SecondaryMoves, ClientCalm, ClientPromotes
<1> QED BY <1>1, <1>2

LEMMA ServerEvents ==
    ASSUME Windows, NEW t \in Nat, NEW C, NEW S, TwoPeers(C, S, t)
    PROVE  /\ TwoPeers(C, ProcessPrimaryEvent("server", S, t), t)
           /\ TwoPeers(C, ProcessSecondaryEvent("server", S, t), t)
<1>0. "server" \in Side /\ OnePeer("server", S, t)
  BY DEF Side, TwoPeers
<1>1. TwoPeers(C, ProcessPrimaryEvent("server", S, t), t)
  BY <1>0, PrimaryMoves, ServerNotDue, ServerCalm
<1>2. TwoPeers(C, ProcessSecondaryEvent("server", S, t), t)
  BY <1>0, SecondaryMoves, ServerCalm, ServerPromotes
<1> QED BY <1>1, <1>2

LEMMA ClientMoves ==
    ASSUME Windows, NEW t \in Nat, NEW C, NEW S, TwoPeers(C, S, t),
           NEW D, Moves("client", C, D, t),
           Together(C, S, t) =>
              Newest(D).got <= Newest(S).got /\ Newest(D).acked <= Newest(S).got,
           Lagging(C, S, t) => Newest(D).got = 0 /\ Newest(D).acked = 0
    PROVE  TwoPeers(D, S, t)
<1>0. "client" \in Side /\ OnePeer("client", C, t)
  BY DEF Side, TwoPeers
<1>1. OnePeer("client", D, t)
  BY <1>0, MovesOne
<1>2. /\ Keeps(C, D) /\ (D.sec = NoKey <=> C.sec = NoKey)
      /\ \E A : Advances("client", Newest(C), Newest(D), A, t)
  BY MovesKeeps
<1>3. Newest(C).out <= Newest(D).out /\ Newest(C).got <= Newest(D).got
  BY <1>2 DEF Advances
<1>4. Renewing(D) /\ D.sec.next = "becomePrimary" =>
        \/ D.sec.at = D.sec.born + BecomePrimary
        \/ C.sec.next = "becomePrimary" /\ D.sec.at = C.sec.at
  BY <1>2 DEF Advances, SameKey, Newest, Keeps
<1> QED BY <1>1, <1>2, <1>3, <1>4, ClientFollows

LEMMA ServerMoves ==
    ASSUME Windows, NEW t \in Nat, NEW C, NEW S, TwoPeers(C, S, t),
           NEW U, Moves("server", S, U, t),
           Together(C, S, t) =>
              Newest(U).got <= Newest(C).out /\ Newest(U).acked <= Newest(C).got
    PROVE  TwoPeers(C, U, t)
<1>0. "server" \in Side /\ OnePeer("server", S, t)
  BY DEF Side, TwoPeers
<1>1. OnePeer("server", U, t)
  BY <1>0, MovesOne
<1>2. /\ Keeps(S, U) /\ (U.sec = NoKey <=> S.sec = NoKey)
      /\ \E A : Advances("server", Newest(S), Newest(U), A, t)
  BY MovesKeeps
<1>3. Newest(S).out <= Newest(U).out /\ Newest(S).got <= Newest(U).got
  BY <1>2 DEF Advances
<1> QED BY <1>1, <1>2, <1>3, ServerFollows

(* The peer p and the other one, O.                                        *)
Pair(p, P, O, t) == IF p = "client" THEN TwoPeers(P, O, t) ELSE TwoPeers(O, P, t)

LEMMA PairFlushKeys ==
    ASSUME Windows, NEW p \in Side, NEW t \in Nat, NEW P, NEW O, Pair(p, P, O, t)
    PROVE  Pair(p, FlushKeys(p, P, t), O, t)
<1> DEFINE Q == FlushKeys(p, P, t)
<1>1. OnePeer(p, P, t)
  BY DEF Pair, TwoPeers, Side
<1>2. /\ Moves(p, P, Q, t)
      /\ Newest(Q).got = Newest(P).got /\ Newest(Q).acked = Newest(P).acked
  BY <1>1, FlushMoves
<1> HIDE DEF Q
<1>3. CASE p = "client"
  <2>1. TwoPeers(P, O, t)
    BY <1>3 DEF Pair
  <2>2. Together(P, O, t) => Newest(Q).got <= Newest(O).got /\ Newest(Q).acked <= Newest(O).got
    BY <1>2 DEF Together, Coupled
  <2>3. Lagging(P, O, t) => Newest(Q).got = 0 /\ Newest(Q).acked = 0
    BY <1>2 DEF Lagging, Newest
  <2> QED BY <1>2, <1>3, <2>1, <2>2, <2>3, ClientMoves DEF Pair, Q
<1>4. CASE p = "server"
  <2>1. TwoPeers(O, P, t)
    BY <1>4 DEF Pair
  <2>2. Together(O, P, t) => Newest(Q).got <= Newest(O).out /\ Newest(Q).acked <= Newest(O).got
    BY <1>2 DEF Together, Coupled
  <2> QED BY <1>2, <1>4, <2>1, <2>2, ServerMoves DEF Pair, Q
<1> QED BY <1>3, <1>4 DEF Side

LEMMA PairEvents ==
    ASSUME Windows, NEW p \in Side, NEW t \in Nat, NEW P, NEW O, Pair(p, P, O, t)
    PROVE  /\ Pair(p, ProcessPrimaryEvent(p, P, t), O, t)
           /\ Pair(p, ProcessSecondaryEvent(p, P, t), O, t)
BY ClientEvents, ServerEvents DEF Pair, Side

LEMMA PairRound ==
    ASSUME Windows, NEW p \in Side, NEW t \in Nat, NEW P, NEW O, Pair(p, P, O, t)
    PROVE  Pair(p, Round(p, P, t), O, t) /\ Pair(p, Flush(p, P, t), O, t)
<1>1. \A M : Pair(p, M, O, t) => Pair(p, Round(p, M, t), O, t)
  BY PairFlushKeys, PairEvents DEF Round
<1> QED BY <1>1 DEF Flush

(* The server's key while it has yet to hear of the next one.              *)
LEMMA LaggingServer ==
    ASSUME Windows, NEW t \in Nat, NEW C, NEW S, TwoPeers(C, S, t), Lagging(C, S, t)
    PROVE  /\ S.pri.got = 3 /\ S.pri.next = "renegotiate" /\ Newest(S) = S.pri
           /\ t = S.pri.born + Renegotiate["client"] /\ C.sec # NoKey
           /\ C.sec.id = NextKeyId(S.pri.id) /\ S.up = C.sec.id /\ SameKey(C.pri, S.pri)
           /\ C.up = NextKeyId(NextKeyId(S.pri.id)) /\ S.pri.id \in 0..KeyIdMask
<1>0. "client" \in Side /\ "server" \in Side
  BY DEF Side
<1>1. /\ OnePeer("client", C, t) /\ OnePeer("server", S, t)
      /\ Renewing(C) /\ ~ Renewing(S) /\ SameKey(C.pri, S.pri) /\ C.sec.born = t
  BY DEF TwoPeers, Lagging
<1>2. RenewingShape("client", C, t) /\ C.sec # NoKey /\ Newest(C) = C.sec /\ Newest(S) = S.pri
      /\ SteadyShape("server", S, t)
  BY <1>0, <1>1, RenewingSoon DEF OnePeer, Newest
<1>3. S.pri \in Key /\ Good("server", S.pri, t)
  BY <1>0, <1>1, OneKeys
<1>4. t = S.pri.born + Renegotiate["client"] /\ C.sec.id = NextKeyId(S.pri.id)
  BY <1>1, <1>2 DEF RenewingShape, SameKey
<1>5. S.pri.born \in Nat /\ S.pri.at \in Nat /\ S.pri.id \in 0..KeyIdMask
  BY <1>3, KeyNat
<1>6. S.pri.next = "renegotiate" /\ S.pri.got = 3
  <2>1. /\ S.pri.next # "negotiate" => S.pri.got = 3
        /\ S.pri.next = "negotiate" => S.pri.born = t
        /\ S.pri.next = "becomePrimary" => t <= S.pri.born + BecomePrimary + 1
    BY <1>0, <1>3, GoodTimes
  <2>2. S.pri.next # "negotiate" /\ S.pri.next # "becomePrimary"
    BY <1>0, <1>4, <1>5, <2>1, TimesNat
  <2> QED BY <1>2, <2>1, <2>2 DEF SteadyShape
<1> QED BY <1>1, <1>2, <1>4, <1>5, <1>6 DEF OnePeer

(* What arrives of the other end bears the id of a key at hand, or it is   *)
(* the client's request for the next one.                                  *)
LEMMA NoRequest ==
    ASSUME Windows, NEW p \in Side, NEW t \in Nat, NEW P, NEW O, Pair(p, P, O, t),
           NEW pk \in O.sent, pk.kid = P.up
    PROVE  p = "server" /\ Lagging(O, P, t)
<1>0. "client" \in Side /\ "server" \in Side /\ KeyIdMask >= 5
  BY DEF Side, Windows
<1>1. OnePeer(p, P, t) /\ OnePeer(Other(p), O, t) /\ Other(p) \in Side
  BY DEF Pair, TwoPeers, Side, Other
<1>2. Near(pk.kid, Newest(O).id) /\ P.up = NextKeyId(Newest(P).id)
  BY <1>1 DEF OnePeer, SentShape
<1>3. Newest(O).id \in 0..KeyIdMask
  BY <1>1, OneKeys, KeyNat
<1>4. pk.kid # NextKeyId(Newest(O).id) /\ pk.kid # NextKeyId(NextKeyId(Newest(O).id))
  BY <1>0, <1>2, <1>3, NotNear
<1>5. Newest(O).id # Newest(P).id
  BY <1>2, <1>4
<1>6. CASE p = "client"
  <2>1. TwoPeers(P, O, t) /\ Lagging(P, O, t)
    BY <1>5, <1>6 DEF Pair, TwoPeers, Together, Coupled, SameKey
  <2> QED BY <1>2, <1>4, <2>1, LaggingServer
<1>7. CASE p = "server"
  BY <1>5, <1>7 DEF Pair, TwoPeers, Together, Coupled, SameKey
<1> QED BY <1>6, <1>7 DEF Side

(* A packet for the newest key is one of its handshake, of which both ends *)
(* are aware.                                                              *)
LEMMA NewestPacket ==
    ASSUME Windows, NEW p \in Side, NEW t \in Nat, NEW P, NEW O, Pair(p, P, O, t),
           NEW pk \in O.sent, pk.kid = Newest(P).id,
           p = "client" \/ ~ Lagging(O, P, t)
    PROVE  /\ IF p = "client" THEN Together(P, O, t) ELSE Together(O, P, t)
           /\ Newest(P).queue = <<>> /\ pk.ack <= Newest(P).out
           /\ pk.n <= Newest(O).out /\ pk.ack <= Newest(O).got
<1>0. "client" \in Side /\ "server" \in Side /\ KeyIdMask >= 5
  BY DEF Side, Windows
<1>1. OnePeer(p, P, t) /\ OnePeer(Other(p), O, t) /\ Other(p) \in Side
  BY DEF Pair, TwoPeers, Side, Other
<1>2. /\ Newest(P) \in Key /\ Newest(O) \in Key /\ pk \in Packet
      /\ Good(p, Newest(P), t) /\ Good(Other(p), Newest(O), t)
  BY <1>1, OneKeys
<1>3. PacketShape(Other(p), pk) /\ Near(pk.kid, Newest(O).id)
      /\ (pk.kid = Newest(O).id => pk.n <= Newest(O).out /\ pk.ack <= Newest(O).got)
  BY <1>1 DEF OnePeer, SentShape
<1>4. IF p = "client" THEN Together(P, O, t) ELSE Together(O, P, t)
  <2>1. CASE p = "client"
    <3> SUFFICES ASSUME Lagging(P, O, t) PROVE FALSE
      BY <2>1 DEF Pair, TwoPeers
    <3>1. TwoPeers(P, O, t)
      BY <2>1 DEF Pair
    <3>2. P.sec.id = NextKeyId(O.pri.id) /\ Newest(O) = O.pri /\ O.pri.id \in 0..KeyIdMask
          /\ Newest(P) = P.sec
      BY <3>1, LaggingServer DEF Lagging, Newest
    <3> QED BY <1>0, <1>3, <3>2, NotNear
  <2>2. CASE p = "server"
    BY <2>2 DEF Pair, TwoPeers
  <2> QED BY <2>1, <2>2 DEF Side
<1>5. /\ SameKey(Newest(P), Newest(O))
      /\ p = "client" => Newest(O).got <= Newest(P).out /\ Newest(P).got <= Newest(O).got
      /\ p = "server" => Newest(P).got <= Newest(O).out /\ Newest(O).got <= Newest(P).got
  BY <1>4, <1>0 DEF Together, Coupled, SameKey, Side
<1>6. pk.n <= Newest(O).out /\ pk.ack <= Newest(O).got
  BY <1>3, <1>5 DEF SameKey
<1>7. /\ Newest(P).got \in Nat /\ Newest(P).out \in Nat /\ Newest(O).got \in Nat
      /\ Newest(O).out \in Nat /\ pk.n \in Nat /\ pk.ack \in Nat
  BY <1>2, KeyNat DEF Packet
<1>8. CASE p = "client"
  <2>1. Newest(O).out = Newest(O).got
    BY <1>2, <1>8 DEF Good, Handshake, Other
  <2>2. pk.ack <= Newest(P).out
    BY <1>5, <1>6, <1>7, <1>8
  <2>3. Newest(P).queue = <<>>
    <3> SUFFICES ASSUME Newest(P).queue # <<>> PROVE FALSE
      OBVIOUS
    <3>1. Newest(P).out = 0
      BY <1>2 DEF Good, Handshake
    <3>2. Newest(O).got = 0 /\ pk.n = 0 /\ pk.ack = 0
      BY <1>5, <1>6, <1>7, <1>8, <2>1, <3>1
    <3> QED BY <1>3, <3>2 DEF PacketShape
  <2> QED BY <1>4, <1>6, <2>2, <2>3
<1>9. CASE p = "server"
  <2>1. Newest(P).queue = <<>> /\ Newest(P).out = Newest(P).got
    BY <1>2, <1>9 DEF Good, Handshake
  <2>2. pk.ack <= Newest(P).out
    BY <1>5, <1>6, <1>7, <1>9, <2>1
  <2> QED BY <1>4, <1>6, <2>1, <2>2
<1> QED BY <1>8, <1>9 DEF Side

(* A packet for one of the two keys at hand, and the flush of the packets. *)
LEMMA PairReceive ==
    ASSUME Windows, NEW p \in Side, NEW t \in Nat, NEW P, NEW O, Pair(p, P, O, t),
           NEW pk \in O.sent, NEW slot \in {"pri", "sec"}, slot = "sec" => P.sec # NoKey,
           pk.kid = P[slot].id
    PROVE  LET Q == FlushKeys(p, [P EXCEPT ![slot] = NetRecv(p, @, pk)], t) IN
           /\ Pair(p, Q, O, t)
           /\ Moves(p, P, Q, t)
           /\ P[slot] = Newest(P) /\ Follows(pk.n, Newest(P)) => Follows(Newest(Q).got, Newest(P))
<1> DEFINE Q == FlushKeys(p, [P EXCEPT ![slot] = NetRecv(p, @, pk)], t)
<1>1. OnePeer(p, P, t) /\ OnePeer(Other(p), O, t) /\ Other(p) \in Side
  BY DEF Pair, TwoPeers, Side, Other
<1>2. /\ P.pri \in Key /\ Good(p, P.pri, t)
      /\ P.sec # NoKey => P.sec \in Key /\ Good(p, P.sec, t) /\ P.sec.id # P.pri.id
      /\ Newest(P) \in Key /\ Newest(O) \in Key /\ pk \in Packet
  BY <1>1, OneKeys
<1>3. PacketShape(Other(p), pk)
  BY <1>1 DEF OnePeer, SentShape
<1>4. P[slot].got < 3 => P[slot] = Newest(P) /\ (p = "client" \/ ~ Lagging(O, P, t))
  <2> SUFFICES ASSUME P[slot].got < 3 PROVE P[slot] = Newest(P) /\ (p = "client" \/ ~ Lagging(O, P, t))
    OBVIOUS
  <2>1. CASE slot = "pri"
    <3>1. ~ Renewing(P)
      BY <1>1, <2>1, RenewingSoon
    <3>2. p = "server" => ~ Lagging(O, P, t)
      BY <2>1, LaggingServer DEF Pair
    <3> QED BY <2>1, <3>1, <3>2 DEF Newest, Side
  <2>2. CASE slot = "sec"
    <3>1. P.sec.next # "expire"
      BY <1>2, <2>2 DEF Good, Awaits
    <3>2. Renewing(P)
      BY <2>2, <3>1 DEF Renewing
    <3> QED BY <2>2, <3>2 DEF Newest, Lagging, Side
  <2> QED BY <2>1, <2>2
<1>5. P[slot].got < 3 => P[slot].queue = <<>> /\ pk.ack <= P[slot].out
  BY <1>4, NewestPacket
<1>6. /\ Moves(p, P, Q, t)
      /\ P[slot] = Newest(P) => Counted(Newest(Q), Newest(P), pk)
      /\ P[slot] # Newest(P) =>
            Newest(Q).got = Newest(P).got /\ Newest(Q).acked = Newest(P).acked
  <2>1. OnePeer(p, P, t) /\ pk \in Packet
    BY <1>1, <1>2
  <2> QED BY <1>3, <1>5, <2>1, ReceiveMoves
<1>7. Newest(Q) \in Key
  <2>1. \E A : Advances(p, Newest(P), Newest(Q), A, t)
    BY <1>6, MovesKeeps
  <2> QED BY <2>1 DEF Advances
<1> HIDE DEF Q
<1>8. /\ Newest(P).got \in Nat /\ Newest(P).acked \in Nat /\ Newest(Q).got \in Nat
      /\ Newest(Q).acked \in Nat /\ Newest(O).got \in Nat /\ Newest(O).out \in Nat
      /\ pk.n \in Nat /\ pk.ack \in Nat
  BY <1>2, <1>7, KeyNat DEF Packet
<1>9. CASE p = "client"
  <2>1. TwoPeers(P, O, t)
    BY <1>9 DEF Pair
  <2>2. Together(P, O, t) => Newest(Q).got <= Newest(O).got /\ Newest(Q).acked <= Newest(O).got
    <3> SUFFICES ASSUME Together(P, O, t)
                 PROVE  Newest(Q).got <= Newest(O).got /\ Newest(Q).acked <= Newest(O).got
      OBVIOUS
    <3>1. Newest(P).got <= Newest(O).got /\ Newest(P).acked <= Newest(O).got
      BY DEF Together, Coupled
    <3>2. CASE P[slot] = Newest(P)
      <4>1. pk.n <= Newest(O).out /\ pk.ack <= Newest(O).got
        BY <1>9, <3>2, NewestPacket
      <4>2. Newest(O).out = Newest(O).got
        <5>1. Good("server", Newest(O), t)
          BY <1>1, <1>9, OneKeys DEF Other
        <5> QED BY <5>1 DEF Good, Handshake
      <4> QED BY <1>6, <1>8, <3>1, <3>2, <4>1, <4>2 DEF Counted, Follows
    <3>3. CASE P[slot] # Newest(P)
      BY <1>6, <3>1, <3>3
    <3> QED BY <3>2, <3>3
  <2>3. Lagging(P, O, t) => Newest(Q).got = 0 /\ Newest(Q).acked = 0
    <3> SUFFICES ASSUME Lagging(P, O, t) PROVE Newest(Q).got = 0 /\ Newest(Q).acked = 0
      OBVIOUS
    <3>1. Newest(P) = P.sec /\ Newest(P).got = 0 /\ Newest(P).acked = 0
      BY DEF Lagging, Newest
    <3>2. P[slot] # Newest(P)
      <4> SUFFICES ASSUME P[slot] = Newest(P) PROVE FALSE
        OBVIOUS
      <4>1. Together(P, O, t)
        BY <1>9, NewestPacket
      <4>2. O.pri.id = P.sec.id /\ NextKeyId(O.pri.id) = P.sec.id /\ O.pri.id \in 0..KeyIdMask
        BY <2>1, <3>1, <4>1, LaggingServer DEF Together, Coupled, SameKey
      <4> QED BY <4>2, FiveIds DEF Windows
    <3> QED BY <1>6, <3>1, <3>2
  <2>4. TwoPeers(Q, O, t)
    BY <1>6, <1>9, <2>1, <2>2, <2>3, ClientMoves
  <2> QED BY <1>6, <1>9, <2>4 DEF Pair, Counted, Q, Follows
<1>10. CASE p = "server"
  <2>1. TwoPeers(O, P, t)
    BY <1>10 DEF Pair
  <2>2. Together(O, P, t) => Newest(Q).got <= Newest(O).out /\ Newest(Q).acked <= Newest(O).got
    <3> SUFFICES ASSUME Together(O, P, t)
                 PROVE  Newest(Q).got <= Newest(O).out /\ Newest(Q).acked <= Newest(O).got
      OBVIOUS
    <3>1. Newest(P).got <= Newest(O).out /\ Newest(P).acked <= Newest(O).got
      BY DEF Together, Coupled
    <3>2. CASE P[slot] = Newest(P)
      <4>1. ~ Lagging(O, P, t)
        <5> SUFFICES ASSUME Lagging(O, P, t) PROVE FALSE
          OBVIOUS
        <5>1. O.sec.id = NextKeyId(P.pri.id) /\ Newest(P) = P.pri /\ P.pri.id \in 0..KeyIdMask
              /\ Newest(O) = O.sec
          BY <2>1, LaggingServer DEF Lagging, Newest
        <5>2. O.sec.id = P.pri.id
          BY <5>1 DEF Together, Coupled, SameKey
        <5> QED BY <5>1, <5>2, FiveIds DEF Windows
      <4>2. pk.n <= Newest(O).out /\ pk.ack <= Newest(O).got
        BY <1>10, <3>2, <4>1, NewestPacket
      <4> QED BY <1>6, <1>8, <3>1, <3>2, <4>2 DEF Counted, Follows
    <3>3. CASE P[slot] # Newest(P)
      BY <1>6, <3>1, <3>3
    <3> QED BY <3>2, <3>3
  <2>3. TwoPeers(O, Q, t)
    BY <1>6, <1>10, <2>1, <2>2, ServerMoves
  <2> QED BY <1>6, <1>10, <2>3 DEF Pair, Counted, Q, Follows
<1> QED BY <1>9, <1>10 DEF Side

(* The client's request makes the server's copy of the next key.           *)
LEMMA ServerRenews ==
    ASSUME Windows, NEW t \in Nat, NEW C, NEW S, TwoPeers(C, S, t), Lagging(C, S, t)
    PROVE  LET N == NewSecondaryKey(S, FALSE, t) IN
           /\ TwoPeers(C, N, t) /\ N.sec # NoKey /\ N.sec.id = S.up /\ Renewing(N)
           /\ N.sec.born = t /\ N.sec.got = 0
<1> DEFINE N == NewSecondaryKey(S, FALSE, t)
<1>0. "client" \in Side /\ "server" \in Side
  BY DEF Side
<1>1. /\ OnePeer("client", C, t) /\ OnePeer("server", S, t)
      /\ Renewing(C) /\ ~ Renewing(S) /\ SameKey(C.pri, S.pri)
      /\ C.sec.got = 0 /\ C.sec.acked = 0 /\ C.sec.born = t
  BY DEF TwoPeers, Lagging
<1>2. /\ S.pri.next = "renegotiate" /\ t = S.pri.born + Renegotiate["client"] /\ C.sec # NoKey
      /\ C.sec.id = NextKeyId(S.pri.id)
  BY LaggingServer
<1>3. S \in Peer /\ S.pri \in Key /\ Good("server", S.pri, t) /\ C.sec \in Key
      /\ Good("client", C.sec, t)
  BY <1>0, <1>1, <1>2, OneKeys
<1>4. ASSUME NEW initiator \in BOOLEAN, initiator <=> "server" = "client"
      PROVE  LET Q == NewSecondaryKey(S, initiator, t) IN
             /\ OnePeer("server", Q, t) /\ Renewing(Q) /\ Q.sec # NoKey /\ Q.pri = S.pri
             /\ Q.sec.id = NextKeyId(S.pri.id) /\ Q.sec.born = t
             /\ Q.sec.got = 0 /\ Q.sec.acked = 0 /\ Q.sec.id = S.up
  <2>1. IF "server" = "client" THEN S.pri.next = "expire" ELSE S.pri.next = "renegotiate"
    BY <1>2
  <2>2. SameKey(S.pri, S.pri)
    BY DEF SameKey
  <2> QED BY <1>0, <1>1, <1>2, <1>3, <1>4, <2>1, <2>2, RenewOne
<1>5. FALSE \in BOOLEAN /\ (FALSE <=> "server" = "client")
  OBVIOUS
<1>6. /\ OnePeer("server", N, t) /\ Renewing(N) /\ N.sec # NoKey /\ N.pri = S.pri
      /\ N.sec.id = NextKeyId(S.pri.id) /\ N.sec.born = t
      /\ N.sec.got = 0 /\ N.sec.acked = 0 /\ N.sec.id = S.up
  BY <1>4, <1>5
<1> HIDE DEF N
<1>7. Newest(C) = C.sec /\ Newest(N) = N.sec /\ C.sec.out \in Nat
  BY <1>1, <1>3, <1>6, KeyNat DEF Newest
<1>8. Coupled(Newest(C), Newest(N), t)
  BY <1>1, <1>2, <1>6, <1>7 DEF Coupled, SameKey
<1>9. C.sec.next = "becomePrimary" => C.sec.at = C.sec.born + BecomePrimary
  BY <1>1, <1>3 DEF Good, Awaits
<1>10. Together(C, N, t)
  BY <1>1, <1>6, <1>8, <1>9 DEF Together
<1> QED BY <1>1, <1>6, <1>10 DEF TwoPeers, N

(* The end of flush after the packets are sent.                            *)
Rest(p, M, t) ==
    Round(p, Round(p, ProcessSecondaryEvent(p, ProcessPrimaryEvent(p, M, t), t), t), t)

LEMMA FlushRest ==
    ASSUME NEW p, NEW M, NEW t
    PROVE  Flush(p, M, t) = Rest(p, FlushKeys(p, M, t), t)
BY DEF Flush, Rest, Round

LEMMA PairRest ==
    ASSUME Windows, NEW p \in Side, NEW t \in Nat, NEW P, NEW O, Pair(p, P, O, t)
    PROVE  Pair(p, Rest(p, P, t), O, t)
<1>1. \A M : Pair(p, M, O, t) => Pair(p, Round(p, M, t), O, t)
  BY PairRound
<1>2. Pair(p, ProcessSecondaryEvent(p, ProcessPrimaryEvent(p, P, t), t), O, t)
  BY PairEvents
<1> QED BY <1>1, <1>2 DEF Rest

(* A packet changes nothing, or it is for one of the two keys at hand,     *)
(* which the server may have made for it.                                  *)
Handled(p, P, O, pk, t, R, slot) ==
    /\ Pair(p, R, O, t) /\ slot \in {"pri", "sec"} /\ (slot = "sec" => R.sec # NoKey)
    /\ pk.kid = R[slot].id
    /\ ControlRecv(p, P, pk, t) = Rest(p, FlushKeys(p, [R EXCEPT ![slot] = NetRecv(p, @, pk)], t), t)
    /\ \/ R = P
       \/ /\ p = "server" /\ Lagging(O, P, t) /\ slot = "sec" /\ Renewing(R)
          /\ R.sec.born = t /\ R.sec.got = 0

LEMMA ControlCases ==
    ASSUME Windows, NEW p \in Side, NEW t \in Nat, NEW P, NEW O, Pair(p, P, O, t), NEW pk \in O.sent
    PROVE  \/ ControlRecv(p, P, pk, t) = P /\ PacketKey(P, pk) = "undefined"
           \/ \E R, slot : Handled(p, P, O, pk, t, R, slot)
<1> DEFINE N == NewSecondaryKey(P, FALSE, t)
<1>0. P \in Peer
  <2>1. OnePeer(p, P, t)
    BY DEF Pair, TwoPeers, Side
  <2> QED BY <2>1 DEF OnePeer
<1>1. CASE PacketKey(P, pk) = "primary"
  <2>1. ControlRecv(p, P, pk, t) = Flush(p, [P EXCEPT !.pri = NetRecv(p, @, pk)], t)
    BY <1>1 DEF ControlRecv
  <2>2. pk.kid = P.pri.id
    BY <1>1 DEF PacketKey
  <2>3. Handled(p, P, O, pk, t, P, "pri")
    BY <2>1, <2>2, FlushRest DEF Handled
  <2> QED BY <2>3
<1>2. CASE PacketKey(P, pk) = "secondary"
  <2>1. ControlRecv(p, P, pk, t) = Flush(p, [P EXCEPT !.sec = NetRecv(p, @, pk)], t)
    BY <1>2 DEF ControlRecv
  <2>2. pk.kid = P.sec.id /\ P.sec # NoKey
    BY <1>2 DEF PacketKey
  <2>3. Handled(p, P, O, pk, t, P, "sec")
    BY <2>1, <2>2, FlushRest DEF Handled
  <2> QED BY <2>3
<1>3. CASE PacketKey(P, pk) = "request"
  <2>1. ControlRecv(p, P, pk, t) = Flush(p, [N EXCEPT !.sec = NetRecv(p, @, pk)], t)
    BY <1>3 DEF ControlRecv
  <2>2. pk.kid = P.up
    BY <1>3 DEF PacketKey
  <2>3. p = "server" /\ Lagging(O, P, t)
    BY <2>2, NoRequest
  <2>4. /\ TwoPeers(O, N, t) /\ N.sec # NoKey /\ N.sec.id = P.up /\ Renewing(N)
        /\ N.sec.born = t /\ N.sec.got = 0
    BY <2>3, ServerRenews DEF Pair
  <2> HIDE DEF N
  <2>5. Handled(p, P, O, pk, t, N, "sec")
    BY <2>1, <2>2, <2>3, <2>4, FlushRest DEF Handled, Pair
  <2> QED BY <2>5
<1>4. CASE PacketKey(P, pk) = "undefined"
  BY <1>4 DEF ControlRecv
<1> QED BY <1>1, <1>2, <1>3, <1>4 DEF PacketKey

LEMMA PairControl ==
    ASSUME Windows, NEW p \in Side, NEW t \in Nat, NEW P, NEW O, Pair(p, P, O, t), NEW pk \in O.sent
    PROVE  Pair(p, ControlRecv(p, P, pk, t), O, t)
<1>1. ASSUME NEW R, NEW slot, Handled(p, P, O, pk, t, R, slot)
      PROVE  Pair(p, ControlRecv(p, P, pk, t), O, t)
  <2>1. Pair(p, FlushKeys(p, [R EXCEPT ![slot] = NetRecv(p, @, pk)], t), O, t)
    BY <1>1, PairReceive DEF Handled
  <2> QED BY <1>1, <2>1, PairRest DEF Handled
<1> QED BY <1>1, ControlCases

--------------------------------------------------------------------------------
(* A handshake goes on while there is anything to send or to receive.      *)

(* The newest key was made at the present time.                            *)
Fresh(p, P, t, id, g) ==
    /\ OnePeer(p, P, t)
    /\ Newest(P).born = t /\ Newest(P).id = id /\ g <= Newest(P).got /\ Newest(P).queue = <<>>

LEMMA FreshEvents ==
    ASSUME Windows, NEW p \in Side, NEW t \in Nat, NEW P, NEW id, NEW g, Fresh(p, P, t, id, g)
    PROVE  /\ Fresh(p, ProcessPrimaryEvent(p, P, t), t, id, g)
           /\ Fresh(p, ProcessSecondaryEvent(p, P, t), t, id, g)
<1>0. OnePeer(p, P, t) /\ Newest(P).born = t
  BY DEF Fresh
<1>1. /\ P.pri \in Key /\ Good(p, P.pri, t)
      /\ P.sec # NoKey => P.sec \in Key /\ Good(p, P.sec, t)
      /\ \A k \in Key : k.born \in Nat /\ k.at \in Nat
  BY <1>0, OneKeys, KeyNat
<1>2. ASSUME NEW Q, Calm(p, P, Q, t) PROVE Fresh(p, Q, t, id, g)
  <2>1. SameKey(Newest(Q), Newest(P))
    BY <1>2 DEF Calm, Keeps, Newest, Renewing
  <2> QED BY <1>2, <2>1 DEF Calm, Fresh, SameKey, SameHandshake
<1>3. ~ Renewing(P) /\ P.pri.next = "renegotiate" => t < P.pri.at
  BY <1>0, <1>1, TimesNat DEF Newest, Good, Awaits
<1>4. Renewing(P) /\ P.sec.next = "becomePrimary" => t < P.sec.at
  BY <1>0, <1>1, TimesNat DEF Newest, Renewing, Good, Awaits
<1>5. P.pri.at \in Nat /\ (Renewing(P) => P.sec.at \in Nat)
  BY <1>1 DEF Renewing
<1>6. Fresh(p, ProcessPrimaryEvent(p, P, t), t, id, g)
  <2>1. \A Q : ~ Renews(P, Q, t)
    BY <1>3, <1>5 DEF Renews
  <2> QED BY <1>0, <1>2, <1>3, <2>1, PrimaryMoves
<1>7. Fresh(p, ProcessSecondaryEvent(p, P, t), t, id, g)
  <2>1. \A Q : ~ Promotes(P, Q, t)
    BY <1>4, <1>5 DEF Promotes
  <2> QED BY <1>0, <1>2, <2>1, SecondaryMoves
<1> QED BY <1>6, <1>7

LEMMA FreshMoves ==
    ASSUME Windows, NEW p \in Side, NEW t \in Nat, NEW P, OnePeer(p, P, t), Newest(P).born = t,
           NEW Q, Moves(p, P, Q, t)
    PROVE  Fresh(p, Q, t, Newest(P).id, Newest(Q).got)
<1>1. OnePeer(p, Q, t)
  BY MovesOne
<1>2. \E A : Advances(p, Newest(P), Newest(Q), A, t)
  BY MovesKeeps
<1>3. Newest(Q) \in Key
  BY <1>1, OneKeys
<1>4. Newest(Q).got <= Newest(Q).got
  BY <1>3, KeyNat
<1> QED BY <1>1, <1>2, <1>4 DEF Fresh, Advances, SameKey

LEMMA FreshRound ==
    ASSUME Windows, NEW p \in Side, NEW t \in Nat, NEW P, OnePeer(p, P, t), Newest(P).born = t
    PROVE  Fresh(p, Round(p, P, t), t, Newest(P).id, Newest(P).got)
<1>1. /\ Moves(p, P, FlushKeys(p, P, t), t)
      /\ Newest(FlushKeys(p, P, t)).got = Newest(P).got
  BY FlushMoves
<1>2. Fresh(p, FlushKeys(p, P, t), t, Newest(P).id, Newest(P).got)
  BY <1>1, FreshMoves
<1> QED BY <1>2, FreshEvents DEF Round

LEMMA FreshRest ==
    ASSUME Windows, NEW p \in Side, NEW t \in Nat, NEW P, NEW id, NEW g \in Nat, Fresh(p, P, t, id, g)
    PROVE  Fresh(p, Rest(p, P, t), t, id, g)
<1>1. ASSUME NEW M, Fresh(p, M, t, id, g) PROVE Fresh(p, Round(p, M, t), t, id, g)
  <2>1. OnePeer(p, M, t) /\ Newest(M).born = t /\ Newest(M).id = id /\ g <= Newest(M).got
    BY <1>1 DEF Fresh
  <2>2. Fresh(p, Round(p, M, t), t, id, Newest(M).got)
    BY <2>1, FreshRound
  <2>3. Newest(M).got \in Nat /\ Newest(Round(p, M, t)).got \in Nat
    BY <2>1, <2>2, OneKeys, KeyNat DEF Fresh
  <2> QED BY <2>1, <2>2, <2>3 DEF Fresh
<1>2. Fresh(p, ProcessSecondaryEvent(p, ProcessPrimaryEvent(p, P, t), t), t, id, g)
  BY FreshEvents
<1> QED BY <1>1, <1>2 DEF Rest

(* The next message of a handshake is taken.                               *)
LEMMA Takes ==
    ASSUME Windows, NEW p \in Side, NEW t \in Nat, NEW P, NEW O, Pair(p, P, O, t),
           NEW pk \in O.sent, pk.kid = Newest(P).id, p = "client" \/ ~ Lagging(O, P, t),
           Newest(P).born = t, pk.n = Newest(P).got + 1
    PROVE  ControlRecv(p, P, pk, t) # P
<1>1. OnePeer(p, P, t)
  BY DEF Pair, TwoPeers, Side
<1>2. /\ P.sec # NoKey => P.sec.id # P.pri.id
      /\ Newest(P) \in Key
      /\ Newest(P).got \in Nat
  BY <1>1, OneKeys, KeyNat
<1>3. PacketKey(P, pk) # "undefined"
  BY <1>2 DEF PacketKey, Newest, Renewing
<1>4. PICK R, slot : Handled(p, P, O, pk, t, R, slot)
  BY <1>3, ControlCases
<1>5. R = P
  BY <1>4 DEF Handled
<1>6. P[slot] = Newest(P) /\ slot \in {"pri", "sec"} /\ (slot = "sec" => P.sec # NoKey)
      /\ pk.kid = P[slot].id
  BY <1>2, <1>4, <1>5 DEF Handled, Newest, Renewing
<1> DEFINE Q == FlushKeys(p, [P EXCEPT ![slot] = NetRecv(p, @, pk)], t)
<1>7. Moves(p, P, Q, t) /\ Newest(Q).got = Newest(P).got + 1
  <2>1. slot \in {"pri", "sec"} /\ (slot = "sec" => P.sec # NoKey) /\ pk.kid = P[slot].id
    BY <1>6
  <2>2. Moves(p, P, Q, t)
    BY <2>1, PairReceive
  <2>3. Follows(pk.n, Newest(P)) => Follows(Newest(Q).got, Newest(P))
    BY <1>6, <2>1, PairReceive
  <2> HIDE DEF Q
  <2> QED BY <2>2, <2>3 DEF Follows
<1>8. ControlRecv(p, P, pk, t) = Rest(p, Q, t)
  BY <1>4, <1>5 DEF Handled
<1> HIDE DEF Q
<1>9. Fresh(p, Q, t, Newest(P).id, Newest(P).got + 1)
  BY <1>1, <1>7, FreshMoves
<1>10. Fresh(p, Rest(p, Q, t), t, Newest(P).id, Newest(P).got + 1)
  <2> DEFINE g == Newest(P).got + 1
  <2>1. g \in Nat /\ Fresh(p, Q, t, Newest(P).id, g)
    BY <1>2, <1>9
  <2> HIDE DEF g
  <2>2. Fresh(p, Rest(p, Q, t), t, Newest(P).id, g)
    BY <2>1, FreshRest
  <2> QED BY <2>2 DEF g
<1> QED BY <1>2, <1>8, <1>10 DEF Fresh

(* When nothing is left to be done or to arrive, both ends have completed  *)
(* the handshake of the same newest key.                                   *)
LEMMA Complete ==
    ASSUME Windows, NEW t \in Nat, NEW C, NEW S, TwoPeers(C, S, t),
           Round("client", C, t) = C, Round("server", S, t) = S,
           \A pk \in S.sent : ControlRecv("client", C, pk, t) = C,
           \A pk \in C.sent : ControlRecv("server", S, pk, t) = S
    PROVE  /\ Together(C, S, t) /\ ~ Lagging(C, S, t)
           /\ Newest(C).got = 3 /\ Newest(S).got = 3
<1> DEFINE c == Newest(C)
           s == Newest(S)
<1>0. "client" \in Side /\ "server" \in Side /\ KeyIdMask >= 5
  BY DEF Side, Windows
<1>1. OnePeer("client", C, t) /\ OnePeer("server", S, t) /\ Pair("client", C, S, t)
      /\ Pair("server", S, C, t)
  BY DEF TwoPeers, Pair
<1>2. /\ c \in Key /\ s \in Key /\ Good("client", c, t) /\ Good("server", s, t)
      /\ S.pri \in Key /\ (S.sec # NoKey => S.sec \in Key) /\ C.sent \subseteq Packet
      /\ S.sec # NoKey => S.sec.id # S.pri.id
  BY <1>0, <1>1, OneKeys
<1>3. c.born = t => c.queue = <<>>
  BY <1>0, <1>1, FreshRound DEF Fresh
<1>4. /\ \A n \in 1..3 : n <= c.out => \E pk \in C.sent : pk.kid = c.id /\ pk.n = n
      /\ \A n \in 1..3 : n <= s.out => \E pk \in S.sent : pk.kid = s.id /\ pk.n = n
  BY <1>1 DEF OnePeer, SentShape
<1>5. /\ c.got \in 0..3 /\ s.got \in 0..3 /\ s.out = s.got
      /\ c.queue = <<>> /\ c.got < 3 => c.out = c.got + 1
  BY <1>2 DEF Good, Handshake
<1>6. ~ Lagging(C, S, t)
  <2> SUFFICES ASSUME Lagging(C, S, t) PROVE FALSE
    OBVIOUS
  <2>1. /\ Newest(S) = S.pri /\ S.up = c.id /\ c.id = NextKeyId(S.pri.id)
        /\ S.pri.id \in 0..KeyIdMask
        /\ c.born = t /\ c.got = 0 /\ ~ Renewing(S)
    BY LaggingServer DEF Lagging, Newest
  <2>2. c.out = 1
    BY <1>3, <1>5, <2>1
  <2>3. PICK pk \in C.sent : pk.kid = c.id /\ pk.n = 1
    BY <1>4, <2>2
  <2>4. pk.msg = "reset"
    <3>1. PacketShape("client", pk)
      BY <1>1 DEF OnePeer, SentShape
    <3> QED BY <2>3, <3>1 DEF PacketShape, HandshakeMessage
  <2>5. c.id # S.pri.id /\ (S.sec # NoKey => c.id # S.sec.id)
    <3>1. S.sec # NoKey => S.sec.id \in 0..KeyIdMask /\ NextKeyId(S.sec.id) = S.pri.id
      BY <1>1, <1>2, <2>1, KeyNat DEF OnePeer, SteadyShape
    <3> QED BY <1>0, <2>1, <3>1, FiveIds
  <2>6. PacketKey(S, pk) = "request"
    BY <2>1, <2>3, <2>4, <2>5 DEF PacketKey
  <2>7. PICK R, slot : Handled("server", S, C, pk, t, R, slot)
    BY <1>0, <1>1, <2>6, ControlCases
  <2>8. R # S
    BY <2>3, <2>5, <2>7 DEF Handled
  <2>9. slot = "sec" /\ Renewing(R) /\ R.sec.born = t /\ Pair("server", R, C, t)
        /\ R.sec # NoKey /\ Newest(R) = R.sec /\ R.sec.id = c.id
    BY <2>3, <2>7, <2>8 DEF Handled, Newest
  <2> DEFINE Q == FlushKeys("server", [R EXCEPT ![slot] = NetRecv("server", @, pk)], t)
  <2>10. Moves("server", R, Q, t) /\ OnePeer("server", R, t)
    BY <1>0, <2>3, <2>9, PairReceive DEF Pair, TwoPeers
  <2>11. ControlRecv("server", S, pk, t) = Rest("server", Q, t)
    BY <2>7 DEF Handled
  <2> HIDE DEF Q
  <2>12. Fresh("server", Q, t, c.id, Newest(Q).got) /\ Newest(Q).got \in Nat
    BY <1>0, <2>9, <2>10, FreshMoves, MovesOne, OneKeys, KeyNat
  <2>13. Fresh("server", Rest("server", Q, t), t, c.id, Newest(Q).got)
    BY <1>0, <2>12, FreshRest
  <2>14. Newest(S).id = c.id
    BY <2>3, <2>11, <2>13 DEF Fresh
  <2> QED BY <2>1, <2>5, <2>14
<1>7. Together(C, S, t)
  BY <1>6 DEF TwoPeers
<1>8. /\ SameKey(c, s) /\ c.got <= s.got
      /\ c.got < 3 \/ s.got < 3 => t = c.born
  BY <1>7 DEF Together, Coupled
<1>9. ~ c.got < 3
  <2> SUFFICES ASSUME c.got < 3 PROVE FALSE
    OBVIOUS
  <2>1. c.born = t /\ s.born = t /\ c.out = c.got + 1 /\ c.id = s.id
    BY <1>3, <1>5, <1>8 DEF SameKey
  <2>2. c.got + 1 \in 1..3
    BY <1>5
  <2>3. CASE c.got = s.got
    <3>1. PICK pk \in C.sent : pk.kid = c.id /\ pk.n = c.got + 1
      <4>1. c.got + 1 <= c.out
        BY <1>5, <2>1
      <4> QED BY <1>4, <2>2, <4>1
    <3>2. ControlRecv("server", S, pk, t) # S
      BY <1>0, <1>1, <1>6, <2>1, <2>3, <3>1, Takes
    <3> QED BY <3>1, <3>2
  <2>4. CASE c.got < s.got
    <3>1. PICK pk \in S.sent : pk.kid = s.id /\ pk.n = c.got + 1
      <4>1. c.got + 1 <= s.out
        BY <1>5, <2>4
      <4> QED BY <1>4, <2>2, <4>1
    <3>2. ControlRecv("client", C, pk, t) # C
      BY <1>0, <1>1, <2>1, <3>1, Takes
    <3> QED BY <3>1, <3>2
  <2> QED BY <1>5, <1>8, <2>3, <2>4
<1>10. c.got = 3 /\ s.got = 3
  BY <1>5, <1>8, <1>9
<1> QED BY <1>6, <1>7, <1>10

--------------------------------------------------------------------------------
(* The first packet on a key is decrypted: a client that waited for it     *)
(* promotes the key.                                                       *)

LEMMA AddGood ==
    ASSUME Windows, NEW p \in Side, NEW t \in Nat, NEW k \in Key, Good(p, k, t)
    PROVE  LET j == DataLimitAdd(p, k, FALSE, t) IN
           /\ j \in Key /\ Good(p, j, t) /\ SameHandshake(j, k) /\ SameKey(j, k)
           /\ IF k.next = "primaryPending" THEN p = "client" /\ j.next = "becomePrimary"
              ELSE j.next = k.next /\ j.cur = k.cur /\ j.at = k.at
<1> DEFINE g == [k EXCEPT !.green = TRUE]
           at == t + 1
           j == DataLimitAdd(p, k, FALSE, t)
<1>1. /\ g \in Key /\ SameHandshake(g, k) /\ SameEvents(g, k) /\ SameKey(g, k) /\ g.green
      /\ g.st = k.st /\ g.fired = k.fired /\ g.valid = k.valid
  BY DEF Key, SameHandshake, SameEvents, SameKey
<1>2. j = IF g.next = "primaryPending" THEN SetEvent(g, "none", "becomePrimary", at) ELSE g
  BY DEF DataLimitAdd
<1>3. k.born \in Nat /\ k.at \in Nat /\ at \in Nat /\ t < at /\ BecomePrimary \in Nat
  BY Durations DEF Key
<1> HIDE DEF g, j
<1>4. CASE k.next # "primaryPending"
  <2>1. j = g
    BY <1>1, <1>2, <1>4 DEF SameEvents
  <2>2. Handshake(p, g)
    BY <1>1 DEF Good, Handshake, SameHandshake
  <2>3. Awaits(p, g, t)
    BY <1>1, <1>4 DEF Good, Awaits, SameHandshake, SameEvents, SameKey
  <2> QED BY <1>1, <1>4, <2>1, <2>2, <2>3 DEF Good, SameEvents, j
<1>5. CASE k.next = "primaryPending"
  <2>1. p = "client" /\ k.id # 0 /\ t = k.born + BecomePrimary /\ k.got = 3 /\ ~ k.fired /\ k.valid
    BY <1>5 DEF Good, Awaits, Handshake
  <2>2. at = k.born + BecomePrimary + 1
    BY <1>3, <2>1
  <2>3. at \in Nat /\ t <= at
    BY <1>3
  <2>4. j = SetEvent(g, "none", "becomePrimary", at)
    BY <1>1, <1>2, <1>5 DEF SameEvents
  <2> HIDE DEF at
  <2>5. /\ j \in Key /\ SameHandshake(j, g) /\ SameLife(j, g) /\ j.st = g.st
        /\ j.cur = "none" /\ j.next = "becomePrimary" /\ j.at = at
    <3>1. "none" \in Event /\ "becomePrimary" \in Event
      BY DEF Event
    <3> QED BY <1>1, <2>3, <2>4, <3>1, SetEventSame
  <2>6. Handshake(p, j)
    BY <1>1, <2>5 DEF Good, Handshake, SameHandshake
  <2>7. Awaits(p, j, t)
    BY <1>1, <2>1, <2>2, <2>3, <2>5 DEF Good, Awaits, SameHandshake, SameLife, SameKey
  <2> QED BY <1>1, <1>5, <2>1, <2>5, <2>6, <2>7 DEF Good, SameHandshake, SameLife, SameKey, j
<1> QED BY <1>4, <1>5

LEMMA AddOne ==
    ASSUME Windows, NEW p \in Side, NEW t \in Nat, NEW P, OnePeer(p, P, t),
           NEW slot \in {"pri", "sec"}, slot = "sec" => P.sec # NoKey
    PROVE  LET M == [P EXCEPT ![slot] = DataLimitAdd(p, @, FALSE, t)] IN
           \/ Calm(p, P, M, t)
           \/ /\ slot = "sec" /\ p = "client" /\ Renewing(P)
              /\ OnePeer(p, M, t) /\ Keeps(P, M) /\ SameHandshake(Newest(M), Newest(P))
              /\ M.sec # NoKey
<1> DEFINE k == P[slot]
           j == DataLimitAdd(p, k, FALSE, t)
           M == [P EXCEPT ![slot] = j]
<1>1. /\ P \in Peer /\ P.pri \in Key /\ Good(p, P.pri, t)
      /\ P.sec # NoKey => P.sec \in Key /\ Good(p, P.sec, t)
  BY OneKeys
<1>2. /\ j \in Key /\ Good(p, j, t) /\ SameHandshake(j, k) /\ SameKey(j, k)
      /\ IF k.next = "primaryPending" THEN p = "client" /\ j.next = "becomePrimary"
         ELSE j.next = k.next /\ j.cur = k.cur /\ j.at = k.at
  <2>1. k \in Key /\ Good(p, k, t)
    BY <1>1
  <2> HIDE DEF k
  <2> QED BY <2>1, AddGood
<1> HIDE DEF j
<1>3. CASE slot = "pri"
  <2>1. M \in Peer /\ M.pri = j /\ M.sec = P.sec /\ M.up = P.up /\ M.sent = P.sent
    BY <1>1, <1>2, <1>3 DEF Peer
  <2>2. k.next # "primaryPending"
    BY <1>3 DEF OnePeer, RenewingShape, SteadyShape
  <2> HIDE DEF M
  <2>3. (Renewing(M) <=> Renewing(P)) /\ SameHandshake(Newest(M), Newest(P))
        /\ Newest(M).id = Newest(P).id
    BY <1>2, <1>3, <2>1 DEF Renewing, Newest, SameHandshake, SameKey
  <2>4. IF Renewing(M) THEN RenewingShape(p, M, t) ELSE SteadyShape(p, M, t)
    BY <1>2, <1>3, <2>1, <2>2, <2>3 DEF OnePeer, RenewingShape, SteadyShape, SameKey
  <2>5. OnePeer(p, M, t)
    BY <2>1, <2>3, <2>4, SameRole
  <2>6. Keeps(P, M)
    BY <1>2, <1>3, <2>1, <2>3 DEF Keeps, SameKey
  <2> QED BY <2>1, <2>3, <2>5, <2>6 DEF Calm, M, j
<1>4. CASE slot = "sec"
  <2>1. M \in Peer /\ M.pri = P.pri /\ M.sec = j /\ M.up = P.up /\ M.sent = P.sent /\ P.sec # NoKey
        /\ M.sec # NoKey
    BY <1>1, <1>2, <1>4, NoKeyAssumption DEF Peer
  <2>2. k.next # "expire" <=> j.next # "expire"
    BY <1>2
  <2> HIDE DEF M
  <2>3. Renewing(M) <=> Renewing(P)
    BY <1>4, <2>1, <2>2 DEF Renewing
  <2>4. SameHandshake(Newest(M), Newest(P)) /\ Newest(M).id = Newest(P).id
    BY <1>2, <1>4, <2>1, <2>3 DEF Newest, SameHandshake, SameKey
  <2>5. IF Renewing(M) THEN RenewingShape(p, M, t) ELSE SteadyShape(p, M, t)
    BY <1>2, <1>4, <2>1, <2>3 DEF OnePeer, RenewingShape, SteadyShape, SameKey
  <2>6. OnePeer(p, M, t)
    BY <2>1, <2>4, <2>5, SameRole
  <2>7. Keeps(P, M)
    BY <1>2, <1>4, <2>1, <2>3 DEF Keeps, SameKey
  <2>8. CASE k.next # "primaryPending"
    BY <1>2, <1>4, <2>1, <2>4, <2>6, <2>7, <2>8 DEF Calm, M, j
  <2>9. CASE k.next = "primaryPending"
    BY <1>2, <1>4, <2>1, <2>4, <2>6, <2>7, <2>9 DEF Renewing, M, j
  <2> QED BY <2>8, <2>9
<1> QED BY <1>3, <1>4

LEMMA PairLimitAdd ==
    ASSUME Windows, NEW p \in Side, NEW t \in Nat, NEW P, NEW O, Pair(p, P, O, t),
           NEW slot \in {"pri", "sec"}, slot = "sec" => P.sec # NoKey /\ O.pri.id = P.sec.id
    PROVE  Pair(p, [P EXCEPT ![slot] = DataLimitAdd(p, @, FALSE, t)], O, t)
<1> DEFINE M == [P EXCEPT ![slot] = DataLimitAdd(p, @, FALSE, t)]
<1>1. OnePeer(p, P, t)
  BY DEF Pair, TwoPeers, Side
<1>2. \/ Calm(p, P, M, t)
      \/ /\ slot = "sec" /\ p = "client" /\ Renewing(P)
         /\ OnePeer(p, M, t) /\ Keeps(P, M) /\ SameHandshake(Newest(M), Newest(P))
         /\ M.sec # NoKey
  BY <1>1, AddOne
<1> HIDE DEF M
<1>3. CASE Calm(p, P, M, t)
  BY <1>3, ClientCalm, ServerCalm DEF Pair, Side, M
<1>4. CASE /\ slot = "sec" /\ p = "client" /\ Renewing(P)
           /\ OnePeer(p, M, t) /\ Keeps(P, M) /\ SameHandshake(Newest(M), Newest(P))
           /\ M.sec # NoKey
  <2>1. TwoPeers(P, O, t) /\ "client" \in Side /\ OnePeer("client", M, t)
    BY <1>4 DEF Pair, Side
  <2>2. ~ Renewing(O)
    <3> SUFFICES ASSUME Renewing(O) PROVE FALSE
      OBVIOUS
    <3>1. O.pri.id = P.pri.id
      BY <1>4, <2>1 DEF TwoPeers, Together, Lagging, SameKey
    <3> QED BY <1>1, <1>4, <3>1, OneKeys
  <2>3. Newest(P) \in Key /\ Newest(M) \in Key
    BY <1>1, <1>4, OneKeys
  <2>4. /\ Newest(M).out = Newest(P).out /\ Newest(M).got = Newest(P).got
        /\ Newest(M).acked = Newest(P).acked
    BY <1>4 DEF SameHandshake
  <2>5. Newest(P).out <= Newest(M).out /\ Newest(P).got <= Newest(M).got
    BY <2>3, <2>4, KeyNat
  <2>6. Together(P, O, t) => Newest(M).got <= Newest(O).got /\ Newest(M).acked <= Newest(O).got
    BY <2>4 DEF Together, Coupled
  <2>7. Lagging(P, O, t) => Newest(M).got = 0 /\ Newest(M).acked = 0
    BY <2>4 DEF Lagging, Newest
  <2>8. TwoPeers(M, O, t)
    BY <1>4, <2>1, <2>2, <2>5, <2>6, <2>7, ClientFollows
  <2> QED BY <1>4, <2>8 DEF Pair, M
<1> QED BY <1>2, <1>3, <1>4

--------------------------------------------------------------------------------
(* The clock.                                                              *)

LEMMA OneShape ==
    ASSUME Windows, NEW p \in Side, NEW t \in Nat, NEW P, OnePeer(p, P, t)
    PROVE  PeerShape(p, P, t)
<1>1. ASSUME NEW k \in Key, Good(p, k, t) PROVE KeyShape(p, k, t)
  <2>1. /\ k.cur # "renegotiateQueue" /\ ~ k.fired
        /\ k.next = "negotiate" <=> k.got < 3
        /\ k.st = "active" <=> k.got = 3
        /\ k.got \in 0..3
    BY <1>1 DEF Good, Awaits, Handshake
  <2>2. k.born <= t /\ k.born \in Nat /\ k.at \in Nat /\ BecomePrimary \in Nat
    BY <1>1, Durations, KeyNat DEF Good, Awaits
  <2>3. \/ k.next = "negotiate" /\ k.at = k.born + HandshakeWindow
        \/ k.next = "becomePrimary" /\ k.at <= t + BecomePrimary + 1
        \/ k.next = "primaryPending" /\ k.at <= t + 2 * HandshakeWindow
        \/ k.next = "renegotiate" /\ k.at = k.born + Renegotiate[p]
        \/ k.next = "expire" /\ k.at = k.born + Expire[p]
    BY <1>1, <2>2 DEF Good, Awaits
  <2> QED BY <2>1, <2>3 DEF KeyShape
<1> QED BY <1>1, OneKeys DEF PeerShape

LEMMA GoodLater ==
    ASSUME NEW p \in Side, NEW t \in Nat, NEW k \in Key, Good(p, k, t),
           t < k.at, k.cur = "none", k.got = 3, k.next # "primaryPending"
    PROVE  Good(p, k, t + 1)
<1> DEFINE u == t + 1
<1>1. u <= k.at /\ k.born <= u
  BY KeyNat DEF Good, Awaits
<1> HIDE DEF u
<1>2. Awaits(p, k, u)
  BY <1>1 DEF Good, Awaits
<1> QED BY <1>2 DEF Good, u

LEMMA ServedOne ==
    ASSUME Windows, NEW p \in Side, NEW t \in Nat, NEW P, OnePeer(p, P, t), Round(p, P, t) = P
    PROVE  /\ t < P.pri.at /\ P.pri.cur = "none"
           /\ P.sec # NoKey => t < P.sec.at /\ P.sec.cur = "none"
<1>1. PeerShape(p, P, t) /\ P \in Peer /\ P.pri.valid /\ (P.sec # NoKey => P.sec.valid)
  BY OneShape, OneKeys DEF Good, Awaits
<1> QED BY <1>1, ServedKeys

LEMMA OneLater ==
    ASSUME Windows, NEW p \in Side, NEW t \in Nat, NEW P, OnePeer(p, P, t), Round(p, P, t) = P,
           Newest(P).got = 3, P.sec # NoKey => P.sec.next # "primaryPending"
    PROVE  OnePeer(p, P, t + 1)
<1> DEFINE u == t + 1
<1>1. /\ t < P.pri.at /\ P.pri.cur = "none"
      /\ P.sec # NoKey => t < P.sec.at /\ P.sec.cur = "none"
  BY ServedOne
<1>2. /\ P.pri \in Key /\ Good(p, P.pri, t)
      /\ P.sec # NoKey => P.sec \in Key /\ Good(p, P.sec, t)
  BY OneKeys
<1>3. CASE Renewing(P)
  <2>1. RenewingShape(p, P, t) /\ P.pri.got = 3 /\ P.sec.got = 3 /\ P.sec # NoKey
    BY <1>3, RenewingSoon
  <2>2. P.pri.next = "expire"
    BY <1>1, <1>2, <2>1 DEF RenewingShape, Good, Awaits
  <2>3. Good(p, P.pri, u) /\ Good(p, P.sec, u)
    BY <1>1, <1>2, <2>1, <2>2, GoodLater
  <2> HIDE DEF u
  <2>4. RenewingShape(p, P, u)
    BY <2>1, <2>2, <2>3 DEF RenewingShape
  <2> QED BY <1>3, <2>4 DEF OnePeer, u
<1>4. CASE ~ Renewing(P)
  <2>1. SteadyShape(p, P, t) /\ P.pri.got = 3 /\ P.pri.next # "primaryPending"
    BY <1>4 DEF OnePeer, Newest, SteadyShape
  <2>2. P.sec # NoKey => P.sec.got = 3
    BY <1>2, <1>4 DEF Renewing, Good, Awaits, Handshake
  <2>3. Good(p, P.pri, u) /\ (P.sec # NoKey => Good(p, P.sec, u))
    BY <1>1, <1>2, <2>1, <2>2, GoodLater
  <2> HIDE DEF u
  <2>4. SteadyShape(p, P, u)
    BY <2>1, <2>3 DEF SteadyShape
  <2> QED BY <1>4, <2>4 DEF OnePeer, u
<1> QED BY <1>3, <1>4

(* A client that hears the server on its new key does not wait for it.     *)
LEMMA NonePending ==
    ASSUME Windows, NEW t \in Nat, NEW C, NEW S, TwoPeers(C, S, t),
           Round("server", S, t) = S,
           Together(C, S, t), Newest(C).got = 3, Newest(S).got = 3,
           DataLimited /\ C.sec # NoKey /\ Active(C.sec) /\ Active(S.pri) /\ C.sec.id = S.pri.id
              => C.sec.green
    PROVE  /\ C.sec # NoKey => C.sec.next # "primaryPending"
           /\ S.sec # NoKey => S.sec.next # "primaryPending"
<1>0. /\ "client" \in Side /\ "server" \in Side
      /\ OnePeer("client", C, t) /\ OnePeer("server", S, t)
  BY DEF Side, TwoPeers
<1>1. /\ C.sec # NoKey => C.sec \in Key /\ Good("client", C.sec, t)
      /\ S.sec # NoKey => S.sec \in Key /\ Good("server", S.sec, t)
      /\ S.pri \in Key /\ Good("server", S.pri, t)
  BY <1>0, OneKeys
<1>2. S.sec # NoKey => S.sec.next # "primaryPending"
  BY <1>1 DEF Good, Awaits
<1>3. ASSUME C.sec # NoKey, C.sec.next = "primaryPending" PROVE FALSE
  <2>1. /\ Renewing(C) /\ Newest(C) = C.sec
        /\ t = C.sec.born + BecomePrimary /\ DataLimited /\ ~ C.sec.green /\ C.sec.valid
    BY <1>1, <1>3 DEF Renewing, Newest, Good, Awaits
  <2>2. SameKey(C.sec, Newest(S))
    BY <2>1 DEF Together, Coupled
  <2>3. CASE Renewing(S)
    <3>1. S.sec # NoKey /\ RenewingShape("server", S, t) /\ Newest(S) = S.sec
      BY <1>0, <2>3, RenewingSoon
    <3>2. S.sec.at = S.sec.born + BecomePrimary
      BY <1>1, <3>1 DEF RenewingShape, Good, Awaits
    <3>3. t < S.sec.at /\ S.sec.at \in Nat
      BY <1>0, <1>1, <3>1, ServedOne, KeyNat
    <3> QED BY <2>1, <2>2, <3>1, <3>2, <3>3 DEF SameKey
  <2>4. CASE ~ Renewing(S)
    <3>1. Newest(S) = S.pri /\ S.pri # NoKey
      BY <1>1, <2>4, NoKeyAssumption DEF Newest
    <3>2. Active(S.pri) /\ Active(C.sec)
      BY <1>1, <1>3, <2>1, <3>1 DEF Active, Good, Handshake, Awaits
    <3> QED BY <1>3, <2>1, <2>2, <3>1, <3>2 DEF SameKey
  <2> QED BY <2>3, <2>4
<1> QED BY <1>2, <1>3

(* The clock does not run before both ends have completed the handshake.   *)
LEMMA PairLater ==
    ASSUME Windows, NEW t \in Nat, NEW C, NEW S, TwoPeers(C, S, t),
           Round("client", C, t) = C, Round("server", S, t) = S,
           \A pk \in S.sent : ControlRecv("client", C, pk, t) = C,
           \A pk \in C.sent : ControlRecv("server", S, pk, t) = S,
           DataLimited /\ C.sec # NoKey /\ Active(C.sec) /\ Active(S.pri) /\ C.sec.id = S.pri.id
              => C.sec.green
    PROVE  TwoPeers(C, S, t + 1)
<1> DEFINE u == t + 1
<1>0. /\ "client" \in Side /\ "server" \in Side
      /\ OnePeer("client", C, t) /\ OnePeer("server", S, t)
  BY DEF Side, TwoPeers
<1>1. Together(C, S, t) /\ Newest(C).got = 3 /\ Newest(S).got = 3
  BY Complete
<1>2. /\ C.sec # NoKey => C.sec.next # "primaryPending"
      /\ S.sec # NoKey => S.sec.next # "primaryPending"
  BY <1>1, NonePending
<1>3. OnePeer("client", C, u) /\ OnePeer("server", S, u)
  BY <1>0, <1>1, <1>2, OneLater
<1>4. /\ C.sec # NoKey => C.sec \in Key
      /\ S.sec # NoKey => S.sec \in Key
      /\ BecomePrimary \in Nat
  BY <1>0, OneKeys, Durations
<1>5. \A k \in Key : t >= k.born + BecomePrimary => u >= k.born + BecomePrimary
  BY <1>4, KeyNat
<1> HIDE DEF u
<1>6. Coupled(Newest(C), Newest(S), u)
  BY <1>1 DEF Together, Coupled
<1>7. Together(C, S, u)
  BY <1>1, <1>4, <1>5, <1>6 DEF Together, Renewing
<1> QED BY <1>3, <1>7 DEF TwoPeers, u

--------------------------------------------------------------------------------
(* Every step keeps the shape of the pair.                                 *)

(* The two ends before they have sent anything.                            *)
LEMMA FirstPeers ==
    ASSUME Windows, NEW p \in Side, NEW initiator \in BOOLEAN, initiator <=> p = "client"
    PROVE  LET P == [pri |-> NewKey(0, initiator, 0), sec |-> NoKey, up |-> NextKeyId(0), sent |-> {}]
           IN  /\ OnePeer(p, P, 0) /\ ~ Renewing(P) /\ Newest(P) = P.pri
               /\ P.pri.id = 0 /\ P.pri.born = 0 /\ P.pri.got = 0 /\ P.pri.acked = 0 /\ P.pri.out = 0
<1> DEFINE k == NewKey(0, initiator, 0)
           P == [pri |-> k, sec |-> NoKey, up |-> NextKeyId(0), sent |-> {}]
<1>1. 0 \in Nat /\ 0 \in 0..KeyIdMask
  BY MaskAssumption
<1>2. k \in Key /\ NextKeyId(0) \in 0..KeyIdMask
  BY <1>1, NewKeyType, NextKeyIdType
<1>3. P \in Peer
  BY <1>2 DEF Peer
<1>4. /\ k.id = 0 /\ k.st = "waitReset" /\ k.cur = "none" /\ k.next = "negotiate"
      /\ k.at = 0 + HandshakeWindow /\ k.born = 0 /\ ~ k.fired /\ ~ k.green /\ k.valid
      /\ k.queue = (IF p = "client" THEN <<"reset">> ELSE <<>>)
      /\ k.out = 0 /\ k.acked = 0 /\ k.got = 0
  BY DEF NewKey
<1> HIDE DEF k
<1>5. Handshake(p, k)
  BY <1>4 DEF Handshake, Side
<1>6. Awaits(p, k, 0)
  BY <1>4, TimesNat DEF Awaits
<1>7. P.pri = k /\ P.sec = NoKey /\ P.up = NextKeyId(0) /\ P.sent = {}
  OBVIOUS
<1> HIDE DEF P
<1>8. ~ Renewing(P) /\ Newest(P) = k
  BY <1>7 DEF Renewing, Newest
<1>9. SteadyShape(p, P, 0)
  BY <1>4, <1>5, <1>6, <1>7 DEF SteadyShape, Good
<1>10. SentShape(p, P)
  BY <1>4, <1>7, <1>8 DEF SentShape
<1>11. OnePeer(p, P, 0)
  BY <1>3, <1>4, <1>7, <1>8, <1>9, <1>10 DEF OnePeer
<1> QED BY <1>4, <1>7, <1>8, <1>11 DEF P, k

LEMMA InitPair == Windows /\ Init => PairShape
<1> SUFFICES ASSUME Windows, Init PROVE PairShape
  OBVIOUS
<1> DEFINE First(p) == [pri |-> NewKey(0, p = "client", 0), sec |-> NoKey, up |-> NextKeyId(0),
                        sent |-> {}]
           C == First("client")
           S == First("server")
<1>0. "client" \in Side /\ "server" \in Side /\ 0 \in Nat
  BY DEF Side
<1>1. peer["client"] = Flush("client", C, 0) /\ peer["server"] = Flush("server", S, 0) /\ now = 0
  BY <1>0 DEF Init
<1>2. ASSUME NEW p \in Side
      PROVE  /\ OnePeer(p, First(p), 0) /\ ~ Renewing(First(p)) /\ Newest(First(p)) = First(p).pri
             /\ First(p).pri.id = 0 /\ First(p).pri.born = 0 /\ First(p).pri.got = 0
             /\ First(p).pri.acked = 0 /\ First(p).pri.out = 0
  <2>1. (p = "client") \in BOOLEAN /\ ((p = "client") <=> p = "client")
    OBVIOUS
  <2> QED BY <2>1, FirstPeers
<1> HIDE DEF First
<1>3. Coupled(Newest(C), Newest(S), 0)
  BY <1>0, <1>2 DEF Coupled, SameKey
<1>4. TwoPeers(C, S, 0)
  BY <1>0, <1>2, <1>3 DEF TwoPeers, Together
<1> HIDE DEF C, S
<1>5. TwoPeers(Flush("client", C, 0), S, 0)
  BY <1>0, <1>4, PairRound DEF Pair
<1>6. TwoPeers(Flush("client", C, 0), Flush("server", S, 0), 0)
  BY <1>0, <1>5, PairRound DEF Pair
<1> QED BY <1>1, <1>6 DEF PairShape

LEMMA PeerStepPair ==
    ASSUME TypeOK, NEW p \in Side, NEW Q, peer' = [peer EXCEPT ![p] = Q], UNCHANGED <<mode, now>>,
           mode = "prompt" => Pair(p, Q, peer[Other(p)], now)
    PROVE  PairShape'
BY DEF TypeOK, PairShape, Pair, Side, Other

LEMMA PairStep ==
    ASSUME NoLimits, Windows, TypeOK, PairShape, [Next]_vars
    PROVE  PairShape'
<1>0. /\ now \in Nat
      /\ \A p \in Side : mode = "prompt" => Pair(p, peer[p], peer[Other(p)], now)
  BY NowType DEF PairShape, Pair, Side, Other
<1>1. CASE Tick
  <2> SUFFICES ASSUME mode = "prompt" PROVE TwoPeers(peer["client"], peer["server"], now + 1)
    BY <1>1 DEF Tick, PairShape
  <2> DEFINE C == peer["client"]
             S == peer["server"]
  <2>1. TwoPeers(C, S, now)
    BY DEF PairShape
  <2>2. "client" \in Side /\ "server" \in Side /\ Other("client") = "server"
        /\ Other("server") = "client"
    BY DEF Side, Other
  <2>3. OnePeer("client", C, now) /\ OnePeer("server", S, now)
    BY <2>1 DEF TwoPeers
  <2>4. Alive("client") /\ Alive("server") /\ (C.sec # NoKey => C.pri.id # C.sec.id)
    BY <1>0, <2>2, <2>3, OneKeys DEF Alive, Good, Awaits
  <2>5. Settled("client") /\ Settled("server")
    BY <1>1, <2>2 DEF Tick
  <2>6. /\ Round("client", C, now) = C /\ Round("server", S, now) = S
        /\ \A pk \in S.sent : ControlRecv("client", C, pk, now) = C
        /\ \A pk \in C.sent : ControlRecv("server", S, pk, now) = S
    BY <2>2, <2>4, <2>5 DEF Settled, Served
  <2>7. DataLimited /\ C.sec # NoKey /\ Active(C.sec) /\ Active(S.pri) /\ C.sec.id = S.pri.id
           => C.sec.green
    BY <2>2, <2>4, <2>5 DEF Settled, Hears
  <2> QED BY <1>0, <2>1, <2>6, <2>7, PairLater
<1>2. ASSUME NEW p \in Side, Housekeeping(p) PROVE PairShape'
  <2>1. mode = "prompt" => Pair(p, Flush(p, peer[p], now), peer[Other(p)], now)
    BY <1>0, PairRound
  <2> QED BY <1>2, <2>1, PeerStepPair DEF Housekeeping
<1>3. ASSUME NEW p \in Side, Receive(p) PROVE PairShape'
  <2>1. PICK pk \in peer[Other(p)].sent :
            peer' = [peer EXCEPT ![p] = ControlRecv(p, peer[p], pk, now)] /\ UNCHANGED <<mode, now>>
    BY <1>3 DEF Receive
  <2>2. mode = "prompt" => Pair(p, ControlRecv(p, peer[p], pk, now), peer[Other(p)], now)
    BY <1>0, PairControl
  <2> QED BY <2>1, <2>2, PeerStepPair
<1>4. \A p \in Side : \A k : ~ ReachesLimit(p, k)
  BY DEF NoLimits, ReachesLimit
<1>5. ASSUME NEW p \in Side, Decrypt(p) PROVE PairShape'
  <2> DEFINE P == peer[p]
  <2>1. PICK slot \in {"pri", "sec"}, red \in BOOLEAN :
          /\ Hears(p, slot)
          /\ red => ReachesLimit(p, P[slot])
          /\ peer' = [peer EXCEPT ![p] =
                         Flush(p, [P EXCEPT ![slot] = DataLimitAdd(p, @, red, now)], now)]
          /\ UNCHANGED <<mode, now>>
    BY <1>5 DEF Decrypt
  <2>2. red = FALSE
    BY <1>4, <2>1
  <2> DEFINE M == [P EXCEPT ![slot] = DataLimitAdd(p, @, FALSE, now)]
  <2>3. slot = "sec" => P.sec # NoKey /\ peer[Other(p)].pri.id = P.sec.id
    BY <2>1 DEF Hears, Active
  <2>4. mode = "prompt" => Pair(p, M, peer[Other(p)], now)
    BY <1>0, <2>3, PairLimitAdd
  <2>5. peer' = [peer EXCEPT ![p] = Flush(p, M, now)] /\ UNCHANGED <<mode, now>>
    BY <2>1, <2>2
  <2> HIDE DEF M
  <2>6. mode = "prompt" => Pair(p, Flush(p, M, now), peer[Other(p)], now)
    BY <1>0, <2>4, PairRound
  <2> QED BY <2>5, <2>6, PeerStepPair
<1>6. ASSUME NEW p \in Side, KeepaliveTimeout(p) PROVE PairShape'
  BY <1>6 DEF KeepaliveTimeout, PairShape
<1>7. CASE UNCHANGED vars
  BY <1>7 DEF PairShape, vars
<1> QED BY <1>1, <1>2, <1>3, <1>4, <1>5, <1>6, <1>7 DEF Next, Encrypt

LEMMA PairCorrect ==
    ASSUME NoLimits, Windows
    PROVE  Spec => [](TypeOK /\ PairShape)
<1>1. Init => TypeOK /\ PairShape
  BY InitType, InitPair
<1>2. TypeOK /\ PairShape /\ [Next]_vars => (TypeOK /\ PairShape)'
  BY TypeStep, PairStep
<1> QED BY <1>1, <1>2, PTL DEF Spec

--------------------------------------------------------------------------------
(* What the shape of the pair says of the session.                         *)

(* What both ends have come to when nothing is left to arrive.             *)
LEMMA SettledPair ==
    ASSUME Windows, TypeOK, PairShape, mode = "prompt", \A p \in Side : Settled(p)
    PROVE  \A p \in Side : Newest(peer[p]).got = 3
<1> DEFINE C == peer["client"]
           S == peer["server"]
<1>0. "client" \in Side /\ "server" \in Side /\ Other("client") = "server"
      /\ Other("server") = "client"
  BY DEF Side, Other
<1>1. TwoPeers(C, S, now) /\ now \in Nat
  BY NowType DEF PairShape
<1>2. Alive("client") /\ Alive("server")
  BY <1>0, <1>1, OneKeys DEF TwoPeers, Alive, Good, Awaits
<1>3. /\ Round("client", C, now) = C /\ Round("server", S, now) = S
      /\ \A pk \in S.sent : ControlRecv("client", C, pk, now) = C
      /\ \A pk \in C.sent : ControlRecv("server", S, pk, now) = S
  BY <1>0, <1>2 DEF Settled, Served
<1>4. Newest(C).got = 3 /\ Newest(S).got = 3
  BY <1>1, <1>3, Complete
<1> QED BY <1>4 DEF Side

(* A key of which all has been received is active; so is every key but the *)
(* newest one.                                                             *)
LEMMA ActiveKeys ==
    ASSUME Windows, NEW p \in Side, NEW t \in Nat, NEW P, OnePeer(p, P, t)
    PROVE  /\ P.pri.got = 3 => Active(P.pri)
           /\ P.sec # NoKey /\ P.sec.got = 3 => Active(P.sec)
           /\ Renewing(P) => P.sec # NoKey /\ Active(P.pri) /\ Newest(P) = P.sec
           /\ ~ Renewing(P) => Newest(P) = P.pri
           /\ ~ Renewing(P) /\ P.sec # NoKey => Active(P.sec)
<1>1. /\ P.pri \in Key /\ Good(p, P.pri, t)
      /\ P.sec # NoKey => P.sec \in Key /\ Good(p, P.sec, t)
  BY OneKeys
<1>2. ASSUME NEW k \in Key, Good(p, k, t), k.got = 3 PROVE Active(k)
  BY <1>2, NoKeyAssumption DEF Active, Good, Handshake, Awaits
<1>3. Renewing(P) => P.sec # NoKey /\ P.pri.got = 3 /\ Newest(P) = P.sec
  BY RenewingSoon
<1>4. ~ Renewing(P) => Newest(P) = P.pri /\ (P.sec # NoKey => P.sec.got = 3)
  BY <1>1 DEF Renewing, Newest, Good, Handshake, Awaits
<1> QED BY <1>1, <1>2, <1>3, <1>4

(* The key an end transmits on is there, and active, at the other one.     *)
LEMMA TransmitPair ==
    ASSUME Windows, NEW t \in Nat, NEW C, NEW S, TwoPeers(C, S, t)
    PROVE  /\ C.pri.id # 0 \/ Newest(S).got = 3 =>
                \/ S.pri.id = C.pri.id /\ Active(S.pri)
                \/ S.sec # NoKey /\ S.sec.id = C.pri.id /\ Active(S.sec)
           /\ S.pri.id # 0 \/ Newest(C).got = 3 =>
                \/ C.pri.id = S.pri.id /\ Active(C.pri)
                \/ C.sec # NoKey /\ C.sec.id = S.pri.id /\ Active(C.sec)
<1>0. /\ "client" \in Side /\ "server" \in Side
      /\ OnePeer("client", C, t) /\ OnePeer("server", S, t)
  BY DEF Side, TwoPeers
<1>1. /\ C.pri.got = 3 => Active(C.pri)
      /\ C.sec # NoKey /\ C.sec.got = 3 => Active(C.sec)
      /\ Renewing(C) => C.sec # NoKey /\ Active(C.pri) /\ Newest(C) = C.sec
      /\ ~ Renewing(C) => Newest(C) = C.pri
      /\ ~ Renewing(C) /\ C.sec # NoKey => Active(C.sec)
  BY <1>0, ActiveKeys
<1>2. /\ S.pri.got = 3 => Active(S.pri)
      /\ S.sec # NoKey /\ S.sec.got = 3 => Active(S.sec)
      /\ Renewing(S) => S.sec # NoKey /\ Active(S.pri) /\ Newest(S) = S.sec
      /\ ~ Renewing(S) => Newest(S) = S.pri
      /\ ~ Renewing(S) /\ S.sec # NoKey => Active(S.sec)
  BY <1>0, ActiveKeys
<1>3. /\ C.pri \in Key /\ S.pri \in Key /\ Good("client", C.pri, t) /\ Good("server", S.pri, t)
      /\ Newest(C) \in Key /\ Newest(S) \in Key
      /\ Good("client", Newest(C), t) /\ Good("server", Newest(S), t)
  BY <1>0, OneKeys
<1>4. CASE Lagging(C, S, t)
  <2>1. Renewing(C) /\ S.pri.got = 3 /\ SameKey(C.pri, S.pri)
    BY <1>4, LaggingServer DEF Lagging
  <2> QED BY <1>1, <1>2, <2>1 DEF SameKey
<1>5. CASE Together(C, S, t)
  <2>1. /\ SameKey(Newest(C), Newest(S))
        /\ Newest(C).got < 3 \/ Newest(S).got < 3 => t = Newest(C).born
    BY <1>5 DEF Together, Coupled
  <2>2. t >= Newest(C).born + BecomePrimary => Newest(C).got = 3 /\ Newest(S).got = 3
    <3>1. /\ Newest(C).got \in 0..3 /\ Newest(S).got \in 0..3
          /\ Newest(C).born \in Nat /\ BecomePrimary \in Nat /\ BecomePrimary > 0
      BY <1>0, <1>3, KeyNat, TimesNat DEF Good, Handshake
    <3> QED BY <2>1, <3>1
  <2>3. CASE Renewing(C) /\ Renewing(S)
    <3>1. SameKey(C.pri, S.pri)
      BY <1>5, <2>3 DEF Together
    <3> QED BY <1>1, <1>2, <2>3, <3>1 DEF SameKey
  <2>4. CASE Renewing(C) /\ ~ Renewing(S)
    <3>1. S.sec # NoKey /\ SameKey(C.pri, S.sec) /\ t >= C.sec.born + BecomePrimary
      BY <1>5, <2>4 DEF Together
    <3>2. C.sec.got = 3 /\ C.sec.id = S.pri.id
      BY <1>1, <1>2, <2>1, <2>2, <2>4, <3>1 DEF SameKey
    <3> QED BY <1>1, <1>2, <2>4, <3>1, <3>2 DEF SameKey
  <2>5. CASE ~ Renewing(C) /\ Renewing(S)
    <3>1. C.sec # NoKey /\ SameKey(C.sec, S.pri) /\ t >= S.sec.born + BecomePrimary
      BY <1>5, <2>5 DEF Together
    <3>2. S.sec.got = 3 /\ S.sec.id = C.pri.id
      BY <1>1, <1>2, <2>1, <2>2, <2>5, <3>1 DEF SameKey
    <3> QED BY <1>1, <1>2, <2>5, <3>1, <3>2 DEF SameKey
  <2>6. CASE ~ Renewing(C) /\ ~ Renewing(S)
    <3>1. SteadyShape("client", C, t) /\ SteadyShape("server", S, t)
      BY <1>0, <2>6 DEF OnePeer
    <3>2. /\ C.pri.id # 0 => C.pri.got = 3
          /\ S.pri.id # 0 => S.pri.got = 3
      BY <1>3, <3>1 DEF SteadyShape, Good, Handshake, Awaits
    <3> QED BY <1>1, <1>2, <2>1, <2>6, <3>2 DEF SameKey
  <2> QED BY <2>3, <2>4, <2>5, <2>6
<1> QED BY <1>4, <1>5 DEF TwoPeers

(* The next key is always there before an event would end the session:     *)
(* KEV_EXPIRE without a secondary, KEV_NEGOTIATE of a handshake that takes *)
(* too long, KEV_PRIMARY_PENDING (process_primary_event).                  *)
THEOREM SurvivesCorrect ==
    ASSUME NoLimits, Windows
    PROVE  Spec => []SessionSurvives
<1>1. TypeOK /\ PairShape => SessionSurvives
  <2> SUFFICES ASSUME TypeOK, PairShape, mode = "prompt", NEW p \in Side PROVE Alive(p)
    BY DEF SessionSurvives
  <2>1. OnePeer(p, peer[p], now) /\ now \in Nat
    BY NowType DEF PairShape, TwoPeers, Side
  <2> QED BY <2>1, OneKeys DEF Alive, Good, Awaits
<1> QED BY <1>1, PairCorrect, PTL

(* No handshake gets stuck, whether the key is the first one, renegotiated *)
(* or requested by the other end: as long as a key of either end is not    *)
(* active, a packet is on its way that changes it (post_ack_action,        *)
(* raw_recv, app_recv).                                                    *)
THEOREM CompletesCorrect ==
    ASSUME NoLimits, Windows
    PROVE  Spec => []NegotiationCompletes
<1>1. TypeOK /\ PairShape => NegotiationCompletes
  <2> SUFFICES ASSUME TypeOK, PairShape, mode = "prompt", \A p \in Side : Settled(p),
                      NEW p \in Side, NEW k \in Keys(p)
               PROVE  k.st = "active"
    BY DEF NegotiationCompletes
  <2> DEFINE P == peer[p]
  <2>1. OnePeer(p, P, now) /\ now \in Nat
    BY NowType DEF PairShape, TwoPeers, Side
  <2>2. Newest(P).got = 3
    BY SettledPair
  <2>3. Active(P.pri) /\ (P.sec # NoKey => Active(P.sec))
    BY <2>1, <2>2, ActiveKeys
  <2> QED BY <2>3 DEF Keys, Active
<1> QED BY <1>1, PairCorrect, PTL

(* The two ends count the key ids alike, the wrap from KEY_ID_MASK to 1    *)
(* included: a request bears the id the other end expects next or already  *)
(* negotiates (PacketType, next_key_id).                                   *)
THEOREM RequestCorrect ==
    ASSUME NoLimits, Windows
    PROVE  Spec => []RequestUnderstood
<1>1. TypeOK /\ PairShape => RequestUnderstood
  <2> SUFFICES ASSUME TypeOK, PairShape, mode = "prompt", NEW p \in Side, peer[p].sec # NoKey
               PROVE  /\ peer[p].sec.id # peer[p].pri.id
                      /\ peer[p].sec.st = "waitReset" =>
                            peer[p].sec.id \in {peer[Other(p)].up} \cup {k.id : k \in Keys(Other(p))}
    BY DEF RequestUnderstood
  <2> DEFINE P == peer[p]
             O == peer[Other(p)]
  <2>1. OnePeer(p, P, now) /\ now \in Nat /\ Pair(p, P, O, now)
    BY NowType DEF PairShape, Pair, TwoPeers, Side, Other
  <2>2. P.sec.id # P.pri.id /\ Good(p, P.sec, now)
    BY <2>1, OneKeys
  <2>3. ASSUME P.sec.st = "waitReset" PROVE P.sec.id \in {O.up} \cup {k.id : k \in Keys(Other(p))}
    <3>1. Renewing(P) /\ Newest(P) = P.sec
      BY <2>2, <2>3 DEF Renewing, Newest, Good, Handshake, Awaits
    <3>2. Newest(O) \in Keys(Other(p))
      BY DEF Newest, Renewing, Keys
    <3>3. CASE p = "client"
      <4>1. TwoPeers(P, O, now)
        BY <2>1, <3>3 DEF Pair
      <4>2. CASE Together(P, O, now)
        BY <3>1, <3>2, <4>2 DEF Together, Coupled, SameKey
      <4>3. CASE Lagging(P, O, now)
        BY <2>1, <4>1, <4>3, LaggingServer
      <4> QED BY <4>1, <4>2, <4>3 DEF TwoPeers
    <3>4. CASE p = "server"
      <4>1. Together(O, P, now)
        BY <2>1, <3>1, <3>4 DEF Pair, TwoPeers, Lagging
      <4> QED BY <3>1, <3>2, <4>1 DEF Together, Coupled, SameKey
    <3> QED BY <3>3, <3>4 DEF Side
  <2> QED BY <2>2, <2>3
<1> QED BY <1>1, PairCorrect, PTL

(* The other end can always decrypt what an end transmits: neither of them *)
(* promotes a key, wipes a secondary or expires a key before the other one *)
(* has it (promote_secondary_to_primary, new_secondary_key, KEV_EXPIRE).   *)
THEOREM TransmitCorrect ==
    ASSUME NoLimits, Windows
    PROVE  Spec => []TransmitUnderstood
<1>1. TypeOK /\ PairShape => TransmitUnderstood
  <2> SUFFICES ASSUME TypeOK, PairShape, mode = "prompt", NEW p \in Side,
                      peer[p].pri.id # 0 \/ \A s \in Side : Settled(s)
               PROVE  \E k \in Keys(Other(p)) : k.id = peer[p].pri.id /\ Active(k)
    BY DEF TransmitUnderstood
  <2> DEFINE P == peer[p]
             O == peer[Other(p)]
  <2>1. Pair(p, P, O, now) /\ now \in Nat /\ Other(p) \in Side
    BY NowType DEF PairShape, Pair, Side, Other
  <2>2. P.pri.id # 0 \/ Newest(O).got = 3
    BY <2>1, SettledPair
  <2>3. \/ O.pri.id = P.pri.id /\ Active(O.pri)
        \/ O.sec # NoKey /\ O.sec.id = P.pri.id /\ Active(O.sec)
    BY <2>1, <2>2, TransmitPair DEF Pair
  <2> QED BY <2>3 DEF Keys
<1> QED BY <1>1, PairCorrect, PTL
=============================================================================
