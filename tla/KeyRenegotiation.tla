---------------------------- MODULE KeyRenegotiation ----------------------------
(***************************************************************************)
(* The keys of an OpenVPN session: ProtoContext and KeyContext of          *)
(* openvpn/ssl/proto.hpp, a client and a server of this code.  Each has a  *)
(* primary key, on which it transmits, and at times a secondary one, which *)
(* is being negotiated or is being retired; a key is negotiated over the   *)
(* reliable control channel (ReliableLink), promoted, renegotiated and     *)
(* expired by timers.                                                      *)
(*                                                                         *)
(* A handler is a function from a peer to a peer: net_recv, the flush that *)
(* follows it and every event that is due are one action.  TLS is three    *)
(* messages: the client's hello, the server's, and the end of the          *)
(* handshake that carries the authentication (external: the SSL library).  *)
(* The clock is discrete; a timer is served in the tick it falls due.      *)
(***************************************************************************)
EXTENDS Integers, Sequences

CONSTANTS
    NoKey,
    HandshakeWindow,  \* config.handshake_window
    BecomePrimary,    \* config.become_primary
    Renegotiate,      \* config.renegotiate of each peer
    Expire,           \* config.expire of each peer
    DataLimited,      \* the cipher has 64-bit blocks: DataLimit is on
    KeyIdMask,        \* KEY_ID_MASK: 7
    LimitedKeys,      \* bound: the ids of the keys that may reach a limit at each peer
    EarlyLimits,      \* a limit is reached while the key waits for KEV_BECOME_PRIMARY, too
    Modes,            \* the networks there may be: see mode
    MaxTime           \* bound: the clock of each mode

ASSUME WindowAssumption == HandshakeWindow \in Nat \ {0} /\ BecomePrimary \in Nat
ASSUME MaskAssumption == KeyIdMask \in Nat \ {0}
ASSUME TimesAssumption ==
    Renegotiate \in [{"client", "server"} -> Nat] /\ Expire \in [{"client", "server"} -> Nat]
ASSUME LimitAssumption ==
    /\ {DataLimited, EarlyLimits} \subseteq BOOLEAN
    /\ LimitedKeys \in [{"client", "server"} -> SUBSET (0..KeyIdMask)]
ASSUME KeyModesAssumption ==
    Modes \subseteq {"prompt", "lossy"} /\ MaxTime \in [{"prompt", "lossy"} -> Nat]

VARIABLES
    mode,  \* "prompt": whatever was sent arrives before the next tick;
           \* "lossy": packets are lost, late, repeated, out of order
    now,
    peer   \* the two ends, see Peer

vars == <<mode, now, peer>>

Side == {"client", "server"}
Other(p) == IF p = "client" THEN "server" ELSE "client"
Never == MaxTime["prompt"] + MaxTime["lossy"] + 1  \* Time::infinite()

State == {"initial", "waitReset", "waitResetAck", "waitAuth", "waitAuthAck", "active"}
Event == {"none", "active", "negotiate", "becomePrimary", "primaryPending", "renegotiate",
          "renegotiateForce", "renegotiateQueue", "expire"}
Message == {"reset", "hello", "auth", "ack"}

Key == [id : 0..KeyIdMask, st : State,
        cur : Event, next : Event, at : Nat,          \* current_event, next_event(_time)
        born : Nat,                                   \* construct_time
        fired : BOOLEAN, green : BOOLEAN,             \* key_limit_renegotiation_fired, DataLimit
        valid : BOOLEAN,                              \* ~ invalidated()
        queue : Seq(Message), out : Nat, acked : Nat, \* to send; sent; acknowledged
        got : Nat]                                    \* received

ASSUME NoKeyAssumption == NoKey \notin Key

(* ack stands for the acknowledgement of the first so many packets.        *)
Packet == [kid : 0..KeyIdMask, n : Nat, msg : Message, ack : Nat]

Peer == [pri : Key, sec : Key \cup {NoKey}, up : 0..KeyIdMask,  \* upcoming_key_id
         sent : SUBSET Packet]                                  \* what may still arrive of it

(* Also: a key id fits its three bits.                                     *)
TypeOK ==
    /\ mode \in Modes
    /\ now \in 0..MaxTime[mode]
    /\ peer \in [Side -> Peer]

--------------------------------------------------------------------------------
(* KeyContext                                                              *)

SetEvent(k, cur, next, at) == [k EXCEPT !.cur = cur, !.next = next, !.at = at]

Invalidate(k) == IF k.valid THEN [SetEvent(k, k.cur, "none", Never) EXCEPT !.valid = FALSE] ELSE k

(* The constructor, and start() of an initiator.                           *)
NewKey(id, initiator, t) ==
    [id |-> id, st |-> "waitReset",
     cur |-> "none", next |-> "negotiate", at |-> t + HandshakeWindow, born |-> t,
     fired |-> FALSE, green |-> FALSE, valid |-> TRUE,
     queue |-> IF initiator THEN <<"reset">> ELSE <<>>, out |-> 0, acked |-> 0,
     got |-> 0]

(* Defect: the transition window starts at the event.                      *)
MutExpireFromNow(p, k, cur, t) == SetEvent(k, cur, "expire", t + Expire[p])

PrepareExpire(p, k, cur, t) ==
    SetEvent(k, cur, "expire", IF k.fired THEN t + 2 * HandshakeWindow ELSE k.born + Expire[p])

(* Defect: the time of the event it replaces is kept.                      *)
MutKeepTime(p, k, ev, t) == SetEvent(k, "none", ev, k.at)

(* key_limit_reneg                                                         *)
KeyLimitReneg(p, k, ev, t) == SetEvent(k, "none", ev, t + (IF p = "server" THEN 2 ELSE 1))

ScheduleKeyLimit(p, k, t) ==
    IF k.fired \/ k.st # "active" \/ ~ k.valid THEN k
    ELSE LET f == [k EXCEPT !.fired = TRUE] IN
         IF f.next = "becomePrimary" THEN [f EXCEPT !.cur = "renegotiateQueue"]
         ELSE KeyLimitReneg(p, f, "renegotiate", t)

(* data_limit_add of a packet that was decrypted: the first one, or the    *)
(* one that exceeds the limit.                                             *)
DataLimitAdd(p, k, red, t) ==
    LET g == [k EXCEPT !.green = TRUE]
        r == IF red THEN ScheduleKeyLimit(p, g, t) ELSE g
    IN  IF r.next = "primaryPending" THEN SetEvent(r, "none", "becomePrimary", t + 1) ELSE r

DataLimitDefer(p, k) == p = "client" /\ DataLimited /\ k.id # 0 /\ ~ k.green

(* event_pending with process_next_event and kev_error                     *)
EventPending(p, k, t) ==
    IF k.cur # "none" \/ t < k.at THEN k
    ELSE CASE k.next = "becomePrimary" ->
                IF DataLimitDefer(p, k)
                THEN SetEvent(k, "none", "primaryPending", t + 2 * HandshakeWindow)
                ELSE SetEvent(k, "becomePrimary", "renegotiate", k.born + Renegotiate[p])
           [] k.next \in {"renegotiate", "renegotiateForce"} -> PrepareExpire(p, k, k.next, t)
           [] k.next \in {"negotiate", "primaryPending", "expire"} ->
                [Invalidate(k) EXCEPT !.cur = k.next]
           [] OTHER -> k

Queued(k, m) == [k EXCEPT !.queue = Append(@, m)]
To(k, st) == [k EXCEPT !.st = st]

(* raw_recv and app_recv, with what the SSL library answers.               *)
MessageRecv(p, k, m) ==
    CASE m = "reset" /\ k.st = "waitReset" ->
            To(IF p = "server" THEN Queued(k, "reset") ELSE k, "waitResetAck")
      [] m = "hello" /\ k.st = "waitAuth" -> Queued(k, IF p = "server" THEN "hello" ELSE "auth")
      [] m = "auth" /\ k.st = "waitAuth" ->
            To(IF p = "server" THEN Queued(k, "auth") ELSE k, "waitAuthAck")
      [] OTHER -> k

(* net_recv: the acknowledgements first, then the message if it is the     *)
(* next one.                                                               *)
NetRecv(p, k, pk) ==
    LET a == [k EXCEPT !.acked = IF pk.ack > @ THEN pk.ack ELSE @]
    IN  IF ~ k.valid THEN k
        ELSE IF pk.n = k.got + 1 THEN MessageRecv(p, [a EXCEPT !.got = @ + 1], pk.msg)
        ELSE a

(* Defects: the client never starts the handshake; a key that becomes      *)
(* active keeps its KEV_NEGOTIATE.                                         *)
MutNoStart(p, k, t) ==
    CASE k.acked = k.out /\ k.st = "waitResetAck" -> To(k, "waitAuth")
      [] k.acked = k.out /\ k.st = "waitAuthAck" ->
            SetEvent(To(k, "active"), "active", "becomePrimary", t + BecomePrimary)
      [] OTHER -> k
MutNegotiateStays(p, k, t) ==
    CASE k.acked = k.out /\ k.st = "waitResetAck" ->
            To(IF p = "client" THEN Queued(k, "hello") ELSE k, "waitAuth")
      [] k.acked = k.out /\ k.st = "waitAuthAck" -> [To(k, "active") EXCEPT !.cur = "active"]
      [] OTHER -> k

(* post_ack_action comes before the queue is sent and looks at what has    *)
(* been sent; start_handshake makes the client's hello.                    *)
PostAckAction(p, k, t) ==
    IF k.acked # k.out THEN k
    ELSE CASE k.st = "waitResetAck" -> To(IF p = "client" THEN Queued(k, "hello") ELSE k, "waitAuth")
           [] k.st = "waitAuthAck" ->
                SetEvent(To(k, "active"), "active", "becomePrimary", t + BecomePrimary)
           [] OTHER -> k

(* The packets flush sends: the queue, each with the acknowledgements, or  *)
(* these alone.                                                            *)
Packets(k) ==
    IF ~ k.valid THEN {}
    ELSE IF k.queue # <<>>
    THEN {[kid |-> k.id, n |-> k.out + i, msg |-> k.queue[i], ack |-> k.got] : i \in 1..Len(k.queue)}
    ELSE IF k.got > 0 THEN {[kid |-> k.id, n |-> 0, msg |-> "ack", ack |-> k.got]} ELSE {}

FlushedKey(k) == [k EXCEPT !.out = @ + (IF k.valid THEN Len(k.queue) ELSE 0), !.queue = <<>>]

--------------------------------------------------------------------------------
(* ProtoContext                                                            *)

(* next_key_id: 0 is the first key's and never comes again.                *)
NextKeyId(id) == IF (id + 1) % (KeyIdMask + 1) = 0 THEN 1 ELSE (id + 1) % (KeyIdMask + 1)

(* Defect: a key the peer requested takes its id and does not use it up.   *)
MutIdNotUsed(P, initiator, t) ==
    [P EXCEPT !.sec = NewKey(P.up, initiator, t), !.up = IF initiator THEN NextKeyId(@) ELSE @,
              !.sent = {k \in @ : k.kid \in {P.pri.id}}]

(* new_secondary_key, and renegotiate() for an initiator.  Packets of keys *)
(* older than those at hand no longer arrive: ids are used again.          *)
NewSecondaryKey(P, initiator, t) ==
    LET kept == {P.pri.id} \cup (IF P.sec = NoKey THEN {} ELSE {P.sec.id})
    IN  [P EXCEPT !.sec = NewKey(P.up, initiator, t), !.up = NextKeyId(@),
                  !.sent = {k \in @ : k.kid \in kept \ {P.up}}]

(* Defect: the old primary is dropped at once.                             *)
MutPromoteDrops(p, P, t) == [P EXCEPT !.pri = P.sec, !.sec = NoKey]

Promote(p, P, t) ==
    [P EXCEPT !.pri = P.sec, !.sec = PrepareExpire(p, P.pri, "none", t)]

Disconnect(P) ==
    [P EXCEPT !.pri = Invalidate(@), !.sec = IF @ = NoKey THEN @ ELSE Invalidate(@)]

(* set_next_event_if_unspecified                                           *)
Specified(p, k, t) ==
    IF k # NoKey /\ k.next = "none" /\ k.valid THEN PrepareExpire(p, k, "none", t) ELSE k

ProcessPrimaryEvent(p, P, t) ==
    LET k == EventPending(p, P.pri, t)
        Q == [P EXCEPT !.pri = [k EXCEPT !.cur = "none"]]
        R == CASE k.cur \in {"renegotiate", "renegotiateForce"} -> NewSecondaryKey(Q, TRUE, t)
               [] k.cur = "expire" /\ P.sec # NoKey /\ P.sec.valid -> Promote(p, Q, t)
               [] k.cur = "expire" /\ ~ (P.sec # NoKey /\ P.sec.valid) -> Disconnect(Q)
               [] k.cur = "negotiate" -> Disconnect(Q)
               [] OTHER -> Q
    IN  IF k.cur = "none" THEN [P EXCEPT !.pri = k] ELSE [R EXCEPT !.pri = Specified(p, @, t)]

ProcessSecondaryEvent(p, P, t) ==
    LET k == EventPending(p, P.sec, t)
        Q == [P EXCEPT !.sec = [k EXCEPT !.cur = "none"]]
        R == CASE k.cur = "active" -> [Q EXCEPT !.pri = PrepareExpire(p, @, "none", t)]
               [] k.cur = "becomePrimary" /\ k.valid -> Promote(p, Q, t)
               [] k.cur = "expire" -> [Q EXCEPT !.sec = NoKey]
               [] k.cur = "renegotiateQueue" /\ k.next = "becomePrimary" ->
                     [Q EXCEPT !.pri = KeyLimitReneg(p, @, "renegotiateForce", k.at)]
               [] k.cur \in {"negotiate", "primaryPending", "renegotiateForce"} ->
                     NewSecondaryKey(Q, TRUE, t)
               [] OTHER -> Q
    IN  IF P.sec = NoKey THEN P
        ELSE IF k.cur = "none" THEN [P EXCEPT !.sec = k]
        ELSE [R EXCEPT !.sec = Specified(p, @, t)]

FlushKeys(p, P, t) ==
    LET pri == PostAckAction(p, P.pri, t)
        sec == IF P.sec = NoKey THEN NoKey ELSE PostAckAction(p, P.sec, t)
    IN  [P EXCEPT !.pri = FlushedKey(pri),
                  !.sec = IF sec = NoKey THEN NoKey ELSE FlushedKey(sec),
                  !.sent = @ \cup Packets(pri) \cup (IF sec = NoKey THEN {} ELSE Packets(sec))]

(* Defect: the events of a secondary wait until it is active.              *)
MutSecondaryWaits(p, P, t) ==
    LET Q == ProcessPrimaryEvent(p, FlushKeys(p, P, t), t)
    IN  IF Q.sec # NoKey /\ Q.sec.st # "active" THEN Q ELSE ProcessSecondaryEvent(p, Q, t)

(* flush(true): its loop ends when no event is left; three rounds do.      *)
Round(p, P, t) == ProcessSecondaryEvent(p, ProcessPrimaryEvent(p, FlushKeys(p, P, t), t), t)
Flush(p, P, t) == Round(p, Round(p, Round(p, P, t), t), t)

(* PacketType: whose packet it is.  control_net_recv: a soft reset with    *)
(* the upcoming id is a request to renegotiate.                            *)
PacketKey(P, pk) ==
    CASE pk.kid = P.pri.id -> "primary"
      [] pk.kid # P.pri.id /\ P.sec # NoKey /\ pk.kid = P.sec.id -> "secondary"
      [] pk.kid \notin {P.pri.id} \cup (IF P.sec = NoKey THEN {} ELSE {P.sec.id})
            /\ pk.msg = "reset" /\ pk.kid = P.up -> "request"
      [] OTHER -> "undefined"

ControlRecv(p, P, pk, t) ==
    LET N == NewSecondaryKey(P, FALSE, t) IN
    CASE PacketKey(P, pk) = "primary" -> Flush(p, [P EXCEPT !.pri = NetRecv(p, @, pk)], t)
      [] PacketKey(P, pk) = "secondary" -> Flush(p, [P EXCEPT !.sec = NetRecv(p, @, pk)], t)
      [] PacketKey(P, pk) = "request" -> Flush(p, [N EXCEPT !.sec = NetRecv(p, @, pk)], t)
      [] OTHER -> P

--------------------------------------------------------------------------------
Alive(p) == peer[p].pri.valid

Active(k) == k # NoKey /\ k.st = "active" /\ k.valid

Init ==
    /\ mode \in Modes
    /\ now = 0
    /\ peer = [p \in Side |->
          LET P == [pri |-> NewKey(0, p = "client", 0), sec |-> NoKey, up |-> NextKeyId(0), sent |-> {}]
          IN  Flush(p, P, 0)]

(* The key in slot decrypts what the other end transmits.                  *)
Hears(p, slot) ==
    /\ Alive(p) /\ Alive(Other(p))
    /\ Active(peer[Other(p)].pri) /\ Active(peer[p][slot])
    /\ peer[p][slot].id = peer[Other(p)].pri.id
    /\ slot = "sec" => peer[p].pri.id # peer[p].sec.id

(* The loop of flush(true) has come to its end.                            *)
Served(p) == Round(p, peer[p], now) = peer[p]

(* No event is due, and nothing that was sent would change anything: the   *)
(* keepalives bring a packet of data on every key.                         *)
Settled(p) ==
    Alive(p) => /\ Served(p)
                /\ \A pk \in peer[Other(p)].sent : ControlRecv(p, peer[p], pk, now) = peer[p]
                /\ DataLimited => \A slot \in {"pri", "sec"} :
                      Hears(p, slot) => peer[p][slot].green

Tick ==
    /\ now < MaxTime[mode]
    /\ \A p \in Side : IF mode = "prompt" THEN Settled(p) ELSE Alive(p) => Served(p)
    /\ now' = now + 1
    /\ UNCHANGED <<mode, peer>>

Housekeeping(p) ==
    /\ Alive(p)
    /\ ~ Served(p)
    /\ peer' = [peer EXCEPT ![p] = Flush(p, @, now)]
    /\ UNCHANGED <<mode, now>>

Receive(p) == \E pk \in peer[Other(p)].sent :
    /\ Alive(p)
    /\ ControlRecv(p, peer[p], pk, now) # peer[p]
    /\ peer' = [peer EXCEPT ![p] = ControlRecv(p, @, pk, now)]
    /\ UNCHANGED <<mode, now>>

(* encrypt or decrypt finds that the key has reached a limit.              *)
ReachesLimit(p, k) ==
    k.id \in LimitedKeys[p] /\ Active(k) /\ ~ k.fired /\ (EarlyLimits \/ k.next # "becomePrimary")

(* data_encrypt: the packet ids of the primary run out, or its data limit  *)
(* is exceeded.                                                            *)
Encrypt(p) ==
    /\ Alive(p)
    /\ ReachesLimit(p, peer[p].pri)
    /\ LET P == peer[p] IN
       peer' = [peer EXCEPT ![p] = Flush(p, [P EXCEPT !.pri = ScheduleKeyLimit(p, @, now)], now)]
    /\ UNCHANGED <<mode, now>>

(* data_decrypt of what the other end sends on its primary.  The limit of  *)
(* what was received comes after the first packet; with the first one, on  *)
(* a primary, the limit of what was sent, which has waited for it.         *)
Decrypt(p) == \E slot \in {"pri", "sec"}, red \in BOOLEAN :
    /\ DataLimited /\ Hears(p, slot)
    /\ red => ReachesLimit(p, peer[p][slot]) /\ (peer[p][slot].green \/ slot = "pri")
    /\ ~ red => ~ peer[p][slot].green
    /\ LET P == peer[p] IN
       peer' = [peer EXCEPT ![p] = Flush(p, [P EXCEPT ![slot] = DataLimitAdd(p, @, red, now)], now)]
    /\ UNCHANGED <<mode, now>>

(* keepalive_housekeeping: nothing was received for too long.              *)
KeepaliveTimeout(p) ==
    /\ mode = "lossy" /\ Alive(p)
    /\ peer' = [peer EXCEPT ![p] = Disconnect(@)]
    /\ UNCHANGED <<mode, now>>

Next ==
    \/ Tick
    \/ \E p \in Side :
          \/ Housekeeping(p)
          \/ Receive(p)
          \/ Encrypt(p)
          \/ Decrypt(p)
          \/ KeepaliveTimeout(p)

Spec == Init /\ [][Next]_vars

--------------------------------------------------------------------------------
Keys(p) == {peer[p].pri} \cup (IF peer[p].sec = NoKey THEN {} ELSE {peer[p].sec})

(* Whatever an end transmits on its primary the other end can decrypt: it  *)
(* promotes a key, wipes a secondary and expires a key only when the other *)
(* end has made up its mind, too (promote_secondary_to_primary, new_       *)
(* secondary_key, KEV_EXPIRE).  The first key is excused until its         *)
(* handshake is over, and the secondary that a key limit wipes.            *)
TransmitUnderstood ==
    mode = "prompt" => \A p \in Side :
        /\ Active(peer[p].pri) /\ Alive(Other(p))
        /\ peer[p].pri.id # 0 \/ \A s \in Side : Settled(s)
        /\ \A s \in Side : \A k \in Keys(s) : ~ k.fired
        => \E k \in Keys(Other(p)) : k.id = peer[p].pri.id /\ Active(k)

(* Where every packet arrives no timer ends a session: the next key is     *)
(* always there before KEV_EXPIRE, KEV_NEGOTIATE or KEV_PRIMARY_PENDING    *)
(* (process_primary_event), whatever limits are reached.                   *)
SessionSurvives == mode = "prompt" => \A p \in Side : Alive(p)

(* No handshake gets stuck: when nothing is left to arrive, each key of    *)
(* both ends is active, a renegotiated one and one requested by the peer   *)
(* included (post_ack_action, raw_recv, app_recv).                         *)
NegotiationCompletes ==
    mode = "prompt" /\ (\A p \in Side : Settled(p)) =>
        \A p \in Side : \A k \in Keys(p) : k.st = "active"

(* The two ends count the key ids alike, round the wrap from KEY_ID_MASK   *)
(* to 1 included: a request of one carries the id the other one expects or *)
(* already negotiates (PacketType, next_key_id), and never the id of the   *)
(* key still in use.                                                       *)
RequestUnderstood ==
    mode = "prompt" => \A p \in Side : peer[p].sec # NoKey =>
        /\ peer[p].sec.id # peer[p].pri.id
        /\ peer[p].sec.st = "waitReset" =>
              peer[p].sec.id \in {peer[Other(p)].up} \cup {k.id : k \in Keys(Other(p))}

(* A handshake is over, one way or the other, within the handshake window, *)
(* lost packets or not: no event but KEV_EXPIRE wipes the KEV_NEGOTIATE of *)
(* a key.  (A key that was promoted because the old primary expired is     *)
(* retired like any other, its handshake over or not.)                     *)
NegotiatesInTime ==
    \A p \in Side : Alive(p) /\ Served(p) => \A k \in Keys(p) :
        k.valid /\ k.st # "active" /\ k.next # "expire" => now < k.born + HandshakeWindow

(* The latest that the next event of a key can come: a key is negotiated,  *)
(* renegotiated and expired by its age; it waits to become the primary, or *)
(* to be replaced after it has reached its limit, from the present on.     *)
NextEventBy(p, k) ==
    CASE k.fired -> now + 2 * HandshakeWindow
      [] ~ k.fired /\ k.next = "becomePrimary" -> now + BecomePrimary + 1
      [] ~ k.fired /\ k.next = "primaryPending" -> now + 2 * HandshakeWindow
      [] ~ k.fired /\ k.next = "negotiate" -> k.born + HandshakeWindow
      [] ~ k.fired /\ k.next = "renegotiate" -> k.born + Renegotiate[p]
      [] OTHER -> k.born + Expire[p]

(* No key is without an end: the events that replace one another in the    *)
(* one slot of a key always leave one to come, and not later than by the   *)
(* key's age or from the present on (process_next_event, prepare_expire,   *)
(* key_limit_reneg).                                                       *)
KeyLifetime ==
    \A p \in Side : Alive(p) /\ Served(p) => \A k \in Keys(p) :
        k.valid => k.next # "none" /\ now < k.at /\ k.at <= NextEventBy(p, k)

(* A key that has reached its limit is about to be replaced as soon as it  *)
(* is the primary: schedule_key_limit_renegotiation, "If primary,          *)
(* renegotiate now (within a second or two). If secondary, queue the       *)
(* renegotiation request until key reaches primary".                       *)
LimitHonoured ==
    \A p \in Side : LET k == peer[p].pri IN
        Alive(p) /\ k.fired =>
            \/ k.next = "expire"
            \/ k.next \in {"renegotiate", "renegotiateForce"} /\ k.at <= now + 2

--------------------------------------------------------------------------------
(* The strengthening that makes the last three inductive, where no limit   *)
(* is reached early.                                                       *)

(* The event a key waits for, by what has become of the key.               *)
KeyShape(p, k, t) ==
    /\ k.cur # "renegotiateQueue"
    /\ k.fired => k.st = "active"
    /\ k.valid /\ k.fired =>
          \/ k.next = "expire" /\ k.at <= t + 2 * HandshakeWindow
          \/ k.next \in {"renegotiate", "renegotiateForce"} /\ k.at <= t + 2
    /\ k.valid /\ ~ k.fired =>
          \/ k.next = "negotiate" /\ k.st # "active" /\ k.at = k.born + HandshakeWindow
          \/ k.next = "becomePrimary" /\ k.st = "active" /\ k.at <= t + BecomePrimary + 1
          \/ k.next = "primaryPending" /\ k.st = "active" /\ k.at <= t + 2 * HandshakeWindow
          \/ k.next = "renegotiate" /\ k.st = "active" /\ k.at = k.born + Renegotiate[p]
          \/ k.next = "expire" /\ k.at = k.born + Expire[p]

PeerShape(p, P, t) ==
    /\ KeyShape(p, P.pri, t)
    /\ P.sec # NoKey => KeyShape(p, P.sec, t)

KeysShape == ~ EarlyLimits => \A p \in Side : PeerShape(p, peer[p], now)
=============================================================================
