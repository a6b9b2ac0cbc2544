-------------------------------- MODULE PacketId --------------------------------
(***************************************************************************)
(* Packet ids of OpenVPN (crypto/packet_id.hpp): PacketIDSend at one end   *)
(* numbers the packets of a key or of a wrapped control channel, and       *)
(* PacketIDReceive at the other refuses those it has accepted, by a ring   *)
(* of bits for the last ids and a floor that rises after a silence.        *)
(*                                                                         *)
(* The data channel ("short") has ids alone and one call of test_add; the  *)
(* control channel ("long") also has the second at which its ids began,    *)
(* and calls test_add twice: before the packet is looked at, without a     *)
(* trace in the ring, and again when the reliability layer takes it.       *)
(* Packets are authentic: a packet that fails the HMAC comes no further.   *)
(* The network between the two loses, repeats and reorders packets.        *)
(***************************************************************************)
EXTENDS Integers

CONSTANTS
    WindowSize,  \* REPLAY_WINDOW_SIZE: 2048
    Expire,      \* PKTID_RECV_EXPIRE: 30 seconds
    IdRange,     \* the number of values of id_t: 2^32
    Forms,       \* the forms of packet ids there may be: see form
    MaxTime      \* bound: the clock

ASSUME WindowSizeAssumption == WindowSize \in Nat \ {0}
ASSUME ExpireAssumption == Expire \in Nat \ {0}
ASSUME IdRangeAssumption == IdRange \in Nat \ {0, 1}
ASSUME FormsAssumption == Forms \subseteq {"short", "long"}
ASSUME MaxTimeAssumption == MaxTime \in Nat \ {0}

VARIABLES
    form,      \* "short": the data channel; "long": the control channel
    now,       \* seconds_since_epoch, of both ends
    pid,       \* pid_ of the sender: the last id it used, and since when it counts
    wrapped,   \* next has thrown packet_id_wrap: the session is over
    sent,      \* the packets sent: each may arrive, and arrive again
    recv,      \* the receiver
    accepted   \* history: the packets the receiver has accepted

packetVars == <<form, now, pid, wrapped, sent, recv, accepted>>

Id == 0..IdRange-1
Packet == [time : Nat, id : Id]

Receiver == [base : 0..WindowSize-1, extent : 0..WindowSize, expire : Nat,
             idHigh : Id, timeHigh : Nat, idFloor : Id,
             history : SUBSET (0..WindowSize-1)]  \* the bits that are set

PacketTypeOK ==
    /\ form \in Forms
    /\ now \in 1..MaxTime
    /\ pid \in Packet
    /\ wrapped \in BOOLEAN
    /\ sent \subseteq Packet
    /\ recv \in Receiver
    /\ accepted \subseteq sent

PacketInit ==
    /\ form \in Forms
    /\ now = 1
    /\ pid = [time |-> 0, id |-> 0]
    /\ wrapped = FALSE
    /\ sent = {}
    /\ recv = [base |-> 0, extent |-> 0, expire |-> 0, idHigh |-> 0, timeHigh |-> 0,
               idFloor |-> 0, history |-> {}]
    /\ accepted = {}

-----------------------------------------------------------------------------
(* PacketIDSend                                                            *)

(* Mutant: ids that wrapped count from the same second.                    *)
MutTimeKept == pid.time

(* When the ids of the next packet began.                                  *)
SinceWhen == IF pid.time = 0 \/ pid.id = IdRange - 1 THEN now ELSE pid.time

Sends(id) ==
    /\ pid' = [time |-> SinceWhen, id |-> id]
    /\ sent' = sent \cup {[time |-> IF form = "long" THEN SinceWhen ELSE 0, id |-> id]}
    /\ UNCHANGED <<form, now, wrapped, recv, accepted>>

Transmit == ~wrapped /\ pid.id < IdRange - 1 /\ Sends(pid.id + 1)

(* Nobody sends as many packets as there are ids in one second.            *)
TransmitWrapping == form = "long" /\ pid.id = IdRange - 1 /\ now > pid.time /\ Sends(1)

(* packet_id_wrap, which ends the client's session (process_exception).    *)
TransmitThrows ==
    /\ form = "short"
    /\ ~wrapped
    /\ pid.id = IdRange - 1
    /\ pid' = [pid EXCEPT !.id = 0]
    /\ wrapped' = TRUE
    /\ UNCHANGED <<form, now, sent, recv, accepted>>

-----------------------------------------------------------------------------
(* PacketIDReceive: of a receiver r, the answer and the new state.         *)

(* REPLAY_INDEX                                                            *)
Index(base, i) == (base + i) % WindowSize

(* What test_add does first, to whatever packet.                           *)
Floored(r) ==
    [r EXCEPT !.idFloor = IF now >= r.expire THEN r.idHigh ELSE @, !.expire = now + Expire]

(* Later than every packet that was accepted.                              *)
Newer(r, p) == p.time > r.timeHigh \/ (p.time = r.timeHigh /\ p.id > r.idHigh)

Within(r, p) == p.time = r.timeHigh /\ p.id <= r.idHigh /\ r.idHigh - p.id < r.extent

Marked(r, p) == Index(r.base, r.idHigh - p.id) \in r.history

(* Mutant: a bit of the ring is enough, whatever the packet's second.      *)
MutPasses(r, p) ==
    p.id # 0 /\ (p.id > r.idHigh \/ (r.idHigh - p.id < r.extent /\ p.id > r.idFloor /\ ~Marked(r, p)))

Passes(r, p) ==
    /\ p.id # 0
    /\ Newer(r, p) \/ (Within(r, p) /\ p.id > r.idFloor /\ ~Marked(r, p))

(* A later second starts the ring again; its bits stay.                    *)
Restarted(r, p) ==
    IF p.time > r.timeHigh
    THEN [r EXCEPT !.base = 0, !.extent = 0, !.idHigh = 0, !.timeHigh = p.time, !.idFloor = 0]
    ELSE r

(* Mutant: the bits of the ids that were skipped stay as they are.         *)
MutAdvanced(r, id) ==
    LET delta == id - r.idHigh
        base == Index(r.base, -delta)
        sum == r.extent + delta
    IN  IF delta < WindowSize
        THEN [r EXCEPT !.base = base, !.idHigh = id, !.history = @ \cup {base},
                       !.extent = IF sum > WindowSize THEN WindowSize ELSE sum]
        ELSE [r EXCEPT !.base = 0, !.extent = WindowSize, !.idHigh = id, !.history = {0}]

(* The next id, or one that jumps forward: the ring turns, and the bits of *)
(* the ids between are cleared.                                            *)
Advanced(r, id) ==
    LET delta == id - r.idHigh
        base == Index(r.base, -delta)
        sum == r.extent + delta
    IN  IF delta = 1 \/ delta < WindowSize
        THEN [r EXCEPT !.base = base, !.idHigh = id,
                       !.history = (@ \ {Index(base, i) : i \in 1..delta-1}) \cup {base},
                       !.extent = IF sum > WindowSize THEN WindowSize ELSE sum]
        ELSE [r EXCEPT !.base = 0, !.extent = WindowSize, !.idHigh = id, !.history = {0}]

Remembered(r, p) ==
    IF Newer(r, p) THEN Advanced(Restarted(r, p), p.id)
    ELSE [r EXCEPT !.history = @ \cup {Index(r.base, r.idHigh - p.id)}]

TestAdd(r, p, mod) ==
    IF mod /\ Passes(Floored(r), p) THEN Remembered(Floored(r), p) ELSE Floored(r)

-----------------------------------------------------------------------------
(* CryptoDCInstance::decrypt, of a packet that decrypts.                   *)
Decrypt(p) ==
    /\ form = "short"
    /\ recv' = TestAdd(recv, p, TRUE)
    /\ accepted' = IF Passes(Floored(recv), p) THEN accepted \cup {p} ELSE accepted
    /\ UNCHANGED <<form, now, pid, wrapped, sent>>

(* decapsulate_post_process: inWindow is rel_recv's answer, TRUE of an ACK.*)
(* The second answer of test_add is not looked at.                         *)
Decapsulate(p) ==
    LET r == TestAdd(recv, p, FALSE) IN
    /\ form = "long"
    /\ \E inWindow \in BOOLEAN :
          IF Passes(Floored(recv), p) /\ inWindow
          THEN recv' = TestAdd(r, p, TRUE) /\ accepted' = accepted \cup {p}
          ELSE recv' = r /\ UNCHANGED accepted
    /\ UNCHANGED <<form, now, pid, wrapped, sent>>

Tick ==
    /\ now < MaxTime
    /\ now' = now + 1
    /\ UNCHANGED <<form, pid, wrapped, sent, recv, accepted>>

PacketNext ==
    \/ Transmit
    \/ TransmitWrapping
    \/ TransmitThrows
    \/ \E p \in sent : Decrypt(p) \/ Decapsulate(p)
    \/ Tick

PacketSpec == PacketInit /\ [][PacketNext]_packetVars

-----------------------------------------------------------------------------
(* No packet is accepted twice: not after the ring has turned past it, not *)
(* after a silence, and not after the ids have begun again (do_test_add).  *)
NeverTwice == \A p \in accepted : ~Passes(Floored(recv), p)

(* A packet is not refused for another's bit: one that was not accepted,   *)
(* of the present second, not a whole window old and above the floor,      *)
(* passes, however the ring has turned, jumped and begun again             *)
(* (do_test_add's two loops and its memset).                               *)
UnseenPasses ==
    \A p \in sent \ accepted :
        /\ p.time = recv.timeHigh
        /\ p.id + WindowSize > recv.idHigh
        /\ p.id > Floored(recv).idFloor
        => Passes(Floored(recv), p)

(* Each packet goes out under an id of its own, also when the ids wrap:    *)
(* what the receiver takes for a repetition is one (PacketIDSend::next).   *)
FreshIds == [][pid' # pid /\ ~wrapped' => sent' # sent]_packetVars
================================================================================
