------------------------------ MODULE PacketIdProof ------------------------------
(***************************************************************************)
(* Proofs about PacketId, for any size of the window, range of ids and     *)
(* expiry: what the bits of the ring mean (Ring) is kept by every way the  *)
(* ring turns, and no packet is accepted twice.                            *)
(***************************************************************************)
EXTENDS PacketId, TLAPS

-----------------------------------------------------------------------------
(* Positions of the ring.                                                  *)

LEMMA IndexIs ==
    ASSUME NEW base \in 0..WindowSize-1, NEW i \in -WindowSize..WindowSize-1
    PROVE  /\ Index(base, i) \in 0..WindowSize-1
           /\ base + i < 0 => Index(base, i) = base + i + WindowSize
           /\ base + i \in 0..WindowSize-1 => Index(base, i) = base + i
           /\ base + i >= WindowSize => Index(base, i) = base + i - WindowSize
<1> DEFINE x == base + i
<1>1. x \in -WindowSize..2*WindowSize-1
  BY WindowSizeAssumption
<1>2. x \in 0..WindowSize-1 => x % WindowSize = x
  BY WindowSizeAssumption
<1>3. x \in WindowSize..2*WindowSize-1 => x % WindowSize = x - WindowSize
  BY WindowSizeAssumption
<1>4. x \in -WindowSize..-1 => x % WindowSize = x + WindowSize
  BY WindowSizeAssumption
<1> QED BY <1>1, <1>2, <1>3, <1>4, WindowSizeAssumption DEF Index

LEMMA IndexForward ==
    ASSUME NEW base \in 0..WindowSize-1, NEW i \in 0..WindowSize-1
    PROVE  \/ base + i < WindowSize /\ Index(base, i) = base + i
           \/ base + i >= WindowSize /\ Index(base, i) = base + i - WindowSize
<1>1. i \in -WindowSize..WindowSize-1 /\ base + i \in Nat
  BY WindowSizeAssumption
<1>2. CASE base + i < WindowSize
  <2>1. base + i \in 0..WindowSize-1
    BY <1>1, <1>2, WindowSizeAssumption
  <2> QED BY <1>1, <1>2, <2>1, IndexIs
<1>3. CASE base + i >= WindowSize
  BY <1>1, <1>3, IndexIs
<1> QED BY <1>1, <1>2, <1>3, WindowSizeAssumption

LEMMA IndexInjective ==
    ASSUME NEW base \in 0..WindowSize-1, NEW i \in 0..WindowSize-1, NEW j \in 0..WindowSize-1,
           Index(base, i) = Index(base, j)
    PROVE  i = j
<1> DEFINE x == Index(base, i)
           y == Index(base, j)
<1>1. \/ base + i < WindowSize /\ x = base + i
      \/ base + i >= WindowSize /\ x = base + i - WindowSize
  BY IndexForward
<1>2. \/ base + j < WindowSize /\ y = base + j
      \/ base + j >= WindowSize /\ y = base + j - WindowSize
  BY IndexForward
<1>3. x = y
  OBVIOUS
<1> HIDE DEF x, y
<1> QED BY <1>1, <1>2, <1>3, WindowSizeAssumption

LEMMA IndexTurned ==
    ASSUME NEW base \in 0..WindowSize-1, NEW d \in 0..WindowSize, NEW i \in 0..WindowSize-1, d <= i
    PROVE  Index(Index(base, -d), i) = Index(base, i - d)
<1>1. -d \in -WindowSize..WindowSize-1 /\ i - d \in -WindowSize..WindowSize-1
  BY WindowSizeAssumption
<1>2. Index(base, -d) \in 0..WindowSize-1
  BY <1>1, IndexIs
<1> DEFINE b == Index(base, -d)
<1>3. b = IF base - d < 0 THEN base - d + WindowSize ELSE base - d
  <2>1. base + (-d) = base - d /\ -d \in -WindowSize..WindowSize-1
    BY <1>1, WindowSizeAssumption
  <2>2. base - d < 0 \/ base - d \in 0..WindowSize-1
    BY WindowSizeAssumption
  <2> QED BY <2>1, <2>2, IndexIs, WindowSizeAssumption
<1>4. \/ b + i < WindowSize /\ Index(b, i) = b + i
      \/ b + i >= WindowSize /\ Index(b, i) = b + i - WindowSize
  BY <1>2, IndexForward
<1>5. /\ base + i - d < WindowSize => Index(base, i - d) = base + i - d
      /\ base + i - d >= WindowSize => Index(base, i - d) = base + i - d - WindowSize
  BY <1>1, IndexIs, WindowSizeAssumption
<1> HIDE DEF b
<1>6. Index(b, i) = Index(base, i - d)
  BY <1>2, <1>3, <1>4, <1>5, WindowSizeAssumption
<1> QED BY <1>6 DEF b

-----------------------------------------------------------------------------
(* What the ring of a receiver r says when the packets A were accepted.    *)
Ring(r, A) ==
    /\ r \in Receiver /\ A \subseteq Packet
    /\ r.extent = IF r.idHigh < WindowSize THEN r.idHigh ELSE WindowSize
    /\ \A p \in A : /\ p.id > 0 /\ p.time <= r.timeHigh
                    /\ p.time = r.timeHigh => p.id <= r.idHigh
    /\ \A i \in 0..r.extent-1 :
          Index(r.base, i) \in r.history <=> [time |-> r.timeHigh, id |-> r.idHigh - i] \in A

LEMMA FlooredRing ==
    ASSUME NEW A, NEW r, Ring(r, A), now \in Nat
    PROVE  /\ Ring(Floored(r), A)
           /\ Floored(Floored(r)) = Floored(r)
           /\ Floored(r).timeHigh = r.timeHigh /\ Floored(r).idHigh = r.idHigh
           /\ Floored(r).extent = r.extent
<1>1. now + Expire \in Nat /\ now < now + Expire
  BY ExpireAssumption
<1> DEFINE f == Floored(r)
<1>2. /\ f \in Receiver /\ f.base = r.base /\ f.extent = r.extent /\ f.idHigh = r.idHigh
      /\ f.timeHigh = r.timeHigh /\ f.history = r.history /\ f.expire = now + Expire
  BY <1>1 DEF Floored, Ring, Receiver
<1> HIDE DEF f
<1>3. [f EXCEPT !.idFloor = IF now >= f.expire THEN f.idHigh ELSE @, !.expire = now + Expire] = f
  <2>1. (IF now >= f.expire THEN f.idHigh ELSE f.idFloor) = f.idFloor
    BY <1>1, <1>2 DEF Receiver
  <2>2. [f EXCEPT !.idFloor = f.idFloor, !.expire = f.expire] = f
    BY <1>2 DEF Receiver
  <2> QED BY <1>2, <2>1, <2>2
<1>4. Floored(f) = f
  BY <1>3 DEF Floored
<1>5. Ring(f, A)
  BY <1>2 DEF Ring
<1> QED BY <1>2, <1>4, <1>5 DEF f

(* The two sides of the receiver's answer.                                 *)
LEMMA AcceptedFails ==
    ASSUME NEW A, NEW r, Ring(r, A), NEW p \in A
    PROVE  ~Passes(r, p)
<1>1. ~Newer(r, p)
  BY DEF Ring, Newer, Receiver, Packet, Id
<1>2. ASSUME Within(r, p) PROVE Marked(r, p)
  <2>1. r.idHigh - p.id \in 0..r.extent-1
    BY <1>2, IdRangeAssumption DEF Within, Ring, Receiver, Packet, Id
  <2>2. p = [time |-> r.timeHigh, id |-> r.idHigh - (r.idHigh - p.id)]
    BY <1>2 DEF Within, Ring, Receiver, Packet, Id
  <2> QED BY <2>1, <2>2 DEF Ring, Marked
<1> QED BY <1>1, <1>2 DEF Passes

LEMMA UnseenIsUnmarked ==
    ASSUME NEW A, NEW r, Ring(r, A), NEW p \in Packet, p \notin A, p.id > 0,
           p.time = r.timeHigh, p.id + WindowSize > r.idHigh, p.id > r.idFloor
    PROVE  Passes(r, p)
<1>1. CASE p.id > r.idHigh
  BY <1>1 DEF Passes, Newer, Packet, Id
<1>2. CASE p.id <= r.idHigh
  <2>1. r.idHigh - p.id \in 0..r.extent-1
    BY <1>2, WindowSizeAssumption, IdRangeAssumption DEF Ring, Receiver, Packet, Id
  <2>2. p = [time |-> r.timeHigh, id |-> r.idHigh - (r.idHigh - p.id)]
    BY DEF Ring, Receiver, Packet, Id
  <2>3. ~Marked(r, p)
    BY <2>1, <2>2 DEF Ring, Marked
  <2>4. Within(r, p)
    BY <1>2, <2>1 DEF Within, Ring, Receiver, Packet, Id
  <2> QED BY <2>3, <2>4 DEF Passes, Packet, Id
<1> QED BY <1>1, <1>2, IdRangeAssumption DEF Ring, Receiver, Packet, Id

-----------------------------------------------------------------------------
(* The ring after a packet that is accepted.                               *)

(* A later second: nothing of it was accepted, and the extent is empty.    *)
LEMMA RestartedRing ==
    ASSUME NEW A, NEW r, Ring(r, A), NEW p \in Packet, p.id > 0, Newer(r, p)
    PROVE  LET s == Restarted(r, p) IN Ring(s, A) /\ s.timeHigh = p.time /\ p.id > s.idHigh
<1>1. CASE p.time > r.timeHigh
  <2> DEFINE s == Restarted(r, p)
  <2>1. s = [r EXCEPT !.base = 0, !.extent = 0, !.idHigh = 0, !.timeHigh = p.time, !.idFloor = 0]
    BY <1>1 DEF Restarted
  <2>2. 0 \in 0..WindowSize-1 /\ 0 \in 0..WindowSize /\ 0 \in Id /\ p.time \in Nat /\ r \in Receiver
    BY WindowSizeAssumption, IdRangeAssumption DEF Ring, Packet, Id
  <2> HIDE DEF s
  <2>4. s \in Receiver
    BY <2>1, <2>2 DEF Receiver
  <2>5. s.extent = 0 /\ s.idHigh = 0 /\ s.timeHigh = p.time
    BY <2>1, <2>2 DEF Receiver
  <2>3. \A q \in A : q.id > 0 /\ q.time <= s.timeHigh /\ s.timeHigh # q.time
    <3> SUFFICES ASSUME NEW q \in A PROVE q.id > 0 /\ q.time <= s.timeHigh /\ s.timeHigh # q.time
      OBVIOUS
    <3>1. q \in Packet /\ q.id > 0 /\ q.time <= r.timeHigh
      BY DEF Ring
    <3> QED BY <1>1, <2>2, <2>5, <3>1 DEF Receiver, Packet
  <2>6. A \subseteq Packet
    BY DEF Ring
  <2> QED BY <2>3, <2>4, <2>5, <2>6, WindowSizeAssumption DEF Ring, Packet, Id, s
<1>2. CASE ~(p.time > r.timeHigh)
  BY <1>2 DEF Restarted, Newer
<1> QED BY <1>1, <1>2

(* The ring turns by d: what it held moves on, and the bits between are    *)
(* clear.                                                                  *)
LEMMA TurnedRing ==
    ASSUME NEW A, NEW r, Ring(r, A), NEW p \in Packet, p.time = r.timeHigh,
           NEW d \in 1..WindowSize, p.id = r.idHigh + d,
           NEW a \in Receiver, a.timeHigh = r.timeHigh, a.idHigh = p.id,
           a.base = Index(r.base, -d),
           a.extent = (IF p.id < WindowSize THEN p.id ELSE WindowSize),
           a.history = (r.history \ {Index(a.base, i) : i \in 1..d-1}) \cup {a.base}
    PROVE  Ring(a, A \cup {p})
<1> DEFINE At(i) == [time |-> a.timeHigh, id |-> a.idHigh - i]
<1>1. \A i \in 0..a.extent-1 : i \in 0..WindowSize-1
  BY WindowSizeAssumption DEF Receiver
<1>2. \A i \in 1..a.extent-1 : Index(a.base, i) # a.base
  <2>1. Index(a.base, 0) = a.base
    BY IndexForward, WindowSizeAssumption DEF Receiver
  <2> QED BY <1>1, <2>1, IndexInjective, WindowSizeAssumption DEF Receiver
<1>3. \A i \in 1..a.extent-1 : At(i) # p
  <2> SUFFICES ASSUME NEW i \in 1..a.extent-1, At(i) = p PROVE FALSE
    OBVIOUS
  <2>1. At(i).id = a.idHigh - i
    OBVIOUS
  <2> QED BY <2>1 DEF Receiver, Packet, Id
<1>4. ASSUME NEW i \in 0..a.extent-1
      PROVE  Index(a.base, i) \in a.history <=> At(i) \in A \cup {p}
  <2>1. CASE i = 0
    <3>1. Index(a.base, 0) = a.base
      BY IndexForward, WindowSizeAssumption DEF Receiver
    <3>2. At(0) = p
      BY DEF Packet, Receiver, Id
    <3> QED BY <2>1, <3>1, <3>2
  <2>2. CASE i \in 1..d-1
    <3>1. Index(a.base, i) \notin a.history
      BY <1>2, <2>2
    <3>2. At(i).time = r.timeHigh /\ At(i).id > r.idHigh
      BY <2>2 DEF Packet, Receiver, Id, Ring
    <3>3. At(i) \notin A
      BY <3>2 DEF Ring, Receiver, Id, Packet
    <3> QED BY <1>3, <2>2, <3>1, <3>3
  <2>3. CASE i >= d
    <3>1. \A k \in 1..d-1 : Index(a.base, i) # Index(a.base, k)
      <4> SUFFICES ASSUME NEW k \in 1..d-1, Index(a.base, i) = Index(a.base, k) PROVE FALSE
        OBVIOUS
      <4>1. k \in 0..WindowSize-1 /\ i \in 0..WindowSize-1 /\ a.base \in 0..WindowSize-1
        BY <1>1, WindowSizeAssumption DEF Receiver
      <4>2. i = k
        BY <4>1, IndexInjective
      <4> QED BY <2>3, <4>2
    <3>2. Index(a.base, i) \in a.history <=> Index(a.base, i) \in r.history
      BY <1>2, <2>3, <3>1
    <3>3. Index(a.base, i) = Index(r.base, i - d)
      <4>1. r.base \in 0..WindowSize-1 /\ d \in 0..WindowSize /\ i \in 0..WindowSize-1 /\ d <= i
        BY <1>1, <2>3 DEF Ring, Receiver
      <4> QED BY <4>1, IndexTurned
    <3>4. i - d \in 0..r.extent-1
      BY <1>1, <2>3, WindowSizeAssumption DEF Ring, Receiver, Id
    <3>5. At(i) = [time |-> r.timeHigh, id |-> r.idHigh - (i - d)]
      <4>1. a.idHigh - i = r.idHigh - (i - d)
        BY DEF Ring, Receiver, Id
      <4> QED BY <4>1
    <3>6. Index(r.base, i - d) \in r.history <=> At(i) \in A
      BY <3>4, <3>5 DEF Ring
    <3> QED BY <1>3, <2>3, <3>2, <3>3, <3>6
  <2> QED BY <2>1, <2>2, <2>3
<1>5. \A q \in A \cup {p} : /\ q.id > 0 /\ q.time <= a.timeHigh
                            /\ q.time = a.timeHigh => q.id <= a.idHigh
  <2>1. p.id > 0 /\ p.time <= a.timeHigh /\ p.id <= a.idHigh
    BY DEF Ring, Receiver, Packet, Id
  <2>2. ASSUME NEW q \in A PROVE /\ q.id > 0 /\ q.time <= a.timeHigh
                                 /\ q.time = a.timeHigh => q.id <= a.idHigh
    <3> QED BY DEF Ring, Receiver, Packet, Id
  <2> QED BY <2>1, <2>2
<1> QED BY <1>4, <1>5, WindowSizeAssumption DEF Ring

LEMMA AdvancedRing ==
    ASSUME NEW A, NEW r, Ring(r, A), NEW p \in Packet, p.time = r.timeHigh, p.id > r.idHigh
    PROVE  Ring(Advanced(r, p.id), A \cup {p})
<1> DEFINE d == p.id - r.idHigh
           a == Advanced(r, p.id)
           base == Index(r.base, -d)
           sum == r.extent + d
<1>1. r \in Receiver /\ A \subseteq Packet /\ p.id \in Nat /\ r.idHigh \in Nat /\ d \in Nat \ {0}
  BY DEF Ring, Receiver, Packet, Id
<1>2. r.extent = IF r.idHigh < WindowSize THEN r.idHigh ELSE WindowSize
  BY DEF Ring
<1>3. p.id = r.idHigh + d
  BY <1>1
<1>4. CASE d = 1 \/ d < WindowSize
  <2>1. a = [r EXCEPT !.base = base, !.idHigh = p.id,
                      !.history = (@ \ {Index(base, i) : i \in 1..d-1}) \cup {base},
                      !.extent = IF sum > WindowSize THEN WindowSize ELSE sum]
    BY <1>4 DEF Advanced
  <2>2. d \in 1..WindowSize
    BY <1>1, <1>4, WindowSizeAssumption
  <2>3. base \in 0..WindowSize-1
    <3>1. -d \in -WindowSize..WindowSize-1
      BY <2>2, WindowSizeAssumption
    <3> QED BY <1>1, <3>1, IndexIs DEF Receiver
  <2>4. (IF sum > WindowSize THEN WindowSize ELSE sum) = (IF p.id < WindowSize THEN p.id ELSE WindowSize)
    BY <1>1, <1>2, <1>3, WindowSizeAssumption
  <2>5. (IF p.id < WindowSize THEN p.id ELSE WindowSize) \in 0..WindowSize
    BY <1>1, WindowSizeAssumption
  <2> DEFINE B == (r.history \ {Index(base, i) : i \in 1..d-1}) \cup {base}
  <2>6. B \in SUBSET (0..WindowSize-1)
    BY <1>1, <2>3 DEF Receiver
  <2>7. p.id \in Id /\ p.time \in Nat
    BY DEF Packet
  <2> HIDE DEF d, base, sum, B
  <2>8. a = [r EXCEPT !.base = base, !.idHigh = p.id, !.history = B,
                      !.extent = IF p.id < WindowSize THEN p.id ELSE WindowSize]
    BY <2>1, <2>4 DEF B
  <2> HIDE DEF a
  <2>9. a \in Receiver
    BY <1>1, <2>3, <2>5, <2>6, <2>7, <2>8 DEF Receiver
  <2>10. /\ a.base = base /\ a.idHigh = p.id /\ a.history = B /\ a.timeHigh = r.timeHigh
         /\ a.extent = IF p.id < WindowSize THEN p.id ELSE WindowSize
    BY <1>1, <2>8 DEF Receiver
  <2>11. a.history = (r.history \ {Index(a.base, i) : i \in 1..d-1}) \cup {a.base}
    BY <2>10 DEF B
  <2>12. a.base = Index(r.base, -d)
    BY <2>10 DEF base
  <2>13. Ring(a, A \cup {p})
    BY <1>3, <2>2, <2>9, <2>10, <2>11, <2>12, TurnedRing
  <2> QED BY <2>13 DEF a
<1>5. CASE ~(d = 1 \/ d < WindowSize)
  <2>1. a = [r EXCEPT !.base = 0, !.extent = WindowSize, !.idHigh = p.id, !.history = {0}]
    BY <1>5 DEF Advanced
  <2>2. /\ d >= WindowSize /\ p.id >= WindowSize /\ p.id \in Id /\ p.time \in Nat
        /\ 0 \in 0..WindowSize-1 /\ WindowSize \in 0..WindowSize
    BY <1>1, <1>3, <1>5, WindowSizeAssumption DEF Packet
  <2> HIDE DEF a
  <2>3. a \in Receiver
    BY <1>1, <2>1, <2>2 DEF Receiver
  <2>4. a.base = 0 /\ a.extent = WindowSize /\ a.idHigh = p.id /\ a.history = {0} /\ a.timeHigh = r.timeHigh
    BY <1>1, <2>1 DEF Receiver
  <2>5. ASSUME NEW i \in 0..WindowSize-1
        PROVE  Index(a.base, i) \in a.history
                 <=> [time |-> a.timeHigh, id |-> a.idHigh - i] \in A \cup {p}
    <3>1. Index(0, i) = i
      BY <2>2, IndexForward
    <3>2. CASE i = 0
      <4>1. [time |-> a.timeHigh, id |-> a.idHigh - i] = p
        BY <1>1, <2>4, <3>2 DEF Packet
      <4> QED BY <2>4, <3>1, <3>2, <4>1
    <3>3. CASE i # 0
      <4> DEFINE q == [time |-> a.timeHigh, id |-> a.idHigh - i]
      <4>1. q.time = r.timeHigh /\ q.id > r.idHigh /\ q.id # p.id /\ q.id \in Nat
        BY <1>1, <1>3, <2>2, <2>4, <3>3, WindowSizeAssumption
      <4> HIDE DEF q
      <4>2. q \notin A
        BY <1>1, <4>1 DEF Ring
      <4>3. q \notin A \cup {p}
        BY <4>1, <4>2
      <4> QED BY <2>4, <3>1, <3>3, <4>3 DEF q
    <3> QED BY <3>2, <3>3
  <2>6. \A q \in A \cup {p} : /\ q.id > 0 /\ q.time <= a.timeHigh
                              /\ q.time = a.timeHigh => q.id <= a.idHigh
    <3>1. p.id > 0 /\ p.time <= a.timeHigh /\ p.id <= a.idHigh
      BY <1>1, <2>2, <2>4
    <3>2. ASSUME NEW q \in A PROVE /\ q.id > 0 /\ q.time <= a.timeHigh
                                   /\ q.time = a.timeHigh => q.id <= a.idHigh
      BY <2>4 DEF Ring, Receiver, Packet, Id
    <3> QED BY <3>1, <3>2
  <2>7. a.extent = IF a.idHigh < WindowSize THEN a.idHigh ELSE WindowSize
    BY <1>1, <2>2, <2>4, WindowSizeAssumption
  <2>8. Ring(a, A \cup {p})
    BY <1>1, <2>3, <2>4, <2>5, <2>6, <2>7 DEF Ring
  <2> QED BY <2>8 DEF a
<1> QED BY <1>4, <1>5

LEMMA MarkedRing ==
    ASSUME NEW A, NEW r, Ring(r, A), NEW p \in Packet, p.id > 0, Within(r, p)
    PROVE  Ring([r EXCEPT !.history = @ \cup {Index(r.base, r.idHigh - p.id)}], A \cup {p})
<1> DEFINE k == r.idHigh - p.id
           a == [r EXCEPT !.history = @ \cup {Index(r.base, k)}]
           At(i) == [time |-> r.timeHigh, id |-> r.idHigh - i]
<1>1. /\ r \in Receiver /\ A \subseteq Packet /\ p.time = r.timeHigh
      /\ k \in 0..r.extent-1 /\ r.extent \in 0..WindowSize /\ r.base \in 0..WindowSize-1
  BY DEF Within, Ring, Receiver, Packet, Id
<1>2. k \in 0..WindowSize-1
  BY <1>1, WindowSizeAssumption
<1>3. Index(r.base, k) \in 0..WindowSize-1
  <2>1. k \in -WindowSize..WindowSize-1
    BY <1>2, WindowSizeAssumption
  <2> QED BY <1>1, <2>1, IndexIs
<1>4. At(k) = p
  BY <1>1 DEF Receiver, Packet, Id
<1>5. \A i \in 0..r.extent-1 : At(i) = p => i = k
  <2> SUFFICES ASSUME NEW i \in 0..r.extent-1, At(i) = p PROVE i = k
    OBVIOUS
  <2>1. r.idHigh - i = p.id
    OBVIOUS
  <2> QED BY <1>1, <2>1 DEF Receiver, Packet, Id
<1> HIDE DEF k
<1>6. /\ a \in Receiver /\ a.base = r.base /\ a.extent = r.extent /\ a.idHigh = r.idHigh
      /\ a.timeHigh = r.timeHigh /\ a.history = r.history \cup {Index(r.base, k)}
  BY <1>1, <1>3 DEF Receiver
<1> HIDE DEF a
<1>7. ASSUME NEW i \in 0..r.extent-1
      PROVE  Index(r.base, i) \in a.history <=> At(i) \in A \cup {p}
  <2>1. Index(r.base, i) \in r.history <=> At(i) \in A
    BY DEF Ring
  <2>2. Index(r.base, i) = Index(r.base, k) <=> i = k
    <3>1. i \in 0..WindowSize-1
      BY <1>1, WindowSizeAssumption
    <3> QED BY <1>1, <1>2, <3>1, IndexInjective
  <2>3. At(i) = p <=> i = k
    BY <1>4, <1>5
  <2> QED BY <1>6, <2>1, <2>2, <2>3
<1>8. Ring(a, A \cup {p})
  <2>1. p.id > 0 /\ p.time <= r.timeHigh /\ p.id <= r.idHigh
    BY <1>1 DEF Within, Receiver
  <2> QED BY <1>1, <1>6, <1>7, <2>1 DEF Ring
<1> QED BY <1>8 DEF a, k

LEMMA RememberedRing ==
    ASSUME NEW A, NEW r, Ring(r, A), NEW p \in Packet, Passes(r, p)
    PROVE  Ring(Remembered(r, p), A \cup {p})
<1>1. p.id > 0
  BY DEF Passes, Packet, Id
<1>2. CASE Newer(r, p)
  <2>1. Ring(Restarted(r, p), A) /\ Restarted(r, p).timeHigh = p.time /\ p.id > Restarted(r, p).idHigh
    BY <1>1, <1>2, RestartedRing
  <2> QED BY <1>2, <2>1, AdvancedRing DEF Remembered
<1>3. CASE ~Newer(r, p)
  <2>1. Within(r, p)
    BY <1>3 DEF Passes
  <2> QED BY <1>1, <1>3, <2>1, MarkedRing DEF Remembered
<1> QED BY <1>2, <1>3

LEMMA TestAddRing ==
    ASSUME NEW A, NEW r, Ring(r, A), NEW p \in Packet, now \in Nat
    PROVE  /\ Passes(Floored(r), p) => Ring(TestAdd(r, p, TRUE), A \cup {p})
           /\ ~Passes(Floored(r), p) => Ring(TestAdd(r, p, TRUE), A)
           /\ TestAdd(r, p, FALSE) = Floored(r)
BY FlooredRing, RememberedRing DEF TestAdd

-----------------------------------------------------------------------------
(* The invariant.                                                          *)

(* What was sent, by the form: ids that grow within a second, and seconds  *)
(* that grow; or ids alone, until they end.                                *)
SentInv ==
    /\ pid.time <= now
    /\ pid.time = 0 => sent = {}
    /\ wrapped => form = "short"
    /\ \A p \in sent :
          /\ p.id > 0
          /\ form = "long" => p.time <= pid.time /\ (p.time = pid.time => p.id <= pid.id)
          /\ form = "short" => p.time = 0 /\ (~wrapped => p.id <= pid.id)

IInv == PacketTypeOK /\ Ring(recv, accepted) /\ SentInv

LEMMA InitInv == PacketInit => IInv
<1> SUFFICES ASSUME PacketInit PROVE IInv
  OBVIOUS
<1>1. 0 \in Id /\ 0 \in 0..WindowSize-1 /\ 0 \in 0..WindowSize
  BY WindowSizeAssumption, IdRangeAssumption DEF Id
<1>2. recv \in Receiver /\ recv.extent = 0 /\ recv.idHigh = 0
  BY <1>1 DEF PacketInit, Receiver
<1>3. PacketTypeOK
  <2>1. pid \in Packet
    BY <1>1 DEF PacketInit, Packet
  <2>2. now \in 1..MaxTime
    BY MaxTimeAssumption DEF PacketInit
  <2> QED BY <1>2, <2>1, <2>2 DEF PacketInit, PacketTypeOK
<1>4. Ring(recv, accepted)
  BY <1>2, WindowSizeAssumption DEF PacketInit, Ring
<1>5. SentInv
  BY DEF PacketInit, SentInv
<1> QED BY <1>3, <1>4, <1>5 DEF IInv

(* A packet goes out that was not sent before.                             *)
LEMMA SendsInv ==
    ASSUME IInv, NEW id \in Id, id > 0, Sends(id), ~wrapped,
           \/ id = pid.id + 1
           \/ form = "long" /\ pid.id = IdRange - 1 /\ now > pid.time
    PROVE  IInv' /\ sent' # sent
<1> DEFINE p == [time |-> IF form = "long" THEN SinceWhen ELSE 0, id |-> id]
<1>1. /\ pid' = [time |-> SinceWhen, id |-> id] /\ sent' = sent \cup {p}
      /\ UNCHANGED <<form, now, wrapped, recv, accepted>>
  BY DEF Sends
<1>2. /\ now \in Nat \ {0} /\ pid.time \in Nat /\ pid.id \in Nat /\ id \in Nat /\ id < IdRange
      /\ pid.time <= now /\ sent \subseteq Packet
  BY IdRangeAssumption, MaxTimeAssumption DEF IInv, PacketTypeOK, SentInv, Packet, Id
<1>3. /\ SinceWhen \in Nat \ {0} /\ pid.time <= SinceWhen /\ SinceWhen <= now
      /\ SinceWhen = pid.time => id = pid.id + 1 /\ pid.time # 0
  <2>1. CASE pid.time = 0 \/ pid.id = IdRange - 1
    BY <1>2, <2>1, IdRangeAssumption DEF SinceWhen
  <2>2. CASE ~(pid.time = 0 \/ pid.id = IdRange - 1)
    BY <1>2, <2>2 DEF SinceWhen
  <2> QED BY <2>1, <2>2
<1>4. p \in Packet
  BY <1>2, <1>3 DEF Packet
<1>5. ASSUME NEW q \in sent
      PROVE  /\ q.id > 0
             /\ form = "long" => q.time <= SinceWhen /\ (q.time = SinceWhen => q.id < id)
             /\ form = "short" => q.time = 0 /\ q.id < id
  <2>1. q \in Packet /\ q.id > 0 /\ q.time \in Nat /\ q.id \in Nat
    BY <1>2 DEF IInv, SentInv, Packet, Id
  <2>2. CASE form = "long"
    <3>1. q.time <= pid.time /\ (q.time = pid.time => q.id <= pid.id)
      BY <2>2 DEF IInv, SentInv
    <3> QED BY <1>2, <1>3, <2>1, <2>2, <3>1
  <2>3. CASE form = "short"
    <3>1. q.time = 0 /\ q.id <= pid.id /\ id = pid.id + 1
      BY <2>3 DEF IInv, SentInv
    <3> QED BY <1>2, <2>1, <2>3, <3>1
  <2>4. form \in {"long", "short"}
    BY FormsAssumption DEF IInv, PacketTypeOK
  <2> QED BY <2>1, <2>2, <2>3, <2>4
<1>6. p \notin sent
  <2> SUFFICES ASSUME p \in sent PROVE FALSE
    OBVIOUS
  <2>1. p.id < id
    <3>1. form \in {"long", "short"}
      BY FormsAssumption DEF IInv, PacketTypeOK
    <3> QED BY <1>5, <3>1
  <2> QED BY <1>2, <2>1
<1>7. PacketTypeOK'
  BY <1>1, <1>2, <1>3, <1>4 DEF IInv, PacketTypeOK, Packet
<1>8. Ring(recv, accepted)'
  BY <1>1 DEF IInv, Ring, Index
<1>9. SentInv'
  <2>1. pid'.time = SinceWhen /\ pid'.id = id
    BY <1>1
  <2> HIDE DEF p
  <2>2. ASSUME NEW q \in sent'
        PROVE  /\ q.id > 0
               /\ form = "long" => q.time <= SinceWhen /\ (q.time = SinceWhen => q.id <= id)
               /\ form = "short" => q.time = 0 /\ q.id <= id
    <3>1. CASE q \in sent
      <4>1. q.id \in Nat
        BY <1>2, <3>1 DEF Packet, Id
      <4> QED BY <1>2, <1>5, <3>1, <4>1
    <3>2. CASE q = p
      BY <1>2, <1>3, <3>2 DEF p
    <3> QED BY <1>1, <3>1, <3>2
  <2> QED BY <1>1, <1>3, <2>1, <2>2 DEF SentInv
<1> QED BY <1>1, <1>6, <1>7, <1>8, <1>9 DEF IInv

LEMMA NextInv ==
    ASSUME IInv, [PacketNext]_packetVars
    PROVE  /\ IInv'
           /\ pid' # pid /\ ~wrapped' => sent' # sent
<1> USE DEF IInv
<1>1. now \in Nat /\ recv \in Receiver /\ accepted \subseteq sent /\ sent \subseteq Packet
  BY MaxTimeAssumption DEF PacketTypeOK, Ring
<1>2. CASE Transmit
  <2>1. pid.id + 1 \in Id /\ pid.id + 1 > 0
    BY <1>2, IdRangeAssumption DEF Transmit, PacketTypeOK, Packet, Id
  <2> QED BY <1>2, <2>1, SendsInv DEF Transmit
<1>3. CASE TransmitWrapping
  <2>1. 1 \in Id
    BY IdRangeAssumption DEF Id
  <2>2. ~wrapped
    BY <1>3 DEF TransmitWrapping, SentInv
  <2> QED BY <1>3, <2>1, <2>2, SendsInv DEF TransmitWrapping
<1>4. CASE TransmitThrows
  <2>1. pid' = [pid EXCEPT !.id = 0] /\ pid' \in Packet /\ pid'.time = pid.time
    BY <1>4, IdRangeAssumption DEF TransmitThrows, PacketTypeOK, Packet, Id
  <2>2. wrapped' = TRUE /\ form = "short" /\ UNCHANGED <<form, now, sent, recv, accepted>>
    BY <1>4 DEF TransmitThrows
  <2>3. SentInv'
    BY <2>1, <2>2 DEF SentInv
  <2>4. Ring(recv, accepted)'
    BY <2>2 DEF Ring, Index
  <2>5. PacketTypeOK'
    BY <2>1, <2>2 DEF PacketTypeOK
  <2> QED BY <2>2, <2>3, <2>4, <2>5
<1>5. ASSUME NEW p \in sent, Decrypt(p)
      PROVE  IInv' /\ pid' = pid
  <2>1. UNCHANGED <<form, now, pid, wrapped, sent>> /\ recv' = TestAdd(recv, p, TRUE)
    BY <1>5 DEF Decrypt
  <2>2. Ring(recv', accepted') /\ accepted' \subseteq sent
    <3>1. p \in Packet /\ Ring(recv, accepted)
      BY <1>1
    <3>2. CASE Passes(Floored(recv), p)
      <4>1. accepted' = accepted \cup {p} /\ Ring(TestAdd(recv, p, TRUE), accepted \cup {p})
        BY <1>1, <1>5, <3>1, <3>2, TestAddRing DEF Decrypt
      <4> QED BY <1>1, <2>1, <4>1
    <3>3. CASE ~Passes(Floored(recv), p)
      <4>1. accepted' = accepted /\ Ring(TestAdd(recv, p, TRUE), accepted)
        BY <1>1, <1>5, <3>1, <3>3, TestAddRing DEF Decrypt
      <4> QED BY <1>1, <2>1, <4>1
    <3> QED BY <3>2, <3>3
  <2>3. SentInv'
    BY <2>1 DEF SentInv
  <2>4. PacketTypeOK'
    BY <2>1, <2>2 DEF PacketTypeOK, Ring
  <2> QED BY <2>1, <2>2, <2>3, <2>4 DEF Ring, Index
<1>6. ASSUME NEW p \in sent, Decapsulate(p)
      PROVE  IInv' /\ pid' = pid
  <2>1. UNCHANGED <<form, now, pid, wrapped, sent>>
    BY <1>6 DEF Decapsulate
  <2> DEFINE f == Floored(recv)
  <2>2. Ring(f, accepted) /\ Floored(f) = f /\ TestAdd(recv, p, FALSE) = f
    BY <1>1, FlooredRing, TestAddRing
  <2>3. Passes(f, p) => Ring(TestAdd(f, p, TRUE), accepted \cup {p})
    BY <1>1, <2>2, TestAddRing
  <2>4. \/ Passes(f, p) /\ recv' = TestAdd(f, p, TRUE) /\ accepted' = accepted \cup {p}
        \/ recv' = f /\ accepted' = accepted
    BY <1>6, <2>2 DEF Decapsulate
  <2>5. Ring(recv', accepted') /\ accepted' \subseteq sent
    BY <1>1, <2>2, <2>3, <2>4
  <2>6. SentInv'
    BY <2>1 DEF SentInv
  <2>7. PacketTypeOK'
    BY <2>1, <2>5 DEF PacketTypeOK, Ring
  <2> QED BY <2>1, <2>5, <2>6, <2>7 DEF Ring, Index
<1>7. CASE Tick
  <2>1. now' = now + 1 /\ now' \in 1..MaxTime /\ UNCHANGED <<form, pid, wrapped, sent, recv, accepted>>
    BY <1>7, MaxTimeAssumption DEF Tick, PacketTypeOK
  <2>2. SentInv'
    BY <1>1, <2>1 DEF SentInv, PacketTypeOK, Packet
  <2> QED BY <2>1, <2>2 DEF PacketTypeOK, Ring, Index
<1>8. CASE UNCHANGED packetVars
  BY <1>8 DEF packetVars, PacketTypeOK, Ring, Index, SentInv
<1> QED BY <1>2, <1>3, <1>4, <1>5, <1>6, <1>7, <1>8 DEF PacketNext

LEMMA Invariance == PacketSpec => []IInv
<1>1. IInv /\ [PacketNext]_packetVars => IInv'
  BY NextInv
<1> QED BY InitInv, <1>1, PTL DEF PacketSpec

-----------------------------------------------------------------------------
(* The state of the sender, the ring and the packets keeps its types: the  *)
(* positions of the ring stay within it (PacketIDReceiveType).             *)
THEOREM TypeCorrect == PacketSpec => []PacketTypeOK
<1>1. IInv => PacketTypeOK
  BY DEF IInv
<1> QED BY Invariance, <1>1, PTL

(* No packet is accepted twice, for any window, expiry and range of ids    *)
(* and any packets lost, repeated and reordered (do_test_add).             *)
THEOREM OnceCorrect == PacketSpec => []NeverTwice
<1>1. IInv => NeverTwice
  <2> SUFFICES ASSUME IInv, NEW p \in accepted PROVE ~Passes(Floored(recv), p)
    BY DEF NeverTwice
  <2>1. now \in Nat /\ Ring(recv, accepted)
    BY MaxTimeAssumption DEF IInv, PacketTypeOK
  <2> QED BY <2>1, FlooredRing, AcceptedFails
<1> QED BY Invariance, <1>1, PTL

(* A packet of the present second, within the window and above the floor,  *)
(* is refused only if it was accepted (do_test_add).                       *)
THEOREM UnseenCorrect == PacketSpec => []UnseenPasses
<1>1. IInv => UnseenPasses
  <2> SUFFICES ASSUME IInv, NEW p \in sent \ accepted, p.time = recv.timeHigh,
                      p.id + WindowSize > recv.idHigh, p.id > Floored(recv).idFloor
               PROVE  Passes(Floored(recv), p)
    BY DEF UnseenPasses
  <2>1. now \in Nat /\ Ring(recv, accepted) /\ p \in Packet /\ p.id > 0
    BY MaxTimeAssumption DEF IInv, PacketTypeOK, SentInv
  <2>2. /\ Ring(Floored(recv), accepted) /\ Floored(recv).timeHigh = recv.timeHigh
        /\ Floored(recv).idHigh = recv.idHigh
    BY <2>1, FlooredRing
  <2> QED BY <2>1, <2>2, UnseenIsUnmarked
<1> QED BY Invariance, <1>1, PTL

(* Each packet goes out under an id of its own (PacketIDSend::next).       *)
THEOREM FreshCorrect == PacketSpec => FreshIds
<1>1. IInv /\ [PacketNext]_packetVars => [pid' # pid /\ ~wrapped' => sent' # sent]_packetVars
  BY NextInv
<1> QED BY Invariance, <1>1, PTL DEF PacketSpec, FreshIds
================================================================================
