---------------------------- MODULE OpenVPNTunnelProof ----------------------------
(***************************************************************************)
(* Proofs about OpenVPNTunnel, for any number of starts and of sessions.   *)
(*                                                                         *)
(* What is left of a handler is one of a few sequences for each state of   *)
(* the client (Shape).  From that alone follows what the client's end      *)
(* leaves installed (CleanInv).  The rest needs that the system starts the *)
(* provider again only when the client before has ended: then one client   *)
(* lives at a time (Order), the stored completion is its own (Completion), *)
(* and the answer it waits for is the last one (Answered).                 *)
(***************************************************************************)
EXTENDS OpenVPNTunnel, SequenceTheorems, TLAPS

(* What the thread may have left to do in each state of the client.        *)
Todo(pc, t) ==
    \/ t = <<>>
    \/ pc = "trying" /\ t \in {<<"reset", "configure">>, <<"await reset", "configure">>,
                               <<"fail", "configure">>, <<"resume failed", "forget", "configure">>,
                               <<"forget", "configure">>, <<"configure">>, <<"await configure">>}
    \/ pc = "connected" /\ t \in {<<"connected">>, <<"resume ok", "forget">>, <<"forget">>}
    \/ pc \in {"waiting", "ended"} /\ t \in {<<"reset">>, <<"await reset">>, <<"fail">>,
                                             <<"resume failed", "forget">>, <<"forget">>}
    \/ pc = "ended" /\ t \in {<<"fail", "reset">>, <<"resume failed", "forget", "reset">>,
                              <<"forget", "reset">>,
                              <<"reset", "fail">>, <<"await reset", "fail">>, <<"fail", "fail">>,
                              <<"resume failed", "forget", "fail">>, <<"forget", "fail">>}

Shape == \A s \in Start :
    /\ Todo(client[s].pc, client[s].todo)
    /\ start[s].outcome = "none" <=> client[s].pc = "none"

TypeInv == TypeOK /\ Shape

-----------------------------------------------------------------------------
(* Sequences of at most three operations.                                  *)

LEMMA Evaluate ==
    /\ \A x : Head(<<x>>) = x /\ Tail(<<x>>) = <<>> /\ <<x>> # <<>>
    /\ \A x, y : Head(<<x, y>>) = x /\ Tail(<<x, y>>) = <<y>> /\ <<x, y>> # <<>>
    /\ \A x, y, z : Head(<<x, y, z>>) = x /\ Tail(<<x, y, z>>) = <<y, z>> /\ <<x, y, z>> # <<>>
OBVIOUS

LEMMA Short ==
    ASSUME NEW x \in Op, NEW y \in Op, NEW z \in Op
    PROVE  /\ <<>> \in Seq(Op) /\ Len(<<>>) = 0
           /\ <<x>> \in Seq(Op) /\ Len(<<x>>) = 1 /\ <<x>>[1] = x
           /\ <<x, y>> \in Seq(Op) /\ Len(<<x, y>>) = 2 /\ <<x, y>>[1] = x /\ <<x, y>>[2] = y
           /\ <<x, y, z>> \in Seq(Op) /\ Len(<<x, y, z>>) = 3
           /\ <<x, y, z>>[1] = x /\ <<x, y, z>>[2] = y /\ <<x, y, z>>[3] = z
OBVIOUS

LEMMA IsConcatenation ==
    ASSUME NEW s \in Seq(Op), NEW t \in Seq(Op), NEW u \in Seq(Op),
           Len(u) = Len(s) + Len(t),
           \A i \in 1..Len(s) : u[i] = s[i],
           \A i \in 1..Len(t) : u[Len(s) + i] = t[i]
    PROVE  s \o t = u
<1>1. s \o t \in Seq(Op) /\ Len(s \o t) = Len(u)
  BY ConcatProperties
<1>2. ASSUME NEW i \in 1..Len(u) PROVE (s \o t)[i] = u[i]
  <2>1. CASE i <= Len(s)
    BY <2>1, ConcatProperties
  <2>2. CASE i > Len(s)
    <3>1. i - Len(s) \in 1..Len(t) /\ i = Len(s) + (i - Len(s))
      BY <2>2
    <3> QED BY <2>2, <3>1, ConcatProperties
  <2> QED BY <2>1, <2>2
<1> QED BY <1>1, <1>2, SeqEqual

LEMMA UpToTwo ==
    /\ \A i \in 1..1 : i = 1
    /\ \A i \in 1..2 : i = 1 \/ i = 2
OBVIOUS

LEMMA OneAndOne ==
    ASSUME NEW x \in Op, NEW y \in Op
    PROVE  <<x>> \o <<y>> = <<x, y>>
<1> DEFINE u == <<x>>  v == <<y>>  w == <<x, y>>
<1>1. u \in Seq(Op) /\ v \in Seq(Op) /\ w \in Seq(Op)
      /\ Len(u) = 1 /\ Len(v) = 1 /\ Len(w) = 2
  BY Short
<1>2. w[1] = u[1] /\ w[2] = v[1]
  BY Short
<1> HIDE DEF u, v, w
<1>3. /\ \A i \in 1..Len(u) : w[i] = u[i]
      /\ \A i \in 1..Len(v) : w[Len(u) + i] = v[i]
      /\ Len(w) = Len(u) + Len(v)
  BY UpToTwo, <1>1, <1>2
<1>4. u \o v = w
  BY <1>1, <1>3, IsConcatenation, Zenon
<1> QED BY <1>4 DEF u, v, w

LEMMA OneAndTwo ==
    ASSUME NEW x \in Op, NEW y \in Op, NEW z \in Op
    PROVE  <<x>> \o <<y, z>> = <<x, y, z>>
<1> DEFINE u == <<x>>  v == <<y, z>>  w == <<x, y, z>>
<1>1. u \in Seq(Op) /\ v \in Seq(Op) /\ w \in Seq(Op)
      /\ Len(u) = 1 /\ Len(v) = 2 /\ Len(w) = 3
  BY Short
<1>2. w[1] = u[1] /\ w[2] = v[1] /\ w[3] = v[2]
  BY Short
<1> HIDE DEF u, v, w
<1>3. /\ \A i \in 1..Len(u) : w[i] = u[i]
      /\ \A i \in 1..Len(v) : w[Len(u) + i] = v[i]
      /\ Len(w) = Len(u) + Len(v)
  BY UpToTwo, <1>1, <1>2
<1>4. u \o v = w
  BY <1>1, <1>3, IsConcatenation, Zenon
<1> QED BY <1>4 DEF u, v, w

LEMMA TwoAndOne ==
    ASSUME NEW x \in Op, NEW y \in Op, NEW z \in Op
    PROVE  <<x, y>> \o <<z>> = <<x, y, z>>
<1> DEFINE u == <<x, y>>  v == <<z>>  w == <<x, y, z>>
<1>1. u \in Seq(Op) /\ v \in Seq(Op) /\ w \in Seq(Op)
      /\ Len(u) = 2 /\ Len(v) = 1 /\ Len(w) = 3
  BY Short
<1>2. w[1] = u[1] /\ w[2] = u[2] /\ w[3] = v[1]
  BY Short
<1> HIDE DEF u, v, w
<1>3. /\ \A i \in 1..Len(u) : w[i] = u[i]
      /\ \A i \in 1..Len(v) : w[Len(u) + i] = v[i]
      /\ Len(w) = Len(u) + Len(v)
  BY UpToTwo, <1>1, <1>2
<1>4. u \o v = w
  BY <1>1, <1>3, IsConcatenation, Zenon
<1> QED BY <1>4 DEF u, v, w

LEMMA TodoIsSeq ==
    ASSUME NEW pc, NEW t, Todo(pc, t)
    PROVE  t \in Seq(Op)
<1>1. {"reset", "configure", "await reset", "await configure", "connected", "fail",
       "resume ok", "resume failed", "forget"} \subseteq Op
  BY DEF Op
<1>2. <<>> \in Seq(Op)
  OBVIOUS
<1>3. \A x \in Op : <<x>> \in Seq(Op)
  OBVIOUS
<1>4. \A x, y \in Op : <<x, y>> \in Seq(Op)
  OBVIOUS
<1>5. \A x, y, z \in Op : <<x, y, z>> \in Seq(Op)
  OBVIOUS
<1>6. ASSUME pc = "trying" PROVE t \in Seq(Op)
  BY <1>1, <1>2, <1>3, <1>4, <1>5, <1>6, Zenon DEF Todo
<1>7. ASSUME pc = "connected" PROVE t \in Seq(Op)
  BY <1>1, <1>2, <1>3, <1>4, <1>7, Zenon DEF Todo
<1>8. ASSUME pc = "waiting" PROVE t \in Seq(Op)
  BY <1>1, <1>2, <1>3, <1>4, <1>8, Zenon DEF Todo
<1>9. ASSUME pc = "ended" PROVE t \in Seq(Op)
  BY <1>1, <1>2, <1>3, <1>4, <1>5, <1>9, Zenon DEF Todo
<1> QED BY <1>2, <1>6, <1>7, <1>8, <1>9 DEF Todo

LEMMA ConcatenateEmpty ==
    ASSUME NEW x \in Op, NEW y \in Op
    PROVE  /\ <<>> \o <<>> = <<>>
           /\ <<>> \o <<x>> = <<x>> /\ <<x>> \o <<>> = <<x>>
           /\ <<>> \o <<x, y>> = <<x, y>> /\ <<x, y>> \o <<>> = <<x, y>>
<1>1. <<>> \in Seq(Op) /\ <<x>> \in Seq(Op) /\ <<x, y>> \in Seq(Op)
  BY Short
<1> QED BY <1>1, ConcatEmptySeq, Zenon

LEMMA OtherHead ==
    ASSUME NEW t, NEW x, NEW y, NEW z, z # Head(t)
    PROVE  t # <<z>> /\ t # <<z, x>> /\ t # <<z, x, y>>
<1>1. Head(<<z>>) = z /\ Head(<<z, x>>) = z /\ Head(<<z, x, y>>) = z
  BY Evaluate
<1>2. t # <<z>>
  BY <1>1
<1>3. t # <<z, x>>
  BY <1>1
<1>4. t # <<z, x, y>>
  BY <1>1
<1> QED BY <1>2, <1>3, <1>4

LEMMA AllOps ==
    /\ "reset" \in Op /\ "configure" \in Op /\ "await reset" \in Op /\ "await configure" \in Op
    /\ "connected" \in Op /\ "fail" \in Op /\ "resume ok" \in Op /\ "resume failed" \in Op
    /\ "forget" \in Op
BY DEF Op

(* What comes after the operation at the head.                             *)
LEMMA Rest ==
    ASSUME NEW pc, NEW t, Todo(pc, t), t # <<>>
    PROVE  /\ Head(t) = "reset" =>
                  \/ pc = "trying" /\ Tail(t) = <<"configure">>
                  \/ pc \in {"waiting", "ended"} /\ Tail(t) = <<>>
                  \/ pc = "ended" /\ Tail(t) = <<"fail">>
           /\ Head(t) = "await reset" =>
                  \/ pc = "trying" /\ Tail(t) = <<"configure">>
                  \/ pc \in {"waiting", "ended"} /\ Tail(t) = <<>>
                  \/ pc = "ended" /\ Tail(t) = <<"fail">>
           /\ Head(t) = "fail" =>
                  \/ pc = "trying" /\ Tail(t) = <<"configure">>
                  \/ pc \in {"waiting", "ended"} /\ Tail(t) = <<>>
                  \/ pc = "ended" /\ Tail(t) = <<"reset">>
                  \/ pc = "ended" /\ Tail(t) = <<"fail">>
           /\ Head(t) = "resume failed" =>
                  \/ pc = "trying" /\ Tail(t) = <<"forget", "configure">>
                  \/ pc \in {"waiting", "ended"} /\ Tail(t) = <<"forget">>
                  \/ pc = "ended" /\ Tail(t) = <<"forget", "reset">>
                  \/ pc = "ended" /\ Tail(t) = <<"forget", "fail">>
           /\ Head(t) = "forget" =>
                  \/ pc = "trying" /\ Tail(t) = <<"configure">>
                  \/ pc = "connected" /\ Tail(t) = <<>>
                  \/ pc \in {"waiting", "ended"} /\ Tail(t) = <<>>
                  \/ pc = "ended" /\ Tail(t) = <<"reset">>
                  \/ pc = "ended" /\ Tail(t) = <<"fail">>
           /\ Head(t) = "configure" =>
                  \/ pc = "trying" /\ Tail(t) = <<>>
           /\ Head(t) = "await configure" =>
                  \/ pc = "trying" /\ Tail(t) = <<>>
           /\ Head(t) = "connected" =>
                  \/ pc = "connected" /\ Tail(t) = <<>>
           /\ Head(t) = "resume ok" =>
                  \/ pc = "connected" /\ Tail(t) = <<"forget">>
<1>1. ASSUME Head(t) = "reset"
      PROVE  \/ pc = "trying" /\ Tail(t) = <<"configure">>
             \/ pc \in {"waiting", "ended"} /\ Tail(t) = <<>>
             \/ pc = "ended" /\ Tail(t) = <<"fail">>
  <2>1. \A x, y, z \in Op : z # "reset" => t # <<z>> /\ t # <<z, x>> /\ t # <<z, x, y>>
    BY <1>1, OtherHead
  <2>2. \/ pc = "trying" /\ t = <<"reset", "configure">>
        \/ pc \in {"waiting", "ended"} /\ t = <<"reset">>
        \/ pc = "ended" /\ t = <<"reset", "fail">>
    BY <2>1 DEF Todo, Op
  <2>3. /\ Tail(<<"reset", "configure">>) = <<"configure">>
        /\ Tail(<<"reset">>) = <<>>
        /\ Tail(<<"reset", "fail">>) = <<"fail">>
    BY Evaluate
  <2> QED BY <2>2, <2>3, Zenon
<1>2. ASSUME Head(t) = "await reset"
      PROVE  \/ pc = "trying" /\ Tail(t) = <<"configure">>
             \/ pc \in {"waiting", "ended"} /\ Tail(t) = <<>>
             \/ pc = "ended" /\ Tail(t) = <<"fail">>
  <2>1. \A x, y, z \in Op : z # "await reset" => t # <<z>> /\ t # <<z, x>> /\ t # <<z, x, y>>
    BY <1>2, OtherHead
  <2>2. \/ pc = "trying" /\ t = <<"await reset", "configure">>
        \/ pc \in {"waiting", "ended"} /\ t = <<"await reset">>
        \/ pc = "ended" /\ t = <<"await reset", "fail">>
    BY <2>1 DEF Todo, Op
  <2>3. /\ Tail(<<"await reset", "configure">>) = <<"configure">>
        /\ Tail(<<"await reset">>) = <<>>
        /\ Tail(<<"await reset", "fail">>) = <<"fail">>
    BY Evaluate
  <2> QED BY <2>2, <2>3, Zenon
<1>3. ASSUME Head(t) = "fail"
      PROVE  \/ pc = "trying" /\ Tail(t) = <<"configure">>
             \/ pc \in {"waiting", "ended"} /\ Tail(t) = <<>>
             \/ pc = "ended" /\ Tail(t) = <<"reset">>
             \/ pc = "ended" /\ Tail(t) = <<"fail">>
  <2>1. \A x, y, z \in Op : z # "fail" => t # <<z>> /\ t # <<z, x>> /\ t # <<z, x, y>>
    BY <1>3, OtherHead
  <2>2. \/ pc = "trying" /\ t = <<"fail", "configure">>
        \/ pc \in {"waiting", "ended"} /\ t = <<"fail">>
        \/ pc = "ended" /\ t = <<"fail", "reset">>
        \/ pc = "ended" /\ t = <<"fail", "fail">>
    BY <2>1 DEF Todo, Op
  <2>3. /\ Tail(<<"fail", "configure">>) = <<"configure">>
        /\ Tail(<<"fail">>) = <<>>
        /\ Tail(<<"fail", "reset">>) = <<"reset">>
        /\ Tail(<<"fail", "fail">>) = <<"fail">>
    BY Evaluate
  <2> QED BY <2>2, <2>3, Zenon
<1>4. ASSUME Head(t) = "resume failed"
      PROVE  \/ pc = "trying" /\ Tail(t) = <<"forget", "configure">>
             \/ pc \in {"waiting", "ended"} /\ Tail(t) = <<"forget">>
             \/ pc = "ended" /\ Tail(t) = <<"forget", "reset">>
             \/ pc = "ended" /\ Tail(t) = <<"forget", "fail">>
  <2>1. \A x, y, z \in Op : z # "resume failed" => t # <<z>> /\ t # <<z, x>> /\ t # <<z, x, y>>
    BY <1>4, OtherHead
  <2>2. \/ pc = "trying" /\ t = <<"resume failed", "forget", "configure">>
        \/ pc \in {"waiting", "ended"} /\ t = <<"resume failed", "forget">>
        \/ pc = "ended" /\ t = <<"resume failed", "forget", "reset">>
        \/ pc = "ended" /\ t = <<"resume failed", "forget", "fail">>
    BY <2>1 DEF Todo, Op
  <2>3. /\ Tail(<<"resume failed", "forget", "configure">>) = <<"forget", "configure">>
        /\ Tail(<<"resume failed", "forget">>) = <<"forget">>
        /\ Tail(<<"resume failed", "forget", "reset">>) = <<"forget", "reset">>
        /\ Tail(<<"resume failed", "forget", "fail">>) = <<"forget", "fail">>
    BY Evaluate
  <2> QED BY <2>2, <2>3, Zenon
<1>5. ASSUME Head(t) = "forget"
      PROVE  \/ pc = "trying" /\ Tail(t) = <<"configure">>
             \/ pc = "connected" /\ Tail(t) = <<>>
             \/ pc \in {"waiting", "ended"} /\ Tail(t) = <<>>
             \/ pc = "ended" /\ Tail(t) = <<"reset">>
             \/ pc = "ended" /\ Tail(t) = <<"fail">>
  <2>1. \A x, y, z \in Op : z # "forget" => t # <<z>> /\ t # <<z, x>> /\ t # <<z, x, y>>
    BY <1>5, OtherHead
  <2>2. \/ pc = "trying" /\ t = <<"forget", "configure">>
        \/ pc = "connected" /\ t = <<"forget">>
        \/ pc \in {"waiting", "ended"} /\ t = <<"forget">>
        \/ pc = "ended" /\ t = <<"forget", "reset">>
        \/ pc = "ended" /\ t = <<"forget", "fail">>
    BY <2>1 DEF Todo, Op
  <2>3. /\ Tail(<<"forget", "configure">>) = <<"configure">>
        /\ Tail(<<"forget">>) = <<>>
        /\ Tail(<<"forget", "reset">>) = <<"reset">>
        /\ Tail(<<"forget", "fail">>) = <<"fail">>
    BY Evaluate
  <2> QED BY <2>2, <2>3, Zenon
<1>6. ASSUME Head(t) = "configure"
      PROVE  \/ pc = "trying" /\ Tail(t) = <<>>
  <2>1. \A x, y, z \in Op : z # "configure" => t # <<z>> /\ t # <<z, x>> /\ t # <<z, x, y>>
    BY <1>6, OtherHead
  <2>2. \/ pc = "trying" /\ t = <<"configure">>
    BY <2>1 DEF Todo, Op
  <2>3. /\ Tail(<<"configure">>) = <<>>
    BY Evaluate
  <2> QED BY <2>2, <2>3, Zenon
<1>7. ASSUME Head(t) = "await configure"
      PROVE  \/ pc = "trying" /\ Tail(t) = <<>>
  <2>1. \A x, y, z \in Op : z # "await configure" => t # <<z>> /\ t # <<z, x>> /\ t # <<z, x, y>>
    BY <1>7, OtherHead
  <2>2. \/ pc = "trying" /\ t = <<"await configure">>
    BY <2>1 DEF Todo, Op
  <2>3. /\ Tail(<<"await configure">>) = <<>>
    BY Evaluate
  <2> QED BY <2>2, <2>3, Zenon
<1>8. ASSUME Head(t) = "connected"
      PROVE  \/ pc = "connected" /\ Tail(t) = <<>>
  <2>1. \A x, y, z \in Op : z # "connected" => t # <<z>> /\ t # <<z, x>> /\ t # <<z, x, y>>
    BY <1>8, OtherHead
  <2>2. \/ pc = "connected" /\ t = <<"connected">>
    BY <2>1 DEF Todo, Op
  <2>3. /\ Tail(<<"connected">>) = <<>>
    BY Evaluate
  <2> QED BY <2>2, <2>3, Zenon
<1>9. ASSUME Head(t) = "resume ok"
      PROVE  \/ pc = "connected" /\ Tail(t) = <<"forget">>
  <2>1. \A x, y, z \in Op : z # "resume ok" => t # <<z>> /\ t # <<z, x>> /\ t # <<z, x, y>>
    BY <1>9, OtherHead
  <2>2. \/ pc = "connected" /\ t = <<"resume ok", "forget">>
    BY <2>1 DEF Todo, Op
  <2>3. /\ Tail(<<"resume ok", "forget">>) = <<"forget">>
    BY Evaluate
  <2> QED BY <2>2, <2>3, Zenon
<1> QED BY <1>1, <1>2, <1>3, <1>4, <1>5, <1>6, <1>7, <1>8, <1>9

LEMMA TodoReset ==
    ASSUME NEW pc, NEW t, Todo(pc, t), t # <<>>, Head(t) = "reset"
    PROVE  /\ Todo(pc, <<"await reset">> \o Tail(t))
<1>1. /\ <<"await reset">> \o <<"configure">> = <<"await reset", "configure">>
      /\ <<"await reset">> \o <<>> = <<"await reset">>
      /\ <<"await reset">> \o <<"fail">> = <<"await reset", "fail">>
  <2>1. <<"await reset">> \o <<"configure">> = <<"await reset", "configure">>
    BY OneAndOne, AllOps
  <2>2. <<"await reset">> \o <<>> = <<"await reset">>
    BY ConcatenateEmpty, AllOps
  <2>3. <<"await reset">> \o <<"fail">> = <<"await reset", "fail">>
    BY OneAndOne, AllOps
  <2> QED BY <2>1, <2>2, <2>3
<1>2. \/ pc = "trying" /\ Tail(t) = <<"configure">>
      \/ pc \in {"waiting", "ended"} /\ Tail(t) = <<>>
      \/ pc = "ended" /\ Tail(t) = <<"fail">>
  BY Rest
<1> QED BY <1>1, <1>2, Zenon DEF Todo

LEMMA TodoAwaitReset ==
    ASSUME NEW pc, NEW t, Todo(pc, t), t # <<>>, Head(t) = "await reset"
    PROVE  /\ Todo(pc, <<>> \o Tail(t))
           /\ Todo(pc, <<"fail">> \o Tail(t))
<1>1. /\ <<>> \o <<"configure">> = <<"configure">>
      /\ <<>> \o <<>> = <<>>
      /\ <<>> \o <<"fail">> = <<"fail">>
  <2>1. <<>> \o <<"configure">> = <<"configure">>
    BY ConcatenateEmpty, AllOps
  <2>2. <<>> \o <<>> = <<>>
    BY ConcatenateEmpty, AllOps
  <2>3. <<>> \o <<"fail">> = <<"fail">>
    BY ConcatenateEmpty, AllOps
  <2> QED BY <2>1, <2>2, <2>3
<1>2. /\ <<"fail">> \o <<"configure">> = <<"fail", "configure">>
      /\ <<"fail">> \o <<>> = <<"fail">>
      /\ <<"fail">> \o <<"fail">> = <<"fail", "fail">>
  <2>1. <<"fail">> \o <<"configure">> = <<"fail", "configure">>
    BY OneAndOne, AllOps
  <2>2. <<"fail">> \o <<>> = <<"fail">>
    BY ConcatenateEmpty, AllOps
  <2>3. <<"fail">> \o <<"fail">> = <<"fail", "fail">>
    BY OneAndOne, AllOps
  <2> QED BY <2>1, <2>2, <2>3
<1>3. \/ pc = "trying" /\ Tail(t) = <<"configure">>
      \/ pc \in {"waiting", "ended"} /\ Tail(t) = <<>>
      \/ pc = "ended" /\ Tail(t) = <<"fail">>
  BY Rest
<1> QED BY <1>1, <1>2, <1>3, Zenon DEF Todo

LEMMA TodoFail ==
    ASSUME NEW pc, NEW t, Todo(pc, t), t # <<>>, Head(t) = "fail"
    PROVE  /\ Todo(pc, <<"resume failed", "forget">> \o Tail(t))
           /\ Todo(pc, <<"forget">> \o Tail(t))
<1>1. /\ <<"resume failed", "forget">> \o <<"configure">> = <<"resume failed", "forget", "configure">>
      /\ <<"resume failed", "forget">> \o <<>> = <<"resume failed", "forget">>
      /\ <<"resume failed", "forget">> \o <<"reset">> = <<"resume failed", "forget", "reset">>
      /\ <<"resume failed", "forget">> \o <<"fail">> = <<"resume failed", "forget", "fail">>
  <2>1. <<"resume failed", "forget">> \o <<"configure">> = <<"resume failed", "forget", "configure">>
    BY TwoAndOne, AllOps
  <2>2. <<"resume failed", "forget">> \o <<>> = <<"resume failed", "forget">>
    BY ConcatenateEmpty, AllOps
  <2>3. <<"resume failed", "forget">> \o <<"reset">> = <<"resume failed", "forget", "reset">>
    BY TwoAndOne, AllOps
  <2>4. <<"resume failed", "forget">> \o <<"fail">> = <<"resume failed", "forget", "fail">>
    BY TwoAndOne, AllOps
  <2> QED BY <2>1, <2>2, <2>3, <2>4
<1>2. /\ <<"forget">> \o <<"configure">> = <<"forget", "configure">>
      /\ <<"forget">> \o <<>> = <<"forget">>
      /\ <<"forget">> \o <<"reset">> = <<"forget", "reset">>
      /\ <<"forget">> \o <<"fail">> = <<"forget", "fail">>
  <2>1. <<"forget">> \o <<"configure">> = <<"forget", "configure">>
    BY OneAndOne, AllOps
  <2>2. <<"forget">> \o <<>> = <<"forget">>
    BY ConcatenateEmpty, AllOps
  <2>3. <<"forget">> \o <<"reset">> = <<"forget", "reset">>
    BY OneAndOne, AllOps
  <2>4. <<"forget">> \o <<"fail">> = <<"forget", "fail">>
    BY OneAndOne, AllOps
  <2> QED BY <2>1, <2>2, <2>3, <2>4
<1>3. \/ pc = "trying" /\ Tail(t) = <<"configure">>
      \/ pc \in {"waiting", "ended"} /\ Tail(t) = <<>>
      \/ pc = "ended" /\ Tail(t) = <<"reset">>
      \/ pc = "ended" /\ Tail(t) = <<"fail">>
  BY Rest
<1> QED BY <1>1, <1>2, <1>3, Zenon DEF Todo

LEMMA TodoResumeFailed ==
    ASSUME NEW pc, NEW t, Todo(pc, t), t # <<>>, Head(t) = "resume failed"
    PROVE  /\ Todo(pc, <<>> \o Tail(t))
<1>1. /\ <<>> \o <<"forget", "configure">> = <<"forget", "configure">>
      /\ <<>> \o <<"forget">> = <<"forget">>
      /\ <<>> \o <<"forget", "reset">> = <<"forget", "reset">>
      /\ <<>> \o <<"forget", "fail">> = <<"forget", "fail">>
  <2>1. <<>> \o <<"forget", "configure">> = <<"forget", "configure">>
    BY ConcatenateEmpty, AllOps
  <2>2. <<>> \o <<"forget">> = <<"forget">>
    BY ConcatenateEmpty, AllOps
  <2>3. <<>> \o <<"forget", "reset">> = <<"forget", "reset">>
    BY ConcatenateEmpty, AllOps
  <2>4. <<>> \o <<"forget", "fail">> = <<"forget", "fail">>
    BY ConcatenateEmpty, AllOps
  <2> QED BY <2>1, <2>2, <2>3, <2>4
<1>2. \/ pc = "trying" /\ Tail(t) = <<"forget", "configure">>
      \/ pc \in {"waiting", "ended"} /\ Tail(t) = <<"forget">>
      \/ pc = "ended" /\ Tail(t) = <<"forget", "reset">>
      \/ pc = "ended" /\ Tail(t) = <<"forget", "fail">>
  BY Rest
<1> QED BY <1>1, <1>2, Zenon DEF Todo

LEMMA TodoResumeOk ==
    ASSUME NEW pc, NEW t, Todo(pc, t), t # <<>>, Head(t) = "resume ok"
    PROVE  /\ Todo(pc, <<>> \o Tail(t))
<1>1. <<>> \o <<"forget">> = <<"forget">>
  BY ConcatenateEmpty, AllOps
<1>2. \/ pc = "connected" /\ Tail(t) = <<"forget">>
  BY Rest
<1> QED BY <1>1, <1>2, Zenon DEF Todo

LEMMA TodoForget ==
    ASSUME NEW pc, NEW t, Todo(pc, t), t # <<>>, Head(t) = "forget"
    PROVE  /\ Todo(pc, <<>> \o Tail(t))
<1>1. /\ <<>> \o <<"configure">> = <<"configure">>
      /\ <<>> \o <<>> = <<>>
      /\ <<>> \o <<"reset">> = <<"reset">>
      /\ <<>> \o <<"fail">> = <<"fail">>
  <2>1. <<>> \o <<"configure">> = <<"configure">>
    BY ConcatenateEmpty, AllOps
  <2>2. <<>> \o <<>> = <<>>
    BY ConcatenateEmpty, AllOps
  <2>3. <<>> \o <<"reset">> = <<"reset">>
    BY ConcatenateEmpty, AllOps
  <2>4. <<>> \o <<"fail">> = <<"fail">>
    BY ConcatenateEmpty, AllOps
  <2> QED BY <2>1, <2>2, <2>3, <2>4
<1>2. \/ pc = "trying" /\ Tail(t) = <<"configure">>
      \/ pc = "connected" /\ Tail(t) = <<>>
      \/ pc \in {"waiting", "ended"} /\ Tail(t) = <<>>
      \/ pc = "ended" /\ Tail(t) = <<"reset">>
      \/ pc = "ended" /\ Tail(t) = <<"fail">>
  BY Rest
<1> QED BY <1>1, <1>2, Zenon DEF Todo

LEMMA TodoConfigure ==
    ASSUME NEW pc, NEW t, Todo(pc, t), t # <<>>, Head(t) = "configure"
    PROVE  /\ Todo(pc, <<"await configure">> \o Tail(t))
<1>1. <<"await configure">> \o <<>> = <<"await configure">>
  BY ConcatenateEmpty, AllOps
<1>2. \/ pc = "trying" /\ Tail(t) = <<>>
  BY Rest
<1> QED BY <1>1, <1>2, Zenon DEF Todo

LEMMA TodoConnected ==
    ASSUME NEW pc, NEW t, Todo(pc, t), t # <<>>, Head(t) = "connected"
    PROVE  /\ Todo(pc, <<"resume ok", "forget">> \o Tail(t))
           /\ Todo(pc, <<"forget">> \o Tail(t))
<1>1. <<"resume ok", "forget">> \o <<>> = <<"resume ok", "forget">>
  BY ConcatenateEmpty, AllOps
<1>2. <<"forget">> \o <<>> = <<"forget">>
  BY ConcatenateEmpty, AllOps
<1>3. \/ pc = "connected" /\ Tail(t) = <<>>
  BY Rest
<1> QED BY <1>1, <1>2, <1>3, Zenon DEF Todo

-----------------------------------------------------------------------------
(* Types and the shape of todo.                                            *)

LEMMA ThenIs ==
    ASSUME TypeInv, NEW s \in Start, client[s].todo # <<>>, NEW ops \in Seq(Op)
    PROVE  /\ Then(s, ops) \in ClientRecord
           /\ Then(s, ops).pc = client[s].pc
           /\ Then(s, ops).todo = ops \o Tail(client[s].todo)
           /\ Then(s, ops).reply = "none"
           /\ Then(s, ops).answers = client[s].answers
           /\ Then(s, ops).connTimer = client[s].connTimer
<1>1. client[s] \in ClientRecord
  BY DEF TypeInv, TypeOK
<1>2. Tail(client[s].todo) \in Seq(Op)
  BY <1>1, HeadTailProperties DEF ClientRecord
<1>3. ops \o Tail(client[s].todo) \in Seq(Op)
  BY <1>2, ConcatProperties
<1> QED BY <1>1, <1>3 DEF Then, ClientRecord

LEMMA ClientStep ==
    ASSUME TypeInv, NEW s \in Start, NEW c \in ClientRecord,
           client' = [client EXCEPT ![s] = c],
           Todo(c.pc, c.todo), c.pc # "none", client[s].pc # "none",
           c.connTimer => c.pc \in {"trying", "waiting"},
           \A e \in Start : start'[e].outcome = "none" <=> start[e].outcome = "none"
    PROVE  /\ client' \in [Start -> ClientRecord]
           /\ \A e \in Start : client'[e].connTimer => client'[e].pc \in {"trying", "waiting"}
           /\ Shape'
BY DEF TypeInv, TypeOK, Shape

LEMMA StartIs ==
    ASSUME TypeInv, NEW s \in Start, NEW r \in StartRecord, start' = [start EXCEPT ![s] = r],
           r.outcome = "none" <=> start[s].outcome = "none"
    PROVE  /\ start' \in [Start -> StartRecord]
           /\ \A e \in Start : start'[e].outcome = "none" <=> start[e].outcome = "none"
BY DEF TypeInv, TypeOK

LEMMA ResumedIs ==
    ASSUME TypeInv, NEW s \in Start, NEW outcome \in {"ok", "failed"}
    PROVE  /\ Resumed(s, outcome) \in StartRecord
           /\ Resumed(s, outcome).outcome = IF start[s].outcome = "pending" THEN outcome
                                                                           ELSE start[s].outcome
BY DEF TypeInv, TypeOK, Resumed, StartRecord

LEMMA UnawaitedIs ==
    ASSUME TypeInv, NEW s
    PROVE  /\ Unawaited(s) \in Seq(Request)
           /\ Len(Unawaited(s)) = Len(requests)
           /\ \A i \in DOMAIN requests :
                 /\ Unawaited(s)[i].from = requests[i].from
                 /\ Unawaited(s)[i].set = requests[i].set
                 /\ Unawaited(s)[i].awaited <=> requests[i].awaited /\ requests[i].from # s
<1>1. /\ requests \in Seq(Request) /\ DOMAIN requests = 1..Len(requests)
      /\ \A i \in DOMAIN requests : requests[i] \in Request
  BY DEF TypeInv, TypeOK
<1>2. \A i \in DOMAIN requests : Unawaited(s)[i] \in Request
  BY <1>1 DEF Unawaited, Request
<1>3. Unawaited(s) \in [1..Len(requests) -> Request]
  BY <1>1, <1>2 DEF Unawaited
<1>4. Unawaited(s) \in Seq(Request) /\ Len(Unawaited(s)) = Len(requests)
  BY <1>1, <1>3
<1> QED BY <1>1, <1>4 DEF Unawaited, Request

LEMMA ProviderType ==
    ASSUME TypeInv, NEW s \in Start,
           StartTunnel(s) \/ ProviderStep(s) \/ TimerStep(s) \/ StopTunnel
    PROVE  TypeInv'
<1> USE DEF TypeInv
<1>1. ASSUME StartTunnel(s) PROVE TypeInv'
  <2>1. client[s].pc = "none" /\ client[s].todo = <<>>
    BY <1>1 DEF StartTunnel, Shape, Todo
  <2> DEFINE c == [client[s] EXCEPT !.pc = "created"]
             r == [start[s] EXCEPT !.outcome = "pending"]
  <2>2. c \in ClientRecord /\ c.pc = "created" /\ c.todo = <<>> /\ ~c.connTimer
    BY <2>1 DEF TypeOK, ClientRecord
  <2>3. r \in StartRecord /\ r.outcome = "pending"
    BY DEF TypeOK, StartRecord
  <2>4. client' = [client EXCEPT ![s] = c] /\ start' = [start EXCEPT ![s] = r]
    BY <1>1 DEF StartTunnel
  <2> HIDE DEF c, r
  <2>5. Shape'
    BY <2>2, <2>3, <2>4 DEF TypeOK, Shape, Todo
  <2>6. TypeOK'
    <3>1. client' \in [Start -> ClientRecord] /\ start' \in [Start -> StartRecord]
      BY <2>2, <2>3, <2>4 DEF TypeOK
    <3>2. \A e \in Start : client'[e].connTimer => client'[e].pc \in {"trying", "waiting"}
      BY <2>2, <2>4 DEF TypeOK
    <3> QED BY <1>1, <3>1, <3>2 DEF StartTunnel, TypeOK, systemVars
  <2> QED BY <2>5, <2>6
<1>2. ASSUME ApplyFails(s) PROVE TypeInv'
  BY <1>2 DEF ApplyFails, TypeOK, Shape, StartRecord, systemVars, providerVars
<1>3. ASSUME Connect(s) PROVE TypeInv'
  <2>1. client[s].todo = <<>>
    BY <1>3 DEF Connect, Shape, Todo
  <2> DEFINE c == [client[s] EXCEPT !.pc = "setup"]
             r == [start[s] EXCEPT !.timer = "armed"]
  <2>2. c \in ClientRecord /\ c.pc = "setup" /\ c.todo = <<>> /\ ~c.connTimer
    BY <1>3, <2>1 DEF Connect, TypeOK, ClientRecord
  <2>3. r \in StartRecord /\ r.outcome = start[s].outcome
    BY DEF TypeOK, StartRecord
  <2>4. client' = [client EXCEPT ![s] = c] /\ start' = [start EXCEPT ![s] = r]
    BY <1>3 DEF Connect
  <2> HIDE DEF c, r
  <2>5. Shape'
    <3>1. client'[s] = c /\ \A e \in Start \ {s} : client'[e] = client[e]
      BY <2>4 DEF TypeOK
    <3>2. \A e \in Start : start'[e].outcome = start[e].outcome
      BY <2>3, <2>4 DEF TypeOK
    <3>3. Todo(c.pc, c.todo) /\ c.pc # "none" /\ client[s].pc # "none"
      BY <1>3, <2>2 DEF Connect, Todo
    <3> QED BY <3>1, <3>2, <3>3 DEF Shape
  <2>6. TypeOK'
    BY <1>3, <2>2, <2>3, <2>4 DEF Connect, TypeOK, systemVars
  <2> QED BY <2>5, <2>6
<1>4. ASSUME TimerFires(s) PROVE TypeInv'
  BY <1>4 DEF TimerFires, TypeOK, Shape, StartRecord, systemVars, providerVars
<1>5. ASSUME TimerResumes(s) PROVE TypeInv'
  <2> DEFINE d == Resumed(s, "failed")
             r == [d EXCEPT !.timer = "off"]
  <2>1. start' = [start EXCEPT ![s] = r] /\ crashed' \in BOOLEAN
        /\ UNCHANGED <<providerVars, client, systemVars, stopped>>
    BY <1>5 DEF TimerResumes
  <2>2. d \in StartRecord /\ (d.outcome = "none" <=> start[s].outcome = "none")
    BY ResumedIs
  <2> HIDE DEF d
  <2>3. r \in StartRecord /\ r.outcome = d.outcome
    BY <2>2 DEF StartRecord
  <2> HIDE DEF r
  <2>4. /\ start' \in [Start -> StartRecord]
        /\ \A e \in Start : start'[e].outcome = "none" <=> start[e].outcome = "none"
    BY <2>1, <2>2, <2>3, StartIs
  <2> QED BY <2>1, <2>4 DEF TypeOK, Shape, systemVars, providerVars
<1>6. ASSUME StopTunnel PROVE TypeInv'
  <2> DEFINE e == openVPNAdapter
             c == [client[e] EXCEPT !.stopPosted = @ \/ HearsStop(e)]
  <2>1. e \in Start
    BY <1>6 DEF StopTunnel, TypeOK
  <2>2. /\ c \in ClientRecord /\ c.pc = client[e].pc /\ c.todo = client[e].todo
        /\ c.connTimer = client[e].connTimer
    BY <2>1 DEF TypeOK, ClientRecord, HearsStop
  <2>3. client' = [client EXCEPT ![e] = c]
    BY <1>6 DEF StopTunnel
  <2> HIDE DEF c
  <2>4. Shape'
    BY <1>6, <2>1, <2>2, <2>3 DEF StopTunnel, TypeOK, Shape
  <2>5. TypeOK'
    BY <1>6, <2>1, <2>2, <2>3 DEF StopTunnel, TypeOK, systemVars, providerVars
  <2> QED BY <2>4, <2>5
<1> QED BY <1>1, <1>2, <1>3, <1>4, <1>5, <1>6 DEF ProviderStep, TimerStep

LEMMA AtOpIs ==
    ASSUME TypeInv, NEW s \in Start, NEW op, AtOp(s, op)
    PROVE  /\ client[s] \in ClientRecord
           /\ client[s].todo # <<>> /\ Head(client[s].todo) = op
           /\ Todo(client[s].pc, client[s].todo)
           /\ client[s].pc # "none"
           /\ client[s].connTimer => client[s].pc \in {"trying", "waiting"}
BY DEF TypeInv, TypeOK, Shape, Todo, AtOp

(* A step of a handler that leaves the state of the client as it is.       *)
LEMMA ThenType ==
    ASSUME TypeInv, NEW s \in Start, NEW op, AtOp(s, op), NEW ops \in Seq(Op),
           Todo(client[s].pc, ops \o Tail(client[s].todo)),
           NEW c \in ClientRecord,
           c.pc = client[s].pc, c.todo = ops \o Tail(client[s].todo),
           c.connTimer = client[s].connTimer,
           client' = [client EXCEPT ![s] = c],
           \A e \in Start : start'[e].outcome = "none" <=> start[e].outcome = "none"
    PROVE  /\ client' \in [Start -> ClientRecord]
           /\ \A e \in Start : client'[e].connTimer => client'[e].pc \in {"trying", "waiting"}
           /\ Shape'
BY AtOpIs, ClientStep

LEMMA AskType ==
    ASSUME TypeInv, NEW s \in Start, ResetTun(s) \/ Configure(s)
    PROVE  TypeInv'
<1>1. /\ requests \in Seq(Request)
      /\ \A set \in BOOLEAN : [from |-> s, set |-> set, awaited |-> TRUE] \in Request
  BY DEF TypeInv, TypeOK, Request
<1>2. \A set \in BOOLEAN : Append(requests, [from |-> s, set |-> set, awaited |-> TRUE]) \in Seq(Request)
  BY <1>1
<1>3. <<"await reset">> \in Seq(Op) /\ <<"await configure">> \in Seq(Op)
  BY AllOps, Short
<1>4. ASSUME ResetTun(s) PROVE TypeInv'
  <2>1. AtOp(s, "reset") /\ Ask(s, FALSE, "await reset")
    BY <1>4 DEF ResetTun
  <2>2. Todo(client[s].pc, <<"await reset">> \o Tail(client[s].todo))
    BY <2>1, AtOpIs, TodoReset
  <2>3. /\ client' \in [Start -> ClientRecord] /\ Shape'
        /\ \A e \in Start : client'[e].connTimer => client'[e].pc \in {"trying", "waiting"}
    BY <1>3, <2>1, <2>2, AtOpIs, ThenIs, ThenType DEF Ask
  <2> QED BY <1>2, <2>1, <2>3 DEF Ask, TypeInv, TypeOK, providerVars
<1>5. ASSUME Configure(s) PROVE TypeInv'
  <2>1. AtOp(s, "configure") /\ Ask(s, TRUE, "await configure")
    BY <1>5 DEF Configure
  <2>2. Todo(client[s].pc, <<"await configure">> \o Tail(client[s].todo))
    BY <2>1, AtOpIs, TodoConfigure
  <2>3. /\ client' \in [Start -> ClientRecord] /\ Shape'
        /\ \A e \in Start : client'[e].connTimer => client'[e].pc \in {"trying", "waiting"}
    BY <1>3, <2>1, <2>2, AtOpIs, ThenIs, ThenType DEF Ask
  <2> QED BY <1>2, <2>1, <2>3 DEF Ask, TypeInv, TypeOK, providerVars
<1> QED BY <1>4, <1>5

LEMMA ResetEndsType ==
    ASSUME TypeInv, NEW s \in Start, ResetAnswered(s) \/ ResetTimesOut(s)
    PROVE  TypeInv'
<1> DEFINE ops == IF ResetAnswered(s) /\ client[s].reply # "ok" THEN <<"fail">> ELSE <<>>
<1>1. AtOp(s, "await reset") /\ client' = [client EXCEPT ![s] = Then(s, ops)] /\ UNCHANGED start
  BY DEF ResetAnswered, ResetTimesOut
<1>2. ops \in Seq(Op) /\ Todo(client[s].pc, ops \o Tail(client[s].todo))
  <2>1. <<>> \in Seq(Op) /\ <<"fail">> \in Seq(Op)
    BY AllOps, Short
  <2>2. /\ Todo(client[s].pc, <<>> \o Tail(client[s].todo))
        /\ Todo(client[s].pc, <<"fail">> \o Tail(client[s].todo))
    BY <1>1, AtOpIs, TodoAwaitReset
  <2> QED BY <2>1, <2>2
<1> HIDE DEF ops
<1>3. /\ client' \in [Start -> ClientRecord] /\ Shape'
      /\ \A e \in Start : client'[e].connTimer => client'[e].pc \in {"trying", "waiting"}
  BY <1>1, <1>2, AtOpIs, ThenIs, ThenType
<1>4. requests' \in Seq(Request)
  <2>1. CASE ResetAnswered(s)
    BY <2>1 DEF ResetAnswered, systemVars, TypeInv, TypeOK
  <2>2. CASE ResetTimesOut(s)
    BY <2>2, UnawaitedIs DEF ResetTimesOut
  <2> QED BY <2>1, <2>2
<1> QED BY <1>3, <1>4 DEF ResetAnswered, ResetTimesOut, TypeInv, TypeOK, providerVars, systemVars

LEMMA NotEstablishedIs ==
    ASSUME TypeInv, NEW s \in Start, AtOp(s, "await configure")
    PROVE  /\ NotEstablished(s) \in ClientRecord
           /\ NotEstablished(s).pc = "ended"
           /\ NotEstablished(s).todo = <<"fail", "reset">>
           /\ NotEstablished(s).reply = "none"
           /\ NotEstablished(s).answers = client[s].answers
           /\ ~NotEstablished(s).connTimer
<1>1. client[s] \in ClientRecord /\ Tail(client[s].todo) = <<>>
  BY AtOpIs, Rest
<1>2. <<"fail", "reset">> \o <<>> = <<"fail", "reset">> /\ <<"fail", "reset">> \in Seq(Op)
  <2>1. <<"fail", "reset">> \in Seq(Op)
    BY Short, AllOps
  <2> QED BY <2>1, ConcatEmptySeq, Zenon
<1> QED BY <1>1, <1>2 DEF NotEstablished, ClientRecord

LEMMA EstablishedIs ==
    ASSUME TypeInv, NEW s \in Start, AtOp(s, "await configure")
    PROVE  LET c == [Then(s, <<"connected">>) EXCEPT !.pc = "connected", !.connTimer = FALSE]
           IN  /\ c \in ClientRecord /\ c.pc = "connected" /\ c.todo = <<"connected">>
               /\ c.reply = "none" /\ c.answers = client[s].answers /\ ~c.connTimer
<1>1. client[s].todo # <<>> /\ Tail(client[s].todo) = <<>>
  BY AtOpIs, Rest
<1>2. <<"connected">> \o <<>> = <<"connected">> /\ <<"connected">> \in Seq(Op)
  BY ConcatenateEmpty, Short, AllOps
<1> DEFINE d == Then(s, <<"connected">>)
<1>3. /\ d \in ClientRecord /\ d.todo = <<"connected">> /\ d.reply = "none"
      /\ d.answers = client[s].answers
  BY <1>1, <1>2, ThenIs
<1> HIDE DEF d
<1>4. LET c == [d EXCEPT !.pc = "connected", !.connTimer = FALSE]
      IN  /\ c \in ClientRecord /\ c.pc = "connected" /\ c.todo = <<"connected">>
          /\ c.reply = "none" /\ c.answers = client[s].answers /\ ~c.connTimer
  BY <1>3 DEF ClientRecord
<1> QED BY <1>4 DEF d

LEMMA ConfigureEndsType ==
    ASSUME TypeInv, NEW s \in Start,
           Established(s) \/ EstablishFails(s) \/ ConfigureTimesOut(s)
    PROVE  TypeInv'
<1>1. AtOp(s, "await configure") /\ UNCHANGED start
  BY DEF Established, EstablishFails, ConfigureTimesOut
<1>2. client[s].pc # "none" /\ Todo("ended", <<"fail", "reset">>) /\ Todo("connected", <<"connected">>)
  BY <1>1, AtOpIs DEF Todo
<1>3. PICK c \in ClientRecord :
          /\ client' = [client EXCEPT ![s] = c]
          /\ Todo(c.pc, c.todo) /\ c.pc # "none" /\ ~c.connTimer
  <2>1. CASE Established(s)
    BY <1>1, <1>2, <2>1, EstablishedIs DEF Established
  <2>2. CASE EstablishFails(s) \/ ConfigureTimesOut(s)
    BY <1>1, <1>2, <2>2, NotEstablishedIs DEF EstablishFails, ConfigureTimesOut
  <2> QED BY <2>1, <2>2
<1>4. /\ client' \in [Start -> ClientRecord] /\ Shape'
      /\ \A e \in Start : client'[e].connTimer => client'[e].pc \in {"trying", "waiting"}
  BY <1>1, <1>2, <1>3, ClientStep
<1>5. requests' \in Seq(Request)
  <2>1. CASE Established(s) \/ EstablishFails(s)
    BY <2>1 DEF Established, EstablishFails, systemVars, TypeInv, TypeOK
  <2>2. CASE ConfigureTimesOut(s)
    BY <2>2, UnawaitedIs DEF ConfigureTimesOut
  <2> QED BY <2>1, <2>2
<1> QED BY <1>4, <1>5
        DEF Established, EstablishFails, ConfigureTimesOut, TypeInv, TypeOK, providerVars, systemVars

LEMMA CallCompletionIs ==
    ASSUME TypeInv, NEW s \in Start, client[s].todo # <<>>,
           NEW resume \in {"resume ok", "resume failed"}, CallCompletion(s, resume)
    PROVE  \E c \in ClientRecord :
              /\ client' = [client EXCEPT ![s] = c]
              /\ c.pc = client[s].pc /\ c.connTimer = client[s].connTimer /\ c.reply = "none"
              /\ \/ /\ openVPNStartCompletion # None /\ c.answers = openVPNStartCompletion
                    /\ c.todo = <<resume, "forget">> \o Tail(client[s].todo)
                 \/ /\ c.answers = client[s].answers
                    /\ c.todo = <<"forget">> \o Tail(client[s].todo)
<1>1. <<resume, "forget">> \in Seq(Op) /\ <<"forget">> \in Seq(Op)
  <2>1. resume \in Op /\ "forget" \in Op
    BY AllOps
  <2> QED BY <2>1, Short
<1>2. CASE openVPNStartCompletion # None /\ ~start[openVPNStartCompletion].hasResumed
  <2> DEFINE d == Then(s, <<resume, "forget">>)
             c == [d EXCEPT !.answers = openVPNStartCompletion]
  <2>1. /\ d \in ClientRecord /\ d.pc = client[s].pc /\ d.connTimer = client[s].connTimer
        /\ d.reply = "none" /\ d.todo = <<resume, "forget">> \o Tail(client[s].todo)
    BY <1>1, ThenIs
  <2>2. client' = [client EXCEPT ![s] = c]
    BY <1>2 DEF CallCompletion
  <2> HIDE DEF d
  <2>3. /\ c \in ClientRecord /\ c.pc = d.pc /\ c.connTimer = d.connTimer /\ c.reply = d.reply
        /\ c.todo = d.todo /\ c.answers = openVPNStartCompletion
    BY <1>2, <2>1 DEF ClientRecord, TypeInv, TypeOK
  <2> HIDE DEF c
  <2> QED BY <1>2, <2>1, <2>2, <2>3
<1>3. CASE ~(openVPNStartCompletion # None /\ ~start[openVPNStartCompletion].hasResumed)
  <2> DEFINE d == Then(s, <<"forget">>)
  <2>1. /\ d \in ClientRecord /\ d.pc = client[s].pc /\ d.connTimer = client[s].connTimer
        /\ d.reply = "none" /\ d.todo = <<"forget">> \o Tail(client[s].todo)
        /\ d.answers = client[s].answers
    BY <1>1, ThenIs
  <2>2. client' = [client EXCEPT ![s] = d]
    BY <1>3 DEF CallCompletion
  <2> HIDE DEF d
  <2> QED BY <2>1, <2>2
<1> QED BY <1>2, <1>3

LEMMA EventType ==
    ASSUME TypeInv, NEW s \in Start, EventConnected(s) \/ EventFails(s)
    PROVE  TypeInv'
<1>1. ASSUME EventConnected(s) PROVE TypeInv'
  <2>1. AtOp(s, "connected") /\ CallCompletion(s, "resume ok") /\ UNCHANGED start
    BY <1>1 DEF EventConnected
  <2>2. /\ Todo(client[s].pc, <<"resume ok", "forget">> \o Tail(client[s].todo))
        /\ Todo(client[s].pc, <<"forget">> \o Tail(client[s].todo))
    BY <2>1, AtOpIs, TodoConnected
  <2>3. /\ client' \in [Start -> ClientRecord] /\ Shape'
        /\ \A e \in Start : client'[e].connTimer => client'[e].pc \in {"trying", "waiting"}
    <3>0. client[s].todo # <<>>
      BY <2>1, AtOpIs
    <3>c. PICK c \in ClientRecord :
            /\ client' = [client EXCEPT ![s] = c]
            /\ c.pc = client[s].pc /\ c.connTimer = client[s].connTimer /\ c.reply = "none"
            /\ \/ /\ openVPNStartCompletion # None /\ c.answers = openVPNStartCompletion
                  /\ c.todo = <<"resume ok", "forget">> \o Tail(client[s].todo)
               \/ /\ c.answers = client[s].answers
                  /\ c.todo = <<"forget">> \o Tail(client[s].todo)
      BY <2>1, <3>0, CallCompletionIs
    <3>1. Todo(client[s].pc, c.todo)
      BY <2>2, <3>c
    <3>2. client[s].pc # "none" /\ (client[s].connTimer => client[s].pc \in {"trying", "waiting"})
      BY <2>1, AtOpIs
    <3> QED BY <2>1, <3>c, <3>1, <3>2, ClientStep
  <2> QED BY <1>1, <2>3 DEF EventConnected, TypeInv, TypeOK, systemVars
<1>2. ASSUME EventFails(s) PROVE TypeInv'
  <2>1. AtOp(s, "fail") /\ CallCompletion(s, "resume failed") /\ UNCHANGED start
    BY <1>2 DEF EventFails
  <2>2. /\ Todo(client[s].pc, <<"resume failed", "forget">> \o Tail(client[s].todo))
        /\ Todo(client[s].pc, <<"forget">> \o Tail(client[s].todo))
    BY <2>1, AtOpIs, TodoFail
  <2>3. /\ client' \in [Start -> ClientRecord] /\ Shape'
        /\ \A e \in Start : client'[e].connTimer => client'[e].pc \in {"trying", "waiting"}
    <3>0. client[s].todo # <<>>
      BY <2>1, AtOpIs
    <3>c. PICK c \in ClientRecord :
            /\ client' = [client EXCEPT ![s] = c]
            /\ c.pc = client[s].pc /\ c.connTimer = client[s].connTimer /\ c.reply = "none"
            /\ \/ /\ openVPNStartCompletion # None /\ c.answers = openVPNStartCompletion
                  /\ c.todo = <<"resume failed", "forget">> \o Tail(client[s].todo)
               \/ /\ c.answers = client[s].answers
                  /\ c.todo = <<"forget">> \o Tail(client[s].todo)
      BY <2>1, <3>0, CallCompletionIs
    <3>1. Todo(client[s].pc, c.todo)
      BY <2>2, <3>c
    <3>2. client[s].pc # "none" /\ (client[s].connTimer => client[s].pc \in {"trying", "waiting"})
      BY <2>1, AtOpIs
    <3> QED BY <2>1, <3>c, <3>1, <3>2, ClientStep
  <2> QED BY <1>2, <2>3 DEF EventFails, TypeInv, TypeOK, providerVars, systemVars
<1> QED BY <1>1, <1>2

LEMMA CompletionType ==
    ASSUME TypeInv, NEW s \in Start, CompletionResumes(s) \/ ForgetsCompletion(s)
    PROVE  TypeInv'
<1>0. <<>> \in Seq(Op)
  OBVIOUS
<1>1. ASSUME CompletionResumes(s) PROVE TypeInv'
  <2>1. PICK outcome \in {"ok", "failed"} :
          /\ AtOp(s, IF outcome = "ok" THEN "resume ok" ELSE "resume failed")
          /\ start' = [start EXCEPT ![client[s].answers] = Resumed(client[s].answers, outcome)]
          /\ crashed' = (start[client[s].answers].outcome # "pending")
          /\ client' = [client EXCEPT ![s] = Then(s, <<>>)]
          /\ UNCHANGED <<providerVars, systemVars, stopped>>
    BY <1>1 DEF CompletionResumes
  <2>2. Todo(client[s].pc, <<>> \o Tail(client[s].todo))
    BY <2>1, AtOpIs, TodoResumeOk, TodoResumeFailed
  <2>3. /\ start' \in [Start -> StartRecord]
        /\ \A e \in Start : start'[e].outcome = "none" <=> start[e].outcome = "none"
    <3>1. CASE client[s].answers \in Start
      BY <2>1, <3>1, ResumedIs, StartIs
    <3>2. CASE client[s].answers \notin Start
      BY <2>1, <3>2 DEF TypeInv, TypeOK
    <3> QED BY <3>1, <3>2
  <2>4. /\ client' \in [Start -> ClientRecord] /\ Shape'
        /\ \A e \in Start : client'[e].connTimer => client'[e].pc \in {"trying", "waiting"}
    <3> DEFINE c == Then(s, <<>>)
    <3>1. client[s].todo # <<>> /\ client' = [client EXCEPT ![s] = c]
      BY <2>1, AtOpIs
    <3>2. /\ c \in ClientRecord /\ c.pc = client[s].pc /\ c.connTimer = client[s].connTimer
          /\ c.todo = <<>> \o Tail(client[s].todo)
      BY <1>0, <3>1, ThenIs
    <3> HIDE DEF c
    <3>3. PICK op : AtOp(s, op)
      BY <2>1
    <3> QED BY <1>0, <2>2, <2>3, <3>1, <3>2, <3>3, ThenType
  <2> QED BY <2>1, <2>3, <2>4 DEF TypeInv, TypeOK, providerVars, systemVars
<1>2. ASSUME ForgetsCompletion(s) PROVE TypeInv'
  <2> DEFINE d == Then(s, <<>>)
             c == [d EXCEPT !.answers = None]
  <2>1. AtOp(s, "forget") /\ client' = [client EXCEPT ![s] = c] /\ UNCHANGED start
    BY <1>2 DEF ForgetsCompletion
  <2>2. Todo(client[s].pc, <<>> \o Tail(client[s].todo))
    BY <2>1, AtOpIs, TodoForget
  <2>3. /\ d \in ClientRecord /\ d.pc = client[s].pc /\ d.connTimer = client[s].connTimer
        /\ d.todo = <<>> \o Tail(client[s].todo)
    BY <1>0, <2>1, AtOpIs, ThenIs
  <2> HIDE DEF d
  <2>4. /\ c \in ClientRecord /\ c.pc = d.pc /\ c.connTimer = d.connTimer /\ c.todo = d.todo
    BY <2>3 DEF ClientRecord
  <2> HIDE DEF c
  <2>5. /\ client' \in [Start -> ClientRecord] /\ Shape'
        /\ \A e \in Start : client'[e].connTimer => client'[e].pc \in {"trying", "waiting"}
    BY <1>0, <2>1, <2>2, <2>3, <2>4, ThenType
  <2> QED BY <1>2, <2>5 DEF ForgetsCompletion, TypeInv, TypeOK, systemVars
<1> QED BY <1>1, <1>2

(* Every handler of the loop but SetupDone and NewClient.                  *)
Move(p, q, t) ==
    \/ p = "setup" /\ q = "ended" /\ t = <<"fail">>
    \/ p = "trying" /\ q = "waiting" /\ t = <<>>
    \/ p = "connected" /\ q = "waiting" /\ t = <<"reset">>
    \/ p \in {"trying", "waiting"} /\ q = "ended" /\ t = <<"fail">>
    \/ p = "connected" /\ q = "ended" /\ t \in {<<"fail", "reset">>, <<"reset", "fail">>}
    \/ p = "trying" /\ q = "trying" /\ t = <<"reset", "configure">>

LEMMA LoopMove ==
    ASSUME NEW s \in Start,
           SetupFails(s) \/ Terminates(s) \/ TerminatesFatally(s) \/ PushReply(s)
             \/ ConnTimeout(s) \/ GracefulStop(s)
    PROVE  \E q, t : /\ Move(client[s].pc, q, t)
                     /\ ~crashed /\ client[s].todo = <<>> /\ Handles(s, q, t)
<1>1. CASE SetupFails(s)
  BY <1>1 DEF SetupFails, AtLoop, Move
<1>2. CASE Terminates(s)
  BY <1>2 DEF Terminates, AtLoop, Move
<1>3. CASE TerminatesFatally(s)
  BY <1>3 DEF TerminatesFatally, AtLoop, Move
<1>4. CASE PushReply(s)
  BY <1>4 DEF PushReply, AtLoop, Move
<1>5. CASE ConnTimeout(s)
  BY <1>5 DEF ConnTimeout, AtLoop, Move
<1>6. CASE GracefulStop(s)
  BY <1>6 DEF GracefulStop, AtLoop, Move
<1> QED BY <1>1, <1>2, <1>3, <1>4, <1>5, <1>6

LEMMA MoveIs ==
    ASSUME TypeInv, NEW s \in Start, NEW q, NEW t, Move(client[s].pc, q, t), Handles(s, q, t)
    PROVE  \E c \in ClientRecord :
              /\ client' = [client EXCEPT ![s] = c]
              /\ c.pc = q /\ c.todo = t
              /\ c.reply = client[s].reply /\ c.answers = client[s].answers
              /\ Todo(c.pc, c.todo) /\ c.pc # "none" /\ client[s].pc # "none"
              /\ c.connTimer => c.pc \in {"trying", "waiting"}
<1> DEFINE c == [client[s] EXCEPT !.pc = q, !.todo = t, !.connTimer = @ /\ q # "ended"]
<1>1. q \in {"ended", "waiting", "trying"} /\ client[s].pc # "none"
  BY DEF Move
<1>2. Todo(q, t)
  BY Zenon DEF Move, Todo
<1>3. t \in Seq(Op)
  BY <1>2, TodoIsSeq
<1>4. client' = [client EXCEPT ![s] = c]
  BY DEF Handles
<1>5. client[s] \in ClientRecord
  BY DEF TypeInv, TypeOK
<1>6. /\ c \in ClientRecord /\ c.pc = q /\ c.todo = t
      /\ c.reply = client[s].reply /\ c.answers = client[s].answers
      /\ c.connTimer => q # "ended"
  BY <1>1, <1>3, <1>5 DEF ClientRecord
<1> HIDE DEF c
<1> QED BY <1>1, <1>2, <1>4, <1>6

LEMMA LoopType ==
    ASSUME TypeInv, NEW s \in Start, SetupStep(s) \/ LoopStep(s)
    PROVE  TypeInv'
<1>1. CASE SetupFails(s) \/ Terminates(s) \/ TerminatesFatally(s) \/ PushReply(s)
             \/ ConnTimeout(s) \/ GracefulStop(s)
  <2>1. PICK q, t : Move(client[s].pc, q, t) /\ Handles(s, q, t)
    BY <1>1, LoopMove
  <2>2. UNCHANGED <<providerVars, start, systemVars, stopped, crashed>>
    BY <2>1 DEF Handles
  <2>3. PICK c \in ClientRecord :
          /\ client' = [client EXCEPT ![s] = c]
          /\ Todo(c.pc, c.todo) /\ c.pc # "none" /\ client[s].pc # "none"
          /\ c.connTimer => c.pc \in {"trying", "waiting"}
    BY <2>1, MoveIs
  <2>4. /\ client' \in [Start -> ClientRecord] /\ Shape'
        /\ \A e \in Start : client'[e].connTimer => client'[e].pc \in {"trying", "waiting"}
    BY <2>2, <2>3, ClientStep
  <2> QED BY <2>2, <2>4 DEF TypeInv, TypeOK, providerVars, systemVars
<1>2. CASE SetupDone(s) \/ NewClient(s)
  <2>1. /\ client[s] \in ClientRecord /\ client[s].todo = <<>> /\ client[s].pc # "none"
        /\ client[s].generation \in Nat /\ client[s].generation + 1 \in Nat
        /\ UNCHANGED <<openVPNAdapter, openVPNStartCompletion, start, systemVars, stopped, crashed>>
        /\ reasserting' \in BOOLEAN
    BY <1>2 DEF SetupDone, NewClient, AtLoop, TypeInv, TypeOK, providerVars, ClientRecord
  <2>2. PICK c \in ClientRecord :
          client' = [client EXCEPT ![s] = c] /\ c.pc = "trying" /\ c.todo = <<>>
    <3>1. CASE SetupDone(s)
      <4> DEFINE c == [client[s] EXCEPT !.pc = "trying", !.generation = 1, !.connTimer = TRUE]
      <4>1. c \in ClientRecord /\ c.pc = "trying" /\ c.todo = <<>>
        BY <2>1 DEF ClientRecord
      <4>2. client' = [client EXCEPT ![s] = c]
        BY <3>1 DEF SetupDone
      <4> QED BY <4>1, <4>2
    <3>2. CASE NewClient(s)
      <4> DEFINE c == [client[s] EXCEPT !.pc = "trying", !.generation = @ + 1, !.connTimer = TRUE]
      <4>1. c \in ClientRecord /\ c.pc = "trying" /\ c.todo = <<>>
        BY <2>1 DEF ClientRecord
      <4>2. client' = [client EXCEPT ![s] = c]
        BY <3>2 DEF NewClient
      <4> QED BY <4>1, <4>2
    <3> QED BY <1>2, <3>1, <3>2
  <2>3. Todo("trying", <<>>)
    BY DEF Todo
  <2>4. /\ client' \in [Start -> ClientRecord] /\ Shape'
        /\ \A e \in Start : client'[e].connTimer => client'[e].pc \in {"trying", "waiting"}
    BY <2>1, <2>2, <2>3, ClientStep
  <2> QED BY <2>1, <2>4 DEF TypeInv, TypeOK, systemVars
<1> QED BY <1>1, <1>2 DEF SetupStep, LoopStep

LEMMA SystemType ==
    ASSUME TypeInv, Installs \/ Refuses
    PROVE  TypeInv'
<1>1. PICK reply \in {"ok", "error"} : Answers(reply)
  BY DEF Installs, Refuses
<1> DEFINE r == Head(requests)
           c == [client[r.from] EXCEPT !.reply = IF r.awaited THEN reply ELSE @]
<1>2. requests # <<>> /\ requests \in Seq(Request)
  BY <1>1 DEF Answers, TypeInv, TypeOK
<1>3. r \in Request /\ Tail(requests) \in Seq(Request)
  BY <1>2, HeadTailProperties
<1>4. r.from \in Start /\ r.set \in BOOLEAN
  BY <1>3 DEF Request
<1>5. /\ requests' = Tail(requests) /\ client' = [client EXCEPT ![r.from] = c]
      /\ UNCHANGED <<providerVars, start, stopped, crashed>>
  BY <1>1 DEF Answers
<1>6. /\ c \in ClientRecord /\ c.pc = client[r.from].pc /\ c.todo = client[r.from].todo
      /\ c.connTimer = client[r.from].connTimer
  <2>1. client[r.from] \in ClientRecord
    BY <1>4 DEF TypeInv, TypeOK
  <2> HIDE DEF r
  <2>2. CASE r.awaited
    BY <2>1, <2>2 DEF ClientRecord
  <2>3. CASE ~r.awaited
    BY <2>1, <2>3 DEF ClientRecord
  <2> QED BY <2>2, <2>3
<1> HIDE DEF c
<1>7. /\ client' \in [Start -> ClientRecord] /\ Shape'
      /\ \A e \in Start : client'[e].connTimer => client'[e].pc \in {"trying", "waiting"}
  BY <1>4, <1>5, <1>6 DEF TypeInv, TypeOK, Shape
<1>8. settings' \in Start \cup {None} /\ refused' \in BOOLEAN
  <2>1. CASE Installs
    BY <1>4, <2>1 DEF Installs
  <2>2. CASE Refuses
    BY <1>4, <2>2 DEF Refuses, TypeInv, TypeOK
  <2> QED BY <2>1, <2>2
<1> QED BY <1>3, <1>5, <1>7, <1>8 DEF TypeInv, TypeOK, providerVars

LEMMA TypeStep == TypeInv /\ [Next]_vars => TypeInv'
<1>1. ASSUME TypeInv, UNCHANGED vars PROVE TypeInv'
  <2>1. Shape'
    BY <1>1 DEF TypeInv, Shape, vars
  <2>2. TypeOK'
    BY <1>1 DEF TypeInv, TypeOK, vars, providerVars, systemVars
  <2> QED BY <2>1, <2>2 DEF TypeInv
<1>2. ASSUME TypeInv, Next PROVE TypeInv'
  <2>1. ASSUME NEW s \in Start, StartTunnel(s) \/ ProviderStep(s) \/ TimerStep(s) PROVE TypeInv'
    BY <1>2, <2>1, ProviderType
  <2>2. ASSUME StopTunnel PROVE TypeInv'
    <3>1. openVPNAdapter \in Start
      BY <1>2, <2>2 DEF StopTunnel, TypeInv, TypeOK
    <3> QED BY <1>2, <2>2, <3>1, ProviderType
  <2>3. ASSUME NEW s \in Start, SetupStep(s) \/ LoopStep(s) PROVE TypeInv'
    BY <1>2, <2>3, LoopType
  <2>4. ASSUME NEW s \in Start, HandlerStep(s) PROVE TypeInv'
    BY <1>2, <2>4, AskType, ResetEndsType, ConfigureEndsType, EventType, CompletionType DEF HandlerStep
  <2>5. ASSUME Installs \/ Refuses PROVE TypeInv'
    BY <1>2, <2>5, SystemType
  <2> QED BY <1>2, <2>1, <2>2, <2>3, <2>4, <2>5 DEF Next
<1> QED BY <1>1, <1>2

LEMMA InitType == Init => TypeInv
<1> SUFFICES ASSUME Init PROVE TypeInv
  OBVIOUS
<1> DEFINE r == [outcome |-> "none", hasResumed |-> FALSE, timer |-> "off"]
           c == [pc |-> "none", todo |-> <<>>, reply |-> "none", answers |-> None,
                 stopPosted |-> FALSE, connTimer |-> FALSE, generation |-> 0]
<1>1. r \in StartRecord /\ c \in ClientRecord /\ r.outcome = "none"
      /\ c.pc = "none" /\ c.todo = <<>> /\ ~c.connTimer
  BY DEF StartRecord, ClientRecord
<1>2. start = [s \in Start |-> r] /\ client = [s \in Start |-> c]
  BY DEF Init
<1> HIDE DEF r, c
<1>3. TypeOK
  <2>1. /\ client \in [Start -> ClientRecord] /\ start \in [Start -> StartRecord]
        /\ \A s \in Start : ~client[s].connTimer
    BY <1>1, <1>2
  <2>2. requests \in Seq(Request)
    BY DEF Init
  <2> QED BY <2>1, <2>2 DEF Init, TypeOK
<1>4. Shape
  BY <1>1, <1>2 DEF Shape, Todo
<1> QED BY <1>3, <1>4 DEF TypeInv

(* Every variable keeps its type: in particular the connection timeout is  *)
(* armed only while the client tries or waits (conn_timer_start,           *)
(* client_proto_connected, cancel_timers).                                 *)
THEOREM TypeCorrect == Spec => []TypeOK
<1>1. TypeInv => TypeOK
  BY DEF TypeInv
<1> QED BY <1>1, InitType, TypeStep, PTL DEF Spec

-----------------------------------------------------------------------------
(* What a client leaves installed: its settings are to be removed by what  *)
(* it has still to do, or a removal of its own is on its way behind them,  *)
(* or they are gone.                                                       *)
Dirty == {<<"await configure">>, <<"reset">>, <<"reset", "fail">>, <<"fail", "reset">>,
          <<"resume failed", "forget", "reset">>, <<"forget", "reset">>}

Removal(s, i) == requests[i].from = s /\ ~requests[i].set

Clean(s) ==
    /\ settings = s => refused \/ \E i \in DOMAIN requests : Removal(s, i)
    /\ \A i \in DOMAIN requests :
          requests[i].from = s /\ requests[i].set => \E j \in DOMAIN requests : j > i /\ Removal(s, j)

CleanInv == \A s \in Start :
    client[s].pc = "connected" \/ client[s].todo \in Dirty \/ Clean(s)

LEMMA DirtyRest ==
    ASSUME NEW t \in Dirty
    PROVE  /\ Head(t) = "fail" => Tail(t) = <<"reset">>
           /\ Head(t) = "resume failed" => Tail(t) = <<"forget", "reset">>
           /\ Head(t) = "forget" => Tail(t) = <<"reset">>
           /\ Head(t) \notin {"await reset", "resume ok", "configure", "connected"} /\ t # <<>>
<1>1. CASE t = <<"await configure">>
  <2>1. Head(t) = "await configure" /\ t # <<>>
    BY <1>1, Evaluate
  <2> QED BY <2>1
<1>2. CASE t = <<"reset">>
  <2>1. Head(t) = "reset" /\ t # <<>>
    BY <1>2, Evaluate
  <2> QED BY <2>1
<1>3. CASE t = <<"reset", "fail">>
  <2>1. Head(t) = "reset" /\ t # <<>>
    BY <1>3, Evaluate
  <2> QED BY <2>1
<1>4. CASE t = <<"fail", "reset">>
  <2>1. Head(t) = "fail" /\ t # <<>> /\ Tail(t) = <<"reset">>
    BY <1>4, Evaluate
  <2> QED BY <2>1
<1>5. CASE t = <<"resume failed", "forget", "reset">>
  <2>1. Head(t) = "resume failed" /\ t # <<>> /\ Tail(t) = <<"forget", "reset">>
    <3>1. /\ Head(<<"resume failed", "forget", "reset">>) = "resume failed"
          /\ Tail(<<"resume failed", "forget", "reset">>) = <<"forget", "reset">>
          /\ <<"resume failed", "forget", "reset">> # <<>>
      BY Evaluate
    <3> QED BY <1>5, <3>1
  <2> QED BY <2>1
<1>6. CASE t = <<"forget", "reset">>
  <2>1. Head(t) = "forget" /\ t # <<>> /\ Tail(t) = <<"reset">>
    BY <1>6, Evaluate
  <2> QED BY <2>1
<1> QED BY <1>1, <1>2, <1>3, <1>4, <1>5, <1>6 DEF Dirty

LEMMA CleanStep ==
    ASSUME TypeInv, CleanInv, NEW s \in Start, NEW c, client' = [client EXCEPT ![s] = c],
           UNCHANGED <<requests, settings, refused>>,
           c.pc = "connected" \/ c.todo \in Dirty \/ Clean(s)
    PROVE  CleanInv'
<1>1. \A e \in Start : Clean(e)' <=> Clean(e)
  BY DEF Clean, Removal
<1>2. client' \in [Start -> {client[e] : e \in Start} \cup {c}] /\ client'[s] = c
      /\ \A e \in Start \ {s} : client'[e] = client[e]
  BY DEF TypeInv, TypeOK
<1> QED BY <1>1, <1>2 DEF CleanInv

LEMMA CleanAppend ==
    ASSUME TypeInv, NEW s \in Start, NEW set \in BOOLEAN,
           requests' = Append(requests, [from |-> s, set |-> set, awaited |-> TRUE]),
           UNCHANGED <<settings, refused>>
    PROVE  /\ \A e \in Start : Clean(e) /\ (set => e # s) => Clean(e)'
           /\ ~set => Clean(s)'
<1>1. /\ requests \in Seq(Request) /\ Len(requests) \in Nat /\ DOMAIN requests = 1..Len(requests)
      /\ DOMAIN requests' = 1..(Len(requests) + 1)
      /\ \A i \in DOMAIN requests : requests'[i] = requests[i]
      /\ requests'[Len(requests) + 1].from = s /\ requests'[Len(requests) + 1].set = set
  BY DEF TypeInv, TypeOK
<1>2. ASSUME NEW e \in Start, Clean(e), set => e # s PROVE Clean(e)'
  BY <1>1, <1>2 DEF Clean, Removal
<1>3. ASSUME ~set PROVE Clean(s)'
  <2> PICK n \in Nat : n = Len(requests) + 1
    BY <1>1
  <2>1. n \in DOMAIN requests' /\ Removal(s, n)'
    BY <1>1, <1>3 DEF Removal
  <2>2. \A i \in DOMAIN requests' : i < n \/ i = n
    BY <1>1
  <2> QED BY <1>1, <1>3, <2>1, <2>2 DEF Clean, Removal
<1> QED BY <1>2, <1>3

LEMMA CleanUnawaited ==
    ASSUME TypeInv, NEW s \in Start, requests' = Unawaited(s), UNCHANGED <<settings, refused>>
    PROVE  \A e \in Start : Clean(e) => Clean(e)'
<1>1. /\ DOMAIN requests' = DOMAIN requests
      /\ \A i \in DOMAIN requests :
            requests'[i].from = requests[i].from /\ requests'[i].set = requests[i].set
  <2>1. requests \in Seq(Request)
    BY DEF TypeInv, TypeOK
  <2> QED BY <2>1, UnawaitedIs
<1> QED BY <1>1 DEF Clean, Removal

LEMMA CleanAnswer ==
    ASSUME TypeInv, Installs \/ Refuses
    PROVE  \A e \in Start : Clean(e) => Clean(e)'
<1>1. requests # <<>> /\ requests \in Seq(Request) /\ requests' = Tail(requests)
  BY DEF Installs, Refuses, Answers, TypeInv, TypeOK
<1>2. /\ Len(requests) \in Nat \ {0} /\ DOMAIN requests = 1..Len(requests)
      /\ DOMAIN requests' = 1..(Len(requests) - 1)
      /\ \A i \in DOMAIN requests' : requests'[i] = requests[i + 1]
      /\ Head(requests) = requests[1] /\ requests[1] \in Request
  BY <1>1
<1> SUFFICES ASSUME NEW e \in Start, Clean(e) PROVE Clean(e)'
  OBVIOUS
<1>3. \A i \in DOMAIN requests' : Removal(e, i)' <=> Removal(e, i + 1)
  BY <1>2 DEF Removal
<1>4. ASSUME NEW i \in DOMAIN requests, Removal(e, i), i > 1
      PROVE  \E j \in DOMAIN requests' : j = i - 1 /\ Removal(e, j)'
  BY <1>2, <1>3, <1>4
<1>5. ASSUME NEW i \in DOMAIN requests', requests'[i].from = e, requests'[i].set
      PROVE  \E j \in DOMAIN requests' : j > i /\ Removal(e, j)'
  <2>1. PICK j \in DOMAIN requests : j > i + 1 /\ Removal(e, j)
    BY <1>2, <1>5 DEF Clean
  <2> QED BY <1>2, <1>4, <2>1
<1>6. ASSUME settings' = e PROVE refused' \/ \E i \in DOMAIN requests' : Removal(e, i)'
  <2>1. CASE Installs
    <3>1. requests[1].set /\ requests[1].from = e
      BY <1>2, <1>6, <2>1 DEF Installs, None, Start
    <3>2. PICK j \in DOMAIN requests : j > 1 /\ Removal(e, j)
      BY <1>2, <3>1 DEF Clean
    <3> QED BY <1>4, <3>2
  <2>2. CASE Refuses
    <3>1. settings = e /\ (refused => refused') /\ (~requests[1].set => refused')
      BY <1>2, <1>6, <2>2 DEF Refuses
    <3>2. CASE ~refused /\ requests[1].set
      <4>1. PICK j \in DOMAIN requests : Removal(e, j)
        BY <3>1, <3>2 DEF Clean
      <4>2. j > 1
        BY <1>2, <3>2, <4>1 DEF Removal
      <4> QED BY <1>4, <4>1, <4>2
    <3> QED BY <3>1, <3>2
  <2> QED BY <2>1, <2>2
<1> QED BY <1>5, <1>6 DEF Clean

LEMMA CleanHandler ==
    ASSUME TypeInv, CleanInv, NEW s \in Start, HandlerStep(s)
    PROVE  CleanInv'
<1>1. CASE ResetTun(s)
  <2>1. AtOp(s, "reset") /\ Ask(s, FALSE, "await reset")
    BY <1>1 DEF ResetTun
  <2>2. Clean(s)' /\ \A e \in Start : Clean(e) => Clean(e)'
    BY <2>1, CleanAppend DEF Ask
  <2>3. \A e \in Start \ {s} : client'[e] = client[e]
    BY <2>1 DEF Ask, TypeInv, TypeOK
  <2> QED BY <2>2, <2>3 DEF CleanInv
<1>2. CASE Configure(s)
  <2>1. AtOp(s, "configure") /\ Ask(s, TRUE, "await configure")
    BY <1>2 DEF Configure
  <2>2. \A e \in Start \ {s} : (Clean(e) => Clean(e)') /\ client'[e] = client[e]
    BY <2>1, CleanAppend DEF Ask, TypeInv, TypeOK
  <2>3. client'[s].todo = <<"await configure">> \o Tail(client[s].todo)
    <3>1. <<"await configure">> \in Seq(Op)
      BY AllOps, Short
    <3> QED BY <2>1, <3>1, AtOpIs, ThenIs DEF Ask, TypeInv, TypeOK
  <2>4. Tail(client[s].todo) = <<>> /\ <<"await configure">> \o <<>> = <<"await configure">>
    BY <2>1, AtOpIs, Rest, AllOps, ConcatenateEmpty
  <2> QED BY <2>2, <2>3, <2>4 DEF CleanInv, Dirty
<1>3. CASE ResetAnswered(s) \/ ResetTimesOut(s)
  <2>1. AtOp(s, "await reset") /\ UNCHANGED <<settings, refused>>
    BY <1>3 DEF ResetAnswered, ResetTimesOut, systemVars
  <2>2. Clean(s)
    <3>1. client[s].todo \notin Dirty /\ client[s].pc # "connected"
      BY <2>1, AtOpIs, Rest, DirtyRest
    <3> QED BY <3>1 DEF CleanInv
  <2>3. \A e \in Start : Clean(e) => Clean(e)'
    <3>1. CASE ResetAnswered(s)
      BY <3>1 DEF ResetAnswered, systemVars, Clean, Removal
    <3>2. CASE ResetTimesOut(s)
      BY <2>1, <3>2, CleanUnawaited DEF ResetTimesOut
    <3> QED BY <1>3, <3>1, <3>2
  <2>4. \A e \in Start \ {s} : client'[e] = client[e]
    BY <1>3 DEF ResetAnswered, ResetTimesOut, TypeInv, TypeOK
  <2> QED BY <2>2, <2>3, <2>4 DEF CleanInv
<1>4. CASE Established(s)
  <2>1. AtOp(s, "await configure") /\ UNCHANGED <<requests, settings, refused>>
    BY <1>4 DEF Established, systemVars
  <2> QED BY <1>4, <2>1, EstablishedIs, CleanStep DEF Established
<1>5. CASE EstablishFails(s) \/ ConfigureTimesOut(s)
  <2>1. /\ AtOp(s, "await configure") /\ UNCHANGED <<settings, refused>>
        /\ client' = [client EXCEPT ![s] = NotEstablished(s)]
    BY <1>5 DEF EstablishFails, ConfigureTimesOut, systemVars
  <2>2. client'[s].todo \in Dirty /\ \A e \in Start \ {s} : client'[e] = client[e]
    BY <2>1, NotEstablishedIs DEF Dirty, TypeInv, TypeOK
  <2>3. \A e \in Start : Clean(e) => Clean(e)'
    <3>1. CASE EstablishFails(s)
      BY <3>1 DEF EstablishFails, systemVars, Clean, Removal
    <3>2. CASE ConfigureTimesOut(s)
      BY <2>1, <3>2, CleanUnawaited DEF ConfigureTimesOut
    <3> QED BY <1>5, <3>1, <3>2
  <2> QED BY <2>2, <2>3 DEF CleanInv
<1>6. CASE EventConnected(s)
  <2>1. /\ AtOp(s, "connected") /\ CallCompletion(s, "resume ok")
        /\ UNCHANGED <<requests, settings, refused>>
    BY <1>6 DEF EventConnected, systemVars
  <2>2. client[s].todo # <<>> /\ client[s].pc = "connected"
    BY <2>1, AtOpIs, Rest
  <2>3. PICK c \in ClientRecord : client' = [client EXCEPT ![s] = c] /\ c.pc = client[s].pc
    BY <2>1, <2>2, CallCompletionIs
  <2> QED BY <2>1, <2>2, <2>3, CleanStep
<1>7. CASE EventFails(s)
  <2>1. /\ AtOp(s, "fail") /\ CallCompletion(s, "resume failed")
        /\ UNCHANGED <<requests, settings, refused>>
    BY <1>7 DEF EventFails, systemVars
  <2>2. client[s].todo # <<>> /\ Head(client[s].todo) = "fail" /\ client[s].pc # "connected"
    BY <2>1, AtOpIs, Rest
  <2>3. PICK c \in ClientRecord :
          /\ client' = [client EXCEPT ![s] = c]
          /\ \/ c.todo = <<"resume failed", "forget">> \o Tail(client[s].todo)
             \/ c.todo = <<"forget">> \o Tail(client[s].todo)
    BY <2>1, <2>2, CallCompletionIs
  <2>4. CASE client[s].todo \in Dirty
    <3>1. Tail(client[s].todo) = <<"reset">>
      BY <2>2, <2>4, DirtyRest
    <3>2. <<"resume failed", "forget">> \o <<"reset">> = <<"resume failed", "forget", "reset">>
      BY AllOps, TwoAndOne
    <3>3. <<"forget">> \o <<"reset">> = <<"forget", "reset">>
      BY AllOps, OneAndOne
    <3>4. c.todo \in Dirty
      BY <2>3, <3>1, <3>2, <3>3 DEF Dirty
    <3> QED BY <2>1, <2>3, <3>4, CleanStep
  <2>5. CASE client[s].todo \notin Dirty
    BY <2>1, <2>2, <2>3, <2>5, CleanStep DEF CleanInv
  <2> QED BY <2>4, <2>5
<1>8. CASE CompletionResumes(s) \/ ForgetsCompletion(s)
  <2>1. PICK op \in {"resume ok", "resume failed", "forget"} : AtOp(s, op)
    BY <1>8 DEF CompletionResumes, ForgetsCompletion
  <2>2. UNCHANGED <<requests, settings, refused>>
    BY <1>8 DEF CompletionResumes, ForgetsCompletion, systemVars
  <2>3. <<>> \in Seq(Op) /\ client[s].todo # <<>> /\ client[s] \in ClientRecord
    <3>1. client[s].todo # <<>> /\ client[s] \in ClientRecord
      BY <2>1, AtOpIs
    <3> QED BY <3>1, Short, AllOps
  <2>4. <<>> \o Tail(client[s].todo) = Tail(client[s].todo)
    <3>1. Tail(client[s].todo) \in Seq(Op)
      BY <2>3, HeadTailProperties DEF ClientRecord
    <3> QED BY <3>1, ConcatEmptySeq
  <2>5. PICK c : /\ client' = [client EXCEPT ![s] = c]
                 /\ c.pc = client[s].pc /\ c.todo = Tail(client[s].todo)
    <3> DEFINE d == Then(s, <<>>)
    <3>1. d \in ClientRecord /\ d.pc = client[s].pc /\ d.todo = Tail(client[s].todo)
      BY <2>3, <2>4, ThenIs
    <3>2. client' = [client EXCEPT ![s] = d] \/ client' = [client EXCEPT ![s] = [d EXCEPT !.answers = None]]
      BY <1>8 DEF CompletionResumes, ForgetsCompletion
    <3> HIDE DEF d
    <3>3. [d EXCEPT !.answers = None].pc = d.pc /\ [d EXCEPT !.answers = None].todo = d.todo
      BY <3>1 DEF ClientRecord
    <3> QED BY <3>1, <3>2, <3>3
  <2>6. CASE client[s].todo \in Dirty
    <3>1. Tail(client[s].todo) \in Dirty
      BY <2>1, <2>6, AtOpIs, DirtyRest DEF Dirty
    <3> QED BY <2>2, <2>5, <2>6, <3>1, CleanStep
  <2>7. CASE client[s].todo \notin Dirty
    BY <2>2, <2>5, <2>7, CleanStep DEF CleanInv
  <2> QED BY <2>6, <2>7
<1> QED BY <1>1, <1>2, <1>3, <1>4, <1>5, <1>6, <1>7, <1>8 DEF HandlerStep

LEMMA CleanSame ==
    ASSUME CleanInv, UNCHANGED <<requests, settings, refused>>,
           \A e \in Start : /\ client'[e].todo = client[e].todo
                            /\ client[e].pc = "connected" => client'[e].pc = "connected"
    PROVE  CleanInv'
<1>1. \A e \in Start : Clean(e) => Clean(e)'
  BY DEF Clean, Removal
<1> QED BY <1>1 DEF CleanInv

LEMMA CleanProvider ==
    ASSUME TypeInv, CleanInv,
           \/ \E s \in Start : StartTunnel(s) \/ ProviderStep(s) \/ TimerStep(s)
           \/ StopTunnel
    PROVE  CleanInv'
<1>1. UNCHANGED <<requests, settings, refused>>
  BY DEF StartTunnel, ProviderStep, ApplyFails, Connect, TimerStep, TimerFires, TimerResumes,
         StopTunnel, systemVars
<1>2. \A e \in Start : /\ client'[e].todo = client[e].todo
                       /\ client[e].pc = "connected" => client'[e].pc = "connected"
  <2>0. \A e \in Start : client[e] \in ClientRecord
    BY DEF TypeInv, TypeOK
  <2>1. ASSUME NEW s \in Start, StartTunnel(s)
        PROVE  \A e \in Start : /\ client'[e].todo = client[e].todo
                                /\ client[e].pc = "connected" => client'[e].pc = "connected"
    <3>1. client[s].pc = "none" /\ client' = [client EXCEPT ![s] = [client[s] EXCEPT !.pc = "created"]]
      BY <2>1 DEF StartTunnel, TypeInv, Shape
    <3> QED BY <2>0, <3>1 DEF TypeInv, TypeOK, ClientRecord
  <2>2. ASSUME NEW s \in Start, Connect(s)
        PROVE  \A e \in Start : /\ client'[e].todo = client[e].todo
                                /\ client[e].pc = "connected" => client'[e].pc = "connected"
    <3>1. client[s].pc = "created" /\ client' = [client EXCEPT ![s] = [client[s] EXCEPT !.pc = "setup"]]
      BY <2>2 DEF Connect
    <3> QED BY <2>0, <3>1 DEF TypeInv, TypeOK, ClientRecord
  <2>3. ASSUME StopTunnel
        PROVE  \A e \in Start : client'[e].todo = client[e].todo /\ client'[e].pc = client[e].pc
    <3>1. /\ openVPNAdapter \in Start
          /\ client' = [client EXCEPT ![openVPNAdapter] = [client[openVPNAdapter]
                            EXCEPT !.stopPosted = @ \/ HearsStop(openVPNAdapter)]]
      BY <2>3 DEF StopTunnel, TypeInv, TypeOK
    <3> QED BY <2>0, <3>1 DEF TypeInv, TypeOK, ClientRecord
  <2>4. ASSUME NEW s \in Start, ApplyFails(s) \/ TimerStep(s) PROVE client' = client
    BY <2>4 DEF ApplyFails, TimerStep, TimerFires, TimerResumes
  <2> QED BY <2>1, <2>2, <2>3, <2>4 DEF ProviderStep
<1> QED BY <1>1, <1>2, CleanSame

LEMMA CleanLoop ==
    ASSUME TypeInv, CleanInv, NEW s \in Start, SetupStep(s) \/ LoopStep(s)
    PROVE  CleanInv'
<1>1. <<>> \notin Dirty
  BY DirtyRest
<1>2. CASE SetupFails(s) \/ Terminates(s) \/ TerminatesFatally(s) \/ PushReply(s)
             \/ ConnTimeout(s) \/ GracefulStop(s)
  <2>1. PICK q, t : Move(client[s].pc, q, t) /\ client[s].todo = <<>> /\ Handles(s, q, t)
    BY <1>2, LoopMove
  <2>2. UNCHANGED <<requests, settings, refused>>
    BY <2>1 DEF Handles, systemVars
  <2>3. PICK c \in ClientRecord : client' = [client EXCEPT ![s] = c] /\ c.todo = t
    BY <2>1, MoveIs
  <2>4. CASE client[s].pc = "connected"
    <3>1. t \in Dirty
      BY <2>1, <2>4 DEF Move, Dirty
    <3> QED BY <2>2, <2>3, <3>1, CleanStep
  <2>5. CASE client[s].pc # "connected"
    <3>1. Clean(s)
      BY <1>1, <2>1, <2>5 DEF CleanInv
    <3> QED BY <2>2, <2>3, <3>1, CleanStep
  <2> QED BY <2>4, <2>5
<1>3. CASE SetupDone(s) \/ NewClient(s)
  <2>1. Clean(s)
    BY <1>1, <1>3 DEF SetupDone, NewClient, AtLoop, CleanInv
  <2>2. UNCHANGED <<requests, settings, refused>> /\ \E c : client' = [client EXCEPT ![s] = c]
    BY <1>3 DEF SetupDone, NewClient, systemVars
  <2> QED BY <2>1, <2>2, CleanStep
<1> QED BY <1>2, <1>3 DEF SetupStep, LoopStep

LEMMA CleanSystem ==
    ASSUME TypeInv, CleanInv, Installs \/ Refuses
    PROVE  CleanInv'
<1>1. \A e \in Start : client'[e].todo = client[e].todo /\ client'[e].pc = client[e].pc
  <2>1. PICK reply \in {"ok", "error"} : Answers(reply)
    BY DEF Installs, Refuses
  <2>2. \E e, r : client' = [client EXCEPT ![e] = [client[e] EXCEPT !.reply = r]]
    BY <2>1 DEF Answers
  <2>3. \A e \in Start : client[e] \in ClientRecord
    BY DEF TypeInv, TypeOK
  <2> QED BY <2>2, <2>3 DEF TypeInv, TypeOK, ClientRecord
<1> QED BY <1>1, CleanAnswer DEF CleanInv

LEMMA CleanAlways == Spec => [](TypeInv /\ CleanInv)
<1>1. Init => CleanInv
  BY DEF Init, CleanInv, Clean, None, Start
<1>2. TypeInv /\ CleanInv /\ [Next]_vars => CleanInv'
  <2>1. ASSUME TypeInv, CleanInv, UNCHANGED vars PROVE CleanInv'
    BY <2>1, CleanSame DEF vars, systemVars
  <2>2. ASSUME TypeInv, CleanInv, Next PROVE CleanInv'
    BY <2>2, CleanProvider, CleanHandler, CleanLoop, CleanSystem DEF Next
  <2> QED BY <2>1, <2>2
<1> QED BY <1>1, <1>2, InitType, TypeStep, PTL DEF Spec

(* Whatever ends a client, in whatever order starts, semaphores' limits    *)
(* and late answers come, and also if the system starts the provider again *)
(* while an earlier client lives: its settings do not outlive it           *)
(* (resetTun, tun_error, ClientConnect::stop).                             *)
THEOREM CleanCorrect == Spec => []NothingLeftInstalled
<1>1. ASSUME TypeInv, CleanInv PROVE NothingLeftInstalled
  <2> SUFFICES ASSUME NEW s \in Start, Ended(s),
                      \A i \in DOMAIN requests : requests[i].from # s, ~refused
               PROVE  settings # s
    BY DEF NothingLeftInstalled
  <2>1. Clean(s)
    BY <1>1, DirtyRest DEF CleanInv, Ended
  <2> QED BY <2>1 DEF Clean, Removal
<1> QED BY <1>1, CleanAlways, PTL

-----------------------------------------------------------------------------
(* One client at a time.                                                   *)
NoEarlyRestart == "early restart" \notin Faults

Settled(s) == Over(s) /\ Ended(s)

Order == \A s, e \in Start : start[s].outcome # "none" /\ e < s => Settled(e)

LEMMA Alone ==
    ASSUME TypeInv, Order, NEW s \in Start, NEW e \in Start, ~Ended(s), ~Ended(e)
    PROVE  e = s
<1>1. start[s].outcome # "none" /\ start[e].outcome # "none"
  BY DEF Ended, TypeInv, Shape, Todo
<1>2. s \in Int /\ e \in Int
  BY StartsAssumption DEF Start
<1>3. ~(e < s) /\ ~(s < e)
  BY <1>1 DEF Order, Settled
<1> QED BY <1>2, <1>3

LEMMA StepperLives ==
    ASSUME NEW s \in Start, HandlerStep(s) \/ SetupStep(s) \/ LoopStep(s)
    PROVE  ~Ended(s)
<1>1. ASSUME HandlerStep(s) PROVE client[s].todo # <<>>
  BY <1>1 DEF HandlerStep, ResetTun, ResetAnswered, ResetTimesOut, Configure, Established,
     EstablishFails, ConfigureTimesOut, EventConnected, EventFails, CompletionResumes,
     ForgetsCompletion, AtOp
<1>2. ASSUME SetupStep(s) PROVE client[s].pc = "setup"
  BY <1>2 DEF SetupStep, SetupFails, SetupDone, AtLoop
<1>3. ASSUME LoopStep(s) PROVE client[s].pc \in {"trying", "waiting", "connected"}
  BY <1>3 DEF LoopStep, NewClient, Terminates, TerminatesFatally, PushReply, ConnTimeout,
     GracefulStop, AtLoop
<1> QED BY <1>1, <1>2, <1>3 DEF Ended

LEMMA ClientSteps ==
    ASSUME TypeInv, NEW s \in Start, HandlerStep(s) \/ SetupStep(s) \/ LoopStep(s)
    PROVE  /\ \A e \in Start \ {s} : client'[e] = client[e]
           /\ UNCHANGED stopped
           /\ \A e \in Start : start[e].outcome # "pending" => start'[e].outcome = start[e].outcome
           /\ openVPNStartCompletion' \in {openVPNStartCompletion, None}
<1>1. \A e \in Start \ {s} : client'[e] = client[e]
  <2>1. \E c : client' = [client EXCEPT ![s] = c]
    <3>1. CASE SetupStep(s) \/ LoopStep(s)
      BY <3>1 DEF SetupStep, SetupFails, SetupDone, LoopStep, NewClient, Terminates,
         TerminatesFatally, PushReply, ConnTimeout, GracefulStop, Handles
    <3>2. CASE HandlerStep(s)
      BY <3>2 DEF HandlerStep, ResetTun, ResetAnswered, ResetTimesOut, Configure, Established,
         EstablishFails, ConfigureTimesOut, EventConnected, EventFails, CompletionResumes,
         ForgetsCompletion, Ask, CallCompletion
    <3> QED BY <3>1, <3>2
  <2> QED BY <2>1 DEF TypeInv, TypeOK
<1>2. UNCHANGED stopped /\ openVPNStartCompletion' \in {openVPNStartCompletion, None}
  <2>1. CASE SetupStep(s) \/ LoopStep(s)
    BY <2>1 DEF SetupStep, SetupFails, SetupDone, LoopStep, NewClient, Terminates,
       TerminatesFatally, PushReply, ConnTimeout, GracefulStop, Handles, providerVars
  <2>2. CASE HandlerStep(s)
    BY <2>2 DEF HandlerStep, ResetTun, ResetAnswered, ResetTimesOut, Configure, Established,
       EstablishFails, ConfigureTimesOut, EventConnected, EventFails, CompletionResumes,
       ForgetsCompletion, Ask, providerVars
  <2> QED BY <2>1, <2>2
<1>3. \A e \in Start : start[e].outcome # "pending" => start'[e].outcome = start[e].outcome
  <2>1. CASE CompletionResumes(s)
    <3>1. PICK outcome \in {"ok", "failed"} :
            start' = [start EXCEPT ![client[s].answers] = Resumed(client[s].answers, outcome)]
      BY <2>1 DEF CompletionResumes
    <3>2. \A e \in Start : start[e].outcome # "pending" =>
            Resumed(e, outcome).outcome = start[e].outcome
      BY ResumedIs
    <3> QED BY <3>1, <3>2 DEF TypeInv, TypeOK
  <2>2. CASE SetupStep(s) \/ LoopStep(s)
    BY <2>2 DEF SetupStep, SetupFails, SetupDone, LoopStep, NewClient, Terminates,
       TerminatesFatally, PushReply, ConnTimeout, GracefulStop, Handles
  <2>3. CASE HandlerStep(s) /\ ~CompletionResumes(s)
    BY <2>3 DEF HandlerStep, ResetTun, ResetAnswered, ResetTimesOut, Configure, Established,
       EstablishFails, ConfigureTimesOut, EventConnected, EventFails,
       ForgetsCompletion, Ask
  <2> QED BY <2>1, <2>2, <2>3
<1> QED BY <1>1, <1>2, <1>3

LEMMA SystemSteps ==
    ASSUME TypeInv, StopTunnel \/ Installs \/ Refuses
    PROVE  \A e \in Start : /\ client'[e].pc = client[e].pc /\ client'[e].todo = client[e].todo
                            /\ client'[e].answers = client[e].answers
<1>1. \A e \in Start : client[e] \in ClientRecord
  BY DEF TypeInv, TypeOK
<1>2. CASE StopTunnel
  <2> DEFINE s == openVPNAdapter
             c == [client[s] EXCEPT !.stopPosted = @ \/ HearsStop(s)]
  <2>1. s \in Start /\ client' = [client EXCEPT ![s] = c]
    BY <1>2 DEF StopTunnel, TypeInv, TypeOK
  <2>2. c.pc = client[s].pc /\ c.todo = client[s].todo /\ c.answers = client[s].answers
    BY <1>1, <2>1 DEF ClientRecord
  <2> HIDE DEF c, s
  <2> QED BY <2>1, <2>2 DEF TypeInv, TypeOK
<1>3. CASE Installs \/ Refuses
  <2>1. \E e, r : client' = [client EXCEPT ![e] = [client[e] EXCEPT !.reply = r]]
    BY <1>3 DEF Installs, Refuses, Answers
  <2> QED BY <1>1, <2>1 DEF TypeInv, TypeOK, ClientRecord
<1> QED BY <1>2, <1>3

LEMMA OrderStep ==
    ASSUME NoEarlyRestart, TypeInv, TypeInv', Order, Next
    PROVE  Order'
<1>1. \A e \in Start : client[e] \in ClientRecord /\ start[e] \in StartRecord
  BY DEF TypeInv, TypeOK
<1>2. CASE \E s \in Start : HandlerStep(s) \/ SetupStep(s) \/ LoopStep(s)
  <2>1. PICK s \in Start : HandlerStep(s) \/ SetupStep(s) \/ LoopStep(s)
    BY <1>2
  <2>2. ASSUME NEW e \in Start, Settled(e) PROVE Settled(e)'
    BY <2>1, <2>2, StepperLives, ClientSteps DEF Settled, Over, Ended
  <2>3. \A e \in Start : start'[e].outcome # "none" => start[e].outcome # "none"
    BY <2>1, ClientSteps
  <2> QED BY <2>2, <2>3 DEF Order
<1>3. CASE \E s \in Start : StartTunnel(s)
  <2>1. PICK s \in Start : StartTunnel(s)
    BY <1>3
  <2>2. /\ start[s].outcome = "none"
        /\ \A e \in 1..s-1 : Settled(e)
        /\ start' = [start EXCEPT ![s] = [start[s] EXCEPT !.outcome = "pending"]]
        /\ client' = [client EXCEPT ![s] = [client[s] EXCEPT !.pc = "created"]]
        /\ UNCHANGED stopped
    BY <2>1 DEF StartTunnel, Settled, NoEarlyRestart
  <2>3. \A e \in Start : e # s => start'[e] = start[e] /\ client'[e] = client[e]
    BY <2>2 DEF TypeInv, TypeOK
  <2>4. ASSUME NEW e \in Start, Settled(e) PROVE e # s /\ Settled(e)'
    BY <2>2, <2>3, <2>4 DEF Settled, Over, Ended
  <2>5. ASSUME NEW t \in Start, NEW e \in Start, start'[t].outcome # "none", e < t PROVE Settled(e)
    <3>1. CASE t = s
      <4>1. e \in 1..s-1
        BY <2>5, <3>1, StartsAssumption DEF Start
      <4> QED BY <2>2, <4>1
    <3>2. CASE t # s
      BY <2>3, <2>5, <3>2 DEF Order
    <3> QED BY <3>1, <3>2
  <2> QED BY <2>4, <2>5 DEF Order
<1>4. CASE \E s \in Start : ProviderStep(s) \/ TimerStep(s)
  <2>1. PICK s \in Start : ProviderStep(s) \/ TimerStep(s)
    BY <1>4
  <2>2. /\ UNCHANGED stopped
        /\ \A e \in Start : start[e].outcome # "pending" => start'[e].outcome = start[e].outcome
    <3>1. CASE ProviderStep(s)
      BY <1>1, <2>1, <3>1 DEF ProviderStep, ApplyFails, Connect, TypeInv, TypeOK, StartRecord
    <3>2. CASE TimerFires(s)
      BY <1>1, <3>2 DEF TimerFires, TypeInv, TypeOK, StartRecord
    <3>3. CASE TimerResumes(s)
      BY <1>1, <3>3 DEF TimerResumes, Resumed, TypeInv, TypeOK, StartRecord
    <3> QED BY <2>1, <3>1, <3>2, <3>3 DEF TimerStep
  <2>3. \A e \in Start : start'[e].outcome # "none" => start[e].outcome # "none"
    BY <2>2
  <2>4. ASSUME NEW e \in Start, start[e].outcome # "pending" PROVE client'[e] = client[e]
    BY <2>1, <2>4 DEF ProviderStep, ApplyFails, Connect, TimerStep, TimerFires, TimerResumes,
       TypeInv, TypeOK
  <2>5. ASSUME NEW e \in Start, Settled(e) PROVE Settled(e)'
    <3>1. start[e].outcome # "pending"
      BY <2>5 DEF Settled, Over
    <3> QED BY <2>2, <2>4, <2>5, <3>1 DEF Settled, Over, Ended
  <2> QED BY <2>3, <2>5 DEF Order
<1>5. CASE StopTunnel \/ Installs \/ Refuses
  <2>1. UNCHANGED start /\ stopped \subseteq stopped'
    BY <1>5 DEF StopTunnel, Installs, Refuses, Answers
  <2>2. \A e \in Start : client'[e].pc = client[e].pc /\ client'[e].todo = client[e].todo
    BY <1>5, SystemSteps
  <2> QED BY <2>1, <2>2 DEF Order, Settled, Over, Ended
<1> QED BY <1>2, <1>3, <1>4, <1>5 DEF Next

-----------------------------------------------------------------------------
(* Whose completion is stored, and whose a handler has called.             *)
Completion == \A s \in Start :
    /\ ~Ended(s) => openVPNStartCompletion \in {None, s}
    /\ client[s].answers \in {None, s}
    /\ client[s].todo # <<>> /\ Head(client[s].todo) \in {"resume ok", "resume failed"}
         => client[s].answers = s

Quiet(t) == t # <<>> => Head(t) \notin {"resume ok", "resume failed"}

LEMMA HeadOfConcat ==
    ASSUME NEW x \in Op, NEW y \in Op, NEW u \in Seq(Op)
    PROVE  /\ <<x>> \o u # <<>> /\ Head(<<x>> \o u) = x
           /\ <<x, y>> \o u # <<>> /\ Head(<<x, y>> \o u) = x
<1>1. ASSUME NEW v \in Seq(Op), Len(v) > 0, v[1] = x
      PROVE  v \o u # <<>> /\ Head(v \o u) = x
  <2>1. v \o u \in Seq(Op) /\ Len(v \o u) > 0 /\ (v \o u)[1] = x
    BY <1>1, ConcatProperties, LenProperties
  <2> QED BY <2>1
<1>2. /\ <<x>> \in Seq(Op) /\ Len(<<x>>) = 1 /\ <<x>>[1] = x
      /\ <<x, y>> \in Seq(Op) /\ Len(<<x, y>>) = 2 /\ <<x, y>>[1] = x
  BY Short
<1> QED BY <1>1, <1>2

(* A step of a handler that leaves these operations before the rest.       *)
LEMMA ThenHead ==
    ASSUME TypeInv, NEW s \in Start, NEW op, AtOp(s, op), NEW ops \in Seq(Op)
    PROVE  /\ Then(s, ops) \in ClientRecord
           /\ Then(s, ops).pc = client[s].pc /\ Then(s, ops).reply = "none"
           /\ Then(s, ops).answers = client[s].answers
           /\ ops = <<>> => Then(s, ops).todo = Tail(client[s].todo)
           /\ \A x \in Op : ops = <<x>> => Then(s, ops).todo # <<>> /\ Head(Then(s, ops).todo) = x
<1>1. client[s].todo # <<>> /\ client[s] \in ClientRecord
  BY AtOpIs
<1>2. Tail(client[s].todo) \in Seq(Op)
  BY <1>1, HeadTailProperties DEF ClientRecord
<1>3. /\ Then(s, ops) \in ClientRecord
      /\ Then(s, ops).pc = client[s].pc /\ Then(s, ops).reply = "none"
      /\ Then(s, ops).answers = client[s].answers
      /\ Then(s, ops).todo = ops \o Tail(client[s].todo)
  BY <1>1, ThenIs
<1>4. ops = <<>> => ops \o Tail(client[s].todo) = Tail(client[s].todo)
  BY <1>2, ConcatEmptySeq
<1>5. \A x \in Op : ops = <<x>> => ops \o Tail(client[s].todo) # <<>>
                                    /\ Head(ops \o Tail(client[s].todo)) = x
  BY <1>2, HeadOfConcat
<1> QED BY <1>3, <1>4, <1>5

LEMMA QuietRest ==
    ASSUME NEW pc, NEW t, Todo(pc, t), t # <<>>,
           Head(t) \in {"await reset", "resume ok", "resume failed", "forget"}
    PROVE  Quiet(Tail(t))
<1>1. Tail(t) \in {<<>>, <<"configure">>, <<"fail">>, <<"reset">>, <<"forget">>,
                   <<"forget", "configure">>, <<"forget", "reset">>, <<"forget", "fail">>}
  BY Rest
<1>2. \A x : Head(<<x>>) = x
  BY Evaluate
<1>3. \A x, y : Head(<<x, y>>) = x
  BY Evaluate
<1> QED BY <1>1, <1>2, <1>3 DEF Quiet

LEMMA CompletionChange ==
    ASSUME TypeInv, NEW s \in Start, HandlerStep(s) \/ SetupStep(s) \/ LoopStep(s)
    PROVE  \E c :
              /\ client' = [client EXCEPT ![s] = c]
              /\ \/ c.answers \in {client[s].answers, None} /\ Quiet(c.todo)
                 \/ openVPNStartCompletion # None /\ c.answers = openVPNStartCompletion
<1>q. \A x : Head(<<x>>) = x
  BY Evaluate
<1>r. \A x, y : Head(<<x, y>>) = x
  BY Evaluate
<1>e. <<>> \in Seq(Op) /\ \A x \in Op : <<x>> \in Seq(Op)
  BY Short, AllOps
<1>1. CASE SetupFails(s) \/ Terminates(s) \/ TerminatesFatally(s) \/ PushReply(s)
             \/ ConnTimeout(s) \/ GracefulStop(s)
  <2>1. PICK q, t : Move(client[s].pc, q, t) /\ Handles(s, q, t)
    BY <1>1, LoopMove
  <2>2. t \in {<<>>, <<"fail">>, <<"reset">>, <<"fail", "reset">>, <<"reset", "fail">>,
                <<"reset", "configure">>}
    BY <2>1 DEF Move
  <2>3. Quiet(t)
    <3>1. /\ Head(<<"fail">>) = "fail" /\ Head(<<"reset">>) = "reset"
          /\ Head(<<"fail", "reset">>) = "fail" /\ Head(<<"reset", "fail">>) = "reset"
          /\ Head(<<"reset", "configure">>) = "reset"
      BY Evaluate
    <3>2. t # <<>> => Head(t) \in {"fail", "reset"}
      BY <2>2, <3>1, Zenon
    <3> QED BY <3>2 DEF Quiet
  <2> QED BY <2>1, <2>3, MoveIs
<1>2. CASE SetupDone(s)
  <2> DEFINE c == [client[s] EXCEPT !.pc = "trying", !.generation = 1, !.connTimer = TRUE]
  <2>1. client' = [client EXCEPT ![s] = c] /\ client[s].todo = <<>>
    BY <1>2 DEF SetupDone, AtLoop
  <2>2. c.answers = client[s].answers /\ c.todo = <<>>
    BY <2>1 DEF TypeInv, TypeOK, ClientRecord
  <2> QED BY <2>1, <2>2 DEF Quiet
<1>3. CASE NewClient(s)
  <2> DEFINE c == [client[s] EXCEPT !.pc = "trying", !.generation = @ + 1, !.connTimer = TRUE]
  <2>1. client' = [client EXCEPT ![s] = c] /\ client[s].todo = <<>>
    BY <1>3 DEF NewClient, AtLoop
  <2>2. c.answers = client[s].answers /\ c.todo = <<>>
    BY <2>1 DEF TypeInv, TypeOK, ClientRecord
  <2> QED BY <2>1, <2>2 DEF Quiet
<1>4. ASSUME NEW op, AtOp(s, op), NEW x \in Op, x \notin {"resume ok", "resume failed"}
      PROVE  /\ Then(s, <<x>>).answers = client[s].answers
             /\ Quiet(Then(s, <<x>>).todo)
  BY <1>4, <1>e, ThenHead DEF Quiet
<1>5. ASSUME NEW op \in {"await reset", "resume ok", "resume failed", "forget"}, AtOp(s, op)
      PROVE  /\ Then(s, <<>>) \in ClientRecord
             /\ Then(s, <<>>).answers = client[s].answers
             /\ Quiet(Then(s, <<>>).todo)
  <2>1. Then(s, <<>>) \in ClientRecord /\ Then(s, <<>>).answers = client[s].answers
        /\ Then(s, <<>>).todo = Tail(client[s].todo)
    BY <1>5, <1>e, ThenHead
  <2>2. Quiet(Tail(client[s].todo))
    BY <1>5, AtOpIs, QuietRest
  <2> QED BY <2>1, <2>2
<1>6. CASE ResetTun(s) \/ Configure(s)
  <2>1. PICK op \in {"reset", "configure"}, x \in {"await reset", "await configure"} :
          AtOp(s, op) /\ client' = [client EXCEPT ![s] = Then(s, <<x>>)]
    BY <1>6 DEF ResetTun, Configure, Ask
  <2> QED BY <1>4, <2>1, AllOps
<1>7. CASE ResetAnswered(s) \/ ResetTimesOut(s)
  <2>1. /\ AtOp(s, "await reset")
        /\ \/ client' = [client EXCEPT ![s] = Then(s, <<>>)]
           \/ client' = [client EXCEPT ![s] = Then(s, <<"fail">>)]
    BY <1>7 DEF ResetAnswered, ResetTimesOut
  <2> QED BY <1>4, <1>5, <2>1, AllOps
<1>8. CASE Established(s)
  <2> DEFINE c == [Then(s, <<"connected">>) EXCEPT !.pc = "connected", !.connTimer = FALSE]
  <2>1. AtOp(s, "await configure") /\ client' = [client EXCEPT ![s] = c]
    BY <1>8 DEF Established
  <2>2. c.answers = client[s].answers /\ c.todo = <<"connected">>
    BY <2>1, EstablishedIs
  <2> HIDE DEF c
  <2> QED BY <1>q, <2>1, <2>2 DEF Quiet
<1>9. CASE EstablishFails(s) \/ ConfigureTimesOut(s)
  <2>1. AtOp(s, "await configure") /\ client' = [client EXCEPT ![s] = NotEstablished(s)]
    BY <1>9 DEF EstablishFails, ConfigureTimesOut
  <2>2. NotEstablished(s).answers = client[s].answers /\ NotEstablished(s).todo = <<"fail", "reset">>
    BY <2>1, NotEstablishedIs
  <2>3. Quiet(<<"fail", "reset">>)
    BY <1>r DEF Quiet
  <2> QED BY <2>1, <2>2, <2>3
<1>10. CASE EventConnected(s) \/ EventFails(s)
  <2>1. PICK op \in {"connected", "fail"}, resume \in {"resume ok", "resume failed"} :
          AtOp(s, op) /\ CallCompletion(s, resume)
    BY <1>10 DEF EventConnected, EventFails
  <2>2. client[s].todo # <<>> /\ Tail(client[s].todo) \in Seq(Op)
    BY <2>1, AtOpIs, HeadTailProperties DEF ClientRecord
  <2>3. Quiet(<<"forget">> \o Tail(client[s].todo))
    <3>1. Head(<<"forget">> \o Tail(client[s].todo)) = "forget"
      BY <2>2, AllOps, HeadOfConcat
    <3> QED BY <3>1 DEF Quiet
  <2>4. PICK c \in ClientRecord :
          /\ client' = [client EXCEPT ![s] = c]
          /\ \/ openVPNStartCompletion # None /\ c.answers = openVPNStartCompletion
             \/ /\ c.answers = client[s].answers
                /\ c.todo = <<"forget">> \o Tail(client[s].todo)
    BY <2>1, <2>2, CallCompletionIs
  <2> QED BY <2>3, <2>4
<1>11. CASE CompletionResumes(s)
  <2>1. PICK op \in {"resume ok", "resume failed"} :
          AtOp(s, op) /\ client' = [client EXCEPT ![s] = Then(s, <<>>)]
    BY <1>11 DEF CompletionResumes
  <2>2. Then(s, <<>>).answers = client[s].answers /\ Quiet(Then(s, <<>>).todo)
    BY <1>5, <2>1
  <2> QED BY <2>1, <2>2
<1>12. CASE ForgetsCompletion(s)
  <2> DEFINE d == Then(s, <<>>)
             c == [d EXCEPT !.answers = None]
  <2>1. AtOp(s, "forget") /\ client' = [client EXCEPT ![s] = c]
    BY <1>12 DEF ForgetsCompletion
  <2>2. d \in ClientRecord /\ Quiet(d.todo)
    BY <1>5, <2>1
  <2> HIDE DEF d
  <2>3. c.answers = None /\ c.todo = d.todo
    BY <2>2 DEF ClientRecord
  <2> HIDE DEF c
  <2> QED BY <2>1, <2>2, <2>3
<1> QED BY <1>1, <1>2, <1>3, <1>6, <1>7, <1>8, <1>9, <1>10, <1>11, <1>12
      DEF HandlerStep, SetupStep, LoopStep

LEMMA CompletionSame ==
    ASSUME TypeInv, Completion,
           \A e \in Start : /\ Ended(e) => Ended(e)'
                            /\ client'[e].answers = client[e].answers
                            /\ client'[e].todo = client[e].todo,
           UNCHANGED openVPNStartCompletion
    PROVE  Completion'
BY DEF Completion

LEMMA CompletionStep ==
    ASSUME TypeInv, Order, Completion, Next
    PROVE  Completion'
<1>1. \A e \in Start : client[e] \in ClientRecord
  BY DEF TypeInv, TypeOK
<1>2. CASE \E s \in Start : HandlerStep(s) \/ SetupStep(s) \/ LoopStep(s)
  <2>1. PICK s \in Start : HandlerStep(s) \/ SetupStep(s) \/ LoopStep(s)
    BY <1>2
  <2>2. ~Ended(s) /\ \A e \in Start \ {s} : Ended(e) /\ client'[e] = client[e]
    BY <2>1, StepperLives, ClientSteps, Alone
  <2>3. /\ openVPNStartCompletion \in {None, s} /\ client[s].answers \in {None, s}
        /\ openVPNStartCompletion' \in {None, s}
    BY <2>1, <2>2, ClientSteps DEF Completion
  <2>4. PICK c : /\ client' = [client EXCEPT ![s] = c]
                 /\ \/ c.answers \in {client[s].answers, None} /\ Quiet(c.todo)
                    \/ openVPNStartCompletion # None /\ c.answers = openVPNStartCompletion
    BY <2>1, CompletionChange
  <2>5. client'[s] = c
    BY <2>4 DEF TypeInv, TypeOK
  <2>6. \A e \in Start \ {s} : Ended(e)' /\ client'[e].answers = client[e].answers
                               /\ client'[e].todo = client[e].todo
    BY <2>2 DEF Ended
  <2> QED BY <2>3, <2>4, <2>5, <2>6 DEF Completion, Quiet
<1>3. CASE \E s \in Start : StartTunnel(s)
  <2>1. PICK s \in Start : StartTunnel(s)
    BY <1>3
  <2> DEFINE c == [client[s] EXCEPT !.pc = "created"]
  <2>2. client' = [client EXCEPT ![s] = c] /\ UNCHANGED openVPNStartCompletion
    BY <2>1 DEF StartTunnel
  <2>3. c.pc = "created" /\ c.answers = client[s].answers /\ c.todo = client[s].todo
    BY <1>1 DEF ClientRecord
  <2> HIDE DEF c
  <2>4. \A e \in Start : /\ Ended(e) => Ended(e)'
                         /\ client'[e].answers = client[e].answers
                         /\ client'[e].todo = client[e].todo
    BY <2>2, <2>3 DEF Ended, TypeInv, TypeOK
  <2> QED BY <2>2, <2>4, CompletionSame
<1>4. CASE \E s \in Start : Connect(s)
  <2>1. PICK s \in Start : Connect(s)
    BY <1>4
  <2> DEFINE c == [client[s] EXCEPT !.pc = "setup"]
  <2>2. /\ client' = [client EXCEPT ![s] = c] /\ openVPNStartCompletion' = s
        /\ start[s].outcome = "pending"
    BY <2>1 DEF Connect
  <2>3. c.answers = client[s].answers /\ c.todo = client[s].todo
    BY <1>1 DEF ClientRecord
  <2> HIDE DEF c
  <2>4. ASSUME NEW e \in Start \ {s} PROVE Ended(e) /\ client'[e] = client[e]
    <3>1. CASE e < s
      BY <2>2, <3>1 DEF Order, Settled, TypeInv, TypeOK
    <3>2. CASE s < e
      <4>1. start[e].outcome = "none"
        BY <2>2, <3>2 DEF Order, Settled, Over
      <4> QED BY <2>2, <4>1 DEF TypeInv, TypeOK, Shape, Todo, Ended
    <3> QED BY <3>1, <3>2, StartsAssumption DEF Start
  <2>5. \A e \in Start : client'[e].answers = client[e].answers /\ client'[e].todo = client[e].todo
    BY <2>2, <2>3, <2>4 DEF TypeInv, TypeOK
  <2>6. \A e \in Start \ {s} : Ended(e)'
    BY <2>4 DEF Ended
  <2> QED BY <2>2, <2>5, <2>6 DEF Completion
<1>5. CASE \E s \in Start : ApplyFails(s) \/ TimerStep(s)
  <2>1. UNCHANGED <<client, openVPNStartCompletion>>
    BY <1>5 DEF ApplyFails, TimerStep, TimerFires, TimerResumes, providerVars
  <2> QED BY <2>1, CompletionSame DEF Ended
<1>6. CASE StopTunnel \/ Installs \/ Refuses
  <2>1. UNCHANGED openVPNStartCompletion
    BY <1>6 DEF StopTunnel, Installs, Refuses, Answers, providerVars
  <2>2. \A e \in Start : /\ client'[e].pc = client[e].pc /\ client'[e].todo = client[e].todo
                         /\ client'[e].answers = client[e].answers
    BY <1>6, SystemSteps
  <2> QED BY <2>1, <2>2, CompletionSame DEF Ended
<1> QED BY <1>2, <1>3, <1>4, <1>5, <1>6 DEF Next, ProviderStep

-----------------------------------------------------------------------------
(* Only the last request is awaited, by the one client that lives, and an  *)
(* answer that is there is the one to the operation at the head.           *)
Awaits(s, set) ==
    client[s].todo # <<>> /\ Head(client[s].todo) = IF set THEN "await configure" ELSE "await reset"

Awaited == \A i \in DOMAIN requests : requests[i].awaited =>
    /\ i = Len(requests)
    /\ client[requests[i].from].reply = "none"
    /\ Awaits(requests[i].from, requests[i].set)

Replied(s) ==
    /\ client[s].reply # "none" => requests = <<>> /\ (Awaits(s, TRUE) \/ Awaits(s, FALSE))
    /\ client[s].reply = "ok" /\ Awaits(s, TRUE) => settings = s

Tunnel(s) == client[s].pc = "connected" =>
    /\ requests = <<>> /\ settings = s
    /\ client[s].todo # <<"connected">> => ~reasserting

Answered == Awaited /\ \A s \in Start : Replied(s) /\ Tunnel(s)

LEMMA RequestIs ==
    ASSUME TypeInv
    PROVE  /\ Len(requests) \in Nat /\ DOMAIN requests = 1..Len(requests)
           /\ \A i \in DOMAIN requests : requests[i].from \in Start /\ requests[i].set \in BOOLEAN
<1>1. requests \in Seq(Request)
  BY DEF TypeInv, TypeOK
<1>2. \A i \in DOMAIN requests : requests[i] \in Request
  BY <1>1
<1> QED BY <1>1, <1>2 DEF Request

(* A step of the client that lives, which has taken the answer.            *)
LEMMA AnsweredStep ==
    ASSUME TypeInv, Order, Answered, NEW s \in Start, ~Ended(s), NEW c,
           client' = [client EXCEPT ![s] = c], c.reply = "none",
           \A i \in DOMAIN requests' : requests'[i].awaited =>
              /\ i = Len(requests') /\ requests'[i].from = s /\ c.todo # <<>>
              /\ Head(c.todo) = IF requests'[i].set THEN "await configure" ELSE "await reset",
           c.pc = "connected" => /\ requests' = <<>> /\ settings' = s
                                 /\ c.todo # <<"connected">> => ~reasserting'
    PROVE  Answered'
<1>1. client'[s] = c /\ \A e \in Start \ {s} : client'[e] = client[e]
  BY DEF TypeInv, TypeOK
<1>2. Awaited'
  BY <1>1 DEF Awaited, Awaits
<1>3. ASSUME NEW e \in Start \ {s} PROVE (Replied(e) /\ Tunnel(e))'
  <2>1. client[e].todo = <<>> /\ client[e].pc # "connected"
    BY Alone DEF Ended
  <2>2. client[e].reply = "none"
    BY <2>1 DEF Answered, Replied, Awaits
  <2> QED BY <1>1, <2>1, <2>2 DEF Replied, Tunnel
<1>4. (Replied(s) /\ Tunnel(s))'
  BY <1>1 DEF Replied, Tunnel
<1> QED BY <1>2, <1>3, <1>4 DEF Answered

LEMMA AnsweredSame ==
    ASSUME TypeInv, Answered, UNCHANGED <<requests, settings, reasserting>>,
           \A e \in Start : /\ client'[e].todo = client[e].todo
                            /\ client'[e].reply = client[e].reply
                            /\ client'[e].pc = "connected" => client[e].pc = "connected"
    PROVE  Answered'
<1>1. \A i \in DOMAIN requests : requests[i].from \in Start
  BY RequestIs
<1>2. Awaited'
  BY <1>1 DEF Answered, Awaited, Awaits
<1>3. \A e \in Start : (Replied(e) /\ Tunnel(e))'
  BY DEF Answered, Replied, Tunnel, Awaits
<1> QED BY <1>2, <1>3 DEF Answered

LEMMA NoneAwaited ==
    ASSUME TypeInv, Order, Answered, NEW s \in Start, ~Ended(s),
           ~Awaits(s, TRUE), ~Awaits(s, FALSE)
    PROVE  client[s].reply = "none" /\ \A i \in DOMAIN requests : ~requests[i].awaited
<1>1. ASSUME NEW i \in DOMAIN requests PROVE ~requests[i].awaited
  <2> SUFFICES ASSUME requests[i].awaited PROVE FALSE
    OBVIOUS
  <2>1. requests[i].from \in Start /\ requests[i].set \in BOOLEAN
    BY RequestIs
  <2>2. Awaits(requests[i].from, requests[i].set)
    BY DEF Answered, Awaited
  <2>3. requests[i].from = s
    BY <2>1, <2>2, Alone DEF Awaits, Ended
  <2> QED BY <2>1, <2>2, <2>3
<1> QED BY <1>1 DEF Answered, Replied

LEMMA AnsweredHandler ==
    ASSUME TypeInv, Order, Answered, NEW s \in Start, HandlerStep(s)
    PROVE  Answered'
<1>0. ~Ended(s) /\ <<>> \in Seq(Op) /\ \A x \in Op : <<x>> \in Seq(Op)
  BY StepperLives, Short, AllOps
<1>1. ASSUME NEW op, AtOp(s, op), op \notin {"await reset", "await configure"}
      PROVE  client[s].reply = "none" /\ \A i \in DOMAIN requests : ~requests[i].awaited
  BY <1>0, <1>1, AtOpIs, NoneAwaited DEF Awaits
<1>2. ASSUME NEW set \in BOOLEAN, NEW op \in {"reset", "configure"}, AtOp(s, op),
             Ask(s, set, IF set THEN "await configure" ELSE "await reset")
      PROVE  Answered'
  <2> DEFINE x == IF set THEN "await configure" ELSE "await reset"
             c == Then(s, <<x>>)
  <2>1. /\ client' = [client EXCEPT ![s] = c]
        /\ requests' = Append(requests, [from |-> s, set |-> set, awaited |-> TRUE])
    BY <1>2 DEF Ask
  <2>2. x \in Op
    BY AllOps
  <2> HIDE DEF x
  <2>3. /\ c.reply = "none" /\ c.pc = client[s].pc /\ c.todo # <<>> /\ Head(c.todo) = x
    BY <1>0, <1>2, <2>2, ThenHead
  <2>4. client[s].pc # "connected"
    BY <1>2, AtOpIs, Rest
  <2> HIDE DEF c
  <2>5. \A i \in DOMAIN requests' : requests'[i].awaited =>
           i = Len(requests') /\ requests'[i].from = s /\ requests'[i].set = set
    <3>1. /\ DOMAIN requests' = 1..(Len(requests) + 1) /\ Len(requests') = Len(requests) + 1
          /\ \A i \in DOMAIN requests : requests'[i] = requests[i]
          /\ requests'[Len(requests) + 1] = [from |-> s, set |-> set, awaited |-> TRUE]
      BY <2>1 DEF TypeInv, TypeOK
    <3>2. \A i \in DOMAIN requests : ~requests[i].awaited
      BY <1>1, <1>2
    <3>3. \A i \in DOMAIN requests' : i \in DOMAIN requests \/ i = Len(requests) + 1
      BY <3>1, RequestIs
    <3> QED BY <3>1, <3>2, <3>3
  <2>6. \A i \in DOMAIN requests' : requests'[i].awaited =>
           /\ i = Len(requests') /\ requests'[i].from = s /\ c.todo # <<>>
           /\ Head(c.todo) = IF requests'[i].set THEN "await configure" ELSE "await reset"
    BY <2>3, <2>5 DEF x
  <2>7. c.pc # "connected"
    BY <2>3, <2>4
  <2> QED BY <1>0, <2>1, <2>3, <2>6, <2>7, AnsweredStep
<1>3. CASE ResetTun(s)
  <2>1. AtOp(s, "reset") /\ Ask(s, FALSE, "await reset")
    BY <1>3 DEF ResetTun
  <2> QED BY <1>2, <2>1
<1>4. CASE Configure(s)
  <2>1. AtOp(s, "configure") /\ Ask(s, TRUE, "await configure")
    BY <1>4 DEF Configure
  <2> QED BY <1>2, <2>1
<1>d. DOMAIN <<>> = {}
  OBVIOUS
<1>5. ASSUME client[s].reply # "none" PROVE requests = <<>> /\ DOMAIN requests = {}
  <2>1. requests = <<>>
    BY <1>5 DEF Answered, Replied
  <2> QED BY <1>d, <2>1
<1>6. ASSUME requests' = Unawaited(s)
      PROVE  \A i \in DOMAIN requests' : ~requests'[i].awaited
  <2> SUFFICES ASSUME NEW i \in DOMAIN requests', requests'[i].awaited PROVE FALSE
    OBVIOUS
  <2>1. i \in DOMAIN requests
    BY <1>6, RequestIs DEF Unawaited
  <2>2. requests[i].from # s /\ requests[i].awaited
    BY <1>6, <2>1 DEF Unawaited, TypeInv, TypeOK, Request
  <2>3. Awaits(requests[i].from, requests[i].set) /\ requests[i].from \in Start
    BY <2>1, <2>2, RequestIs DEF Answered, Awaited
  <2> QED BY <1>0, <2>2, <2>3, Alone DEF Awaits, Ended
<1>7. CASE ResetAnswered(s) \/ ResetTimesOut(s)
  <2>1. PICK ops \in {<<>>, <<"fail">>} :
          AtOp(s, "await reset") /\ client' = [client EXCEPT ![s] = Then(s, ops)]
    BY <1>7 DEF ResetAnswered, ResetTimesOut
  <2>2. Then(s, ops).reply = "none" /\ Then(s, ops).pc = client[s].pc
    <3>1. ops \in Seq(Op)
      BY <1>0, AllOps
    <3> QED BY <2>1, <3>1, ThenHead
  <2>3. client[s].pc # "connected"
    BY <2>1, AtOpIs, Rest
  <2>4. \A i \in DOMAIN requests' : ~requests'[i].awaited
    <3>1. CASE ResetAnswered(s)
      BY <1>5, <3>1 DEF ResetAnswered, systemVars
    <3>2. CASE ResetTimesOut(s)
      BY <1>6, <3>2 DEF ResetTimesOut
    <3> QED BY <1>7, <3>1, <3>2
  <2> QED BY <1>0, <2>1, <2>2, <2>3, <2>4, AnsweredStep
<1>8. CASE Established(s)
  <2> DEFINE c == [Then(s, <<"connected">>) EXCEPT !.pc = "connected", !.connTimer = FALSE]
  <2>1. /\ AtOp(s, "await configure") /\ client' = [client EXCEPT ![s] = c]
        /\ client[s].reply = "ok" /\ UNCHANGED <<requests, settings>>
    BY <1>8 DEF Established, systemVars
  <2>2. c.reply = "none" /\ c.todo = <<"connected">>
    BY <2>1, EstablishedIs
  <2> HIDE DEF c
  <2>3. requests' = <<>> /\ settings' = s /\ DOMAIN requests' = {}
    BY <1>5, <2>1 DEF AtOp, Answered, Replied, Awaits
  <2> QED BY <1>0, <2>1, <2>2, <2>3, AnsweredStep
<1>9. CASE EstablishFails(s) \/ ConfigureTimesOut(s)
  <2>1. AtOp(s, "await configure") /\ client' = [client EXCEPT ![s] = NotEstablished(s)]
    BY <1>9 DEF EstablishFails, ConfigureTimesOut
  <2>2. NotEstablished(s).reply = "none" /\ NotEstablished(s).pc # "connected"
    BY <2>1, NotEstablishedIs
  <2>3. \A i \in DOMAIN requests' : ~requests'[i].awaited
    <3>1. CASE EstablishFails(s)
      BY <1>5, <3>1 DEF EstablishFails, systemVars
    <3>2. CASE ConfigureTimesOut(s)
      BY <1>6, <3>2 DEF ConfigureTimesOut
    <3> QED BY <1>9, <3>1, <3>2
  <2> QED BY <1>0, <2>1, <2>2, <2>3, AnsweredStep
<1>10. CASE EventConnected(s)
  <2>1. /\ AtOp(s, "connected") /\ CallCompletion(s, "resume ok") /\ ~reasserting'
        /\ UNCHANGED <<requests, settings>>
    BY <1>10 DEF EventConnected, systemVars
  <2>2. client[s].todo # <<>> /\ client[s].pc = "connected"
    BY <2>1, AtOpIs, Rest
  <2>3. PICK c \in ClientRecord : client' = [client EXCEPT ![s] = c] /\ c.reply = "none"
    BY <2>1, <2>2, CallCompletionIs
  <2>4. requests' = <<>> /\ settings' = s /\ DOMAIN requests' = {}
    <3>1. requests' = <<>> /\ settings' = s
      BY <2>1, <2>2 DEF Answered, Tunnel
    <3> QED BY <1>d, <3>1
  <2> QED BY <1>0, <2>1, <2>3, <2>4, AnsweredStep
<1>11. CASE EventFails(s)
  <2>1. AtOp(s, "fail") /\ CallCompletion(s, "resume failed") /\ UNCHANGED requests
    BY <1>11 DEF EventFails, systemVars
  <2>2. client[s].todo # <<>> /\ client[s].pc # "connected"
    BY <2>1, AtOpIs, Rest
  <2>3. PICK c \in ClientRecord :
          client' = [client EXCEPT ![s] = c] /\ c.reply = "none" /\ c.pc = client[s].pc
    BY <2>1, <2>2, CallCompletionIs
  <2> QED BY <1>0, <1>1, <2>1, <2>2, <2>3, AnsweredStep
<1>12. CASE CompletionResumes(s) \/ ForgetsCompletion(s)
  <2>1. PICK op \in {"resume ok", "resume failed", "forget"} : AtOp(s, op)
    BY <1>12 DEF CompletionResumes, ForgetsCompletion
  <2>2. UNCHANGED <<requests, settings, reasserting>>
    BY <1>12 DEF CompletionResumes, ForgetsCompletion, systemVars, providerVars
  <2>3. PICK c : client' = [client EXCEPT ![s] = c] /\ c.pc = client[s].pc /\ c.reply = "none"
    <3> DEFINE d == Then(s, <<>>)
    <3>1. d \in ClientRecord /\ d.pc = client[s].pc /\ d.reply = "none"
      BY <1>0, <2>1, ThenHead
    <3>2. client' = [client EXCEPT ![s] = d] \/ client' = [client EXCEPT ![s] = [d EXCEPT !.answers = None]]
      BY <1>12 DEF CompletionResumes, ForgetsCompletion
    <3> HIDE DEF d
    <3>3. [d EXCEPT !.answers = None].pc = d.pc /\ [d EXCEPT !.answers = None].reply = d.reply
      BY <3>1 DEF ClientRecord
    <3> QED BY <3>1, <3>2, <3>3
  <2>4. client[s].todo # <<"connected">>
    <3>1. Head(<<"connected">>) = "connected"
      BY Evaluate
    <3> QED BY <2>1, <3>1 DEF AtOp
  <2>5. c.pc = "connected" => requests' = <<>> /\ settings' = s /\ ~reasserting'
    BY <2>2, <2>3, <2>4 DEF Answered, Tunnel
  <2>6. \A i \in DOMAIN requests' : ~requests'[i].awaited
    BY <1>1, <2>1, <2>2
  <2> QED BY <1>0, <2>3, <2>5, <2>6, AnsweredStep
<1> QED BY <1>3, <1>4, <1>7, <1>8, <1>9, <1>10, <1>11, <1>12 DEF HandlerStep

LEMMA AnsweredLoop ==
    ASSUME TypeInv, Order, Answered, NEW s \in Start, SetupStep(s) \/ LoopStep(s)
    PROVE  Answered'
<1>1. client[s].todo = <<>> /\ UNCHANGED requests
  BY DEF SetupStep, SetupFails, SetupDone, LoopStep, NewClient, Terminates,
     TerminatesFatally, PushReply, ConnTimeout, GracefulStop, Handles, AtLoop, systemVars
<1>2. client[s].reply = "none" /\ \A i \in DOMAIN requests' : ~requests'[i].awaited
  BY <1>1, StepperLives, NoneAwaited DEF Awaits
<1>3. CASE SetupFails(s) \/ Terminates(s) \/ TerminatesFatally(s) \/ PushReply(s)
             \/ ConnTimeout(s) \/ GracefulStop(s)
  <2>1. PICK q, t : Move(client[s].pc, q, t) /\ Handles(s, q, t)
    BY <1>3, LoopMove
  <2>2. q # "connected"
    BY <2>1 DEF Move
  <2>3. PICK c \in ClientRecord :
          client' = [client EXCEPT ![s] = c] /\ c.pc = q /\ c.reply = client[s].reply
    BY <2>1, MoveIs
  <2> QED BY <1>2, <2>2, <2>3, StepperLives, AnsweredStep
<1>4. CASE SetupDone(s) \/ NewClient(s)
  <2>1. client[s] \in ClientRecord
    BY DEF TypeInv, TypeOK
  <2>2. PICK c : client' = [client EXCEPT ![s] = c] /\ c.pc = "trying" /\ c.reply = client[s].reply
    <3>1. CASE SetupDone(s)
      <4> DEFINE c == [client[s] EXCEPT !.pc = "trying", !.generation = 1, !.connTimer = TRUE]
      <4>1. c.pc = "trying" /\ c.reply = client[s].reply
        BY <2>1 DEF ClientRecord
      <4>2. client' = [client EXCEPT ![s] = c]
        BY <3>1 DEF SetupDone
      <4> QED BY <4>1, <4>2
    <3>2. CASE NewClient(s)
      <4> DEFINE c == [client[s] EXCEPT !.pc = "trying", !.generation = @ + 1, !.connTimer = TRUE]
      <4>1. c.pc = "trying" /\ c.reply = client[s].reply
        BY <2>1 DEF ClientRecord
      <4>2. client' = [client EXCEPT ![s] = c]
        BY <3>2 DEF NewClient
      <4> QED BY <4>1, <4>2
    <3> QED BY <1>4, <3>1, <3>2
  <2> QED BY <1>2, <2>2, StepperLives, AnsweredStep
<1> QED BY <1>3, <1>4 DEF SetupStep, LoopStep

LEMMA AnsweredProvider ==
    ASSUME TypeInv, Answered,
           \/ \E s \in Start : StartTunnel(s) \/ ProviderStep(s) \/ TimerStep(s)
           \/ StopTunnel
    PROVE  Answered'
<1>1. UNCHANGED <<requests, settings, reasserting>>
  BY DEF StartTunnel, ProviderStep, ApplyFails, Connect, TimerStep, TimerFires, TimerResumes,
         StopTunnel, systemVars, providerVars
<1>2. \A e \in Start : client[e] \in ClientRecord
  BY DEF TypeInv, TypeOK
<1>3. ASSUME NEW s \in Start, NEW pc \in {"created", "setup"},
             client' = [client EXCEPT ![s] = [client[s] EXCEPT !.pc = pc]]
      PROVE  Answered'
  <2> DEFINE c == [client[s] EXCEPT !.pc = pc]
  <2>1. c.pc = pc /\ c.todo = client[s].todo /\ c.reply = client[s].reply
    BY <1>2 DEF ClientRecord
  <2>2. client' = [client EXCEPT ![s] = c]
    BY <1>3
  <2> HIDE DEF c
  <2> QED BY <1>1, <2>1, <2>2, AnsweredSame DEF TypeInv, TypeOK
<1>4. ASSUME NEW s \in Start, StartTunnel(s) PROVE Answered'
  BY <1>3, <1>4 DEF StartTunnel
<1>5. ASSUME NEW s \in Start, Connect(s) PROVE Answered'
  BY <1>3, <1>5 DEF Connect
<1>6. ASSUME NEW s \in Start, ApplyFails(s) \/ TimerStep(s) PROVE Answered'
  <2>1. client' = client
    BY <1>6 DEF ApplyFails, TimerStep, TimerFires, TimerResumes
  <2> QED BY <1>1, <2>1, AnsweredSame
<1>7. ASSUME StopTunnel PROVE Answered'
  <2> DEFINE s == openVPNAdapter
             c == [client[s] EXCEPT !.stopPosted = @ \/ HearsStop(s)]
  <2>1. s \in Start /\ client' = [client EXCEPT ![s] = c]
    BY <1>7 DEF StopTunnel, TypeInv, TypeOK
  <2>2. c.pc = client[s].pc /\ c.todo = client[s].todo /\ c.reply = client[s].reply
    BY <1>2, <2>1 DEF ClientRecord
  <2> HIDE DEF c, s
  <2> QED BY <1>1, <2>1, <2>2, AnsweredSame DEF TypeInv, TypeOK
<1> QED BY <1>4, <1>5, <1>6, <1>7 DEF ProviderStep

LEMMA AnsweredSystem ==
    ASSUME TypeInv, Answered, Installs \/ Refuses
    PROVE  Answered'
<1> DEFINE r == Head(requests)
<1>1. PICK reply \in {"ok", "error"} : Answers(reply) /\ (reply = "ok" <=> Installs)
  BY DEF Installs, Refuses, Answers
<1>2. /\ requests # <<>> /\ requests \in Seq(Request) /\ requests' = Tail(requests)
      /\ UNCHANGED reasserting
  BY <1>1 DEF Answers, TypeInv, TypeOK, providerVars
<1>3. /\ Len(requests) \in Nat \ {0} /\ DOMAIN requests = 1..Len(requests)
      /\ Len(requests') = Len(requests) - 1 /\ DOMAIN requests' = 1..(Len(requests) - 1)
      /\ \A i \in DOMAIN requests' : requests'[i] = requests[i + 1]
      /\ r = requests[1] /\ 1 \in DOMAIN requests
  BY <1>2
<1>4. r.from \in Start /\ r.set \in BOOLEAN
  BY <1>3, RequestIs
<1> DEFINE c == [client[r.from] EXCEPT !.reply = IF r.awaited THEN reply ELSE @]
<1>5. client' = [client EXCEPT ![r.from] = c]
  BY <1>1 DEF Answers
<1>6. /\ c.pc = client[r.from].pc /\ c.todo = client[r.from].todo
      /\ c.reply = IF r.awaited THEN reply ELSE client[r.from].reply
  <2>1. client[r.from] \in ClientRecord
    BY <1>4 DEF TypeInv, TypeOK
  <2> QED BY <2>1 DEF ClientRecord
<1> HIDE DEF r, c
<1>7. \A e \in Start : client'[e].pc = client[e].pc /\ client'[e].todo = client[e].todo
  BY <1>4, <1>5, <1>6 DEF TypeInv, TypeOK
<1>8. \A e \in Start : /\ ~(r.awaited /\ e = r.from) => client'[e].reply = client[e].reply
                       /\ r.awaited /\ e = r.from => client'[e].reply = reply
  BY <1>4, <1>5, <1>6 DEF TypeInv, TypeOK
<1>9. \A e \in Start : client[e].reply = "none" /\ client[e].pc # "connected"
  BY <1>2 DEF Answered, Replied, Tunnel
<1>10. r.awaited => Len(requests) = 1 /\ Awaits(r.from, r.set)
  BY <1>3 DEF Answered, Awaited
<1> DEFINE Later(e, set) ==
             /\ client'[e].todo # <<>>
             /\ Head(client'[e].todo) = IF set THEN "await configure" ELSE "await reset"
<1>11. Awaited'
  <2> SUFFICES ASSUME NEW i \in DOMAIN requests', requests'[i].awaited
               PROVE  /\ i = Len(requests') /\ client'[requests'[i].from].reply = "none"
                      /\ Later(requests'[i].from, requests'[i].set)
    BY DEF Awaited, Awaits
  <2>1. /\ i + 1 \in DOMAIN requests /\ requests'[i] = requests[i + 1]
        /\ requests[i + 1].from \in Start
    BY <1>3, RequestIs
  <2>2. i + 1 = Len(requests) /\ Awaits(requests[i + 1].from, requests[i + 1].set)
    BY <2>1 DEF Answered, Awaited
  <2>3. ~r.awaited
    BY <1>3, <1>10, <2>2
  <2>4. Later(requests'[i].from, requests'[i].set)
    BY <1>7, <2>1, <2>2 DEF Awaits
  <2>5. client'[requests'[i].from].reply = "none"
    BY <1>8, <1>9, <2>1, <2>3
  <2>6. i = Len(requests')
    BY <1>3, <2>1, <2>2
  <2> HIDE DEF Later
  <2> QED BY <2>4, <2>5, <2>6
<1>12. ASSUME NEW e \in Start PROVE (Replied(e) /\ Tunnel(e))'
  <2>1. Tunnel(e)'
    BY <1>7, <1>9 DEF Tunnel
  <2>2. CASE client'[e].reply = "none"
    BY <2>1, <2>2 DEF Replied
  <2>3. CASE client'[e].reply # "none"
    <3>1. r.awaited /\ e = r.from /\ client'[e].reply = reply
      BY <1>8, <1>9, <2>3
    <3>2. requests' = <<>>
      BY <1>2, <1>3, <1>10, <3>1
    <3>3. Later(e, r.set)
      BY <1>7, <1>10, <3>1 DEF Awaits
    <3>4. Later(e, TRUE) => r.set
      BY <1>4, <3>3
    <3>5. reply = "ok" /\ r.set => settings' = e
      BY <1>1, <3>1 DEF Installs, r
    <3>6. Awaits(e, TRUE)' \/ Awaits(e, FALSE)'
      BY <1>4, <3>3 DEF Awaits
    <3> QED BY <2>1, <3>1, <3>2, <3>4, <3>5, <3>6 DEF Replied, Awaits
  <2> QED BY <2>2, <2>3
<1> QED BY <1>11, <1>12 DEF Answered

Alive == TypeInv /\ Order /\ Completion /\ Answered

LEMMA AliveAlways ==
    ASSUME NoEarlyRestart
    PROVE  Spec => []Alive
<1>1. Init => Alive
  <2> SUFFICES ASSUME Init PROVE Order /\ Completion /\ Answered
    BY InitType DEF Alive
  <2>1. DOMAIN <<>> = {}
    OBVIOUS
  <2>2. /\ requests = <<>>
        /\ \A s \in Start : /\ start[s].outcome = "none" /\ client[s].pc = "none"
                            /\ client[s].todo = <<>> /\ client[s].answers = None
                            /\ client[s].reply = "none"
    BY DEF Init
  <2>3. Order /\ Completion
    BY <2>2 DEF Order, Completion, Ended
  <2>4. Answered
    BY <2>1, <2>2 DEF Answered, Awaited, Replied, Tunnel
  <2> QED BY <2>3, <2>4
<1>2. Alive /\ [Next]_vars => Alive'
  <2>1. ASSUME Alive, Next PROVE Alive'
    <3>1. TypeInv'
      BY <2>1, TypeStep DEF Alive
    <3>2. Order'
      BY <2>1, <3>1, OrderStep DEF Alive
    <3>3. Completion'
      BY <2>1, CompletionStep DEF Alive
    <3>4. Answered'
      BY <2>1, AnsweredHandler, AnsweredLoop, AnsweredProvider, AnsweredSystem DEF Alive, Next
    <3> QED BY <3>1, <3>2, <3>3, <3>4 DEF Alive
  <2>2. ASSUME Alive, UNCHANGED vars PROVE Alive'
    <3>1. TypeInv'
      BY <2>2, TypeStep DEF Alive
    <3>2. /\ UNCHANGED <<openVPNStartCompletion, reasserting, start, client, requests, settings,
                         stopped>>
      BY <2>2 DEF vars, providerVars, systemVars
    <3>3. Order' /\ Completion'
      BY <2>2, <3>2 DEF Alive, Order, Settled, Over, Ended, Completion
    <3>4. Answered'
      BY <2>2, <3>2, AnsweredSame DEF Alive
    <3> QED BY <3>1, <3>3, <3>4 DEF Alive
  <2> QED BY <2>1, <2>2
<1> QED BY <1>1, <1>2, PTL DEF Spec

(* A tunnel that works is not shown as reasserting, whatever number of     *)
(* starts failed while they reconnected (handleEvent), unless the system   *)
(* starts the provider again beside a client that still reconnects.        *)
THEOREM ReassertingCorrect ==
    ASSUME NoEarlyRestart
    PROVE  Spec => []ReassertingIsOver
<1>1. <<"connected">> # <<>>
  BY Evaluate
<1>2. Alive => ReassertingIsOver
  BY <1>1 DEF Alive, Answered, Tunnel, ReassertingIsOver, AtLoop
<1> QED BY <1>2, AliveAlways, PTL

(* A start succeeds only with its own settings installed and its own       *)
(* client connected, whatever requests of it or of earlier starts timed    *)
(* out and were answered since (establishTunnel, handleEvent).             *)
THEOREM SuccessCorrect ==
    ASSUME NoEarlyRestart
    PROVE  Spec => SuccessHasTunnel
<1> DEFINE Success == \A s \in Start : start[s].outcome = "pending" /\ start'[s].outcome = "ok"
                                          => settings = s /\ client[s].pc = "connected"
<1>1. ASSUME Alive, [Next]_vars PROVE Success
  <2> SUFFICES ASSUME NEW s \in Start, start[s].outcome = "pending", start'[s].outcome = "ok"
               PROVE  settings = s /\ client[s].pc = "connected"
    OBVIOUS
  <2>0. \A e \in Start : start[e] \in StartRecord
    BY <1>1 DEF Alive, TypeInv, TypeOK
  <2>1. PICK e \in Start : CompletionResumes(e)
    <3>1. CASE UNCHANGED start
      BY <3>1
    <3>2. ASSUME NEW e \in Start, StartTunnel(e) PROVE FALSE
      BY <1>1, <2>0, <3>2 DEF StartTunnel, Alive, TypeInv, TypeOK, StartRecord
    <3>3. ASSUME NEW e \in Start, ProviderStep(e) PROVE FALSE
      BY <1>1, <2>0, <3>3 DEF ProviderStep, ApplyFails, Connect, Alive, TypeInv, TypeOK, StartRecord
    <3>4. ASSUME NEW e \in Start, TimerFires(e) PROVE FALSE
      BY <1>1, <2>0, <3>4 DEF TimerFires, Alive, TypeInv, TypeOK, StartRecord
    <3>5. ASSUME NEW e \in Start, TimerResumes(e) PROVE FALSE
      <4> DEFINE d == Resumed(e, "failed")
                 c == [d EXCEPT !.timer = "off"]
      <4>1. start' = [start EXCEPT ![e] = c]
        BY <3>5 DEF TimerResumes
      <4>2. (d \in StartRecord /\ d.outcome # "ok") \/ start[e].outcome = "ok"
        BY <1>1, ResumedIs DEF Alive
      <4>3. d \in StartRecord
        BY <1>1, ResumedIs DEF Alive
      <4> HIDE DEF d
      <4>4. c.outcome = d.outcome
        BY <4>3 DEF StartRecord
      <4> HIDE DEF c
      <4> QED BY <1>1, <4>1, <4>2, <4>4 DEF Alive, TypeInv, TypeOK
    <3>6. ASSUME NEW e \in Start, SetupStep(e) \/ LoopStep(e) PROVE UNCHANGED start
      BY <3>6 DEF SetupStep, SetupFails, SetupDone, LoopStep, NewClient, Terminates,
         TerminatesFatally, PushReply, ConnTimeout, GracefulStop, Handles
    <3>7. ASSUME NEW e \in Start, HandlerStep(e), ~CompletionResumes(e) PROVE UNCHANGED start
      BY <3>7 DEF HandlerStep, ResetTun, ResetAnswered, ResetTimesOut, Configure, Established,
         EstablishFails, ConfigureTimesOut, EventConnected, EventFails, ForgetsCompletion, Ask
    <3>8. StopTunnel \/ Installs \/ Refuses \/ UNCHANGED vars => UNCHANGED start
      BY DEF StopTunnel, Installs, Refuses, Answers, vars
    <3> QED BY <1>1, <3>1, <3>2, <3>3, <3>4, <3>5, <3>6, <3>7, <3>8 DEF Next, TimerStep
  <2>2. PICK outcome \in {"ok", "failed"} :
          /\ AtOp(e, IF outcome = "ok" THEN "resume ok" ELSE "resume failed")
          /\ start' = [start EXCEPT ![client[e].answers] = Resumed(client[e].answers, outcome)]
    BY <2>1 DEF CompletionResumes
  <2>3. client[e].answers = e
    BY <1>1, <2>2 DEF Alive, Completion, AtOp
  <2>4. s = e /\ outcome = "ok"
    BY <1>1, <2>2, <2>3, ResumedIs DEF Alive, TypeInv, TypeOK
  <2>5. client[s].pc = "connected"
    BY <1>1, <2>2, <2>4, AtOpIs, Rest DEF Alive
  <2> QED BY <1>1, <2>5 DEF Alive, Answered, Tunnel
<1>2. Spec => [][Success]_vars
  BY <1>1, AliveAlways, PTL DEF Spec
<1> QED BY <1>2 DEF SuccessHasTunnel
===============================================================================
