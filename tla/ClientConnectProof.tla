-------------------------- MODULE ClientConnectProof --------------------------
(***************************************************************************)
(* Proofs about ClientConnect for every list of remotes, every answer of   *)
(* the resolver, and every queue: types first, operator by operator, then  *)
(* the safety invariants, which are inductive together with the types.     *)
(***************************************************************************)
EXTENDS ClientConnect, FiniteSetTheorems, TLAPS

IndexOf(entries) == [primary : 1..Len(entries), secondary : Nat \ {0}]

--------------------------------------------------------------------------------
(* The operators of RemoteList.                                            *)

(* increment stays within the list.                                        *)
LEMMA IncrementType ==
    ASSUME NEW entries \in Seq(Entry), NEW i \in IndexOf(entries), NEW n \in Nat
    PROVE  Increment(i, Len(entries), n) \in IndexOf(entries)
BY DEF Increment, IndexOf

(* Forgetting or setting the addresses of an entry keeps its line.         *)
LEMMA ResetItemType ==
    ASSUME NEW entries \in Seq(Entry), NEW i \in 1..Len(entries)
    PROVE  /\ ResetItem(entries, i) \in Seq(Entry)
           /\ Len(ResetItem(entries, i)) = Len(entries)
           /\ \A j \in 1..Len(entries) : ResetItem(entries, i)[j].line = entries[j].line
<1> DEFINE new == [entries[i] EXCEPT !.addrs = << >>]
<1>1. entries[i] \in Entry
  OBVIOUS
<1>2. << >> \in Seq(Address)
  OBVIOUS
<1>3. new \in Entry /\ new.line = entries[i].line
  BY <1>1, <1>2 DEF Entry
<1>4. CASE cache
  BY <1>4 DEF ResetItem
<1>5. CASE ~cache
  <2>1. ResetItem(entries, i) = [entries EXCEPT ![i] = new]
    BY <1>5 DEF ResetItem
  <2> HIDE DEF new
  <2> QED BY <1>3, <2>1
<1> QED BY <1>4, <1>5

LEMMA ResolvedType ==
    ASSUME NEW entries \in Seq(Entry), NEW i \in 1..Len(entries), NEW a \in Seq(Address)
    PROVE  /\ Resolved(entries, i, a) \in Seq(Entry)
           /\ Len(Resolved(entries, i, a)) = Len(entries)
           /\ \A j \in 1..Len(entries) : Resolved(entries, i, a)[j].line = entries[j].line
<1> DEFINE new == [entries[i] EXCEPT !.addrs = a]
<1>1. entries[i] \in Entry
  OBVIOUS
<1>2. new \in Entry /\ new.line = entries[i].line
  BY <1>1 DEF Entry
<1>3. Resolved(entries, i, a) = [entries EXCEPT ![i] = new]
  BY DEF Resolved
<1> HIDE DEF new
<1> QED BY <1>2, <1>3

(* An answer of the resolver is a list of addresses.                       *)
LEMMA AnswerType ==
    ASSUME NEW e \in Entry, NEW a \in Answers[HostOf(e)]
    PROVE  a \in Seq(Address)
<1>1. HostOf(e) \in Host
  BY RemotesAssumption DEF HostOf, Entry
<1> QED BY <1>1, AnswersAssumption

LEMMA AdvancedType ==
    ASSUME NEW entries \in Seq(Entry), NEW i \in IndexOf(entries)
    PROVE  /\ Advanced(entries, i).list \in Seq(Entry)
           /\ Len(Advanced(entries, i).list) = Len(entries)
           /\ Advanced(entries, i).index \in IndexOf(entries)
<1> DEFINE to == Increment(i, Len(entries), Len(entries[i.primary].addrs))
<1>1. i.primary \in 1..Len(entries)
  BY DEF IndexOf
<1>2. Len(entries[i.primary].addrs) \in Nat
  BY <1>1 DEF Entry
<1>3. to \in IndexOf(entries)
  BY <1>2, IncrementType
<1>4. to.primary \in 1..Len(entries)
  BY <1>3 DEF IndexOf
<1> HIDE DEF to
<1>5. /\ ResetItem(entries, to.primary) \in Seq(Entry)
      /\ Len(ResetItem(entries, to.primary)) = Len(entries)
  BY <1>4, ResetItemType
<1> QED BY <1>3, <1>5 DEF Advanced, to

--------------------------------------------------------------------------------
(* PreResolve                                                              *)

(* What is queried next is an entry, or nothing.                           *)
LEMMA NextQueryType ==
    ASSUME NEW entries \in Seq(Entry), NEW n \in Nat \ {0}
    PROVE  NextQuery(entries, n) \subseteq 0..Len(entries)
BY DEF NextQuery, Unknown

(* Sharing addresses keeps the entries.                                    *)
LEMMA SharedType ==
    ASSUME NEW entries \in Seq(Entry), NEW n, NEW m
    PROVE  /\ Shared(entries, n, m) \in Seq(Entry)
           /\ Len(Shared(entries, n, m)) = Len(entries)
<1>1. ASSUME NEW i \in DOMAIN entries
      PROVE  Shared(entries, n, m)[i] \in Entry
  <2>1. entries[i] \in Entry
    OBVIOUS
  <2>2. CASE ~ (i \in n..m /\ entries[i].addrs = << >> /\ Known(entries, i) # {})
    BY <2>1, <2>2 DEF Shared
  <2>3. CASE i \in n..m /\ entries[i].addrs = << >> /\ Known(entries, i) # {}
    <3> DEFINE j == CHOOSE j \in Known(entries, i) : TRUE
    <3>1. j \in DOMAIN entries
      BY <2>3 DEF Known
    <3>2. Shared(entries, n, m)[i] = [entries[i] EXCEPT !.addrs = entries[j].addrs]
      BY <2>3 DEF Shared
    <3> HIDE DEF j
    <3>3. entries[j] \in Entry
      BY <3>1
    <3>4. entries[j].addrs \in Seq(Address)
      BY <3>3 DEF Entry
    <3> QED BY <2>1, <3>2, <3>4 DEF Entry
  <2> QED BY <2>2, <2>3
<1> DEFINE s == Shared(entries, n, m)
<1>2. s = [i \in 1..Len(entries) |-> s[i]]
  BY DEF Shared
<1>3. \A i \in 1..Len(entries) : s[i] \in Entry
  BY <1>1
<1> HIDE DEF s
<1>4. s \in Seq(Entry) /\ Len(s) = Len(entries)
  BY <1>2, <1>3
<1> QED BY <1>4 DEF s

(* Pruning keeps at least one entry.                                       *)
LEMMA KeptType ==
    ASSUME NEW entries \in Seq(Entry), Len(entries) # 0, NEW f \in Kept(entries)
    PROVE  /\ Listed(entries, f) \in Seq(Entry)
           /\ Len(Listed(entries, f)) # 0
<1> DEFINE kept == IF Cached(entries) = {} THEN DOMAIN entries ELSE Cached(entries)
           n    == Cardinality(kept)
<1>1. kept \subseteq 1..Len(entries) /\ kept # {}
  BY DEF Cached
<1>2. f \in [1..n -> kept]
  BY DEF Kept
<1> HIDE DEF kept
<1>3. IsFiniteSet(kept)
  <2>1. IsFiniteSet(1..Len(entries))
    BY FS_Interval
  <2> QED BY <1>1, <2>1, FS_Subset
<1>4. n \in Nat \ {0}
  BY <1>1, <1>3, FS_CardinalityType, FS_EmptySet
<1> HIDE DEF n
<1>5. \A k \in 1..n : entries[f[k]] \in Entry
  <2> TAKE k \in 1..n
  <2>1. f[k] \in 1..Len(entries)
    BY <1>1, <1>2
  <2> QED BY <2>1
<1>6. Listed(entries, f) = [k \in 1..n |-> entries[f[k]]]
  BY <1>2 DEF Listed
<1> QED BY <1>4, <1>5, <1>6

--------------------------------------------------------------------------------
(* Types                                                                   *)

LEMMA StaleType ==
    ASSUME NEW q \in Seq(Handler)
    PROVE  Stale(q) \in Seq(Handler)
<1>1. \A i \in DOMAIN q : [q[i] EXCEPT !.current = @ /\ q[i].what \notin {"restart", "poll"}] \in Handler
  <2> TAKE i \in DOMAIN q
  <2>1. q[i] \in Handler
    OBVIOUS
  <2>2. (q[i].current /\ q[i].what \notin {"restart", "poll"}) \in BOOLEAN
    BY <2>1 DEF Handler
  <2> QED BY <2>1, <2>2 DEF Handler
<1> QED BY <1>1 DEF Stale

(* A new session leaves an index within the list, and lives.               *)
LEMMA NewClientType ==
    ASSUME ConnTypeOK, NEW entries \in Seq(Entry), NEW from \in IndexOf(entries),
           NEW q \in Seq(Handler), NewClient(entries, from, q),
           halt' = halt, paused' \in BOOLEAN
    PROVE  /\ list' \in Seq(Entry) /\ Len(list') = Len(entries)
           /\ index' \in IndexOf(list')
           /\ ConnTypeOK'
           /\ started' /\ Live' /\ ~client'.reached
<1> DEFINE next == IF Moves THEN Advanced(entries, from) ELSE [list |-> entries, index |-> from]
<1>1. /\ next.list \in Seq(Entry) /\ Len(next.list) = Len(entries)
      /\ next.index \in IndexOf(entries)
  BY AdvancedType
<1>2. list' = next.list /\ index' = next.index
  BY DEF NewClient
<1>3. /\ list' \in Seq(Entry) /\ Len(list') = Len(entries)
      /\ index' \in IndexOf(list')
  BY <1>1, <1>2 DEF IndexOf
<1>4. index'.primary \in 1..Len(list')
  BY <1>3 DEF IndexOf
<1>5. list'[index'.primary].line \in DOMAIN Remotes
  <2>1. list'[index'.primary] \in Entry
    BY <1>3, <1>4
  <2> QED BY <2>1 DEF Entry
<1>6. row' \in [line : DOMAIN Remotes, length : Nat]
  BY <1>2, <1>5 DEF NewClient, ConnTypeOK
<1>7. ready' \in Seq(Handler)
  BY StaleType DEF NewClient
<1>8. client' \in Client /\ client'.at \in {"trying", "resolving"} /\ ~client'.reached
  BY DEF NewClient, Client
<1>9. armed' \subseteq Timer
  BY DEF NewClient, ConnTypeOK, Timer
<1>10. /\ started' = TRUE /\ connPending' \in BOOLEAN
  BY DEF NewClient
<1> QED BY <1>3, <1>6, <1>7, <1>8, <1>9, <1>10 DEF ConnTypeOK, Live

(* Where a session was replaced and nothing else was touched.              *)
LEMMA NewClientKeepsType ==
    ASSUME TypeOK, NEW entries \in Seq(Entry), NEW from \in IndexOf(entries),
           NEW q \in Seq(Handler), NewClient(entries, from, q),
           halt' = halt, paused' \in BOOLEAN, cache' = cache, querying' \in 0..Len(entries)
    PROVE  TypeOK'
<1>1. /\ list' \in Seq(Entry) /\ Len(list') = Len(entries)
      /\ index' \in IndexOf(list') /\ ConnTypeOK'
  BY NewClientType DEF TypeOK
<1>2. querying' \in 0..Len(list')
  BY <1>1
<1> QED BY <1>1, <1>2 DEF TypeOK, ListTypeOK, IndexOf

LEMMA TypeFacts ==
    ASSUME TypeOK
    PROVE  /\ list \in Seq(Entry) /\ Len(list) # 0 /\ index \in IndexOf(list)
           /\ index.primary \in 1..Len(list) /\ Current \in Entry
           /\ ready \in Seq(Handler) /\ ConnTypeOK
           /\ ready # << >> => Tail(ready) \in Seq(Handler) /\ Head(ready) \in Handler
BY DEF TypeOK, ListTypeOK, ConnTypeOK, IndexOf, Current

LEMMA InitType == Init => TypeOK
<1> SUFFICES ASSUME Init PROVE TypeOK
  OBVIOUS
<1>1. Remotes \in Seq(Host) /\ Len(Remotes) \in Nat \ {0} /\ DOMAIN Remotes = 1..Len(Remotes)
  BY RemotesAssumption
<1>2. \A i \in DOMAIN Remotes : [line |-> i, addrs |-> << >>] \in Entry
  BY DEF Entry
<1>3. list \in Seq(Entry) /\ Len(list) = Len(Remotes)
  BY <1>1, <1>2 DEF Init, ListInit
<1>4. ListTypeOK
  BY <1>1, <1>3, CachesAssumption DEF Init, ListInit, ListTypeOK, First
<1>5. ConnTypeOK
  <2>1. {started, halt, paused, connPending} \subseteq BOOLEAN
    BY DEF Init
  <2>2. client \in Client
    BY DEF Init, NoClient, Client
  <2>3. armed \subseteq Timer /\ ready \in Seq(Handler)
    BY DEF Init
  <2>4. row \in [line : DOMAIN Remotes, length : Nat]
    BY <1>1 DEF Init
  <2> QED BY <2>1, <2>2, <2>3, <2>4 DEF ConnTypeOK
<1> QED BY <1>4, <1>5 DEF TypeOK

(* PreResolve keeps the types, whatever it found.                          *)
LEMMA PreResolveAnswersType ==
    ASSUME TypeOK, NEW entries \in Seq(Entry), Len(entries) = Len(list), PreResolveAnswers(entries)
    PROVE  TypeOK'
<1>1. PICK query \in NextQuery(entries, querying + 1) :
        LET passed == Shared(entries, querying + 1, IF query = 0 THEN Len(entries) ELSE query - 1)
        IN  /\ querying' = query
            /\ \/ query # 0 /\ list' = passed /\ UNCHANGED <<cache, index, connVars>>
               \/ /\ query = 0
                  /\ \E f \in Kept(passed) : NewClient(Listed(passed, f), First, ready)
                  /\ UNCHANGED <<cache, halt, paused>>
  BY DEF PreResolveAnswers
<1> DEFINE passed == Shared(entries, querying + 1, IF query = 0 THEN Len(entries) ELSE query - 1)
<1>2. passed \in Seq(Entry) /\ Len(passed) = Len(list)
  BY SharedType
<1>3. query \in 0..Len(list)
  BY NextQueryType DEF TypeOK, ListTypeOK
<1>4. CASE query # 0
  <2>1. querying' = query /\ list' = passed /\ UNCHANGED <<cache, index, connVars>>
    BY <1>1, <1>4
  <2> HIDE DEF passed
  <2>2. ListTypeOK'
    BY <1>2, <1>3, <2>1 DEF TypeOK, ListTypeOK
  <2> QED BY <2>1, <2>2 DEF TypeOK, ConnTypeOK, connVars
<1>5. CASE query = 0
  <2>1. PICK f \in Kept(passed) : NewClient(Listed(passed, f), First, ready)
    BY <1>1, <1>5
  <2>2. querying' = 0 /\ UNCHANGED <<cache, halt, paused>>
    BY <1>1, <1>5
  <2> HIDE DEF passed
  <2>3. Len(passed) # 0
    BY <1>2, TypeFacts
  <2>4. Listed(passed, f) \in Seq(Entry) /\ Len(Listed(passed, f)) # 0
    BY <1>2, <2>3, KeptType
  <2>5. First \in IndexOf(Listed(passed, f)) /\ querying' \in 0..Len(Listed(passed, f))
    BY <2>2, <2>4 DEF First, IndexOf
  <2>6. paused' \in BOOLEAN /\ halt' = halt /\ cache' = cache
    BY <2>2 DEF TypeOK, ConnTypeOK
  <2> QED BY <2>1, <2>4, <2>5, <2>6, TypeFacts, NewClientKeepsType
<1> QED BY <1>4, <1>5

LEMMA StartsType ==
    ASSUME TypeOK, Start \/ PreResolve
    PROVE  TypeOK'
<1>1. CASE Start
  <2>1. CASE cache
    <3>1. NextQuery(list, 1) \subseteq 0..Len(list)
      BY TypeFacts, NextQueryType
    <3>2. First \in [primary : 1..Len(list), secondary : Nat \ {0}]
      BY TypeFacts DEF First
    <3> QED BY <1>1, <2>1, <3>1, <3>2 DEF Start, TypeOK, ListTypeOK, ConnTypeOK, connVars
  <2>2. CASE ~cache
    BY <1>1, <2>2, TypeFacts, NewClientKeepsType DEF Start, TypeOK, ListTypeOK, ConnTypeOK
  <2> QED BY <2>1, <2>2
<1>2. CASE PreResolves
  <2>1. PICK a \in Answers[HostOf(list[querying])] : PreResolveAnswers(Resolved(list, querying, a))
    BY <1>2 DEF PreResolves
  <2>2. querying \in 1..Len(list) /\ list[querying] \in Entry
    BY <1>2 DEF PreResolves, TypeOK, ListTypeOK
  <2>3. a \in Seq(Address)
    BY <2>2, AnswerType
  <2> QED BY <2>1, <2>2, <2>3, TypeFacts, ResolvedType, PreResolveAnswersType
<1>3. CASE PreResolveFails
  BY <1>3, TypeFacts, PreResolveAnswersType DEF PreResolveFails
<1> QED BY <1>1, <1>2, <1>3 DEF PreResolve

LEMMA EndedType ==
    ASSUME client \in Client
    PROVE  Ended \in Client /\ Ended.at \notin {"resolving", "trying"} /\ Ended.reached = client.reached
BY DEF Ended, Client

LEMMA StopType ==
    ASSUME TypeOK, NEW q \in Seq(Handler), Stop(q)
    PROVE  TypeOK'
<1>1. ListTypeOK'
  BY DEF Stop, TypeOK, ListTypeOK
<1>2. client' \in Client
  BY EndedType DEF Stop, TypeOK, ConnTypeOK
<1>3. {started', halt', paused', connPending'} \subseteq BOOLEAN
  BY DEF Stop, TypeOK, ConnTypeOK
<1> QED BY <1>1, <1>2, <1>3 DEF Stop, TypeOK, ConnTypeOK

(* A reset of the present entry.                                           *)
LEMMA ResetType ==
    ASSUME TypeOK, list' = ResetItem(list, index.primary), UNCHANGED <<cache, index, querying>>
    PROVE  ListTypeOK' /\ Current'.line = Current.line
<1>1. /\ list' \in Seq(Entry) /\ Len(list') = Len(list)
      /\ list'[index.primary].line = list[index.primary].line
  BY TypeFacts, ResetItemType
<1> QED BY <1>1 DEF TypeOK, ListTypeOK, Current

LEMMA NetworkType ==
    ASSUME TypeOK, Network
    PROVE  TypeOK'
<1>1. CASE ClientResolves
  <2>1. PICK a \in Answers[HostOf(Current)] : list' = Resolved(list, index.primary, a)
    BY <1>1 DEF ClientResolves
  <2>2. a \in Seq(Address)
    BY TypeFacts, AnswerType
  <2>3. list' \in Seq(Entry) /\ Len(list') = Len(list)
    BY <2>1, <2>2, TypeFacts, ResolvedType
  <2>4. index' \in [primary : 1..Len(list), secondary : Nat \ {0}]
    BY <1>1 DEF ClientResolves, TypeOK, ListTypeOK
  <2>5. ListTypeOK'
    BY <1>1, <2>3, <2>4 DEF ClientResolves, TypeOK, ListTypeOK
  <2>6. client' \in Client
    BY <1>1 DEF ClientResolves, TypeOK, ConnTypeOK, Client
  <2> QED BY <1>1, <2>5, <2>6 DEF ClientResolves, TypeOK, ConnTypeOK
<1>2. CASE FirstPacket
  BY <1>2 DEF FirstPacket, TypeOK, ListTypeOK, ConnTypeOK, listVars, Client
<1>3. CASE Connected
  BY <1>3 DEF Connected, TypeOK, ListTypeOK, ConnTypeOK, listVars, Client
<1>4. CASE TerminateRetried
  <2>1. ListTypeOK'
    BY <1>4, ResetType DEF TerminateRetried, QueueRestart
  <2>2. client' \in Client /\ armed' \subseteq Timer
    BY <1>4, EndedType DEF TerminateRetried, QueueRestart, TypeOK, ConnTypeOK, Timer
  <2> QED BY <1>4, <2>1, <2>2 DEF TerminateRetried, QueueRestart, TypeOK, ConnTypeOK
<1>5. CASE TerminateFinal
  BY <1>5, TypeFacts, StopType DEF TerminateFinal
<1> QED BY <1>1, <1>2, <1>3, <1>4, <1>5 DEF Network

LEMMA ThreadsType ==
    ASSUME TypeOK, (\E t \in Timer : Expire(t)) \/ Post
    PROVE  TypeOK'
<1>1. ASSUME NEW t \in Timer, Expire(t)
      PROVE  TypeOK'
  <2>1. [what |-> t, current |-> TRUE] \in Handler
    BY DEF Handler
  <2>2. ready' \in Seq(Handler)
    BY <1>1, <2>1, TypeFacts DEF Expire
  <2>4. armed' \subseteq Timer
    BY <1>1 DEF Expire, TypeOK, ConnTypeOK
  <2>3. ListTypeOK'
    BY <1>1 DEF Expire, TypeOK, ListTypeOK, listVars
  <2> QED BY <1>1, <2>2, <2>3, <2>4 DEF Expire, TypeOK, ConnTypeOK
<1>2. CASE Post
  <2>1. PICK c \in Commands : ready' = Append(ready, [what |-> c, current |-> TRUE])
    BY <1>2 DEF Post
  <2>2. [what |-> c, current |-> TRUE] \in Handler
    BY DEF Handler
  <2>3. ready' \in Seq(Handler)
    BY <2>1, <2>2 DEF TypeOK, ConnTypeOK
  <2>4. ListTypeOK'
    BY <1>2 DEF Post, TypeOK, ListTypeOK, listVars
  <2> QED BY <1>2, <2>3, <2>4 DEF Post, TypeOK, ConnTypeOK
<1> QED BY <1>1, <1>2

LEMMA ResumeType ==
    ASSUME TypeOK, ready # << >>, Resume
    PROVE  TypeOK'
<1> DEFINE entries == ResetItem(list, index.primary)
<1>1. entries \in Seq(Entry) /\ Len(entries) = Len(list)
  BY TypeFacts, ResetItemType
<1>2. NewClient(entries, index, Tail(ready)) /\ UNCHANGED <<cache, querying, halt>> /\ paused' = FALSE
  BY DEF Resume
<1> HIDE DEF entries
<1>3. index \in IndexOf(entries) /\ querying' \in 0..Len(entries)
  BY <1>1, <1>2, TypeFacts DEF IndexOf, TypeOK, ListTypeOK
<1> QED BY <1>1, <1>2, <1>3, TypeFacts, NewClientKeepsType

LEMMA HandlersType ==
    ASSUME TypeOK, HandlerRuns
    PROVE  TypeOK'
<1>1. CASE Ignored
  BY <1>1 DEF Ignored, TypeOK, ListTypeOK, ConnTypeOK, listVars
<1>2. CASE RestartWait
  <2>1. CASE Resume
    BY <1>2, <2>1, ResumeType DEF RestartWait, Runs
  <2>2. CASE NewClient(list, index, Tail(ready)) /\ UNCHANGED <<cache, querying, halt, paused>>
    BY <1>2, <2>2, TypeFacts, NewClientKeepsType DEF RestartWait, Runs, TypeOK, ListTypeOK, ConnTypeOK
  <2> QED BY <1>2, <2>1, <2>2 DEF RestartWait
<1>3. CASE ServerPoll
  BY <1>3, TypeFacts, NewClientKeepsType DEF ServerPoll, Runs, TypeOK, ListTypeOK, ConnTypeOK
<1>4. CASE ConnTimedOut \/ StopPosted
  BY <1>4, TypeFacts, StopType DEF ConnTimedOut, StopPosted, Runs
<1>5. CASE Pause
  <2>1. ListTypeOK'
    BY <1>5 DEF Pause, TypeOK, ListTypeOK, listVars
  <2>2. client' \in Client /\ ready' \in Seq(Handler)
    BY <1>5, EndedType, TypeFacts DEF Pause, Runs, ConnTypeOK
  <2>3. {started', halt', paused', connPending'} \subseteq BOOLEAN
    BY <1>5 DEF Pause, TypeOK, ConnTypeOK
  <2> QED BY <1>5, <2>1, <2>2, <2>3 DEF Pause, TypeOK, ConnTypeOK
<1>6. CASE ResumePosted
  BY <1>6, ResumeType DEF ResumePosted, Runs
<1>7. CASE Reconnect
  <2>1. ListTypeOK'
    BY <1>7, ResetType DEF Reconnect
  <2> QED BY <1>7, <2>1 DEF Reconnect, Runs, TypeOK, ConnTypeOK, Timer
<1> QED BY <1>1, <1>2, <1>3, <1>4, <1>5, <1>6, <1>7 DEF HandlerRuns

LEMMA NextType == TypeOK /\ [Next]_vars => TypeOK'
<1>1. TypeOK /\ UNCHANGED vars => TypeOK'
  BY DEF TypeOK, ListTypeOK, ConnTypeOK, vars, listVars, connVars
<1> QED BY <1>1, StartsType, NetworkType, ThreadsType, HandlersType DEF Next

(* Every variable keeps its type, and the index of RemoteList always leads *)
(* to an entry: primary_index never finds it undefined, while entries are  *)
(* pruned, forgotten and resolved again (remotelist.hpp).                  *)
THEOREM TypeCorrect == Spec => []TypeOK
<1>1. Init => TypeOK
  BY InitType
<1>2. TypeOK /\ [Next]_vars => TypeOK'
  BY NextType
<1> QED BY <1>1, <1>2, PTL DEF Spec

--------------------------------------------------------------------------------
(* Safety: each invariant is inductive once the types are known.           *)

(* Every action but the one that stops needs a client that has not.        *)
LEMMA HaltKept == TypeOK /\ HaltIsFinal /\ [Next]_vars => HaltIsFinal'
<1> SUFFICES ASSUME TypeOK, HaltIsFinal, [Next]_vars PROVE HaltIsFinal'
  OBVIOUS
<1>1. CASE UNCHANGED vars
  BY <1>1 DEF HaltIsFinal, Live, vars, listVars, connVars
<1>2. CASE Start
  BY <1>2 DEF Start, NewClient, HaltIsFinal, connVars
<1>3. CASE PreResolve
  <2>1. querying # 0 /\ halt' = halt
    BY <1>3 DEF PreResolve, PreResolves, PreResolveFails, PreResolveAnswers, connVars
  <2> QED BY <2>1 DEF HaltIsFinal
<1>4. CASE Network
  <2>1. CASE TerminateFinal
    BY <2>1, EndedType DEF TerminateFinal, Stop, HaltIsFinal, Live, TypeOK, ConnTypeOK
  <2>2. CASE ~TerminateFinal
    <3>1. Live /\ halt' = halt
      BY <1>4, <2>2 DEF Network, ClientResolves, FirstPacket, Connected, TerminateRetried, QueueRestart, Live
    <3> QED BY <3>1 DEF HaltIsFinal
  <2> QED BY <2>1, <2>2
<1>5. CASE (\E t \in Timer : Expire(t)) \/ Post
  <2>1. ~halt /\ halt' = halt
    BY <1>5 DEF Expire, Post, HaltIsFinal
  <2> QED BY <2>1 DEF HaltIsFinal
<1>6. CASE Ignored
  BY <1>6 DEF Ignored, HaltIsFinal, Live, listVars
<1>7. CASE ConnTimedOut \/ StopPosted
  BY <1>7, EndedType DEF ConnTimedOut, StopPosted, Stop, HaltIsFinal, Live, TypeOK, ConnTypeOK
<1>8. CASE RestartWait \/ ServerPoll \/ Pause \/ ResumePosted \/ Reconnect
  <2>1. ~halt /\ halt' = halt
    BY <1>8 DEF RestartWait, ServerPoll, Pause, ResumePosted, Reconnect, Resume, Runs, Proceeds
  <2> QED BY <2>1 DEF HaltIsFinal
<1> QED BY <1>1, <1>2, <1>3, <1>4, <1>5, <1>6, <1>7, <1>8 DEF Next, HandlerRuns

(* What is stopped stays stopped, for every queue of stale handlers:       *)
(* cliconnect.hpp, stop and the test of halt in each callback.             *)
THEOREM HaltCorrect == Spec => []HaltIsFinal
<1>1. Init => HaltIsFinal
  BY DEF Init, HaltIsFinal
<1>2. TypeOK /\ HaltIsFinal /\ [Next]_vars => HaltIsFinal'
  BY HaltKept
<1> QED BY <1>1, <1>2, TypeCorrect, PTL DEF Spec

(* The queue without its head holds the restart handler it held before,    *)
(* if the head was ignored or was not that handler.                        *)
LEMMA RestartStays ==
    ASSUME TypeOK, ready # << >>, RestartDue, "restart" \notin armed,
           Head(ready) # [what |-> "restart", current |-> TRUE], ready' = Tail(ready)
    PROVE  RestartDue'
<1>1. PICK i \in DOMAIN ready : ready[i] = [what |-> "restart", current |-> TRUE]
  BY DEF RestartDue
<1>2. ready \in Seq(Handler) /\ i \in 1..Len(ready)
  BY <1>1, TypeFacts
<1>3. i # 1
  <2>1. Head(ready) = ready[1]
    BY <1>2
  <2> QED BY <1>1, <2>1
<1>4. i - 1 \in DOMAIN Tail(ready) /\ Tail(ready)[i - 1] = ready[i]
  BY <1>2, <1>3
<1> QED BY <1>1, <1>4 DEF RestartDue

(* A queue that grows keeps it.                                            *)
LEMMA RestartKept ==
    ASSUME TypeOK, NEW h \in Handler, RestartDue, "restart" \notin armed, ready' = Append(ready, h)
    PROVE  RestartDue'
<1>1. PICK i \in DOMAIN ready : ready[i] = [what |-> "restart", current |-> TRUE]
  BY DEF RestartDue
<1>2. ready \in Seq(Handler) /\ i \in 1..Len(ready)
  BY <1>1, TypeFacts
<1>3. i \in DOMAIN ready' /\ ready'[i] = ready[i]
  BY <1>2
<1> QED BY <1>1, <1>3 DEF RestartDue

(* A step that makes a session leaves one alive.                           *)
LEMMA Revives ==
    ASSUME NEW entries, NEW from, NEW q, NewClient(entries, from, q)
    PROVE  Live'
BY DEF NewClient, Live

LEMMA StrandedNever == TypeOK /\ NeverStranded /\ [Next]_vars => NeverStranded'
<1> SUFFICES ASSUME TypeOK, NeverStranded, [Next]_vars, started', ~halt', ~paused'
             PROVE  Live' \/ RestartDue'
  BY DEF NeverStranded
<1>1. CASE UNCHANGED vars
  BY <1>1 DEF NeverStranded, RestartDue, Live, vars, listVars, connVars
<1>2. CASE Start
  BY <1>2, Revives DEF Start, connVars
<1>3. CASE PreResolve
  <2>1. PICK entries : PreResolveAnswers(entries)
    BY <1>3 DEF PreResolve, PreResolves, PreResolveFails
  <2>2. UNCHANGED connVars \/ \E e, f : NewClient(e, First, f)
    BY <2>1 DEF PreResolveAnswers
  <2> QED BY <2>2, Revives DEF NeverStranded, RestartDue, Live, connVars
<1>4. CASE Network
  <2>1. CASE ClientResolves \/ FirstPacket \/ Connected
    BY <2>1 DEF ClientResolves, FirstPacket, Connected, Live, TypeOK, ConnTypeOK, Client
  <2>2. CASE TerminateRetried
    BY <2>2 DEF TerminateRetried, QueueRestart, RestartDue
  <2>3. CASE TerminateFinal
    BY <2>3 DEF TerminateFinal, Stop
  <2> QED BY <1>4, <2>1, <2>2, <2>3 DEF Network
<1>5. ASSUME NEW t \in Timer, Expire(t)
      PROVE  Live' \/ RestartDue'
  <2>1. Live \/ RestartDue
    BY <1>5 DEF Expire, NeverStranded
  <2>2. CASE Live
    BY <1>5, <2>2 DEF Expire, Live
  <2>3. CASE t = "restart"
    <3>1. ready' = Append(ready, [what |-> "restart", current |-> TRUE])
      BY <1>5, <2>3 DEF Expire
    <3>2. Len(ready) + 1 \in DOMAIN ready' /\ ready'[Len(ready) + 1] = [what |-> "restart", current |-> TRUE]
      BY <3>1, TypeFacts
    <3> QED BY <3>2 DEF RestartDue
  <2>4. CASE t # "restart" /\ "restart" \in armed
    BY <1>5, <2>4 DEF Expire, RestartDue
  <2>5. CASE RestartDue /\ "restart" \notin armed
    <3>1. [what |-> t, current |-> TRUE] \in Handler
      BY DEF Handler
    <3> QED BY <1>5, <2>5, <3>1, RestartKept DEF Expire
  <2> QED BY <2>1, <2>2, <2>3, <2>4, <2>5
<1>6. CASE Post
  <2>1. Live \/ RestartDue
    BY <1>6 DEF Post, NeverStranded
  <2>2. CASE Live \/ "restart" \in armed
    BY <1>6, <2>2 DEF Post, Live, RestartDue
  <2>3. CASE RestartDue /\ "restart" \notin armed
    <3>1. \A c \in Commands : [what |-> c, current |-> TRUE] \in Handler
      BY DEF Handler
    <3> QED BY <1>6, <2>3, <3>1, RestartKept DEF Post
  <2> QED BY <2>1, <2>2, <2>3
<1>7. CASE Ignored
  <2>1. Live \/ RestartDue
    BY <1>7 DEF Ignored, NeverStranded
  <2>2. CASE Live \/ "restart" \in armed
    BY <1>7, <2>2 DEF Ignored, Live, RestartDue
  <2>3. CASE RestartDue /\ "restart" \notin armed
    <3>1. Head(ready) # [what |-> "restart", current |-> TRUE]
      BY <1>7 DEF Ignored, Proceeds
    <3> QED BY <1>7, <2>3, <3>1, RestartStays DEF Ignored
  <2> QED BY <2>1, <2>2, <2>3
<1>8. CASE RestartWait \/ ServerPoll \/ ResumePosted
  BY <1>8, Revives DEF RestartWait, ServerPoll, ResumePosted, Resume
<1>9. CASE ConnTimedOut \/ StopPosted \/ Pause
  BY <1>9 DEF ConnTimedOut, StopPosted, Pause, Stop
<1>10. CASE Reconnect
  BY <1>10 DEF Reconnect, RestartDue
<1> QED BY <1>1, <1>2, <1>3, <1>4, <1>5, <1>6, <1>7, <1>8, <1>9, <1>10 DEF Next, HandlerRuns

(* The client always goes on by itself until it is stopped or paused:      *)
(* whenever no session lives, the timer of queue_restart is armed or its   *)
(* handler waits with the present generation (cliconnect.hpp).             *)
THEOREM StrandedCorrect == Spec => []NeverStranded
<1>1. Init => NeverStranded
  BY DEF Init, NeverStranded
<1>2. TypeOK /\ NeverStranded /\ [Next]_vars => NeverStranded'
  BY StrandedNever
<1> QED BY <1>1, <1>2, TypeCorrect, PTL DEF Spec

--------------------------------------------------------------------------------
(* The server that was connected                                           *)

(* No session has connected before there was one.                          *)
NoneReached == client.at = "none" => ~client.reached

LEMMA NoneReachedKept == TypeOK /\ NoneReached /\ [Next]_vars => NoneReached'
<1> SUFFICES ASSUME TypeOK, NoneReached, [Next]_vars PROVE NoneReached'
  OBVIOUS
<1>1. CASE client' = client
  BY <1>1 DEF NoneReached
<1>2. CASE client' = Ended
  BY <1>2 DEF Ended, NoneReached, TypeOK, ConnTypeOK, Client
<1>3. CASE Live'
  BY <1>3 DEF Live, NoneReached
<1>4. client' = client \/ client' = Ended \/ Live'
  <2>1. CASE UNCHANGED vars
    BY <2>1 DEF vars, connVars
  <2>2. CASE Start \/ PreResolve
    BY <2>2, Revives DEF Start, PreResolve, PreResolves, PreResolveFails, PreResolveAnswers, connVars
  <2>3. CASE Network
    BY <2>3 DEF Network, ClientResolves, FirstPacket, Connected, TerminateRetried, QueueRestart,
       TerminateFinal, Stop, Live, TypeOK, ConnTypeOK, Client
  <2>4. CASE (\E t \in Timer : Expire(t)) \/ Post
    BY <2>4 DEF Expire, Post
  <2>5. CASE HandlerRuns
    BY <2>5, Revives DEF HandlerRuns, Ignored, RestartWait, ServerPoll, ConnTimedOut, StopPosted,
       Pause, ResumePosted, Reconnect, Resume, Stop
  <2> QED BY <2>1, <2>2, <2>3, <2>4, <2>5 DEF Next
<1> QED BY <1>1, <1>2, <1>3, <1>4

(* new_client after a session that had connected takes the same entry.     *)
LEMMA StaysPut ==
    ASSUME NEW entries, NEW from, NEW q, NewClient(entries, from, q), client.reached
    PROVE  list' = entries /\ index' = from
BY DEF NewClient, Moves

LEMMA ServerKept ==
    ASSUME TypeOK, NoneReached, [Next]_vars, client.reached, querying = 0
    PROVE  Current'.line = Current.line
<1>1. CASE UNCHANGED <<list, index>>
  BY <1>1 DEF Current
<1>2. CASE list' = ResetItem(list, index.primary) /\ index' = index
  <2>1. list'[index.primary].line = list[index.primary].line
    BY <1>2, TypeFacts, ResetItemType
  <2> QED BY <1>2, <2>1 DEF Current
<1>3. CASE ClientResolves
  <2>1. PICK a \in Answers[HostOf(Current)] : list' = Resolved(list, index.primary, a)
    BY <1>3 DEF ClientResolves
  <2>2. a \in Seq(Address)
    BY TypeFacts, AnswerType
  <2>3. list'[index.primary].line = list[index.primary].line
    BY <2>1, <2>2, TypeFacts, ResolvedType
  <2>4. index'.primary = index.primary
    BY <1>3 DEF ClientResolves, TypeOK, ListTypeOK
  <2> QED BY <2>3, <2>4 DEF Current
<1>4. ~Start /\ ~PreResolve
  BY DEF Start, NoneReached, PreResolve, PreResolves, PreResolveFails
<1>5. CASE Network
  BY <1>1, <1>2, <1>3, <1>5 DEF Network, FirstPacket, Connected, TerminateRetried, QueueRestart,
     TerminateFinal, Stop, listVars
<1>6. CASE (\E t \in Timer : Expire(t)) \/ Post \/ UNCHANGED vars
  BY <1>1, <1>6 DEF Expire, Post, vars, listVars
<1>7. CASE HandlerRuns
  <2>1. CASE Ignored \/ ConnTimedOut \/ StopPosted \/ Pause
    BY <1>1, <2>1 DEF Ignored, ConnTimedOut, StopPosted, Pause, Stop, listVars
  <2>2. CASE Resume
    BY <1>2, <2>2, StaysPut DEF Resume
  <2>3. CASE NewClient(list, index, Tail(ready))
    BY <1>1, <2>3, StaysPut
  <2>4. CASE Reconnect
    BY <1>2, <2>4 DEF Reconnect
  <2> QED BY <1>7, <2>1, <2>2, <2>3, <2>4 DEF HandlerRuns, RestartWait, ServerPoll, ResumePosted
<1> QED BY <1>4, <1>5, <1>6, <1>7 DEF Next

(* A server that was connected is the first to be tried again, for every   *)
(* list of remotes: no restart, pause, forgotten address or stale handler  *)
(* between the loss and the next session moves the index (new_client).     *)
THEOREM ServerCorrect == Spec => KeepsServer
<1>1. Init => NoneReached
  BY DEF Init, NoneReached, NoClient
<1>2. TypeOK /\ NoneReached /\ [Next]_vars => NoneReached'
  BY NoneReachedKept
<1>3. TypeOK /\ NoneReached /\ [Next]_vars
        => [client.reached /\ querying = 0 => Current'.line = Current.line]_vars
  BY ServerKept
<1> QED BY <1>1, <1>2, <1>3, TypeCorrect, PTL DEF Spec, KeepsServer

--------------------------------------------------------------------------------
(* The rotation of the list                                                *)

(* Every answer of a host has one address, and no more than the longest.   *)
LEMMA MostAddressesBound ==
    ASSUME NEW line \in DOMAIN Remotes
    PROVE  /\ MostAddresses(line) \in Nat /\ MostAddresses(line) >= 1
           /\ \A a \in Answers[Remotes[line]] : Len(a) <= MostAddresses(line)
<1> DEFINE answers == Answers[Remotes[line]]
           lengths == {Len(a) : a \in answers}
<1>1. Remotes[line] \in Host
  BY RemotesAssumption
<1>2. \A a \in answers : a \in Seq(Address) /\ a # << >>
  BY <1>1, AnswersAssumption
<1>3. \A a \in answers : Len(a) \in Nat /\ Len(a) >= 1
  BY <1>2
<1>4. PICK a \in answers : \A b \in answers : Len(b) <= Len(a)
  BY <1>1, LongestAssumption
<1>5. \E n \in lengths : \A k \in lengths : k <= n
  BY <1>4
<1>6. MostAddresses(line) \in lengths /\ \A k \in lengths : k <= MostAddresses(line)
  BY <1>5 DEF MostAddresses
<1> QED BY <1>3, <1>6

LEMMA ResolvedShape ==
    ASSUME NEW entries \in Seq(Entry), EntriesShape(entries), NEW i \in 1..Len(entries),
           NEW a \in Answers[HostOf(entries[i])]
    PROVE  EntriesShape(Resolved(entries, i, a))
<1> DEFINE new == [entries[i] EXCEPT !.addrs = a]
           r == [entries EXCEPT ![i] = new]
<1>1. entries[i] \in Entry
  OBVIOUS
<1>2. new.line = entries[i].line /\ new.addrs = a
  BY <1>1 DEF Entry
<1> HIDE DEF new
<1>3. /\ DOMAIN r = DOMAIN entries
      /\ \A j \in DOMAIN entries : r[j] = IF j = i THEN new ELSE entries[j]
  OBVIOUS
<1> HIDE DEF r
<1>4. EntriesShape(r)
  BY <1>2, <1>3 DEF EntriesShape, HostOf
<1> QED BY <1>4 DEF Resolved, r, new

LEMMA ResetShape ==
    ASSUME NEW entries \in Seq(Entry), EntriesShape(entries), NEW i \in 1..Len(entries)
    PROVE  EntriesShape(ResetItem(entries, i))
<1> DEFINE new == [entries[i] EXCEPT !.addrs = << >>]
           r == [entries EXCEPT ![i] = new]
<1>1. entries[i] \in Entry
  OBVIOUS
<1>2. new.line = entries[i].line /\ new.addrs = << >>
  BY <1>1 DEF Entry
<1> HIDE DEF new
<1>3. /\ DOMAIN r = DOMAIN entries
      /\ \A j \in DOMAIN entries : r[j] = IF j = i THEN new ELSE entries[j]
  OBVIOUS
<1> HIDE DEF r
<1>4. EntriesShape(r)
  BY <1>2, <1>3 DEF EntriesShape, HostOf
<1> QED BY <1>4 DEF ResetItem, r, new

(* Entries share what their common host resolved to.                       *)
LEMMA SharedShape ==
    ASSUME NEW entries \in Seq(Entry), EntriesShape(entries), NEW n, NEW m
    PROVE  /\ EntriesShape(Shared(entries, n, m))
           /\ \A i \in 1..Len(entries) : Shared(entries, n, m)[i].line = entries[i].line
<1> DEFINE s == Shared(entries, n, m)
<1>1. DOMAIN s = DOMAIN entries
  BY DEF Shared
<1>2. ASSUME NEW i \in DOMAIN entries
      PROVE  /\ s[i].line = entries[i].line
             /\ s[i].addrs # << >> => s[i].addrs \in Answers[HostOf(entries[i])]
  <2>1. entries[i] \in Entry
    OBVIOUS
  <2>2. CASE ~ (i \in n..m /\ entries[i].addrs = << >> /\ Known(entries, i) # {})
    <3>1. s[i] = entries[i]
      BY <2>2 DEF Shared
    <3> HIDE DEF s
    <3> QED BY <3>1 DEF EntriesShape
  <2>3. CASE i \in n..m /\ entries[i].addrs = << >> /\ Known(entries, i) # {}
    <3> DEFINE j == CHOOSE j \in Known(entries, i) : TRUE
    <3>1. /\ j \in DOMAIN entries /\ HostOf(entries[j]) = HostOf(entries[i])
          /\ entries[j].addrs # << >>
      BY <2>3 DEF Known
    <3>2. s[i] = [entries[i] EXCEPT !.addrs = entries[j].addrs]
      BY <2>3 DEF Shared
    <3> HIDE DEF j, s
    <3>3. s[i].line = entries[i].line /\ s[i].addrs = entries[j].addrs
      BY <2>1, <3>2 DEF Entry
    <3> QED BY <3>1, <3>3 DEF EntriesShape
  <2> QED BY <2>2, <2>3
<1> HIDE DEF s
<1>3. EntriesShape(s)
  BY <1>1, <1>2 DEF EntriesShape, HostOf
<1> QED BY <1>2, <1>3 DEF s

(* Pruning keeps the order.                                                *)
LEMMA ListedShape ==
    ASSUME NEW entries \in Seq(Entry), EntriesShape(entries), NEW f \in Kept(entries)
    PROVE  EntriesShape(Listed(entries, f))
<1> DEFINE kept == IF Cached(entries) = {} THEN DOMAIN entries ELSE Cached(entries)
           n    == Cardinality(kept)
           l    == Listed(entries, f)
<1>1. kept \subseteq DOMAIN entries
  BY DEF Cached
<1>2. f \in [1..n -> kept] /\ \A j, k \in 1..n : j < k => f[j] < f[k]
  BY DEF Kept
<1>3. DOMAIN l = 1..n /\ \A k \in 1..n : l[k] = entries[f[k]]
  BY <1>2 DEF Listed
<1> HIDE DEF kept, n, l
<1>4. \A k \in 1..n : f[k] \in DOMAIN entries
  BY <1>1, <1>2
<1>5. EntriesShape(l)
  BY <1>2, <1>3, <1>4 DEF EntriesShape
<1> QED BY <1>5 DEF l

(* What next does where addresses are cached: the next address of the      *)
(* entry, or another entry.                                                *)
LEMMA AdvancedCases ==
    ASSUME NEW entries \in Seq(Entry), NEW i \in IndexOf(entries)
    PROVE  LET n == Advanced(entries, i) IN
           /\ cache => n.list = entries
           /\ \/ /\ i.secondary < Len(entries[i.primary].addrs)
                 /\ n.index.primary = i.primary /\ n.index.secondary = i.secondary + 1
              \/ Len(entries) > 1 => n.index.primary # i.primary
BY DEF Advanced, ResetItem, Increment, IndexOf

LEMMA AdvancedShape ==
    ASSUME NEW entries \in Seq(Entry), EntriesShape(entries), NEW i \in IndexOf(entries)
    PROVE  EntriesShape(Advanced(entries, i).list)
<1>1. Advanced(entries, i).index.primary \in 1..Len(entries)
  BY AdvancedType DEF IndexOf
<1>2. Advanced(entries, i).list = ResetItem(entries, Advanced(entries, i).index.primary)
  BY DEF Advanced
<1> QED BY <1>1, <1>2, ResetShape

(* A new session: one more in the row where it takes the next address of   *)
(* the entry, the first one of a row otherwise.                            *)
LEMMA NewClientShape ==
    ASSUME TypeOK, NEW entries \in Seq(Entry), EntriesShape(entries),
           NEW from \in IndexOf(entries), NEW q, NewClient(entries, from, q), cache' = cache,
           ~started => row.length = 0,
           cache /\ started /\ querying = 0 /\ Len(entries) > 1 =>
               /\ row.line = entries[from.primary].line
               /\ row.length <= from.secondary
    PROVE  ListShape' /\ RowShape'
<1> DEFINE next == IF Moves THEN Advanced(entries, from) ELSE [list |-> entries, index |-> from]
           line == next.list[next.index.primary].line
           longer == line = row.line /\ ~client.reached /\ querying = 0
<1>1. /\ list' = next.list /\ index' = next.index /\ started'
      /\ client'.at = IF EndpointAvailable(next.list, next.index) THEN "trying" ELSE "resolving"
      /\ row' = [line |-> line,
                 length |-> IF longer
                            THEN IF row.length > MostAddresses(line) THEN row.length ELSE row.length + 1
                            ELSE 1]
  BY DEF NewClient
<1>2. /\ next.list \in Seq(Entry) /\ Len(next.list) = Len(entries)
      /\ next.index \in IndexOf(entries) /\ EntriesShape(next.list)
  BY AdvancedType, AdvancedShape
<1>3. /\ cache => next.list = entries
      /\ Moves => \/ /\ from.secondary < Len(entries[from.primary].addrs)
                     /\ next.index.primary = from.primary
                     /\ next.index.secondary = from.secondary + 1
                  \/ Len(entries) > 1 => next.index.primary # from.primary
  BY AdvancedCases
<1> HIDE DEF next
<1>4. /\ next.index.primary \in 1..Len(entries) /\ next.index.secondary \in Nat
      /\ next.index.secondary >= 1 /\ from.primary \in 1..Len(entries) /\ from.secondary \in Nat
  BY <1>2 DEF IndexOf
<1>5. next.list[next.index.primary] \in Entry /\ entries[from.primary] \in Entry
  BY <1>2, <1>4
<1>6. line \in DOMAIN Remotes /\ row.length \in Nat
  BY <1>5 DEF Entry, TypeOK, ConnTypeOK
<1>7. MostAddresses(line) \in Nat /\ MostAddresses(line) >= 1
  BY <1>6, MostAddressesBound
<1>8. row'.line = line /\ Current'.line = line
  BY <1>1 DEF Current
<1>9. ListShape'
  BY <1>1, <1>2 DEF ListShape
<1>10. ASSUME cache, Len(entries) > 1
       PROVE  /\ row'.length <= next.index.secondary /\ row'.length <= MostAddresses(line)
              /\ client'.at = "resolving" => row'.length <= 1
  <2>1. CASE row'.length = 1
    BY <1>4, <1>7, <2>1
  <2>2. CASE row'.length # 1
    <3>1. longer /\ started
      BY <1>1, <1>6, <1>7, <2>2
    <3>2. row.line = entries[from.primary].line /\ row.length <= from.secondary /\ Moves
      BY <1>10, <3>1 DEF Moves
    <3>3. next.list = entries
      BY <1>3, <1>10
    <3>4. next.index.primary = from.primary
      <4> SUFFICES ASSUME next.index.primary # from.primary PROVE FALSE
        OBVIOUS
      <4>1. line # entries[from.primary].line
        <5>1. line \in Nat /\ entries[from.primary].line \in Nat
          <6>1. DOMAIN Remotes = 1..Len(Remotes) /\ Len(Remotes) \in Nat
            BY RemotesAssumption
          <6>2. entries[from.primary].line \in DOMAIN Remotes
            BY <1>5 DEF Entry
          <6> HIDE DEF line
          <6> QED BY <1>6, <6>1, <6>2
        <5>2. line = entries[next.index.primary].line
          BY <3>3
        <5> HIDE DEF line
        <5>3. line < entries[from.primary].line \/ entries[from.primary].line < line
          BY <1>4, <5>2 DEF EntriesShape
        <5> QED BY <5>1, <5>3
      <4> QED BY <3>1, <3>2, <4>1
    <3>5. /\ from.secondary < Len(entries[from.primary].addrs)
          /\ next.index.secondary = from.secondary + 1
      BY <1>3, <1>10, <3>2, <3>4
    <3> DEFINE addrs == entries[from.primary].addrs
    <3>6. addrs \in Seq(Address) /\ Len(addrs) \in Nat
      BY <1>5 DEF Entry
    <3>7. addrs \in Answers[Remotes[line]]
      <4>1. addrs # << >>
        BY <1>4, <3>5, <3>6
      <4> QED BY <1>4, <3>3, <3>4, <4>1 DEF EntriesShape, HostOf
    <3>8. Len(addrs) <= MostAddresses(line)
      BY <1>6, <3>7, MostAddressesBound
    <3>9. row'.length = row.length + 1
      BY <1>1, <1>4, <1>6, <1>7, <3>1, <3>2, <3>5, <3>6, <3>8
    <3>10. EndpointAvailable(next.list, next.index)
      BY <1>4, <3>3, <3>4, <3>5, <3>6 DEF EndpointAvailable
    <3> QED BY <1>1, <1>4, <1>6, <1>7, <3>2, <3>5, <3>6, <3>8, <3>9, <3>10
  <2> QED BY <2>1, <2>2
<1> HIDE DEF line
<1>11. RowShape'
  BY <1>1, <1>2, <1>8, <1>10 DEF RowShape
<1> QED BY <1>9, <1>11

LEMMA RotationInit == Init => ListShape /\ RowShape
<1> SUFFICES ASSUME Init PROVE ListShape /\ RowShape
  OBVIOUS
<1>1. ListShape
  BY DEF Init, ListInit, ListShape, EntriesShape
<1>2. RowShape
  BY DEF Init, RowShape
<1> QED BY <1>1, <1>2

(* Where the list keeps its lines and no session begins.                   *)
LEMMA RotationStays ==
    ASSUME TypeOK, ListShape, RowShape, ListShape',
           Len(list') = Len(list), list'[index.primary].line = list[index.primary].line,
           UNCHANGED <<cache, index, row, started>>, client' = client \/ ~Live'
    PROVE  ListShape' /\ RowShape'
BY DEF RowShape, Current, Live

LEMMA RotationReset ==
    ASSUME TypeOK, ListShape, RowShape, list' = ResetItem(list, index.primary),
           UNCHANGED <<cache, index, row, started>>, client' = client \/ ~Live'
    PROVE  ListShape' /\ RowShape'
<1>1. ListShape'
  BY TypeFacts, ResetShape DEF ListShape
<1>2. Len(list') = Len(list) /\ list'[index.primary].line = list[index.primary].line
  BY TypeFacts, ResetItemType
<1> QED BY <1>1, <1>2, RotationStays

LEMMA RotationPreResolve ==
    ASSUME TypeOK, ListShape, RowShape, querying # 0,
           NEW entries \in Seq(Entry), Len(entries) = Len(list), EntriesShape(entries),
           \A i \in 1..Len(list) : entries[i].line = list[i].line,
           PreResolveAnswers(entries)
    PROVE  ListShape' /\ RowShape'
<1>1. PICK query \in NextQuery(entries, querying + 1) :
        LET passed == Shared(entries, querying + 1, IF query = 0 THEN Len(entries) ELSE query - 1)
        IN  /\ querying' = query
            /\ \/ query # 0 /\ list' = passed /\ UNCHANGED <<cache, index, connVars>>
               \/ /\ query = 0
                  /\ \E f \in Kept(passed) : NewClient(Listed(passed, f), First, ready)
                  /\ UNCHANGED <<cache, halt, paused>>
  BY DEF PreResolveAnswers
<1> DEFINE passed == Shared(entries, querying + 1, IF query = 0 THEN Len(entries) ELSE query - 1)
<1>2. /\ passed \in Seq(Entry) /\ Len(passed) = Len(list) /\ EntriesShape(passed)
      /\ \A i \in 1..Len(list) : passed[i].line = list[i].line
  BY SharedType, SharedShape
<1>3. CASE query # 0
  <2>1. list' = passed /\ UNCHANGED <<cache, index, connVars>>
    BY <1>1, <1>3
  <2> HIDE DEF passed
  <2>2. ListShape' /\ Len(list') = Len(list) /\ list'[index.primary].line = list[index.primary].line
    BY <1>2, <2>1, TypeFacts DEF ListShape
  <2> QED BY <2>1, <2>2, RotationStays DEF connVars
<1>4. CASE query = 0
  <2>1. PICK f \in Kept(passed) : NewClient(Listed(passed, f), First, ready)
    BY <1>1, <1>4
  <2>2. cache' = cache
    BY <1>1, <1>4
  <2> HIDE DEF passed
  <2>3. Len(passed) # 0
    BY <1>2, TypeFacts
  <2>4. /\ Listed(passed, f) \in Seq(Entry) /\ Len(Listed(passed, f)) # 0
        /\ EntriesShape(Listed(passed, f))
    BY <1>2, <2>3, KeptType, ListedShape
  <2>5. First \in IndexOf(Listed(passed, f))
    BY <2>4 DEF First, IndexOf
  <2> QED BY <2>1, <2>2, <2>4, <2>5, NewClientShape DEF RowShape
<1> QED BY <1>3, <1>4

LEMMA RotationStarts ==
    ASSUME TypeOK, ListShape, RowShape, Start \/ PreResolve
    PROVE  ListShape' /\ RowShape'
<1>1. CASE Start
  <2>1. CASE cache
    BY <1>1, <2>1 DEF Start, connVars, ListShape, RowShape
  <2>2. CASE ~cache
    BY <1>1, <2>2, TypeFacts, NewClientShape DEF Start, ListShape, RowShape
  <2> QED BY <2>1, <2>2
<1>2. CASE PreResolves
  <2>1. PICK a \in Answers[HostOf(list[querying])] : PreResolveAnswers(Resolved(list, querying, a))
    BY <1>2 DEF PreResolves
  <2>2. querying # 0 /\ querying \in 1..Len(list) /\ list[querying] \in Entry
    BY <1>2 DEF PreResolves, TypeOK, ListTypeOK
  <2>3. a \in Seq(Address)
    BY <2>2, AnswerType
  <2>4. EntriesShape(Resolved(list, querying, a))
    BY <2>2, TypeFacts, ResolvedShape DEF ListShape
  <2>5. /\ Resolved(list, querying, a) \in Seq(Entry)
        /\ Len(Resolved(list, querying, a)) = Len(list)
        /\ \A i \in 1..Len(list) : Resolved(list, querying, a)[i].line = list[i].line
    BY <2>2, <2>3, TypeFacts, ResolvedType
  <2> QED BY <2>1, <2>2, <2>4, <2>5, RotationPreResolve
<1>3. CASE PreResolveFails
  BY <1>3, TypeFacts, RotationPreResolve DEF PreResolveFails, ListShape
<1> QED BY <1>1, <1>2, <1>3 DEF PreResolve

LEMMA RotationNetwork ==
    ASSUME TypeOK, ListShape, RowShape, Network
    PROVE  ListShape' /\ RowShape'
<1>1. CASE ClientResolves
  <2>1. PICK a \in Answers[HostOf(Current)] : list' = Resolved(list, index.primary, a)
    BY <1>1 DEF ClientResolves
  <2>2. a \in Seq(Address)
    BY TypeFacts, AnswerType
  <2>3. Len(list') = Len(list) /\ list'[index.primary].line = list[index.primary].line
    BY <2>1, <2>2, TypeFacts, ResolvedType
  <2>4. ListShape'
    BY <2>1, TypeFacts, ResolvedShape DEF ListShape, Current
  <2>5. index'.primary = index.primary /\ index'.secondary = 1
    BY <1>1 DEF ClientResolves, TypeOK, ListTypeOK
  <2>6. client'.at = "trying" /\ client.at = "resolving" /\ UNCHANGED <<cache, row, started>>
    BY <1>1 DEF ClientResolves, TypeOK, ConnTypeOK, Client
  <2> QED BY <2>3, <2>4, <2>5, <2>6 DEF RowShape, Current
<1>2. CASE FirstPacket \/ Connected
  <2>1. UNCHANGED <<list, index, cache, row, started>> /\ client'.at = client.at
    BY <1>2 DEF FirstPacket, Connected, listVars, TypeOK, ConnTypeOK, Client
  <2> QED BY <2>1 DEF ListShape, RowShape, Current
<1>3. CASE TerminateRetried
  <2>1. ~Live'
    BY <1>3, EndedType DEF TerminateRetried, QueueRestart, Live, TypeOK, ConnTypeOK
  <2> QED BY <1>3, <2>1, RotationReset DEF TerminateRetried, QueueRestart
<1>4. CASE TerminateFinal
  <2>1. ~Live'
    BY <1>4, EndedType DEF TerminateFinal, Stop, Live, TypeOK, ConnTypeOK
  <2> QED BY <1>4, <2>1, RotationStays DEF TerminateFinal, Stop, ListShape
<1> QED BY <1>1, <1>2, <1>3, <1>4 DEF Network

LEMMA RotationResume ==
    ASSUME TypeOK, ListShape, RowShape, Resume
    PROVE  ListShape' /\ RowShape'
<1> DEFINE entries == ResetItem(list, index.primary)
<1>1. /\ entries \in Seq(Entry) /\ Len(entries) = Len(list) /\ EntriesShape(entries)
      /\ entries[index.primary].line = list[index.primary].line
  BY TypeFacts, ResetItemType, ResetShape DEF ListShape
<1>2. NewClient(entries, index, Tail(ready)) /\ cache' = cache
  BY DEF Resume
<1> HIDE DEF entries
<1>3. index \in IndexOf(entries)
  BY <1>1, TypeFacts DEF IndexOf
<1> QED BY <1>1, <1>2, <1>3, NewClientShape DEF RowShape, Current

LEMMA RotationHandlers ==
    ASSUME TypeOK, ListShape, RowShape, HandlerRuns
    PROVE  ListShape' /\ RowShape'
<1>1. CASE Ignored
  BY <1>1, RotationStays DEF Ignored, ListShape, listVars
<1>2. CASE Resume
  BY <1>2, RotationResume
<1>3. CASE NewClient(list, index, Tail(ready)) /\ cache' = cache
  BY <1>3, TypeFacts, NewClientShape DEF ListShape, RowShape, Current
<1>4. CASE ConnTimedOut \/ StopPosted
  <2>1. ~Live'
    BY <1>4, EndedType DEF ConnTimedOut, StopPosted, Stop, Live, TypeOK, ConnTypeOK
  <2> QED BY <1>4, <2>1, RotationStays DEF ConnTimedOut, StopPosted, Stop, ListShape
<1>5. CASE Pause
  <2>1. ~Live'
    BY <1>5, EndedType DEF Pause, Live, TypeOK, ConnTypeOK
  <2> QED BY <1>5, <2>1, RotationStays DEF Pause, ListShape, listVars
<1>6. CASE Reconnect
  BY <1>6, RotationReset DEF Reconnect
<1> QED BY <1>1, <1>2, <1>3, <1>4, <1>5, <1>6
        DEF HandlerRuns, RestartWait, ServerPoll, ResumePosted

LEMMA RotationKept ==
    TypeOK /\ ListShape /\ RowShape /\ [Next]_vars => ListShape' /\ RowShape'
<1> SUFFICES ASSUME TypeOK, ListShape, RowShape, [Next]_vars PROVE ListShape' /\ RowShape'
  OBVIOUS
<1>1. CASE UNCHANGED vars
  BY <1>1, RotationStays DEF vars, listVars, connVars, ListShape
<1>2. CASE (\E t \in Timer : Expire(t)) \/ Post
  BY <1>2, RotationStays DEF Expire, Post, listVars, ListShape
<1> QED BY <1>1, <1>2, RotationStarts, RotationNetwork, RotationHandlers DEF Next

(* No server is tried for ever while others are listed and the addresses   *)
(* are cached: between two turns of another entry, the sessions that do    *)
(* not connect are no more than the addresses its host may have, for every *)
(* list of remotes, whatever was pruned or is paused, restarted or resolved*)
(* again (RemoteList::next, PreResolve, new_client).                       *)
THEOREM RotationCorrect == Spec => []CachedEntriesRotate
<1>1. TypeOK /\ RowShape => CachedEntriesRotate
  <2> SUFFICES ASSUME TypeOK, RowShape, cache, Len(list) > 1
               PROVE  row.length <= MostAddresses(row.line)
    BY DEF CachedEntriesRotate, EntriesRotate
  <2>1. CASE started
    BY <2>1 DEF RowShape
  <2>2. CASE ~started
    <3>1. row.line \in DOMAIN Remotes /\ row.length = 0
      BY <2>2 DEF RowShape, TypeOK, ConnTypeOK
    <3> QED BY <3>1, MostAddressesBound
  <2> QED BY <2>1, <2>2
<1> QED BY <1>1, InitType, NextType, RotationInit, RotationKept, PTL DEF Spec

================================================================================
