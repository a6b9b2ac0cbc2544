----------------------------- MODULE StandaloneProof -----------------------------
(***************************************************************************)
(* Proofs about the tunnel's log, the profile server and the speed test.   *)
(* Those about the packet ids are in PacketIdProof.                        *)
(***************************************************************************)
EXTENDS Standalone, TLAPS

(***************************************************************************)
(* The profile server.  What is still to be handled of a listener ends     *)
(* with the state it is in.                                                *)
(***************************************************************************)
ListenerState == {"none", "starting", "ready", "failed", "cancelled"}

ServerInv ==
    /\ listening \in [Listener -> ListenerState]
    /\ handlers \in [Listener -> Seq(ListenerState)]
    /\ listener \in Listener \cup {NoListener}
    /\ \A l \in Listener : handlers[l] # << >> =>
          handlers[l][Len(handlers[l])] = listening[l]
    /\ ShownServerListens

LEMMA EntersInv ==
    ASSUME ServerInv, NEW l \in Listener, NEW s \in ListenerState, Enters(l, s),
           listener' \in Listener \cup {NoListener}, isRunning' => isRunning
    PROVE  ServerInv'
<1>1. /\ listening' \in [Listener -> ListenerState]
      /\ handlers' \in [Listener -> Seq(ListenerState)]
      /\ handlers'[l] = Append(handlers[l], s) /\ listening'[l] = s
      /\ \A k \in Listener \ {l} : handlers'[k] = handlers[k] /\ listening'[k] = listening[k]
  BY DEF ServerInv, Enters
<1>2. handlers'[l] # << >> /\ handlers'[l][Len(handlers'[l])] = s
  <2>1. handlers[l] \in Seq(ListenerState)
    BY DEF ServerInv
  <2>2. Append(handlers[l], s) # << >> /\ Append(handlers[l], s)[Len(Append(handlers[l], s))] = s
    BY <2>1
  <2> QED BY <1>1, <2>2
<1> QED BY <1>1, <1>2 DEF ServerInv, ShownServerListens

LEMMA ServerStep ==
    ASSUME ServerInv, ServerNext
    PROVE  ServerInv'
<1>1. CASE Start
  <2>1. PICK l \in Listener :
            /\ ~ isRunning /\ handlers[l] = << >> /\ listener' = l
            /\ listening' = [listening EXCEPT ![l] = "starting"]
            /\ handlers' = handlers /\ isRunning' = isRunning
    BY <1>1 DEF Start, Free
  <2>2. listening' \in [Listener -> ListenerState]
    BY <2>1 DEF ServerInv, ListenerState
  <2> QED BY <2>1, <2>2 DEF ServerInv, ShownServerListens
<1>2. CASE Stop
  <2>1. CASE listener = NoListener
    BY <1>2, <2>1 DEF Stop, ServerInv, ShownServerListens
  <2>2. CASE listener # NoListener
    BY <1>2, <2>2, EntersInv DEF Stop, ServerInv, ListenerState
  <2> QED BY <2>1, <2>2
<1>3. ASSUME NEW l \in Listener, BecomesReady(l) \/ ListenerFails(l)
      PROVE  ServerInv'
  BY <1>3, EntersInv DEF BecomesReady, ListenerFails, ServerInv, ListenerState
<1>4. ASSUME NEW l \in Listener, HandlerTask(l)
      PROVE  ServerInv'
  <2>1. /\ handlers[l] \in Seq(ListenerState) /\ handlers[l] # << >>
        /\ handlers' = [handlers EXCEPT ![l] = Tail(handlers[l])]
        /\ isRunning' = (Head(handlers[l]) = "ready")
        /\ UNCHANGED <<listening, listener>>
    BY <1>4 DEF HandlerTask, ShownAfter, ServerInv
  <2>2. /\ Tail(handlers[l]) \in Seq(ListenerState)
        /\ Tail(handlers[l]) # << >> =>
              Tail(handlers[l])[Len(Tail(handlers[l]))] = handlers[l][Len(handlers[l])]
        /\ Tail(handlers[l]) = << >> => Head(handlers[l]) = handlers[l][Len(handlers[l])]
    <3> DEFINE h == handlers[l]
    <3>1. h \in Seq(ListenerState) /\ h # << >>
      BY <2>1
    <3> HIDE DEF h
    <3>2. Tail(h) \in Seq(ListenerState) /\ Len(Tail(h)) = Len(h) - 1 /\ Len(h) > 0
      BY <3>1
    <3>3. Tail(h) # << >> => Tail(h)[Len(Tail(h))] = h[Len(h)]
      BY <3>1, <3>2
    <3>4. Tail(h) = << >> => Head(h) = h[Len(h)]
      BY <3>1, <3>2
    <3> QED BY <3>2, <3>3, <3>4 DEF h
  <2>3. /\ handlers' \in [Listener -> Seq(ListenerState)]
        /\ handlers'[l] = Tail(handlers[l])
        /\ \A k \in Listener \ {l} : handlers'[k] = handlers[k]
    BY <2>1, <2>2 DEF ServerInv
  <2>4. ShownServerListens'
    <3> SUFFICES ASSUME isRunning', handlers'[l] = << >>
                 PROVE  listening'[l] = "ready"
      BY DEF ShownServerListens
    <3> QED BY <2>1, <2>2, <2>3 DEF ServerInv
  <2> QED BY <2>1, <2>2, <2>3, <2>4 DEF ServerInv
<1> QED BY <1>1, <1>2, <1>3, <1>4 DEF ServerNext

LEMMA InitServer == Init => ServerInv
BY DEF Init, ServerInit, ServerInv, ListenerState, ShownServerListens

(* Once the handlers have run, an address that is shown is answered:       *)
(* however often the app becomes active and inactive meanwhile.            *)
THEOREM ServerCorrect == Spec => []ShownServerListens
<1>1. ServerInv /\ [Next]_vars => ServerInv'
  <2>1. ServerInv /\ UNCHANGED serverVars => ServerInv'
    BY DEF ServerInv, serverVars, ShownServerListens
  <2> QED BY <2>1, ServerStep DEF Next, vars
<1>2. ServerInv => ShownServerListens
  BY DEF ServerInv
<1> QED BY <1>1, <1>2, InitServer, PTL DEF Spec

(***************************************************************************)
(* The speed test.  A task that is alive is cancelled or the current one.  *)
(***************************************************************************)
TestInv ==
    /\ at \in [Test -> Phases \cup {"none", "created"}]
    /\ testTask \in Test \cup {NoTest}
    /\ \A t \in Test : Alive(t) => t \in cancelled \/ t = testTask
    /\ RunningIsMeasured

LEMMA EndsInv ==
    ASSUME TestInv, NEW t \in Test, NEW s, Ends(t, s),
           s \notin Phases \/ (s = testState /\ t \in cancelled)
    PROVE  TestInv'
<1>1. /\ at' \in [Test -> Phases \cup {"none", "created"}] /\ at'[t] = "none"
      /\ \A u \in Test \ {t} : at'[u] = at[u]
      /\ testState' = s /\ cancelled' = cancelled /\ testTask' = testTask
  BY DEF TestInv, Ends
<1>2. RunningIsMeasured'
  BY <1>1 DEF TestInv, RunningIsMeasured, IsRunning
<1> QED BY <1>1, <1>2 DEF TestInv, Alive

LEMMA AwaitsInv ==
    ASSUME TestInv, NEW t \in Test, NEW phase \in Phases, Awaits(t, phase),
           Alive(t), t \notin cancelled
    PROVE  TestInv'
<1>1. /\ at' \in [Test -> Phases \cup {"none", "created"}] /\ at'[t] = phase
      /\ \A u \in Test \ {t} : at'[u] = at[u]
      /\ testState' = phase /\ cancelled' = cancelled /\ testTask' = testTask
      /\ t = testTask
  BY DEF TestInv, Awaits
<1>2. RunningIsMeasured'
  BY <1>1, NoTestAssumption DEF TestInv, RunningIsMeasured
<1> QED BY <1>1, <1>2 DEF TestInv, Alive

LEMMA TaskStepInv ==
    ASSUME TestInv, NEW t \in Test, TaskStep(t)
    PROVE  TestInv'
<1> USE DEF Phases
<1>1. CASE Begin(t)
  BY <1>1, EndsInv, AwaitsInv DEF Begin, Alive
<1>2. ASSUME NEW phase \in Phases, GoesOn(t, phase), at[t] # "none"
      PROVE  TestInv'
  BY <1>2, EndsInv, AwaitsInv DEF GoesOn, Alive
<1>3. CASE Measured(t)
  BY <1>2, <1>3, EndsInv DEF Measured
<1>4. CASE ThrowsCancellation(t) \/ RequestFails(t)
  BY <1>4, EndsInv DEF ThrowsCancellation, RequestFails
<1> QED BY <1>1, <1>3, <1>4 DEF TaskStep

LEMMA TestStep ==
    ASSUME TestInv, TestNext
    PROVE  TestInv'
<1>1. CASE StartTest
  <2>1. PICK t \in Test :
            /\ ~ IsRunning /\ ~ Alive(t)
            /\ at' = [at EXCEPT ![t] = "created"]
            /\ testTask' = t /\ cancelled' = Cancelled \ {t}
            /\ testState' = testState
    BY <1>1 DEF StartTest
  <2>2. /\ at' \in [Test -> Phases \cup {"none", "created"}]
        /\ \A u \in Test \ {t} : at'[u] = at[u]
    BY <2>1 DEF TestInv
  <2>3. \A u \in Test \ {t} : Alive(u) => u \in Cancelled
    BY NoTestAssumption DEF TestInv, Cancelled
  <2> QED BY <2>1, <2>2, <2>3 DEF TestInv, Alive, RunningIsMeasured, IsRunning
<1>2. CASE Cancel
  <2>1. \A u \in Test : Alive(u) => u \in Cancelled
    BY NoTestAssumption DEF TestInv, Cancelled
  <2> QED BY <1>2, <2>1 DEF Cancel, TestInv, Alive, RunningIsMeasured, IsRunning, Phases
<1> QED BY <1>1, <1>2, TaskStepInv DEF TestNext

LEMMA InitTest == Init => TestInv
BY DEF Init, TestInit, TestInv, Alive, RunningIsMeasured, IsRunning, Phases

(* No cancelled task, whenever it resumes, starts a phase of a test or     *)
(* leaves one on the screen that nobody measures.                          *)
THEOREM TestCorrect == Spec => []RunningIsMeasured
<1>1. TestInv /\ [Next]_vars => TestInv'
  <2>1. TestInv /\ UNCHANGED testVars => TestInv'
    BY DEF TestInv, testVars, Alive, RunningIsMeasured, IsRunning
  <2> QED BY <2>1, TestStep DEF Next, vars
<1>2. TestInv => RunningIsMeasured
  BY DEF TestInv
<1> QED BY <1>1, <1>2, InitTest, PTL DEF Spec

(***************************************************************************)
(* The tunnel's log, as long as no profile is configured while an          *)
(* extension still runs.                                                   *)
(***************************************************************************)
LastOf(s) == s[Len(s)]

LEMMA EndOf ==
    ASSUME NEW s \in Seq(Nat), NEW i \in 1..Len(s)
    PROVE  /\ SubSeq(s, i, Len(s)) \in Seq(Nat)
           /\ Len(SubSeq(s, i, Len(s))) = Len(s) - i + 1
           /\ SubSeq(s, i, Len(s)) # << >>
           /\ LastOf(SubSeq(s, i, Len(s))) = LastOf(s)
<1> DEFINE e == SubSeq(s, i, Len(s))
<1>1. e \in Seq(Nat) /\ Len(e) = Len(s) - i + 1
  OBVIOUS
<1>2. \A k \in 1..Len(e) : e[k] = s[i + k - 1]
  OBVIOUS
<1> HIDE DEF e
<1>3. Len(e) \in 1..Len(e) /\ i + Len(e) - 1 = Len(s)
  BY <1>1
<1>4. LastOf(e) = LastOf(s)
  BY <1>2, <1>3 DEF LastOf
<1>5. e # << >>
  BY <1>1
<1> QED BY <1>1, <1>4, <1>5 DEF e

LEMMA EndOfConcat ==
    ASSUME NEW s \in Seq(Nat), NEW e \in Seq(Nat), e # << >>
    PROVE  s \o e \in Seq(Nat) /\ s \o e # << >> /\ LastOf(s \o e) = LastOf(e)
<1> DEFINE c == s \o e
<1>1. c \in Seq(Nat) /\ Len(c) = Len(s) + Len(e) /\ Len(e) > 0
  OBVIOUS
<1>2. \A k \in 1..Len(e) : c[Len(s) + k] = e[k]
  OBVIOUS
<1> HIDE DEF c
<1>3. LastOf(c) = LastOf(e)
  BY <1>1, <1>2 DEF LastOf
<1>4. c # << >>
  BY <1>1
<1> QED BY <1>1, <1>3, <1>4 DEF c

LEMMA NewestEntries ==
    ASSUME NEW s \in Seq(Nat), NEW n \in Nat \ {0}
    PROVE  /\ Newest(s, n) \in Seq(Nat)
           /\ Len(Newest(s, n)) = IF Len(s) > n THEN n ELSE Len(s)
           /\ s # << >> => Newest(s, n) # << >> /\ LastOf(Newest(s, n)) = LastOf(s)
<1>1. CASE Len(s) > n
  <2>1. Newest(s, n) = SubSeq(s, Len(s) - n + 1, Len(s)) /\ Len(s) - n + 1 \in 1..Len(s)
    BY <1>1 DEF Newest
  <2>2. Len(s) - (Len(s) - n + 1) + 1 = n
    BY <1>1
  <2> QED BY <1>1, <2>1, <2>2, EndOf
<1>2. CASE ~ Len(s) > n
  <2>1. Newest(s, n) = SubSeq(s, 1, Len(s))
    BY <1>2 DEF Newest
  <2>2. SubSeq(s, 1, Len(s)) = s
    OBVIOUS
  <2> QED BY <1>2, <2>1, <2>2
<1> QED BY <1>1, <1>2

LogType ==
    /\ written \in Nat /\ jobs \in Nat /\ refetch \in Nat /\ lastTunnelLogCount \in Nat
    /\ tunnelLog \in Seq(Nat) /\ defaults \in Seq(Nat) /\ connectionLog \in Seq(Nat)
    /\ Len(defaults) <= Kept
    /\ configured \in BOOLEAN
    /\ extension \in {"off", "starting", "on"}

(* What the app has counted it has also shown.                             *)
Shown ==
    /\ lastTunnelLogCount <= Len(defaults)
    /\ lastTunnelLogCount > 0 /\ lastTunnelLogCount = Len(defaults) /\ Len(defaults) < Kept =>
          connectionLog # << >> /\ LastOf(connectionLog) = LastOf(defaults)

(* A session starts from an empty log that the app has not counted.        *)
Emptied ==
    /\ configured => extension = "off"
    /\ configured \/ extension = "starting" => defaults = << >> /\ lastTunnelLogCount = 0
    /\ extension = "on" => defaults = tunnelLog /\ tunnelLog # << >>

(* After a session something is still to read what the app has not read.   *)
ReadAgain ==
    status = "disconnected" /\ defaults # << >> =>
        \/ jobs > 0 \/ refetch > 0
        \/ extension = "off" /\ lastTunnelLogCount = Len(defaults)

LogInv == LogType /\ Shown /\ Emptied /\ ReadAgain

LEMMA FetchShows ==
    ASSUME LogType, NEW last \in Nat, FetchFrom(last), UNCHANGED defaults,
           last <= Len(defaults),
           last > 0 /\ last = Len(defaults) /\ Len(defaults) < Kept =>
               connectionLog # << >> /\ LastOf(connectionLog) = LastOf(defaults)
    PROVE  /\ lastTunnelLogCount' \in Nat /\ connectionLog' \in Seq(Nat)
           /\ Shown'
           /\ defaults # << >> => lastTunnelLogCount' = Len(defaults)
           /\ defaults = << >> => lastTunnelLogCount' = last
<1> USE LogAssumption
<1>1. CASE defaults = << >>
  BY <1>1 DEF FetchFrom, LogType, Shown
<1>2. CASE defaults # << >>
  <2> DEFINE fresh == SubSeq(defaults, last + 1, Len(defaults))
             log == connectionLog \o fresh
  <2>1. defaults \in Seq(Nat) /\ connectionLog \in Seq(Nat) /\ Len(defaults) > 0
    BY <1>2 DEF LogType
  <2>2. fresh \in Seq(Nat) /\ log \in Seq(Nat) /\ Len(fresh) = Len(defaults) - last
    BY <2>1
  <2>3. last < Len(defaults) => fresh # << >> /\ LastOf(fresh) = LastOf(defaults)
    BY <2>1, EndOf
  <2>4. fresh # << >> => log # << >> /\ LastOf(log) = LastOf(fresh)
    BY <2>1, <2>2, EndOfConcat
  <2>5. last = Len(defaults) => log = connectionLog
    BY <2>1, <2>2
  <2>6. Len(defaults) < Kept => log # << >> /\ LastOf(log) = LastOf(defaults)
    <3> HIDE DEF fresh, log
    <3>1. CASE last < Len(defaults)
      BY <2>3, <2>4, <3>1
    <3>2. CASE last = Len(defaults)
      <4>1. last > 0
        BY <2>1, <3>2
      <4> QED BY <2>5, <3>2, <4>1
    <3>3. Len(defaults) \in Nat
      BY <2>1
    <3> QED BY <3>1, <3>2, <3>3
  <2> HIDE DEF log
  <2>7. connectionLog' = Newest(log, Lines) /\ lastTunnelLogCount' = Len(defaults)
    BY <1>2 DEF FetchFrom, log
  <2>8. /\ Newest(log, Lines) \in Seq(Nat)
        /\ log # << >> => Newest(log, Lines) # << >> /\ LastOf(Newest(log, Lines)) = LastOf(log)
    BY <2>2, NewestEntries
  <2>9. Shown'
    BY <2>1, <2>6, <2>7, <2>8 DEF Shown
  <2> QED BY <1>2, <2>1, <2>7, <2>8, <2>9
<1> QED BY <1>1, <1>2

LEMMA InitLog == Init => LogInv
<1> SUFFICES ASSUME LogInit PROVE LogInv
  BY DEF Init
<1>1. << >> \in Seq(Nat) /\ Len(<< >>) = 0
  OBVIOUS
<1>2. LogType
  <2>1. Kept \in Nat /\ 0 <= Kept
    BY LogAssumption
  <2> QED BY <1>1, <2>1 DEF LogInit, LogType
<1>3. Shown /\ Emptied /\ ReadAgain
  BY <1>1 DEF LogInit, Shown, Emptied, ReadAgain
<1> QED BY <1>2, <1>3 DEF LogInv

LEMMA AppendInv ==
    ASSUME LogInv, AppendTunnelLog
    PROVE  LogInv'
<1> DEFINE log == Newest(Append(tunnelLog, written + 1), Kept)
<1>1. /\ tunnelLog' = log /\ defaults' = log /\ written' = written + 1
      /\ UNCHANGED <<status, extension, jobs, configured, polling, refetch,
                     lastTunnelLogCount, connectionLog>>
      /\ extension = "on" /\ defaults = tunnelLog /\ tunnelLog # << >>
  BY DEF AppendTunnelLog, Stored, appVars, LogInv, Emptied
<1>2. /\ tunnelLog \in Seq(Nat) /\ written + 1 \in Nat
      /\ Append(tunnelLog, written + 1) \in Seq(Nat)
      /\ Len(Append(tunnelLog, written + 1)) = Len(tunnelLog) + 1
      /\ Append(tunnelLog, written + 1) # << >>
  <2>1. tunnelLog \in Seq(Nat) /\ written \in Nat
    BY DEF LogInv, LogType
  <2> QED BY <2>1
<1>3. /\ log \in Seq(Nat) /\ log # << >>
      /\ Len(log) = IF Len(tunnelLog) + 1 > Kept THEN Kept ELSE Len(tunnelLog) + 1
  BY <1>2, NewestEntries, LogAssumption
<1> HIDE DEF log
<1>4. LogType'
  BY <1>1, <1>2, <1>3, LogAssumption DEF LogInv, LogType
<1>5. Emptied'
  BY <1>1, <1>3 DEF LogInv, Emptied
<1>6. ReadAgain'
  BY <1>1 DEF LogInv, ReadAgain
<1>7. Shown'
  BY <1>1, <1>2, <1>3, LogAssumption DEF LogInv, LogType, Shown
<1> QED BY <1>4, <1>5, <1>6, <1>7 DEF LogInv

LEMMA FetchInv ==
    ASSUME LogInv, NEW last \in Nat, FetchFrom(last), UNCHANGED <<tunnelVars, defaults, configured>>,
           last = lastTunnelLogCount, jobs' \in Nat, refetch' \in Nat,
           status = "disconnected" => \/ jobs' > 0 \/ refetch' > 0 \/ extension = "off"
    PROVE  LogInv'
<1>1. /\ last <= Len(defaults)
      /\ last > 0 /\ last = Len(defaults) /\ Len(defaults) < Kept =>
            connectionLog # << >> /\ LastOf(connectionLog) = LastOf(defaults)
  BY DEF LogInv, Shown
<1>2. /\ lastTunnelLogCount' \in Nat /\ connectionLog' \in Seq(Nat)
      /\ Shown'
      /\ defaults # << >> => lastTunnelLogCount' = Len(defaults)
      /\ defaults = << >> => lastTunnelLogCount' = last
  BY <1>1, FetchShows DEF LogInv
<1>3. LogType' /\ Emptied'
  BY <1>2 DEF LogInv, LogType, Emptied, tunnelVars
<1>4. ReadAgain'
  BY <1>2 DEF ReadAgain, tunnelVars
<1> QED BY <1>2, <1>3, <1>4 DEF LogInv

LEMMA StatusInv ==
    ASSUME LogInv, NEW s, StatusBecomes(s), UNCHANGED <<extension, refetch, lastTunnelLogCount, connectionLog>>,
           configured' \in BOOLEAN
    PROVE  LogType' /\ Shown' /\ ReadAgain' /\ UNCHANGED <<tunnelLog, defaults>>
<1>1. jobs' \in Nat /\ jobs' > 0
  BY LogAssumption DEF StatusBecomes, LogInv, LogType
<1> QED BY <1>1 DEF StatusBecomes, LogInv, LogType, Shown, ReadAgain

LEMMA JobInv ==
    ASSUME LogInv, UpdateConnectionState
    PROVE  LogInv'
<1>1. /\ jobs > 0 /\ jobs' = jobs - 1 /\ UNCHANGED <<tunnelVars, defaults, configured>>
      /\ jobs \in Nat /\ refetch \in Nat /\ lastTunnelLogCount \in Nat
  BY DEF UpdateConnectionState, LogInv, LogType
<1>2. CASE status = "disconnected"
  <2>1. FetchFrom(lastTunnelLogCount) /\ refetch' \in Nat /\ refetch' > 0
    BY <1>1, <1>2, LogAssumption DEF UpdateConnectionState, ShowDisconnected
  <2> QED BY <1>1, <2>1, FetchInv
<1>3. CASE status = "connected"
  <2>1. FetchFrom(lastTunnelLogCount) /\ refetch' = refetch
    BY <1>3 DEF UpdateConnectionState, ShowConnected
  <2> QED BY <1>1, <1>3, <2>1, FetchInv
<1>4. CASE status \notin {"disconnected", "connected"}
  <2>1. lastTunnelLogCount' = 0 /\ UNCHANGED <<refetch, connectionLog>>
    BY <1>4 DEF UpdateConnectionState, StartLogPolling
  <2> QED BY <1>1, <1>4, <2>1 DEF LogInv, LogType, Shown, Emptied, ReadAgain, tunnelVars
<1> QED BY <1>2, <1>3, <1>4

LEMMA LogStep ==
    ASSUME LogInv, LogNext, ~ Overlaps
    PROVE  LogInv'
<1>1. CASE Connects
  <2>1. /\ StatusBecomes("connecting") /\ UNCHANGED <<refetch, lastTunnelLogCount, connectionLog>>
        /\ configured /\ configured' = FALSE /\ extension' = "starting"
    BY <1>1 DEF Connects
  <2>2. jobs' \in Nat /\ UNCHANGED <<written, tunnelLog, defaults>> /\ status' = "connecting"
    BY <2>1, LogAssumption DEF StatusBecomes, LogInv, LogType
  <2> QED BY <2>1, <2>2 DEF LogInv, LogType, Shown, Emptied, ReadAgain
<1>2. CASE SessionStep
  <2>1. PICK s : StatusBecomes(s)
    BY <1>2 DEF SessionStep
  <2>2. UNCHANGED <<extension, configured, refetch, lastTunnelLogCount, connectionLog>>
    BY <1>2 DEF SessionStep, appVars
  <2>3. LogType' /\ Shown' /\ ReadAgain' /\ UNCHANGED <<tunnelLog, defaults>>
    BY <2>1, <2>2, StatusInv DEF LogInv, LogType
  <2> QED BY <2>2, <2>3 DEF LogInv, Emptied
<1>3. CASE StartTunnel
  <2>1. /\ extension = "starting" /\ extension' = "on" /\ status # "disconnected"
        /\ tunnelLog' = <<written + 1>> /\ defaults' = <<written + 1>> /\ written' = written + 1
        /\ UNCHANGED <<status, jobs, configured, refetch, lastTunnelLogCount, connectionLog>>
    BY <1>3 DEF StartTunnel, Stored, appVars
  <2>2. <<written + 1>> \in Seq(Nat) /\ Len(<<written + 1>>) = 1 /\ <<written + 1>> # << >>
    BY DEF LogInv, LogType
  <2>3. lastTunnelLogCount = 0
    BY <2>1 DEF LogInv, Emptied
  <2>4. LogType'
    BY <2>1, <2>2, LogAssumption DEF LogInv, LogType
  <2>5. Shown' /\ ReadAgain'
    BY <2>1, <2>2, <2>3 DEF Shown, ReadAgain
  <2>6. Emptied'
    BY <2>1, <2>2 DEF LogInv, Emptied
  <2> QED BY <2>4, <2>5, <2>6 DEF LogInv
<1>4. CASE ExtensionEnds
  BY <1>4 DEF ExtensionEnds, appVars, LogInv, LogType, Shown, Emptied, ReadAgain
<1>5. CASE Poll
  <2>1. /\ FetchFrom(lastTunnelLogCount) /\ UNCHANGED <<tunnelVars, defaults, configured>>
        /\ jobs' = jobs /\ refetch' = refetch
        /\ lastTunnelLogCount \in Nat /\ jobs \in Nat /\ refetch \in Nat
    BY <1>5 DEF Poll, LogInv, LogType
  <2>2. CASE defaults = << >>
    <3>1. lastTunnelLogCount' = lastTunnelLogCount /\ connectionLog' = connectionLog
      BY <2>1, <2>2 DEF FetchFrom
    <3> QED BY <2>1, <3>1 DEF LogInv, LogType, Shown, Emptied, ReadAgain, tunnelVars
  <2>3. CASE defaults # << >>
    <3>1. status = "disconnected" => jobs > 0 \/ refetch > 0 \/ extension = "off"
      BY <2>3 DEF LogInv, ReadAgain
    <3> QED BY <2>1, <3>1, FetchInv
  <2> QED BY <2>2, <2>3
<1>6. CASE Refetch
  <2>1. /\ FetchFrom(lastTunnelLogCount) /\ UNCHANGED <<tunnelVars, defaults, configured>>
        /\ jobs' = jobs /\ refetch' = refetch - 1 /\ refetch > 0 /\ extension = "off"
        /\ lastTunnelLogCount \in Nat /\ jobs \in Nat /\ refetch \in Nat
    BY <1>6 DEF Refetch, LogInv, LogType
  <2> QED BY <2>1, FetchInv
<1>7. CASE Configure
  <2>1. << >> \in Seq(Nat) /\ Len(<< >>) = 0
    OBVIOUS
  <2> QED BY <1>7, <2>1, LogAssumption
      DEF Configure, tunnelVars, LogInv, LogType, Shown, Emptied, ReadAgain
<1>8. CASE Relaunch
  <2>1. << >> \in Seq(Nat) /\ 0 \in Nat
    OBVIOUS
  <2>2. /\ jobs' = 1 /\ configured' = FALSE /\ refetch' = 0
        /\ lastTunnelLogCount' = 0 /\ connectionLog' = << >>
        /\ UNCHANGED <<status, extension, written, tunnelLog, defaults>>
    BY <1>8 DEF Relaunch, tunnelVars
  <2>3. LogType'
    BY <2>1, <2>2 DEF LogInv, LogType
  <2>4. Shown' /\ Emptied' /\ ReadAgain'
    BY <2>2, <2>3 DEF LogInv, LogType, Shown, Emptied, ReadAgain
  <2> QED BY <2>3, <2>4 DEF LogInv
<1> QED BY <1>1, <1>2, <1>3, <1>4, <1>5, <1>6, <1>7, <1>8, AppendInv, JobInv DEF LogNext

LEMMA FinalFromInv == LogInv => FinalEntryShown
<1> SUFFICES ASSUME LogInv, status = "disconnected", jobs = 0, refetch = 0,
                    defaults # << >>, Len(defaults) < Kept
             PROVE  \E i \in 1..Len(connectionLog) : connectionLog[i] = defaults[Len(defaults)]
  BY DEF FinalEntryShown
<1>1. lastTunnelLogCount = Len(defaults) /\ Len(defaults) > 0
  BY DEF LogInv, LogType, ReadAgain
<1>2. connectionLog # << >> /\ LastOf(connectionLog) = LastOf(defaults)
  BY <1>1 DEF LogInv, Shown
<1>3. Len(connectionLog) \in 1..Len(connectionLog)
  BY <1>2 DEF LogInv, LogType
<1> QED BY <1>2, <1>3 DEF LastOf

(* However often the app is started anew, polls, or hears of the session   *)
(* late, it shows the last entry of a session that has ended, if no        *)
(* profile is configured while an extension runs.                          *)
THEOREM FinalEntryCorrect ==
    ASSUME ~ Overlaps
    PROVE  Spec => []FinalEntryShown
<1>1. LogInv /\ [Next]_vars => LogInv'
  <2>1. LogInv /\ UNCHANGED logVars => LogInv'
    BY DEF LogInv, LogType, Shown, Emptied, ReadAgain, logVars
  <2> QED BY <2>1, LogStep DEF Next, vars
<1> QED BY <1>1, InitLog, FinalFromInv, PTL DEF Spec
================================================================================
