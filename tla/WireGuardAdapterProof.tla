------------------------- MODULE WireGuardAdapterProof -------------------------
(***************************************************************************)
(* Proofs about WireGuardAdapter for every number of handles, devices,     *)
(* configurations, monitors and goroutines, and every queue bound.  The    *)
(* typing lemma comes first; the safety invariants then follow from the    *)
(* inductive invariant IInv, one lemma per group of actions.               *)
(***************************************************************************)
EXTENDS WireGuardAdapter, TLAPS

--------------------------------------------------------------------------------
(* The Go entry points keep the types of the table, whatever the caller.   *)

LEMMA TurnOnType ==
    ASSUME GoTypeOK, NEW c \in Config \cup {NoConfig}, NEW p \in Path, NEW ret,
           wgTurnOn(c, p, ret)
    PROVE  GoTypeOK'
<1>1. CASE TurnOnBeforeDevice(ret)
  BY <1>1 DEF TurnOnBeforeDevice, GoTypeOK, goVars
<1>2. CASE TurnOnAbandoned(c, p, ret)
  BY <1>2 DEF TurnOnAbandoned, GoTypeOK, DeviceStatus
<1>3. CASE TurnOnStarted(c, p, ret)
  BY <1>3 DEF TurnOnStarted, GoTypeOK, DeviceStatus, IsLowestFree
<1> QED BY <1>1, <1>2, <1>3 DEF wgTurnOn

LEMMA TurnOffType ==
    ASSUME GoTypeOK, NEW h, wgTurnOff(h)
    PROVE  GoTypeOK'
BY DEF wgTurnOff, GoTypeOK, goVars, FreshDevice, DeviceStatus, Exists

LEMMA SetConfigType ==
    ASSUME GoTypeOK, NEW h, NEW c \in Config \cup {NoConfig}, NEW p \in Path,
           wgSetConfig(h, c, p)
    PROVE  GoTypeOK'
BY DEF wgSetConfig, GoTypeOK, goVars, Exists

LEMMA EndpointsType ==
    ASSUME GoTypeOK, NEW h, NEW p \in Path, wgSetEndpointsAndBump(h, p)
    PROVE  GoTypeOK'
<1>1. 0 \in 0 .. BumpTries
  BY BumpTriesAssumption
<1>2. CASE ~ Exists(h)
  BY <1>2 DEF wgSetEndpointsAndBump, GoTypeOK, goVars
<1>3. CASE Exists(h)
  <2>1. PICK b \in Bumper :
            bumps' = [bumps EXCEPT ![b] = [dev |-> tunnelHandles[h], i |-> 0]]
    BY <1>3 DEF wgSetEndpointsAndBump, Bump
  <2>2. bumps' \in [Bumper -> [dev : Device \cup {NoDevice}, i : 0 .. BumpTries]]
    BY <1>1, <1>3, <2>1 DEF GoTypeOK, Exists
  <2>3. /\ device' = [device EXCEPT ![tunnelHandles[h]].resolvedOn = p]
        /\ tunnelHandles' = tunnelHandles
    BY <1>3 DEF wgSetEndpointsAndBump
  <2> QED BY <1>3, <2>2, <2>3 DEF GoTypeOK, Exists
<1> QED BY <1>2, <1>3

LEMMA GoroutineType ==
    ASSUME GoTypeOK, NEW b \in Bumper, BumpAttempt(b)
    PROVE  GoTypeOK'
<1>1. 0 \in 0 .. BumpTries
  BY BumpTriesAssumption
<1>2. CASE bumps' = [bumps EXCEPT ![b] = Idle]
  BY <1>1, <1>2 DEF BumpAttempt, GoTypeOK, Idle
<1>3. CASE /\ bumps[b].i + 1 < BumpTries
           /\ bumps' = [bumps EXCEPT ![b].i = bumps[b].i + 1]
  <2>1. bumps[b].i + 1 \in 0 .. BumpTries
    BY <1>3, BumpTriesAssumption DEF GoTypeOK
  <2>2. bumps' \in [Bumper -> [dev : Device \cup {NoDevice}, i : 0 .. BumpTries]]
    BY <1>3, <2>1 DEF GoTypeOK
  <2> QED BY <2>2 DEF BumpAttempt, GoTypeOK
<1> QED BY <1>2, <1>3 DEF BumpAttempt

--------------------------------------------------------------------------------
(* Type correctness of the adapter, one group of actions at a time.        *)

LEMMA RequestTypes ==
    /\ \A c \in Config : Request("start", c) \in Block /\ Request("update", c) \in Block
    /\ Request("stop", NoConfig) \in Block
    /\ \A p \in Path, m \in Monitor : Update(p, m) \in Block
BY OfflineAssumption DEF Request, Update, Block

LEMMA EnqueueType ==
    ASSUME workQueue \in Seq(Block), NEW b \in Block, Enqueue(b)
    PROVE  workQueue' \in Seq(Block)
BY DEF Enqueue

LEMMA TakeType ==
    ASSUME workQueue \in Seq(Block), NEW op, Take(op)
    PROVE  /\ workQueue' \in Seq(Block)
           /\ Head(workQueue) \in Block
           /\ workQueue # << >>
           /\ job = NoJob
BY DEF Take

LEMMA CancelledType ==
    ASSUME monitor \in [Monitor -> [live : BOOLEAN, due : BOOLEAN]], NEW m
    PROVE  Cancelled(m) \in [Monitor -> [live : BOOLEAN, due : BOOLEAN]]
BY DEF Cancelled, NoReports

LEMMA StateTypes ==
    /\ Stopped \in State
    /\ \A h \in Handle \cup {-1}, g \in Config \cup {NoConfig} :
          Started(h, g) \in State /\ TemporaryShutdown(g) \in State
    /\ NoJob \in Job
    /\ NoCall \in Call
BY DEF Stopped, Started, TemporaryShutdown, State, NoJob, Job, NoCall, Call

LEMMA FailType ==
    ASSUME TypeOK, Fail
    PROVE  /\ job' \in Job
           /\ monitor' \in [Monitor -> [live : BOOLEAN, due : BOOLEAN]]
           /\ reasserting' \in BOOLEAN
           /\ state' = state
           /\ networkMonitor' = networkMonitor
           /\ accepted' = accepted
BY CancelledType, StateTypes DEF Fail, TypeOK, AdapterTypeOK

(* What the actions that leave wireguard-go alone, and the two ends of the *)
(* wait, leave of the types.                                               *)
LEMMA GoFrame ==
    ASSUME GoTypeOK, UNCHANGED goVars
    PROVE  GoTypeOK'
BY DEF GoTypeOK, goVars

LEMMA WaitReturnsType ==
    ASSUME TypeOK, WaitReturnsTrue
    PROVE  TypeOK'
<1>1. GoTypeOK'
  BY GoFrame DEF WaitReturnsTrue, TypeOK
<1>2. UNCHANGED <<workQueue, path, call, netSettings>>
  BY DEF WaitReturnsTrue
<1>3. CASE Fail /\ UNCHANGED blind
  <2>1. AdapterTypeOK'
    BY <1>2, <1>3, FailType DEF TypeOK, AdapterTypeOK
  <2> QED BY <1>1, <2>1 DEF TypeOK
<1>4. CASE /\ job' = [job EXCEPT !.pc = "backend"]
           /\ blind' = (call.callback = "pending")
           /\ UNCHANGED <<state, networkMonitor, reasserting, monitor, accepted>>
  <2>1. job' \in Job
    BY <1>4 DEF TypeOK, AdapterTypeOK, Job
  <2>2. blind' \in BOOLEAN
    BY <1>4
  <2>3. AdapterTypeOK'
    BY <1>2, <1>4, <2>1, <2>2 DEF TypeOK, AdapterTypeOK
  <2> QED BY <1>1, <2>3 DEF TypeOK
<1> QED BY <1>3, <1>4 DEF WaitReturnsTrue

LEMMA InitType == Init => TypeOK
<1> SUFFICES ASSUME Init PROVE TypeOK
  OBVIOUS
<1>1. tunnelHandles \in [Handle -> Device \cup {NoDevice}]
  BY DEF Init, GoInit
<1>2. FreshDevice \in [status : DeviceStatus, config : Config \cup {NoConfig},
                       resolvedOn : Path \cup {NoPath}]
  BY DEF FreshDevice, DeviceStatus
<1>3. Idle \in [dev : Device \cup {NoDevice}, i : 0 .. BumpTries]
  BY BumpTriesAssumption DEF Idle
<1>4. GoTypeOK
  BY <1>1, <1>2, <1>3 DEF Init, GoInit, GoTypeOK
<1>5. workQueue \in Seq(Block)
  BY DEF Init
<1>6. monitor \in [Monitor -> [live : BOOLEAN, due : BOOLEAN]]
  BY DEF Init, NoReports
<1>7. AdapterTypeOK
  BY <1>5, <1>6, StateTypes DEF Init, AdapterTypeOK
<1> QED BY <1>4, <1>7 DEF TypeOK

LEMMA CallersType ==
    ASSUME TypeOK, Callers
    PROVE  TypeOK'
<1>1. CASE CallStart
  BY <1>1, RequestTypes, EnqueueType DEF CallStart, TypeOK, GoTypeOK, AdapterTypeOK, goVars
<1>2. CASE CallStop
  BY <1>2, RequestTypes, EnqueueType DEF CallStop, TypeOK, GoTypeOK, AdapterTypeOK, goVars
<1>3. CASE CallUpdate
  BY <1>3, RequestTypes, EnqueueType DEF CallUpdate, TypeOK, GoTypeOK, AdapterTypeOK, goVars
<1>4. CASE Deinit
  <2>1. GoTypeOK'
    BY <1>4, TurnOffType DEF Deinit, TypeOK, GoTypeOK, goVars
  <2>2. workQueue' \in Seq(Block)
    BY <1>4 DEF Deinit
  <2>3. monitor' \in [Monitor -> [live : BOOLEAN, due : BOOLEAN]]
    BY <1>4, CancelledType DEF Deinit, TypeOK, AdapterTypeOK
  <2> QED BY <1>4, <2>1, <2>2, <2>3, StateTypes DEF Deinit, TypeOK, AdapterTypeOK
<1> QED BY <1>1, <1>2, <1>3, <1>4 DEF Callers

LEMMA SystemType ==
    ASSUME TypeOK, System
    PROVE  TypeOK'
<1>1. CASE PathChange
  BY <1>1 DEF PathChange, TypeOK, GoTypeOK, AdapterTypeOK, goVars
<1>2. CASE MonitorReports
  <2>1. PICK m \in Monitor : /\ Enqueue(Update(path, m))
                             /\ monitor' = [monitor EXCEPT ![m].due = FALSE]
    BY <1>2 DEF MonitorReports
  <2>2. workQueue' \in Seq(Block)
    BY <2>1, RequestTypes, EnqueueType DEF TypeOK, AdapterTypeOK
  <2>3. monitor' \in [Monitor -> [live : BOOLEAN, due : BOOLEAN]]
    BY <2>1 DEF TypeOK, AdapterTypeOK
  <2>4. GoTypeOK'
    BY <1>2, GoFrame DEF MonitorReports, TypeOK
  <2>5. AdapterTypeOK'
    BY <1>2, <2>2, <2>3 DEF MonitorReports, TypeOK, AdapterTypeOK
  <2> QED BY <2>4, <2>5 DEF TypeOK
<1>3. CASE CallbackAssigns
  <2>1. PICK failed \in BOOLEAN :
            /\ call' = [call EXCEPT !.callback = "assigned", !.systemError = failed]
            /\ netSettings' = IF failed THEN netSettings ELSE call.cfg
    BY <1>3 DEF CallbackAssigns
  <2>2. call' \in Call
    BY <2>1 DEF TypeOK, AdapterTypeOK, Call
  <2>3. netSettings' \in Config \cup {NoConfig}
    BY <2>1 DEF TypeOK, AdapterTypeOK, Call
  <2> QED BY <1>3, <2>2, <2>3 DEF CallbackAssigns, TypeOK, GoTypeOK, AdapterTypeOK, goVars
<1>4. CASE CallbackSignals
  BY <1>4 DEF CallbackSignals, TypeOK, GoTypeOK, AdapterTypeOK, goVars, Call
<1>5. CASE SpuriousWake
  <2>1. WaitReturnsTrue
    BY <1>5 DEF SpuriousWake
  <2> QED BY <2>1, WaitReturnsType
<1>6. CASE GoroutineStep
  BY <1>6, GoroutineType DEF GoroutineStep, TypeOK, AdapterTypeOK, adapterVars
<1> QED BY <1>1, <1>2, <1>3, <1>4, <1>5, <1>6 DEF System

LEMMA BlocksType ==
    ASSUME TypeOK, Blocks
    PROVE  TypeOK'
<1> USE DEF TypeOK, AdapterTypeOK
<1>1. CASE StartRefused
  BY <1>1, TakeType DEF StartRefused, GoTypeOK, goVars
<1>2. CASE StartBegins
  BY <1>2, TakeType DEF StartBegins, GoTypeOK, goVars, Job, Block
<1>3. CASE Stop
  <2>1. GoTypeOK'
    BY <1>3, TurnOffType DEF Stop, GoTypeOK, goVars
  <2>2. workQueue' \in Seq(Block)
    BY <1>3, TakeType DEF Stop
  <2>3. monitor' \in [Monitor -> [live : BOOLEAN, due : BOOLEAN]]
    BY <1>3, CancelledType DEF Stop
  <2> QED BY <1>3, <2>1, <2>2, <2>3, StateTypes DEF Stop
<1>4. CASE UpdateRefused
  BY <1>4, TakeType DEF UpdateRefused, GoTypeOK, goVars
<1>5. CASE UpdateBegins
  BY <1>5, TakeType DEF UpdateBegins, GoTypeOK, goVars, Job, Block
<1>6. CASE PathDropped
  BY <1>6, TakeType DEF PathDropped, GoTypeOK, goVars
<1>7. CASE PathIgnored
  BY <1>7, TakeType DEF PathIgnored, GoTypeOK, goVars
<1>8. CASE PathRefreshes
  BY <1>8, TakeType, EndpointsType DEF PathRefreshes
<1>9. CASE PathPauses
  <2>1. TemporaryShutdown(state.gen) \in State
    BY StateTypes DEF State
  <2> QED BY <1>9, <2>1, TakeType, TurnOffType DEF PathPauses
<1>10. CASE PathResumes
  BY <1>10, TakeType DEF PathResumes, GoTypeOK, goVars, Job, State
<1> QED BY <1>1, <1>2, <1>3, <1>4, <1>5, <1>6, <1>7, <1>8, <1>9, <1>10 DEF Blocks

LEMMA JobStepsType ==
    ASSUME TypeOK, JobSteps
    PROVE  TypeOK'
<1> USE DEF TypeOK, AdapterTypeOK
<1>1. CASE Resolve
  BY <1>1, FailType DEF Resolve, GoTypeOK, goVars, Job
<1>2. CASE CallSettings
  BY <1>2, StateTypes DEF CallSettings, GoTypeOK, goVars, Job, Call
<1>3. CASE EnterWait
  BY <1>3 DEF EnterWait, GoTypeOK, goVars, Job
<1>4. CASE WaitWakes
  <2>1. WaitReturnsTrue
    BY <1>4 DEF WaitWakes
  <2> QED BY <2>1, WaitReturnsType
<1>5. CASE WaitTimesOut
  BY <1>5 DEF WaitTimesOut, GoTypeOK, goVars, Job, Call
<1>6. CASE StartBackend
  <2>1. CASE UNCHANGED goVars /\ Fail
    BY <1>6, <2>1, FailType DEF StartBackend, GoTypeOK, goVars
  <2>2. CASE wgTurnOn(job.cfg, path, -1) /\ Fail
    BY <1>6, <2>2, FailType, TurnOnType DEF StartBackend, Job
  <2>3. ASSUME NEW h \in Handle, wgTurnOn(job.cfg, path, h),
               state' = Started(h, job.cfg),
               networkMonitor' = IF job.op = "start" THEN job.mon ELSE networkMonitor,
               accepted' = IF job.op = "start" THEN job.cfg ELSE accepted,
               job' = NoJob, UNCHANGED <<reasserting, monitor>>
        PROVE  TypeOK'
    <3>1. GoTypeOK' /\ state' \in State
      BY <2>3, TurnOnType, StateTypes DEF Job
    <3> QED BY <1>6, <2>3, <3>1, StateTypes DEF StartBackend, Job
  <2> QED BY <1>6, <2>1, <2>2, <2>3 DEF StartBackend
<1>7. CASE UpdateBackend
  <2>1. job.cfg \in Config \cup {NoConfig} /\ state.handle \in Handle \cup {-1}
    BY DEF Job, State
  <2>2. CASE /\ wgSetConfig(state.handle, job.cfg, path)
             /\ state' = Started(state.handle, job.cfg)
    BY <1>7, <2>1, <2>2, SetConfigType, StateTypes DEF UpdateBackend
  <2>3. CASE UNCHANGED goVars /\ state' = TemporaryShutdown(job.cfg)
    BY <1>7, <2>1, <2>3, StateTypes DEF UpdateBackend, GoTypeOK, goVars
  <2> QED BY <1>7, <2>2, <2>3 DEF UpdateBackend
<1> QED BY <1>1, <1>2, <1>3, <1>4, <1>5, <1>6, <1>7 DEF JobSteps

LEMMA TypeStep == TypeOK /\ [Next]_vars => TypeOK'
<1>1. ASSUME TypeOK, UNCHANGED vars PROVE TypeOK'
  BY <1>1 DEF TypeOK, GoTypeOK, AdapterTypeOK, vars, goVars, adapterVars
<1> QED BY <1>1, CallersType, SystemType, BlocksType, JobStepsType DEF Next

(* Every variable stays in its type: in particular a handle the adapter    *)
(* keeps is one of the table, and no goroutine outlives its tries.         *)
THEOREM TypeCorrect == Spec => []TypeOK
BY InitType, TypeStep, PTL DEF Spec

--------------------------------------------------------------------------------
(* What the Go calls do to the set of handles in use.                      *)

LEMMA TurnOnExists ==
    ASSUME GoTypeOK, NEW c \in Config, NEW p \in Path, NEW ret \in Handle,
           wgTurnOn(c, p, ret)
    PROVE  /\ \A h \in Handle : Exists(h)' <=> Exists(h) \/ h = ret
           /\ device'[tunnelHandles'[ret]].config = c
<1>1. ret # -1
  BY MaxInt32Assumption DEF Handle
<1>2. TurnOnStarted(c, p, ret)
  BY <1>1 DEF wgTurnOn, TurnOnBeforeDevice, TurnOnAbandoned
<1>3. PICK d \in Device, s \in {"down", "up"} :
          /\ device' = [device EXCEPT ![d] = [status |-> s, config |-> c, resolvedOn |-> p]]
          /\ tunnelHandles' = [tunnelHandles EXCEPT ![ret] = d]
  BY <1>2 DEF TurnOnStarted
<1> QED BY <1>3, NoDeviceAssumption DEF Exists, GoTypeOK

LEMMA TurnOnFails ==
    ASSUME GoTypeOK, NEW c, NEW p, wgTurnOn(c, p, -1)
    PROVE  tunnelHandles' = tunnelHandles
<1>1. ~ TurnOnStarted(c, p, -1)
  BY MaxInt32Assumption DEF TurnOnStarted, IsLowestFree, Handle
<1> QED BY <1>1 DEF wgTurnOn, TurnOnBeforeDevice, TurnOnAbandoned, goVars

LEMMA TurnOffExists ==
    ASSUME GoTypeOK, NEW h \in Handle, wgTurnOff(h)
    PROVE  \A g \in Handle : Exists(g)' <=> Exists(g) /\ g # h
BY DEF wgTurnOff, Exists, GoTypeOK, goVars

--------------------------------------------------------------------------------
(* The part of the inductive invariant about control: queue, state, job,   *)
(* device and monitor.                                                     *)
Control ==
    /\ QueueShape
    /\ StateShape
    /\ JobShape
    /\ DeviceMatchesState
    /\ MonitorMatchesState
    /\ UpdateFindsTunnel

controlVars == <<job, state, networkMonitor, tunnelHandles>>

LEMMA EnqueueShape ==
    ASSUME workQueue \in Seq(Block), QueueShape, NEW b \in Block, Enqueue(b),
           b.op \in {"start", "update"} => b.cfg \in Config,
           b.op = "path" => b.from \in Monitor
    PROVE  QueueShape'
BY DEF Enqueue, QueueShape

LEMMA TakeShape ==
    ASSUME workQueue \in Seq(Block), QueueShape, NEW op, Take(op)
    PROVE  /\ QueueShape'
           /\ op \in {"start", "update"} => Head(workQueue).cfg \in Config
<1>1. workQueue # << >> /\ workQueue' = Tail(workQueue) /\ Head(workQueue).op = op
  BY DEF Take
<1>2. 1 \in 1 .. Len(workQueue) /\ Head(workQueue) = workQueue[1]
  BY <1>1
<1>3. \A i \in 1 .. Len(workQueue') :
          i + 1 \in 1 .. Len(workQueue) /\ workQueue'[i] = workQueue[i + 1]
  BY <1>1
<1> QED BY <1>1, <1>2, <1>3 DEF QueueShape

(* A step that moves none of these and no monitor's life keeps Control.    *)
LEMMA ControlFrame ==
    ASSUME Control, QueueShape', UNCHANGED controlVars,
           \A m \in Monitor : monitor'[m].live = monitor[m].live
    PROVE  Control'
BY DEF Control, controlVars, StateShape, JobShape, DeviceMatchesState, Exists,
       MonitorMatchesState, UpdateFindsTunnel

LEMMA FailControl ==
    ASSUME TypeOK, Control, job # NoJob, Fail, QueueShape', tunnelHandles' = tunnelHandles
    PROVE  Control'
<1>1. StateShape' /\ JobShape' /\ DeviceMatchesState' /\ UpdateFindsTunnel'
  BY DEF Control, Fail, StateShape, JobShape, NoJob, DeviceMatchesState, Exists, UpdateFindsTunnel
<1>2. MonitorMatchesState'
  <2>1. CASE job.op = "start"
    BY <2>1, NoMonitorAssumption
    DEF Control, Fail, Cancelled, NoReports, NoJob, JobShape, MonitorMatchesState,
        TypeOK, AdapterTypeOK
  <2>2. CASE job.op # "start"
    BY <2>2 DEF Control, Fail, NoJob, MonitorMatchesState
  <2> QED BY <2>1, <2>2
<1> QED BY <1>1, <1>2 DEF Control

LEMMA InitControl == Init => Control
BY NoMonitorAssumption DEF Init, GoInit, Control, QueueShape, StateShape, Stopped, JobShape, NoJob,
       DeviceMatchesState, Exists, MonitorMatchesState, NoReports, UpdateFindsTunnel

LEMMA CallersControl ==
    ASSUME TypeOK, Control, Callers
    PROVE  Control'
<1> USE DEF TypeOK, AdapterTypeOK
<1>1. CASE CallStart
  <2>1. QueueShape'
    BY <1>1, RequestTypes, EnqueueShape DEF CallStart, Control, Request
  <2> QED BY <1>1, <2>1, ControlFrame DEF CallStart, controlVars, goVars
<1>2. CASE CallStop
  <2>1. QueueShape'
    BY <1>2, RequestTypes, EnqueueShape DEF CallStop, Control, Request
  <2> QED BY <1>2, <2>1, ControlFrame DEF CallStop, controlVars, goVars
<1>3. CASE CallUpdate
  <2>1. QueueShape'
    BY <1>3, RequestTypes, EnqueueShape DEF CallUpdate, Control, Request
  <2> QED BY <1>3, <2>1, ControlFrame DEF CallUpdate, controlVars, goVars
<1>4. CASE Deinit
  <2>1. QueueShape' /\ StateShape' /\ JobShape' /\ UpdateFindsTunnel'
    BY <1>4 DEF Deinit, QueueShape, StateShape, Stopped, JobShape, NoJob, UpdateFindsTunnel
  <2>2. DeviceMatchesState'
    BY <1>4, TurnOffExists
    DEF Deinit, Control, StateShape, DeviceMatchesState, Stopped, goVars, Exists
  <2>3. MonitorMatchesState'
    BY <1>4, NoMonitorAssumption
    DEF Deinit, Control, MonitorMatchesState, Cancelled, NoReports, NoJob, Stopped
  <2> QED BY <2>1, <2>2, <2>3 DEF Control
<1> QED BY <1>1, <1>2, <1>3, <1>4 DEF Callers

LEMMA WaitControl ==
    ASSUME TypeOK, Control, WaitReturnsTrue
    PROVE  Control'
<1>1. QueueShape' /\ tunnelHandles' = tunnelHandles /\ job # NoJob
  BY DEF WaitReturnsTrue, Control, QueueShape, goVars, NoJob
<1>2. CASE Fail
  BY <1>1, <1>2, FailControl
<1>3. CASE /\ job' = [job EXCEPT !.pc = "backend"]
           /\ UNCHANGED <<state, networkMonitor, monitor>>
  BY <1>1, <1>3
  DEF WaitReturnsTrue, Control, StateShape, JobShape, NoJob, DeviceMatchesState, Exists,
      MonitorMatchesState, UpdateFindsTunnel, TypeOK, AdapterTypeOK, Job
<1> QED BY <1>2, <1>3 DEF WaitReturnsTrue

LEMMA SystemControl ==
    ASSUME TypeOK, Control, System
    PROVE  Control'
<1> USE DEF TypeOK, AdapterTypeOK
<1>1. CASE PathChange
  BY <1>1, ControlFrame DEF PathChange, Control, QueueShape, controlVars, goVars
<1>2. CASE MonitorReports
  <2>1. PICK m \in Monitor : /\ Enqueue(Update(path, m))
                             /\ monitor' = [monitor EXCEPT ![m].due = FALSE]
    BY <1>2 DEF MonitorReports
  <2>2. QueueShape'
    BY <2>1, RequestTypes, EnqueueShape DEF Control, Update
  <2>3. \A n \in Monitor : monitor'[n].live = monitor[n].live
    BY <2>1
  <2> QED BY <1>2, <2>2, <2>3, ControlFrame DEF MonitorReports, controlVars, goVars
<1>3. CASE CallbackAssigns
  BY <1>3, ControlFrame DEF CallbackAssigns, Control, QueueShape, controlVars, goVars
<1>4. CASE CallbackSignals
  BY <1>4, ControlFrame DEF CallbackSignals, Control, QueueShape, controlVars, goVars
<1>5. CASE SpuriousWake
  BY <1>5, WaitControl DEF SpuriousWake
<1>6. CASE GoroutineStep
  BY <1>6, ControlFrame
  DEF GoroutineStep, BumpAttempt, Control, QueueShape, adapterVars, controlVars
<1> QED BY <1>1, <1>2, <1>3, <1>4, <1>5, <1>6 DEF System

LEMMA BlocksControl ==
    ASSUME TypeOK, Control, Blocks
    PROVE  Control'
<1> USE DEF TypeOK, AdapterTypeOK
<1>1. CASE StartRefused
  BY <1>1, TakeShape, ControlFrame DEF StartRefused, Control, controlVars, goVars
<1>2. CASE StartBegins
  <2>1. PICK m \in Monitor :
          /\ ~ monitor[m].live
          /\ monitor' = [monitor EXCEPT ![m] = [live |-> TRUE, due |-> TRUE]]
          /\ job' = [pc |-> "resolve", op |-> "start", cfg |-> Head(workQueue).cfg, mon |-> m]
    BY <1>2 DEF StartBegins
  <2>2. QueueShape' /\ Head(workQueue).cfg \in Config /\ job = NoJob
    BY <1>2, TakeShape, TakeType DEF StartBegins, Control
  <2>3. JobShape' /\ StateShape' /\ DeviceMatchesState' /\ UpdateFindsTunnel'
    BY <1>2, <2>1, <2>2
    DEF StartBegins, Control, JobShape, NoJob, StateShape, DeviceMatchesState, Exists,
        UpdateFindsTunnel, goVars
  <2>4. MonitorMatchesState'
    BY <1>2, <2>1, <2>2, NoMonitorAssumption
    DEF StartBegins, Control, MonitorMatchesState, NoJob
  <2> QED BY <2>2, <2>3, <2>4 DEF Control
<1>3. CASE Stop
  <2>1. QueueShape' /\ job = NoJob /\ job' = job
    BY <1>3, TakeShape, TakeType DEF Stop, Control
  <2>2. CASE state.kind = "stopped"
    BY <1>3, <2>1, <2>2, ControlFrame DEF Stop, controlVars, goVars
  <2>3. CASE state.kind # "stopped"
    <3>1. JobShape' /\ StateShape' /\ UpdateFindsTunnel'
      BY <1>3, <2>1, <2>3 DEF Stop, JobShape, StateShape, Stopped, UpdateFindsTunnel, NoJob
    <3>2. DeviceMatchesState'
      BY <1>3, <2>3, TurnOffExists
      DEF Stop, Control, StateShape, DeviceMatchesState, Stopped, goVars, Exists
    <3>3. MonitorMatchesState'
      BY <1>3, <2>1, <2>3, NoMonitorAssumption
      DEF Stop, Control, MonitorMatchesState, Cancelled, NoReports, NoJob, Stopped
    <3> QED BY <2>1, <3>1, <3>2, <3>3 DEF Control
  <2> QED BY <2>2, <2>3
<1>4. CASE UpdateRefused
  BY <1>4, TakeShape, ControlFrame DEF UpdateRefused, Control, controlVars, goVars
<1>5. CASE UpdateBegins
  <2>1. QueueShape' /\ Head(workQueue).cfg \in Config /\ job = NoJob
    BY <1>5, TakeShape, TakeType DEF UpdateBegins, Control
  <2> QED BY <1>5, <2>1
    DEF UpdateBegins, Control, JobShape, NoJob, StateShape, DeviceMatchesState, Exists,
        UpdateFindsTunnel, MonitorMatchesState, goVars
<1>6. CASE PathDropped
  BY <1>6, TakeShape, ControlFrame DEF PathDropped, Control, controlVars, goVars
<1>7. CASE PathIgnored
  BY <1>7, TakeShape, ControlFrame DEF PathIgnored, Control, controlVars, goVars
<1>8. CASE PathRefreshes
  BY <1>8, TakeShape, ControlFrame
  DEF PathRefreshes, wgSetEndpointsAndBump, Control, controlVars, goVars
<1>9. CASE PathPauses
  <2>1. QueueShape' /\ job = NoJob
    BY <1>9, TakeShape, TakeType DEF PathPauses, Control
  <2>2. DeviceMatchesState'
    BY <1>9, TurnOffExists
    DEF PathPauses, Control, StateShape, DeviceMatchesState, TemporaryShutdown
  <2>3. StateShape' /\ JobShape' /\ UpdateFindsTunnel' /\ MonitorMatchesState'
    BY <1>9, <2>1
    DEF PathPauses, Control, StateShape, TemporaryShutdown, JobShape, NoJob,
        UpdateFindsTunnel, MonitorMatchesState
  <2> QED BY <2>1, <2>2, <2>3 DEF Control
<1>10. CASE PathResumes
  <2>1. QueueShape' /\ job = NoJob
    BY <1>10, TakeShape, TakeType DEF PathResumes, Control
  <2> QED BY <1>10, <2>1
    DEF PathResumes, Control, JobShape, NoJob, StateShape, DeviceMatchesState, Exists,
        UpdateFindsTunnel, MonitorMatchesState, goVars
<1> QED BY <1>1, <1>2, <1>3, <1>4, <1>5, <1>6, <1>7, <1>8, <1>9, <1>10 DEF Blocks

LEMMA JobStepsControl ==
    ASSUME TypeOK, Control, JobSteps
    PROVE  Control'
<1> USE DEF TypeOK, AdapterTypeOK
<1>0. \A p \in {"resolve", "settings", "armed", "waiting", "backend"} :
        job.pc = p => job # NoJob
  BY DEF NoJob
<1>1. CASE Resolve
  <2>1. QueueShape' /\ tunnelHandles' = tunnelHandles
    BY <1>1 DEF Resolve, Control, QueueShape, goVars
  <2>2. CASE Fail
    BY <1>0, <1>1, <2>1, <2>2, FailControl DEF Resolve
  <2>3. CASE job' = [job EXCEPT !.pc = "settings"] /\ ~ Fail
    BY <1>0, <1>1, <2>1, <2>3
    DEF Resolve, Control, JobShape, NoJob, StateShape, DeviceMatchesState, Exists,
        UpdateFindsTunnel, MonitorMatchesState, Job
  <2> QED BY <1>1, <2>2, <2>3 DEF Resolve
<1>2. CASE CallSettings
  BY <1>2 DEF CallSettings, Control, QueueShape, JobShape, NoJob, StateShape,
     DeviceMatchesState, Exists, UpdateFindsTunnel, MonitorMatchesState, Job, goVars
<1>3. CASE EnterWait
  BY <1>3 DEF EnterWait, Control, QueueShape, JobShape, NoJob, StateShape,
     DeviceMatchesState, Exists, UpdateFindsTunnel, MonitorMatchesState, Job, goVars
<1>4. CASE WaitWakes
  BY <1>4, WaitControl DEF WaitWakes
<1>5. CASE WaitTimesOut
  BY <1>5 DEF WaitTimesOut, Control, QueueShape, JobShape, NoJob, StateShape,
     DeviceMatchesState, Exists, UpdateFindsTunnel, MonitorMatchesState, Job, goVars
<1>6. CASE StartBackend
  <2>0. QueueShape' /\ job # NoJob /\ job.cfg \in Config
    BY <1>6 DEF StartBackend, Control, QueueShape, JobShape, NoJob
  <2>1. CASE UNCHANGED goVars /\ Fail
    BY <2>0, <2>1, FailControl DEF goVars
  <2>2. CASE wgTurnOn(job.cfg, path, -1) /\ Fail
    BY <2>0, <2>2, FailControl, TurnOnFails
  <2>3. ASSUME NEW h \in Handle, wgTurnOn(job.cfg, path, h),
               state' = Started(h, job.cfg),
               networkMonitor' = IF job.op = "start" THEN job.mon ELSE networkMonitor,
               job' = NoJob, UNCHANGED monitor
        PROVE  Control'
    <3>1. StateShape' /\ JobShape' /\ UpdateFindsTunnel'
      BY <2>0, <2>3 DEF StateShape, Started, JobShape, NoJob, UpdateFindsTunnel
    <3>2. DeviceMatchesState'
      BY <1>6, <2>0, <2>3, TurnOnExists
      DEF StartBackend, Control, JobShape, DeviceMatchesState, Started
    <3>3. MonitorMatchesState'
      BY <1>6, <2>0, <2>3, NoMonitorAssumption
      DEF StartBackend, Control, JobShape, MonitorMatchesState, Started, NoJob
    <3> QED BY <2>0, <3>1, <3>2, <3>3 DEF Control
  <2> QED BY <1>6, <2>1, <2>2, <2>3 DEF StartBackend
<1>7. CASE UpdateBackend
  <2>1. QueueShape' /\ job # NoJob /\ job.cfg \in Config /\ tunnelHandles' = tunnelHandles
    BY <1>7 DEF UpdateBackend, wgSetConfig, Control, QueueShape, JobShape, NoJob, goVars
  <2>2. /\ state'.kind = state.kind
        /\ state.kind = "started" => state'.handle = state.handle
        /\ state'.gen \in Config
    BY <1>7, <2>1 DEF UpdateBackend, Started, TemporaryShutdown
  <2> QED BY <1>7, <2>1, <2>2
    DEF UpdateBackend, Control, JobShape, NoJob, StateShape, DeviceMatchesState, Exists,
        UpdateFindsTunnel, MonitorMatchesState
<1> QED BY <1>1, <1>2, <1>3, <1>4, <1>5, <1>6, <1>7 DEF JobSteps

LEMMA ControlStep == TypeOK /\ Control /\ [Next]_vars => Control'
<1>1. ASSUME Control, UNCHANGED vars PROVE Control'
  BY <1>1, ControlFrame DEF Control, QueueShape, vars, goVars, adapterVars, controlVars
<1> QED BY <1>1, CallersControl, SystemControl, BlocksControl, JobStepsControl DEF Next

LEMMA ControlAlways == Spec => [](TypeOK /\ Control)
BY InitType, InitControl, TypeStep, ControlStep, PTL DEF Spec

(* Between any two steps the Go side runs exactly the device of the State  *)
(* enum, the one its handle leads to.                                      *)
THEOREM DeviceCorrect == Spec => []DeviceMatchesState
<1>1. Control => DeviceMatchesState
  BY DEF Control
<1> QED BY <1>1, ControlAlways, PTL

(* The path monitor runs exactly while a tunnel runs or starts: a start    *)
(* that fails and a stop cancel it.                                        *)
THEOREM MonitorCorrect == Spec => []MonitorMatchesState
<1>1. Control => MonitorMatchesState
  BY DEF Control
<1> QED BY <1>1, ControlAlways, PTL

(* update never meets its fatalError: no block ends the tunnel while it    *)
(* waits for the settings.                                                 *)
THEOREM UpdateCorrect == Spec => []UpdateFindsTunnel
<1>1. Control => UpdateFindsTunnel
  BY DEF Control
<1> QED BY <1>1, ControlAlways, PTL

--------------------------------------------------------------------------------
(* The part of the inductive invariant about configurations.               *)
Configured == SettingsShape /\ RunsAcceptedConfig

configuredVars ==
    <<tunnelHandles, device, job, state, call, netSettings, accepted, blind>>

LEMMA ConfiguredFrame ==
    ASSUME Configured, UNCHANGED configuredVars
    PROVE  Configured'
BY DEF Configured, configuredVars, SettingsShape, Answered, RunsAcceptedConfig

(* A step to a stopped, idle adapter that has accepted nothing.            *)
LEMMA ConfiguredStopped ==
    ASSUME state' = Stopped, job' = NoJob
    PROVE  Configured'
BY DEF Configured, SettingsShape, RunsAcceptedConfig, Stopped, NoJob

(* Nothing is configured by a failure: what ran before still runs, with    *)
(* the settings it had unless this call changed them.                      *)
LEMMA FailConfigured ==
    ASSUME Control, Configured, Fail, job # NoJob,
           UNCHANGED <<tunnelHandles, device, call, netSettings, blind>>,
           state.kind # "stopped" /\ ~ blind => Answered /\ netSettings = accepted
    PROVE  Configured'
BY DEF Control, Configured, Fail, SettingsShape, Answered, RunsAcceptedConfig, NoJob

LEMMA InitConfigured == Init => Configured
BY DEF Init, Configured, SettingsShape, RunsAcceptedConfig, Stopped, NoJob, NoCall

LEMMA WaitConfigured ==
    ASSUME TypeOK, Control, Configured, WaitReturnsTrue
    PROVE  Configured'
<1>1. job # NoJob /\ job.pc = "waiting"
  BY DEF WaitReturnsTrue, NoJob
<1>2. CASE call.systemError
  <2>1. state.kind # "stopped" /\ ~ blind => Answered /\ netSettings = accepted
    BY <1>1, <1>2 DEF Configured, SettingsShape
  <2> QED BY <1>1, <1>2, <2>1, FailConfigured DEF WaitReturnsTrue, goVars
<1>3. CASE ~ call.systemError
  <2>1. /\ job'.pc = "backend" /\ job'.cfg = job.cfg /\ job' # NoJob
        /\ UNCHANGED <<tunnelHandles, device, state, call, netSettings, accepted>>
    BY <1>1, <1>3 DEF WaitReturnsTrue, goVars, TypeOK, AdapterTypeOK, Job, NoJob
  <2>2. blind' = (call.callback = "pending")
    BY <1>3 DEF WaitReturnsTrue
  <2>3. ~ blind' => call.callback # "pending"
    BY <2>2
  <2>4. ~ blind' => Answered
    BY <1>1, <2>3 DEF Configured, SettingsShape, Answered, TypeOK, AdapterTypeOK, Call
  <2>5. ~ blind' => netSettings = job.cfg
    BY <1>1, <1>3, <2>4 DEF Configured, SettingsShape
  <2> QED BY <2>1, <2>4, <2>5
    DEF Configured, SettingsShape, Answered, RunsAcceptedConfig
<1> QED BY <1>2, <1>3

LEMMA ConfiguredStep ==
    ASSUME TypeOK, Control, Configured, Next
    PROVE  Configured'
<1> USE DEF TypeOK, AdapterTypeOK
<1>1. CASE CallStart \/ CallStop \/ CallUpdate \/ PathChange \/ MonitorReports
  BY <1>1, ConfiguredFrame
  DEF CallStart, CallStop, CallUpdate, PathChange, MonitorReports, configuredVars, goVars
<1>2. CASE Deinit
  BY <1>2, ConfiguredStopped DEF Deinit
<1>3. CASE CallbackAssigns
  BY <1>3
  DEF CallbackAssigns, Configured, SettingsShape, Answered, RunsAcceptedConfig, goVars, Call,
      NoJob, Job
<1>4. CASE CallbackSignals
  BY <1>4
  DEF CallbackSignals, Configured, SettingsShape, Answered, RunsAcceptedConfig, goVars, Call
<1>5. CASE SpuriousWake \/ WaitWakes
  BY <1>5, WaitConfigured DEF SpuriousWake, WaitWakes
<1>6. CASE GoroutineStep
  BY <1>6, ConfiguredFrame DEF GoroutineStep, BumpAttempt, adapterVars, configuredVars
<1>7. CASE StartRefused \/ UpdateRefused \/ PathDropped \/ PathIgnored
  BY <1>7, ConfiguredFrame
  DEF StartRefused, UpdateRefused, PathDropped, PathIgnored, configuredVars, goVars
<1>8. CASE StartBegins
  BY <1>8
  DEF StartBegins, Configured, SettingsShape, Answered, RunsAcceptedConfig, goVars
<1>9. CASE Stop
  <2>1. CASE state.kind = "stopped"
    <3>1. UNCHANGED configuredVars
      BY <1>9, <2>1 DEF Stop, configuredVars, goVars
    <3> QED BY <3>1, ConfiguredFrame
  <2>2. CASE state.kind # "stopped"
    BY <1>9, <2>2, ConfiguredStopped DEF Stop, Take
  <2> QED BY <2>1, <2>2
<1>10. CASE UpdateBegins
  BY <1>10
  DEF UpdateBegins, Take, NoJob, Configured, SettingsShape, Answered, RunsAcceptedConfig, goVars
<1>11. CASE PathRefreshes
  <2>1. device'[tunnelHandles'[state.handle]].config = device[tunnelHandles[state.handle]].config
    <3>1. wgSetEndpointsAndBump(state.handle, path)
      BY <1>11 DEF PathRefreshes
    <3>2. CASE ~ Exists(state.handle)
      BY <3>1, <3>2 DEF wgSetEndpointsAndBump, goVars
    <3>3. CASE Exists(state.handle)
      <4>1. /\ device' = [device EXCEPT ![tunnelHandles[state.handle]].resolvedOn = path]
            /\ tunnelHandles' = tunnelHandles
        BY <3>1, <3>3 DEF wgSetEndpointsAndBump
      <4>2. tunnelHandles[state.handle] \in Device
        BY <3>3 DEF Exists, GoTypeOK
      <4> QED BY <4>1, <4>2 DEF GoTypeOK
    <3> QED BY <3>2, <3>3
  <2> QED BY <1>11, <2>1
    DEF PathRefreshes, Configured, SettingsShape, Answered, RunsAcceptedConfig
<1>12. CASE PathPauses
  BY <1>12
  DEF PathPauses, TemporaryShutdown, Configured, SettingsShape, Answered, RunsAcceptedConfig
<1>13. CASE PathResumes
  BY <1>13
  DEF PathResumes, Take, NoJob, Configured, SettingsShape, Answered, RunsAcceptedConfig, goVars
<1>14. CASE Resolve
  <2>1. state.kind # "stopped" /\ ~ blind => Answered /\ netSettings = accepted
    BY <1>14 DEF Resolve, Configured, SettingsShape
  <2>2. CASE Fail
    BY <1>14, <2>1, <2>2, FailConfigured DEF Resolve, NoJob, goVars
  <2>3. CASE job' = [job EXCEPT !.pc = "settings"] /\ UNCHANGED <<state, accepted>>
    BY <1>14, <2>1, <2>3
    DEF Resolve, Configured, SettingsShape, Answered, RunsAcceptedConfig, goVars, Job, NoJob
  <2> QED BY <1>14, <2>2, <2>3 DEF Resolve
<1>15. CASE CallSettings
  BY <1>15
  DEF CallSettings, NoCall, Configured, SettingsShape, Answered, RunsAcceptedConfig, goVars,
      Job, NoJob
<1>16. CASE EnterWait
  BY <1>16
  DEF EnterWait, Configured, SettingsShape, Answered, RunsAcceptedConfig, goVars, Job, NoJob
<1>17. CASE WaitTimesOut
  BY <1>17
  DEF WaitTimesOut, Configured, SettingsShape, RunsAcceptedConfig, goVars, Job, NoJob
<1>18. CASE StartBackend
  <2>1. job # NoJob /\ job.cfg \in Config
        /\ (job.op = "start" => state.kind = "stopped")
        /\ (job.op = "resume" => job.cfg = state.gen /\ state.kind # "stopped")
    BY <1>18 DEF StartBackend, Control, JobShape, NoJob
  <2>2. state.kind # "stopped" /\ ~ blind => Answered /\ netSettings = accepted
    BY <1>18, <2>1 DEF StartBackend, Configured, SettingsShape, RunsAcceptedConfig
  <2>3. CASE UNCHANGED goVars /\ Fail
    BY <1>18, <2>1, <2>2, <2>3, FailConfigured DEF StartBackend, goVars
  <2>4. CASE wgTurnOn(job.cfg, path, -1) /\ Fail
    BY <1>18, <2>1, <2>2, <2>4
    DEF StartBackend, Fail, Control, StateShape, JobShape, Configured, SettingsShape, Answered,
        RunsAcceptedConfig, NoJob
  <2>5. ASSUME NEW h \in Handle, wgTurnOn(job.cfg, path, h),
               state' = Started(h, job.cfg),
               accepted' = IF job.op = "start" THEN job.cfg ELSE accepted,
               job' = NoJob
        PROVE  Configured'
    <3>1. device'[tunnelHandles'[h]].config = job.cfg
      BY <2>1, <2>5, TurnOnExists
    <3>2. accepted' = job.cfg
      BY <1>18, <2>1, <2>5 DEF StartBackend, Configured, RunsAcceptedConfig
    <3> QED BY <1>18, <2>5, <3>1, <3>2
      DEF StartBackend, Configured, SettingsShape, Answered, RunsAcceptedConfig, Started, NoJob
  <2> QED BY <1>18, <2>3, <2>4, <2>5 DEF StartBackend
<1>19. CASE UpdateBackend
  <2>1. state'.gen = job.cfg /\ accepted' = job.cfg /\ job' = NoJob
        /\ state'.kind = state.kind /\ (state.kind = "started" => state'.handle = state.handle)
    BY <1>19 DEF UpdateBackend, Started, TemporaryShutdown
  <2>2. state.kind = "started" =>
          device'[tunnelHandles'[state.handle]].config \in {job.cfg, NoConfig}
    <3> SUFFICES ASSUME state.kind = "started"
                 PROVE  device'[tunnelHandles'[state.handle]].config \in {job.cfg, NoConfig}
      OBVIOUS
    <3>1. Exists(state.handle) /\ wgSetConfig(state.handle, job.cfg, path)
      BY <1>19 DEF UpdateBackend, Control, StateShape, DeviceMatchesState
    <3> QED BY <3>1 DEF wgSetConfig, Exists, GoTypeOK
  <2> QED BY <1>19, <2>1, <2>2
    DEF UpdateBackend, Configured, SettingsShape, Answered, RunsAcceptedConfig, NoJob
<1> QED BY <1>1, <1>2, <1>3, <1>4, <1>5, <1>6, <1>7, <1>8, <1>9, <1>10, <1>11, <1>12, <1>13,
           <1>14, <1>15, <1>16, <1>17, <1>18, <1>19
        DEF Next, Callers, System, Blocks, JobSteps

(* Through pauses, resumes, updates, failures and settings calls that are  *)
(* answered late or never: the generator, the device and, unless a call    *)
(* went on unanswered, the system hold the configuration accepted last.    *)
THEOREM ConfigCorrect == Spec => []RunsAcceptedConfig
<1>1. TypeOK /\ Control /\ Configured /\ [Next]_vars => Configured'
  <2>1. ASSUME Configured, UNCHANGED vars PROVE Configured'
    BY <2>1, ConfiguredFrame DEF vars, goVars, adapterVars, configuredVars
  <2> QED BY <2>1, ConfiguredStep
<1>2. Spec => []Configured
  BY <1>1, InitType, InitControl, InitConfigured, TypeStep, ControlStep, PTL DEF Spec
<1>3. Configured => RunsAcceptedConfig
  BY DEF Configured
<1> QED BY <1>2, <1>3, PTL

--------------------------------------------------------------------------------
(* The part of the inductive invariant about the path.                     *)

(* Nothing is owed to the path while no monitor runs.                      *)
LEMMA NoneLive ==
    ASSUME \A m \in Monitor : ~ monitor'[m].live /\ ~ monitor'[m].due
    PROVE  PathShape'
BY DEF PathShape

LEMMA PathFrame ==
    ASSUME PathShape, UNCHANGED <<workQueue, path, monitor>>, ActedOnPath => ActedOnPath'
    PROVE  PathShape'
BY DEF PathShape, LastPathBlock, NoPathBlock

(* A request neither adds nor removes what a monitor reported.             *)
LEMMA EnqueuePath ==
    ASSUME workQueue \in Seq(Block), PathShape, NEW b \in Block, Enqueue(b), b.op # "path",
           UNCHANGED <<path, monitor>>, ActedOnPath => ActedOnPath'
    PROVE  PathShape'
<1>1. /\ Len(workQueue') = Len(workQueue) + 1
      /\ \A i \in 1 .. Len(workQueue) : workQueue'[i] = workQueue[i]
      /\ workQueue'[Len(workQueue) + 1] = b
      /\ Len(workQueue) \in Nat
  BY DEF Enqueue
<1>2. \A i \in 1 .. Len(workQueue) : LastPathBlock(i) => LastPathBlock(i)'
  BY <1>1 DEF LastPathBlock
<1>3. NoPathBlock => NoPathBlock'
  BY <1>1 DEF NoPathBlock
<1> QED BY <1>1, <1>2, <1>3 DEF PathShape, Update

(* The queue without its first block.                                      *)
LEMMA TakeTail ==
    ASSUME workQueue \in Seq(Block), NEW op, Take(op)
    PROVE  /\ Len(workQueue) \in Nat \ {0}
           /\ Len(workQueue') = Len(workQueue) - 1
           /\ \A i \in 1 .. Len(workQueue') : workQueue'[i] = workQueue[i + 1]
           /\ Head(workQueue) = workQueue[1]
           /\ workQueue[1].op = op
BY DEF Take

(* The last path block moves up by one with the rest of the queue.         *)
LEMMA TakeLast ==
    ASSUME workQueue \in Seq(Block), NEW op, Take(op), NEW i \in 1 .. Len(workQueue), i # 1,
           LastPathBlock(i)
    PROVE  \E k \in 1 .. Len(workQueue') : LastPathBlock(k)' /\ workQueue'[k] = workQueue[i]
<1> DEFINE k == i - 1
<1>1. k \in 1 .. Len(workQueue') /\ k + 1 = i
  BY TakeTail
<1>2. workQueue'[k] = workQueue[k + 1]
  BY <1>1, TakeTail
<1>3. ASSUME NEW j \in 1 .. Len(workQueue'), workQueue'[j].op = "path"
      PROVE  j <= k
  <2>1. j + 1 \in 1 .. Len(workQueue) /\ workQueue[j + 1].op = "path"
    BY <1>3, TakeTail
  <2>2. j + 1 <= i
    BY <2>1 DEF LastPathBlock
  <2> QED BY <2>2, TakeTail
<1>4. LastPathBlock(k)'
  BY <1>1, <1>3 DEF LastPathBlock
<1>5. workQueue'[k] = workQueue[i]
  BY <1>1, <1>2
<1> HIDE DEF k
<1> QED BY <1>1, <1>4, <1>5

LEMMA TakeOtherPath ==
    ASSUME workQueue \in Seq(Block), PathShape, NEW op, Take(op), op # "path",
           UNCHANGED <<path, monitor>>, ActedOnPath => ActedOnPath'
    PROVE  PathShape'
<1>1. \A i \in 1 .. Len(workQueue) :
          LastPathBlock(i) /\ workQueue[i].op = "path" =>
              \E k \in 1 .. Len(workQueue') : LastPathBlock(k)' /\ workQueue'[k] = workQueue[i]
  BY TakeTail, TakeLast
<1>2. NoPathBlock => NoPathBlock'
  BY TakeTail DEF NoPathBlock
<1>3. \A m \in Monitor : Update(path, m).op = "path"
  BY DEF Update
<1> QED BY <1>1, <1>2, <1>3 DEF PathShape, Update

(* The block taken was the last word of a live monitor, or another follows.*)
LEMMA TakePath ==
    ASSUME workQueue \in Seq(Block), PathShape, Take("path"),
           UNCHANGED <<path, monitor>>,
           (\E m \in Monitor : monitor[m].live /\ Head(workQueue) = Update(path, m))
              => ActedOnPath'
    PROVE  PathShape'
<1> SUFFICES ASSUME NEW m \in Monitor, monitor[m].live, ~ monitor[m].due
             PROVE  \/ \E i \in 1 .. Len(workQueue') :
                          LastPathBlock(i)' /\ workQueue'[i] = Update(path, m)
                    \/ NoPathBlock' /\ ActedOnPath'
  BY DEF PathShape, Update
<1>1. ~ NoPathBlock
  BY TakeTail DEF NoPathBlock
<1>2. PICK i \in 1 .. Len(workQueue) : LastPathBlock(i) /\ workQueue[i] = Update(path, m)
  BY <1>1 DEF PathShape
<1>3. CASE i = 1
  <2>1. NoPathBlock'
    BY <1>2, <1>3, TakeTail DEF LastPathBlock, NoPathBlock
  <2> QED BY <1>2, <1>3, <2>1, TakeTail
<1>4. CASE i # 1
  BY <1>2, <1>4, TakeLast
<1> QED BY <1>3, <1>4

(* A block or job that ends in Fail leaves no monitor of its own.          *)
LEMMA FailPath ==
    ASSUME TypeOK, Control, PathShape, Fail, job # NoJob, UNCHANGED <<workQueue, path>>,
           job.op = "update" => UNCHANGED <<tunnelHandles, device>>
    PROVE  PathShape'
<1>1. CASE job.op = "start"
  <2>1. \A m \in Monitor : ~ monitor'[m].live /\ ~ monitor'[m].due
    BY <1>1, NoMonitorAssumption
    DEF Fail, Cancelled, NoReports, Control, JobShape, MonitorMatchesState, PathShape,
        TypeOK, AdapterTypeOK
  <2> QED BY <2>1, NoneLive
<1>2. CASE job.op = "update"
  BY <1>2, PathFrame DEF Fail, ActedOnPath, NoJob
<1>3. CASE job.op = "resume"
  BY <1>3, PathFrame DEF Fail, ActedOnPath, NoJob, Control, JobShape
<1> QED BY <1>1, <1>2, <1>3 DEF Control, JobShape, TypeOK, AdapterTypeOK, Job

(* Where the endpoints of the device in use were resolved.                 *)
LEMMA TurnOnResolved ==
    ASSUME GoTypeOK, NEW c \in Config, NEW p \in Path, NEW ret \in Handle,
           wgTurnOn(c, p, ret)
    PROVE  device'[tunnelHandles'[ret]].resolvedOn = p
<1>1. ret # -1
  BY MaxInt32Assumption DEF Handle
<1>2. TurnOnStarted(c, p, ret)
  BY <1>1 DEF wgTurnOn, TurnOnBeforeDevice, TurnOnAbandoned
<1>3. PICK d \in Device, s \in {"down", "up"} :
          /\ device' = [device EXCEPT ![d] = [status |-> s, config |-> c, resolvedOn |-> p]]
          /\ tunnelHandles' = [tunnelHandles EXCEPT ![ret] = d]
  BY <1>2 DEF TurnOnStarted
<1> QED BY <1>3 DEF GoTypeOK

LEMMA SetConfigResolved ==
    ASSUME GoTypeOK, NEW h, NEW c, NEW p, Exists(h), wgSetConfig(h, c, p)
    PROVE  device'[tunnelHandles'[h]].resolvedOn = p
BY DEF wgSetConfig, Exists, GoTypeOK

LEMMA EndpointsResolved ==
    ASSUME GoTypeOK, NEW h, NEW p, Exists(h), wgSetEndpointsAndBump(h, p)
    PROVE  device'[tunnelHandles'[h]].resolvedOn = p
BY DEF wgSetEndpointsAndBump, Exists, GoTypeOK

LEMMA InitPath == Init => PathShape
BY DEF Init, PathShape, NoReports

LEMMA CallersPath ==
    ASSUME TypeOK, Control, PathShape, Callers
    PROVE  PathShape'
<1> USE DEF TypeOK, AdapterTypeOK
<1>1. CASE CallStart
  BY <1>1, RequestTypes, EnqueuePath DEF CallStart, Request, ActedOnPath, goVars
<1>2. CASE CallStop
  BY <1>2, RequestTypes, EnqueuePath DEF CallStop, Request, ActedOnPath, goVars
<1>3. CASE CallUpdate
  BY <1>3, RequestTypes, EnqueuePath DEF CallUpdate, Request, ActedOnPath, goVars
<1>4. CASE Deinit
  <2>1. \A m \in Monitor : ~ monitor'[m].live /\ ~ monitor'[m].due
    BY <1>4, NoMonitorAssumption
    DEF Deinit, Cancelled, NoReports, NoJob, Control, MonitorMatchesState, PathShape
  <2> QED BY <2>1, NoneLive
<1> QED BY <1>1, <1>2, <1>3, <1>4 DEF Callers

LEMMA WaitPath ==
    ASSUME TypeOK, Control, PathShape, WaitReturnsTrue
    PROVE  PathShape'
<1>1. job # NoJob
  BY DEF WaitReturnsTrue, NoJob
<1>2. CASE Fail
  BY <1>1, <1>2, FailPath DEF WaitReturnsTrue, goVars
<1>3. CASE job' = [job EXCEPT !.pc = "backend"] /\ UNCHANGED <<state, monitor>>
  BY <1>3, PathFrame DEF WaitReturnsTrue, ActedOnPath, goVars, TypeOK, AdapterTypeOK, Job
<1> QED BY <1>2, <1>3 DEF WaitReturnsTrue

(* One monitor at most runs, and its last word is in the queue.            *)
LEMMA OnlyReport ==
    ASSUME NEW m \in Monitor,
           \A n \in Monitor : ~ monitor'[n].due /\ (monitor'[n].live => n = m),
           \E i \in 1 .. Len(workQueue') : LastPathBlock(i)' /\ workQueue'[i] = Update(path', m)
    PROVE  PathShape'
BY DEF PathShape, Update

(* The report of a live monitor becomes the last path block of the queue.  *)
LEMMA ReportPath ==
    ASSUME TypeOK, Control, PathShape, MonitorReports
    PROVE  PathShape'
<1> USE DEF TypeOK, AdapterTypeOK
<1>1. PICK m \in Monitor : /\ monitor[m].due
                           /\ Enqueue(Update(path, m))
                           /\ monitor' = [monitor EXCEPT ![m].due = FALSE]
  BY DEF MonitorReports
<1>2. \A n \in Monitor : monitor[n].live <=> n = m
  BY <1>1, NoMonitorAssumption DEF PathShape, Control, MonitorMatchesState, JobShape
<1>3. /\ Len(workQueue) \in Nat
      /\ Len(workQueue') = Len(workQueue) + 1
      /\ workQueue'[Len(workQueue')] = Update(path, m)
  BY <1>1 DEF Enqueue
<1>4. \E i \in 1 .. Len(workQueue') : LastPathBlock(i)' /\ workQueue'[i] = Update(path, m)
  <2>1. \A i \in 1 .. Len(workQueue') : i = Len(workQueue') => LastPathBlock(i)'
    BY <1>3 DEF LastPathBlock
  <2>2. Len(workQueue') \in 1 .. Len(workQueue')
    BY <1>3
  <2> QED BY <1>3, <2>1, <2>2
<1>5. path' = path
  BY DEF MonitorReports
<1>6. \A n \in Monitor : ~ monitor'[n].due /\ (monitor'[n].live => n = m)
  BY <1>1, <1>2 DEF PathShape
<1> QED BY <1>4, <1>5, <1>6, OnlyReport DEF Update

LEMMA SystemPath ==
    ASSUME TypeOK, Control, PathShape, System
    PROVE  PathShape'
<1> USE DEF TypeOK, AdapterTypeOK
<1>1. CASE PathChange
  <2>1. \A m \in Monitor : monitor'[m].live = monitor[m].live /\ monitor'[m].due = monitor[m].live
    BY <1>1 DEF PathChange
  <2> QED BY <2>1 DEF PathShape
<1>2. CASE MonitorReports
  BY <1>2, ReportPath
<1>3. CASE CallbackAssigns
  BY <1>3, PathFrame DEF CallbackAssigns, ActedOnPath, goVars
<1>4. CASE CallbackSignals
  BY <1>4, PathFrame DEF CallbackSignals, ActedOnPath, goVars
<1>5. CASE SpuriousWake
  BY <1>5, WaitPath DEF SpuriousWake
<1>6. CASE GoroutineStep
  BY <1>6, PathFrame DEF GoroutineStep, BumpAttempt, adapterVars, ActedOnPath
<1> QED BY <1>1, <1>2, <1>3, <1>4, <1>5, <1>6 DEF System

LEMMA BlocksPath ==
    ASSUME TypeOK, Control, PathShape, Blocks
    PROVE  PathShape'
<1> USE DEF TypeOK, AdapterTypeOK
<1>1. CASE StartRefused
  BY <1>1, TakeOtherPath DEF StartRefused, ActedOnPath, goVars
<1>2. CASE StartBegins
  <2>1. PICK m \in Monitor :
            monitor' = [monitor EXCEPT ![m] = [live |-> TRUE, due |-> TRUE]]
    BY <1>2 DEF StartBegins
  <2>2. \A n \in Monitor : ~ monitor[n].live
    BY <1>2, NoMonitorAssumption DEF StartBegins, Take, NoJob, Control, MonitorMatchesState
  <2> QED BY <2>1, <2>2 DEF PathShape
<1>3. CASE Stop
  <2>1. CASE state.kind = "stopped"
    BY <1>3, <2>1, TakeOtherPath DEF Stop, ActedOnPath, goVars
  <2>2. CASE state.kind # "stopped"
    <3>1. \A m \in Monitor : ~ monitor'[m].live /\ ~ monitor'[m].due
      BY <1>3, <2>2, NoMonitorAssumption
      DEF Stop, Take, Cancelled, NoReports, NoJob, Control, MonitorMatchesState, PathShape
    <3> QED BY <3>1, NoneLive
  <2> QED BY <2>1, <2>2
<1>4. CASE UpdateRefused
  BY <1>4, TakeOtherPath DEF UpdateRefused, ActedOnPath, goVars
<1>5. CASE UpdateBegins
  <2>1. job'.op = "update" /\ UNCHANGED <<state, tunnelHandles, device, path, monitor>>
    BY <1>5 DEF UpdateBegins, goVars
  <2>2. ActedOnPath => ActedOnPath'
    BY <2>1 DEF ActedOnPath
  <2>3. Take("update")
    BY <1>5 DEF UpdateBegins
  <2> QED BY <2>1, <2>2, <2>3, TakeOtherPath
<1>6. CASE PathDropped
  <2>1. ~ monitor[Head(workQueue).from].live
    BY <1>6 DEF PathDropped
  <2>2. ~ \E m \in Monitor : monitor[m].live /\ Head(workQueue) = Update(path, m)
    BY <2>1 DEF Update
  <2> QED BY <1>6, <2>2, TakePath DEF PathDropped
<1>7. CASE PathIgnored
  BY <1>7, TakePath DEF PathIgnored, Take, NoJob, ActedOnPath
<1>8. CASE PathRefreshes
  <2>1. Exists(state.handle)
    BY <1>8 DEF PathRefreshes, Control, StateShape, DeviceMatchesState
  <2>2. device'[tunnelHandles'[state.handle]].resolvedOn = path
    BY <1>8, <2>1, EndpointsResolved DEF PathRefreshes
  <2>3. Head(workQueue).path = path => ActedOnPath'
    BY <1>8, <2>2 DEF PathRefreshes, Take, NoJob, ActedOnPath
  <2>4. (\E m \in Monitor : Head(workQueue) = Update(path, m)) => Head(workQueue).path = path
    BY DEF Update
  <2> QED BY <1>8, <2>3, <2>4, TakePath DEF PathRefreshes
<1>9. CASE PathPauses
  BY <1>9, TakePath DEF PathPauses, Take, NoJob, ActedOnPath, TemporaryShutdown
<1>10. CASE PathResumes
  <2>1. Head(workQueue).path = path => ActedOnPath'
    BY <1>10 DEF PathResumes, ActedOnPath
  <2>2. (\E m \in Monitor : Head(workQueue) = Update(path, m)) => Head(workQueue).path = path
    BY DEF Update
  <2> QED BY <1>10, <2>1, <2>2, TakePath DEF PathResumes
<1> QED BY <1>1, <1>2, <1>3, <1>4, <1>5, <1>6, <1>7, <1>8, <1>9, <1>10 DEF Blocks

LEMMA JobStepsPath ==
    ASSUME TypeOK, Control, PathShape, JobSteps
    PROVE  PathShape'
<1> USE DEF TypeOK, AdapterTypeOK
<1>0. \A p \in {"resolve", "settings", "armed", "waiting", "backend"} :
        job.pc = p => job # NoJob
  BY DEF NoJob
<1>1. CASE Resolve
  <2>1. CASE Fail
    BY <1>0, <1>1, <2>1, FailPath DEF Resolve, goVars
  <2>2. CASE job' = [job EXCEPT !.pc = "settings"] /\ UNCHANGED <<state, monitor>>
    BY <1>1, <2>2, PathFrame DEF Resolve, ActedOnPath, goVars, Job
  <2> QED BY <1>1, <2>1, <2>2 DEF Resolve
<1>2. CASE CallSettings
  BY <1>2, PathFrame DEF CallSettings, ActedOnPath, goVars, Job
<1>3. CASE EnterWait
  BY <1>3, PathFrame DEF EnterWait, ActedOnPath, goVars, Job
<1>4. CASE WaitWakes
  BY <1>4, WaitPath DEF WaitWakes
<1>5. CASE WaitTimesOut
  BY <1>5, PathFrame DEF WaitTimesOut, ActedOnPath, goVars, Job
<1>6. CASE StartBackend
  <2>1. job # NoJob /\ job.cfg \in Config /\ job.op # "update"
    BY <1>0, <1>6 DEF StartBackend, Control, JobShape
  <2>2. CASE Fail
    BY <1>6, <2>1, <2>2, FailPath DEF StartBackend
  <2>3. ASSUME NEW h \in Handle, wgTurnOn(job.cfg, path, h), state' = Started(h, job.cfg),
               job' = NoJob, UNCHANGED monitor
        PROVE  PathShape'
    <3>1. device'[tunnelHandles'[h]].resolvedOn = path
      BY <2>1, <2>3, TurnOnResolved
    <3>2. ActedOnPath => ActedOnPath'
      BY <1>6, <2>3, <3>1 DEF StartBackend, ActedOnPath, Started, NoJob
    <3> QED BY <1>6, <2>3, <3>2, PathFrame DEF StartBackend
  <2> QED BY <1>6, <2>2, <2>3 DEF StartBackend
<1>7. CASE UpdateBackend
  <2>1. CASE state.kind = "started"
    <3>1. Exists(state.handle) /\ state' = Started(state.handle, job.cfg)
          /\ wgSetConfig(state.handle, job.cfg, path)
      BY <1>7, <2>1 DEF UpdateBackend, Control, StateShape, DeviceMatchesState
    <3>2. device'[tunnelHandles'[state.handle]].resolvedOn = path
      BY <3>1, SetConfigResolved
    <3> QED BY <1>7, <2>1, <3>1, <3>2, PathFrame
         DEF UpdateBackend, ActedOnPath, Started, NoJob
  <2>2. CASE state.kind = "temporaryShutdown"
    BY <1>7, <2>2, PathFrame DEF UpdateBackend, ActedOnPath, TemporaryShutdown, NoJob
  <2> QED BY <1>7, <2>1, <2>2 DEF UpdateBackend
<1> QED BY <1>1, <1>2, <1>3, <1>4, <1>5, <1>6, <1>7 DEF JobSteps

LEMMA PathStep == TypeOK /\ Control /\ PathShape /\ [Next]_vars => PathShape'
<1>1. ASSUME PathShape, UNCHANGED vars PROVE PathShape'
  BY <1>1, PathFrame DEF vars, goVars, adapterVars, ActedOnPath
<1> QED BY <1>1, CallersPath, SystemPath, BlocksPath, JobStepsPath DEF Next

(* Once no block is left and the monitor of the tunnel has nothing to      *)
(* report, a device that runs does so on a path that is not offline and    *)
(* with endpoints resolved on it, whatever updates of earlier paths and of *)
(* cancelled monitors didReceivePathUpdate handled before.                 *)
THEOREM PathCorrect == Spec => []FollowsPath
<1>1. TypeOK /\ Control /\ PathShape => FollowsPath
  BY NoMonitorAssumption
  DEF TypeOK, AdapterTypeOK, Control, MonitorMatchesState, PathShape, FollowsPath, Settled, ActedOnPath, Update
<1> QED BY <1>1, InitType, InitControl, InitPath, TypeStep, ControlStep, PathStep, PTL DEF Spec

================================================================================
