---------------------------- MODULE WireGuardAdapter ----------------------------
(***************************************************************************)
(* WireGuardAdapter.swift: the object a packet tunnel provider uses to     *)
(* start, stop and update a WireGuard tunnel, with the Go back-end under   *)
(* it (WireGuardGo), the network path monitor and the system's             *)
(* setTunnelNetworkSettings.                                               *)
(*                                                                         *)
(* Everything the adapter does runs as a block of its serial workQueue;    *)
(* callers and the path monitor only append blocks.  A block that sets     *)
(* network settings waits on a condition which another thread signals, so  *)
(* it is split where that thread, the callers, the monitor and the timer   *)
(* can run in between.                                                     *)
(***************************************************************************)
EXTENDS WireGuardGo, Sequences

CONSTANTS
    Monitor,    \* identities of NWPathMonitor objects
    NoMonitor,  \* the nil networkMonitor
    Offline,    \* the path whose status is unsatisfied; all others are satisfiable
    MaxQueue    \* bound: the most blocks that wait in the workQueue

ASSUME NoMonitorAssumption == NoMonitor \notin Monitor
ASSUME OfflineAssumption == Offline \in Path
ASSUME MaxQueueAssumption == MaxQueue \in Nat \ {0}

VARIABLES
    workQueue,      \* blocks submitted and not begun
    job,            \* the block that runs, and how far it is
    state,          \* the adapter's State enum
    networkMonitor, \* the monitor of a running tunnel
    reasserting,    \* packetTunnelProvider.reasserting
    monitor,        \* NWPathMonitor objects: started and not cancelled;
                    \* a path not yet reported
    path,           \* the network path of the machine
    call,           \* the latest setTunnelNetworkSettings call and its condition
    netSettings,    \* the configuration whose network settings the system applied last
    accepted,       \* history: configuration of the last call that completed without error
    blind           \* history: the last settings call to succeed did so without its answer

adapterVars == <<workQueue, job, state, networkMonitor, reasserting, monitor, path,
                 call, netSettings, accepted, blind>>
vars == <<goVars, adapterVars>>

(* state.gen is the configuration of the settings generator.               *)
State == [kind : {"stopped", "started", "temporaryShutdown"},
          handle : Handle \cup {-1}, gen : Config \cup {NoConfig}]

Stopped == [kind |-> "stopped", handle |-> -1, gen |-> NoConfig]
Started(h, g) == [kind |-> "started", handle |-> h, gen |-> g]
TemporaryShutdown(g) == [kind |-> "temporaryShutdown", handle |-> -1, gen |-> g]

Block == [op : {"start", "stop", "update", "path"}, cfg : Config \cup {NoConfig},
          path : Path, from : Monitor \cup {NoMonitor}]

Request(op, c) == [op |-> op, cfg |-> c, path |-> Offline, from |-> NoMonitor]
Update(p, m) == [op |-> "path", cfg |-> NoConfig, path |-> p, from |-> m]

(* job.op says whose setNetworkSettings it is: start, update or the resume *)
(* of didReceivePathUpdate.  "armed" is between the call of                *)
(* setTunnelNetworkSettings and condition.wait.                            *)
Job == [pc : {"idle", "resolve", "settings", "armed", "waiting", "backend"},
        op : {"none", "start", "update", "resume"},
        cfg : Config \cup {NoConfig}, mon : Monitor \cup {NoMonitor}]

NoReports == [live |-> FALSE, due |-> FALSE]

NoJob == [pc |-> "idle", op |-> "none", cfg |-> NoConfig, mon |-> NoMonitor]

(* callback: nothing outstanding, handed to the system, systemError        *)
(* written, condition signalled.  woken: the signal found the waiter.      *)
Call == [cfg : Config \cup {NoConfig},
         callback : {"none", "pending", "assigned", "signalled"},
         systemError : BOOLEAN, woken : BOOLEAN]

NoCall == [cfg |-> NoConfig, callback |-> "none",
           systemError |-> FALSE, woken |-> FALSE]

AdapterTypeOK ==
    /\ workQueue \in Seq(Block)
    /\ job \in Job
    /\ state \in State
    /\ networkMonitor \in Monitor \cup {NoMonitor}
    /\ reasserting \in BOOLEAN
    /\ monitor \in [Monitor -> [live : BOOLEAN, due : BOOLEAN]]
    /\ path \in Path
    /\ call \in Call
    /\ netSettings \in Config \cup {NoConfig}
    /\ accepted \in Config \cup {NoConfig}
    /\ blind \in BOOLEAN

TypeOK == GoTypeOK /\ AdapterTypeOK

Init ==
    /\ GoInit
    /\ workQueue = << >>
    /\ job = NoJob
    /\ state = Stopped
    /\ networkMonitor = NoMonitor
    /\ reasserting = FALSE
    /\ monitor = [m \in Monitor |-> NoReports]
    /\ path \in Path
    /\ call = NoCall
    /\ netSettings = NoConfig
    /\ accepted = NoConfig
    /\ blind = FALSE

--------------------------------------------------------------------------------
(* Callers and the system, on threads of their own.                        *)

Enqueue(b) == Len(workQueue) < MaxQueue /\ workQueue' = Append(workQueue, b)

CallStart == \E c \in Config :
    /\ Enqueue(Request("start", c))
    /\ UNCHANGED <<goVars, job, state, networkMonitor, reasserting, monitor, path,
                   call, netSettings, accepted, blind>>

CallStop ==
    /\ Enqueue(Request("stop", NoConfig))
    /\ UNCHANGED <<goVars, job, state, networkMonitor, reasserting, monitor, path,
                   call, netSettings, accepted, blind>>

CallUpdate == \E c \in Config :
    /\ Enqueue(Request("update", c))
    /\ UNCHANGED <<goVars, job, state, networkMonitor, reasserting, monitor, path,
                   call, netSettings, accepted, blind>>

PathChange ==
    /\ path' \in Path \ {path}
    /\ monitor' = [m \in Monitor |-> [monitor[m] EXCEPT !.due = monitor[m].live]]
    /\ UNCHANGED <<goVars, workQueue, job, state, networkMonitor, reasserting,
                   call, netSettings, accepted, blind>>

(* A started monitor reports the path it finds and, after a change, the    *)
(* path there is by then.                                                  *)
MonitorReports == \E m \in Monitor :
    /\ monitor[m].due
    /\ Enqueue(Update(path, m))
    /\ monitor' = [monitor EXCEPT ![m].due = FALSE]
    /\ UNCHANGED <<goVars, job, state, networkMonitor, reasserting, path,
                   call, netSettings, accepted, blind>>

(* The completion handler of setTunnelNetworkSettings: it stores the error *)
(* and signals, on a thread of the system and without taking the lock.     *)
CallbackAssigns == \E failed \in BOOLEAN :
    /\ call.callback = "pending"
    /\ call' = [call EXCEPT !.callback = "assigned", !.systemError = failed]
    /\ netSettings' = IF failed THEN netSettings ELSE call.cfg
    /\ UNCHANGED <<goVars, workQueue, job, state, networkMonitor, reasserting, monitor,
                   path, accepted, blind>>

CallbackSignals ==
    /\ call.callback = "assigned"
    /\ call' = [call EXCEPT !.callback = "signalled",
                            !.woken = (job.pc = "waiting")]
    /\ UNCHANGED <<goVars, workQueue, job, state, networkMonitor, reasserting, monitor,
                   path, netSettings, accepted, blind>>

GoroutineStep == \E b \in Bumper : BumpAttempt(b) /\ UNCHANGED adapterVars

--------------------------------------------------------------------------------
(* Blocks of the workQueue.                                                *)

(* Defect: a concurrent workQueue.                                         *)
MutTakeConcurrent(op) ==
    /\ workQueue # << >>
    /\ Head(workQueue).op = op
    /\ workQueue' = Tail(workQueue)

Take(op) ==
    /\ job = NoJob
    /\ workQueue # << >>
    /\ Head(workQueue).op = op
    /\ workQueue' = Tail(workQueue)

(* Defect: the monitor is forgotten, not cancelled.                        *)
MutNotCancelled(m) == monitor

Cancelled(m) == [monitor EXCEPT ![m] = NoReports]

(* start: refused with invalidState unless stopped; otherwise the monitor  *)
(* runs before anything else is done.                                      *)
StartRefused ==
    /\ Take("start")
    /\ state.kind # "stopped"
    /\ UNCHANGED <<goVars, job, state, networkMonitor, reasserting, monitor, path,
                   call, netSettings, accepted, blind>>

StartBegins ==
    /\ Take("start")
    /\ state.kind = "stopped"
    /\ \E m \in Monitor :
          /\ ~ monitor[m].live
          /\ monitor' = [monitor EXCEPT ![m] = [live |-> TRUE, due |-> TRUE]]
          /\ job' = [pc |-> "resolve", op |-> "start", cfg |-> Head(workQueue).cfg, mon |-> m]
    /\ UNCHANGED <<goVars, state, networkMonitor, reasserting, path,
                   call, netSettings, accepted, blind>>

Stop ==
    /\ Take("stop")
    /\ IF state.kind = "stopped"
       THEN UNCHANGED <<goVars, state, networkMonitor, monitor, accepted, blind>>
       ELSE /\ IF state.kind = "started" THEN wgTurnOff(state.handle) ELSE UNCHANGED goVars
            /\ monitor' = Cancelled(networkMonitor)
            /\ networkMonitor' = NoMonitor
            /\ state' = Stopped
            /\ accepted' = NoConfig
            /\ blind' = FALSE
    /\ UNCHANGED <<job, reasserting, path, call, netSettings>>

UpdateRefused ==
    /\ Take("update")
    /\ state.kind = "stopped"
    /\ UNCHANGED <<goVars, job, state, networkMonitor, reasserting, monitor, path,
                   call, netSettings, accepted, blind>>

UpdateBegins ==
    /\ Take("update")
    /\ state.kind # "stopped"
    /\ reasserting' = TRUE
    /\ job' = [pc |-> "resolve", op |-> "update", cfg |-> Head(workQueue).cfg, mon |-> NoMonitor]
    /\ UNCHANGED <<goVars, state, networkMonitor, monitor, path,
                   call, netSettings, accepted, blind>>

(* didReceivePathUpdate.  It never asks which monitor the update is from:  *)
(* a block of a cancelled monitor that still runs is handled like any      *)
(* other (the system may also drop it).                                    *)
PathDropped ==
    /\ Take("path")
    /\ ~ monitor[Head(workQueue).from].live
    /\ UNCHANGED <<goVars, job, state, networkMonitor, reasserting, monitor, path,
                   call, netSettings, accepted, blind>>

PathIgnored ==
    /\ Take("path")
    /\ \/ state.kind = "stopped"
       \/ state.kind = "temporaryShutdown" /\ Head(workQueue).path = Offline
    /\ UNCHANGED <<goVars, job, state, networkMonitor, reasserting, monitor, path,
                   call, netSettings, accepted, blind>>

PathRefreshes ==
    /\ Take("path")
    /\ state.kind = "started"
    /\ Head(workQueue).path # Offline
    /\ wgSetEndpointsAndBump(state.handle, path)
    /\ UNCHANGED <<job, state, networkMonitor, reasserting, monitor, path,
                   call, netSettings, accepted, blind>>

PathPauses ==
    /\ Take("path")
    /\ state.kind = "started"
    /\ Head(workQueue).path = Offline
    /\ state' = TemporaryShutdown(state.gen)
    /\ wgTurnOff(state.handle)
    /\ UNCHANGED <<job, networkMonitor, reasserting, monitor, path,
                   call, netSettings, accepted, blind>>

PathResumes ==
    /\ Take("path")
    /\ state.kind = "temporaryShutdown"
    /\ Head(workQueue).path # Offline
    /\ job' = [pc |-> "settings", op |-> "resume", cfg |-> state.gen, mon |-> NoMonitor]
    /\ UNCHANGED <<goVars, state, networkMonitor, reasserting, monitor, path,
                   call, netSettings, accepted, blind>>

--------------------------------------------------------------------------------
(* The steps of start, update and resume.                                  *)

(* The catch clauses: start cancels its monitor, the defer of update ends  *)
(* the reassertion, resume only logs.                                      *)
Fail ==
    /\ job' = NoJob
    /\ monitor' = IF job.op = "start" THEN Cancelled(job.mon) ELSE monitor
    /\ reasserting' = IF job.op = "update" THEN FALSE ELSE reasserting
    /\ UNCHANGED <<state, networkMonitor, accepted>>

(* makeSettingsGenerator: resolvePeers throws when a name has no address.  *)
Resolve ==
    /\ job.pc = "resolve"
    /\ \/ Fail
       \/ /\ job' = [job EXCEPT !.pc = "settings"]
          /\ UNCHANGED <<state, networkMonitor, reasserting, monitor, accepted>>
    /\ UNCHANGED <<goVars, workQueue, path, call, netSettings, blind>>

CallSettings ==
    /\ job.pc = "settings"
    /\ job' = [job EXCEPT !.pc = "armed"]
    /\ call' = [NoCall EXCEPT !.cfg = job.cfg, !.callback = "pending"]
    /\ UNCHANGED <<goVars, workQueue, state, networkMonitor, reasserting, monitor, path,
                   netSettings, accepted, blind>>

(* condition.wait gives up the lock; only from here on does a signal wake. *)
EnterWait ==
    /\ job.pc = "armed"
    /\ job' = [job EXCEPT !.pc = "waiting"]
    /\ UNCHANGED <<goVars, workQueue, state, networkMonitor, reasserting, monitor, path,
                   call, netSettings, accepted, blind>>

(* Defect: systemError is not looked at.                                   *)
MutErrorIgnored ==
    /\ job.pc = "waiting"
    /\ job' = [job EXCEPT !.pc = "backend"]
    /\ blind' = (call.callback = "pending")
    /\ UNCHANGED <<goVars, workQueue, state, networkMonitor, reasserting, monitor, path,
                   call, netSettings, accepted>>

(* wait(until:) returned true, because of the signal or spuriously.        *)
WaitReturnsTrue ==
    /\ job.pc = "waiting"
    /\ IF call.systemError
       THEN Fail /\ UNCHANGED blind
       ELSE /\ job' = [job EXCEPT !.pc = "backend"]
            /\ blind' = (call.callback = "pending")
            /\ UNCHANGED <<state, networkMonitor, reasserting, monitor, accepted>>
    /\ UNCHANGED <<goVars, workQueue, path, call, netSettings>>

WaitWakes == call.woken /\ WaitReturnsTrue
SpuriousWake == ~ call.woken /\ WaitReturnsTrue

(* Defect: wait() in place of wait(until:).                                *)
MutNoTimeout == job.pc = "waiting" /\ call.woken /\ WaitReturnsTrue

(* wait(until:) returned false after 5 seconds: proceeding anyway.         *)
WaitTimesOut ==
    /\ job.pc = "waiting"
    /\ ~ call.woken
    /\ job' = [job EXCEPT !.pc = "backend"]
    /\ blind' = TRUE
    /\ UNCHANGED <<goVars, workQueue, state, networkMonitor, reasserting, monitor, path,
                   call, netSettings, accepted>>

(* startWireGuardBackend for start and resume: no utun descriptor, a       *)
(* negative handle, or a running device.                                   *)
StartBackend ==
    /\ job.pc = "backend"
    /\ job.op \in {"start", "resume"}
    /\ \/ UNCHANGED goVars /\ Fail
       \/ wgTurnOn(job.cfg, path, -1) /\ Fail
       \/ \E h \in Handle :
             /\ wgTurnOn(job.cfg, path, h)
             /\ state' = Started(h, job.cfg)
             /\ networkMonitor' = IF job.op = "start" THEN job.mon ELSE networkMonitor
             /\ accepted' = IF job.op = "start" THEN job.cfg ELSE accepted
             /\ job' = NoJob
             /\ UNCHANGED <<reasserting, monitor>>
    /\ UNCHANGED <<workQueue, path, call, netSettings, blind>>

UpdateBackend ==
    /\ job.pc = "backend"
    /\ job.op = "update"
    /\ \/ /\ state.kind = "started"
          /\ wgSetConfig(state.handle, job.cfg, path)
          /\ state' = Started(state.handle, job.cfg)
       \/ /\ state.kind = "temporaryShutdown"
          /\ state' = TemporaryShutdown(job.cfg)
          /\ UNCHANGED goVars
    /\ accepted' = job.cfg
    /\ reasserting' = FALSE
    /\ job' = NoJob
    /\ UNCHANGED <<workQueue, networkMonitor, monitor, path, call, netSettings, blind>>

(* deinit, once no block holds the object; path blocks hold it weakly.     *)
(* The next call is made on a new object.                                  *)
Deinit ==
    /\ job = NoJob
    /\ \A i \in 1 .. Len(workQueue) : workQueue[i].op = "path"
    /\ workQueue' = << >>
    /\ IF state.kind = "started" THEN wgTurnOff(state.handle) ELSE UNCHANGED goVars
    /\ monitor' = IF networkMonitor = NoMonitor THEN monitor ELSE Cancelled(networkMonitor)
    /\ networkMonitor' = NoMonitor
    /\ state' = Stopped
    /\ accepted' = NoConfig
    /\ blind' = FALSE
    /\ UNCHANGED <<job, reasserting, path, call, netSettings>>

--------------------------------------------------------------------------------
Callers == CallStart \/ CallStop \/ CallUpdate \/ Deinit

System ==
    \/ PathChange \/ MonitorReports \/ CallbackAssigns \/ CallbackSignals
    \/ SpuriousWake \/ GoroutineStep

Blocks ==
    \/ StartRefused \/ StartBegins \/ Stop \/ UpdateRefused \/ UpdateBegins
    \/ PathDropped \/ PathIgnored \/ PathRefreshes \/ PathPauses \/ PathResumes

JobSteps ==
    \/ Resolve \/ CallSettings \/ EnterWait \/ WaitWakes \/ WaitTimesOut
    \/ StartBackend \/ UpdateBackend

Next == Callers \/ System \/ Blocks \/ JobSteps

Spec == Init /\ [][Next]_vars

(* The serial queue runs what is submitted, name resolution, condition.wait*)
(* and the Go calls return.  Callers, the path and the callback of the     *)
(* system owe nothing.                                                     *)
Fairness == WF_vars(Blocks) /\ WF_vars(JobSteps) /\ WF_vars(GoroutineStep)

FairSpec == Spec /\ Fairness

--------------------------------------------------------------------------------
(* The Go side runs exactly the device the State enum holds: no device     *)
(* survives stop, pause, a failed start or deinit, and none is started     *)
(* twice.  (State, start, stop, didReceivePathUpdate, deinit.)             *)
DeviceMatchesState ==
    \A h \in Handle : Exists(h) <=> state.kind = "started" /\ h = state.handle

(* One path monitor runs while a tunnel runs or starts, none otherwise:    *)
(* a failed start, stop and deinit leave no monitor that would go on       *)
(* feeding didReceivePathUpdate.                                           *)
MonitorMatchesState ==
    /\ \A m \in Monitor :
          monitor[m].live <=> m = networkMonitor \/ (job.op = "start" /\ m = job.mon)
    /\ networkMonitor = NoMonitor <=> state.kind = "stopped"

(* What the caller was told holds through every pause and resume: the      *)
(* generator is that of the last call that completed without error, the    *)
(* device runs its configuration unless IpcSet rejected it, and the system *)
(* holds its network settings unless a settings call went on unanswered.   *)
RunsAcceptedConfig ==
    state.kind # "stopped" =>
        /\ state.gen = accepted
        /\ state.kind = "started" =>
              device[tunnelHandles[state.handle]].config \in {accepted, NoConfig}
        /\ job = NoJob /\ ~ blind => netSettings = accepted

(* Nothing left to run and the monitor has reported the present path.      *)
Settled ==
    /\ job = NoJob
    /\ workQueue = << >>
    /\ networkMonitor # NoMonitor => ~ monitor[networkMonitor].due

(* Once settled, a device that runs does so on a path that is not offline, *)
(* with endpoints resolved on that path (DNS64), whatever updates of       *)
(* earlier paths and of cancelled monitors came before.                    *)
FollowsPath ==
    Settled /\ state.kind = "started" =>
        /\ path # Offline
        /\ device[tunnelHandles[state.handle]].resolvedOn = path

(* update's fatalError on a stopped adapter is unreachable: nothing stops  *)
(* the tunnel while update waits for the system.                           *)
UpdateFindsTunnel == job.op \in {"update", "resume"} => state.kind # "stopped"

(* A stop that was submitted takes effect although setTunnelNetworkSettings*)
(* may never call back: every block before it ends.                        *)
StopTakesEffect ==
    (\E i \in 1 .. Len(workQueue) : workQueue[i].op = "stop") ~> (state.kind = "stopped")

--------------------------------------------------------------------------------
(* The strengthening that makes the invariants above inductive.            *)

QueueShape ==
    \A i \in 1 .. Len(workQueue) :
        /\ workQueue[i].op \in {"start", "update"} => workQueue[i].cfg \in Config
        /\ workQueue[i].op = "path" => workQueue[i].from \in Monitor

StateShape ==
    /\ state.kind = "started" => state.handle \in Handle
    /\ state.kind # "stopped" => state.gen \in Config

JobShape ==
    /\ job.pc = "idle" <=> job = NoJob
    /\ job.op = "none" <=> job = NoJob
    /\ job # NoJob => job.cfg \in Config
    /\ job.op = "start" => job.mon \in Monitor /\ state.kind = "stopped"
    /\ job.op = "resume" => state.kind = "temporaryShutdown" /\ job.cfg = state.gen
    /\ job.pc = "resolve" => job.op \in {"start", "update"}

(* What is known of netSettings while the answer of the system is on its   *)
(* way, has been seen, or was not waited for.                              *)
Answered == call.callback \in {"assigned", "signalled"}

SettingsShape ==
    /\ job.pc \in {"armed", "waiting"} =>
          /\ call.cfg = job.cfg
          /\ call.callback # "none"
          /\ ~ Answered => ~ call.systemError
          /\ Answered /\ ~ call.systemError => netSettings = job.cfg
          /\ state.kind # "stopped" /\ ~ blind /\ (Answered => call.systemError)
                => netSettings = accepted
    /\ job.pc = "backend" /\ ~ blind => Answered /\ netSettings = job.cfg
    /\ job.pc \in {"idle", "resolve", "settings"} /\ state.kind # "stopped" /\ ~ blind
          => Answered /\ netSettings = accepted

(* What a monitor with nothing left to report has seen to: the last path   *)
(* block of the queue is its own and tells the present path; or none is    *)
(* left, no start is under way, and the adapter has acted on that path.    *)
LastPathBlock(i) ==
    /\ i \in 1 .. Len(workQueue)
    /\ \A j \in 1 .. Len(workQueue) : workQueue[j].op = "path" => j <= i

NoPathBlock == \A j \in 1 .. Len(workQueue) : workQueue[j].op # "path"

ActedOnPath ==
    /\ job.op # "start"
    /\ job.op = "resume" => path # Offline
    /\ state.kind = "started" =>
          /\ path # Offline
          /\ device[tunnelHandles[state.handle]].resolvedOn = path

PathShape ==
    \A m \in Monitor :
        /\ monitor[m].due => monitor[m].live
        /\ monitor[m].live /\ ~ monitor[m].due =>
              \/ \E i \in 1 .. Len(workQueue) :
                    LastPathBlock(i) /\ workQueue[i] = Update(path, m)
              \/ NoPathBlock /\ ActedOnPath

IInv ==
    /\ TypeOK
    /\ QueueShape
    /\ StateShape
    /\ JobShape
    /\ SettingsShape
    /\ DeviceMatchesState
    /\ MonitorMatchesState
    /\ RunsAcceptedConfig
    /\ UpdateFindsTunnel
    /\ PathShape

================================================================================
