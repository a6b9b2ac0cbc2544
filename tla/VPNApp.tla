--------------------------------- MODULE VPNApp ---------------------------------
(***************************************************************************)
(* The app: VPNManager.swift, the tasks ContentView.swift starts on it,    *)
(* and the ProfileStore.  Everything runs on the main actor, one job at a  *)
(* time; an async function gives the actor up at each await, so it is one  *)
(* action up to its first await and one more for each resumption.          *)
(*                                                                         *)
(* The system is external: it keeps one configuration per                  *)
(* NETunnelProviderManager, runs the tunnel of at most one of them with    *)
(* the profile that was saved when it started, and posts a notification    *)
(* without data when a status changes.                                     *)
(***************************************************************************)
EXTENDS ProfileStore, FiniteSets

CONSTANTS
    Manager,     \* NETunnelProviderManager configurations
    NoManager,   \* the nil tunnelManager
    Task,        \* bound: connectToProfile tasks alive at the same time
    NoIP,        \* the nil serverIP
    MaxNotices,  \* bound: status notifications told apart
    Faults       \* what goes wrong, or comes early, in this instance

ASSUME NoManagerAssumption == NoManager \notin Manager
ASSUME MaxNoticesAssumption == MaxNotices \in Nat \ {0}
ASSUME NoIPAssumption == NoIP \notin Profile

VARIABLES
    uploads,         \* profiles whose upload popup is shown; selected when it goes
    taps,            \* connectToProfile tasks created and not begun
    task,            \* the tasks that have begun
    loading,         \* loadExistingManager waits for the system's list
    tunnelManager,   \* the manager in use
    statusObserver,  \* the manager whose notifications arrive
    connectionState, \* what the interface shows
    connectedDate,   \* a date is shown
    serverIP,        \* the public address shown: the exit it was asked through
    bytes,           \* the byte counters are not zero
    statsTask,       \* the statistics are polled
    logPollingTask,  \* the extension's log is polled
    lookups,         \* requests to ipinfo.io in flight, by exit
    notices,         \* updateConnectionState jobs queued by notifications
    saved,           \* the system's preferences
    session,         \* the system's tunnels
    wanted           \* history: the profile the user asked for last

taskVars == <<uploads, taps, task>>
shownVars == <<connectionState, connectedDate, serverIP, bytes, statsTask,
               logPollingTask, lookups>>
managerVars == <<loading, tunnelManager, statusObserver>>
vars == <<storeVars, taskVars, managerVars, shownVars, notices, saved, session, wanted>>

Status == {"invalid", "disconnected", "connecting", "connected", "reasserting",
           "disconnecting"}
Up == {"connecting", "connected", "reasserting"}

(* stopping: in disconnectAndWait; saving and loading: in                  *)
(* saveTunnelConfiguration, at its first and its second await; refused: at *)
(* the first, and the system will answer with an error.                    *)
TaskRecord == [pc : {"idle", "stopping", "saving", "refused", "loading"},
               profile : Profile \cup {NoProfile},
               manager : Manager \cup {NoManager}]
NoTask == [pc |-> "idle", profile |-> NoProfile, manager |-> NoManager]

Session == [status : Status, profile : Profile \cup {NoProfile}]
Down(s) == [status |-> s, profile |-> NoProfile]

TypeOK ==
    /\ uploads \subseteq Profile
    /\ taps \in Seq(Profile)
    /\ task \in [Task -> TaskRecord]
    /\ loading \in BOOLEAN
    /\ tunnelManager \in Manager \cup {NoManager}
    /\ statusObserver \in Manager \cup {NoManager}
    /\ connectionState \in Status
    /\ connectedDate \in BOOLEAN
    /\ serverIP \in Profile \cup {NoIP}
    /\ bytes \in BOOLEAN
    /\ statsTask \in BOOLEAN
    /\ logPollingTask \in BOOLEAN
    /\ lookups \subseteq Profile \cup {NoProfile}
    /\ notices \in 0..MaxNotices
    /\ saved \in [Manager -> Profile \cup {NoProfile}]
    /\ session \in [Manager -> Session]
    /\ wanted \in Profile \cup {NoProfile}

(* A process that has just started: VPNManager.init has created the task   *)
(* that loads the system's managers.                                       *)
Init ==
    /\ StoreInit
    /\ uploads = {}
    /\ taps = <<>>
    /\ task = [t \in Task |-> NoTask]
    /\ loading = TRUE
    /\ tunnelManager = NoManager
    /\ statusObserver = NoManager
    /\ connectionState = "invalid"
    /\ connectedDate = FALSE
    /\ serverIP = NoIP
    /\ bytes = FALSE
    /\ statsTask = FALSE
    /\ logPollingTask = FALSE
    /\ lookups = {}
    /\ notices = 0
    /\ saved = [m \in Manager |-> NoProfile]
    /\ session = [m \in Manager |-> Down("invalid")]
    /\ wanted = NoProfile

-----------------------------------------------------------------------------
(* The system: what a call to it, or its own steps, make of the sessions.  *)

Started(m) ==
    IF session[m].status = "disconnected"
      THEN [x \in Manager |->
              CASE x = m                     -> [status |-> "connecting", profile |-> saved[m]]
                [] x # m /\ session[x].status \in Up
                                             -> [status |-> "disconnecting",
                                                 profile |-> session[x].profile]
                [] OTHER                     -> session[x]]
      ELSE session

Stopped(m) ==
    IF m # NoManager /\ session[m].status \in Up
      THEN [session EXCEPT ![m] = [status |-> "disconnecting", profile |-> session[m].profile]]
      ELSE session

(* A change of the observed status queues updateConnectionState; past      *)
(* MaxNotices the jobs already queued stand for the new one as well, since *)
(* a job reads the status when it runs.                                    *)
Notified(observer, new) ==
    IF /\ observer # NoManager
       /\ new[observer].status # session[observer].status
       /\ notices < MaxNotices
      THEN notices + 1
      ELSE notices

SystemSets(new) ==
    /\ session' = new
    /\ notices' = Notified(statusObserver, new)

-----------------------------------------------------------------------------
(* VPNManager.                                                             *)

isActiveOrTransitioning == connectionState \in Up

(* The polling tasks after updateConnectionState has read a status.  A     *)
(* cancelled task does nothing more: both loops test isCancelled when they *)
(* resume.                                                                 *)
\* disconnected and reasserting do not stop the counters.
MutStatsOutlive(status) == statsTask \/ status = "connected"
statsPolling(status) ==
    \/ status = "connected"
    \/ statsTask /\ status \notin {"disconnected", "reasserting"}

logPolling(status) ==
    \/ status \in {"connecting", "reasserting", "disconnecting"}
    \/ logPollingTask /\ status \notin {"connected", "disconnected"}

(* updateConnectionState, for tunnelManager = m.  The status is read here, *)
(* not taken from the notification.                                        *)
updateConnectionState(m) ==
    \/ /\ m = NoManager
       /\ connectionState' = "invalid"
       /\ connectedDate' = FALSE
       /\ UNCHANGED <<serverIP, bytes, statsTask, logPollingTask, lookups>>
    \/ /\ m # NoManager
       /\ LET status == session[m].status
              up == status = "connected"
              cleared == status = "disconnected"
          IN  /\ connectionState' = status
              /\ connectedDate' = (up \/ (connectedDate /\ ~cleared))
              /\ serverIP' = IF cleared THEN NoIP ELSE serverIP
              /\ bytes' = (bytes /\ ~cleared)
              /\ statsTask' = statsPolling(status)
              /\ logPollingTask' = logPolling(status)
              /\ lookups' = IF up THEN lookups \cup {session[m].profile} ELSE lookups

\* The observer of the first manager is kept for the second.
MutObserveOnce(m) == statusObserver' = statusObserver
observeStatus(m) == statusObserver' = m

(* disconnect(); it leaves what is shown to the notifications.             *)
disconnect == SystemSets(Stopped(tunnelManager))

(* loadExistingManager, when the list of managers has come: the first one  *)
(* of the app's own is taken, whatever tunnelManager is by now.            *)
LoadsExisting(m) ==
    /\ loading
    /\ saved[m] # NoProfile
    /\ loading' = FALSE
    /\ tunnelManager' = m
    /\ observeStatus(m)
    /\ updateConnectionState(m)
    /\ UNCHANGED <<storeVars, taskVars, notices, saved, session, wanted>>

(* The list is empty, was made before the first save, or did not come.     *)
LoadsNothing ==
    /\ loading
    /\ loading' = FALSE
    /\ UNCHANGED <<storeVars, taskVars, tunnelManager, statusObserver, shownVars, notices,
                   saved, session, wanted>>

StatusChanged ==
    /\ notices > 0
    /\ notices' = notices - 1
    /\ updateConnectionState(tunnelManager)
    /\ UNCHANGED <<storeVars, taskVars, managerVars, saved, session, wanted>>

StatsPoll ==
    /\ statsTask
    /\ bytes' = TRUE
    /\ UNCHANGED <<storeVars, taskVars, managerVars, connectionState, connectedDate, serverIP,
                   statsTask, logPollingTask, lookups, notices, saved, session, wanted>>

(* lookupServerLocation: the request went out through tunnel p.  Its       *)
(* answer is stored whatever has happened since; a failed request changes  *)
(* nothing.                                                                *)
LookupAnswers(p) ==
    /\ p \in lookups
    /\ lookups' = lookups \ {p}
    /\ serverIP' \in {p, serverIP}
    /\ UNCHANGED <<storeVars, taskVars, managerVars, connectionState, connectedDate, bytes,
                   statsTask, logPollingTask, notices, saved, session, wanted>>

-----------------------------------------------------------------------------
(* ContentView.connectToProfile: disconnectAndWait, configure, connect.    *)

Idle(t) == task[t].pc = "idle"
At(t, pc) == task[t].pc = pc
Becomes(t, pc, p, m) ==
    task' = [task EXCEPT ![t] = [pc |-> pc, profile |-> p, manager |-> m]]
Ends(t) == task' = [task EXCEPT ![t] = NoTask]

(* The manager saveTunnelConfiguration uses: tunnelManager or a new one.   *)
CanUse(m) ==
    \/ m = tunnelManager
    \/ /\ tunnelManager = NoManager
       /\ saved[m] = NoProfile
       /\ \A t \in Task : task[t].manager # m

(* configure, up to the call of saveToPreferences.  The system takes the   *)
(* configuration with the call; the answer comes later.  parse cannot fail *)
(* here: addProfile has refused what it would refuse.                      *)
Saves(t, p) ==
    \E m \in Manager :
        /\ CanUse(m)
        /\ \/ /\ Becomes(t, "saving", p, m)
              /\ saved' = [saved EXCEPT ![m] = p]
              /\ session' = IF session[m].status = "invalid"
                              THEN [session EXCEPT ![m] = Down("disconnected")]
                              ELSE session
           \/ /\ "preferences" \in Faults
              /\ Becomes(t, "refused", p, m)
              /\ UNCHANGED <<saved, session>>

\* A switch that does not stop the tunnel first.
MutNoWait(t) ==
    /\ taps # <<>>
    /\ Idle(t)
    /\ taps' = Tail(taps)
    /\ Saves(t, Head(taps))
    /\ UNCHANGED <<storeVars, uploads, managerVars, shownVars, notices, wanted>>

(* A task begins.                                                          *)
Begin(t) ==
    /\ taps # <<>>
    /\ Idle(t)
    /\ taps' = Tail(taps)
    /\ \/ /\ isActiveOrTransitioning
          /\ Becomes(t, "stopping", Head(taps), NoManager)
          /\ disconnect
          /\ UNCHANGED saved
       \/ /\ ~isActiveOrTransitioning
          /\ Saves(t, Head(taps))
          /\ UNCHANGED notices
    /\ UNCHANGED <<storeVars, uploads, managerVars, shownVars, wanted>>

(* disconnectAndWait returns: a look, every 100 ms, finds the tunnel down. *)
StopSeen(t) ==
    /\ At(t, "stopping")
    /\ connectionState \in {"disconnected", "invalid"}
    /\ Saves(t, task[t].profile)
    /\ UNCHANGED <<storeVars, uploads, taps, managerVars, shownVars, notices, wanted>>

(* disconnectAndWait returns after 50 looks without it.                    *)
\* A wait without the limit of 50 looks.
MutWaitsForever(t) == FALSE /\ UNCHANGED vars
WaitGivenUp(t) ==
    /\ "slow stop" \in Faults
    /\ At(t, "stopping")
    /\ connectionState \notin {"disconnected", "invalid"}
    /\ Saves(t, task[t].profile)
    /\ UNCHANGED <<storeVars, uploads, taps, managerVars, shownVars, notices, wanted>>

(* saveToPreferences has answered; loadFromPreferences is called.          *)
SaveAnswered(t) ==
    /\ At(t, "saving")
    /\ Becomes(t, "loading", task[t].profile, task[t].manager)
    /\ UNCHANGED <<storeVars, uploads, taps, managerVars, shownVars, notices, saved, session,
                   wanted>>

(* connect(), for tunnelManager = m.                                       *)
connect(m) == session' = IF m = NoManager THEN session ELSE Started(m)

(* loadFromPreferences has answered: the manager is in use, its status is  *)
(* shown, and connectToProfile goes on to connect() without an await.      *)
Configured(t) ==
    /\ At(t, "loading")
    /\ LET m == task[t].manager IN
       /\ tunnelManager' = m
       /\ observeStatus(m)
       /\ updateConnectionState(m)
       /\ connect(m)
       /\ notices' = Notified(m, session')
    /\ Ends(t)
    /\ UNCHANGED <<storeVars, uploads, taps, loading, saved, wanted>>

\* A manager taken into use before its save is answered.
MutManagerKept(t) ==
    /\ At(t, "refused")
    /\ tunnelManager' = task[t].manager
    /\ Ends(t)
    /\ UNCHANGED <<storeVars, uploads, taps, loading, statusObserver, shownVars, notices, saved,
                   session, wanted>>

(* Either call failed: configure reports it and returns, and               *)
(* connectToProfile calls connect() all the same.                          *)
NotConfigured(t) ==
    /\ \/ At(t, "refused")
       \/ At(t, "loading") /\ "preferences" \in Faults
    /\ connect(tunnelManager)
    /\ notices' = Notified(statusObserver, session')
    /\ Ends(t)
    /\ UNCHANGED <<storeVars, uploads, taps, managerVars, shownVars, saved, wanted>>
-----------------------------------------------------------------------------
(* The user.                                                               *)

Settled ==
    /\ taps = <<>>
    /\ \A t \in Task : Idle(t)
    /\ notices = 0
    /\ ~loading

isProfileActive(p) == p = selectedProfileID /\ connectionState = "connected"
isProfileTransitioning(p) ==
    p = selectedProfileID /\ connectionState \in {"connecting", "reasserting"}

CanConnect == Len(taps) < Cardinality({t \in Task : Idle(t)})
connectToProfile(p) == CanConnect /\ taps' = Append(taps, p)

(* A UUID nothing refers to: identities of deleted profiles are used again *)
(* when nothing remembers them.                                            *)
Fresh(p) ==
    /\ p \notin Elements(profiles) \cup uploads \cup Elements(taps)
    /\ p # selectedProfileID
    /\ \A t \in Task : task[t].profile # p
    /\ \A m \in Manager : p \notin {saved[m], session[m].profile}

(* onProfileReceived: the profile is added, and the popup is shown for     *)
(* three seconds.                                                          *)
ProfileReceived(p) ==
    /\ Fresh(p)
    /\ addProfile(p)
    /\ uploads' = uploads \cup {p}
    /\ UNCHANGED <<taps, task, managerVars, shownVars, notices, saved, session, wanted>>

(* The popup goes and the new profile is selected, there or not.           *)
PopupGoes(p) ==
    /\ p \in uploads
    /\ uploads' = uploads \ {p}
    /\ selectProfile(p)
    /\ UNCHANGED <<taps, task, managerVars, shownVars, notices, saved, session, wanted>>

(* A patient user taps when the last tap has had its effect; others while  *)
(* a task still runs or before the status of the tunnel is shown.          *)
MayTap == Settled \/ "hasty taps" \in Faults

(* A tap on a row; rows are disabled while the tunnel is shown to stop.    *)
handleProfileTap(p) ==
    /\ p \in Elements(profiles)
    /\ connectionState # "disconnecting"
    /\ MayTap
    /\ \/ /\ isProfileActive(p) \/ isProfileTransitioning(p)
          /\ disconnect
          /\ wanted' = NoProfile
          /\ UNCHANGED <<storeVars, taps>>
       \/ /\ ~isProfileActive(p) /\ ~isProfileTransitioning(p)
          /\ selectProfile(p)
          /\ connectToProfile(p)
          /\ wanted' = p
          /\ UNCHANGED <<notices, session>>
    /\ UNCHANGED <<uploads, task, managerVars, shownVars, saved>>

(* "Save" of the credentials sheet, for the active profile.                *)
CredentialsSaved(p) ==
    /\ p \in Elements(profiles)
    /\ MayTap
    /\ isProfileActive(p)
    /\ connectToProfile(p)
    /\ wanted' = p
    /\ UNCHANGED <<storeVars, uploads, task, managerVars, shownVars, notices, saved, session>>

(* "Delete" of the alert.                                                  *)
ProfileDeleted(p) ==
    /\ p \in Elements(profiles)
    /\ removeProfile(p)
    /\ IF isProfileActive(p) THEN disconnect ELSE UNCHANGED <<notices, session>>
    /\ wanted' = IF wanted = p THEN NoProfile ELSE wanted
    /\ UNCHANGED <<taskVars, managerVars, shownVars, saved>>

(* The app's process ends, and the user opens the app again.  The tunnel   *)
(* runs in the extension's process and stays; nothing else does.           *)
Relaunch ==
    /\ "relaunch" \in Faults
    /\ load
    /\ uploads' = {}
    /\ taps' = <<>>
    /\ task' = [t \in Task |-> NoTask]
    /\ loading' = TRUE
    /\ tunnelManager' = NoManager
    /\ statusObserver' = NoManager
    /\ connectionState' = "invalid"
    /\ connectedDate' = FALSE
    /\ serverIP' = NoIP
    /\ bytes' = FALSE
    /\ statsTask' = FALSE
    /\ logPollingTask' = FALSE
    /\ lookups' = {}
    /\ notices' = 0
    /\ UNCHANGED <<saved, session, wanted>>

-----------------------------------------------------------------------------
(* The system's own steps.                                                 *)

SystemStep(m, from, to) ==
    /\ session[m].status \in from
    /\ SystemSets([session EXCEPT ![m] =
           [status |-> to,
            profile |-> IF to = "disconnected" THEN NoProfile ELSE session[m].profile]])
    /\ UNCHANGED <<storeVars, taskVars, managerVars, shownVars, saved, wanted>>

TunnelComesUp(m) == SystemStep(m, {"connecting", "reasserting"}, "connected")
TunnelReasserts(m) == SystemStep(m, {"connected"}, "reasserting")
TunnelFails(m) == SystemStep(m, Up, "disconnecting")
TunnelStops(m) == SystemStep(m, {"disconnecting"}, "disconnected")

-----------------------------------------------------------------------------
AppJobs ==
    \/ StatusChanged
    \/ \E t \in Task : \/ Begin(t) \/ StopSeen(t) \/ WaitGivenUp(t) \/ SaveAnswered(t)
                       \/ Configured(t) \/ NotConfigured(t)

User ==
    \/ \E p \in Profile : \/ ProfileReceived(p) \/ PopupGoes(p) \/ handleProfileTap(p)
                          \/ CredentialsSaved(p) \/ ProfileDeleted(p)
    \/ Relaunch

System ==
    \/ LoadsNothing
    \/ \E m \in Manager : \/ LoadsExisting(m) \/ TunnelComesUp(m) \/ TunnelReasserts(m)
                          \/ TunnelFails(m) \/ TunnelStops(m)
    \/ \E p \in Profile : LookupAnswers(p)
    \/ StatsPoll

Next == AppJobs \/ User \/ System

Spec == Init /\ [][Next]_vars

(* The main actor runs every job it is given and the sleep loop of         *)
(* disconnectAndWait ends by itself; the system answers what the app       *)
(* awaits.  Nothing is assumed of the user or of the tunnels.              *)
Fairness ==
    /\ WF_vars(StatusChanged)
    /\ WF_vars(LoadsNothing)
    /\ \A t \in Task : WF_vars(\/ Begin(t) \/ StopSeen(t) \/ WaitGivenUp(t) \/ SaveAnswered(t)
                               \/ Configured(t) \/ NotConfigured(t))

FairSpec == Spec /\ Fairness

-----------------------------------------------------------------------------
(* When no notification is queued, the state shown is the state the tunnel *)
(* in use really has (updateConnectionState reads it, observeStatus and    *)
(* saveTunnelConfiguration change what is observed; VPNManager.swift       *)
(* 341-347, 510-527), through switches of the manager, failed saves and    *)
(* relaunches.                                                             *)
ShowsStatus ==
    notices = 0 =>
        connectionState = IF tunnelManager = NoManager THEN "invalid"
                                                       ELSE session[tunnelManager].status

(* What disconnected clears stays cleared until the tunnel is up again: no *)
(* polling task that was started before it can count bytes or set the date *)
(* afterwards (VPNManager.swift 446-469, 540-561).                         *)
DisconnectedIsClean ==
    connectionState \in {"disconnected", "invalid"} => ~bytes /\ ~connectedDate

(* The manager in use is the observed one, and one the system has a        *)
(* configuration for, so that connect() has something to start: a manager  *)
(* whose first save was refused is dropped, and the late answer of         *)
(* loadExistingManager brings its observer along (VPNManager.swift         *)
(* 289-315, 317-345).                                                      *)
ManagerIsSaved ==
    /\ statusObserver = tunnelManager
    /\ tunnelManager # NoManager => saved[tunnelManager] # NoProfile

(* After the user has chosen a profile and everything has come to rest, a  *)
(* connected tunnel runs that profile (SUPPORT.md 19: "If you switch while *)
(* connected, ZacVPN will automatically reconnect to the new server.";     *)
(* ContentView.swift 645-664).                                             *)
SwitchReconnects ==
    (/\ Settled
     /\ wanted # NoProfile
     /\ tunnelManager # NoManager
     /\ connectionState = "connected") => session[tunnelManager].profile = wanted

(* connectToProfile always comes to its end: neither a tunnel that never   *)
(* stops nor a refused save holds it for ever (VPNManager.swift 165-175).  *)
TaskEnds == \A t \in Task : ~Idle(t) ~> Idle(t)

(* A tunnel that stays up is shown as connected in the end, and one that   *)
(* stays down as disconnected, although notifications carry no data and    *)
(* their jobs may run late (VPNManager.swift 510-527).                     *)
StatusIsShown ==
    \A m \in Manager, s \in {"connected", "disconnected"} :
        <>[](tunnelManager = m /\ session[m].status = s) => <>[](connectionState = s)

-----------------------------------------------------------------------------
(* What SwitchReconnects rests on when the user is patient, the system     *)
(* refuses nothing and the app is not launched again: one request at a     *)
(* time, one tunnel at a time, and none while a task prepares the next.    *)
Resting == taps = <<>> /\ \A t \in Task : Idle(t)
NoneUp == \A m \in Manager : session[m].status \notin Up

OneRequest ==
    /\ taps # <<>> => Len(taps) = 1 /\ \A t \in Task : Idle(t)
    /\ \A t, u \in Task : ~Idle(t) /\ ~Idle(u) => t = u
    /\ \A t \in Task : ~At(t, "refused")

OneTunnel ==
    /\ \A m \in Manager : session[m].status \in Up => m = tunnelManager
    /\ loading => Resting /\ tunnelManager = NoManager /\ \A m \in Manager : saved[m] = NoProfile

RequestShape ==
    /\ taps # <<>> => wanted \in {Head(taps), NoProfile} /\ (NoneUp \/ isActiveOrTransitioning)
    /\ \A t \in Task : ~Idle(t) => NoneUp /\ wanted \in {task[t].profile, NoProfile}
    /\ \A t \in Task : At(t, "saving") \/ At(t, "loading") =>
          saved[task[t].manager] = task[t].profile /\ tunnelManager \in {task[t].manager, NoManager}
    /\ Resting /\ wanted # NoProfile =>
          \A m \in Manager : session[m].status \in Up => session[m].profile = wanted
================================================================================
