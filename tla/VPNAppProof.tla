------------------------------- MODULE VPNAppProof -------------------------------
(***************************************************************************)
(* Proofs about VPNApp, for any numbers of managers, tasks, profiles and   *)
(* notices, and all faults but those a theorem excludes.                   *)
(***************************************************************************)
EXTENDS VPNApp, TLAPS

(* What a configuration that was saved stays to be.                        *)
SavedInv ==
    /\ \A m \in Manager : saved[m] # NoProfile => session[m].status # "invalid"
    /\ \A t \in Task : task[t].pc \in {"stopping", "saving", "refused", "loading"} =>
          task[t].profile \in Profile
    /\ \A t \in Task : task[t].pc \in {"saving", "loading"} =>
          task[t].manager \in Manager /\ saved[task[t].manager] # NoProfile

(* The polling task and what it writes, next to the state shown.           *)
ShownInv ==
    /\ tunnelManager = NoManager => connectionState = "invalid"
    /\ statsTask => connectionState \notin {"disconnected", "invalid"}

AppInv ==
    /\ TypeOK
    /\ SavedInv
    /\ ManagerIsSaved
    /\ ShownInv
    /\ ShowsStatus
    /\ DisconnectedIsClean

--------------------------------------------------------------------------------
(* The system's sessions.                                                  *)

LEMMA StartedSession ==
    ASSUME TypeOK, NEW m \in Manager
    PROVE  /\ Started(m) \in [Manager -> Session]
           /\ \A x \in Manager : Started(m)[x].status = "invalid" => session[x].status = "invalid"
<1>1. CASE session[m].status # "disconnected"
  BY <1>1 DEF Started, TypeOK
<1>2. CASE session[m].status = "disconnected"
  <2> DEFINE new(x) ==
          CASE x = m -> [status |-> "connecting", profile |-> saved[m]]
            [] x # m /\ session[x].status \in Up ->
                  [status |-> "disconnecting", profile |-> session[x].profile]
            [] OTHER -> session[x]
  <2>1. Started(m) = [x \in Manager |-> new(x)]
    BY <1>2 DEF Started
  <2>2. ASSUME NEW x \in Manager
        PROVE  new(x) \in Session /\ (new(x).status = "invalid" => session[x].status = "invalid")
    <3>1. CASE x = m
      BY <3>1 DEF TypeOK, Session, Status
    <3>2. CASE x # m /\ session[x].status \in Up
      BY <3>2 DEF TypeOK, Session, Status
    <3>3. CASE x # m /\ session[x].status \notin Up
      BY <3>3 DEF TypeOK
    <3> QED BY <3>1, <3>2, <3>3
  <2> QED BY <2>1, <2>2
<1> QED BY <1>1, <1>2

LEMMA StoppedSession ==
    ASSUME TypeOK, NEW m \in Manager \cup {NoManager}
    PROVE  /\ Stopped(m) \in [Manager -> Session]
           /\ \A x \in Manager : Stopped(m)[x].status = "invalid" => session[x].status = "invalid"
<1>1. CASE ~ (m # NoManager /\ session[m].status \in Up)
  BY <1>1 DEF Stopped, TypeOK
<1>2. CASE m # NoManager /\ session[m].status \in Up
  <2>1. m \in Manager /\ [status |-> "disconnecting", profile |-> session[m].profile] \in Session
    BY <1>2 DEF TypeOK, Session, Status
  <2> QED BY <1>2, <2>1 DEF Stopped, TypeOK
<1> QED BY <1>1, <1>2

LEMMA NotifiedNotices ==
    ASSUME TypeOK, NEW o \in Manager \cup {NoManager}, NEW new
    PROVE  /\ Notified(o, new) \in 0..MaxNotices
           /\ Notified(o, new) = 0 => notices = 0
           /\ Notified(o, new) = 0 /\ o # NoManager => new[o].status = session[o].status
BY MaxNoticesAssumption DEF Notified, TypeOK

(* The sessions change, and the observer is told: all invariants stay.     *)
LEMMA SystemSetsInv ==
    ASSUME AppInv, NEW new \in [Manager -> Session], SystemSets(new),
           \A x \in Manager : new[x].status = "invalid" => session[x].status = "invalid",
           UNCHANGED <<managerVars, shownVars, saved>>
    PROVE  /\ session' \in [Manager -> Session] /\ notices' \in 0..MaxNotices
           /\ ManagerIsSaved' /\ ShownInv' /\ ShowsStatus' /\ DisconnectedIsClean'
           /\ \A m \in Manager : saved'[m] # NoProfile => session'[m].status # "invalid"
<1>1. /\ statusObserver \in Manager \cup {NoManager} /\ statusObserver = tunnelManager
      /\ session' = new /\ notices' = Notified(statusObserver, new)
  BY DEF AppInv, TypeOK, ManagerIsSaved, SystemSets
<1>2. /\ notices' \in 0..MaxNotices
      /\ notices' = 0 => notices = 0
      /\ notices' = 0 /\ tunnelManager # NoManager =>
            new[tunnelManager].status = session[tunnelManager].status
  BY <1>1, NotifiedNotices DEF AppInv
<1>3. ShowsStatus'
  BY <1>1, <1>2 DEF AppInv, ShowsStatus, managerVars, shownVars
<1>4. ManagerIsSaved' /\ ShownInv' /\ DisconnectedIsClean'
  BY DEF AppInv, ManagerIsSaved, ShownInv, DisconnectedIsClean, managerVars, shownVars
<1>5. \A m \in Manager : saved'[m] # NoProfile => session'[m].status # "invalid"
  BY <1>1 DEF AppInv, SavedInv
<1> QED BY <1>1, <1>2, <1>3, <1>4, <1>5

(* updateConnectionState shows the status of m and keeps the rest in step. *)
LEMMA UpdateInv ==
    ASSUME AppInv, NEW m \in Manager \cup {NoManager}, updateConnectionState(m),
           m # NoManager => saved[m] # NoProfile,
           m = NoManager => tunnelManager = NoManager
    PROVE  /\ connectionState' \in Status /\ connectedDate' \in BOOLEAN
           /\ serverIP' \in Profile \cup {NoIP} /\ bytes' \in BOOLEAN
           /\ statsTask' \in BOOLEAN /\ logPollingTask' \in BOOLEAN /\ lookups' \subseteq Profile \cup {NoProfile}
           /\ connectionState' = IF m = NoManager THEN "invalid" ELSE session[m].status
           /\ statsTask' => connectionState' \notin {"disconnected", "invalid"}
           /\ DisconnectedIsClean'
<1>1. CASE m = NoManager
  <2>1. /\ connectionState' = "invalid" /\ connectedDate' = FALSE
        /\ UNCHANGED <<serverIP, bytes, statsTask, logPollingTask, lookups>>
    BY <1>1, NoManagerAssumption DEF updateConnectionState
  <2>2. connectionState = "invalid" /\ ~ bytes /\ ~ statsTask
    BY <1>1 DEF AppInv, ShownInv, DisconnectedIsClean
  <2> QED BY <1>1, <2>1, <2>2 DEF AppInv, TypeOK, DisconnectedIsClean, Status
<1>2. CASE m # NoManager
  <2> DEFINE status == session[m].status
  <2>1. m \in Manager /\ status \in Status /\ status # "invalid" /\ session[m].profile \in Profile \cup {NoProfile}
    BY <1>2 DEF AppInv, TypeOK, Session, SavedInv
  <2>2. /\ connectionState' = status
        /\ connectedDate' = (status = "connected" \/ (connectedDate /\ status # "disconnected"))
        /\ serverIP' = IF status = "disconnected" THEN NoIP ELSE serverIP
        /\ bytes' = (bytes /\ status # "disconnected")
        /\ statsTask' = (status = "connected" \/ (statsTask /\ status \notin {"disconnected", "reasserting"}))
        /\ logPollingTask' = logPolling(status)
        /\ lookups' = IF status = "connected" THEN lookups \cup {session[m].profile} ELSE lookups
    BY <1>2 DEF updateConnectionState, statsPolling
  <2>3. logPolling(status) \in BOOLEAN
    BY DEF logPolling, AppInv, TypeOK
  <2> QED BY <1>2, <2>1, <2>2, <2>3 DEF AppInv, TypeOK, DisconnectedIsClean
<1> QED BY <1>1, <1>2

--------------------------------------------------------------------------------
(* What the tasks do.                                                      *)

UserType == uploads \subseteq Profile /\ taps \in Seq(Profile) /\ wanted \in Profile \cup {NoProfile}

sharedVars == <<managerVars, shownVars, notices, saved, session>>

LEMMA FrameInv ==
    ASSUME AppInv, UserType', UNCHANGED sharedVars, UNCHANGED task
    PROVE  AppInv'
BY DEF AppInv, TypeOK, UserType, SavedInv, ManagerIsSaved, ShownInv, ShowsStatus,
       DisconnectedIsClean, sharedVars, managerVars, shownVars

(* A task in pc, for a manager that is saved if it goes on with it.        *)
LEMMA TaskInv ==
    ASSUME AppInv, NEW t \in Task, NEW pc \in {"idle", "stopping", "saving", "refused", "loading"},
           NEW p \in Profile \cup {NoProfile}, NEW m \in Manager \cup {NoManager},
           task' = [task EXCEPT ![t] = [pc |-> pc, profile |-> p, manager |-> m]],
           pc # "idle" => p \in Profile,
           pc \in {"saving", "loading"} => m \in Manager /\ saved'[m] # NoProfile,
           \A x \in Manager : saved[x] # NoProfile => saved'[x] # NoProfile
    PROVE  /\ task' \in [Task -> TaskRecord]
           /\ \A u \in Task : task'[u].pc \in {"stopping", "saving", "refused", "loading"} =>
                 task'[u].profile \in Profile
           /\ \A u \in Task : task'[u].pc \in {"saving", "loading"} =>
                 task'[u].manager \in Manager /\ saved'[task'[u].manager] # NoProfile
<1>1. [pc |-> pc, profile |-> p, manager |-> m] \in TaskRecord
  BY DEF TaskRecord
<1>2. /\ task' \in [Task -> TaskRecord]
      /\ task'[t] = [pc |-> pc, profile |-> p, manager |-> m]
      /\ \A u \in Task \ {t} : task'[u] = task[u]
  BY <1>1 DEF AppInv, TypeOK
<1> QED BY <1>2 DEF AppInv, SavedInv

LEMMA SavesInv ==
    ASSUME AppInv, NEW t \in Task, NEW p \in Profile, Saves(t, p), UserType',
           UNCHANGED <<managerVars, shownVars, notices>>
    PROVE  AppInv'
<1>1. PICK m \in Manager :
          /\ CanUse(m)
          /\ \/ /\ Becomes(t, "saving", p, m)
                /\ saved' = [saved EXCEPT ![m] = p]
                /\ session' = IF session[m].status = "invalid"
                                THEN [session EXCEPT ![m] = Down("disconnected")]
                                ELSE session
             \/ /\ Becomes(t, "refused", p, m)
                /\ UNCHANGED <<saved, session>>
  BY DEF Saves
<1>2. p # NoProfile
  BY NoProfileAssumption
<1>3. CASE Becomes(t, "refused", p, m) /\ UNCHANGED <<saved, session>>
  <2>1. /\ task' \in [Task -> TaskRecord]
        /\ \A u \in Task : task'[u].pc \in {"stopping", "saving", "refused", "loading"} =>
              task'[u].profile \in Profile
        /\ \A u \in Task : task'[u].pc \in {"saving", "loading"} =>
              task'[u].manager \in Manager /\ saved'[task'[u].manager] # NoProfile
    BY <1>3, TaskInv DEF Becomes
  <2> QED BY <1>3, <2>1
      DEF AppInv, TypeOK, UserType, SavedInv, ManagerIsSaved, ShownInv, ShowsStatus,
          DisconnectedIsClean, managerVars, shownVars
<1>4. CASE /\ Becomes(t, "saving", p, m)
           /\ saved' = [saved EXCEPT ![m] = p]
           /\ session' = IF session[m].status = "invalid"
                           THEN [session EXCEPT ![m] = Down("disconnected")]
                           ELSE session
  <2>1. /\ saved' \in [Manager -> Profile \cup {NoProfile}] /\ saved'[m] = p
        /\ \A x \in Manager \ {m} : saved'[x] = saved[x]
    BY <1>4 DEF AppInv, TypeOK
  <2>2. /\ task' \in [Task -> TaskRecord]
        /\ \A u \in Task : task'[u].pc \in {"stopping", "saving", "refused", "loading"} =>
              task'[u].profile \in Profile
        /\ \A u \in Task : task'[u].pc \in {"saving", "loading"} =>
              task'[u].manager \in Manager /\ saved'[task'[u].manager] # NoProfile
    BY <1>2, <1>4, <2>1, TaskInv DEF Becomes
  <2>3. Down("disconnected") \in Session /\ Down("disconnected").status = "disconnected"
    BY DEF Down, Session, Status
  <2>4. /\ session' \in [Manager -> Session]
        /\ session'[m].status # "invalid"
        /\ \A x \in Manager \ {m} : session'[x] = session[x]
        /\ session[m].status # "invalid" => session' = session
    BY <1>4, <2>3 DEF AppInv, TypeOK
  <2>5. tunnelManager = m => session' = session
    BY <2>4, NoManagerAssumption DEF AppInv, SavedInv, ManagerIsSaved
  <2>6. ShowsStatus'
    BY <2>4, <2>5 DEF AppInv, TypeOK, ShowsStatus, managerVars, shownVars
  <2>7. ManagerIsSaved' /\ ShownInv' /\ DisconnectedIsClean'
    BY <1>2, <2>1 DEF AppInv, TypeOK, ManagerIsSaved, ShownInv, DisconnectedIsClean, managerVars, shownVars
  <2>8. SavedInv'
    BY <2>1, <2>2, <2>4 DEF AppInv, SavedInv
  <2>9. TypeOK'
    BY <2>1, <2>2, <2>4 DEF AppInv, TypeOK, UserType, managerVars, shownVars
  <2> QED BY <2>6, <2>7, <2>8, <2>9 DEF AppInv
<1> QED BY <1>1, <1>3, <1>4

(* Only the sessions and the notices change, and tasks by TaskInv.         *)
LEMMA SessionsInv ==
    ASSUME AppInv, NEW new \in [Manager -> Session], SystemSets(new), UserType',
           \A x \in Manager : new[x].status = "invalid" => session[x].status = "invalid",
           UNCHANGED <<managerVars, shownVars, saved>>,
           task' \in [Task -> TaskRecord],
           \A u \in Task : task'[u].pc \in {"stopping", "saving", "refused", "loading"} =>
              task'[u].profile \in Profile,
           \A u \in Task : task'[u].pc \in {"saving", "loading"} =>
              task'[u].manager \in Manager /\ saved[task'[u].manager] # NoProfile
    PROVE  AppInv'
<1>1. /\ session' \in [Manager -> Session] /\ notices' \in 0..MaxNotices
      /\ ManagerIsSaved' /\ ShownInv' /\ ShowsStatus' /\ DisconnectedIsClean'
      /\ \A m \in Manager : saved'[m] # NoProfile => session'[m].status # "invalid"
  BY SystemSetsInv
<1>2. SavedInv'
  BY <1>1 DEF SavedInv
<1>3. TypeOK'
  BY <1>1 DEF AppInv, TypeOK, UserType, managerVars, shownVars
<1> QED BY <1>1, <1>2, <1>3 DEF AppInv

(* disconnect, with everything else but what the user does unchanged.      *)
LEMMA DisconnectInv ==
    ASSUME AppInv, disconnect, UserType', UNCHANGED <<managerVars, shownVars, saved>>,
           UNCHANGED task
    PROVE  AppInv'
<1>1. tunnelManager \in Manager \cup {NoManager}
  BY DEF AppInv, TypeOK
<1>2. /\ Stopped(tunnelManager) \in [Manager -> Session]
      /\ \A x \in Manager : Stopped(tunnelManager)[x].status = "invalid" => session[x].status = "invalid"
  BY <1>1, StoppedSession DEF AppInv
<1> QED BY <1>2, SessionsInv DEF disconnect, AppInv, TypeOK, SavedInv

(* A task ends, whatever it has done to the sessions.                      *)
LEMMA EndsTask ==
    ASSUME AppInv, NEW t \in Task, Ends(t), UNCHANGED saved
    PROVE  /\ task' \in [Task -> TaskRecord]
           /\ \A u \in Task : task'[u].pc \in {"stopping", "saving", "refused", "loading"} =>
                 task'[u].profile \in Profile
           /\ \A u \in Task : task'[u].pc \in {"saving", "loading"} =>
                 task'[u].manager \in Manager /\ saved'[task'[u].manager] # NoProfile
<1>1. task' = [task EXCEPT ![t] = [pc |-> "idle", profile |-> NoProfile, manager |-> NoManager]]
  BY DEF Ends, NoTask
<1> QED BY <1>1, TaskInv

LEMMA ConfiguredInv ==
    ASSUME AppInv, NEW t \in Task, Configured(t)
    PROVE  AppInv'
<1> DEFINE m == task[t].manager
<1>1. /\ m \in Manager /\ m # NoManager /\ saved[m] # NoProfile
      /\ updateConnectionState(m) /\ tunnelManager' = m /\ statusObserver' = m
      /\ session' = Started(m) /\ notices' = Notified(m, Started(m))
      /\ UNCHANGED <<storeVars, uploads, taps, loading, saved, wanted>> /\ Ends(t)
  BY NoManagerAssumption DEF Configured, At, AppInv, SavedInv, observeStatus, connect
<1>2. /\ task' \in [Task -> TaskRecord]
      /\ \A u \in Task : task'[u].pc \in {"stopping", "saving", "refused", "loading"} =>
            task'[u].profile \in Profile
      /\ \A u \in Task : task'[u].pc \in {"saving", "loading"} =>
            task'[u].manager \in Manager /\ saved'[task'[u].manager] # NoProfile
  BY <1>1, EndsTask
<1>3. /\ Started(m) \in [Manager -> Session]
      /\ \A x \in Manager : Started(m)[x].status = "invalid" => session[x].status = "invalid"
  BY <1>1, StartedSession DEF AppInv
<1>4. /\ notices' \in 0..MaxNotices
      /\ notices' = 0 => session'[m].status = session[m].status
  BY <1>1, NotifiedNotices DEF AppInv
<1>5. /\ connectionState' \in Status /\ connectedDate' \in BOOLEAN
      /\ serverIP' \in Profile \cup {NoIP} /\ bytes' \in BOOLEAN
      /\ statsTask' \in BOOLEAN /\ logPollingTask' \in BOOLEAN /\ lookups' \subseteq Profile \cup {NoProfile}
      /\ connectionState' = session[m].status
      /\ statsTask' => connectionState' \notin {"disconnected", "invalid"}
      /\ DisconnectedIsClean'
  BY <1>1, UpdateInv
<1> HIDE DEF m
<1>6. TypeOK'
  BY <1>1, <1>2, <1>3, <1>4, <1>5 DEF AppInv, TypeOK
<1>7. SavedInv'
  BY <1>1, <1>2, <1>3 DEF AppInv, SavedInv
<1>8. ManagerIsSaved' /\ ShownInv' /\ ShowsStatus'
  BY <1>1, <1>4, <1>5 DEF ManagerIsSaved, ShownInv, ShowsStatus
<1> QED BY <1>5, <1>6, <1>7, <1>8 DEF AppInv

LEMMA NotConfiguredInv ==
    ASSUME AppInv, NEW t \in Task, NotConfigured(t)
    PROVE  AppInv'
<1>1. /\ session' = IF tunnelManager = NoManager THEN session ELSE Started(tunnelManager)
      /\ notices' = Notified(statusObserver, session') /\ Ends(t)
      /\ UNCHANGED <<storeVars, uploads, taps, managerVars, shownVars, saved, wanted>>
      /\ tunnelManager \in Manager \cup {NoManager}
  BY DEF NotConfigured, connect, AppInv, TypeOK
<1>2. /\ session' \in [Manager -> Session]
      /\ \A x \in Manager : session'[x].status = "invalid" => session[x].status = "invalid"
  BY <1>1, StartedSession DEF AppInv, TypeOK
<1>3. SystemSets(session')
  BY <1>1 DEF SystemSets
<1>4. /\ task' \in [Task -> TaskRecord]
      /\ \A u \in Task : task'[u].pc \in {"stopping", "saving", "refused", "loading"} =>
            task'[u].profile \in Profile
      /\ \A u \in Task : task'[u].pc \in {"saving", "loading"} =>
            task'[u].manager \in Manager /\ saved[task'[u].manager] # NoProfile
  BY <1>1, EndsTask
<1>5. UserType'
  BY <1>1 DEF AppInv, TypeOK, UserType
<1> QED BY <1>1, <1>2, <1>3, <1>4, <1>5, SessionsInv

LEMMA BeginInv ==
    ASSUME AppInv, NEW t \in Task, Begin(t)
    PROVE  AppInv'
<1>1. taps \in Seq(Profile) /\ taps # <<>>
  BY DEF Begin, AppInv, TypeOK
<1>2. Head(taps) \in Profile /\ Tail(taps) \in Seq(Profile)
  BY <1>1
<1>3. UserType' /\ UNCHANGED <<managerVars, shownVars>>
  BY <1>2 DEF Begin, AppInv, TypeOK, UserType
<1>4. CASE ~ isActiveOrTransitioning
  <2>1. Saves(t, Head(taps)) /\ notices' = notices
    BY <1>4 DEF Begin
  <2> QED BY <1>2, <1>3, <2>1, SavesInv
<1>5. CASE isActiveOrTransitioning
  <2>1. Becomes(t, "stopping", Head(taps), NoManager) /\ disconnect /\ saved' = saved
    BY <1>5 DEF Begin
  <2>2. /\ task' \in [Task -> TaskRecord]
        /\ \A u \in Task : task'[u].pc \in {"stopping", "saving", "refused", "loading"} =>
              task'[u].profile \in Profile
        /\ \A u \in Task : task'[u].pc \in {"saving", "loading"} =>
              task'[u].manager \in Manager /\ saved[task'[u].manager] # NoProfile
    BY <1>2, <2>1, TaskInv DEF Becomes
  <2>3. tunnelManager \in Manager \cup {NoManager}
    BY DEF AppInv, TypeOK
  <2>4. /\ Stopped(tunnelManager) \in [Manager -> Session]
        /\ \A x \in Manager : Stopped(tunnelManager)[x].status = "invalid" => session[x].status = "invalid"
    BY <2>3, StoppedSession DEF AppInv
  <2> QED BY <1>3, <2>1, <2>2, <2>4, SessionsInv DEF disconnect
<1> QED BY <1>4, <1>5

LEMMA AppJobsInv ==
    ASSUME AppInv, AppJobs
    PROVE  AppInv'
<1>1. CASE StatusChanged
  <2>1. /\ notices > 0 /\ notices' = notices - 1 /\ updateConnectionState(tunnelManager)
        /\ UNCHANGED <<storeVars, taskVars, managerVars, saved, session, wanted>>
        /\ tunnelManager \in Manager \cup {NoManager} /\ notices \in 0..MaxNotices
        /\ tunnelManager # NoManager => saved[tunnelManager] # NoProfile
    BY <1>1 DEF StatusChanged, AppInv, TypeOK, ManagerIsSaved
  <2>2. /\ connectionState' \in Status /\ connectedDate' \in BOOLEAN
        /\ serverIP' \in Profile \cup {NoIP} /\ bytes' \in BOOLEAN
        /\ statsTask' \in BOOLEAN /\ logPollingTask' \in BOOLEAN /\ lookups' \subseteq Profile \cup {NoProfile}
        /\ connectionState' = IF tunnelManager = NoManager THEN "invalid" ELSE session[tunnelManager].status
        /\ statsTask' => connectionState' \notin {"disconnected", "invalid"}
        /\ DisconnectedIsClean'
    BY <2>1, UpdateInv
  <2>3. notices' \in 0..MaxNotices
    BY <2>1, MaxNoticesAssumption
  <2>4. TypeOK'
    BY <2>1, <2>2, <2>3 DEF AppInv, TypeOK, taskVars, managerVars
  <2>5. SavedInv' /\ ManagerIsSaved'
    BY <2>1 DEF AppInv, SavedInv, ManagerIsSaved, taskVars, managerVars
  <2>6. ShownInv' /\ ShowsStatus'
    BY <2>1, <2>2 DEF ShownInv, ShowsStatus, managerVars
  <2> QED BY <2>2, <2>4, <2>5, <2>6 DEF AppInv
<1>2. ASSUME NEW t \in Task, StopSeen(t) \/ WaitGivenUp(t)
      PROVE  AppInv'
  <2>1. task[t].profile \in Profile
    BY <1>2 DEF StopSeen, WaitGivenUp, At, AppInv, SavedInv
  <2>2. UserType'
    BY <1>2 DEF StopSeen, WaitGivenUp, AppInv, TypeOK, UserType
  <2> QED BY <1>2, <2>1, <2>2, SavesInv DEF StopSeen, WaitGivenUp
<1>3. ASSUME NEW t \in Task, SaveAnswered(t)
      PROVE  AppInv'
  <2>1. /\ task[t].profile \in Profile /\ task[t].manager \in Manager
        /\ saved[task[t].manager] # NoProfile
        /\ Becomes(t, "loading", task[t].profile, task[t].manager)
        /\ UNCHANGED <<storeVars, uploads, taps, managerVars, shownVars, notices, saved, session, wanted>>
    BY <1>3 DEF SaveAnswered, At, AppInv, SavedInv
  <2>2. /\ task' \in [Task -> TaskRecord]
        /\ \A u \in Task : task'[u].pc \in {"stopping", "saving", "refused", "loading"} =>
              task'[u].profile \in Profile
        /\ \A u \in Task : task'[u].pc \in {"saving", "loading"} =>
              task'[u].manager \in Manager /\ saved'[task'[u].manager] # NoProfile
    BY <2>1, TaskInv DEF Becomes
  <2> QED BY <2>1, <2>2
      DEF AppInv, TypeOK, SavedInv, ManagerIsSaved, ShownInv, ShowsStatus, DisconnectedIsClean,
          managerVars, shownVars
<1> QED BY <1>1, <1>2, <1>3, BeginInv, ConfiguredInv, NotConfiguredInv DEF AppJobs

LEMMA UserInv ==
    ASSUME AppInv, User
    PROVE  AppInv'
<1>1. uploads \subseteq Profile /\ taps \in Seq(Profile) /\ wanted \in Profile \cup {NoProfile}
  BY DEF AppInv, TypeOK
<1>2. ASSUME NEW p \in Profile, ProfileReceived(p) \/ PopupGoes(p)
      PROVE  AppInv'
  BY <1>1, <1>2, FrameInv DEF ProfileReceived, PopupGoes, UserType, sharedVars
<1>3. ASSUME NEW p \in Profile, handleProfileTap(p)
      PROVE  AppInv'
  <2>1. CASE isProfileActive(p) \/ isProfileTransitioning(p)
    <3>1. disconnect /\ wanted' = NoProfile /\ UNCHANGED <<uploads, taps, task, managerVars, shownVars, saved>>
      BY <1>3, <2>1 DEF handleProfileTap
    <3> QED BY <1>1, <3>1, DisconnectInv DEF UserType
  <2>2. CASE ~ isProfileActive(p) /\ ~ isProfileTransitioning(p)
    <3>1. taps' = Append(taps, p) /\ wanted' = p /\ UNCHANGED <<uploads, task, sharedVars>>
      BY <1>3, <2>2 DEF handleProfileTap, connectToProfile, sharedVars
    <3>2. Append(taps, p) \in Seq(Profile)
      BY <1>1
    <3> QED BY <1>1, <3>1, <3>2, FrameInv DEF UserType
  <2> QED BY <2>1, <2>2
<1>4. ASSUME NEW p \in Profile, CredentialsSaved(p)
      PROVE  AppInv'
  <2>1. taps' = Append(taps, p) /\ wanted' = p /\ UNCHANGED <<uploads, task, sharedVars>>
    BY <1>4 DEF CredentialsSaved, connectToProfile, sharedVars
  <2>2. Append(taps, p) \in Seq(Profile)
    BY <1>1
  <2> QED BY <1>1, <2>1, <2>2, FrameInv DEF UserType
<1>5. ASSUME NEW p \in Profile, ProfileDeleted(p)
      PROVE  AppInv'
  <2>1. UserType' /\ UNCHANGED <<taskVars, managerVars, shownVars, saved>>
    BY <1>1, <1>5 DEF ProfileDeleted, UserType, taskVars
  <2>2. disconnect \/ UNCHANGED <<notices, session>>
    BY <1>5 DEF ProfileDeleted
  <2> QED BY <2>1, <2>2, DisconnectInv, FrameInv DEF taskVars, sharedVars
<1>6. CASE Relaunch
  <2>1. <<>> \in Seq(Profile) /\ 0 \in 0..MaxNotices
    BY MaxNoticesAssumption
  <2>2. /\ uploads' = {} /\ taps' = <<>> /\ task' = [t \in Task |-> NoTask]
        /\ loading' = TRUE /\ tunnelManager' = NoManager /\ statusObserver' = NoManager
        /\ connectionState' = "invalid" /\ connectedDate' = FALSE /\ serverIP' = NoIP
        /\ bytes' = FALSE /\ statsTask' = FALSE /\ logPollingTask' = FALSE /\ lookups' = {}
        /\ notices' = 0 /\ UNCHANGED <<saved, session, wanted>>
    BY <1>6 DEF Relaunch
  <2>3. NoTask \in TaskRecord /\ NoTask.pc = "idle"
    BY DEF NoTask, TaskRecord
  <2>4. TypeOK'
    BY <2>1, <2>2, <2>3 DEF AppInv, TypeOK, Status
  <2>5. SavedInv'
    BY <2>2, <2>3 DEF AppInv, SavedInv
  <2>6. ManagerIsSaved' /\ ShownInv' /\ ShowsStatus' /\ DisconnectedIsClean'
    BY <2>2 DEF ManagerIsSaved, ShownInv, ShowsStatus, DisconnectedIsClean
  <2> QED BY <2>4, <2>5, <2>6 DEF AppInv
<1> QED BY <1>2, <1>3, <1>4, <1>5, <1>6 DEF User

LEMMA SystemInv ==
    ASSUME AppInv, System
    PROVE  AppInv'
<1>1. CASE LoadsNothing
  BY <1>1 DEF LoadsNothing, AppInv, TypeOK, SavedInv, ManagerIsSaved, ShownInv, ShowsStatus,
              DisconnectedIsClean, taskVars, shownVars
<1>2. ASSUME NEW m \in Manager, LoadsExisting(m)
      PROVE  AppInv'
  <2>1. /\ loading' = FALSE /\ tunnelManager' = m /\ statusObserver' = m /\ updateConnectionState(m)
        /\ saved[m] # NoProfile /\ m # NoManager
        /\ UNCHANGED <<taskVars, notices, saved, session, wanted>>
    BY <1>2, NoManagerAssumption DEF LoadsExisting, observeStatus
  <2>2. /\ connectionState' \in Status /\ connectedDate' \in BOOLEAN
        /\ serverIP' \in Profile \cup {NoIP} /\ bytes' \in BOOLEAN
        /\ statsTask' \in BOOLEAN /\ logPollingTask' \in BOOLEAN /\ lookups' \subseteq Profile \cup {NoProfile}
        /\ connectionState' = session[m].status
        /\ statsTask' => connectionState' \notin {"disconnected", "invalid"}
        /\ DisconnectedIsClean'
    BY <2>1, UpdateInv
  <2>3. TypeOK'
    BY <2>1, <2>2 DEF AppInv, TypeOK, taskVars
  <2>4. SavedInv'
    BY <2>1 DEF AppInv, SavedInv, taskVars
  <2>5. ManagerIsSaved' /\ ShownInv' /\ ShowsStatus'
    BY <2>1, <2>2 DEF ManagerIsSaved, ShownInv, ShowsStatus
  <2> QED BY <2>2, <2>3, <2>4, <2>5 DEF AppInv
<1>3. ASSUME NEW m \in Manager, NEW from \in SUBSET (Status \ {"invalid"}), NEW to \in Status \ {"invalid"},
             SystemStep(m, from, to)
      PROVE  AppInv'
  <2> DEFINE s == [status |-> to,
                   profile |-> IF to = "disconnected" THEN NoProfile ELSE session[m].profile]
             new == [session EXCEPT ![m] = s]
  <2>1. s \in Session
    BY DEF AppInv, TypeOK, Session
  <2>2. /\ new \in [Manager -> Session]
        /\ \A x \in Manager : new[x].status = "invalid" => session[x].status = "invalid"
    BY <2>1 DEF AppInv, TypeOK
  <2>3. SystemSets(new) /\ UNCHANGED <<taskVars, managerVars, shownVars, saved, wanted>>
    BY <1>3 DEF SystemStep
  <2>4. UserType' /\ UNCHANGED task
    BY <2>3 DEF AppInv, TypeOK, UserType, taskVars
  <2> HIDE DEF new
  <2> QED BY <2>2, <2>3, <2>4, SessionsInv DEF AppInv, TypeOK, SavedInv
<1>4. ASSUME NEW m \in Manager,
             TunnelComesUp(m) \/ TunnelReasserts(m) \/ TunnelFails(m) \/ TunnelStops(m)
      PROVE  AppInv'
  BY <1>3, <1>4 DEF TunnelComesUp, TunnelReasserts, TunnelFails, TunnelStops, Up, Status
<1>5. ASSUME NEW p \in Profile, LookupAnswers(p)
      PROVE  AppInv'
  BY <1>5 DEF LookupAnswers, AppInv, TypeOK, SavedInv, ManagerIsSaved, ShownInv, ShowsStatus,
              DisconnectedIsClean, taskVars, managerVars
<1>6. CASE StatsPoll
  BY <1>6 DEF StatsPoll, AppInv, TypeOK, SavedInv, ManagerIsSaved, ShownInv, ShowsStatus,
              DisconnectedIsClean, taskVars, managerVars
<1> QED BY <1>1, <1>2, <1>4, <1>5, <1>6 DEF System

LEMMA InitInv == Init => AppInv
<1> SUFFICES ASSUME Init PROVE AppInv
  OBVIOUS
<1>1. <<>> \in Seq(Profile) /\ 0 \in 0..MaxNotices
  BY MaxNoticesAssumption
<1>2. /\ NoTask \in TaskRecord /\ NoTask.pc = "idle"
      /\ Down("invalid") \in Session /\ Down("invalid").status = "invalid"
  BY DEF NoTask, TaskRecord, Down, Session, Status
<1>3. TypeOK
  BY <1>1, <1>2 DEF Init, TypeOK, Status
<1>4. SavedInv
  BY <1>2 DEF Init, SavedInv
<1>5. ManagerIsSaved /\ ShownInv /\ ShowsStatus /\ DisconnectedIsClean
  BY DEF Init, ManagerIsSaved, ShownInv, ShowsStatus, DisconnectedIsClean
<1> QED BY <1>3, <1>4, <1>5 DEF AppInv

LEMMA AppAlways == Spec => []AppInv
<1>1. AppInv /\ [Next]_vars => AppInv'
  <2>1. ASSUME AppInv, UNCHANGED vars PROVE AppInv'
    BY <2>1, FrameInv
    DEF vars, taskVars, sharedVars, UserType, AppInv, TypeOK
  <2> QED BY <2>1, AppJobsInv, UserInv, SystemInv DEF Next
<1> QED BY <1>1, InitInv, PTL DEF Spec

--------------------------------------------------------------------------------
(* Every variable keeps its type through all handlers and awaits.          *)
THEOREM TypeCorrect == Spec => []TypeOK
<1>1. AppInv => TypeOK
  BY DEF AppInv
<1> QED BY <1>1, AppAlways, PTL

(* With no notification queued the interface shows what the tunnel in use  *)
(* does: every handler that changes which manager that is reads its status.*)
THEOREM StatusCorrect == Spec => []ShowsStatus
<1>1. AppInv => ShowsStatus
  BY DEF AppInv
<1> QED BY <1>1, AppAlways, PTL

(* No polling task writes counters after a disconnection has cleared them. *)
THEOREM CleanCorrect == Spec => []DisconnectedIsClean
<1>1. AppInv => DisconnectedIsClean
  BY DEF AppInv
<1> QED BY <1>1, AppAlways, PTL

(* The manager in use is observed and has a saved configuration, whichever *)
(* of its saves were refused and whatever loadExistingManager brings late. *)
THEOREM ManagerCorrect == Spec => []ManagerIsSaved
<1>1. AppInv => ManagerIsSaved
  BY DEF AppInv
<1> QED BY <1>1, AppAlways, PTL

(* A new launch finds the list and the selection as they were left: every  *)
(* handler that changes them saves them.                                   *)
THEOREM StoreCorrect == Spec => []Restored
<1>1. Init => Restored
  BY DEF Init, StoreInit, Save, Restored
<1>2. ASSUME NEW ps, NEW s, Update(ps, s) PROVE Restored'
  BY <1>2 DEF Update, Save, Restored
<1>3. Restored /\ UNCHANGED storeVars => Restored'
  BY DEF Restored, storeVars
<1>4. ASSUME Restored, load PROVE Restored'
  BY <1>4 DEF load, Restored
<1>5. Restored /\ [Next]_vars => Restored'
  <2> SUFFICES ASSUME Restored, [Next]_vars PROVE Restored'
    OBVIOUS
  <2>1. CASE UNCHANGED vars
    BY <1>3, <2>1 DEF vars
  <2>2. CASE AppJobs
    BY <1>3, <2>2
    DEF AppJobs, StatusChanged, Begin, StopSeen, WaitGivenUp, SaveAnswered, Configured, NotConfigured
  <2>3. CASE System
    BY <1>3, <2>3
    DEF System, LoadsNothing, LoadsExisting, TunnelComesUp, TunnelReasserts, TunnelFails,
        TunnelStops, SystemStep, LookupAnswers, StatsPoll
  <2>4. CASE User
    BY <1>2, <1>3, <1>4, <2>4
    DEF User, ProfileReceived, PopupGoes, handleProfileTap, CredentialsSaved, ProfileDeleted,
        Relaunch, addProfile, removeProfile, selectProfile
  <2> QED BY <2>1, <2>2, <2>3, <2>4 DEF Next
<1> QED BY <1>1, <1>5, PTL DEF Spec

--------------------------------------------------------------------------------
(* A patient user, a system that refuses nothing, and one launch.          *)

SwitchInv == AppInv /\ OneRequest /\ OneTunnel /\ RequestShape

Undisturbed == {"hasty taps", "preferences", "relaunch"} \cap Faults = {}

(* No tunnel has come up, and those that are still up run what they ran.   *)
FewerUp ==
    \A m \in Manager : session'[m].status \in Up =>
        session[m].status \in Up /\ session'[m].profile = session[m].profile

LEMMA FewerKeeps ==
    ASSUME OneRequest, OneTunnel, RequestShape, FewerUp, wanted' \in {wanted, NoProfile},
           UNCHANGED <<taps, task, loading, tunnelManager, connectionState, saved>>
    PROVE  OneRequest' /\ OneTunnel' /\ RequestShape'
<1>1. NoneUp => NoneUp'
  BY DEF FewerUp, NoneUp
<1>2. OneRequest'
  BY DEF OneRequest, Idle, At
<1>3. OneTunnel'
  BY DEF OneTunnel, FewerUp, Resting, Idle
<1>4. RequestShape'
  <2>1. taps' # <<>> => wanted' \in {Head(taps'), NoProfile} /\ (NoneUp' \/ isActiveOrTransitioning')
    BY <1>1 DEF RequestShape, isActiveOrTransitioning
  <2>2. \A t \in Task : ~Idle(t)' => NoneUp' /\ wanted' \in {task'[t].profile, NoProfile}
    BY <1>1 DEF RequestShape, Idle
  <2>3. \A t \in Task : At(t, "saving")' \/ At(t, "loading")' =>
            saved'[task'[t].manager] = task'[t].profile /\ tunnelManager' \in {task'[t].manager, NoManager}
    BY DEF RequestShape, At
  <2>4. Resting' /\ wanted' # NoProfile =>
            \A m \in Manager : session'[m].status \in Up => session'[m].profile = wanted'
    BY DEF RequestShape, FewerUp, Resting, Idle
  <2> QED BY <2>1, <2>2, <2>3, <2>4 DEF RequestShape
<1> QED BY <1>2, <1>3, <1>4

(* disconnect stops the tunnel in use, which is the only one up.           *)
LEMMA StoppedUp ==
    ASSUME AppInv, OneTunnel, disconnect
    PROVE  FewerUp /\ NoneUp'
<1>1. /\ tunnelManager \in Manager \cup {NoManager}
      /\ session' = Stopped(tunnelManager) /\ session \in [Manager -> Session]
  BY DEF AppInv, TypeOK, disconnect, SystemSets
<1>2. CASE tunnelManager # NoManager /\ session[tunnelManager].status \in Up
  <2>1. session' = [session EXCEPT ![tunnelManager] =
                       [status |-> "disconnecting", profile |-> session[tunnelManager].profile]]
    BY <1>1, <1>2 DEF Stopped
  <2>2. /\ session'[tunnelManager].status = "disconnecting"
        /\ \A m \in Manager \ {tunnelManager} : session'[m] = session[m]
    BY <1>1, <1>2, <2>1
  <2> QED BY <2>2 DEF OneTunnel, FewerUp, NoneUp, Up
<1>3. CASE ~ (tunnelManager # NoManager /\ session[tunnelManager].status \in Up)
  <2>1. session' = session
    BY <1>1, <1>3 DEF Stopped
  <2> QED BY <1>1, <1>3, <2>1, NoManagerAssumption DEF OneTunnel, FewerUp, NoneUp
<1> QED BY <1>2, <1>3

(* connect starts the manager's saved profile, if it starts anything.      *)
LEMMA StartedUp ==
    ASSUME TypeOK, NoneUp, NEW m \in Manager, NEW x \in Manager, Started(m)[x].status \in Up
    PROVE  x = m /\ Started(m)[x].profile = saved[m]
<1>1. session[x].status \notin Up
  BY DEF NoneUp
<1>2. session[m].status = "disconnected"
  BY <1>1 DEF Started
<1>3. CASE x # m
  BY <1>1, <1>2, <1>3 DEF Started
<1>4. CASE x = m
  BY <1>2, <1>4 DEF Started
<1> QED BY <1>3, <1>4

(* Shown as not up, when the status is shown, is not up.                   *)
LEMMA ShownUp ==
    ASSUME OneTunnel, connectionState = IF tunnelManager = NoManager
                                          THEN "invalid" ELSE session[tunnelManager].status
    PROVE  NoneUp \/ isActiveOrTransitioning
BY NoManagerAssumption DEF OneTunnel, NoneUp, isActiveOrTransitioning

LEMMA SavesKeeps ==
    ASSUME SwitchInv, Undisturbed, NEW t \in Task, NEW p \in Profile, Saves(t, p),
           NoneUp, ~ loading, wanted \in {p, NoProfile}, taps' = <<>>,
           \A u \in Task \ {t} : Idle(u),
           UNCHANGED <<loading, tunnelManager, connectionState, wanted>>
    PROVE  OneRequest' /\ OneTunnel' /\ RequestShape'
<1>1. PICK m \in Manager :
          /\ CanUse(m)
          /\ Becomes(t, "saving", p, m)
          /\ saved' = [saved EXCEPT ![m] = p]
          /\ session' = IF session[m].status = "invalid"
                          THEN [session EXCEPT ![m] = Down("disconnected")]
                          ELSE session
  BY DEF Saves, Undisturbed
<1>2. /\ task' = [task EXCEPT ![t] = [pc |-> "saving", profile |-> p, manager |-> m]]
      /\ saved' = [saved EXCEPT ![m] = p]
      /\ tunnelManager \in {m, NoManager}
      /\ task \in [Task -> TaskRecord] /\ saved \in [Manager -> Profile \cup {NoProfile}]
      /\ session \in [Manager -> Session]
  BY <1>1 DEF Becomes, CanUse, SwitchInv, AppInv, TypeOK
<1>3. /\ task'[t] = [pc |-> "saving", profile |-> p, manager |-> m] /\ saved'[m] = p
      /\ \A u \in Task \ {t} : task'[u] = task[u] /\ task'[u].pc = "idle"
  BY <1>2 DEF Idle
<1>4. NoneUp'
  BY <1>1, <1>2 DEF NoneUp, Down, Up
<1>5. ~ Resting'
  BY <1>3 DEF Resting, Idle
<1>6. OneRequest'
  BY <1>3 DEF OneRequest, Idle, At
<1>7. OneTunnel'
  BY <1>4 DEF OneTunnel, NoneUp
<1>8. RequestShape'
  BY <1>2, <1>3, <1>4, <1>5 DEF RequestShape, Idle, At
<1> QED BY <1>6, <1>7, <1>8

LEMMA BeginKeeps ==
    ASSUME SwitchInv, Undisturbed, NEW t \in Task, Begin(t)
    PROVE  OneRequest' /\ OneTunnel' /\ RequestShape'
<1>1. /\ taps # <<>> /\ taps \in Seq(Profile) /\ Len(taps) = 1 /\ taps' = Tail(taps)
      /\ \A u \in Task : Idle(u)
      /\ wanted \in {Head(taps), NoProfile} /\ (NoneUp \/ isActiveOrTransitioning)
      /\ UNCHANGED <<loading, tunnelManager, connectionState, wanted>>
  BY DEF SwitchInv, AppInv, TypeOK, OneRequest, RequestShape, Begin, managerVars, shownVars
<1>2. taps' = <<>> /\ Head(taps) \in Profile /\ ~ loading
  BY <1>1 DEF SwitchInv, OneTunnel, Resting
<1>3. CASE ~ isActiveOrTransitioning
  <2>1. Saves(t, Head(taps))
    BY <1>3 DEF Begin
  <2> QED BY <1>1, <1>2, <1>3, <2>1, SavesKeeps
<1>4. CASE isActiveOrTransitioning
  <2>1. disconnect /\ saved' = saved /\ Becomes(t, "stopping", Head(taps), NoManager)
    BY <1>4 DEF Begin
  <2>2. NoneUp'
    BY <2>1, StoppedUp DEF SwitchInv
  <2>3. /\ task'[t] = [pc |-> "stopping", profile |-> Head(taps), manager |-> NoManager]
        /\ \A u \in Task \ {t} : task'[u] = task[u] /\ task'[u].pc = "idle"
    BY <1>1, <2>1 DEF Becomes, SwitchInv, AppInv, TypeOK, Idle
  <2>4. ~ Resting'
    BY <2>3 DEF Resting, Idle
  <2>5. OneRequest'
    BY <1>2, <2>3 DEF OneRequest, Idle, At
  <2>6. OneTunnel'
    BY <1>1, <1>2, <2>2 DEF OneTunnel, NoneUp
  <2>7. RequestShape'
    BY <1>1, <1>2, <2>2, <2>3, <2>4 DEF RequestShape, Idle, At
  <2> QED BY <2>5, <2>6, <2>7
<1> QED BY <1>3, <1>4

(* The only task ends, and the tunnel it started is the one asked for.     *)
LEMMA ConfiguredKeeps ==
    ASSUME SwitchInv, NEW t \in Task, Configured(t)
    PROVE  OneRequest' /\ OneTunnel' /\ RequestShape'
<1> DEFINE m == task[t].manager
<1>1. /\ task[t].pc = "loading" /\ ~ Idle(t)
      /\ m \in Manager /\ m # NoManager /\ task[t].profile \in Profile
  BY NoManagerAssumption DEF Configured, At, Idle, SwitchInv, AppInv, SavedInv
<1>2. /\ tunnelManager' = m /\ session' = Started(m) /\ Ends(t)
      /\ UNCHANGED <<taps, loading, saved, wanted>>
  BY <1>1 DEF Configured, connect
<1>3. /\ taps = <<>> /\ ~ loading /\ NoneUp /\ wanted \in {task[t].profile, NoProfile}
      /\ saved[m] = task[t].profile /\ \A u \in Task \ {t} : Idle(u)
  BY <1>1 DEF SwitchInv, OneRequest, OneTunnel, RequestShape, Resting, At
<1>4. \A u \in Task : task'[u].pc = "idle"
  BY <1>2, <1>3 DEF Ends, NoTask, Idle, SwitchInv, AppInv, TypeOK
<1>5. \A x \in Manager : session'[x].status \in Up => x = m /\ session'[x].profile = task[t].profile
  BY <1>1, <1>2, <1>3, StartedUp DEF SwitchInv, AppInv
<1>6. OneRequest'
  BY <1>2, <1>3, <1>4 DEF OneRequest, Idle, At
<1>7. OneTunnel'
  BY <1>2, <1>3, <1>5 DEF OneTunnel
<1>8. RequestShape'
  BY <1>2, <1>3, <1>4, <1>5 DEF RequestShape, Idle, At
<1> QED BY <1>6, <1>7, <1>8

LEMMA AppJobsKeep ==
    ASSUME SwitchInv, Undisturbed, AppJobs
    PROVE  OneRequest' /\ OneTunnel' /\ RequestShape'
<1>1. CASE StatusChanged
  <2>1. /\ UNCHANGED <<taps, task, loading, tunnelManager, saved, session, wanted>>
        /\ tunnelManager \in Manager \cup {NoManager}
        /\ connectionState' = IF tunnelManager = NoManager THEN "invalid" ELSE session[tunnelManager].status
    BY <1>1 DEF StatusChanged, updateConnectionState, taskVars, managerVars, SwitchInv, AppInv, TypeOK
  <2>2. OneRequest' /\ OneTunnel'
    BY <2>1 DEF SwitchInv, OneRequest, OneTunnel, Resting, Idle, At
  <2>3. NoneUp' \/ isActiveOrTransitioning'
    BY <2>1, NoManagerAssumption DEF SwitchInv, OneTunnel, NoneUp, isActiveOrTransitioning
  <2>4. RequestShape'
    BY <2>1, <2>3 DEF SwitchInv, RequestShape, Resting, NoneUp, Idle, At
  <2> QED BY <2>2, <2>4
<1>2. ASSUME NEW t \in Task, StopSeen(t) \/ WaitGivenUp(t)
      PROVE  OneRequest' /\ OneTunnel' /\ RequestShape'
  <2>1. /\ ~ Idle(t) /\ task[t].profile \in Profile /\ Saves(t, task[t].profile)
        /\ UNCHANGED <<taps, loading, tunnelManager, connectionState, wanted>>
    BY <1>2 DEF StopSeen, WaitGivenUp, At, Idle, SwitchInv, AppInv, SavedInv, managerVars, shownVars
  <2>2. /\ taps = <<>> /\ ~ loading /\ NoneUp /\ wanted \in {task[t].profile, NoProfile}
        /\ \A u \in Task \ {t} : Idle(u)
    BY <2>1 DEF SwitchInv, OneRequest, OneTunnel, RequestShape, Resting
  <2> QED BY <2>1, <2>2, SavesKeeps
<1>3. ASSUME NEW t \in Task, SaveAnswered(t)
      PROVE  OneRequest' /\ OneTunnel' /\ RequestShape'
  <2>1. /\ task[t].pc = "saving" /\ Becomes(t, "loading", task[t].profile, task[t].manager)
        /\ UNCHANGED <<taps, loading, tunnelManager, connectionState, saved, session, wanted>>
        /\ task \in [Task -> TaskRecord]
    BY <1>3 DEF SaveAnswered, At, SwitchInv, AppInv, TypeOK, managerVars, shownVars
  <2>2. /\ task'[t] = [pc |-> "loading", profile |-> task[t].profile, manager |-> task[t].manager]
        /\ \A u \in Task \ {t} : task'[u] = task[u]
    BY <2>1 DEF Becomes
  <2>3. ~ Resting /\ ~ Resting' /\ (NoneUp <=> NoneUp')
    BY <2>1, <2>2 DEF Resting, Idle, NoneUp
  <2>4. OneRequest'
    BY <2>1, <2>2 DEF SwitchInv, OneRequest, Idle, At
  <2>5. OneTunnel'
    BY <2>1, <2>3 DEF SwitchInv, OneTunnel
  <2>6. RequestShape'
    BY <2>1, <2>2, <2>3 DEF SwitchInv, RequestShape, isActiveOrTransitioning, Idle, At
  <2> QED BY <2>4, <2>5, <2>6
<1>4. ASSUME NEW t \in Task PROVE ~ NotConfigured(t)
  BY DEF NotConfigured, SwitchInv, OneRequest, Undisturbed
<1> QED BY <1>1, <1>2, <1>3, <1>4, BeginKeeps, ConfiguredKeeps DEF AppJobs

(* A patient user's tap finds everything at rest and the status shown.     *)
LEMMA TapKeeps ==
    ASSUME SwitchInv, Settled, NEW p \in Profile, taps' = Append(taps, p), wanted' = p,
           UNCHANGED <<task, loading, tunnelManager, connectionState, saved, session>>
    PROVE  OneRequest' /\ OneTunnel' /\ RequestShape'
<1>1. taps = <<>> /\ ~ loading /\ \A t \in Task : Idle(t)
  BY DEF Settled
<1>2. taps' = <<p>>
  BY <1>1
<1>3. taps' # <<>> /\ Len(taps') = 1 /\ Head(taps') = p
  BY <1>2
<1>4. NoneUp' \/ isActiveOrTransitioning'
  BY ShownUp DEF SwitchInv, AppInv, ShowsStatus, Settled, NoneUp, isActiveOrTransitioning
<1>5. OneRequest'
  BY <1>1, <1>3 DEF SwitchInv, OneRequest, Idle, At
<1>6. OneTunnel'
  BY <1>1 DEF SwitchInv, OneTunnel
<1>7. RequestShape'
  BY <1>1, <1>3, <1>4 DEF RequestShape, Resting, Idle, At
<1> QED BY <1>5, <1>6, <1>7

LEMMA UserKeeps ==
    ASSUME SwitchInv, Undisturbed, User
    PROVE  OneRequest' /\ OneTunnel' /\ RequestShape'
<1>1. UNCHANGED session => FewerUp
  BY DEF FewerUp
<1>2. ASSUME NEW p \in Profile, ProfileReceived(p) \/ PopupGoes(p)
      PROVE  OneRequest' /\ OneTunnel' /\ RequestShape'
  <2>1. UNCHANGED <<taps, task, loading, tunnelManager, connectionState, saved, session, wanted>>
    BY <1>2 DEF ProfileReceived, PopupGoes, managerVars, shownVars
  <2> QED BY <1>1, <2>1, FewerKeeps DEF SwitchInv
<1>3. ASSUME NEW p \in Profile, handleProfileTap(p)
      PROVE  OneRequest' /\ OneTunnel' /\ RequestShape'
  <2>1. Settled /\ UNCHANGED <<task, loading, tunnelManager, connectionState, saved>>
    BY <1>3 DEF handleProfileTap, MayTap, Undisturbed, managerVars, shownVars
  <2>2. CASE isProfileActive(p) \/ isProfileTransitioning(p)
    <3>1. disconnect /\ wanted' = NoProfile /\ UNCHANGED taps
      BY <1>3, <2>2 DEF handleProfileTap
    <3> QED BY <2>1, <3>1, StoppedUp, FewerKeeps DEF SwitchInv
  <2>3. CASE ~ isProfileActive(p) /\ ~ isProfileTransitioning(p)
    <3>1. taps' = Append(taps, p) /\ wanted' = p /\ UNCHANGED session
      BY <1>3, <2>3 DEF handleProfileTap, connectToProfile
    <3> QED BY <2>1, <3>1, TapKeeps
  <2> QED BY <2>2, <2>3
<1>4. ASSUME NEW p \in Profile, CredentialsSaved(p)
      PROVE  OneRequest' /\ OneTunnel' /\ RequestShape'
  <2>1. /\ Settled /\ taps' = Append(taps, p) /\ wanted' = p
        /\ UNCHANGED <<task, loading, tunnelManager, connectionState, saved, session>>
    BY <1>4 DEF CredentialsSaved, connectToProfile, MayTap, Undisturbed, managerVars, shownVars
  <2> QED BY <2>1, TapKeeps
<1>5. ASSUME NEW p \in Profile, ProfileDeleted(p)
      PROVE  OneRequest' /\ OneTunnel' /\ RequestShape'
  <2>1. /\ wanted' \in {wanted, NoProfile}
        /\ UNCHANGED <<taps, task, loading, tunnelManager, connectionState, saved>>
    BY <1>5 DEF ProfileDeleted, taskVars, managerVars, shownVars
  <2>2. disconnect \/ UNCHANGED session
    BY <1>5 DEF ProfileDeleted
  <2> QED BY <1>1, <2>1, <2>2, StoppedUp, FewerKeeps DEF SwitchInv
<1>6. ~ Relaunch
  BY DEF Relaunch, Undisturbed
<1> QED BY <1>2, <1>3, <1>4, <1>5, <1>6 DEF User

LEMMA SystemKeeps ==
    ASSUME SwitchInv, System
    PROVE  OneRequest' /\ OneTunnel' /\ RequestShape'
<1>1. CASE LoadsNothing
  <2>1. /\ ~ loading'
        /\ UNCHANGED <<taps, task, tunnelManager, connectionState, saved, session, wanted>>
    BY <1>1 DEF LoadsNothing, taskVars, shownVars
  <2>2. OneRequest' /\ OneTunnel'
    BY <2>1 DEF SwitchInv, OneRequest, OneTunnel, Idle, At
  <2>3. RequestShape'
    BY <2>1 DEF SwitchInv, RequestShape, Resting, NoneUp, isActiveOrTransitioning, Idle, At
  <2> QED BY <2>2, <2>3
<1>2. ASSUME NEW m \in Manager PROVE ~ LoadsExisting(m)
  BY DEF LoadsExisting, SwitchInv, OneTunnel
<1>3. ASSUME NEW m \in Manager, NEW from \in SUBSET Status, NEW to \in Status, SystemStep(m, from, to),
             to \in Up => from \subseteq Up, to # "disconnected" \/ to \notin Up
      PROVE  OneRequest' /\ OneTunnel' /\ RequestShape'
  <2>1. /\ session[m].status \in from
        /\ session' = [session EXCEPT ![m] =
               [status |-> to, profile |-> IF to = "disconnected" THEN NoProfile ELSE session[m].profile]]
        /\ UNCHANGED <<taps, task, loading, tunnelManager, connectionState, saved, wanted>>
        /\ session \in [Manager -> Session]
    BY <1>3 DEF SystemStep, SystemSets, taskVars, managerVars, shownVars, SwitchInv, AppInv, TypeOK
  <2>2. FewerUp
    BY <1>3, <2>1 DEF FewerUp
  <2> QED BY <2>1, <2>2, FewerKeeps DEF SwitchInv
<1>4. ASSUME NEW m \in Manager,
             TunnelComesUp(m) \/ TunnelReasserts(m) \/ TunnelFails(m) \/ TunnelStops(m)
      PROVE  OneRequest' /\ OneTunnel' /\ RequestShape'
  BY <1>3, <1>4 DEF TunnelComesUp, TunnelReasserts, TunnelFails, TunnelStops, Up, Status
<1>5. ASSUME StatsPoll \/ \E p \in Profile : LookupAnswers(p)
      PROVE  OneRequest' /\ OneTunnel' /\ RequestShape'
  <2>1. UNCHANGED <<taps, task, loading, tunnelManager, connectionState, saved, session, wanted>>
    BY <1>5 DEF StatsPoll, LookupAnswers, taskVars, managerVars
  <2> QED BY <2>1, FewerKeeps DEF SwitchInv, FewerUp
<1> QED BY <1>1, <1>2, <1>4, <1>5 DEF System

(* A user who waits for each tap to take effect is never connected with a  *)
(* profile other than the one chosen last: a task stops the only tunnel    *)
(* that is up before it saves, and starts what it saved.  It is false of   *)
(* hasty taps, of refused saves (connect() then starts the old profile)    *)
(* and of an app that is launched again in the middle of a switch.         *)
THEOREM SwitchCorrect ==
    ASSUME Undisturbed
    PROVE  Spec => []SwitchReconnects
<1>1. Init => SwitchInv
  <2> SUFFICES ASSUME Init PROVE SwitchInv
    OBVIOUS
  <2>1. /\ taps = <<>> /\ tunnelManager = NoManager /\ wanted = NoProfile
        /\ \A t \in Task : task[t].pc = "idle"
        /\ \A m \in Manager : saved[m] = NoProfile /\ session[m].status \notin Up
    BY DEF Init, NoTask, Down, Up
  <2> QED BY <2>1, InitInv
      DEF SwitchInv, OneRequest, OneTunnel, RequestShape, Resting, NoneUp, Idle, At
<1>2. SwitchInv /\ AppInv' /\ [Next]_vars => SwitchInv'
  <2> SUFFICES ASSUME SwitchInv, AppInv', [Next]_vars PROVE SwitchInv'
    OBVIOUS
  <2>1. CASE UNCHANGED vars
    <3>1. UNCHANGED <<taps, task, loading, tunnelManager, connectionState, saved, session, wanted>>
      BY <2>1 DEF vars, taskVars, managerVars, shownVars
    <3> QED BY <3>1, FewerKeeps DEF SwitchInv, FewerUp
  <2>2. CASE Next
    BY <2>2, AppJobsKeep, UserKeeps, SystemKeeps DEF Next, SwitchInv
  <2> QED BY <2>1, <2>2
<1>3. SwitchInv => SwitchReconnects
  <2> SUFFICES ASSUME SwitchInv, Settled, wanted # NoProfile, tunnelManager # NoManager,
                      connectionState = "connected"
               PROVE  session[tunnelManager].profile = wanted
    BY DEF SwitchReconnects
  <2>1. tunnelManager \in Manager /\ session[tunnelManager].status = "connected"
    BY DEF SwitchInv, AppInv, TypeOK, ShowsStatus, Settled
  <2> QED BY <2>1 DEF SwitchInv, RequestShape, Resting, Settled, Up
<1> QED BY <1>1, <1>2, <1>3, AppAlways, PTL DEF Spec
================================================================================
