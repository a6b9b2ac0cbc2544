-------------------------------- MODULE SpeedTest --------------------------------
(***************************************************************************)
(* The speed test, SpeedTestManager.swift, on the main actor: a test is a  *)
(* task that gives the actor up while it waits for the network.  startTest *)
(* and cancel do not wait for the task they cancel, and a request that is  *)
(* cancelled may answer, throw CancellationError at its next check or      *)
(* throw the URL error of a cancelled request.  Figures are left out.      *)
(***************************************************************************)
EXTENDS FiniteSets

CONSTANTS
    Test,   \* bound: tasks alive at the same time
    NoTest

ASSUME NoTestAssumption == NoTest \notin Test

VARIABLES
    at,         \* what each task awaits
    cancelled,  \* the tasks that were cancelled
    testTask,
    testState

testVars == <<at, cancelled, testTask, testState>>

Phases == {"latency", "download", "upload"}
IsRunning == testState \in Phases
Alive(t) == at[t] # "none"

TestInit ==
    /\ at = [t \in Test |-> "none"]
    /\ cancelled = {}
    /\ testTask = NoTest
    /\ testState = "idle"

Cancelled == IF testTask = NoTest THEN cancelled ELSE cancelled \cup {testTask}

(* The button of the interface starts a test or cancels the one running.   *)
StartTest == \E t \in Test :
    /\ ~ IsRunning /\ ~ Alive(t)
    /\ at' = [at EXCEPT ![t] = "created"]
    /\ testTask' = t
    /\ cancelled' = Cancelled \ {t}
    /\ UNCHANGED testState

(* cancel; and reset, when a profile is tapped, at any time                *)
Cancel ==
    /\ cancelled' = Cancelled
    /\ testTask' = NoTest
    /\ testState' = "idle"
    /\ UNCHANGED at

Ends(t, s) ==
    /\ at' = [at EXCEPT ![t] = "none"]
    /\ testState' = s
    /\ UNCHANGED <<cancelled, testTask>>

Awaits(t, phase) ==
    /\ at' = [at EXCEPT ![t] = phase]
    /\ testState' = phase
    /\ UNCHANGED <<cancelled, testTask>>

(* The task begins; measureLatency checks for cancellation first.          *)
Begin(t) ==
    /\ at[t] = "created"
    /\ IF t \in cancelled THEN Ends(t, "idle") ELSE Awaits(t, "latency")

(* Defects: a phase that is begun without the check, an error that is only *)
(* logged.                                                                 *)
MutUnchecked(t, phase) == Awaits(t, phase)
MutErrorLogged(t) ==
    /\ at[t] \in Phases
    /\ Ends(t, testState)

(* The phase before is over: the next one, or a return if cancelled.       *)
GoesOn(t, phase) == IF t \in cancelled THEN Ends(t, testState) ELSE Awaits(t, phase)

Measured(t) ==
    \/ at[t] = "latency" /\ GoesOn(t, "download")
    \/ at[t] = "download" /\ GoesOn(t, "upload")
    \/ at[t] = "upload" /\ Ends(t, "done")

ThrowsCancellation(t) == at[t] \in Phases /\ t \in cancelled /\ Ends(t, "idle")

(* A request fails, times out or ends because it was cancelled.            *)
RequestFails(t) ==
    /\ at[t] \in Phases
    /\ Ends(t, "error")

TaskStep(t) == Begin(t) \/ Measured(t) \/ ThrowsCancellation(t) \/ RequestFails(t)

TestNext == StartTest \/ Cancel \/ \E t \in Test : TaskStep(t)

(* The main actor runs what is ready, and every request has a time-out.    *)
TestFairness == \A t \in Test : WF_testVars(TaskStep(t))

--------------------------------------------------------------------------------
(* While the interface shows a test running, the current task measures,    *)
(* and what is shown is what it does: no cancelled task that resumes late  *)
(* can start a phase (the checks of Task.isCancelled in startTest).  What  *)
(* such a task may still do is end the test shown, as idle, done or error. *)
RunningIsMeasured ==
    IsRunning => /\ testTask # NoTest /\ testTask \notin cancelled
                 /\ at[testTask] = testState

(* A test that is shown running does not stay so: it is done, fails or is  *)
(* cancelled (the catch clauses of startTest).                             *)
TestEnds == IsRunning ~> ~ IsRunning
================================================================================
