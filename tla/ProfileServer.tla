------------------------------ MODULE ProfileServer ------------------------------
(***************************************************************************)
(* The server that receives profiles, ProfileServer.swift: its listeners   *)
(* and what the interface is told of them.  Each state of a listener is    *)
(* handled by a task of its own on the main actor, which runs after        *)
(* whatever start and stop have done meanwhile; isRunning and localURL are *)
(* assigned together, and isRunning stands for both.  A listener is        *)
(* external: the framework keeps it until it is cancelled, and one at a    *)
(* time has the port.                                                      *)
(***************************************************************************)
EXTENDS Sequences

CONSTANTS
    Listener,   \* bound: NWListeners alive at the same time
    NoListener

ASSUME NoListenerAssumption == NoListener \notin Listener

VARIABLES
    listening,  \* the state of each listener
    handlers,   \* the tasks its stateUpdateHandler has created
    listener,   \* the one the server knows
    isRunning

serverVars == <<listening, handlers, listener, isRunning>>

ServerInit ==
    /\ listening = [l \in Listener |-> "none"]
    /\ handlers = [l \in Listener |-> << >>]
    /\ listener = NoListener
    /\ isRunning = FALSE

(* The listener l enters state s and tells its handler.                    *)
Enters(l, s) ==
    /\ listening' = [listening EXCEPT ![l] = s]
    /\ handlers' = [handlers EXCEPT ![l] = Append(@, s)]

Free(l) == listening[l] \in {"none", "cancelled"} /\ handlers[l] = << >>

(* When the app appears, and each time it becomes active.                  *)
Start == \E l \in Listener :
    /\ ~ isRunning /\ Free(l)
    /\ listener' = l
    /\ listening' = [listening EXCEPT ![l] = "starting"]
    /\ UNCHANGED <<handlers, isRunning>>

(* When the app becomes inactive.                                          *)
Stop ==
    /\ IF listener = NoListener THEN UNCHANGED <<listening, handlers>>
                                ELSE Enters(listener, "cancelled")
    /\ listener' = NoListener
    /\ isRunning' = FALSE

BecomesReady(l) ==
    /\ listening[l] = "starting"
    /\ \A other \in Listener : listening[other] # "ready"
    /\ Enters(l, "ready")
    /\ UNCHANGED <<listener, isRunning>>

ListenerFails(l) ==
    /\ listening[l] \in {"starting", "ready"}
    /\ Enters(l, "failed")
    /\ UNCHANGED <<listener, isRunning>>

(* What isRunning is after a listener's state s.  Defect: a cancellation   *)
(* that is left to stop().                                                 *)
MutCancelledIgnored(s) == IF s = "cancelled" THEN isRunning ELSE s = "ready"
ShownAfter(s) == s = "ready"

HandlerTask(l) ==
    /\ handlers[l] # << >>
    /\ isRunning' = ShownAfter(Head(handlers[l]))
    /\ handlers' = [handlers EXCEPT ![l] = Tail(@)]
    /\ UNCHANGED <<listening, listener>>

ServerNext ==
    \/ Start \/ Stop
    \/ \E l \in Listener : BecomesReady(l) \/ ListenerFails(l) \/ HandlerTask(l)

--------------------------------------------------------------------------------
(* When all handlers have run, an address is only shown while a listener   *)
(* is there to answer: a ready task that outlives a stop is followed by    *)
(* the listener's cancelled task (the stateUpdateHandler of start).  The   *)
(* reverse does not hold: a late cancelled task of a stopped listener      *)
(* takes the address of the next one off the screen.                       *)
ShownServerListens ==
    isRunning /\ (\A l \in Listener : handlers[l] = << >>) =>
        \E l \in Listener : listening[l] = "ready"
================================================================================
