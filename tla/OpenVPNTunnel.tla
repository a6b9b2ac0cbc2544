------------------------------ MODULE OpenVPNTunnel ------------------------------
(***************************************************************************)
(* The OpenVPN side of the packet tunnel extension: startTunnel,           *)
(* stopTunnel and the adapter's delegate in PacketTunnelProvider.swift,    *)
(* OpenVPNAdapterImpl.mm between them and the OpenVPN3 client, and of the  *)
(* client what starts, restarts and ends it (ovpncli.cpp, cliconnect.hpp). *)
(*                                                                         *)
(* Each start has an adapter of its own, whose client runs on a thread of  *)
(* its own: an I/O loop that calls the provider's delegate and that blocks *)
(* while the system installs network settings.  What that thread still has *)
(* to do of a handler is the sequence todo.  The start's 60 s timer runs   *)
(* on a global queue, beside the client's thread.                          *)
(*                                                                         *)
(* The system (external) installs settings in the order it was asked, and  *)
(* may refuse.  The server and the network are the choice between the      *)
(* client's handlers.                                                      *)
(***************************************************************************)
EXTENDS Integers, Sequences

CONSTANTS
    Starts,      \* bound: calls of startTunnel in the life of the process
    Generations, \* bound: client sessions each adapter goes through
    Faults       \* "early restart": the system may start the provider again
                 \* while an earlier client still runs

ASSUME StartsAssumption == Starts \in Nat \ {0}
ASSUME GenerationsAssumption == Generations \in [1..Starts -> Nat \ {0}]

VARIABLES
    openVPNAdapter,           \* the start whose adapter is in the property, or None
    openVPNStartCompletion,   \* the start whose completion is stored, or None
    reasserting,              \* NEProvider.reasserting
    start,                    \* what each call of startTunnel has come to
    client,                   \* the client of each adapter
    requests,                 \* setTunnelNetworkSettings calls the system has not answered
    settings,                 \* the start whose settings are installed, or None
    stopped,                  \* history: starts that stopTunnel was called for
    refused,                  \* history: the removal of what is installed was refused
    crashed                   \* a continuation was resumed twice: the process is gone

providerVars == <<openVPNAdapter, openVPNStartCompletion, reasserting>>
systemVars == <<requests, settings, refused>>
vars == <<providerVars, start, client, systemVars, stopped, crashed>>

Start == 1..Starts
None == 0

(* outcome: what startTunnel has returned or thrown; timer "due" between   *)
(* its guard and its assignment of hasResumed.                             *)
StartRecord == [outcome : {"none", "pending", "ok", "failed"}, hasResumed : BOOLEAN,
                timer : {"off", "armed", "due"}]

(* "created": not connected; "setup": in connect_setup, where stop() does  *)
(* nothing; "trying": a session without a tunnel; "waiting": for the next  *)
(* session.  "fail" and "connected" stand for the events that answer the   *)
(* start, "resume ..." and "forget" for the rest of the delegate's handler.*)
Op == {"reset", "configure", "await reset", "await configure", "connected", "fail",
       "resume ok", "resume failed", "forget"}
ClientRecord == [pc : {"none", "created", "setup", "trying", "waiting", "connected", "ended"},
                 todo : Seq(Op), reply : {"none", "ok", "error"}, stopPosted : BOOLEAN,
                 answers : Start \cup {None},  \* the completion its handler has called
                 connTimer : BOOLEAN, generation : Nat]

Request == [from : Start, set : BOOLEAN, awaited : BOOLEAN]

(* Also: the connection timeout runs only while the client tries            *)
(* (conn_timer_start, client_proto_connected, cancel_timers).               *)
TypeOK ==
    /\ openVPNAdapter \in Start \cup {None}
    /\ openVPNStartCompletion \in Start \cup {None}
    /\ reasserting \in BOOLEAN
    /\ start \in [Start -> StartRecord]
    /\ client \in [Start -> ClientRecord]
    /\ \A s \in Start : client[s].connTimer => client[s].pc \in {"trying", "waiting"}
    /\ requests \in Seq(Request)
    /\ settings \in Start \cup {None}
    /\ stopped \subseteq Start
    /\ refused \in BOOLEAN
    /\ crashed \in BOOLEAN

Init ==
    /\ openVPNAdapter = None
    /\ openVPNStartCompletion = None
    /\ reasserting = FALSE
    /\ start = [s \in Start |-> [outcome |-> "none", hasResumed |-> FALSE, timer |-> "off"]]
    /\ client = [s \in Start |-> [pc |-> "none", todo |-> <<>>, reply |-> "none",
                                  answers |-> None, stopPosted |-> FALSE, connTimer |-> FALSE, generation |-> 0]]
    /\ requests = <<>>
    /\ settings = None
    /\ stopped = {}
    /\ refused = FALSE
    /\ crashed = FALSE

-----------------------------------------------------------------------------
(* The system's calls.                                                     *)

Ended(s) == client[s].pc \in {"none", "created", "ended"} /\ client[s].todo = <<>>
Over(s) == start[s].outcome = "failed" \/ (start[s].outcome = "ok" /\ s \in stopped)

(* attemptOpenVPNConnection up to apply: createOpenVPNAdapter replaces the *)
(* adapter of the start before.                                            *)
StartTunnel(s) ==
    /\ ~crashed
    /\ start[s].outcome = "none"
    /\ \A e \in 1..s-1 : Over(e) /\ (Ended(e) \/ "early restart" \in Faults)
    /\ openVPNAdapter' = s
    /\ start' = [start EXCEPT ![s].outcome = "pending"]
    /\ client' = [client EXCEPT ![s].pc = "created"]
    /\ UNCHANGED <<openVPNStartCompletion, reasserting, systemVars, stopped, crashed>>

(* The configuration or the credentials do not apply: startTunnel throws.  *)
ApplyFails(s) ==
    /\ ~crashed
    /\ client[s].pc = "created"
    /\ start[s].outcome = "pending"
    /\ start' = [start EXCEPT ![s].outcome = "failed"]
    /\ UNCHANGED <<providerVars, client, systemVars, stopped, crashed>>

(* Mutant: no timer beside the client's own connection timeout.            *)
MutNoTimer(s) ==
    /\ ~crashed
    /\ client[s].pc = "created"
    /\ start[s].outcome = "pending"
    /\ openVPNStartCompletion' = s
    /\ client' = [client EXCEPT ![s].pc = "setup"]
    /\ UNCHANGED <<openVPNAdapter, reasserting, start, systemVars, stopped, crashed>>

Connect(s) ==
    /\ ~crashed
    /\ client[s].pc = "created"
    /\ start[s].outcome = "pending"
    /\ openVPNStartCompletion' = s
    /\ client' = [client EXCEPT ![s].pc = "setup"]
    /\ start' = [start EXCEPT ![s].timer = "armed"]
    /\ UNCHANGED <<openVPNAdapter, reasserting, systemVars, stopped, crashed>>

(* OpenVPNClient::stop: posts graceful_stop to the client's loop, and only *)
(* if enable_foreign_thread_access has run.                                *)
HearsStop(s) == client[s].pc \notin {"none", "created", "setup"}

(* stopTunnel, of a session that starts or has started; it returns without *)
(* waiting for the client.                                                 *)
StopTunnel ==
    /\ ~crashed
    /\ openVPNAdapter # None
    /\ start[openVPNAdapter].outcome # "failed"
    /\ openVPNAdapter \notin stopped
    /\ stopped' = stopped \cup {openVPNAdapter}
    /\ client' = [client EXCEPT ![openVPNAdapter].stopPosted = @ \/ HearsStop(openVPNAdapter)]
    /\ UNCHANGED <<providerVars, start, systemVars, crashed>>

-----------------------------------------------------------------------------
(* The continuation of attemptOpenVPNConnection: hasResumed is read in one *)
(* step and written, with the continuation resumed, in another.            *)

Resumed(s, outcome) ==
    [start[s] EXCEPT !.hasResumed = TRUE,
                     !.outcome = IF @ = "pending" THEN outcome ELSE @]

TimerFires(s) ==
    /\ ~crashed
    /\ start[s].timer = "armed"
    /\ start' = [start EXCEPT ![s].timer = IF start[s].hasResumed THEN "off" ELSE "due"]
    /\ UNCHANGED <<providerVars, client, systemVars, stopped, crashed>>

(* Resuming a CheckedContinuation twice is a fatal error of the runtime.   *)
TimerResumes(s) ==
    /\ ~crashed
    /\ start[s].timer = "due"
    /\ start' = [start EXCEPT ![s] = [Resumed(s, "failed") EXCEPT !.timer = "off"]]
    /\ crashed' = (start[s].outcome # "pending")
    /\ UNCHANGED <<providerVars, client, systemVars, stopped>>

-----------------------------------------------------------------------------
(* The rest of a handler on the client's thread, one operation at a time.  *)

AtOp(s, op) == ~crashed /\ client[s].todo # <<>> /\ Head(client[s].todo) = op

Then(s, ops) == [client[s] EXCEPT !.todo = ops \o Tail(@), !.reply = "none"]

(* setTunnelNetworkSettings, with the semaphore the thread then waits on.  *)
Ask(s, set, await) ==
    /\ requests' = Append(requests, [from |-> s, set |-> set, awaited |-> TRUE])
    /\ client' = [client EXCEPT ![s] = Then(s, <<await>>)]
    /\ UNCHANGED <<providerVars, start, settings, refused, stopped, crashed>>

ResetTun(s) == AtOp(s, "reset") /\ Ask(s, FALSE, "await reset")
Configure(s) == AtOp(s, "configure") /\ Ask(s, TRUE, "await configure")

(* A refused removal is reported as a fatal error; the client goes on.     *)
ResetAnswered(s) ==
    /\ AtOp(s, "await reset")
    /\ client[s].reply # "none"
    /\ client' = [client EXCEPT ![s] = Then(s, IF client[s].reply = "ok" THEN <<>> ELSE <<"fail">>)]
    /\ UNCHANGED <<providerVars, start, systemVars, stopped, crashed>>

(* Mutant: only a tunnel that was established is torn down.                *)
MutNoTeardown(s) ==
    [client[s] EXCEPT !.pc = "ended", !.connTimer = FALSE, !.reply = "none",
                     !.todo = <<"fail">> \o Tail(@)]

(* No tunnel: errors, then the event DISCONNECTED, and the tunnel object   *)
(* is torn down last.                                                      *)
NotEstablished(s) ==
    [client[s] EXCEPT !.pc = "ended", !.connTimer = FALSE, !.reply = "none",
                     !.todo = <<"fail", "reset">> \o Tail(@)]

Established(s) ==
    /\ AtOp(s, "await configure")
    /\ client[s].reply = "ok"
    /\ client' = [client EXCEPT ![s] = [Then(s, <<"connected">>) EXCEPT !.pc = "connected",
                                                                        !.connTimer = FALSE]]
    /\ UNCHANGED <<providerVars, start, systemVars, stopped, crashed>>

(* Refused settings, or sockets that could not be made.                    *)
EstablishFails(s) ==
    /\ AtOp(s, "await configure")
    /\ client[s].reply # "none"
    /\ client' = [client EXCEPT ![s] = NotEstablished(s)]
    /\ UNCHANGED <<providerVars, start, systemVars, stopped, crashed>>

(* TUNNEL_CONFIGURATION_TIMEOUT: the answer, when it comes, is for nobody. *)
Unawaited(s) ==
    [i \in DOMAIN requests |->
        IF requests[i].from = s THEN [requests[i] EXCEPT !.awaited = FALSE] ELSE requests[i]]

(* Mutant: the thread waits for the removal without a time limit.          *)
MutNoTimeLimit(s) == FALSE

ResetTimesOut(s) ==
    /\ AtOp(s, "await reset")
    /\ client[s].reply = "none"
    /\ requests' = Unawaited(s)
    /\ client' = [client EXCEPT ![s] = Then(s, <<>>)]
    /\ UNCHANGED <<providerVars, start, settings, refused, stopped, crashed>>

(* Mutant: the result of the semaphore's wait is not looked at.            *)
MutTimeoutIgnored(s) ==
    /\ AtOp(s, "await configure")
    /\ client[s].reply = "none"
    /\ requests' = Unawaited(s)
    /\ client' = [client EXCEPT ![s] = [Then(s, <<"connected">>) EXCEPT !.pc = "connected",
                                                                        !.connTimer = FALSE]]
    /\ UNCHANGED <<providerVars, start, settings, refused, stopped, crashed>>

ConfigureTimesOut(s) ==
    /\ AtOp(s, "await configure")
    /\ client[s].reply = "none"
    /\ requests' = Unawaited(s)
    /\ client' = [client EXCEPT ![s] = NotEstablished(s)]
    /\ UNCHANGED <<providerVars, start, settings, refused, stopped, crashed>>

(* openVPNStartCompletion?(...): the stored closure and its guard.         *)
CallCompletion(s, resume) ==
    LET c == openVPNStartCompletion IN
    client' = [client EXCEPT ![s] =
        IF c # None /\ ~start[c].hasResumed
          THEN [Then(s, <<resume, "forget">>) EXCEPT !.answers = c]
          ELSE Then(s, <<"forget">>)]

(* Mutant: reasserting is cleared with the answer to the start only.       *)
MutStillReasserting(s) ==
    /\ AtOp(s, "connected")
    /\ reasserting' = (reasserting /\ openVPNStartCompletion = None)
    /\ CallCompletion(s, "resume ok")
    /\ UNCHANGED <<openVPNAdapter, openVPNStartCompletion, start, systemVars, stopped, crashed>>

EventConnected(s) ==
    /\ AtOp(s, "connected")
    /\ reasserting' = FALSE
    /\ CallCompletion(s, "resume ok")
    /\ UNCHANGED <<openVPNAdapter, openVPNStartCompletion, start, systemVars, stopped, crashed>>

(* The event DISCONNECTED, or an error that is fatal.                      *)
EventFails(s) ==
    /\ AtOp(s, "fail")
    /\ CallCompletion(s, "resume failed")
    /\ UNCHANGED <<providerVars, start, systemVars, stopped, crashed>>

CompletionResumes(s) ==
    \E outcome \in {"ok", "failed"} :
        /\ AtOp(s, IF outcome = "ok" THEN "resume ok" ELSE "resume failed")
        /\ start' = [start EXCEPT ![client[s].answers] = Resumed(client[s].answers, outcome)]
        /\ crashed' = (start[client[s].answers].outcome # "pending")
        /\ client' = [client EXCEPT ![s] = Then(s, <<>>)]
        /\ UNCHANGED <<providerVars, systemVars, stopped>>

ForgetsCompletion(s) ==
    /\ AtOp(s, "forget")
    /\ openVPNStartCompletion' = None
    /\ client' = [client EXCEPT ![s] = [Then(s, <<>>) EXCEPT !.answers = None]]
    /\ UNCHANGED <<openVPNAdapter, reasserting, start, systemVars, stopped, crashed>>

-----------------------------------------------------------------------------
(* The handlers of the client's loop.                                      *)

AtLoop(s, pcs) == ~crashed /\ client[s].todo = <<>> /\ client[s].pc \in pcs

Handles(s, pc, todo) ==
    /\ client' = [client EXCEPT ![s].pc = pc, ![s].todo = todo,
                                ![s].connTimer = @ /\ pc # "ended"]
    /\ UNCHANGED <<providerVars, start, systemVars, stopped, crashed>>

(* connect_setup throws: connect returns an error status, which is fatal.  *)
SetupFails(s) == AtLoop(s, {"setup"}) /\ Handles(s, "ended", <<"fail">>)

(* new_client: conn_timer_start keeps a pending timer.                     *)
SetupDone(s) ==
    /\ AtLoop(s, {"setup"})
    /\ client' = [client EXCEPT ![s].pc = "trying", ![s].generation = 1, ![s].connTimer = TRUE]
    /\ UNCHANGED <<providerVars, start, systemVars, stopped, crashed>>

(* Again new_client: restart_wait_callback, or server_poll_callback while  *)
(* nothing has come from the server; the event RECONNECTING.               *)
NewClient(s) ==
    /\ AtLoop(s, {"trying", "waiting"})
    /\ client[s].generation < Generations[s]
    /\ client' = [client EXCEPT ![s].pc = "trying", ![s].generation = @ + 1,
                                ![s].connTimer = TRUE]
    /\ reasserting' = TRUE
    /\ UNCHANGED <<openVPNAdapter, openVPNStartCompletion, start, systemVars, stopped, crashed>>

(* client_proto_terminate without a fatal error: queue_restart, and the    *)
(* session's tunnel is torn down.                                          *)
Terminates(s) ==
    \/ AtLoop(s, {"trying"}) /\ Handles(s, "waiting", <<>>)
    \/ AtLoop(s, {"connected"}) /\ Handles(s, "waiting", <<"reset">>)

(* client_proto_terminate with an error that is not retried.               *)
TerminatesFatally(s) ==
    \/ AtLoop(s, {"trying"}) /\ Handles(s, "ended", <<"fail">>)
    \/ AtLoop(s, {"connected"}) /\ Handles(s, "ended", <<"fail", "reset">>)

(* tun_start, on the server's PUSH_REPLY.                                  *)
PushReply(s) == AtLoop(s, {"trying"}) /\ Handles(s, "trying", <<"reset", "configure">>)

ConnTimeout(s) ==
    /\ client[s].connTimer
    /\ AtLoop(s, {"trying", "waiting"})
    /\ Handles(s, "ended", <<"fail">>)

(* ClientConnect::stop: the tunnel is torn down before DISCONNECTED.       *)
GracefulStop(s) ==
    /\ client[s].stopPosted
    /\ \/ AtLoop(s, {"trying", "waiting"}) /\ Handles(s, "ended", <<"fail">>)
       \/ AtLoop(s, {"connected"}) /\ Handles(s, "ended", <<"reset", "fail">>)

-----------------------------------------------------------------------------
(* The system answers the oldest request.                                  *)

Answers(reply) ==
    LET r == Head(requests) IN
    /\ ~crashed
    /\ requests # <<>>
    /\ requests' = Tail(requests)
    /\ client' = [client EXCEPT ![r.from].reply = IF r.awaited THEN reply ELSE @]
    /\ UNCHANGED <<providerVars, start, stopped, crashed>>

Installs ==
    /\ Answers("ok")
    /\ settings' = IF Head(requests).set THEN Head(requests).from ELSE None
    /\ refused' = FALSE

Refuses ==
    /\ Answers("error")
    /\ refused' = (refused \/ ~Head(requests).set)
    /\ UNCHANGED settings

-----------------------------------------------------------------------------
ProviderStep(s) == ApplyFails(s) \/ Connect(s)
TimerStep(s) == TimerFires(s) \/ TimerResumes(s)
SetupStep(s) == SetupFails(s) \/ SetupDone(s)
HandlerStep(s) ==
    \/ ResetTun(s) \/ ResetAnswered(s) \/ ResetTimesOut(s)
    \/ Configure(s) \/ Established(s) \/ EstablishFails(s) \/ ConfigureTimesOut(s)
    \/ EventConnected(s) \/ EventFails(s) \/ CompletionResumes(s) \/ ForgetsCompletion(s)
LoopStep(s) ==
    \/ NewClient(s) \/ Terminates(s) \/ TerminatesFatally(s) \/ PushReply(s)
    \/ ConnTimeout(s) \/ GracefulStop(s)

Next ==
    \/ \E s \in Start : StartTunnel(s) \/ ProviderStep(s) \/ TimerStep(s) \/ SetupStep(s)
                          \/ HandlerStep(s) \/ LoopStep(s)
    \/ StopTunnel
    \/ Installs
    \/ Refuses

Spec == Init /\ [][Next]_vars

(* The code's own threads go on: startTunnel, the timer, straight-line     *)
(* code, the rest of a handler with its waits of at most 30 s, and a       *)
(* handler posted to a loop that is first in, first out.  Nothing is       *)
(* assumed of the system, the server or the user, nor of the connection    *)
(* timeout, which the server puts off with AUTH_PENDING.                   *)
Fairness ==
    \A s \in Start :
        /\ WF_vars(ProviderStep(s))
        /\ WF_vars(TimerStep(s))
        /\ WF_vars(SetupStep(s))
        /\ WF_vars(HandlerStep(s))
        /\ SF_vars(GracefulStop(s))

FairSpec == Spec /\ Fairness

-----------------------------------------------------------------------------
(* A start succeeds only with the tunnel of its own adapter: its settings  *)
(* are the installed ones and its client is connected, whatever the        *)
(* semaphores' time limits and the answers that come after them have done  *)
(* (establishTunnel, handleEvent).                                         *)
SuccessHasTunnel ==
    [][\A s \in Start :
          start[s].outcome = "pending" /\ start'[s].outcome = "ok"
            => settings = s /\ client[s].pc = "connected"]_vars

(* A client that has ended leaves no settings installed, on every path     *)
(* that ends it, once the system has answered: the tunnel object's         *)
(* teardown removes them unless the system refuses.                        *)
NothingLeftInstalled ==
    \A s \in Start :
        /\ Ended(s)
        /\ \A i \in DOMAIN requests : requests[i].from # s
        /\ ~refused
        => settings # s

(* A tunnel that works is not shown as reasserting, neither after it has   *)
(* come back nor in a start after one that failed while reconnecting       *)
(* (handleEvent).                                                          *)
ReassertingIsOver ==
    \A s \in Start : AtLoop(s, {"connected"}) => ~reasserting

(* Every start is answered, even if the system never answers, the server   *)
(* never does or keeps the connection timeout away: the 60 s timer of      *)
(* attemptOpenVPNConnection.                                               *)
StartAnswered ==
    \A s \in Start : start[s].outcome = "pending" ~> (start[s].outcome # "pending" \/ crashed)

(* A stop that the client's loop has taken ends the client, also when it   *)
(* arrives while the thread waits for the system (stop, graceful_stop).    *)
StopEnds ==
    \A s \in Start : client[s].stopPosted ~> (Ended(s) \/ crashed)

(* The timer and the completion answer a start once between them: what     *)
(* hasResumed is for.                                                      *)
ResumedOnce == ~crashed
================================================================================
