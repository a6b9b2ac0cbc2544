------------------------------ MODULE ClientConnect ------------------------------
(***************************************************************************)
(* The reconnection of an OpenVPN client: ClientConnect of                 *)
(* openvpn/client/cliconnect.hpp, over the entries of RemoteList, with the *)
(* part of ClientProto::Session and of the UDP transport it talks to.      *)
(*                                                                         *)
(* One thread runs the io_context.  A timer that has expired and a command *)
(* posted by another thread wait in its queue for their turn, where        *)
(* cancelling the timer no longer reaches them.  generation is compared    *)
(* for equality only: a queued handler knows whether its generation is     *)
(* still the present one.  Packets, connections and answers of the         *)
(* resolver come in a turn of their own, in any order.  Left out: relay,   *)
(* dont_restart, proxies, and finalize of the tun factory.                 *)
(***************************************************************************)
EXTENDS RemoteList

CONSTANTS
    Commands,     \* what other threads post: "stop", "pause", "resume", "reconnect"
    MaxPosts,     \* bound: commands are posted while the queue is shorter
    ConnTimeout   \* conn_timeout > 0

ASSUME CommandsAssumption == Commands \subseteq {"stop", "pause", "resume", "reconnect"}
ASSUME BoundsAssumption == MaxPosts \in Nat /\ ConnTimeout \in BOOLEAN

VARIABLES
    started,      \* generation > 0
    halt,
    paused,
    client,       \* the Session: see Client
    armed,        \* the timers that are waiting: restart_wait, server_poll, conn
    connPending,  \* conn_timer_pending
    ready,        \* the queue of the io_context
    row           \* history: the sessions one after the other on one entry, none connected

connVars == <<started, halt, paused, client, armed, connPending, ready, row>>
vars == <<listVars, connVars>>

Timer == {"restart", "poll", "conn"}
Handler == [what : Timer \cup Commands, current : BOOLEAN]

(* at: not made yet, resolving its host, in touch with an address, halted. *)
(* heard: first_packet_received, reached: reached_connected_state.         *)
Client == [at : {"none", "resolving", "trying", "ended"}, heard : BOOLEAN, reached : BOOLEAN]
NoClient == [at |-> "none", heard |-> FALSE, reached |-> FALSE]

MostAddresses(line) ==
    LET lengths == {Len(a) : a \in Answers[Remotes[line]]}
    IN  CHOOSE n \in lengths : \A k \in lengths : k <= n

ConnTypeOK ==
    /\ {started, halt, paused, connPending} \subseteq BOOLEAN
    /\ client \in Client
    /\ armed \subseteq Timer
    /\ ready \in Seq(Handler)
    /\ row \in [line : DOMAIN Remotes, length : Nat]

(* Every variable has its type; the index leads to an entry of the list    *)
(* also while entries are pruned and forgotten.                            *)
TypeOK == ListTypeOK /\ ConnTypeOK

Init ==
    /\ ListInit
    /\ started = FALSE /\ halt = FALSE /\ paused = FALSE /\ connPending = FALSE
    /\ client = NoClient
    /\ armed = {} /\ ready = << >>
    /\ row = [line |-> 1, length |-> 0]

--------------------------------------------------------------------------------
Live == client.at \in {"resolving", "trying"}
Ended == IF client.at = "none" THEN client ELSE [client EXCEPT !.at = "ended"]
Stale(q) == [i \in DOMAIN q |-> [q[i] EXCEPT !.current = @ /\ q[i].what \notin {"restart", "poll"}]]

(* A defect: the next entry also after a connection.                       *)
MutMoves == started

(* The condition under which new_client calls next.                        *)
Moves == started /\ ~client.reached

(* new_client, with what is left of the queue, on the given entries: the   *)
(* next endpoint, unless the session before had connected, whose entry is  *)
(* forgotten; the session starts at an address that is known, or resolves. *)
NewClient(entries, from, q) ==
    LET next == IF Moves THEN Advanced(entries, from) ELSE [list |-> entries, index |-> from]
        line == next.list[next.index.primary].line
    IN  /\ started' = TRUE
        /\ list' = next.list /\ index' = next.index
        /\ client' = [at |-> IF EndpointAvailable(next.list, next.index) THEN "trying" ELSE "resolving",
                      heard |-> FALSE, reached |-> FALSE]
        /\ ready' = Stale(q)
        /\ armed' = (armed \ {"restart"}) \cup {"poll"}
                       \cup (IF ConnTimeout /\ ~connPending THEN {"conn"} ELSE {})
        /\ connPending' = (connPending \/ ConnTimeout)
        /\ row' = [line |-> line,
                   length |-> IF line = row.line /\ ~client.reached /\ querying = 0
                              THEN IF row.length > MostAddresses(line) THEN row.length ELSE row.length + 1
                              ELSE 1]

(* stop                                                                    *)
Stop(q) ==
    /\ halt' = TRUE
    /\ client' = Ended
    /\ armed' = {} /\ connPending' = FALSE
    /\ querying' = 0
    /\ ready' = q
    /\ UNCHANGED <<cache, list, index, started, paused, row>>

(* start: PreResolve if the cache is enabled, a session at once if not.    *)
Start ==
    /\ ~started /\ querying = 0 /\ ~halt /\ client.at = "none"
    /\ IF cache
       THEN /\ index' = First
            /\ querying' \in NextQuery(list, 1)
            /\ UNCHANGED <<cache, list, connVars>>
       ELSE NewClient(list, index, ready) /\ UNCHANGED <<cache, querying, halt, paused>>

(* PreResolve::resolve_callback, next and, at the end, pre_resolve_done.   *)
PreResolveAnswers(entries) == \E query \in NextQuery(entries, querying + 1) :
    LET passed == Shared(entries, querying + 1, IF query = 0 THEN Len(entries) ELSE query - 1)
    IN  /\ querying' = query
        /\ \/ query # 0 /\ list' = passed /\ UNCHANGED <<cache, index, connVars>>
           \/ /\ query = 0
              /\ \E f \in Kept(passed) : NewClient(Listed(passed, f), First, ready)
              /\ UNCHANGED <<cache, halt, paused>>

PreResolves ==
    /\ querying # 0
    /\ \E a \in Answers[HostOf(list[querying])] : PreResolveAnswers(Resolved(list, querying, a))

PreResolveFails == querying # 0 /\ PreResolveAnswers(list)

--------------------------------------------------------------------------------
(* The session and its transport.                                          *)

(* resolve_callback and set_endpoint_range                                 *)
ClientResolves ==
    /\ client.at = "resolving"
    /\ \E a \in Answers[HostOf(Current)] : list' = Resolved(list, index.primary, a)
    /\ index' = [index EXCEPT !.secondary = 1]
    /\ client' = [client EXCEPT !.at = "trying"]
    /\ UNCHANGED <<cache, querying, started, halt, paused, armed, connPending, ready, row>>

FirstPacket ==
    /\ client.at = "trying" /\ ~client.heard
    /\ client' = [client EXCEPT !.heard = TRUE]
    /\ UNCHANGED <<listVars, started, halt, paused, armed, connPending, ready, row>>

(* A defect: conn_timer_pending stays set when the timer is cancelled.     *)
MutConnected ==
    /\ client.at = "trying" /\ client.heard /\ ~client.reached
    /\ client' = [client EXCEPT !.reached = TRUE]
    /\ armed' = armed \ {"conn"}
    /\ UNCHANGED <<listVars, started, halt, paused, connPending, ready, row>>

(* client_proto_connected                                                  *)
Connected ==
    /\ client.at = "trying" /\ client.heard /\ ~client.reached
    /\ client' = [client EXCEPT !.reached = TRUE]
    /\ armed' = armed \ {"conn"} /\ connPending' = FALSE
    /\ UNCHANGED <<listVars, started, halt, paused, ready, row>>

(* client_proto_terminate for the errors that are retried: queue_restart   *)
QueueRestart ==
    /\ client' = Ended
    /\ armed' = (armed \ {"poll"}) \cup {"restart"}
    /\ list' = ResetItem(list, index.primary)
    /\ UNCHANGED <<cache, index, querying, started, halt, paused, connPending, ready, row>>

TerminateRetried == Live /\ QueueRestart

(* client_proto_terminate for the errors that are final                    *)
TerminateFinal == client.at = "trying" /\ client.heard /\ Stop(ready)

--------------------------------------------------------------------------------
(* Timers and other threads.                                               *)

Expire(t) ==
    /\ t \in armed
    /\ armed' = armed \ {t}
    /\ ready' = Append(ready, [what |-> t, current |-> TRUE])
    /\ UNCHANGED <<listVars, started, halt, paused, client, connPending, row>>

(* thread_safe_stop, thread_safe_pause, thread_safe_resume,                *)
(* thread_safe_reconnect                                                   *)
Post == \E c \in Commands :
    /\ ~halt /\ Len(ready) < MaxPosts /\ (started \/ querying # 0)
    /\ ready' = Append(ready, [what |-> c, current |-> TRUE])
    /\ UNCHANGED <<listVars, started, halt, paused, client, armed, connPending, row>>

(* Defects: a handler that does not look at halt; the restart timer's that *)
(* asks for the first packet, as the poll timer's does.                    *)
MutProceedsHalted(h) ==
    /\ h.what \in {"restart", "poll"} => h.current
    /\ h.what = "poll" => ~client.heard
    /\ h.what = "pause" => ~paused
    /\ h.what = "resume" => paused
MutProceedsUnheard(h) ==
    /\ ~halt
    /\ h.what \in {"restart", "poll"} => h.current /\ ~client.heard
    /\ h.what = "pause" => ~paused
    /\ h.what = "resume" => paused

(* What the handler at the head of the queue checks before it does         *)
(* anything.  conn_timer_callback checks no generation.                    *)
Proceeds(h) ==
    /\ ~halt
    /\ h.what = "restart" => h.current
    /\ h.what = "poll" => h.current /\ ~client.heard
    /\ h.what = "pause" => ~paused
    /\ h.what = "resume" => paused

Runs(what) == ready # << >> /\ Head(ready).what = what /\ Proceeds(Head(ready))

Ignored ==
    /\ ready # << >> /\ ~Proceeds(Head(ready))
    /\ ready' = Tail(ready)
    /\ UNCHANGED <<listVars, started, halt, paused, client, armed, connPending, row>>

(* resume                                                                  *)
Resume ==
    /\ paused' = FALSE
    /\ NewClient(ResetItem(list, index.primary), index, Tail(ready))
    /\ UNCHANGED <<cache, querying, halt>>

(* restart_wait_callback                                                   *)
RestartWait ==
    /\ Runs("restart")
    /\ \/ paused /\ Resume
       \/ ~paused /\ NewClient(list, index, Tail(ready)) /\ UNCHANGED <<cache, querying, halt, paused>>

(* server_poll_callback                                                    *)
ServerPoll ==
    /\ Runs("poll")
    /\ NewClient(list, index, Tail(ready))
    /\ UNCHANGED <<cache, querying, halt, paused>>

(* conn_timer_callback; pause_on_connection_timeout is FALSE in            *)
(* OpenVPNClient.mm.                                                       *)
ConnTimedOut == Runs("conn") /\ Stop(Tail(ready))

StopPosted == Runs("stop") /\ Stop(Tail(ready))

Pause ==
    /\ Runs("pause")
    /\ paused' = TRUE
    /\ client' = Ended
    /\ armed' = {} /\ connPending' = FALSE
    /\ ready' = Tail(ready)
    /\ UNCHANGED <<listVars, started, halt, row>>

ResumePosted == Runs("resume") /\ Resume

(* reconnect: the session goes on until the timer expires.                 *)
Reconnect ==
    /\ Runs("reconnect")
    /\ armed' = (armed \ {"poll"}) \cup {"restart"}
    /\ list' = ResetItem(list, index.primary)
    /\ ready' = Tail(ready)
    /\ UNCHANGED <<cache, index, querying, started, halt, paused, client, connPending, row>>

PreResolve == PreResolves \/ PreResolveFails

Network == ClientResolves \/ FirstPacket \/ Connected \/ TerminateRetried \/ TerminateFinal

HandlerRuns ==
    \/ Ignored \/ RestartWait \/ ServerPoll \/ ConnTimedOut
    \/ StopPosted \/ Pause \/ ResumePosted \/ Reconnect

Next == Start \/ PreResolve \/ Network \/ (\E t \in Timer : Expire(t)) \/ Post \/ HandlerRuns

Spec == Init /\ [][Next]_vars

(* The thread serves its queue, an armed timer expires, the resolver       *)
(* answers.  Nothing is assumed of servers and of other threads.           *)
FairSpec ==
    /\ Spec
    /\ WF_vars(Start) /\ WF_vars(PreResolve) /\ WF_vars(HandlerRuns)
    /\ \A t \in Timer : WF_vars(Expire(t))

--------------------------------------------------------------------------------
(* Properties                                                              *)

(* After stop no session lives, no timer is armed and no host is being     *)
(* resolved, whatever was queued or under way when it came                 *)
(* (cliconnect.hpp, stop and the guards of the callbacks).                 *)
HaltIsFinal == halt => ~Live /\ armed = {} /\ querying = 0

(* Between its first session and stop the client always has something that *)
(* makes it go on: a session, the restart timer, or the queued handler of  *)
(* that timer with the present generation; unless it is paused.            *)
RestartDue ==
    \/ "restart" \in armed
    \/ \E i \in DOMAIN ready : ready[i] = [what |-> "restart", current |-> TRUE]
NeverStranded == started /\ ~halt /\ ~paused => Live \/ RestartDue

(* An entry gets no more sessions in a row that do not connect than its    *)
(* host has addresses, before another entry has its turn: the "remote list *)
(* rotation" of cliconnect.hpp, line 66.                                   *)
EntriesRotate == Len(list) > 1 => row.length <= MostAddresses(row.line)

(* It holds while addresses are cached.  Without the cache next forgets    *)
(* the addresses of the entry it stays on, and the index never leaves it.  *)
CachedEntriesRotate == cache => EntriesRotate

(* A session that connected is followed by one to the same entry, however  *)
(* it ended (new_client calls next only if it had not connected).          *)
KeepsServer == [][client.reached /\ querying = 0 => Current'.line = Current.line]_vars

(* With a connection time-out the client does not try for ever: over and   *)
(* over it is connected, paused or stopped.  One conn_timer spans all the  *)
(* restarts until a session connects.                                      *)
GivesUp == ConnTimeout => []<>(halt \/ paused \/ client.reached)

--------------------------------------------------------------------------------
(* The strengthening that makes CachedEntriesRotate inductive.             *)

(* The entries stay in the order of their lines, and an address is one     *)
(* that the host of its entry resolved to.                                 *)
EntriesShape(entries) ==
    /\ \A i, j \in DOMAIN entries : i < j => entries[i].line < entries[j].line
    /\ \A i \in DOMAIN entries :
          entries[i].addrs # << >> => entries[i].addrs \in Answers[HostOf(entries[i])]
ListShape == EntriesShape(list)

(* The sessions in a row are on the present entry, and each took one of    *)
(* its addresses; a session that still resolves is the first of them.      *)
RowShape ==
    /\ ~started => row.length = 0
    /\ cache /\ started /\ Len(list) > 1 =>
          /\ row.line = Current.line
          /\ row.length <= index.secondary
          /\ row.length <= MostAddresses(row.line)
          /\ client.at = "resolving" => row.length <= 1

================================================================================
