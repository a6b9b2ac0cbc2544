-------------------------------- MODULE TunnelLog --------------------------------
(***************************************************************************)
(* The tunnel's log: the extension (PacketTunnelProvider.swift) keeps its  *)
(* last entries in shared UserDefaults, and the app (VPNManager.swift)     *)
(* reads on from the number of entries it has seen.  Entries are numbered  *)
(* as they are written.  The extension's appends run on one queue, in      *)
(* order, and only the stored copy is seen by the app: one action each.    *)
(*                                                                         *)
(* External: the system, which runs one session after the other and        *)
(* notifies the app of each change of the status.                          *)
(***************************************************************************)
EXTENDS Integers, Sequences

CONSTANTS
    Kept,        \* entries the extension keeps (500)
    Lines,       \* maxConnectionLogLines (200)
    MaxEntries,  \* bound: entries written
    MaxJobs,     \* bound: updateConnectionState jobs, and delayed fetches, told apart
    Overlaps     \* a profile may be configured while the extension still runs

ASSUME LogAssumption ==
    Kept \in Nat \ {0} /\ Lines \in Nat \ {0} /\ MaxJobs \in Nat \ {0} /\ Overlaps \in BOOLEAN

VARIABLES
    status,             \* the status of the system's session
    extension,          \* its process: off, starting or on
    written,            \* entries written so far
    tunnelLog,          \* the extension's own copy
    defaults,           \* "tunnelLog" of the shared UserDefaults
    configured,         \* configure has returned and connect() follows
    jobs,               \* updateConnectionState jobs queued
    polling,            \* logPollingTask
    refetch,            \* delayed fetches after a disconnection
    lastTunnelLogCount,
    connectionLog       \* its entries of the tunnel's log

logVars == <<status, extension, written, tunnelLog, defaults, configured, jobs, polling,
             refetch, lastTunnelLogCount, connectionLog>>
tunnelVars == <<status, extension, written, tunnelLog>>
appVars == <<configured, polling, refetch, lastTunnelLogCount, connectionLog>>

Newest(s, n) == SubSeq(s, IF Len(s) > n THEN Len(s) - n + 1 ELSE 1, Len(s))

LogInit ==
    /\ status = "disconnected" /\ extension = "off"
    /\ written = 0
    /\ tunnelLog = << >> /\ defaults = << >>
    /\ configured = FALSE
    /\ jobs = 0
    /\ polling = FALSE /\ refetch = 0
    /\ lastTunnelLogCount = 0
    /\ connectionLog = << >>

--------------------------------------------------------------------------------
(* The system and the extension.                                           *)

(* The session's status changes; notifications beyond MaxJobs are those of *)
(* jobs already queued, which read the status when they run.  A tunnel     *)
(* takes a handshake to connect, longer than the main queue needs.         *)
StatusBecomes(s) ==
    /\ status' = s
    /\ jobs' = IF jobs < MaxJobs THEN jobs + 1 ELSE jobs
    /\ UNCHANGED <<written, tunnelLog, defaults>>

Connects ==
    /\ configured /\ status = "disconnected" /\ extension = "off"
    /\ StatusBecomes("connecting")
    /\ extension' = "starting"
    /\ configured' = FALSE
    /\ UNCHANGED <<polling, refetch, lastTunnelLogCount, connectionLog>>

SessionStep ==
    /\ \/ status \in {"connecting", "reasserting"} /\ extension = "on" /\ jobs = 0
          /\ StatusBecomes("connected")
       \/ status = "connected" /\ StatusBecomes("reasserting")
       \/ status \in {"connecting", "connected", "reasserting"} /\ StatusBecomes("disconnecting")
       \/ status \notin {"disconnected"} /\ StatusBecomes("disconnected")
    /\ UNCHANGED <<extension, appVars>>

Stored(log) == tunnelLog' = log /\ defaults' = log /\ written' = written + 1

(* startTunnel: an empty log and "Tunnel extension starting".              *)
StartTunnel ==
    /\ extension = "starting" /\ status # "disconnected" /\ written < MaxEntries
    /\ extension' = "on"
    /\ Stored(<<written + 1>>)
    /\ UNCHANGED <<status, jobs, appVars>>

AppendTunnelLog ==
    /\ extension = "on" /\ written < MaxEntries
    /\ Stored(Newest(Append(tunnelLog, written + 1), Kept))
    /\ UNCHANGED <<status, extension, jobs, appVars>>

ExtensionEnds ==
    /\ status = "disconnected" /\ extension # "off"
    /\ extension' = "off"
    /\ UNCHANGED <<status, written, tunnelLog, defaults, jobs, appVars>>

--------------------------------------------------------------------------------
(* The app.                                                                *)

(* fetchTunnelLogs, from the number of entries last                        *)
FetchFrom(last) ==
    IF defaults = << >>
    THEN lastTunnelLogCount' = last /\ UNCHANGED connectionLog
    ELSE /\ lastTunnelLogCount' = Len(defaults)
         /\ connectionLog' = Newest(connectionLog \o SubSeq(defaults, last + 1, Len(defaults)), Lines)

(* Defect: a disconnection that only fetches at once.                      *)
MutNoRefetch == polling' = FALSE /\ FetchFrom(lastTunnelLogCount) /\ UNCHANGED refetch

ShowDisconnected ==
    /\ polling' = FALSE
    /\ FetchFrom(lastTunnelLogCount)
    /\ refetch' = IF refetch < MaxJobs THEN refetch + 1 ELSE refetch

StartLogPolling ==
    /\ polling' = TRUE
    /\ lastTunnelLogCount' = 0
    /\ UNCHANGED <<refetch, connectionLog>>

ShowConnected ==
    /\ polling' = FALSE
    /\ FetchFrom(lastTunnelLogCount)
    /\ UNCHANGED refetch

UpdateConnectionState ==
    /\ jobs > 0
    /\ jobs' = jobs - 1
    /\ CASE status = "disconnected" -> ShowDisconnected
         [] status = "connected"    -> ShowConnected
         [] OTHER                   -> StartLogPolling
    /\ UNCHANGED <<tunnelVars, defaults, configured>>

Poll ==
    /\ polling
    /\ FetchFrom(lastTunnelLogCount)
    /\ UNCHANGED <<tunnelVars, defaults, configured, jobs, polling, refetch>>

(* Half a second after the disconnection; the extension has ended by then. *)
Refetch ==
    /\ refetch > 0 /\ extension = "off"
    /\ refetch' = refetch - 1
    /\ FetchFrom(lastTunnelLogCount)
    /\ UNCHANGED <<tunnelVars, defaults, configured, jobs, polling>>

(* configure, after disconnectAndWait, which gives up after five seconds:  *)
(* what an extension that still runs writes then is taken for the log of   *)
(* the next session, and its count hides as many entries of that one.      *)
Configure ==
    /\ ~ configured
    /\ Overlaps \/ extension = "off"
    /\ configured' = TRUE
    /\ connectionLog' = << >> /\ lastTunnelLogCount' = 0
    /\ defaults' = << >>
    /\ UNCHANGED <<tunnelVars, jobs, polling, refetch>>

(* The app is started anew: loadExistingManager reads the status.          *)
Relaunch ==
    /\ jobs' = 1
    /\ configured' = FALSE
    /\ polling' = FALSE /\ refetch' = 0
    /\ lastTunnelLogCount' = 0 /\ connectionLog' = << >>
    /\ UNCHANGED <<tunnelVars, defaults>>

LogNext ==
    \/ Connects \/ SessionStep \/ StartTunnel \/ AppendTunnelLog \/ ExtensionEnds
    \/ UpdateConnectionState \/ Poll \/ Refetch \/ Configure \/ Relaunch

--------------------------------------------------------------------------------
(* Once a session and its process have ended and the app has caught up, it *)
(* shows the last thing the tunnel had to say, the reason of a failure     *)
(* above all: "Re-fetch after a short delay to catch any final writes"     *)
(* (updateConnectionState).  Not once the extension has begun to drop      *)
(* entries: the count stays the same then and nothing more is read.        *)
FinalEntryShown ==
    /\ status = "disconnected" /\ extension = "off"
    /\ jobs = 0 /\ refetch = 0
    /\ defaults # << >> /\ Len(defaults) < Kept
    => \E i \in 1..Len(connectionLog) : connectionLog[i] = defaults[Len(defaults)]
================================================================================
