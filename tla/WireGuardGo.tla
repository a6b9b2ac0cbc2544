------------------------------ MODULE WireGuardGo ------------------------------
(***************************************************************************)
(* The Go side of the WireGuard back-end, api-apple.go: the table of       *)
(* running tunnel devices and the exported entry points the Swift adapter  *)
(* calls.  An entry point is an operator with the value the C caller sees  *)
(* as a parameter (ret), so that the module of a caller can use it as part *)
(* of its own step; Go runs each of them on the thread of the caller.      *)
(* AmneziaWGKit/Scripts/api-apple.go is the same program with awg* names.  *)
(*                                                                         *)
(* What wireguard-go does inside a device is external: a device is created *)
(* with its goroutines running, IpcSet accepts or rejects a configuration, *)
(* Up succeeds or not (its result is ignored), Close ends it.              *)
(***************************************************************************)
EXTENDS Integers

CONSTANTS
    MaxInt32,   \* math.MaxInt32 of the handle search
    Device,     \* identities of device.Device objects; the bound on devices
    NoDevice,   \* absence of a map entry
    Path,       \* network paths
    NoPath,     \* path of a device that does not run
    Config,     \* UAPI configurations
    NoConfig,   \* what a device has after a rejected IpcSet: no member of Config
    Bumper,     \* identities of the wgBumpSockets goroutines; their bound
    BumpTries   \* 10: attempts of one wgBumpSockets goroutine

ASSUME MaxInt32Assumption == MaxInt32 \in Nat \ {0}
ASSUME NoDeviceAssumption == NoDevice \notin Device
ASSUME NoPathAssumption == NoPath \notin Path
ASSUME NoConfigAssumption == NoConfig \notin Config
ASSUME BumpTriesAssumption == BumpTries \in Nat \ {0}

VARIABLES
    tunnelHandles,  \* the map[int32]tunnelHandle, NoDevice where it has no entry
    device,         \* each device object: its life cycle, its configuration and
                    \* the network path its endpoints were last resolved on
    bumps           \* the running wgBumpSockets goroutines

goVars == <<tunnelHandles, device, bumps>>

Handle == 0 .. MaxInt32 - 1

(* "free": not created or closed; "abandoned": NewDevice ran, the error    *)
(* path of wgTurnOn closed the file descriptor but never the device.       *)
DeviceStatus == {"free", "down", "up", "abandoned"}

FreshDevice == [status |-> "free", config |-> NoConfig, resolvedOn |-> NoPath]
Idle == [dev |-> NoDevice, i |-> 0]

GoTypeOK ==
    /\ tunnelHandles \in [Handle -> Device \cup {NoDevice}]
    /\ device \in [Device -> [status : DeviceStatus, config : Config \cup {NoConfig},
                              resolvedOn : Path \cup {NoPath}]]
    /\ bumps \in [Bumper -> [dev : Device \cup {NoDevice}, i : 0 .. BumpTries]]

GoInit ==
    /\ tunnelHandles = [h \in Handle |-> NoDevice]
    /\ device = [d \in Device |-> FreshDevice]
    /\ bumps = [b \in Bumper |-> Idle]

Exists(h) == h \in Handle /\ tunnelHandles[h] # NoDevice

IsLowestFree(i) ==
    /\ i \in Handle
    /\ ~ Exists(i)
    /\ \A j \in Handle : j < i => Exists(j)

(* A device object nothing refers to any more.                             *)
CanCreate(d) ==
    /\ device[d].status = "free"
    /\ \A b \in Bumper : bumps[b].dev # d

--------------------------------------------------------------------------------
(* wgTurnOn: dup of the descriptor, SetNonblock and CreateTUNFromFile can  *)
(* fail before there is a device; IpcSet can reject the configuration and  *)
(* the handle search can be exhausted after.                               *)
TurnOnBeforeDevice(ret) == ret = -1 /\ UNCHANGED goVars

TurnOnAbandoned(c, p, ret) ==
    /\ ret = -1
    /\ \E d \in Device, applied \in {c, NoConfig} :
          /\ CanCreate(d)
          /\ applied = c => \A h \in Handle : Exists(h)
          /\ device' = [device EXCEPT ![d] =
                [status |-> "abandoned", config |-> applied, resolvedOn |-> p]]
    /\ UNCHANGED <<tunnelHandles, bumps>>

TurnOnStarted(c, p, ret) ==
    /\ IsLowestFree(ret)
    /\ \E d \in Device, s \in {"down", "up"} :
          /\ CanCreate(d)
          /\ device' = [device EXCEPT ![d] =
                [status |-> s, config |-> c, resolvedOn |-> p]]
          /\ tunnelHandles' = [tunnelHandles EXCEPT ![ret] = d]
    /\ UNCHANGED bumps

wgTurnOn(c, p, ret) ==
    \/ TurnOnBeforeDevice(ret)
    \/ TurnOnAbandoned(c, p, ret)
    \/ TurnOnStarted(c, p, ret)

(* Defect: Close without the delete.                                       *)
MutTurnOffKeepsEntry(h) ==
    /\ device' = IF Exists(h) THEN [device EXCEPT ![tunnelHandles[h]] = FreshDevice]
                 ELSE device
    /\ UNCHANGED <<tunnelHandles, bumps>>

wgTurnOff(h) ==
    IF Exists(h)
    THEN /\ tunnelHandles' = [tunnelHandles EXCEPT ![h] = NoDevice]
         /\ device' = [device EXCEPT ![tunnelHandles[h]] = FreshDevice]
         /\ UNCHANGED bumps
    ELSE UNCHANGED goVars

(* An unknown handle is ignored.  IpcSet applies the configuration line by *)
(* line: a rejected one leaves the device with neither the old nor the     *)
(* new configuration.  No caller looks at the result.                      *)
wgSetConfig(h, c, p) ==
    IF Exists(h)
    THEN /\ \E applied \in {c, NoConfig} :
               device' = [device EXCEPT ![tunnelHandles[h]].config = applied,
                                        ![tunnelHandles[h]].resolvedOn = p]
         /\ UNCHANGED <<tunnelHandles, bumps>>
    ELSE UNCHANGED goVars

(* Starts the goroutine that keeps the device, not the handle.  When every *)
(* goroutine of the bound runs, the call waits.                            *)
Bump(h) ==
    IF Exists(h)
    THEN \E b \in Bumper :
            /\ bumps[b] = Idle
            /\ bumps' = [bumps EXCEPT ![b] = [dev |-> tunnelHandles[h], i |-> 0]]
    ELSE UNCHANGED bumps

wgBumpSockets(h) == Bump(h) /\ UNCHANGED <<tunnelHandles, device>>

(* Defect: the sockets are bound anew, the endpoints stay.                 *)
MutBumpOnly(h, p) == wgBumpSockets(h)

(* wgSetConfig with the endpoints of the same peers only, then             *)
(* wgBumpSockets: what the adapter does with a tunnel whose path changed.  *)
wgSetEndpointsAndBump(h, p) ==
    IF Exists(h)
    THEN /\ device' = [device EXCEPT ![tunnelHandles[h]].resolvedOn = p]
         /\ Bump(h)
         /\ UNCHANGED tunnelHandles
    ELSE UNCHANGED goVars

(* One attempt of a goroutine: it returns because BindUpdate succeeds, at  *)
(* once when the device is closed or down, or because this was the last    *)
(* try; or BindUpdate fails and is tried again half a second later.        *)
BumpAttempt(b) ==
    /\ bumps[b] # Idle
    /\ \/ bumps' = [bumps EXCEPT ![b] = Idle]
       \/ /\ device[bumps[b].dev].status = "up"
          /\ bumps[b].i + 1 < BumpTries
          /\ bumps' = [bumps EXCEPT ![b].i = @ + 1]
    /\ UNCHANGED <<tunnelHandles, device>>

================================================================================
