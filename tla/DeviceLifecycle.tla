---------------------------- MODULE DeviceLifecycle ----------------------------
(***************************************************************************)
(* One adapter from AddDevice to the release of its resources: the PnP     *)
(* dispatcher, the USB bring-up and tear-down it drives, and the power     *)
(* dispatcher, with the PnP manager, the power manager, hidclass and the   *)
(* bus driver (external) around them.                                      *)
(*                                                                         *)
(* A request is the list of things it still has to do, one step each; the  *)
(* threads of a PnP request, a device power request, a system power        *)
(* request, a wake request and a HID request interleave between steps.     *)
(* PnP requests come one at a time, and so do power requests of one kind:  *)
(* the two managers see to that.  One read stands for the two of the       *)
(* polling engine, which share the stop mask and nothing else that matters *)
(* here; what a failed read adds to the mask, and the restart that takes   *)
(* it out again, are left to module PollEngine: here the next PollStart    *)
(* may send the read at once.  The remove locks are the sets of their      *)
(* holders (module RemoveLock has the counts).                             *)
(***************************************************************************)
EXTENDS HubNaming

CONSTANTS Topologies,      \* what the topology seam may hold (NoTopology: zeroed)
          NameBytes,       \* CORE_DEVICE_NAME_BYTES
          Addresses,       \* answers of vendor request 0x75
          StopVeto,        \* the field of that name; nothing in the driver sets it
          ConfigTries,     \* ADAPTOID_CONFIG_TRIES
          MaxStarts,       \* bound: START_DEVICE requests
          MaxQueries,      \* bound: QUERY and CANCEL requests
          MaxTransitions,  \* bound: system power requests
          MaxRefusals,     \* bound: power requests PoRequestPowerIrp refuses
          MaxHidRequests,  \* bound: requests of hidclass
          MaxRequests      \* bound: all of these together

ASSUME LifecycleConstants ==
    /\ StopVeto \in BOOLEAN
    /\ {ConfigTries, MaxStarts, MaxQueries, MaxTransitions, MaxRefusals,
        MaxHidRequests, MaxRequests} \subseteq Nat
    /\ NameBytes \in Nat /\ NameBytes >= 2
    /\ \A topology \in Topologies : IsTopology(topology)

(* Power states, as the request parameters carry them; 0 is "unspecified". *)
D0 == 1
D3 == 4
S0 == 1
S3 == 4

VARIABLES
    dx,       \* ADAPTOID_DEVEXT
    phase,    \* the extension's memory: "absent", "added", "refused" or "freed"
    os,       \* the PnP manager's view, the bus driver's, and whether the adapter is there
    todo,     \* per thread: what its request still has to do
    tries,    \* of AdaptoidFetchDeviceDescriptor
    A, B,     \* RemoveLockA, RemoveLockB: the requests that hold it, and Removing
    irp,      \* the power requests
    lost,     \* history: pointers overwritten or dropped while they held a block
    misuse,   \* history: the extension was used after it was freed
    count     \* how much of each bound is used

histories == <<lost, misuse>>
vars == <<dx, phase, os, todo, tries, A, B, irp, histories, count>>

Threads == {"pnp", "device"}
NoPower == [at |-> "none", state |-> 0]

(***************************************************************************)
(* The extension zeroed.  ptr has the non-null ones of its pointers to     *)
(* blocks (PollWorkItem, InterfaceName, ConfigDescriptor, InterfaceInfo).  *)
(* Capabilities is not kept: the driver fills in no power state of it, so  *)
(* every DeviceState, and DeviceWake, stays 0.                             *)
(***************************************************************************)
Zeroed(topology) ==
    [Started |-> FALSE, Removing |-> FALSE, RemovePending |-> FALSE, StopPending |-> FALSE,
     ConfigurationHandle |-> FALSE, InterruptPipe |-> FALSE, ptr |-> {},
     interface |-> FALSE, Registration |-> "off",
     Topology |-> topology, UsbAddress |-> 0, device_name |-> Nameless,
     PollStopMask |-> {}, Active |-> FALSE, read |-> "none",
     DevicePowerState |-> 0, WakeIdleDeviceState |-> 0, WaitWakePending |-> FALSE,
     PowerRequestInProgress |-> FALSE, PendingSystemPowerIrp |-> 0]
DeviceState(systemState) == 0
DeviceWake == 0

Init ==
    /\ \E topology \in Topologies : dx = Zeroed(topology)
    /\ phase = "absent"
    /\ os = [mgr |-> "absent", bus |-> "stopped", present |-> TRUE]
    /\ todo = [t \in Threads |-> <<>>] /\ tries = 0
    /\ A = [holders |-> {}, closed |-> FALSE] /\ B = [holders |-> {}, closed |-> FALSE]
    /\ irp = [device |-> NoPower, system |-> S0, wake |-> "none"]
    /\ lost = {} /\ misuse = FALSE
    /\ count = [starts |-> 0, queries |-> 0, transitions |-> 0, refusals |-> 0, hid |-> 0]

Spent == count.starts + count.queries + count.transitions + count.refusals + count.hid

Spend(what, max) ==
    /\ count[what] < max /\ Spent < MaxRequests
    /\ count' = [count EXCEPT ![what] = @ + 1]

(* Every step of the driver reads or writes the extension. *)
Uses == misuse' = (misuse \/ phase = "freed")

(* A pointer is made to point at a new block, or at none: what it held is lost. *)
Repoint(f, nonNull) ==
    /\ dx' = [dx EXCEPT !.ptr = IF nonNull THEN @ \cup {f} ELSE @ \ {f}]
    /\ lost' = lost \cup (dx.ptr \cap {f})

(***************************************************************************)
(* AdaptoidAddDevice.  The registered interface name and the wiring stay   *)
(* when the control device cannot be made: only the work item is given     *)
(* back, and the extension goes with the device object.                    *)
(***************************************************************************)
Initialised(d) == [d EXCEPT !.PollStopMask = {"pnp"}, !.DevicePowerState = D0]

AddDevice ==
    /\ phase = "absent"
    /\ \/ /\ phase' = "refused"                            \* no work item
          /\ dx' = Initialised(dx)
          /\ UNCHANGED <<os, lost>>
       \/ /\ phase' = "refused"                            \* no control device
          /\ dx' = Initialised(dx)
          /\ lost' = {"InterfaceName"}
          /\ UNCHANGED os
       \/ /\ phase' = "added"
          /\ os' = [os EXCEPT !.mgr = "new"]
          /\ dx' = [Initialised(dx) EXCEPT !.ptr = {"PollWorkItem", "InterfaceName"},
                                           !.Registration = "down"]
          /\ UNCHANGED lost
    /\ UNCHANGED <<todo, tries, A, B, irp, misuse, count>>

--------------------------------------------------------------------------------
(* AdaptoidPnp: the requests *)

Idle(from) == phase = "added" /\ todo["pnp"] = <<>> /\ os.mgr \in from

(***************************************************************************)
(* A request enters with RemoveLockB held; only a removal closes that      *)
(* lock, and the PnP manager sends nothing after one.                      *)
(***************************************************************************)
Enters(steps, now) ==
    /\ todo' = [todo EXCEPT !["pnp"] = steps]
    /\ B' = [B EXCEPT !.holders = @ \cup {"pnp"}]
    /\ os' = [os EXCEPT !.mgr = now]

StartDevice ==
    /\ Idle({"new", "stopped"}) /\ os.present
    /\ Enters(<<"start_down", "descriptor", "configure", "started", "address", "name",
                "poll", "publish", "start_answer">>, "starting")
    /\ A' = [A EXCEPT !.holders = @ \cup {"pnp"}]
    /\ tries' = 0
    /\ Spend("starts", MaxStarts)
    /\ UNCHANGED <<dx, phase, irp, histories>>

(***************************************************************************)
(* The QUERY and CANCEL requests mark a started device, and are passed     *)
(* down.                                                                   *)
(***************************************************************************)
Query(from, to) ==
    /\ Idle({from})
    /\ os' = [os EXCEPT !.mgr = to]
    /\ Spend("queries", MaxQueries)
    /\ UNCHANGED <<phase, todo, tries, A, B, irp, histories>>

QueryRemove ==
    /\ Query("running", "remove_asked")
    /\ dx' = [dx EXCEPT !.RemovePending = @ \/ dx.Started]
CancelRemove ==
    /\ Query("remove_asked", "running")
    /\ dx' = [dx EXCEPT !.RemovePending = @ /\ ~dx.Started]
QueryStop ==
    LET vetoed == dx.Started /\ StopVeto IN
    /\ Query("running", IF vetoed THEN "running" ELSE "stop_asked")
    /\ dx' = [dx EXCEPT !.StopPending = @ \/ (dx.Started /\ ~vetoed)]
CancelStop ==
    /\ Query("stop_asked", "running")
    /\ dx' = [dx EXCEPT !.StopPending = @ /\ ~dx.Started]

StopDevice ==
    /\ Idle({"stop_asked"})
    /\ Enters(<<"stop_pnp", "quiesce", "unconfigure", "stopped", "stop_down">>, "stopping")
    /\ UNCHANGED <<dx, phase, tries, A, irp, histories, count>>

(***************************************************************************)
(* The adapter is unplugged at any time; the PnP manager says so later.    *)
(* SURPRISE_REMOVAL is passed down and changes nothing of the driver's     *)
(* (neither does QUERY_CAPABILITIES, which fills in the caller's           *)
(* structure on the way back).                                             *)
(***************************************************************************)
Unplug ==
    /\ phase = "added" /\ os.present /\ os.bus # "removed"
    /\ os' = [os EXCEPT !.present = FALSE]
    /\ UNCHANGED <<dx, phase, todo, tries, A, B, irp, histories, count>>

SurpriseRemoval ==
    /\ Idle({"new", "running", "stop_asked", "remove_asked", "stopped", "failed"})
    /\ ~os.present
    /\ os' = [os EXCEPT !.mgr = "surprised"]
    /\ UNCHANGED <<dx, phase, todo, tries, A, B, irp, histories, count>>

RemoveDevice ==
    /\ Idle({"new", "remove_asked", "stopped", "failed", "surprised"})
    /\ Enters(<<"drain_A", "unregister", "stop_remove", "quiesce", "abort", "remove_down",
                "close_B", "drain_B", "unwire", "free">>, "removing")
    /\ dx' = [dx EXCEPT !.Removing = TRUE]
    /\ A' = [A EXCEPT !.closed = TRUE]
    /\ UNCHANGED <<phase, tries, irp, histories, count>>

--------------------------------------------------------------------------------
(* What the requests do, step by step *)

(* The step a thread is at, and going on to the rest of its list. *)
Doing(t, step) == todo[t] # <<>> /\ Head(todo[t]) = step /\ Uses
Onward(t) == todo' = [todo EXCEPT ![t] = Tail(@)]
(* The request fails: all that is left is its answer. *)
Failing(t) == todo' = [todo EXCEPT ![t] = <<@[Len(@)]>>]

(* PassDownAndWait of START_DEVICE. *)
StartDown ==
    /\ Doing("pnp", "start_down")
    /\ \/ /\ os.present
          /\ os' = [os EXCEPT !.bus = "started"]
          /\ Onward("pnp")
       \/ Failing("pnp") /\ UNCHANGED os
    /\ UNCHANGED <<dx, phase, tries, A, B, irp, lost, count>>

(***************************************************************************)
(* One round of AdaptoidFetchDeviceDescriptor.  Each round allocates into  *)
(* ConfigDescriptor, whatever it holds from an earlier START; the buffer   *)
(* is kept only when the whole descriptor came.                            *)
(***************************************************************************)
FaultBufferKept == Repoint("ConfigDescriptor", TRUE)

DropDescriptor == Repoint("ConfigDescriptor", FALSE)

FetchDeviceDescriptor ==
    /\ Doing("pnp", "descriptor")
    /\ \/ /\ tries = 0                                     \* no request to ask with
          /\ Failing("pnp")
          /\ UNCHANGED <<dx, lost, tries>>
       \/ /\ os.present                                    \* wTotalLength <= got
          /\ Repoint("ConfigDescriptor", TRUE)
          /\ Onward("pnp")
          /\ UNCHANGED tries
       \/ /\ os.present                                    \* there is more of it
          /\ tries < ConfigTries
          /\ DropDescriptor
          /\ tries' = tries + 1
          /\ UNCHANGED todo
       \/ /\ DropDescriptor                                  \* no pool, no answer, a bad one
          /\ Failing("pnp")
          /\ UNCHANGED tries
    /\ UNCHANGED <<phase, os, A, B, irp, count>>

(***************************************************************************)
(* AdaptoidSelectConfiguration: refused before or by the bus; or accepted, *)
(* and then out of pool, or without an interrupt pipe, or complete.        *)
(***************************************************************************)
SelectConfiguration ==
    /\ Doing("pnp", "configure")
    /\ \/ Failing("pnp") /\ UNCHANGED <<dx, lost>>
       \/ /\ os.present
          /\ \E pool, pipe \in BOOLEAN :
                /\ dx' = [dx EXCEPT !.ConfigurationHandle = TRUE,
                             !.ptr = IF pool THEN @ \cup {"InterfaceInfo"}
                                             ELSE @ \ {"InterfaceInfo"},
                             !.InterruptPipe = IF pool THEN pipe ELSE @]
                /\ lost' = lost \cup (dx.ptr \cap {"InterfaceInfo"})
                /\ IF pool /\ pipe THEN Onward("pnp") ELSE Failing("pnp")
    /\ UNCHANGED <<phase, os, tries, A, B, irp, count>>

(***************************************************************************)
(* The rest of AdaptoidStartDevice.  A transfer that fails leaves the      *)
(* address 0, a vendor slot in use leaves it as it was.                    *)
(***************************************************************************)
SetStarted ==
    /\ Doing("pnp", "started") /\ Onward("pnp")
    /\ dx' = [dx EXCEPT !.Started = TRUE]
    /\ UNCHANGED <<phase, os, tries, A, B, irp, lost, count>>

QueryFirmwareInfo ==
    /\ Doing("pnp", "address") /\ Onward("pnp")
    /\ \E reply \in (IF os.present THEN Addresses ELSE {}) \cup {0, dx.UsbAddress} :
          dx' = [dx EXCEPT !.UsbAddress = reply]
    /\ UNCHANGED <<phase, os, tries, A, B, irp, lost, count>>

(* Tabulated, so that TLC walks each topology once. *)
LocationNames ==
    [topology \in Topologies |-> [address \in Addresses \cup {0} |->
        LocationName(topology, address, NameBytes)]]

SetDeviceName ==
    /\ Doing("pnp", "name") /\ Onward("pnp")
    /\ dx' = [dx EXCEPT !.device_name = LocationNames[dx.Topology][dx.UsbAddress]]
    /\ UNCHANGED <<phase, os, tries, A, B, irp, lost, count>>

(***************************************************************************)
(* The read: "none", still to be submitted by a thread that is in          *)
(* AdaptoidPollStart (the thread), "out" on the bus, or in                 *)
(* AdaptoidPollComplete, which found the mask clear and will submit it     *)
(* again ("passed") or is to stop it ("failed").  PollStart and PollStop   *)
(* are the sections under PollLock; the submissions come after the lock is *)
(* dropped.  The cancels of a stop are not kept: all a cancelled read can  *)
(* do is come back failed, and any read may.                               *)
(***************************************************************************)
PollStart(d, reason, t) ==
    LET left == d.PollStopMask \ {reason} IN
    [d EXCEPT !.PollStopMask = left,
              !.Active = @ \/ left = {},
              !.read = IF left = {} /\ ~d.Active THEN t ELSE @]

PollStop(d, reason) == [d EXCEPT !.PollStopMask = @ \cup {reason}]

(* AdaptoidPollComplete, up to the end of its section: a read comes back   *)
(* with a packet or without (external).                                    *)
ReadReturns ==
    /\ dx.read = "out"
    /\ \E ok \in BOOLEAN :
          dx' = [dx EXCEPT !.read = IF ok /\ dx.PollStopMask = {} THEN "passed" ELSE "failed"]
    /\ Uses
    /\ UNCHANGED <<phase, os, todo, tries, A, B, irp, lost, count>>

(* Its other half, on a mask that may have changed since: AdaptoidPollStop, *)
(* with the slot ...                                                        *)
Retired(d) == [d EXCEPT !.Active = FALSE, !.read = "none"]

ReadStops ==
    /\ dx.read = "failed"
    /\ dx' = Retired(dx)
    /\ Uses
    /\ UNCHANGED <<phase, os, todo, tries, A, B, irp, lost, count>>

(***************************************************************************)
(* ... or AdaptoidPollSubmit, which is also what a PollStart goes on to.   *)
(* Without a pipe or memory the slot stays active with no read; a read     *)
(* that the bus refuses, as it does all of them once it is told of the     *)
(* removal (external), completes inside the call.                          *)
(***************************************************************************)
PollSubmit ==
    /\ dx.read \in {"passed"} \cup Threads
    /\ \/ dx' = [dx EXCEPT !.read = "none"]
       \/ /\ dx.InterruptPipe /\ os.bus # "removed"
          /\ dx' = [dx EXCEPT !.read = "out"]
       \/ /\ dx.InterruptPipe
          /\ dx' = Retired(dx)
    /\ Uses
    /\ UNCHANGED <<phase, os, todo, tries, A, B, irp, lost, count>>

StartPolling ==
    /\ Doing("pnp", "poll") /\ Onward("pnp")
    /\ dx' = PollStart(dx, "pnp", "pnp")
    /\ UNCHANGED <<phase, os, tries, A, B, irp, lost, count>>

(* AdaptoidEnableInterface and AdaptoidNotifyInterfaceChange. *)
Publish ==
    /\ Doing("pnp", "publish") /\ dx.read # "pnp" /\ Onward("pnp")
    /\ dx' = [dx EXCEPT !.interface = ("InterfaceName" \in dx.ptr), !.Registration = "live"]
    /\ UNCHANGED <<phase, os, tries, A, B, irp, lost, count>>

(* RemoveLockA is released, the request completed, RemoveLockB released. *)
StartAnswered ==
    /\ Doing("pnp", "start_answer") /\ Onward("pnp")
    /\ os' = [os EXCEPT !.mgr = IF dx.Started THEN "running" ELSE "failed"]
    /\ A' = [A EXCEPT !.holders = @ \ {"pnp"}]
    /\ B' = [B EXCEPT !.holders = @ \ {"pnp"}]
    /\ UNCHANGED <<dx, phase, tries, irp, lost, count>>

StopPolling(t, step, reason) ==
    /\ Doing(t, step) /\ Onward(t)
    /\ dx' = PollStop(dx, reason)
    /\ UNCHANGED <<phase, os, tries, A, B, irp, lost, count>>

(***************************************************************************)
(* AdaptoidAbortPipes, which needs a pipe: the bus gives back every read   *)
(* it has before it answers, and their completions find the mask set.  One *)
(* that is on its way to the bus is not among them.  AdaptoidQuiesceIo     *)
(* stops polling for the PnP reason first.                                 *)
(***************************************************************************)
AbortPipes(d) ==
    IF d.InterruptPipe /\ d.read = "out" THEN Retired(d) ELSE d

QuiesceIo(t) ==
    /\ Doing(t, "quiesce") /\ Onward(t)
    /\ dx' = AbortPipes(PollStop(dx, "pnp"))
    /\ UNCHANGED <<phase, os, tries, A, B, irp, lost, count>>

Abort ==
    /\ Doing("pnp", "abort") /\ Onward("pnp")
    /\ dx' = AbortPipes(dx)
    /\ UNCHANGED <<phase, os, tries, A, B, irp, lost, count>>

(***************************************************************************)
(* AdaptoidUnconfigureDevice: without a handle, or the pool for a request, *)
(* it leaves everything as it is.                                          *)
(***************************************************************************)
UnconfigureDevice ==
    /\ Doing("pnp", "unconfigure") /\ Onward("pnp")
    /\ \/ UNCHANGED dx
       \/ /\ dx.ConfigurationHandle
          /\ dx' = [dx EXCEPT !.ConfigurationHandle = FALSE, !.InterruptPipe = FALSE]
    /\ UNCHANGED <<phase, os, tries, A, B, irp, lost, count>>

(* Started and the registry row; core_reset is InputReports' and CoreChains'. *)
Stopped ==
    /\ Doing("pnp", "stopped") /\ Onward("pnp")
    /\ dx' = [dx EXCEPT !.Started = FALSE, !.Registration = "down"]
    /\ UNCHANGED <<phase, os, tries, A, B, irp, lost, count>>

StopDown ==
    /\ Doing("pnp", "stop_down") /\ Onward("pnp")
    /\ os' = [os EXCEPT !.bus = "stopped", !.mgr = "stopped"]
    /\ B' = [B EXCEPT !.holders = @ \ {"pnp"}]
    /\ UNCHANGED <<dx, phase, tries, A, irp, lost, count>>

--------------------------------------------------------------------------------
(* The rest of a removal *)

DrainA ==
    /\ Doing("pnp", "drain_A") /\ A.holders = {} /\ Onward("pnp")
    /\ UNCHANGED <<dx, phase, os, tries, A, B, irp, lost, count>>

(* AdaptoidRegistryRemove: the interface, not the registry row. *)
Unregistered(d) == [d EXCEPT !.interface = FALSE, !.ptr = @ \ {"InterfaceName"}]

RegistryRemove ==
    /\ Doing("pnp", "unregister") /\ Onward("pnp")
    /\ dx' = Unregistered(dx)
    /\ UNCHANGED <<phase, os, tries, A, B, irp, lost, count>>

(* Before the bus answers it gives back what it has (external): the        *)
(* completions are DPCs, and may still be running.                         *)
RemoveDown ==
    /\ Doing("pnp", "remove_down") /\ Onward("pnp")
    /\ os' = [os EXCEPT !.bus = "removed"]
    /\ dx' = [dx EXCEPT !.read = IF @ = "out" THEN "failed" ELSE @]
    /\ UNCHANGED <<phase, tries, A, B, irp, lost, count>>

CloseB ==
    /\ Doing("pnp", "close_B") /\ Onward("pnp")
    /\ B' = [holders |-> B.holders \ {"pnp"}, closed |-> TRUE]
    /\ UNCHANGED <<dx, phase, os, tries, A, irp, lost, count>>

DrainB ==
    /\ Doing("pnp", "drain_B") /\ B.holders = {} /\ Onward("pnp")
    /\ UNCHANGED <<dx, phase, os, tries, A, B, irp, lost, count>>

(* KeFlushQueuedDpcs: no completion of a read is queued or running. *)
DpcsFlushed == dx.read \notin {"passed", "failed"}

(* AdaptoidUnwireDevice: the row goes, and so do the work item and the name. *)
UnwireDevice ==
    /\ Doing("pnp", "unwire") /\ DpcsFlushed /\ Onward("pnp")
    /\ dx' = [Unregistered(dx) EXCEPT !.Registration = "off", !.ptr = @ \ {"PollWorkItem"}]
    /\ UNCHANGED <<phase, os, tries, A, B, irp, lost, count>>

(* AdaptoidFreeDeviceResources, and hidclass takes the extension back. *)
FreeDeviceResources ==
    /\ Doing("pnp", "free") /\ Onward("pnp")
    /\ dx' = [dx EXCEPT !.ptr = @ \ {"ConfigDescriptor", "InterfaceInfo", "PollWorkItem"}]
    /\ phase' = "freed"
    /\ UNCHANGED <<os, tries, A, B, irp, lost, count>>

--------------------------------------------------------------------------------
(* Requests of hidclass *)

(* AdaptoidIsDeviceReady *)
IsDeviceReady(d) == d.Started /\ ~d.Removing /\ ~d.RemovePending /\ ~d.StopPending

(***************************************************************************)
(* AdaptoidIntDeviceControl: a READ_REPORT runs under RemoveLockA, and is  *)
(* answered there or parked (AdaptoidReadReport), for which RemoveLockB is *)
(* taken; what is refused is answered at once and changes nothing.         *)
(***************************************************************************)
HidRequest ==
    /\ phase = "added" /\ "hid" \notin A.holders \cup B.holders
    /\ IsDeviceReady(dx) /\ ~A.closed
    /\ A' = [A EXCEPT !.holders = @ \cup {"hid"}]
    /\ Spend("hid", MaxHidRequests)
    /\ UNCHANGED <<dx, phase, os, todo, tries, B, irp, histories>>

HidRequestReturns ==
    /\ "hid" \in A.holders
    /\ A' = [A EXCEPT !.holders = @ \ {"hid"}]
    /\ \/ UNCHANGED B
       \/ ~B.closed /\ B' = [B EXCEPT !.holders = @ \cup {"hid"}]
    /\ Uses
    /\ UNCHANGED <<dx, phase, os, todo, tries, irp, lost, count>>

(* A report comes, or hidclass cancels the read (module ReportPath). *)
ParkedReadEnds ==
    /\ "hid" \in B.holders
    /\ B' = [B EXCEPT !.holders = @ \ {"hid"}]
    /\ Uses
    /\ UNCHANGED <<dx, phase, os, todo, tries, A, irp, lost, count>>

--------------------------------------------------------------------------------
(* AdaptoidPower *)

(* AdaptoidDeviceStateFor *)
DeviceStateFor(systemState) ==
    CASE systemState = S0 -> D0
      [] systemState # S0 /\ ~dx.WaitWakePending -> D3
      [] OTHER -> DeviceState(systemState)

(***************************************************************************)
(* A system request for another device state is parked, with RemoveLockB,  *)
(* until the device request it asks for is complete.  A refusal of that    *)
(* request is returned and the parked one stays where it is.               *)
(***************************************************************************)
FaultParkedUnlocked(s) ==
    dx' = [dx EXCEPT !.PendingSystemPowerIrp = s] /\ UNCHANGED B

Park(s) ==
    /\ dx' = [dx EXCEPT !.PendingSystemPowerIrp = s]
    /\ B' = [B EXCEPT !.holders = @ \cup {"system"}]

SystemPower(s) ==
    LET want == DeviceStateFor(s) IN
    /\ phase = "added" /\ ~B.closed
    /\ dx.PendingSystemPowerIrp = 0 /\ irp.device.at = "none" /\ todo["device"] = <<>>
    /\ s # irp.system
    /\ \/ /\ want = dx.DevicePowerState
          /\ Spend("transitions", MaxTransitions)
          /\ irp' = [irp EXCEPT !.system = s]
          /\ UNCHANGED <<dx, B>>
       \/ /\ want # dx.DevicePowerState
          /\ Park(s)
          /\ Spend("transitions", MaxTransitions)
          /\ irp' = [irp EXCEPT !.device = [at |-> "requested", state |-> want]]
       \/ /\ want # dx.DevicePowerState
          /\ Park(s)
          /\ Spend("refusals", MaxRefusals)
          /\ UNCHANGED irp
    /\ UNCHANGED <<phase, os, todo, tries, A, histories>>

(* AdaptoidSystemPowerComplete *)
FaultOnlyWhenReady ==
    /\ irp.device.at = "complete"
    /\ irp' = [irp EXCEPT !.device = NoPower,
                  !.system = IF IsDeviceReady(dx) THEN dx.PendingSystemPowerIrp ELSE @]
    /\ dx' = [dx EXCEPT !.PendingSystemPowerIrp = IF IsDeviceReady(dx) THEN 0 ELSE @]
    /\ B' = [B EXCEPT !.holders = IF IsDeviceReady(dx) THEN @ \ {"system"} ELSE @]
    /\ Uses
    /\ UNCHANGED <<phase, os, todo, tries, A, lost, count>>

SystemPowerComplete ==
    /\ irp.device.at = "complete"
    /\ irp' = [irp EXCEPT !.device = NoPower, !.system = dx.PendingSystemPowerIrp]
    /\ dx' = [dx EXCEPT !.PendingSystemPowerIrp = 0]
    /\ B' = [B EXCEPT !.holders = @ \ {"system"}]
    /\ Uses
    /\ UNCHANGED <<phase, os, todo, tries, A, lost, count>>

(***************************************************************************)
(* A device request arrives.  Going down is prepared before it is passed   *)
(* down (AdaptoidPrepareDevicePower); going up waits for the bus; a state  *)
(* that is neither is only passed down.                                    *)
(***************************************************************************)
DevicePower ==
    /\ irp.device.at = "requested"
    /\ \/ /\ B.closed                                      \* completed with the error
          /\ irp' = [irp EXCEPT !.device.at = "complete"]
          /\ UNCHANGED <<dx, todo, B>>
       \/ /\ ~B.closed /\ irp.device.state = D0
          /\ irp' = [irp EXCEPT !.device.at = "coming_up"]
          /\ B' = [B EXCEPT !.holders = @ \cup {"device"}]
          /\ UNCHANGED <<dx, todo>>
       \/ /\ ~B.closed /\ irp.device.state # D0
          /\ irp' = [irp EXCEPT !.device.at = "prepared"]
          /\ B' = [B EXCEPT !.holders = @ \cup {"device"}]
          /\ IF irp.device.state \in (D0 + 1)..D3
             THEN /\ dx' = [dx EXCEPT !.DevicePowerState = irp.device.state]
                  /\ todo' = [todo EXCEPT !["device"] =
                                 <<"stop_power", "quiesce", "power_down", "power_answer">>]
             ELSE /\ todo' = [todo EXCEPT !["device"] = <<"power_down", "power_answer">>]
                  /\ UNCHANGED dx
    /\ Uses
    /\ UNCHANGED <<phase, os, tries, A, lost, count>>

PowerDown ==
    /\ Doing("device", "power_down") /\ Onward("device")
    /\ irp' = [irp EXCEPT !.device.at = "going_down"]
    /\ UNCHANGED <<dx, phase, os, tries, A, B, lost, count>>

PowerAnswered ==
    /\ Doing("device", "power_answer") /\ Onward("device")
    /\ B' = [B EXCEPT !.holders = @ \ {"device"}]
    /\ UNCHANGED <<dx, phase, os, tries, A, irp, lost, count>>

(* The bus completes a request that went down with no completion routine (external). *)
BusPoweredDown ==
    /\ irp.device.at = "going_down"
    /\ irp' = [irp EXCEPT !.device.at = "complete"]
    /\ UNCHANGED <<dx, phase, os, todo, tries, A, B, histories, count>>

PowerUpComplete ==
    /\ irp.device.at = "coming_up"
    /\ irp' = [irp EXCEPT !.device.at = "came_up"]
    /\ dx' = PollStart([dx EXCEPT !.DevicePowerState = D0], "power", "device")
    /\ Uses
    /\ UNCHANGED <<phase, os, todo, tries, A, B, lost, count>>

FaultUpKeepsLock ==
    /\ irp.device.at = "came_up" /\ dx.read # "device"
    /\ irp' = [irp EXCEPT !.device.at = "complete"]
    /\ Uses
    /\ UNCHANGED <<dx, phase, os, todo, tries, A, B, lost, count>>

(* Its read is submitted: the lock is released, and the request goes up. *)
PowerUpReturns ==
    /\ irp.device.at = "came_up" /\ dx.read # "device"
    /\ irp' = [irp EXCEPT !.device.at = "complete"]
    /\ B' = [B EXCEPT !.holders = @ \ {"device"}]
    /\ Uses
    /\ UNCHANGED <<dx, phase, os, todo, tries, A, lost, count>>

(***************************************************************************)
(* AdaptoidUpdateIdlePower: whether it asks for another device state.      *)
(* Nothing ever counts an aborted pipe, so a device is never asked up, and *)
(* no caller asks it down.                                                 *)
(***************************************************************************)
AbortedPipeCount == 0
RequestsDevicePower(goIdle) ==
    /\ IsDeviceReady(dx)
    /\ dx.PendingSystemPowerIrp = 0 /\ ~dx.PowerRequestInProgress
    /\ goIdle <=> (AbortedPipeCount = 0)
    /\ dx.WakeIdleDeviceState \in (D0 + 1)..D3

(***************************************************************************)
(* AdaptoidPowerWaitWake: only for a device out of D0, and then waited for *)
(* with RemoveLockB held.  Its completion routine keeps the request for    *)
(* the waiter, which returns without completing it.                        *)
(***************************************************************************)
WaitWake ==
    /\ phase = "added" /\ irp.wake = "none" /\ ~B.closed
    /\ dx.DevicePowerState # D0 /\ DeviceWake <= dx.DevicePowerState
    /\ dx' = [dx EXCEPT !.WakeIdleDeviceState = DeviceWake, !.WaitWakePending = TRUE]
    /\ irp' = [irp EXCEPT !.wake = "pending"]
    /\ B' = [B EXCEPT !.holders = @ \cup {"wake"}]
    /\ UNCHANGED <<phase, os, todo, tries, A, histories, count>>

(* The bus completes it: the device woke, was cancelled or is gone (external). *)
WakeEnds ==
    /\ irp.wake = "pending"
    /\ irp' = [irp EXCEPT !.wake = "woken"]
    /\ UNCHANGED <<dx, phase, os, todo, tries, A, B, histories, count>>

WaitWakeReturns ==
    /\ irp.wake = "woken"
    /\ irp' = [irp EXCEPT !.wake = "abandoned"]
    /\ dx' = [dx EXCEPT !.PowerRequestInProgress = @ \/ RequestsDevicePower(FALSE),
                        !.WaitWakePending = FALSE]
    /\ B' = [B EXCEPT !.holders = @ \ {"wake"}]
    /\ Uses
    /\ UNCHANGED <<phase, os, todo, tries, A, lost, count>>

--------------------------------------------------------------------------------
PnpSteps ==
    \/ StartDown \/ FetchDeviceDescriptor \/ SelectConfiguration \/ SetStarted
    \/ QueryFirmwareInfo \/ SetDeviceName \/ StartPolling \/ Publish \/ StartAnswered
    \/ StopPolling("pnp", "stop_pnp", "pnp") \/ QuiesceIo("pnp") \/ UnconfigureDevice
    \/ Stopped \/ StopDown
    \/ DrainA \/ RegistryRemove \/ StopPolling("pnp", "stop_remove", "remove") \/ Abort
    \/ RemoveDown \/ CloseB \/ DrainB \/ UnwireDevice \/ FreeDeviceResources

PowerSteps ==
    \/ DevicePower \/ StopPolling("device", "stop_power", "power") \/ QuiesceIo("device")
    \/ PowerDown \/ PowerAnswered \/ BusPoweredDown \/ PowerUpComplete \/ PowerUpReturns
    \/ SystemPowerComplete \/ WaitWakeReturns

Next ==
    \/ AddDevice
    \/ StartDevice \/ QueryRemove \/ CancelRemove \/ QueryStop \/ CancelStop \/ StopDevice
    \/ Unplug \/ SurpriseRemoval \/ RemoveDevice
    \/ PnpSteps \/ ReadReturns \/ ReadStops \/ PollSubmit
    \/ HidRequest \/ HidRequestReturns \/ ParkedReadEnds
    \/ \E s \in {S0, S3} : SystemPower(s)
    \/ PowerSteps \/ WaitWake \/ WakeEnds

Spec == Init /\ [][Next]_vars

(***************************************************************************)
(* A request in the driver goes on, and so does a completion; the bus      *)
(* completes what it was passed and cancels, and the power manager         *)
(* delivers a request it accepted.  A wake may be waited for for ever, but *)
(* the bus fails one outstanding when it is told of the removal, and then  *)
(* hidclass cancels the read it has parked.                                *)
(***************************************************************************)
Fairness ==
    /\ WF_vars(PnpSteps)
    /\ WF_vars(DevicePower) /\ WF_vars(PowerDown) /\ WF_vars(PowerAnswered)
    /\ WF_vars(StopPolling("device", "stop_power", "power")) /\ WF_vars(QuiesceIo("device"))
    /\ WF_vars(BusPoweredDown) /\ WF_vars(PowerUpComplete) /\ WF_vars(PowerUpReturns)
    /\ WF_vars(SystemPowerComplete)
    /\ WF_vars(WaitWakeReturns) /\ WF_vars(os.bus = "removed" /\ WakeEnds)
    /\ WF_vars(HidRequestReturns) /\ WF_vars(os.mgr = "removing" /\ ParkedReadEnds)
    /\ WF_vars(PollSubmit) /\ WF_vars(ReadStops)

FairSpec == Spec /\ Fairness

--------------------------------------------------------------------------------
(* Properties *)

(***************************************************************************)
(* No request of the driver touches the extension after a removal has      *)
(* returned and hidclass has it back: a parked system power request, a     *)
(* device power request on the bus, a wake that is waited for, a parked    *)
(* HID read and a poll read that was sent again behind the abort each keep *)
(* the removal waiting.                                                    *)
(***************************************************************************)
NeverUsedAfterFree == ~misuse

(***************************************************************************)
(* Whatever fails in a bring-up, and however often the descriptor fetch    *)
(* grows its buffer, a device that is added and started at most once loses *)
(* no block, and a removal gives all of them back.                         *)
(***************************************************************************)
BlocksReturned ==
    /\ phase = "freed" => dx.ptr = {}
    /\ count.starts <= 1 /\ phase # "refused" => lost = {}

(***************************************************************************)
(* A listed device has the name of where it is: followed digit by digit    *)
(* from the root hub of its controller, the name leads to an adapter with  *)
(* the address it reported, and a device has no name only when there is no *)
(* such adapter at a depth that fits (AdaptoidBuildLocationName).          *)
(***************************************************************************)
NameLeadsToAdapter ==
    LET Here(found) == \E at \in found : at.address = dx.UsbAddress IN
    dx.Registration = "live" =>
        IF dx.device_name # Nameless THEN Here(LeadsTo(dx.Topology, dx.device_name))
        ELSE ~Here(Within(dx.Topology, NameBytes - 2))

(***************************************************************************)
(* A removal that was sent ends, whatever power, wake and read requests    *)
(* are in the driver when it comes (with no device power request refused). *)
(***************************************************************************)
RemovalEnds == os.mgr = "removing" ~> phase = "freed"

(***************************************************************************)
(* A parked system power request is passed on, also when the device is     *)
(* stopped, removed or unplugged while it waits (with no device power      *)
(* request refused).                                                       *)
(***************************************************************************)
SystemPowerAnswered == dx.PendingSystemPowerIrp # 0 ~> dx.PendingSystemPowerIrp = 0

--------------------------------------------------------------------------------
(* What the code does not keep *)

(***************************************************************************)
(* Polling reads are out only while the bus driver has the device started: *)
(* STOP and REMOVE tear down before they pass down and START passes down   *)
(* first ("That ordering is what keeps the poll loop from touching USB     *)
(* resources the bus driver has already reclaimed", wdm.c:1139).  A        *)
(* completion that looked at the mask before the stop sends its read again *)
(* after the abort.                                                        *)
(***************************************************************************)
BusOwnsReads == dx.read = "out" => os.bus = "started"

(***************************************************************************)
(* A sleeping system has the adapter out of D0 (wdm.h:448: the driver      *)
(* "maps system states to device states itself, out of the                 *)
(* DEVICE_CAPABILITIES it fetched at start"; it fetches none).             *)
(***************************************************************************)
AsleepIsPoweredDown ==
    irp.system # S0 /\ dx.PendingSystemPowerIrp = 0 /\ os.mgr # "removing"
        => dx.DevicePowerState # D0

(***************************************************************************)
(* A device the PnP manager has running takes requests                     *)
(* (AdaptoidIsDeviceReady): nothing clears StopPending on a STOP or START. *)
(***************************************************************************)
RunningIsReady == os.mgr = "running" => IsDeviceReady(dx)

(***************************************************************************)
(* No block is ever lost: a second START overwrites the pointers of the    *)
(* first, a refused AddDevice forgets the interface name.                  *)
(***************************************************************************)
NothingLost == lost = {}

(***************************************************************************)
(* A wake request is completed: the one that was waited for never is.      *)
(***************************************************************************)
WakeIsCompleted == irp.wake # "abandoned"

(***************************************************************************)
(* A device that the bus no longer has is not in the driver-wide registry  *)
(* as live: a removal takes it off only after everything else.             *)
(***************************************************************************)
LiveIsOnBus == dx.Registration = "live" => os.bus = "started"
================================================================================
