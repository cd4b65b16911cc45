------------------------------ MODULE PollEngine -------------------------------
(***************************************************************************)
(* The interrupt-pipe reads: AdaptoidPollStart, AdaptoidPollStop,          *)
(* AdaptoidPollComplete and the restart worker, driven by PnP and power    *)
(* requests, with the bus driver (external) completing, failing and        *)
(* cancelling the reads.                                                   *)
(*                                                                         *)
(* Each PollLock section is one step and so is each thing done between     *)
(* two sections (the cancels, a submit): those are the points where the    *)
(* other threads get in.                                                   *)
(***************************************************************************)
EXTENDS Naturals, Sequences, FiniteSets

CONSTANTS Dpcs,             \* processors a read can complete on
          Pnp, Power, Worker, \* the PnP and power dispatch threads, the work item's
          Irps,             \* the read IRPs (each with its URB) there is pool for
          NoIrp,
          NoSlot,           \* ADAPTOID_POLL_SLOTS as a slot number: "cancel everything"
          RecoverTries,     \* ADAPTOID_RECOVER_TRIES
          MaxStarts,        \* bound: START_DEVICE requests
          MaxUpsets         \* bound: reads that fail of themselves, and transitions out of D0

ASSUME PollConstants ==
    /\ RecoverTries \in Nat \ {0}
    /\ {MaxStarts, MaxUpsets} \subseteq Nat

ASSUME DistinctThreads ==
    /\ Pnp # Power /\ Pnp # Worker /\ Power # Worker
    /\ {Pnp, Power, Worker} \cap Dpcs = {}

Slots == {0, 1}
Other(s) == 1 - s
Clients == {Pnp, Power, Worker}
Threads == Dpcs \cup Clients
Reasons == {"error", "pnp", "remove", "power"}

ASSUME NoSlotIsNoSlot == NoSlot \notin Slots

VARIABLES
    PollStopMask,           \* the set of stop reasons
    Active, CancelLatch, Irp, \* PollSlot[i]; Urb goes with Irp
    InterruptPipe,          \* a configuration is selected
    pool,                   \* each read IRP: where it is and for which slot
    th,                     \* the threads in the driver
    PollRestartPending,
    work,                   \* restarts queued on the work item
    refsB,                  \* RemoveLockB references held across queued restarts
    removal,                \* REMOVE_DEVICE
    DevicePowerState,       \* "D0" or "D3"
    starts, upsets

slotVars == <<Active, CancelLatch, Irp>>
restartVars == <<PollRestartPending, work, refsB>>
deviceVars == <<InterruptPipe, removal, DevicePowerState>>
bounds == <<starts, upsets>>
vars == <<PollStopMask, slotVars, pool, th, restartVars, deviceVars, bounds>>

NoCancel == [i \in Slots |-> NoIrp]
IdleThread == [at |-> "idle", todo |-> <<>>, cancel |-> NoCancel, submit |-> {},
               slot |-> NoSlot, ok |-> TRUE, last |-> FALSE, tries |-> 0]
FreeIrp == [at |-> "free", slot |-> NoSlot]

OnBus(p) == pool[p].at \in {"bus", "cancelled"}

TypeOK ==
    /\ PollStopMask \subseteq Reasons
    /\ Active \in [Slots -> BOOLEAN]
    /\ CancelLatch \in [Slots -> BOOLEAN]
    /\ Irp \in [Slots -> Irps \cup {NoIrp}]
    /\ InterruptPipe \in BOOLEAN
    /\ pool \in [Irps -> [at : {"free", "bus", "cancelled", "done"},
                          slot : Slots \cup {NoSlot}]]
    /\ \A t \in Threads :
          /\ th[t].at \in {"idle", "complete", "resubmit", "stop", "cancel", "settle",
                           "stopped", "run", "aborting", "submit", "recover", "release"}
          /\ th[t].cancel \in [Slots -> Irps \cup {NoIrp}]
          /\ th[t].submit \subseteq Slots
          /\ th[t].slot \in Slots \cup {NoSlot}
          /\ th[t].tries \in 0..RecoverTries
    /\ PollRestartPending \in BOOLEAN
    /\ work \in Nat /\ refsB \in Nat
    /\ removal \in {"none", "removing", "closed", "unwired"}
    /\ DevicePowerState \in {"D0", "D3"}
    /\ starts \in 0..MaxStarts /\ upsets \in 0..MaxUpsets

(***************************************************************************)
(* AdaptoidDevExtInit: polling starts stopped, for the PnP reason.         *)
(***************************************************************************)
Init ==
    /\ PollStopMask = {"pnp"}
    /\ Active = [i \in Slots |-> FALSE]
    /\ CancelLatch = [i \in Slots |-> FALSE]
    /\ Irp = [i \in Slots |-> NoIrp]
    /\ InterruptPipe = FALSE
    /\ pool = [p \in Irps |-> FreeIrp]
    /\ th = [t \in Threads |-> IdleThread]
    /\ PollRestartPending = FALSE /\ work = 0 /\ refsB = 0
    /\ removal = "none" /\ DevicePowerState = "D0"
    /\ starts = 0 /\ upsets = 0

Goto(t, to) == th' = [th EXCEPT ![t].at = to]

(***************************************************************************)
(* What a thread goes on to: a request to the next thing it has to do, the *)
(* worker to its release, a completion to the test of last.                *)
(***************************************************************************)
Onward(t, r) ==
    IF t \in Dpcs THEN [r EXCEPT !.at = "stopped"]
    ELSE IF t = Worker THEN [r EXCEPT !.at = "release"]
    ELSE IF Len(r.todo) > 1 THEN [r EXCEPT !.at = "run", !.todo = Tail(@)]
    ELSE IdleThread

Done(t) == th' = [th EXCEPT ![t] = Onward(t, @)]

(***************************************************************************)
(* AdaptoidFreePollIrp of a set of IRPs: only one that has come back from  *)
(* the bus may be freed.                                                   *)
(***************************************************************************)
FreePollIrps(P) ==
    pool' = [p \in Irps |-> IF p \in P THEN FreeIrp ELSE pool[p]]

--------------------------------------------------------------------------------
(* AdaptoidPollStart and AdaptoidPollSubmit *)

(***************************************************************************)
(* Clear a reason; with none left, every slot is active and those that     *)
(* were not are to be submitted, after the lock is dropped.                *)
(***************************************************************************)
FaultStartSubmitsAll(t, reason) ==
    LET left == PollStopMask \ {reason} IN
    /\ PollStopMask' = left
    /\ IF left = {}
       THEN /\ th' = [th EXCEPT ![t].at = "submit", ![t].submit = Slots]
            /\ Active' = [i \in Slots |-> TRUE]
       ELSE Done(t) /\ UNCHANGED Active

PollStart(t, reason) ==
    LET left == PollStopMask \ {reason} IN
    /\ PollStopMask' = left
    /\ IF left = {}
       THEN /\ Active' = [i \in Slots |-> TRUE]
            /\ LET out == {i \in Slots : ~Active[i]} IN
               IF out = {} THEN Done(t)
               ELSE th' = [th EXCEPT ![t].at = "submit", ![t].submit = out]
       ELSE Done(t) /\ UNCHANGED Active

(***************************************************************************)
(* Without a pipe, or without memory, no read goes out and nobody is told. *)
(***************************************************************************)
PollSubmit(s) ==
    IF InterruptPipe /\ \E p \in Irps : pool[p].at = "free"
    THEN \E p \in Irps :
            /\ pool[p].at = "free"
            /\ pool' = [pool EXCEPT ![p] = [at |-> "bus", slot |-> s]]
            /\ Irp' = [Irp EXCEPT ![s] = p]
    ELSE UNCHANGED <<pool, Irp>>

StartSubmit(t) ==
    /\ th[t].at = "submit"
    /\ LET s == CHOOSE i \in th[t].submit : \A j \in th[t].submit : i <= j IN
       /\ PollSubmit(s)
       /\ IF th[t].submit = {s}
          THEN th' = [th EXCEPT ![t] = Onward(t, [@ EXCEPT !.submit = {}])]
          ELSE th' = [th EXCEPT ![t].submit = @ \ {s}]
    /\ UNCHANGED <<PollStopMask, Active, CancelLatch, restartVars, deviceVars, bounds>>

--------------------------------------------------------------------------------
(* AdaptoidPollStop *)

(***************************************************************************)
(* The first section: add the reasons, retire the completing slot s if     *)
(* there is one, latch every active slot that is not latched yet and note  *)
(* the read it has, if any.                                                *)
(***************************************************************************)
PollStop(t, reasons, s) ==
    LET act == [i \in Slots |-> Active[i] /\ i # s]
        taken == {i \in Slots : act[i] /\ ~CancelLatch[i]}
        cancel == [i \in Slots |-> IF i \in taken THEN Irp[i] ELSE NoIrp]
    IN  /\ PollStopMask' = PollStopMask \cup reasons
        /\ Active' = act
        /\ CancelLatch' = [i \in Slots |-> CancelLatch[i] \/ i \in taken]
        /\ LET r == [th[t] EXCEPT !.at = "cancel", !.cancel = cancel,
                                  !.last = s # NoSlot /\ Irp[Other(s)] = NoIrp]
           IN  th' = [th EXCEPT ![t] = IF cancel = NoCancel THEN Onward(t, r) ELSE r]

Cancelling(t) == {th[t].cancel[i] : i \in Slots} \ {NoIrp}

StopCancel(t) ==
    /\ th[t].at = "cancel"
    /\ pool' = [p \in Irps |-> IF p \in Cancelling(t) /\ pool[p].at = "bus"
                               THEN [pool[p] EXCEPT !.at = "cancelled"]
                               ELSE pool[p]]
    /\ Goto(t, "settle")
    /\ UNCHANGED <<PollStopMask, slotVars, restartVars, deviceVars, bounds>>

(***************************************************************************)
(* The second section: a latch still set means the completion is to come   *)
(* and will free; a clear one means it has been, and left the freeing.     *)
(***************************************************************************)
StopSettle(t) ==
    /\ th[t].at = "settle"
    /\ CancelLatch' = [i \in Slots |-> CancelLatch[i] /\ th[t].cancel[i] = NoIrp]
    /\ FreePollIrps({th[t].cancel[i] : i \in {j \in Slots : ~CancelLatch[j]}} \ {NoIrp})
    /\ th' = [th EXCEPT ![t] = Onward(t, [@ EXCEPT !.cancel = NoCancel])]
    /\ UNCHANGED <<PollStopMask, Active, Irp, restartVars, deviceVars, bounds>>

--------------------------------------------------------------------------------
(* AdaptoidPollComplete *)

(***************************************************************************)
(* The bus driver gives a read back: a full packet, or a failure if it was *)
(* cancelled or the device is in trouble.                                  *)
(***************************************************************************)
HostComplete(t, p, ok) ==
    /\ th[t].at = "idle"
    /\ OnBus(p)
    /\ IF ok \/ pool[p].at = "cancelled"
       THEN UNCHANGED upsets
       ELSE upsets < MaxUpsets /\ upsets' = upsets + 1
    /\ pool' = [pool EXCEPT ![p].at = "done"]
    /\ th' = [th EXCEPT ![t].at = "complete", ![t].slot = pool[p].slot, ![t].ok = ok]
    /\ UNCHANGED <<PollStopMask, slotVars, restartVars, deviceVars, starts>>

(***************************************************************************)
(* Take the slot's IRP; free it unless a stop has the slot latched.        *)
(***************************************************************************)
FaultCompleteIgnoresMask(t) ==
    LET s == th[t].slot IN
    /\ th[t].at = "complete"
    /\ Irp' = [Irp EXCEPT ![s] = NoIrp]
    /\ CancelLatch' = [CancelLatch EXCEPT ![s] = FALSE]
    /\ FreePollIrps(IF CancelLatch[s] \/ Irp[s] = NoIrp THEN {} ELSE {Irp[s]})
    /\ Goto(t, IF th[t].ok THEN "resubmit" ELSE "stop")
    /\ UNCHANGED <<PollStopMask, Active, restartVars, deviceVars, bounds>>

CompleteTake(t) ==
    LET s == th[t].slot IN
    /\ th[t].at = "complete"
    /\ Irp' = [Irp EXCEPT ![s] = NoIrp]
    /\ CancelLatch' = [CancelLatch EXCEPT ![s] = FALSE]
    /\ FreePollIrps(IF CancelLatch[s] \/ Irp[s] = NoIrp THEN {} ELSE {Irp[s]})
    /\ Goto(t, IF PollStopMask = {} /\ th[t].ok THEN "resubmit" ELSE "stop")
    /\ UNCHANGED <<PollStopMask, Active, restartVars, deviceVars, bounds>>

(***************************************************************************)
(* A good packet goes to the core (module ReportPath has what becomes of   *)
(* it) and the slot goes out again, on the mask read under the lock.       *)
(***************************************************************************)
CompleteResubmit(t) ==
    /\ th[t].at = "resubmit"
    /\ PollSubmit(th[t].slot)
    /\ th' = [th EXCEPT ![t] = IdleThread]
    /\ UNCHANGED <<PollStopMask, Active, CancelLatch, restartVars, deviceVars, bounds>>

CompleteStop(t) ==
    /\ th[t].at = "stop"
    /\ PollStop(t, IF th[t].ok THEN {} ELSE {"error"}, th[t].slot)
    /\ UNCHANGED <<Irp, pool, restartVars, deviceVars, bounds>>

(***************************************************************************)
(* The last slot out after a failure queues the restart, holding           *)
(* RemoveLockB for it.                                                     *)
(***************************************************************************)
CompleteReturn(t) ==
    /\ t \in Dpcs
    /\ th[t].at = "stopped"
    /\ IF th[t].last /\ ~th[t].ok /\ removal \in {"none", "removing"}
       THEN /\ PollRestartPending' = TRUE
            /\ work' = work + 1
            /\ refsB' = refsB + 1
       ELSE UNCHANGED restartVars
    /\ th' = [th EXCEPT ![t] = IdleThread]
    /\ UNCHANGED <<PollStopMask, slotVars, pool, deviceVars, bounds>>

--------------------------------------------------------------------------------
(* AdaptoidPollRestartWorker and AdaptoidRecoverPort *)

WorkerBegin ==
    /\ th[Worker].at = "idle"
    /\ work > 0
    /\ work' = work - 1
    /\ PollRestartPending' = FALSE
    /\ th' = [th EXCEPT ![Worker].at = IF PollRestartPending THEN "recover" ELSE "release",
                        ![Worker].tries = IF PollRestartPending THEN RecoverTries ELSE 0]
    /\ UNCHANGED <<PollStopMask, slotVars, pool, refsB, deviceVars, bounds>>

RecoverReset ==                         \* connected but disabled, and the reset worked
    /\ th[Worker].at = "recover"
    /\ PollStart(Worker, "error")
    /\ UNCHANGED <<CancelLatch, Irp, pool, restartVars, deviceVars, bounds>>

RecoverResetFails ==                    \* out of tries: cycle the port
    /\ th[Worker].at = "recover"
    /\ th' = [th EXCEPT ![Worker].tries = @ - 1,
                        ![Worker].at = IF th[Worker].tries = 1 THEN "release" ELSE @]
    /\ UNCHANGED <<PollStopMask, slotVars, pool, restartVars, deviceVars, bounds>>

RecoverGivesUp ==                       \* any other port status: cycled at once
    /\ th[Worker].at = "recover"
    /\ Goto(Worker, "release")
    /\ UNCHANGED <<PollStopMask, slotVars, pool, restartVars, deviceVars, bounds>>

WorkerRelease ==
    /\ th[Worker].at = "release"
    /\ refsB' = refsB - 1
    /\ th' = [th EXCEPT ![Worker] = IdleThread]
    /\ UNCHANGED <<PollStopMask, slotVars, pool, PollRestartPending, work, deviceVars,
                   bounds>>

--------------------------------------------------------------------------------
(* The dispatch threads: what each request has left to do is th[t].todo *)

Dispatch(t, program) ==
    th' = [th EXCEPT ![t].at = "run", ![t].todo = program]

(***************************************************************************)
(* IRP_MN_START_DEVICE, as far as polling goes.                            *)
(***************************************************************************)
StartDevice ==
    /\ th[Pnp].at = "idle"
    /\ removal = "none" /\ ~InterruptPipe
    /\ starts < MaxStarts /\ starts' = starts + 1
    /\ InterruptPipe' = TRUE
    /\ PollStart(Pnp, "pnp")
    /\ UNCHANGED <<CancelLatch, Irp, pool, restartVars, removal, DevicePowerState, upsets>>

(***************************************************************************)
(* IRP_MN_STOP_DEVICE: stop, AdaptoidQuiesceIo (stop again, abort the      *)
(* pipe), AdaptoidUnconfigureDevice.                                       *)
(***************************************************************************)
StopDevice ==
    /\ th[Pnp].at = "idle"
    /\ removal = "none" /\ InterruptPipe
    /\ Dispatch(Pnp, <<"pnp", "pnp", "abort", "unconfigure">>)
    /\ UNCHANGED <<PollStopMask, slotVars, pool, restartVars, deviceVars, bounds>>

(***************************************************************************)
(* IRP_MN_REMOVE_DEVICE, from the stop to the wait for RemoveLockB.        *)
(***************************************************************************)
RemoveDevice ==
    /\ th[Pnp].at = "idle"
    /\ removal = "none"
    /\ removal' = "removing"
    /\ Dispatch(Pnp, <<"remove", "pnp", "abort", "abort", "close", "unwire">>)
    /\ UNCHANGED <<PollStopMask, slotVars, pool, restartVars, InterruptPipe, DevicePowerState, bounds>>

(***************************************************************************)
(* AdaptoidPrepareDevicePower out of D0, and PowerUpComplete back into it. *)
(* A power request holds RemoveLockB while it is in the driver.            *)
(***************************************************************************)
PowerDown ==
    /\ th[Power].at = "idle"
    /\ removal \in {"none", "removing"}
    /\ DevicePowerState = "D0" /\ upsets < MaxUpsets
    /\ DevicePowerState' = "D3"
    /\ upsets' = upsets + 1
    /\ Dispatch(Power, <<"power", "pnp", "abort">>)
    /\ UNCHANGED <<PollStopMask, slotVars, pool, restartVars, InterruptPipe, removal, starts>>

PowerUp ==
    /\ th[Power].at = "idle"
    /\ removal \in {"none", "removing"}
    /\ DevicePowerState = "D3"
    /\ DevicePowerState' = "D0"
    /\ PollStart(Power, "power")
    /\ UNCHANGED <<CancelLatch, Irp, pool, restartVars, InterruptPipe, removal,
                   bounds>>

NextIs(t, op) == th[t].at = "run" /\ Head(th[t].todo) = op

ClientStop(t) ==
    \E reason \in Reasons :
        /\ NextIs(t, reason)
        /\ PollStop(t, {reason}, NoSlot)
        /\ UNCHANGED <<Irp, pool, restartVars, deviceVars, bounds>>

(***************************************************************************)
(* The bus driver hands back everything queued on the pipe (external: the  *)
(* reads come back failed) ...                                             *)
(***************************************************************************)
BusReturnsAll ==
    pool' = [p \in Irps |-> IF OnBus(p) THEN [pool[p] EXCEPT !.at = "cancelled"] ELSE pool[p]]

(***************************************************************************)
(* ... for AdaptoidAbortPipes before it answers, if there is a pipe.       *)
(***************************************************************************)
AbortPipes(t) ==
    /\ NextIs(t, "abort")
    /\ IF InterruptPipe
       THEN BusReturnsAll /\ Goto(t, "aborting")
       ELSE Done(t) /\ UNCHANGED pool
    /\ UNCHANGED <<PollStopMask, slotVars, restartVars, deviceVars, bounds>>

AbortReturns(t) ==
    /\ th[t].at = "aborting"
    /\ \A p \in Irps : ~OnBus(p)
    /\ Done(t)
    /\ UNCHANGED <<PollStopMask, slotVars, pool, restartVars, deviceVars, bounds>>

UnconfigureDevice ==
    /\ NextIs(Pnp, "unconfigure")
    /\ InterruptPipe' = FALSE
    /\ Done(Pnp)
    /\ UNCHANGED <<PollStopMask, slotVars, pool, restartVars, removal, DevicePowerState, bounds>>

(***************************************************************************)
(* REMOVE is passed down, then RemoveLockB is closed and waited for.       *)
(***************************************************************************)
CloseB ==
    /\ NextIs(Pnp, "close")
    /\ BusReturnsAll
    /\ removal' = "closed"
    /\ Done(Pnp)
    /\ UNCHANGED <<PollStopMask, slotVars, restartVars, InterruptPipe, DevicePowerState, bounds>>

FaultUnwireTooSoon ==
    /\ NextIs(Pnp, "unwire")
    /\ th[Power].at = "idle"
    /\ removal' = "unwired"
    /\ Done(Pnp)
    /\ UNCHANGED <<PollStopMask, slotVars, pool, restartVars, InterruptPipe, DevicePowerState, bounds>>

Unwire ==
    /\ NextIs(Pnp, "unwire")
    /\ refsB = 0 /\ th[Power].at = "idle"
    /\ removal' = "unwired"
    /\ Done(Pnp)
    /\ UNCHANGED <<PollStopMask, slotVars, pool, restartVars, InterruptPipe, DevicePowerState, bounds>>

--------------------------------------------------------------------------------

InStop(t) == StopCancel(t) \/ StopSettle(t)

Completion(t) ==
    InStop(t) \/ CompleteTake(t) \/ CompleteResubmit(t) \/ CompleteStop(t) \/ CompleteReturn(t)

Dispatcher(t) ==
    InStop(t) \/ ClientStop(t) \/ StartSubmit(t) \/ AbortPipes(t) \/ AbortReturns(t)

PnpThread == Dispatcher(Pnp) \/ UnconfigureDevice \/ CloseB \/ Unwire

Ladder == RecoverReset \/ RecoverResetFails \/ RecoverGivesUp

WorkerThread ==
    WorkerBegin \/ Ladder \/ StartSubmit(Worker) \/ WorkerRelease

Requests == StartDevice \/ StopDevice \/ RemoveDevice \/ PowerDown \/ PowerUp

BusCompletes == \E t \in Dpcs, p \in Irps, ok \in BOOLEAN : HostComplete(t, p, ok)

Next ==
    \/ \E t \in Dpcs : Completion(t)
    \/ PnpThread \/ Dispatcher(Power) \/ WorkerThread
    \/ Requests
    \/ BusCompletes

Spec == Init /\ [][Next]_vars

(***************************************************************************)
(* Threads in the driver keep running, the port requests are answered, and *)
(* the bus driver gives back every read: the device sends a packet about   *)
(* every 8 ms, and a cancelled read comes back at once.                    *)
(***************************************************************************)
FairSpec ==
    /\ Spec
    /\ \A t \in Dpcs : WF_vars(Completion(t))
    /\ WF_vars(PnpThread) /\ WF_vars(Dispatcher(Power)) /\ WF_vars(WorkerThread)
    /\ \A p \in Irps : WF_vars(\E t \in Dpcs, ok \in BOOLEAN : HostComplete(t, p, ok))

--------------------------------------------------------------------------------

(***************************************************************************)
(* A slot has at most one read out, and the slot's Irp field is it: two    *)
(* starts, or a start racing a completion, never submit a second.          *)
(***************************************************************************)
OneReadPerSlot ==
    \A p \in Irps : OnBus(p) => Irp[pool[p].slot] = p

(***************************************************************************)
(* The handshake on CancelLatch never frees an IRP twice, frees one that   *)
(* is still out, or cancels a freed one.                                   *)
(***************************************************************************)
NeverFreedTwice ==
    \A t \in Threads, i \in Slots :
        LET p == th[t].cancel[i] IN
        p # NoIrp =>
            /\ th[t].at = "cancel" => pool[p].at # "free"
            /\ th[t].at = "settle" /\ ~CancelLatch[i] => pool[p].at = "done"

(***************************************************************************)
(* The other half of the comment on CancelLatch ("never freed twice and    *)
(* never leaked"): a read that has come back is freed or is in the hands   *)
(* of a completion or of a stop that will look at it again.                *)
(***************************************************************************)
NeverLeaked ==
    \A p \in Irps : pool[p].at = "done" =>
        \/ \E i \in Slots : Irp[i] = p
        \/ \E t \in Threads : p \in Cancelling(t)

(***************************************************************************)
(* The device is not taken apart while the restart ladder is queued or     *)
(* running: the reference taken by the completion covers all of it.        *)
(***************************************************************************)
RestartPinsDevice ==
    removal = "unwired" => work = 0 /\ th[Worker].at = "idle"

(***************************************************************************)
(* The comment on AdaptoidPollStop: the restart work is queued "exactly    *)
(* once no matter which of the two reads failed first", one work item.     *)
(***************************************************************************)
RestartQueuedOnce == work <= 1

(***************************************************************************)
(* Same comment: and it is queued.  A polling error gets to the restart    *)
(* ladder, unless the device is removed.                                   *)
(***************************************************************************)
ErrorIsRecovered ==
    ("error" \in PollStopMask) ~>
        ("error" \notin PollStopMask \/ th[Worker].at = "recover" \/ removal # "none")

(***************************************************************************)
(* The comment on AdaptoidUnconfigureDevice: "nothing may be in flight     *)
(* when it goes out".                                                      *)
(***************************************************************************)
NothingInFlightWhenUnconfigured ==
    ~InterruptPipe => \A p \in Irps : ~OnBus(p)

(***************************************************************************)
(* The comment on PowerUpComplete: "polling can genuinely start again".    *)
(* Back in D0 with the device configured, nothing wrong with the port and  *)
(* no request in the driver, no stop reason is left.                       *)
(***************************************************************************)
PolledInD0 ==
    (/\ DevicePowerState = "D0" /\ InterruptPipe /\ removal = "none"
     /\ \A t \in Threads : th[t].at = "idle"
     /\ work = 0 /\ "error" \notin PollStopMask)
    => PollStopMask = {}

(***************************************************************************)
(* Once some stop reason stays, the reads drain: none is resubmitted for   *)
(* ever.                                                                   *)
(***************************************************************************)
StoppedReadsEnd ==
    <>[](PollStopMask # {}) => <>[](\A p \in Irps : ~OnBus(p))

(***************************************************************************)
(* REMOVE gets to the end, restart ladder or not.                          *)
(***************************************************************************)
RemovalEnds == (removal = "removing") ~> (removal = "unwired")
================================================================================
