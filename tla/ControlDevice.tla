----------------------------- MODULE ControlDevice -----------------------------
(***************************************************************************)
(* The control device \\.\Wish_NA1: its lifetime (a reference for each     *)
(* adapter, a count of open handles), the driver-wide notification queue,  *)
(* and the WAIT_NOTIFY requests parked on it, with adapters coming, going  *)
(* and posting script events, clients opening, waiting and closing, and    *)
(* the I/O manager (external) cancelling requests.                         *)
(*                                                                         *)
(* Parking, the cancel routine and AdaptoidCancelNotifications hold        *)
(* CdoExt->Lock; posting and flushing hold nothing, so each of their       *)
(* accesses to the queue is a step.  Which event is which does not matter  *)
(* here: the ring is the number of events in it.  An adapter's PnP         *)
(* requests and script passes are taken one at a time: two adapters post   *)
(* concurrently.  The settings of each adapter's core that an open puts    *)
(* back to default are the core's, and left out.                           *)
(***************************************************************************)
EXTENDS Naturals, Sequences, SequencesExt, FiniteSets

CONSTANTS Adapters,
          Handles,          \* file objects, each opened once
          Requests,         \* WAIT_NOTIFY IRPs, each sent once
          Client,           \* Client[r]: the handle r is sent on
          NotifyMax,        \* CORE_NOTIFY_MAX
          Nobody,
          MaxEvents         \* bound: events posted

ASSUME ControlConstants ==
    /\ NotifyMax \in Nat \ {0} /\ MaxEvents \in Nat
    /\ Client \in [Requests -> Handles]

Threads == Adapters \cup Handles \cup Requests

VARIABLES
    device,                 \* g_ControlDevice: "none", "there", "deleting", "deleted"
    refCount, OpenCount,    \* g_ControlRefCount; CdoExt->OpenCount
    adapter,                \* each adapter: "absent", "present" or "gone"
    live,                   \* the adapters whose registration is live
    count,                  \* events in the ring of core_notify
    waiters, delivering,    \* its list of parked requests and its latch
    lock,                   \* who holds CdoExt->Lock
    th,                     \* where each thread is, what it has in hand, what is left to do
    irp,                    \* each request: "unsent", "sent" or "done"
    routine,                \* the requests whose cancel routine is set
    cancelling,             \* the requests whose cancel routine the I/O manager is calling
    completions,            \* history: how often each was completed
    posted,                 \* events posted or about to be
    corrupt                 \* the queue was damaged by two unsynchronised threads

deviceVars == <<device, refCount, OpenCount>>
adapterVars == <<adapter, live>>
irpVars == <<irp, routine, cancelling, completions>>
controlVars ==
    <<deviceVars, adapterVars, count, waiters, delivering, lock, th, irpVars, posted, corrupt>>

Idle == [at |-> "idle", w |-> Nobody, todo |-> <<>>]

ControlTyped ==
    /\ device \in {"none", "there", "deleting", "deleted"}
    /\ refCount \in 0..Cardinality(Adapters) /\ OpenCount \in 0..Cardinality(Handles)
    /\ adapter \in [Adapters -> {"absent", "present", "gone"}] /\ live \subseteq Adapters
    /\ count \in 0..NotifyMax
    /\ waiters \in Seq(Requests) /\ IsInjective(waiters)
    /\ delivering \in BOOLEAN /\ lock \in Requests \cup {Nobody}
    /\ \A t \in Threads : th[t].w \in Requests \cup {Nobody}
    /\ irp \in [Requests -> {"unsent", "sent", "done"}]
    /\ routine \subseteq Requests /\ cancelling \subseteq Requests
    /\ completions \in [Requests -> Nat] /\ posted \in 0..MaxEvents /\ corrupt \in BOOLEAN

(***************************************************************************)
(* Some adapters may have come up already, and earlier clients may have    *)
(* read all the events of that.                                            *)
(***************************************************************************)
ControlInit ==
    /\ live \in SUBSET Adapters
    /\ adapter = [a \in Adapters |-> IF a \in live THEN "present" ELSE "absent"]
    /\ refCount = Cardinality(live) /\ OpenCount = 0
    /\ device = IF live = {} THEN "none" ELSE "there"
    /\ count = 0 /\ waiters = <<>> /\ delivering = FALSE /\ lock = Nobody
    /\ th = [t \in Threads |-> Idle]
    /\ irp = [r \in Requests |-> "unsent"]
    /\ routine = {} /\ cancelling = {}
    /\ completions = [r \in Requests |-> 0] /\ posted = 0 /\ corrupt = FALSE

At(t, pc) == th[t].at = pc
GoOn(t, pc) == th' = [th EXCEPT ![t].at = pc]
Take(t, w, pc) == th' = [th EXCEPT ![t].at = pc, ![t].w = w]
Then(r) == IF r.todo = <<>> THEN [r EXCEPT !.at = "idle", !.w = Nobody]
           ELSE [r EXCEPT !.at = Head(r.todo), !.w = Nobody, !.todo = Tail(@)]
Return(t) == th' = [th EXCEPT ![t] = Then(@)]
Call(t, program) ==
    th' = [th EXCEPT ![t] = Then([th[t] EXCEPT !.todo = program \o th[t].todo])]

(***************************************************************************)
(* AdaptoidCompleteIrp.                                                    *)
(***************************************************************************)
Complete(r) ==
    /\ irp' = [irp EXCEPT ![r] = "done"]
    /\ completions' = [completions EXCEPT ![r] = @ + 1]

--------------------------------------------------------------------------------
(* core_notify_post, core_notify_wait and the pump *)

(***************************************************************************)
(* core_notify_post: a full ring loses its oldest event.                   *)
(***************************************************************************)
PostAppend(t) ==
    /\ At(t, "post")
    /\ count' = IF count >= NotifyMax THEN count ELSE count + 1
    /\ GoOn(t, "latch")
    /\ UNCHANGED <<deviceVars, adapterVars, waiters, delivering, lock, irpVars, posted, corrupt>>

(***************************************************************************)
(* A poster pumps if somebody waits, a parker if an event waits, and each  *)
(* only if nobody is pumping already.                                      *)
(***************************************************************************)
LatchTest(t) ==
    LET work == IF t \in Requests THEN count > 0 ELSE waiters # <<>> IN
    /\ At(t, "latch")
    /\ IF work /\ ~delivering THEN GoOn(t, "latched") ELSE Return(t)
    /\ UNCHANGED <<deviceVars, adapterVars, count, waiters, delivering, lock, irpVars, posted,
                   corrupt>>

LatchSet(t) ==
    /\ At(t, "latched")
    /\ delivering' = TRUE
    /\ GoOn(t, "pump")
    /\ UNCHANGED <<deviceVars, adapterVars, count, waiters, lock, irpVars, posted, corrupt>>

(***************************************************************************)
(* notify_pump: while there are an event and a waiter, take the waiter off *)
(* the list, claim it, and only then consume the event.                    *)
(***************************************************************************)
PumpNext(t) ==
    /\ At(t, "pump")
    /\ IF count > 0 /\ waiters # <<>> THEN Take(t, Head(waiters), "pumpUnlink")
       ELSE GoOn(t, "unlatch")
    /\ UNCHANGED <<deviceVars, adapterVars, count, waiters, delivering, lock, irpVars, posted,
                   corrupt>>

(***************************************************************************)
(* nw_unlink by a thread that read the list head without the lock.  If     *)
(* another thread has unlinked the waiter meanwhile its links are null,    *)
(* and the write through them is the end of what can be said.              *)
(***************************************************************************)
UnlinkHead(t, from, to) ==
    /\ At(t, from)
    /\ IF Contains(waiters, th[t].w)
       THEN waiters' = Remove(waiters, th[t].w) /\ GoOn(t, to) /\ UNCHANGED corrupt
       ELSE corrupt' = TRUE /\ UNCHANGED <<waiters, th>>
    /\ UNCHANGED <<deviceVars, adapterVars, count, delivering, lock, irpVars, posted>>

(***************************************************************************)
(* AdaptoidClaimIrp, by whoever wants to complete the request it has in    *)
(* hand: it is the claimant's if the cancel routine was still set.         *)
(***************************************************************************)
ClaimIrp(t, from, won, lost) ==
    /\ At(t, from)
    /\ routine' = routine \ {th[t].w}
    /\ GoOn(t, IF th[t].w \in routine THEN won ELSE lost)
    /\ UNCHANGED <<deviceVars, adapterVars, count, waiters, delivering, lock, irp, cancelling,
                   completions, posted, corrupt>>

(***************************************************************************)
(* The event at the head goes to the claimed waiter (NotifyDeliver).  With *)
(* the ring emptied by another thread since the test, count goes negative. *)
(***************************************************************************)
PumpDeliver(t) ==
    /\ At(t, "pumpDeliver")
    /\ IF count = 0
       THEN corrupt' = TRUE /\ UNCHANGED <<count, th, irp, completions>>
       ELSE /\ count' = count - 1
            /\ Complete(th[t].w)
            /\ GoOn(t, "pump")
            /\ UNCHANGED corrupt
    /\ UNCHANGED <<deviceVars, adapterVars, waiters, delivering, lock, routine, cancelling,
                   posted>>

Unlatch(t) ==
    /\ At(t, "unlatch")
    /\ delivering' = FALSE
    /\ Return(t)
    /\ UNCHANGED <<deviceVars, adapterVars, count, waiters, lock, irpVars, posted, corrupt>>

(***************************************************************************)
(* core_notify_flush: abort every waiter that can be claimed.              *)
(***************************************************************************)
FlushNext(t) ==
    /\ At(t, "flush")
    /\ IF waiters = <<>> THEN Return(t) ELSE Take(t, Head(waiters), "flushUnlink")
    /\ UNCHANGED <<deviceVars, adapterVars, count, waiters, delivering, lock, irpVars, posted,
                   corrupt>>

FlushAbort(t) ==
    /\ At(t, "flushAbort")
    /\ Complete(th[t].w)
    /\ GoOn(t, "flush")
    /\ UNCHANGED <<deviceVars, adapterVars, count, waiters, delivering, lock, routine, cancelling,
                   posted, corrupt>>

Flush(t) ==
    \/ FlushNext(t)
    \/ UnlinkHead(t, "flushUnlink", "flushClaim")
    \/ ClaimIrp(t, "flushClaim", "flushAbort", "flush")
    \/ FlushAbort(t)

Pump(t) ==
    \/ LatchTest(t) \/ LatchSet(t) \/ PumpNext(t)
    \/ UnlinkHead(t, "pumpUnlink", "pumpClaim")
    \/ ClaimIrp(t, "pumpClaim", "pumpDeliver", "pump")
    \/ PumpDeliver(t) \/ Unlatch(t)

--------------------------------------------------------------------------------
(* The requests *)

(***************************************************************************)
(* A client sends a WAIT_NOTIFY on an open handle.                         *)
(***************************************************************************)
Send(r) ==
    /\ irp[r] = "unsent"
    /\ At(Client[r], "open")
    /\ irp' = [irp EXCEPT ![r] = "sent"]
    /\ GoOn(r, "park")
    /\ UNCHANGED <<deviceVars, adapterVars, count, waiters, delivering, lock, routine, cancelling,
                   completions, posted, corrupt>>

(***************************************************************************)
(* AdaptoidWaitNotification: under the lock, set the cancel routine and    *)
(* append; core_notify_wait pumps before the lock is dropped.  Whether     *)
(* the request has been cancelled already is not looked at.                *)
(***************************************************************************)
WaitPark(r) ==
    /\ At(r, "park")
    /\ lock = Nobody
    /\ lock' = r
    /\ routine' = routine \cup {r}
    /\ waiters' = Append(waiters, r)
    /\ th' = [th EXCEPT ![r].at = "latch", ![r].todo = <<"unlock">>]
    /\ UNCHANGED <<deviceVars, adapterVars, count, delivering, irp, cancelling, completions,
                   posted, corrupt>>

WaitUnlock(r) ==
    /\ At(r, "unlock")
    /\ lock' = Nobody
    /\ Return(r)
    /\ UNCHANGED <<deviceVars, adapterVars, count, waiters, delivering, irpVars, posted, corrupt>>

(***************************************************************************)
(* IoCancelIrp (external) takes the cancel routine, if it is set, and      *)
(* calls it.                                                               *)
(***************************************************************************)
IoCancelIrp(r) ==
    /\ irp[r] = "sent" /\ r \in routine
    /\ routine' = routine \ {r}
    /\ cancelling' = cancelling \cup {r}
    /\ UNCHANGED <<deviceVars, adapterVars, count, waiters, delivering, lock, th, irp,
                   completions, posted, corrupt>>

(***************************************************************************)
(* NotifyCancelRoutine: unlink if still listed, and complete whether it    *)
(* was or not.                                                             *)
(***************************************************************************)
FaultCancelTrustsList(r) ==
    /\ r \in cancelling
    /\ lock = Nobody
    /\ waiters' = Remove(waiters, r)
    /\ cancelling' = cancelling \ {r}
    /\ IF Contains(waiters, r) THEN Complete(r) ELSE UNCHANGED <<irp, completions>>
    /\ UNCHANGED <<deviceVars, adapterVars, count, delivering, lock, th, routine, posted, corrupt>>

NotifyCancelRoutine(r) ==
    /\ r \in cancelling
    /\ lock = Nobody
    /\ waiters' = Remove(waiters, r)
    /\ cancelling' = cancelling \ {r}
    /\ Complete(r)
    /\ UNCHANGED <<deviceVars, adapterVars, count, delivering, lock, th, routine, posted, corrupt>>

Wait(r) == WaitPark(r) \/ Pump(r) \/ WaitUnlock(r)

--------------------------------------------------------------------------------
(* AdaptoidCancelNotifications *)

(***************************************************************************)
(* One victim a pass, the first waiter of this handle, or the first of     *)
(* all for the teardown of the device, taken off the list under the lock   *)
(* and claimed after it.                                                   *)
(***************************************************************************)
Mine(t) == {i \in DOMAIN waiters : t \in Handles /\ At(t, "cancel") => Client[waiters[i]] = t}

CancelNext(t) ==
    /\ th[t].at \in {"cancel", "cancelAll"}
    /\ lock = Nobody
    /\ IF Mine(t) = {} THEN Return(t) /\ UNCHANGED waiters
       ELSE LET i == CHOOSE j \in Mine(t) : \A k \in Mine(t) : j <= k IN
            /\ waiters' = RemoveAt(waiters, i)
            /\ Take(t, waiters[i], IF At(t, "cancel") THEN "cancelClaim" ELSE "cancelAllClaim")
    /\ UNCHANGED <<deviceVars, adapterVars, count, delivering, lock, irpVars, posted, corrupt>>

CancelComplete(t) ==
    /\ th[t].at \in {"cancelWon", "cancelAllWon"}
    /\ Complete(th[t].w)
    /\ GoOn(t, IF At(t, "cancelWon") THEN "cancel" ELSE "cancelAll")
    /\ UNCHANGED <<deviceVars, adapterVars, count, waiters, delivering, lock, routine, cancelling,
                   posted, corrupt>>

CancelNotifications(t) ==
    \/ CancelNext(t)
    \/ ClaimIrp(t, "cancelClaim", "cancelWon", "cancel")
    \/ ClaimIrp(t, "cancelAllClaim", "cancelAllWon", "cancelAll")
    \/ CancelComplete(t)

--------------------------------------------------------------------------------
(* The device's lifetime *)

(***************************************************************************)
(* AdaptoidControlMaybeDelete: under the mutex, with neither an adapter    *)
(* nor a handle left, clear the pointer; then cancel, flush and delete.    *)
(***************************************************************************)
MaybeDelete(t) ==
    /\ At(t, "maybeDelete")
    /\ IF refCount = 0 /\ device = "there" /\ OpenCount = 0
       THEN /\ device' = "deleting"
            /\ Call(t, <<"cancelAll", "flush", "delete">>)
       ELSE Return(t) /\ UNCHANGED device
    /\ UNCHANGED <<refCount, OpenCount, adapterVars, count, waiters, delivering, lock, irpVars,
                   posted, corrupt>>

IoDeleteDevice(t) ==
    /\ At(t, "delete")
    /\ device' = "deleted"
    /\ Return(t)
    /\ UNCHANGED <<refCount, OpenCount, adapterVars, count, waiters, delivering, lock, irpVars,
                   posted, corrupt>>

Teardown(t) == MaybeDelete(t) \/ CancelNotifications(t) \/ Flush(t) \/ IoDeleteDevice(t)

(***************************************************************************)
(* AdaptoidControlCreate: refused with no adapter live; that test is made  *)
(* before the mutex is taken to count the handle.                          *)
(***************************************************************************)
CreateTest(h) ==
    /\ At(h, "idle")
    /\ device = "there" /\ live # {}
    /\ GoOn(h, "creating")
    /\ UNCHANGED <<deviceVars, adapterVars, count, waiters, delivering, lock, irpVars, posted,
                   corrupt>>

CreateCount(h) ==
    /\ At(h, "creating")
    /\ OpenCount' = OpenCount + 1
    /\ GoOn(h, "open")
    /\ UNCHANGED <<device, refCount, adapterVars, count, waiters, delivering, lock, irpVars,
                   posted, corrupt>>

(***************************************************************************)
(* AdaptoidControlCleanup; AdaptoidControlClose follows when the last      *)
(* request on the handle is done (the I/O manager sees to that).           *)
(***************************************************************************)
Cleanup(h) ==
    /\ At(h, "open")
    /\ Call(h, <<"cancel", "cleaned">>)
    /\ UNCHANGED <<deviceVars, adapterVars, count, waiters, delivering, lock, irpVars, posted,
                   corrupt>>

Close(h) ==
    /\ At(h, "cleaned")
    /\ \A r \in Requests : Client[r] = h => irp[r] # "sent"
    /\ Call(h, <<"cancel", "uncount", "maybeDelete", "closed">>)
    /\ UNCHANGED <<deviceVars, adapterVars, count, waiters, delivering, lock, irpVars, posted,
                   corrupt>>

CloseCount(h) ==
    /\ At(h, "uncount")
    /\ OpenCount' = IF OpenCount > 0 THEN OpenCount - 1 ELSE 0
    /\ Return(h)
    /\ UNCHANGED <<device, refCount, adapterVars, count, waiters, delivering, lock, irpVars,
                   posted, corrupt>>

HandleThread(h) == CreateCount(h) \/ Close(h) \/ CloseCount(h) \/ Teardown(h)

--------------------------------------------------------------------------------
(* The adapters *)

(***************************************************************************)
(* AdaptoidCreateControlDevice, for AdaptoidAddDevice; the bound is one    *)
(* life of the device, so nobody arrives once it is being deleted.         *)
(***************************************************************************)
CreateControlDevice(a) ==
    /\ adapter[a] = "absent"
    /\ device \in {"none", "there"}
    /\ device' = "there"
    /\ refCount' = refCount + 1
    /\ adapter' = [adapter EXCEPT ![a] = "present"]
    /\ UNCHANGED <<OpenCount, live, count, waiters, delivering, lock, th, irpVars, posted, corrupt>>

(***************************************************************************)
(* core_registry_set_live: the same event for both directions; the last    *)
(* departure flushes.                                                      *)
(***************************************************************************)
SetLive(a, on, after) ==
    IF (a \in live) = on
    THEN Call(a, after) /\ UNCHANGED <<live, posted>>
    ELSE /\ posted < MaxEvents /\ posted' = posted + 1
         /\ live' = IF on THEN live \cup {a} ELSE live \ {a}
         /\ Call(a, <<"post">> \o (IF on THEN <<>> ELSE <<"lastLeft">>) \o after)

FaultNoFlush(a) ==
    /\ At(a, "lastLeft")
    /\ Return(a)
    /\ UNCHANGED <<deviceVars, adapterVars, count, waiters, delivering, lock, irpVars, posted,
                   corrupt>>

LastLeft(a) ==
    /\ At(a, "lastLeft")
    /\ Call(a, IF live = {} THEN <<"flush">> ELSE <<>>)
    /\ UNCHANGED <<deviceVars, adapterVars, count, waiters, delivering, lock, irpVars, posted,
                   corrupt>>

NotifyInterfaceChange(a, on) ==
    /\ At(a, "idle") /\ adapter[a] = "present"
    /\ (a \in live) # on
    /\ SetLive(a, on, <<>>)
    /\ UNCHANGED <<deviceVars, adapter, count, waiters, delivering, lock, irpVars, corrupt>>

ScriptEvent(a) ==
    /\ At(a, "idle") /\ adapter[a] = "present"
    /\ posted < MaxEvents /\ posted' = posted + 1
    /\ GoOn(a, "post")
    /\ UNCHANGED <<deviceVars, adapterVars, count, waiters, delivering, lock, irpVars, corrupt>>

(***************************************************************************)
(* AdaptoidUnwireDevice, as far as the control device goes.                *)
(***************************************************************************)
UnwireDevice(a) ==
    /\ At(a, "idle") /\ adapter[a] = "present"
    /\ adapter' = [adapter EXCEPT ![a] = "gone"]
    /\ SetLive(a, FALSE, <<"release", "maybeDelete">>)
    /\ UNCHANGED <<deviceVars, count, waiters, delivering, lock, irpVars, corrupt>>

ReleaseControlDevice(a) ==
    /\ At(a, "release")
    /\ refCount' = IF refCount > 0 THEN refCount - 1 ELSE 0
    /\ Return(a)
    /\ UNCHANGED <<device, OpenCount, adapterVars, count, waiters, delivering, lock, irpVars,
                   posted, corrupt>>

AdapterThread(a) ==
    PostAppend(a) \/ Pump(a) \/ LastLeft(a) \/ ReleaseControlDevice(a) \/ Teardown(a)

--------------------------------------------------------------------------------

ControlNext ==
    /\ ~corrupt
    /\ \/ \E a \in Adapters :
             \/ CreateControlDevice(a) \/ ScriptEvent(a) \/ UnwireDevice(a) \/ AdapterThread(a)
             \/ \E on \in BOOLEAN : NotifyInterfaceChange(a, on)
       \/ \E h \in Handles : CreateTest(h) \/ Cleanup(h) \/ HandleThread(h)
       \/ \E r \in Requests : Send(r) \/ Wait(r) \/ IoCancelIrp(r) \/ NotifyCancelRoutine(r)

ControlSpec == ControlInit /\ [][ControlNext]_controlVars

(***************************************************************************)
(* Threads in the driver keep running.                                     *)
(***************************************************************************)
Running(A) == ~corrupt /\ A

ControlFairSpec ==
    /\ ControlSpec
    /\ \A a \in Adapters : WF_controlVars(Running(AdapterThread(a)))
    /\ \A h \in Handles : WF_controlVars(Running(HandleThread(h)))
    /\ \A r \in Requests :
          WF_controlVars(Running(Wait(r))) /\ WF_controlVars(Running(NotifyCancelRoutine(r)))

--------------------------------------------------------------------------------

(***************************************************************************)
(* Delivery, the flush of the last departure, the cancel routine, cleanup  *)
(* and the teardown of the device race for a parked request, and only one  *)
(* completes it.                                                           *)
(***************************************************************************)
CompletedOnce == \A r \in Requests : completions[r] <= 1

(***************************************************************************)
(* A request whose cancel routine the I/O manager called comes back, so    *)
(* its thread can leave the kernel - also when a pump had it off the list. *)
(***************************************************************************)
CancelledWaitReturns ==
    \A r \in Requests : (r \in cancelling) ~> (irp[r] = "done" \/ corrupt)

(***************************************************************************)
(* What is parked on a handle when its cleanup starts comes back, whoever  *)
(* else has requests in the queue.                                         *)
(***************************************************************************)
CleanupReleasesParked ==
    \A r \in Requests :
        (At(Client[r], "cancel") /\ Contains(waiters, r)) ~> (irp[r] = "done" \/ corrupt)

(***************************************************************************)
(* "The last adapter leaving releases everyone parked on a notification".  *)
(***************************************************************************)
LastDepartureReleases ==
    \A a \in Adapters, r \in Requests :
        (At(a, "lastLeft") /\ live = {} /\ Contains(waiters, r)) ~> (irp[r] = "done" \/ corrupt)

(***************************************************************************)
(* With every adapter and every handle gone the device goes too, whichever *)
(* of them was the last.                                                   *)
(***************************************************************************)
DeviceIsDeleted ==
    (/\ \A a \in Adapters : adapter[a] = "gone"
     /\ \A h \in Handles : At(h, "closed")) ~> (device = "deleted" \/ corrupt)

(***************************************************************************)
(* The comment on core_notify.delivering: it "keeps exactly one pump in    *)
(* flight so an event cannot be handed to two waiters".                    *)
(***************************************************************************)
OnePump ==
    Cardinality({t \in Threads : th[t].at \in {"pump", "pumpUnlink", "pumpClaim",
                                               "pumpDeliver"}}) <= 1

(***************************************************************************)
(* The comment in core_ctl_dispatch: with no adapter present a wait "is    *)
(* refused rather than parked forever".                                    *)
(***************************************************************************)
NoWaitWithoutAdapter ==
    [][\A r \in Requests : WaitPark(r) => live # {}]_controlVars
================================================================================
