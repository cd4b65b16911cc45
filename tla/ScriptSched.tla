------------------------------ MODULE ScriptSched ------------------------------
(***************************************************************************)
(* The script scheduler of one adapter and everybody who enters it: the    *)
(* scheduler DPC behind its timer, the completion of a poll (input, then   *)
(* the clock), the client that loads scripts, the client that collects     *)
(* faults, and the removal of the device.                                  *)
(*                                                                         *)
(* A script thread is the node that holds it; what a script computes is    *)
(* left open, every instruction being any of the things an instruction     *)
(* may do to the scheduler.  The time unit is CORE_SCHED_TICK_100NS, the   *)
(* accrual of one instruction.  Nothing but the post-mortem slot is        *)
(* locked.  One change of a list or of the ring is a step here; two passes *)
(* in flight, or an unload under a pass, leave the one interpreter in a    *)
(* state nothing can be said of (corrupt), and the behaviour ends there.   *)
(***************************************************************************)
EXTENDS Naturals, SequencesExt

CONSTANTS Nodes,            \* blocks a thread fits in
          None,
          Budget,           \* CORE_SCRIPT_BUDGET
          MaxThreads,       \* CORE_SCHED_MAX_THREADS
          EventMax,         \* CORE_SCHED_EVENTS
          MaxHandlers,      \* bound: handlers one packet triggers
          MaxTime, MaxInputs, MaxLoads    \* bounds: the clock, packets, load requests

ASSUME SchedConstants ==
    /\ {Budget, MaxThreads, EventMax} \subseteq Nat \ {0}
    /\ {MaxHandlers, MaxTime, MaxInputs, MaxLoads} \subseteq Nat
    /\ None \notin Nodes /\ None \notin Nat

Procs == {"dpc", "input", "load", "client", "pnp"}

VARIABLES
    loaded,                 \* vm.code and vm.vars are there
    ready, pool,            \* the ready list and the free pool
    wake,                   \* each node's wake_time
    thread_count,
    budget, sched_time,     \* the token bucket and when it was last credited
    running, pending,       \* the latch; pending_time, or None
    slot,                   \* fault_thread (and its snapshot of the globals)
    events,                 \* the event ring
    held,                   \* a key or mouse button the script pressed is down
    timer, dpcQueued,       \* when ScriptTimer is due, or None; its DPC is queued
    ScriptDying,
    clock, tick,            \* the interrupt time; now_100ns of the core
    th,                     \* where each process is, its now, the node it has in hand,
                            \* handlers left to spawn and what it does after the pass
    alloc,                  \* the nodes allocated
    told, lost,             \* history: the fault in the slot was announced, or its event dropped
    inputs, loads,          \* packets and load requests so far
    corrupt

list == <<ready, pool, wake, thread_count, alloc>>
pass == <<running, pending, budget, sched_time>>
fault == <<slot, events, told, lost>>
clockVars == <<timer, dpcQueued, ScriptDying, clock, tick>>
bounds == <<inputs, loads>>
vars == <<loaded, list, pass, fault, held, clockVars, th, bounds, corrupt>>

Idle == [at |-> "idle", now |-> 0, t |-> None, left |-> 0, next |-> "idle"]
PassAt == {"sweep", "exec", "fault", "faulted", "drain", "pend", "stop"}
Places == {"idle", "enter", "latch", "arm", "setTimer", "spawn", "tick", "loadTest", "unload",
           "loadAlloc", "free", "cancel", "flush", "cancelAgain", "gone"} \cup PassAt

TypeOK ==
    /\ {loaded, running, held, dpcQueued, ScriptDying, told, lost, corrupt} \subseteq BOOLEAN
    /\ ready \in Seq(Nodes) /\ pool \in Seq(Nodes) /\ alloc \subseteq Nodes
    /\ wake \in [Nodes -> 0..MaxTime] /\ thread_count \in Nat
    /\ budget \in 0..Budget /\ {sched_time, clock, tick} \subseteq 0..MaxTime
    /\ {pending, timer} \subseteq (0..MaxTime) \cup {None}
    /\ slot \in Nodes \cup {None}
    /\ events \in Seq({"press", "release", "debug", "fault"}) /\ Len(events) <= EventMax
    /\ inputs \in 0..MaxInputs /\ loads \in 0..MaxLoads
    /\ th \in [Procs -> [at : Places, now : 0..MaxTime, t : Nodes \cup {None},
                         left : 0..MaxHandlers, next : {"idle", "tick"}]]

Init ==
    /\ loaded = FALSE /\ running = FALSE /\ pending = None
    /\ ready = <<>> /\ pool = <<>> /\ thread_count = 0 /\ alloc = {}
    /\ wake = [n \in Nodes |-> 0]
    /\ budget = 0 /\ sched_time = 0
    /\ slot = None /\ events = <<>> /\ told = FALSE /\ lost = FALSE
    /\ held = FALSE
    /\ timer = None /\ dpcQueued = FALSE /\ ScriptDying = FALSE
    /\ clock = 0 /\ tick = 0
    /\ th = [p \in Procs |-> Idle]
    /\ inputs = 0 /\ loads = 0 /\ corrupt = FALSE

At(p, pc) == th[p].at = pc
Goto(p, pc) == th' = [th EXCEPT ![p].at = pc]
Hand(p, pc, t) == th' = [th EXCEPT ![p].at = pc, ![p].t = t]
Return(p) == th' = [th EXCEPT ![p] = [Idle EXCEPT !.at = th[p].next]]
InPass(p) == th[p].at \in PassAt

--------------------------------------------------------------------------------
(* Nodes, the ready list and the event ring *)

(***************************************************************************)
(* core_sched_queue: before the first thread due strictly later.           *)
(***************************************************************************)
FirstLater(s, n, w, at) ==
    /\ \A j \in 1..at - 1 : w[n] >= w[s[j]]
    /\ at <= Len(s) => w[n] < w[s[at]]

Enqueue(s, n, w) ==
    /\ wake' = w
    /\ \E at \in 1..Len(s) + 1 : FirstLater(s, n, w, at) /\ ready' = InsertAt(s, at, n)

(***************************************************************************)
(* core_sched_thread_alloc: the head of the pool, or, when that is too     *)
(* small or there is none, a new block.  A request that outgrows the pool  *)
(* of the system fails.                                                    *)
(***************************************************************************)
ThreadAlloc(n) ==
    \/ /\ pool # <<>> /\ n = Head(pool)
       /\ pool' = Tail(pool)
       /\ UNCHANGED alloc
    \/ /\ n \in Nodes \ alloc
       /\ alloc' = alloc \cup {n}
       /\ UNCHANGED pool

(***************************************************************************)
(* core_sched_post_event: a full ring drops its oldest.                    *)
(***************************************************************************)
PostEvent(e) ==
    /\ events' = Append(IF Len(events) >= EventMax THEN Tail(events) ELSE events, e)
    /\ lost' = (lost \/ (Len(events) >= EventMax /\ Head(events) = "fault"))

--------------------------------------------------------------------------------
(* core_sched_run *)

(***************************************************************************)
(* The credit a pass at time now starts with.                              *)
(***************************************************************************)
Credit(now) ==
    LET elapsed == IF now > sched_time THEN now - sched_time ELSE 0 IN
    /\ budget' = IF budget + elapsed > Budget THEN Budget ELSE budget + elapsed
    /\ sched_time' = now

(***************************************************************************)
(* A call without a script returns; one that finds a pass in flight leaves *)
(* its time behind.                                                        *)
(***************************************************************************)
Enter(p) ==
    /\ At(p, "enter")
    /\ IF loaded /\ ~running THEN Goto(p, "latch") ELSE Return(p)
    /\ pending' = IF loaded /\ running THEN th[p].now ELSE pending
    /\ UNCHANGED <<loaded, list, running, budget, sched_time, fault, held, clockVars,
                   bounds, corrupt>>

Latch(p) ==
    /\ At(p, "latch")
    /\ running' = TRUE
    /\ Credit(th[p].now)
    /\ Goto(p, "sweep")
    /\ corrupt' = (~loaded \/ \E q \in Procs \ {p} : InPass(q))
    /\ UNCHANGED <<loaded, list, pending, fault, held, clockVars, bounds>>

(***************************************************************************)
(* The sweep takes the head of the ready list while it is due.             *)
(***************************************************************************)
FaultSweepStrict(p) ==
    /\ At(p, "sweep")
    /\ IF ready # <<>> /\ th[p].now > wake[Head(ready)]
       THEN /\ ready' = Tail(ready)
            /\ thread_count' = thread_count - 1
            /\ Hand(p, "exec", Head(ready))
       ELSE Goto(p, "drain") /\ UNCHANGED <<ready, thread_count>>
    /\ UNCHANGED <<loaded, pool, wake, alloc, pass, fault, held, clockVars, bounds, corrupt>>

Sweep(p) ==
    /\ At(p, "sweep")
    /\ IF ready # <<>> /\ th[p].now >= wake[Head(ready)]
       THEN /\ ready' = Tail(ready)
            /\ thread_count' = thread_count - 1
            /\ Hand(p, "exec", Head(ready))
       ELSE Goto(p, "drain") /\ UNCHANGED <<ready, thread_count>>
    /\ UNCHANGED <<loaded, pool, wake, alloc, pass, fault, held, clockVars, bounds, corrupt>>

(***************************************************************************)
(* core_script_run spends before it runs an instruction, and retires the   *)
(* thread when that leaves nothing.                                        *)
(***************************************************************************)
Spend(p) ==
    /\ At(p, "exec")
    /\ budget > 1
    /\ budget' = budget - 1
    /\ UNCHANGED <<loaded, running, pending, sched_time, slot, told, held, clockVars, bounds,
                   corrupt>>

BudgetOut(p) ==
    /\ At(p, "exec")
    /\ budget <= 1
    /\ budget' = IF budget = 0 THEN 0 ELSE budget - 1
    /\ Goto(p, "fault")
    /\ UNCHANGED <<loaded, list, running, pending, sched_time, fault, held, clockVars,
                   bounds, corrupt>>

(***************************************************************************)
(* _key, _mouse_button, _debug and an instruction nobody outside sees.     *)
(***************************************************************************)
Post(p) ==
    /\ Spend(p)
    /\ \/ \E e \in {"press", "release", "debug"} : PostEvent(e)
       \/ UNCHANGED <<events, lost>>
    /\ UNCHANGED <<list, th>>

(***************************************************************************)
(* native_fork: refused at the limit, or without memory; the child is due  *)
(* when its parent was.                                                    *)
(***************************************************************************)
Fork(p) ==
    /\ Spend(p)
    /\ ~(thread_count > MaxThreads - 1)
    /\ \E n \in Nodes :
          /\ ThreadAlloc(n)
          /\ Enqueue(ready, n, [wake EXCEPT ![n] = wake[th[p].t]])
    /\ thread_count' = thread_count + 1
    /\ UNCHANGED <<events, lost, th>>

(***************************************************************************)
(* _wake: another thread, to this one's wake time, taken out and queued    *)
(* again.                                                                  *)
(***************************************************************************)
Wake(p, i) ==
    /\ Spend(p)
    /\ Enqueue(RemoveAt(ready, i), ready[i], [wake EXCEPT ![ready[i]] = wake[th[p].t]])
    /\ UNCHANGED <<pool, thread_count, alloc, events, lost, th>>

(***************************************************************************)
(* _kill of another thread.                                                *)
(***************************************************************************)
Kill(p, i) ==
    /\ Spend(p)
    /\ ready' = RemoveAt(ready, i)
    /\ thread_count' = thread_count - 1
    /\ pool' = <<ready[i]>> \o pool
    /\ UNCHANGED <<wake, alloc, events, lost, th>>

(***************************************************************************)
(* _sleep, from the thread's own wake time and not from now.               *)
(***************************************************************************)
Sleep(p, d) ==
    /\ Spend(p)
    /\ wake[th[p].t] + d <= MaxTime
    /\ Enqueue(ready, th[p].t, [wake EXCEPT ![th[p].t] = @ + d])
    /\ thread_count' = thread_count + 1
    /\ Hand(p, "sweep", None)
    /\ UNCHANGED <<pool, alloc, events, lost>>

(***************************************************************************)
(* _exit, and _kill of oneself: the node goes to the head of the pool.     *)
(***************************************************************************)
Exit(p) ==
    /\ Spend(p)
    /\ pool' = <<th[p].t>> \o pool
    /\ Hand(p, "sweep", None)
    /\ UNCHANGED <<ready, wake, thread_count, alloc, events, lost>>

(***************************************************************************)
(* The thread leaves its node too small and no larger one is to be had.    *)
(* (A larger one takes over what the node was, and is the same node here.) *)
(***************************************************************************)
NoMemory(p) ==
    /\ Spend(p)
    /\ alloc' = alloc \ {th[p].t}
    /\ Hand(p, "sweep", None)
    /\ UNCHANGED <<ready, pool, wake, thread_count, events, lost>>

Break(p) ==
    /\ Spend(p)
    /\ Goto(p, "fault")
    /\ UNCHANGED <<list, events, lost>>

Execute(p) ==
    \/ Post(p) \/ Fork(p) \/ Exit(p) \/ NoMemory(p) \/ Break(p) \/ BudgetOut(p)
    \/ \E i \in DOMAIN ready : Wake(p, i) \/ Kill(p, i)
    \/ \E d \in 0..1 : Sleep(p, d)

(***************************************************************************)
(* sched_fault: exchange the slot under the lock; then free what was in    *)
(* it, or, if it was empty, announce.                                      *)
(***************************************************************************)
ParkFault(p) ==
    /\ At(p, "fault")
    /\ slot' = th[p].t
    /\ Hand(p, "faulted", slot)
    /\ UNCHANGED <<loaded, list, pass, events, told, lost, held, clockVars, bounds, corrupt>>

AnnounceFault(p) ==
    /\ At(p, "faulted")
    /\ alloc' = alloc \ {th[p].t}
    /\ IF th[p].t = None THEN PostEvent("fault") ELSE UNCHANGED <<events, lost>>
    /\ Hand(p, "sweep", None)
    /\ UNCHANGED <<loaded, ready, pool, wake, thread_count, pass, slot, told, held, clockVars,
                   bounds, corrupt>>

(***************************************************************************)
(* sched_drain_events, into AdaptoidScriptEvent.                           *)
(***************************************************************************)
Drain(p) ==
    /\ At(p, "drain")
    /\ IF events = <<>> THEN Goto(p, "pend") /\ UNCHANGED <<events, held, told>>
       ELSE /\ events' = Tail(events)
            /\ held' = IF Head(events) \in {"press", "release"} THEN Head(events) = "press"
                       ELSE held
            /\ told' = (told \/ Head(events) = "fault")
            /\ UNCHANGED th
    /\ UNCHANGED <<loaded, list, pass, slot, lost, clockVars, bounds, corrupt>>

(***************************************************************************)
(* Once more round for a call that came meanwhile.                         *)
(***************************************************************************)
Pend(p) ==
    /\ At(p, "pend")
    /\ IF pending = None
       THEN /\ th' = [th EXCEPT ![p].at = "stop", ![p].now = 0]
            /\ UNCHANGED <<pending, budget, sched_time>>
       ELSE /\ Credit(pending)
            /\ pending' = None
            /\ th' = [th EXCEPT ![p].at = "sweep", ![p].now = pending]
    /\ UNCHANGED <<loaded, list, running, fault, held, clockVars, bounds, corrupt>>

Stop(p) ==
    /\ At(p, "stop")
    /\ running' = FALSE
    /\ Goto(p, "arm")
    /\ UNCHANGED <<loaded, list, pending, budget, sched_time, fault, held, clockVars,
                   bounds, corrupt>>

(***************************************************************************)
(* With threads left, AdaptoidScriptArm for the head: it cancels if the    *)
(* device is dying, and sets the timer in a later step than it looked.     *)
(***************************************************************************)
Arm(p) ==
    /\ At(p, "arm")
    /\ IF ready # <<>> /\ ~ScriptDying
       THEN th' = [th EXCEPT ![p].at = "setTimer", ![p].now = wake[Head(ready)]]
       ELSE Return(p)
    /\ timer' = IF ready # <<>> /\ ScriptDying THEN None ELSE timer
    /\ UNCHANGED <<loaded, list, pass, fault, held, dpcQueued, ScriptDying, clock, tick, bounds,
                   corrupt>>

KeSetTimer(p) ==
    /\ At(p, "setTimer")
    /\ timer' = th[p].now
    /\ Return(p)
    /\ UNCHANGED <<loaded, list, pass, fault, held, dpcQueued, ScriptDying, clock, tick, bounds,
                   corrupt>>

Run(p) ==
    \/ Enter(p) \/ Latch(p) \/ Sweep(p) \/ Execute(p) \/ ParkFault(p) \/ AnnounceFault(p)
    \/ Drain(p) \/ Pend(p) \/ Stop(p) \/ Arm(p) \/ KeSetTimer(p)

--------------------------------------------------------------------------------
(* Time and the DPC *)

Clock ==
    /\ clock < MaxTime
    /\ clock' = clock + 1
    /\ UNCHANGED <<loaded, list, pass, fault, held, timer, dpcQueued, ScriptDying, tick, th,
                   bounds, corrupt>>

(***************************************************************************)
(* The kernel's timer (external) queues the DPC once when it is due.       *)
(***************************************************************************)
TimerExpires ==
    /\ timer # None /\ timer <= clock
    /\ timer' = None
    /\ dpcQueued' = TRUE
    /\ UNCHANGED <<loaded, list, pass, fault, held, ScriptDying, clock, tick, th, bounds, corrupt>>

(***************************************************************************)
(* AdaptoidScriptDpc.  Its depth counter is latched at -1 and never moves. *)
(***************************************************************************)
ScriptDpc ==
    /\ dpcQueued
    /\ At("dpc", "idle")
    /\ dpcQueued' = FALSE
    /\ th' = [th EXCEPT !["dpc"].at = "enter", !["dpc"].now = clock]
    /\ UNCHANGED <<loaded, list, pass, fault, held, timer, ScriptDying, clock, tick, bounds,
                   corrupt>>

--------------------------------------------------------------------------------
(* The completion of a poll: core_sched_on_input, then core_tick *)

(***************************************************************************)
(* The handlers a packet triggers: none if it changes nothing or finds no  *)
(* script.  Their time is the core's, of the tick before.                  *)
(***************************************************************************)
OnInput(n) ==
    /\ At("input", "idle") /\ At("pnp", "idle")
    /\ inputs < MaxInputs /\ inputs' = inputs + 1
    /\ n > 0 => loaded
    /\ th' = [th EXCEPT !["input"] =
                 IF n = 0 THEN [Idle EXCEPT !.at = "tick"]
                 ELSE [Idle EXCEPT !.at = "spawn", !.now = tick, !.left = n, !.next = "tick"]]
    /\ UNCHANGED <<loaded, list, pass, fault, held, clockVars, loads, corrupt>>

(***************************************************************************)
(* sched_spawn_handler: dropped when there is no node; there is no slot to *)
(* look at any more if the script went meanwhile.                          *)
(***************************************************************************)
SpawnHandler ==
    /\ At("input", "spawn")
    /\ th' = [th EXCEPT !["input"].left = @ - 1,
                        !["input"].at = IF th["input"].left = 1 THEN "enter" ELSE @]
    /\ \/ UNCHANGED list
       \/ /\ loaded
          /\ \E n \in Nodes :
                /\ ThreadAlloc(n)
                /\ Enqueue(ready, n, [wake EXCEPT ![n] = th["input"].now])
          /\ thread_count' = thread_count + 1
    /\ UNCHANGED <<loaded, pass, fault, held, clockVars, bounds, corrupt>>

CoreTick ==
    /\ At("input", "tick")
    /\ tick' = clock
    /\ th' = [th EXCEPT !["input"] = [Idle EXCEPT !.at = "enter", !.now = clock]]
    /\ UNCHANGED <<loaded, list, pass, fault, held, timer, dpcQueued, ScriptDying, clock, bounds,
                   corrupt>>

--------------------------------------------------------------------------------
(* Loading and unloading *)

ListNodes == {ready[i] : i \in DOMAIN ready} \cup {pool[i] : i \in DOMAIN pool}

(***************************************************************************)
(* core_sched_unload: let go of the keys, cancel the timer, free           *)
(* everything, empty the slot and start from nothing.                      *)
(***************************************************************************)
FaultUnloadForgetsSlot ==
    /\ held' = FALSE
    /\ timer' = None
    /\ loaded' = FALSE
    /\ ready' = <<>> /\ pool' = <<>> /\ thread_count' = 0
    /\ slot' = None /\ told' = FALSE /\ lost' = FALSE /\ events' = <<>>
    /\ alloc' = alloc \ ListNodes
    /\ running' = FALSE /\ pending' = None /\ budget' = 0 /\ sched_time' = 0
    /\ corrupt' = (\E p \in Procs : InPass(p))

Unload ==
    /\ held' = FALSE
    /\ timer' = None
    /\ loaded' = FALSE
    /\ ready' = <<>> /\ pool' = <<>> /\ thread_count' = 0
    /\ slot' = None /\ told' = FALSE /\ lost' = FALSE /\ events' = <<>>
    /\ alloc' = alloc \ (ListNodes \cup {slot})
    /\ running' = FALSE /\ pending' = None /\ budget' = 0 /\ sched_time' = 0
    /\ corrupt' = (\E p \in Procs : InPass(p))

(***************************************************************************)
(* ioc_script_load: refused while a pass runs; it unloads, and loads if it *)
(* was given a script.                                                     *)
(***************************************************************************)
LoadRequest ==
    /\ At("load", "idle") /\ At("pnp", "idle")
    /\ loads < MaxLoads /\ loads' = loads + 1
    /\ th' = [th EXCEPT !["load"].at = "loadTest", !["load"].now = clock]
    /\ UNCHANGED <<loaded, list, pass, fault, held, clockVars, inputs, corrupt>>

LoadTest ==
    /\ At("load", "loadTest")
    /\ IF running THEN Return("load") ELSE Goto("load", "unload")
    /\ UNCHANGED <<loaded, list, pass, fault, held, clockVars, bounds, corrupt>>

LoadUnload ==
    /\ At("load", "unload")
    /\ Unload
    /\ Goto("load", "loadAlloc") \/ Return("load")
    /\ UNCHANGED <<wake, dpcQueued, ScriptDying, clock, tick, bounds>>

(***************************************************************************)
(* sched_load_body after its teardown: thread 0, due at once, and a pass;  *)
(* out of memory leaves nothing loaded.                                    *)
(***************************************************************************)
LoadBody ==
    /\ At("load", "loadAlloc")
    /\ \/ /\ \E n \in Nodes :
                /\ ThreadAlloc(n)
                /\ Enqueue(ready, n, [wake EXCEPT ![n] = th["load"].now])
          /\ thread_count' = thread_count + 1
          /\ loaded' = TRUE
          /\ budget' = Budget
          /\ sched_time' = th["load"].now
          /\ Goto("load", "enter")
       \/ Return("load") /\ UNCHANGED <<list, loaded, budget, sched_time>>
    /\ UNCHANGED <<running, pending, fault, held, clockVars, bounds, corrupt>>

(***************************************************************************)
(* ioc_script_fault: the slot is taken under the lock, copied and freed.   *)
(***************************************************************************)
TakeFault ==
    /\ At("client", "idle") /\ At("pnp", "idle")
    /\ slot # None
    /\ Hand("client", "free", slot)
    /\ slot' = None /\ told' = FALSE /\ lost' = FALSE
    /\ UNCHANGED <<loaded, list, pass, events, held, clockVars, bounds, corrupt>>

FreeFault ==
    /\ At("client", "free")
    /\ alloc' = alloc \ {th["client"].t}
    /\ Return("client")
    /\ UNCHANGED <<loaded, ready, pool, wake, thread_count, pass, fault, held, clockVars, bounds,
                   corrupt>>

--------------------------------------------------------------------------------
(***************************************************************************)
(* AdaptoidUnwireDevice.  RemoveLockA is drained, so no request is in the  *)
(* driver; polling is stopped, so no packet is to come, but the completion *)
(* of one may still run, in a DPC.  KeFlushQueuedDpcs (external) returns   *)
(* when no DPC is queued or running.                                       *)
(***************************************************************************)
UnwireDying ==
    /\ At("pnp", "idle") /\ At("load", "idle") /\ At("client", "idle")
    /\ ScriptDying' = TRUE
    /\ Goto("pnp", "cancel")
    /\ UNCHANGED <<loaded, list, pass, fault, held, timer, dpcQueued, clock, tick, bounds, corrupt>>

UnwireCancel(from, to) ==
    /\ At("pnp", from)
    /\ timer' = None
    /\ Goto("pnp", to)
    /\ UNCHANGED <<loaded, list, pass, fault, held, dpcQueued, ScriptDying, clock, tick, bounds,
                   corrupt>>

UnwireFlush ==
    /\ At("pnp", "flush")
    /\ ~dpcQueued /\ At("dpc", "idle") /\ At("input", "idle")
    /\ Goto("pnp", "cancelAgain")
    /\ UNCHANGED <<loaded, list, pass, fault, held, clockVars, bounds, corrupt>>

UnwireUnload ==
    /\ At("pnp", "unload")
    /\ Unload
    /\ Goto("pnp", "gone")
    /\ UNCHANGED <<wake, dpcQueued, ScriptDying, clock, tick, bounds>>

Unwire ==
    \/ UnwireCancel("cancel", "flush") \/ UnwireFlush
    \/ UnwireCancel("cancelAgain", "unload") \/ UnwireUnload

InputThread == SpawnHandler \/ Run("input") \/ CoreTick
LoadThread == LoadTest \/ LoadUnload \/ LoadBody \/ Run("load")

Next ==
    /\ ~corrupt
    /\ \/ Clock \/ TimerExpires \/ ScriptDpc \/ Run("dpc")
       \/ \E n \in 0..MaxHandlers : OnInput(n)
       \/ InputThread
       \/ LoadRequest \/ LoadThread
       \/ TakeFault \/ FreeFault
       \/ UnwireDying \/ Unwire

Spec == Init /\ [][Next]_vars

(***************************************************************************)
(* Time passes, an expired timer queues its DPC, a queued DPC runs, and    *)
(* threads in the driver keep running.                                     *)
(***************************************************************************)
Running(A) == ~corrupt /\ A

FairSpec ==
    /\ Spec
    /\ WF_vars(Running(Clock)) /\ WF_vars(Running(TimerExpires)) /\ WF_vars(Running(ScriptDpc))
    /\ WF_vars(Running(Run("dpc"))) /\ WF_vars(Running(InputThread))
    /\ WF_vars(Running(LoadThread)) /\ WF_vars(Running(FreeFault)) /\ WF_vars(Running(Unwire))

--------------------------------------------------------------------------------
Hands == {p \in Procs : th[p].t # None}

(***************************************************************************)
(* Every node that is allocated is in exactly one place - the ready list,  *)
(* the pool, the post-mortem slot, or the hands of a pass or of the client *)
(* that collects the fault - and no place holds a node that was freed: no  *)
(* path leaks a thread, frees one twice or runs one that is gone.          *)
(***************************************************************************)
NodesOwnedOnce ==
    ~corrupt =>
        LET places(n) == {<<"ready", i>> : i \in {j \in DOMAIN ready : ready[j] = n}}
                    \cup {<<"pool", i>> : i \in {j \in DOMAIN pool : pool[j] = n}}
                    \cup {<<"hand", p>> : p \in {q \in Hands : th[q].t = n}}
                    \cup (IF slot = n THEN {<<"slot", 1>>} ELSE {})
        IN  \A n \in Nodes :
                IF n \in alloc THEN \E x \in places(n) : places(n) = {x}
                ELSE places(n) = {}

(***************************************************************************)
(* The ready list stays sorted through _wake and _sleep, so the sweep may  *)
(* stop at the first thread that is not due; and thread_count is its       *)
(* length through _kill, so that _fork refuses at the real limit.          *)
(***************************************************************************)
ReadySorted ==
    /\ \A i, j \in DOMAIN ready : i < j => wake[ready[i]] <= wake[ready[j]]
    /\ ~corrupt => thread_count = Len(ready)

(***************************************************************************)
(* A fault in the slot has been announced, or its event is on its way,     *)
(* whatever the client collects meanwhile - unless the ring dropped it.    *)
(***************************************************************************)
Announcing == "fault" \in {events[i] : i \in DOMAIN events} \/ \E p \in Procs : At(p, "faulted")

FaultIsAnnounced == ~corrupt /\ slot # None => told \/ Announcing \/ lost

(***************************************************************************)
(* What the script pressed is released when the script goes.               *)
(***************************************************************************)
KeysGoWithScript == ~corrupt /\ ~loaded => ~held

(***************************************************************************)
(* Whenever nobody is in the scheduler and threads wait, the timer is set, *)
(* its DPC queued, or the device dying: a call that hit the latch at the   *)
(* wrong moment is not lost.                                               *)
(***************************************************************************)
IdleIsArmed ==
    (~corrupt /\ ready # <<>> /\ ~ScriptDying /\ \A p \in {"dpc", "input", "load"} : At(p, "idle"))
        => timer # None \/ dpcQueued

(***************************************************************************)
(* A thread that is due is run, woken by nobody but the scheduler.         *)
(***************************************************************************)
DueThreadRuns ==
    \A n \in Nodes :
        (n \in {ready[i] : i \in DOMAIN ready} /\ wake[n] <= clock)
            ~> (n \notin {ready[i] : i \in DOMAIN ready} \/ corrupt)

(***************************************************************************)
(* A pass ends, whatever the script does: the budget is "the reason an     *)
(* infinite loop in a script cannot hang the driver".                      *)
(***************************************************************************)
PassEnds == running ~> (~running \/ corrupt)

(***************************************************************************)
(* The removal of the device gets past the flush and the unload.           *)
(***************************************************************************)
TeardownEnds == ScriptDying ~> (At("pnp", "gone") \/ corrupt)

(***************************************************************************)
(* The comment in AdaptoidUnwireDevice: the scheduler is torn down when    *)
(* "nothing can reach it".                                                 *)
(***************************************************************************)
NothingReachesIt ==
    At("pnp", "gone") => timer = None /\ ~dpcQueued /\ At("dpc", "idle")

(***************************************************************************)
(* The comment on the token bucket: "Each pass credits it with the real    *)
(* time that has elapsed since the last pass" - so no time twice.          *)
(***************************************************************************)
TimeCreditedOnce == [][loaded /\ loaded' => sched_time' >= sched_time]_vars

(***************************************************************************)
(* The comment in sched_fault: a fault event goes out for each collection, *)
(* or "the fault would sit uncollected".                                   *)
(***************************************************************************)
FaultAlwaysAnnounced == ~corrupt /\ slot # None => told \/ Announcing

(***************************************************************************)
(* The comment on core_sched_run: a call that arrives while a pass is in   *)
(* flight returns, so there is one pass; and the comment in                *)
(* ioc_script_load: "a load while a pass is running cannot happen".        *)
(***************************************************************************)
OnePass == \A p, q \in Procs : InPass(p) /\ InPass(q) => p = q

NoLoadInPass == [][LoadUnload => \A p \in Procs : ~InPass(p)]_vars
================================================================================
