------------------------------- MODULE CoreChains -------------------------------
(***************************************************************************)
(* The two chains of vendor transfers core.c runs over the one slot: the   *)
(* accessory probe, which gates all controller input, and the effect       *)
(* engine's tick, keepalive and periodic windows with the work it defers.  *)
(* Around them AdaptoidVendorComplete, AdaptoidSetDeviceEnable and the     *)
(* raw vendor requests, which share the slot but not the routing.          *)
(*                                                                         *)
(* One processor.  A packet and the completion of a transfer are DPCs and  *)
(* run to their end; a request runs at PASSIVE_LEVEL and a DPC may come    *)
(* between any two of its steps.  (VendorSlot takes the slot itself apart  *)
(* on several processors.)  What the motor is told is left out: an         *)
(* evaluation changed the bitmap or it did not.                            *)
(***************************************************************************)
EXTENDS Naturals

CONSTANTS Threads,          \* threads that make device requests
          Requests,         \* what they may ask for
          OutSteps,         \* CORE_PROBE_OUT_STEPS, the register writes of a probe
          MaxFailures,      \* transfers the bus fails
          AllocationFails   \* the URB of a transfer may be refused

ASSUME ChainConstants ==
    /\ OutSteps \in Nat \ {0} /\ MaxFailures \in Nat /\ AllocationFails \in BOOLEAN
    /\ Requests \subseteq {"kick", "on", "off", "raw"}

READ1 == OutSteps
SEL1  == OutSteps + 1
READ2 == OutSteps + 2
SEL2  == OutSteps + 3
DONE  == OutSteps + 4

VARIABLES
    core,       \* the core_state fields of the two chains, and the slot
    ticks,      \* the packet is decoded and core_tick comes next, in the same DPC
    thread,     \* where each requesting thread is
    failures,   \* transfers the bus failed
    lost,       \* history: one of them was a step of the probe
    stolen      \* history: a tick used up the claim of a request, or a request
                \*          goes on sending after its claim is gone

vars == <<core, ticks, thread, failures, lost, stolen>>

Work == {"idle", "tick", "insert", "remove"}    \* the claim_* flags, first served first
Pak == {"removed", "present"}                   \* the two status bits that are watched

(***************************************************************************)
(* wire is history: who issued the transfer in flight.  sent tells the     *)
(* caller inside a handler whether the step before it put a transfer out.  *)
(***************************************************************************)
CoreState ==
    [accessory_state : {"needed", "probing", "found", "unknown"}, probe_step : 0..DONE,
     vendor_owner : {"none", "probe", "effect", "loose"},
     effect_next : {"none", "keepalive", "periodic", "update"},
     effect_state : {"idle", "tick", "periodic", "pak"},
     claims : SUBSET Work, prev_status : SUBSET Pak,
     slot : {"free", "claimed", "flight"}, callback : {"none", "core", "second"},
     wire : {"none", "probe", "effect", "loose", "other"},
     sent : {"no", "yes", "composed"}]

ThreadState ==
    [at : {"idle", "claimed", "refused", "sending"}, request : Requests \cup {"none"},
     prev : {"none", "probe", "effect", "loose"}]

Resting == [at |-> "idle", request |-> "none", prev |-> "none"]

TypeOK ==
    /\ core \in CoreState
    /\ ticks \in BOOLEAN
    /\ thread \in [Threads -> ThreadState]
    /\ failures \in 0..MaxFailures /\ lost \in BOOLEAN /\ stolen \in BOOLEAN

Init ==
    /\ core = [accessory_state |-> "needed", probe_step |-> 0, vendor_owner |-> "none",
               effect_next |-> "none", effect_state |-> "idle", claims |-> {},
               prev_status |-> {}, slot |-> "free", callback |-> "none",
               wire |-> "none", sent |-> "no"]
    /\ ticks = FALSE
    /\ thread = [t \in Threads |-> Resting]
    /\ failures = 0 /\ lost = FALSE /\ stolen = FALSE

(***************************************************************************)
(* What a handler finds: the evaluation of the effect ring, the keepalive  *)
(* clock, and what becomes of a send - the URB goes out, cannot be had, or *)
(* the sender is preempted just before AdaptoidVendorSend (threads only).  *)
(* The clock only matters when the bitmap did not change.                  *)
(***************************************************************************)
Urb == IF AllocationFails THEN {"out", "refused"} ELSE {"out"}
Found(urbs) == {in \in [changed : BOOLEAN, due : BOOLEAN, urb : urbs] : ~(in.changed /\ in.due)}
NoTick == [changed : {FALSE}, due : {FALSE}, urb : Urb]     \* where nothing is evaluated

--------------------------------------------------------------------------------
(* The slot, as the core sees it *)

TryClaim(s) == [s EXCEPT !.slot = "claimed"]        \* when it is free

Submit(s, who, callback, urb) ==
    CASE s.slot = "claimed" /\ urb = "out" ->
            [s EXCEPT !.slot = "flight", !.callback = callback, !.wire = who, !.sent = "yes"]
      [] s.slot = "claimed" /\ urb # "out" -> [s EXCEPT !.slot = "free", !.sent = "no"]
      [] OTHER -> [s EXCEPT !.sent = "no"]

--------------------------------------------------------------------------------
(* The effect engine *)

(* A preempted sender has composed its request and is yet to send it. *)
Compose(s, next) == [s EXCEPT !.effect_next = next, !.vendor_owner = "effect"]

(* Mutant: a refused send keeps the owner it set. *)
FaultOwnerNotRestored(r, owner) == r

Restore(r, owner) == IF r.sent = "yes" THEN r ELSE [r EXCEPT !.vendor_owner = owner]

EffectIssue(s, next, in) ==
    IF in.urb = "preempted"
    THEN [Compose(s, next) EXCEPT !.sent = "composed"]
    ELSE Restore(Submit(Compose(s, next), "effect", "core", in.urb), s.vendor_owner)

SendPeriodicWindow(s, in) == EffectIssue([s EXCEPT !.effect_state = "periodic"], "none", in)

PokeOrPeriodic(s, in) ==
    IF in.due THEN EffectIssue(s, "periodic", in) ELSE SendPeriodicWindow(s, in)

EffectTick(cs, in) ==
    LET s == [cs EXCEPT !.claims = @ \ {"tick"}, !.sent = "no"]
    IN  CASE in.changed ->
                EffectIssue([s EXCEPT !.effect_state = "tick", !.claims = @ \ {"insert", "remove"}],
                            "keepalive", in)
          [] ~in.changed /\ s.effect_state = "tick" -> PokeOrPeriodic(s, in)
          [] OTHER -> s

Keepalive(s, in) == IF "tick" \in s.claims THEN EffectTick(s, in) ELSE PokeOrPeriodic(s, in)

SendPeriodic(s, in) == IF "tick" \in s.claims THEN EffectTick(s, in) ELSE SendPeriodicWindow(s, in)

SendIdle(s, in) == EffectIssue([s EXCEPT !.claims = @ \ {"idle"}], "none", in)

OnPak(s, change, in) == EffectIssue([s EXCEPT !.claims = @ \ {change}], "update", in)

(* core_effect_claim: take the slot and do the work, or record it. *)
ClaimOr(s, work, done) ==
    IF s.slot = "free" THEN done ELSE [s EXCEPT !.claims = @ \cup {work}]

OnPakChange(s, change, in) == ClaimOr(s, change, OnPak(TryClaim(s), change, in))

Turn(s, work, in) ==
    IF s.sent # "no" \/ work \notin s.claims THEN s
    ELSE CASE work = "idle" -> SendIdle(s, in)
           [] work = "tick" -> EffectTick(s, in)
           [] OTHER -> OnPak(s, work, in)

RunDeferred(s, in) ==
    Turn(Turn(Turn(Turn([s EXCEPT !.sent = "no"], "idle", in), "tick", in), "insert", in),
         "remove", in)

EffectRun(s, in) ==
    LET r == EffectTick(s, in) IN IF r.sent = "no" THEN RunDeferred(r, in) ELSE r

EffectKick(s, in) == ClaimOr(s, "tick", EffectRun(TryClaim(s), in))

EffectComplete(cs, in) ==
    LET s == [cs EXCEPT !.effect_next = "none", !.sent = "no"]
    IN  CASE cs.effect_next = "keepalive" -> Keepalive(s, in)
          [] cs.effect_next = "periodic" -> SendPeriodic(s, in)
          [] cs.effect_next = "update" -> [s EXCEPT !.effect_state = "tick"]
          [] cs.effect_next = "none" -> s

--------------------------------------------------------------------------------
(* The probe *)

ProbeAbandon(s) == [s EXCEPT !.accessory_state = "needed", !.probe_step = DONE]

ProbeIssue(s, step, in) ==
    LET r == Submit([s EXCEPT !.probe_step = step, !.vendor_owner = "probe"], "probe", "core", in.urb)
    IN  IF r.sent = "yes" THEN r ELSE ProbeAbandon([r EXCEPT !.vendor_owner = "none"])

ProbeStart(s, in) ==
    IF s.slot = "free"
    THEN ProbeIssue([TryClaim(s) EXCEPT !.accessory_state = "probing"], 0, in)
    ELSE s

ProbeFound(s) == [s EXCEPT !.accessory_state = "found", !.probe_step = DONE]

(* The last reselect goes out whether or not anybody waits for it. *)
ProbeGivesUp(s, in) ==
    Submit([s EXCEPT !.accessory_state = "unknown", !.probe_step = DONE, !.vendor_owner = "loose"],
           "loose", "core", in.urb)

(***************************************************************************)
(* reply: the controller identified itself, something else answered, or    *)
(* the byte count was wrong.                                               *)
(***************************************************************************)
ProbeComplete(s, reply, in) ==
    IF s.accessory_state # "probing" THEN s
    ELSE CASE s.probe_step < READ1 -> ProbeIssue(s, s.probe_step + 1, in)
           [] s.probe_step = READ1 /\ reply = "garbled" -> ProbeAbandon(s)
           [] s.probe_step = READ1 /\ reply = "other" -> ProbeIssue(s, SEL1, in)
           [] s.probe_step = SEL1 -> ProbeIssue(s, READ2, in)
           [] s.probe_step \in {READ1, READ2} /\ reply = "identified" -> ProbeFound(s)
           [] s.probe_step = READ2 /\ reply # "identified" -> ProbeGivesUp(s, in)
           [] OTHER -> [s EXCEPT !.probe_step = DONE]

ControllerReset(s, in) ==
    IF s.slot = "free"
    THEN Submit([TryClaim(s) EXCEPT !.vendor_owner = "loose"], "loose", "core", in.urb)
    ELSE s

--------------------------------------------------------------------------------
(* A packet: AdaptoidPollComplete calls core_on_raw_packet and core_tick *)

Fresh(s) == [s EXCEPT !.sent = "no"]

(* core_tune_update: in the tuning mode a moved stick kicks the engine, and so does leaving it. *)
TuneUpdate == BOOLEAN

PakChanged(s, status) == ("present" \in s.prev_status) # ("present" \in status)

(* A pulled accessory sends the probe back to its start. *)
Pulled(s, status) ==
    IF "removed" \in s.prev_status /\ "removed" \notin status
    THEN [s EXCEPT !.accessory_state = "needed"]
    ELSE s

PakHook(s, status, in) ==
    IF s.effect_state \in {"periodic", "pak"} /\ PakChanged(s, status)
       /\ (s.effect_state = "pak" \/ "present" \in status)
    THEN OnPakChange(s, IF "present" \in status THEN "insert" ELSE "remove", in)
    ELSE s

(* The first change seen in the periodic state only promotes the state. *)
Promotes(s, status) == s.effect_state = "periodic" /\ PakChanged(s, status)

DecodedPacket(s, status, kick, in1, in2) ==
    LET hooked == PakHook(Pulled(s, status), status, in1)
    IN  IF Promotes(s, status)
        THEN [hooked EXCEPT !.effect_state = "pak", !.prev_status = status]
        ELSE LET r == [hooked EXCEPT !.prev_status = status]
             IN  IF kick THEN EffectKick(Fresh(r), in2) ELSE r

Decoded(s) ==
    /\ ~ticks /\ ticks' = TRUE
    /\ core' = Fresh(s)
    /\ UNCHANGED <<thread, failures, lost, stolen>>

GatedPacket ==
    /\ core.accessory_state \in {"needed", "probing"}
    /\ \E in \in NoTick :
          Decoded(IF core.accessory_state = "needed" THEN ProbeStart(core, in) ELSE core)

InvalidPacket ==
    /\ core.accessory_state \in {"found", "unknown"}
    /\ \E in \in NoTick : Decoded(ControllerReset(core, in))

Packet ==
    /\ core.accessory_state \in {"found", "unknown"}
    /\ \E status \in SUBSET Pak, kick \in TuneUpdate, in1 \in NoTick, in2 \in Found(Urb) :
          Decoded(DecodedPacket(core, status, kick, in1, in2))

Midway == \E t \in Threads : thread[t].at \in {"claimed", "sending"}

(* core_tick sends without a claim of its own. *)
CoreTick ==
    /\ ticks /\ ticks' = FALSE
    /\ \E in \in Found(Urb) : core' = Fresh(EffectTick(core, in))
    /\ stolen' = (stolen \/ (Midway /\ core.slot = "claimed" /\ core'.slot # "claimed"))
    /\ UNCHANGED <<thread, failures, lost>>

--------------------------------------------------------------------------------
(* AdaptoidVendorComplete *)

(***************************************************************************)
(* core_vendor_completed: the result, and whether it took the slot on.  A  *)
(* probe step says so by the owner it leaves behind.                       *)
(***************************************************************************)
Route(s, reply, in) ==
    LET r == [s EXCEPT !.vendor_owner = "none", !.sent = "no"]
    IN  CASE s.vendor_owner = "probe" -> ProbeComplete(r, reply, in)
          [] s.vendor_owner = "effect" -> EffectComplete(r, in)
          [] OTHER -> r

Taken(s, r) ==
    CASE s.callback = "second" -> TRUE
      [] s.callback = "core" /\ s.vendor_owner = "probe" -> r.vendor_owner # "none"
      [] s.callback = "core" /\ s.vendor_owner = "effect" -> r.sent = "yes"
      [] OTHER -> FALSE

(* EnableSecondStage says it took the slot whatever became of its send. *)
RunCallback(s, r, reply, in) ==
    CASE s.callback = "core" -> Route(r, reply, in)
      [] s.callback = "second" -> Submit(r, "other", "none", in.urb)
      [] s.callback = "none" -> r

GiveBack(s) == IF s.slot = "claimed" THEN [s EXCEPT !.slot = "free"] ELSE s

(* Mutant: the slot is given back without looking at the deferred work. *)
FaultDrainFreesFirst(s, taken, in) == IF taken THEN s ELSE GiveBack(s)

(* A callback that took the slot on ends it; otherwise deferred work goes next. *)
Drain(s, taken, in) ==
    LET d == RunDeferred(s, in)
    IN  IF taken THEN s ELSE IF d.sent = "yes" THEN d ELSE GiveBack(d)

Landed(s) == [s EXCEPT !.slot = "claimed", !.callback = "none", !.wire = "none", !.sent = "no"]

CompleteOk ==
    /\ ~ticks
    /\ core.slot = "flight"
    /\ \E reply \in {"identified", "other", "garbled"}, in \in Found(Urb) :
          LET r == RunCallback(core, Landed(core), reply, in)
          IN  core' = Fresh(Drain(r, Taken(core, r), in))
    /\ UNCHANGED <<ticks, thread, failures, lost, stolen>>

(* A failed transfer suppresses the callback and still drains deferred work. *)
CompleteFailed ==
    /\ ~ticks
    /\ core.slot = "flight"
    /\ failures < MaxFailures
    /\ \E in \in Found(Urb) : core' = Fresh(Drain(Landed(core), FALSE, in))
    /\ failures' = failures + 1
    /\ lost' = (lost \/ core.wire = "probe")
    /\ UNCHANGED <<ticks, thread, stolen>>

--------------------------------------------------------------------------------
(* Device requests, at PASSIVE_LEVEL *)

RequestClaim(t, request) ==
    /\ ~ticks
    /\ thread[t].at = "idle"
    /\ thread' = [thread EXCEPT ![t] = [at |-> IF core.slot = "free" THEN "claimed" ELSE "refused",
                                        request |-> request, prev |-> "none"]]
    /\ core' = IF core.slot = "free" THEN TryClaim(core) ELSE core
    /\ UNCHANGED <<ticks, failures, lost, stolen>>

(* Switching off and the effect tick are deferred, the rest is refused. *)
RequestRefused(t) ==
    /\ ~ticks
    /\ thread[t].at = "refused"
    /\ core' = [core EXCEPT !.claims = @ \cup CASE thread[t].request = "kick" -> {"tick"}
                                                [] thread[t].request = "off" -> {"idle"}
                                                [] OTHER -> {}]
    /\ thread' = [thread EXCEPT ![t] = Resting]
    /\ UNCHANGED <<ticks, failures, lost, stolen>>

(* Where the thread is after a step that left the core at r. *)
Proceed(t, r, owner) ==
    /\ ~ticks
    /\ core' = Fresh(r)
    /\ thread' = [thread EXCEPT ![t] = IF r.sent = "composed"
                                       THEN [@ EXCEPT !.at = "sending", !.prev = owner]
                                       ELSE Resting]
    /\ stolen' = (stolen \/ (r.sent = "composed" /\ r.slot # "claimed"))
    /\ UNCHANGED <<ticks, failures, lost>>

RequestRun(t) ==
    /\ thread[t].at = "claimed"
    /\ \/ /\ thread[t].request \in {"kick", "off"}
          /\ \E in \in Found(Urb \cup {"preempted"}) :
                Proceed(t, IF thread[t].request = "kick" THEN EffectRun(core, in) ELSE SendIdle(core, in),
                        core.vendor_owner)
       \/ /\ thread[t].request \in {"on", "raw"}
          /\ \E urb \in Urb, callback \in {"none", "second"} :
                /\ thread[t].request = "raw" => callback = "none"
                /\ Proceed(t, Submit(core, "other", callback, urb), "none")

(* AdaptoidVendorSend of a request composed before; the owner goes back if it is refused. *)
RequestSend(t) ==
    /\ thread[t].at = "sending"
    /\ \E in \in Found(Urb \cup {"preempted"}), urb \in Urb :
          LET r == Restore(Submit(core, "effect", "core", urb), thread[t].prev)
          IN  Proceed(t, IF r.sent = "yes" \/ thread[t].request # "kick"
                         THEN r ELSE RunDeferred(r, in), thread[t].prev)

Next ==
    \/ GatedPacket \/ InvalidPacket \/ Packet \/ CoreTick \/ CompleteOk \/ CompleteFailed
    \/ \E t \in Threads : \/ \E request \in Requests : RequestClaim(t, request)
                          \/ RequestRefused(t) \/ RequestRun(t) \/ RequestSend(t)

Spec == Init /\ [][Next]_vars

(***************************************************************************)
(* The bus completes every transfer, packets keep coming while the device  *)
(* is polled.  A packet keeps completions off the processor only until its *)
(* tick ends, so they are enabled again and again: strong fairness.        *)
(***************************************************************************)
FairSpec ==
    /\ Spec
    /\ SF_vars(CompleteOk \/ CompleteFailed)
    /\ WF_vars(GatedPacket \/ InvalidPacket \/ Packet) /\ WF_vars(CoreTick)

--------------------------------------------------------------------------------
(* Properties *)

(***************************************************************************)
(* The completion of a transfer the core issued is routed to the chain     *)
(* that issued it (core_vendor_completed routes by vendor_owner): as long  *)
(* as every request still has its claim when it sends, a refused send, a   *)
(* preempted request and a deferred one leave the owner of the transfer in *)
(* flight alone.                                                           *)
(***************************************************************************)
RoutedToIssuer ==
    core.slot = "flight" /\ core.callback = "core" /\ ~stolen => core.vendor_owner = core.wire

(***************************************************************************)
(* While accessory_state says PROBING, and so gates all input, a step of   *)
(* the probe is in flight, unless the bus failed one or a request sent     *)
(* without its claim.                                                      *)
(***************************************************************************)
ProbingIsOut ==
    core.accessory_state = "probing" /\ ~lost /\ ~stolen => core.slot = "flight" /\ core.wire = "probe"

(***************************************************************************)
(* A completion that frees the slot (AdaptoidVendorComplete) leaves no     *)
(* deferred work behind: what was refused while the transfer was out has   *)
(* been tried.  Two callbacks say they took the slot on when their URB was *)
(* refused - EnableSecondStage and the last reselect of the probe - and    *)
(* are not held to it.                                                     *)
(***************************************************************************)
NothingLeftBehind ==
    [][/\ core.slot = "flight" /\ core'.slot = "free"
       /\ core.callback # "second" /\ core'.vendor_owner # "loose"
       => core'.claims = {}]_vars

(***************************************************************************)
(* A probe that starts ends - identified, unknown or abandoned - when the  *)
(* bus completes its transfers and requests send on their own claim.       *)
(***************************************************************************)
ProbeEnds == core.accessory_state = "probing" ~> core.accessory_state # "probing" \/ lost \/ stolen

(***************************************************************************)
(* Statements the code does not keep.                                      *)
(***************************************************************************)

(* core_probe_abandon: "Give up and let a later poll try again." *)
ProbeIsRetried == core.accessory_state = "probing" ~> core.accessory_state # "probing"

(* core.h on effect_next: "Which step owns the completion of the transfer now in flight." *)
NextOwnsCompletion ==
    [][CoreTick /\ core.slot = "flight" /\ core.wire = "effect"
       => core'.effect_next = core.effect_next]_vars

(* core_effect_issue: "A REFUSED SEND MUST NOT CHANGE THE OWNER." *)
OwnerIsIssuer ==
    core.slot = "flight" /\ core.callback = "core" => core.vendor_owner = core.wire

================================================================================
