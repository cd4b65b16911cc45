------------------------------- MODULE EffectRing -------------------------------
(***************************************************************************)
(* The effect engine of core.c: the effect slots the device requests       *)
(* program, start and stop, and the ring of precomputed ticks that lets    *)
(* the driver find out that the bitmap on the controller is still right    *)
(* and send nothing.                                                       *)
(*                                                                         *)
(* An evaluation is a loop over ticks, one step each.  The packet DPC      *)
(* (core_tick) and the completion DPC run to their end; a request          *)
(* evaluates at PASSIVE_LEVEL without a lock, so with Overlap a DPC may    *)
(* come between two ticks of it.  Of the vendor slot only what matters     *)
(* here is kept: a kick, a Pak change and a completion evaluate with the   *)
(* slot claimed; core_tick does not claim it, so its sends are refused     *)
(* (VendorSlot and CoreChains have the claim itself).                      *)
(***************************************************************************)
EXTENDS EffectSynthesis, Sequences, TLC

CONSTANTS Slots,            \* effect slots, CORE_EFFECT_SLOTS
          Programs,         \* what EFFECT_PROG may write into a slot
          Calibrations,     \* what the tuning mode may leave behind
          Sticks,           \* stick positions, pairs over the axes
          Window,           \* CORE_EFFECT_WINDOW, ticks per payload
          RingSize,         \* CORE_RING_SIZE
          Grace,            \* ticks a slot outlives its duration, 32 in the code
          MaxTick,          \* bound: the clock
          MaxRequests,      \* bound: requests and stick movements
          MaxRounds,        \* bound: evaluations of a window
          UrbRefused,  \* the URB of a claimed send may be refused
          Overlap           \* a DPC may come inside a request's evaluation

ASSUME EffectConstants ==
    /\ Window \in Nat \ {0} /\ RingSize \in Nat /\ RingSize >= 2 * Window
    /\ Grace \in Nat /\ MaxTick \in Nat /\ MaxRequests \in Nat /\ MaxRounds \in Nat
    /\ UrbRefused \in BOOLEAN /\ Overlap \in BOOLEAN

Runners == {"dpc", "thread"}

VARIABLES
    cs,         \* the engine's part of core_state
    ev,         \* the evaluation each runner is in: the locals of core_effect_evaluate
    now,        \* interrupt time, in ticks
    requests,   \* requests made
    rounds,     \* evaluations begun
    motor       \* what the controller was sent and has not played: tick -> pulse

ringVars == <<cs, ev, now, requests, rounds, motor>>

ZeroCarry == [filtered |-> [a \in Axes |-> 0], accumulator |-> 0, dither_burst |-> 0,
              tune_counter |-> 0, dither_state |-> 0]

(* The carry an entry of the ring keeps: all of it but dither_state. *)
Kept(carry) == [carry EXCEPT !.dither_state = 0]

NoEntry == [pulse |-> 0, intensity |-> 0, carry |-> ZeroCarry, tick |-> 0, from |-> ZeroCarry]

ZeroAxis == [magnitude |-> 0, offset |-> 0, phase |-> 0, period |-> 0, center |-> 0,
             coeff |-> <<0, 0>>, sat |-> <<0, 0>>, dead_band |-> 0, output |-> 0]

ZeroSlot == [type |-> "none", running |-> FALSE, start_tick |-> 0, duration |-> 0,
             attack_level |-> 0, attack_time |-> 0, fade_level |-> 0, fade_time |-> 0,
             block_length |-> 0, axis |-> [a \in Axes |-> ZeroAxis]]

NoEvaluation == [at |-> "idle", why |-> "none", tick |-> 0, idx |-> 0, end |-> 0, skip |-> 0,
                 verify |-> FALSE, claimed |-> FALSE]

RingInit ==
    /\ cs = [effect |-> [s \in Slots |-> ZeroSlot], carry |-> ZeroCarry, idle_ticks |-> 0,
             ring |-> [i \in 0..RingSize - 1 |-> NoEntry], head |-> 0, count |-> 0, base |-> 0,
             next_tick |-> 0, state |-> "idle", next |-> "none", flight |-> FALSE,
             claims |-> {},
             stick |-> [a \in Axes |-> 0],
             tune |-> [period |-> 500, duty |-> 50, strength |-> 100, active |-> FALSE]]
    /\ ev = [r \in Runners |-> NoEvaluation]
    /\ now = 1 /\ requests = 0 /\ rounds = 0
    /\ motor = <<>>

--------------------------------------------------------------------------------
(* The ring *)

RingIndex(c, offset) == (c.head + offset) % RingSize
Stored(k) == cs.ring[RingIndex(cs, k)]

(* Mutant: starting over forgets what tick the ring now starts at. *)
FaultBaseNotMoved(c, tick) ==
    IF tick - c.base < 1 \/ tick - c.base > c.count THEN [c EXCEPT !.count = 0] ELSE c

(* Where the requested time sits in the ring; outside of it, start over. *)
Locate(c, tick) ==
    IF tick - c.base < 1 \/ tick - c.base > c.count
    THEN [c EXCEPT !.base = tick, !.count = 0]
    ELSE c

(* Mutant: the carry comes from the first tick evaluated, not the one before. *)
FaultSeedOneLate(c, before) ==
    IF before > 0 /\ before < c.count
    THEN [c EXCEPT !.carry = [c.ring[RingIndex(c, before)].carry
                                EXCEPT !.dither_state = c.carry.dither_state]]
    ELSE c

Seed(c, before) ==
    IF before > 0 /\ before <= c.count
    THEN [c EXCEPT !.carry = [c.ring[RingIndex(c, before - 1)].carry
                                EXCEPT !.dither_state = c.carry.dither_state]]
    ELSE c

(***************************************************************************)
(* The opening of core_effect_evaluate.  A look ahead verifies what is     *)
(* stored, if there is anything; otherwise the ring is filled up to a      *)
(* window.  The stick is sampled into the conditions once.                 *)
(***************************************************************************)
Evaluate(r, c, why, tick, claimed) ==
    LET l      == Locate(c, tick)
        skip   == tick - l.base
        stored == l.count - skip
        verify == why = "tick" /\ stored > 0
        idx    == IF why = "tick" THEN 0 ELSE stored
        s      == Seed(l, idx + skip)
    IN  /\ rounds < MaxRounds /\ rounds' = rounds + 1
        /\ cs' = [s EXCEPT !.effect = ConditionUpdate(@, s.stick, s.tune.strength)]
        /\ ev' = [ev EXCEPT ![r] = [at |-> "loop", why |-> why, tick |-> tick, idx |-> idx,
                                    end |-> IF verify THEN stored ELSE Window, skip |-> skip,
                                    verify |-> verify, claimed |-> claimed]]

(* Room for the tick at a ring offset: grow, or roll the oldest out. *)
MakeRoom(c, offset) ==
    CASE c.count > offset -> c
      [] c.count <= offset /\ c.count < RingSize -> [c EXCEPT !.count = @ + 1]
      [] OTHER -> [c EXCEPT !.head = RingIndex(c, 1), !.base = @ + 1]

(* One tick: the slots that sound, the modulator, and the entry they leave. *)
TickEntry(c, tick, base) ==
    LET i == Intensity(c.effect, c.carry, tick, c.tune)
        p == Pulse([c.carry EXCEPT !.filtered = Filtered(c.effect, c.carry, tick, c.tune)],
                   i, base, c.tune)
    IN  [entry |-> [pulse |-> p.pulse, intensity |-> i, carry |-> Kept(p.carry), tick |-> tick,
                    from |-> Kept(c.carry)],
         carry |-> p.carry]

SkipAfter(e, rolled) == IF rolled THEN e.skip - 1 ELSE e.skip

EvaluateTick(r) ==
    /\ ev[r].at = "loop" /\ ev[r].idx < ev[r].end
    /\ LET e      == ev[r]
           past   == cs.count <= e.idx + e.skip
           m      == MakeRoom(cs, e.idx + e.skip)
           skip   == SkipAfter(e, m.base # cs.base)
           t      == TickEntry(m, e.tick + e.idx, e.tick)
           at     == RingIndex(m, e.idx + skip)
           verify == e.verify /\ ~past
           differs == verify /\ m.ring[at].pulse # t.entry.pulse
           silent == Playing(cs.effect, e.tick + e.idx) = {}
       IN  /\ cs' = [m EXCEPT !.ring[at] = t.entry, !.carry = t.carry,
                              !.count = IF differs THEN e.idx + 1 + skip ELSE @,
                              !.idle_ticks = IF silent THEN @ + 1 ELSE 0]
           /\ ev' = [ev EXCEPT ![r].idx = @ + 1, ![r].skip = skip,
                               ![r].verify = verify /\ ~differs,
                               ![r].end = IF e.verify /\ (past \/ differs) THEN Window ELSE @]
    /\ UNCHANGED <<now, requests, rounds, motor>>

--------------------------------------------------------------------------------
(* The send chain around an evaluation *)

(* Mutant: the payload is read from the start of the ring. *)
FaultPayloadFromHead(c, e) == [i \in 0..Window - 1 |-> c.ring[RingIndex(c, i)]]

Payload(c, e) == [i \in 0..Window - 1 |-> c.ring[RingIndex(c, i + e.skip)]]

(* core_effect_issue: the slot takes the transfer or refuses it; effect_next
   is overwritten either way. *)
Outcomes(claimed) == IF ~claimed THEN {FALSE} ELSE IF UrbRefused THEN BOOLEAN ELSE {TRUE}
Issue(c, next, taken) == [c EXCEPT !.next = next, !.flight = @ \/ taken]

Send(c, e, next) ==
    \E taken \in Outcomes(e.claimed) :
        LET p == Payload(c, e)
            bits  == [t \in e.tick..e.tick + Window - 1 |-> p[t - e.tick].pulse]
        IN  /\ cs' = Issue(c, next, taken)
            /\ motor' = CASE ~taken -> motor
                          [] taken /\ e.why = "tick" -> bits
                          [] OTHER -> bits @@ motor

Ended(r) == ev' = [ev EXCEPT ![r] = NoEvaluation]

SendTick(r) ==
    /\ ev[r].at = "loop" /\ ev[r].idx >= ev[r].end
    /\ ev[r].why = "tick" /\ ~ev[r].verify
    /\ Send([cs EXCEPT !.next_tick = ev[r].tick + Window, !.state = "tick", !.claims = @ \ {"pak"}],
            ev[r], "keepalive")
    /\ Ended(r)
    /\ UNCHANGED <<now, requests, rounds>>

(* Go on with the window at next_tick. *)
Extend(r, c, why, claimed) == Evaluate(r, c, why, c.next_tick, claimed)
Advanced(c) == [c EXCEPT !.next_tick = @ + Window]

(* Nothing changed: a chain whose last window was a tick is kept alive. *)
NothingChanged(r) ==
    /\ ev[r].at = "loop" /\ ev[r].idx >= ev[r].end
    /\ ev[r].why = "tick" /\ ev[r].verify
    /\ \/ /\ cs.state # "tick"
          /\ Ended(r) /\ UNCHANGED <<cs, rounds>>
       \/ /\ cs.state = "tick"                  \* the register poke is due
          /\ \E taken \in Outcomes(ev[r].claimed) : cs' = Issue(cs, "periodic", taken)
          /\ Ended(r) /\ UNCHANGED rounds
       \/ /\ cs.state = "tick"
          /\ Extend(r, [cs EXCEPT !.state = "periodic"], "periodic", ev[r].claimed)
    /\ UNCHANGED <<now, requests, motor>>

SendWindow(r) ==
    /\ ev[r].at = "loop" /\ ev[r].idx >= ev[r].end /\ ev[r].why = "periodic"
    /\ Send(Advanced(cs), ev[r], "none")
    /\ Ended(r)
    /\ UNCHANGED <<now, requests, rounds>>

(* A Pak change: nothing to play for more than four ticks stops the motor. *)
SendUpdate(r) ==
    /\ ev[r].at = "loop" /\ ev[r].idx >= ev[r].end /\ ev[r].why = "update"
    /\ \/ /\ cs.idle_ticks > 4
          /\ \E taken \in Outcomes(ev[r].claimed) :
                /\ cs' = Issue([Advanced(cs) EXCEPT !.count = 0], "update", taken)
                /\ motor' = IF taken THEN <<>> ELSE motor
       \/ /\ cs.idle_ticks <= 4
          /\ Send(Advanced(cs), ev[r], "update")
    /\ Ended(r)
    /\ UNCHANGED <<now, requests, rounds>>

--------------------------------------------------------------------------------
(* Who evaluates *)

DpcMay == ev["dpc"].at = "idle" /\ (Overlap \/ ev["thread"].at = "idle")
ThreadMay == \A r \in Runners : ev[r].at = "idle"

Run(r, c, tick, claimed) == Evaluate(r, [c EXCEPT !.claims = @ \ {"tick"}], "tick", tick, claimed)

(* core_effect_kick: take the slot and evaluate, or leave the tick deferred. *)
Kick(r, c) ==
    \/ ~cs.flight /\ Run(r, [c EXCEPT !.idle_ticks = 0], now, TRUE)
    \/ /\ cs' = [c EXCEPT !.idle_ticks = 0, !.claims = @ \cup {"tick"}]
       /\ UNCHANGED <<ev, rounds>>

PacketTick ==
    /\ DpcMay
    /\ Run("dpc", cs, now, FALSE)
    /\ UNCHANGED <<now, requests, motor>>

(* A finished transfer hands the chain on. *)
Completed ==
    /\ DpcMay /\ cs.flight
    /\ LET c == [cs EXCEPT !.next = "none", !.flight = FALSE]
       IN  \/ /\ cs.next \in {"keepalive", "periodic"} /\ "tick" \in cs.claims
              /\ Run("dpc", c, now, TRUE)
           \/ /\ cs.next = "keepalive" /\ "tick" \notin cs.claims    \* the poke is due
              /\ \E taken \in Outcomes(TRUE) : cs' = Issue(c, "periodic", taken)
              /\ UNCHANGED <<ev, rounds>>
           \/ /\ cs.next \in {"keepalive", "periodic"} /\ "tick" \notin cs.claims
              /\ Extend("dpc", [c EXCEPT !.state = "periodic"], "periodic", TRUE)
           \/ /\ cs.next = "update"
              /\ cs' = [c EXCEPT !.state = "tick"] /\ UNCHANGED <<ev, rounds>>
           \/ /\ cs.next = "none"
              /\ cs' = c /\ UNCHANGED <<ev, rounds>>
    /\ UNCHANGED <<now, requests, motor>>

(* Deferred work runs with the time the finished transfer was submitted. *)
Deferred ==
    /\ DpcMay /\ ~cs.flight
    /\ \/ /\ "tick" \in cs.claims
          /\ \E tick \in {now - 1, now} : Run("dpc", cs, tick, TRUE)
       \/ /\ cs.claims = {"pak"}
          /\ Extend("dpc", [cs EXCEPT !.claims = {}], "update", TRUE)
    /\ UNCHANGED <<now, requests, motor>>

(* A Pak change is acted on once windows have been sent. *)
PakChange ==
    /\ DpcMay /\ cs.state \in {"periodic", "pak"}
    /\ \/ /\ ~cs.flight
          /\ Extend("dpc", [cs EXCEPT !.state = "pak", !.claims = @ \ {"pak"}], "update", TRUE)
       \/ cs' = [cs EXCEPT !.state = "pak", !.claims = @ \cup {"pak"}] /\ UNCHANGED <<ev, rounds>>
    /\ UNCHANGED <<now, requests, motor>>

Clock ==
    /\ now < MaxTick /\ DpcMay
    /\ now' = now + 1
    /\ motor' = [t \in {t \in DOMAIN motor : t > now} |-> motor[t]]
    /\ UNCHANGED <<cs, ev, requests, rounds>>

--------------------------------------------------------------------------------
(* Device requests *)

Asked == requests < MaxRequests /\ requests' = requests + 1

(* core_effect_slot_active: is it sounding, and what the question leaves. *)
Sounds(fx) ==
    /\ fx.running /\ now >= fx.start_tick
    /\ fx.duration = CORE_FX_INFINITE \/ now - fx.start_tick < fx.duration

Retire(fx) ==
    IF /\ fx.running /\ now >= fx.start_tick /\ fx.duration # CORE_FX_INFINITE
       /\ now - fx.start_tick > fx.duration + Grace
    THEN [fx EXCEPT !.running = FALSE]
    ELSE fx

(* A block of no length programs the slot without starting it. *)
Programmed(fx, p, restart) ==
    LET w == [fx EXCEPT !.type = p.type, !.duration = p.duration,
                        !.attack_level = p.attack_level, !.attack_time = p.attack_time,
                        !.fade_level = p.fade_level, !.fade_time = p.fade_time,
                        !.block_length = p.block_length,
                        !.axis = IF p.block_length > 0 THEN p.axis ELSE @]
        asks  == w.running /\ restart # "always"
        after == IF asks THEN Retire(w) ELSE w
        fresh == IF w.running THEN restart = "always" \/ ~Sounds(w) ELSE restart # "never"
    IN  [after EXCEPT !.start_tick = IF fresh THEN now ELSE @,
                      !.running = IF p.block_length > 0 THEN TRUE ELSE @]

EffectProg ==
    /\ ThreadMay /\ Asked
    /\ \E s \in Slots, p \in Programs, restart \in {"never", "stopped", "always"} :
        LET c == [cs EXCEPT !.effect[s] = Programmed(@, p, restart)]
        IN  IF p.block_length > 0 THEN Kick("thread", c) ELSE cs' = c /\ UNCHANGED <<ev, rounds>>
    /\ UNCHANGED <<now, motor>>

EffectStart ==
    /\ ThreadMay /\ Asked
    /\ \E s \in Slots :
        /\ cs.effect[s].block_length > 0
        /\ Kick("thread", [cs EXCEPT !.effect[s].running = TRUE, !.effect[s].start_tick = now])
    /\ UNCHANGED <<now, motor>>

(* STOP, STOP_ALL and, with no slot named, an unknown command: all kick. *)
EffectStop ==
    /\ ThreadMay /\ Asked
    /\ \E stopped \in SUBSET Slots :
        Kick("thread", [cs EXCEPT !.effect = [s \in Slots |->
                                    [@[s] EXCEPT !.running = @ /\ s \notin stopped]]])
    /\ UNCHANGED <<now, motor>>

EffectQuery ==
    /\ ThreadMay /\ Asked
    /\ \E s \in Slots : cs' = [cs EXCEPT !.effect[s] = Retire(@)]
    /\ UNCHANGED <<ev, now, rounds, motor>>

(* A packet moves the stick or, in tuning mode, the calibration. *)
StickMoves ==
    /\ DpcMay /\ Asked
    /\ \E stick \in Sticks, tune \in Calibrations \cup {cs.tune} :
        LET c == [cs EXCEPT !.stick = stick, !.tune = tune]
        IN  \/ (tune # cs.tune \/ (stick # cs.stick /\ ~tune.active /\ tune.strength # 0
                    /\ \E s \in Slots : c.effect[s].type = "tuning" /\ c.effect[s].running))
               /\ Kick("dpc", c)
            \/ tune = cs.tune /\ stick # cs.stick /\ cs' = c /\ UNCHANGED <<ev, rounds>>
    /\ UNCHANGED <<now, motor>>

--------------------------------------------------------------------------------
Evaluation(r) ==
    EvaluateTick(r) \/ SendTick(r) \/ NothingChanged(r) \/ SendWindow(r) \/ SendUpdate(r)

RingNext ==
    \/ Evaluation("dpc")
    \/ ev["dpc"].at = "idle" /\ Evaluation("thread")
    \/ PacketTick \/ Completed \/ Deferred \/ PakChange \/ Clock
    \/ EffectProg \/ EffectStart \/ EffectStop \/ EffectQuery \/ StickMoves

RingSpec == RingInit /\ [][RingNext]_ringVars

--------------------------------------------------------------------------------
(***************************************************************************)
(* ring_head stands for ring_base_tick and the ring is contiguous: the     *)
(* entry at offset k was computed for tick base + k - through truncation   *)
(* at a disagreement, growth, and the roll when the ring is full.          *)
(***************************************************************************)
RingIndexedByTick ==
    /\ cs.count \in 0..RingSize
    /\ \A k \in 0..cs.count - 1 : Stored(k).tick = cs.base + k

(***************************************************************************)
(* A payload core_effect_evaluate composes covers the ticks it was asked   *)
(* for, in order, wherever the evaluation started in the ring.             *)
(***************************************************************************)
WindowCoversItsTicks ==
    \A r \in Runners :
        (ev[r].at = "loop" /\ ev[r].idx >= ev[r].end /\ ~ev[r].verify) =>
            \A i \in 0..Window - 1 : Payload(cs, ev[r])[i].tick = ev[r].tick + i

(***************************************************************************)
(* Between evaluations every stored tick was computed from the carry the   *)
(* entry before it holds, so a partial evaluation goes on from the filter, *)
(* accumulator and burst the ticks before it really left.                  *)
(***************************************************************************)
CarryIsChained ==
    (\A r \in Runners : ev[r].at = "idle") =>
        \A k \in 1..cs.count - 1 : Stored(k).from = Stored(k - 1).carry

(***************************************************************************)
(* However long the engine runs, the modulator's state stays where the     *)
(* code's narrow constants expect it: the accumulator within one pulse,    *)
(* a burst within its draw, the low-pass within six full-scale sums.       *)
(***************************************************************************)
CarryStaysInRange ==
    \A k \in 0..cs.count - 1 :
        LET c == Stored(k).carry
        IN  /\ c.accumulator \in 0..100 /\ c.dither_burst \in 0..14
            /\ c.tune_counter \in 0..11
            /\ \A a \in Axes :
                Magnitude(c.filtered[a]) <= 6 * CORE_FX_CLAMP * Cardinality(Slots)

(* A motor that was told nothing about a tick is silent in it. *)
Played(tick) == IF tick \in DOMAIN motor THEN motor[tick] ELSE 0

(***************************************************************************)
(* core.h of the answer "nothing to send": the ring still agrees with what *)
(* the controller already has.                                             *)
(***************************************************************************)
AgreedIsOnMotor ==
    \A r \in Runners :
        (ev[r].at = "loop" /\ ev[r].idx >= ev[r].end /\ ev[r].verify) =>
            \A k \in 0..ev[r].end - 1 :
                Stored(k + ev[r].skip).pulse = Played(ev[r].tick + k)
================================================================================
