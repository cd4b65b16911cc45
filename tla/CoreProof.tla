-------------------------------- MODULE CoreProof --------------------------------
(***************************************************************************)
(* Proofs about the two modules on core.c: CoreChains (who owns a          *)
(* completion, what a failed transfer leaves behind) and, from the section *)
(* "The ring of effect samples" on, EffectRing.                            *)
(*                                                                         *)
(* CoreChains: for any threads and requests, any length of the probe and   *)
(* any number of failed transfers.  Each handler is described by what it   *)
(* may do to the slot and to the owner of the transfer in flight           *)
(* (Outcome); how an action uses the handlers is then a matter of a few    *)
(* cases.                                                                  *)
(*                                                                         *)
(* EffectRing: for any effects, any window and any ring of at least two    *)
(* windows, while no evaluation comes between two ticks of another one     *)
(* (Overlap = FALSE).  An entry of the ring is named by its distance from  *)
(* head, so most of the work is that writing a tick or moving head on      *)
(* renames the entries as it should; RingInv adds to the three properties  *)
(* where an evaluation under way is (Under): everything behind it is       *)
(* chained, its carry is that of the tick before it, and it stores nothing *)
(* ahead unless it is verifying, and then it runs to the end of what was   *)
(* stored.                                                                 *)
(***************************************************************************)
EXTENDS CoreChains, EffectRing, TLAPS

Fields ==
    {"accessory_state", "probe_step", "vendor_owner", "effect_next", "effect_state", "claims",
     "prev_status", "slot", "callback", "wire", "sent"}

Nexts == {"none", "keepalive", "periodic", "update"}
Callbacks == {"none", "core", "second"}

(* The core's record, as far as the argument needs it. *)
Shaped(s) ==
    /\ DOMAIN s = Fields /\ s.claims \subseteq Work /\ s.effect_next \in Nexts
    /\ s.callback \in Callbacks
Well(s) ==
    /\ Shaped(s)
    /\ s.accessory_state = "probing" => s.probe_step \in 0..READ2

(* A completion would go to the chain that issued the transfer in flight. *)
Routed(s) == s.slot = "flight" /\ s.callback = "core" => s.vendor_owner = s.wire

SameProbe(s, r) == r.accessory_state = s.accessory_state /\ r.probe_step = s.probe_step
SameBus(s, r) == r.wire = s.wire /\ r.callback = s.callback

(***************************************************************************)
(* What the effect engine makes of s, however often it tries: a transfer   *)
(* of its own went out, the request is composed and not yet sent, or       *)
(* nothing was sent, the claim given back if it was tried with, and the    *)
(* owner is the one before.                                                *)
(***************************************************************************)
Outcome(s, r, urb) ==
    /\ r.sent \in {"no", "yes", "composed"}
    /\ r.sent = "yes" =>
          /\ s.slot = "claimed" /\ r.slot = "flight"
          /\ r.callback = "core" /\ r.wire = "effect" /\ r.vendor_owner = "effect"
    /\ r.sent # "yes" =>
          SameBus(s, r) /\ (r.slot = s.slot \/ (s.slot = "claimed" /\ r.slot = "free"))
    /\ r.sent = "no" => r.vendor_owner = s.vendor_owner
    /\ r.sent = "composed" => r.vendor_owner = "effect" /\ urb = "preempted"

Engine(s, r, urb) ==
    /\ Well(r) /\ SameProbe(s, r) /\ r.claims \subseteq s.claims
    /\ Outcome(s, r, urb)

(* s and q differ in nothing but the state of the engine and its claims. *)
Alike(s, q) ==
    /\ Well(q) /\ SameProbe(s, q) /\ SameBus(s, q) /\ q.claims \subseteq s.claims
    /\ q.slot = s.slot /\ q.vendor_owner = s.vendor_owner

LEMMA AlikeEngine ==
    ASSUME NEW s, NEW q, NEW r, NEW urb, Alike(s, q), Engine(q, r, urb)
    PROVE  Engine(s, r, urb)
BY DEF Alike, Engine, Outcome, SameProbe, SameBus

(* Nothing sent, and then another try. *)
LEMMA EngineTwice ==
    ASSUME NEW s, NEW q, NEW r, NEW urb, Engine(s, q, urb), q.sent = "no", Engine(q, r, urb)
    PROVE  Engine(s, r, urb)
BY DEF Engine, Outcome, SameProbe, SameBus

LEMMA NoTry ==
    ASSUME NEW s, NEW q, NEW urb, Alike(s, q), q.sent = "no"
    PROVE  Engine(s, q, urb)
BY DEF Alike, Engine, Outcome, SameBus

--------------------------------------------------------------------------------
(* The effect engine *)

LEMMA IssueEngine ==
    ASSUME NEW s, Well(s), NEW next \in Nexts, NEW in
    PROVE  Engine(s, EffectIssue(s, next, in), in.urb)
<1> DEFINE c == Compose(s, next)
           p == Submit(c, "effect", "core", in.urb)
           r == EffectIssue(s, next, in)
<1>1. /\ DOMAIN c = Fields /\ SameProbe(s, c) /\ SameBus(s, c) /\ c.claims = s.claims
      /\ c.slot = s.slot /\ c.vendor_owner = "effect" /\ c.effect_next = next
  BY DEF Compose, Well, Shaped, Fields, SameProbe, SameBus
<1> HIDE DEF c
<1>2. CASE in.urb = "preempted"
  <2>1. r = [c EXCEPT !.sent = "composed"]
    BY <1>2 DEF EffectIssue, c
  <2>2. /\ DOMAIN r = Fields /\ SameProbe(s, r) /\ SameBus(s, r) /\ r.claims = s.claims
        /\ r.slot = s.slot /\ r.vendor_owner = "effect" /\ r.sent = "composed"
        /\ r.effect_next = next
    BY <1>1, <2>1 DEF Fields, SameProbe, SameBus
  <2> QED
    BY <1>2, <2>2 DEF Engine, Outcome, Well, Shaped, Callbacks, SameProbe, SameBus
<1>3. CASE in.urb # "preempted"
  <2>1. r = Restore(p, s.vendor_owner)
    BY <1>3 DEF EffectIssue, c
  <2>2. /\ DOMAIN p = Fields /\ SameProbe(s, p) /\ p.claims = s.claims
        /\ p.effect_next = next
        /\ \/ /\ p.sent = "yes" /\ s.slot = "claimed" /\ p.slot = "flight"
              /\ p.callback = "core" /\ p.wire = "effect" /\ p.vendor_owner = "effect"
           \/ /\ p.sent = "no" /\ SameBus(s, p)
              /\ p.slot = s.slot \/ (s.slot = "claimed" /\ p.slot = "free")
    <3>1. CASE s.slot = "claimed" /\ in.urb = "out"
      <4>1. p = [c EXCEPT !.slot = "flight", !.callback = "core", !.wire = "effect",
                          !.sent = "yes"]
        BY <1>1, <3>1 DEF Submit
      <4> QED
        BY <1>1, <3>1, <4>1 DEF Fields, SameProbe
    <3>2. CASE s.slot = "claimed" /\ in.urb # "out"
      <4>1. p = [c EXCEPT !.slot = "free", !.sent = "no"]
        BY <1>1, <3>2 DEF Submit
      <4> QED
        BY <1>1, <3>2, <4>1 DEF Fields, SameProbe, SameBus
    <3>3. CASE s.slot # "claimed"
      <4>1. p = [c EXCEPT !.sent = "no"]
        BY <1>1, <3>3 DEF Submit
      <4> QED
        BY <1>1, <3>3, <4>1 DEF Fields, SameProbe, SameBus
    <3> QED
      BY <3>1, <3>2, <3>3
  <2> HIDE DEF p
  <2>3. CASE p.sent = "yes"
    <3>1. r = p
      BY <2>1, <2>3 DEF Restore
    <3> QED
      BY <2>2, <2>3, <3>1 DEF Engine, Outcome, Well, Shaped, Callbacks, SameProbe, SameBus
  <2>4. CASE p.sent = "no"
    <3>1. r = [p EXCEPT !.vendor_owner = s.vendor_owner]
      BY <2>1, <2>4 DEF Restore
    <3>2. /\ DOMAIN r = Fields /\ SameProbe(s, r) /\ SameBus(s, r) /\ r.claims = s.claims
          /\ r.slot = p.slot /\ r.sent = "no" /\ r.vendor_owner = s.vendor_owner
          /\ r.effect_next = next
      BY <2>2, <2>4, <3>1 DEF Fields, SameProbe, SameBus
    <3> QED
      BY <2>2, <2>4, <3>2 DEF Engine, Outcome, Well, Shaped, Callbacks, SameProbe, SameBus
  <2> QED
    BY <2>2, <2>3, <2>4
<1> QED
  BY <1>2, <1>3
LEMMA WindowEngine ==
    ASSUME NEW s, Well(s), NEW in
    PROVE  /\ Engine(s, SendPeriodicWindow(s, in), in.urb)
           /\ Engine(s, PokeOrPeriodic(s, in), in.urb)
<1> DEFINE q == [s EXCEPT !.effect_state = "periodic"]
<1>1. Alike(s, q)
  BY DEF Alike, Well, Shaped, Fields, Nexts, Callbacks, SameProbe, SameBus
<1>2. Well(q)
  BY <1>1 DEF Alike
<1> HIDE DEF q
<1>3. Engine(s, EffectIssue(q, "none", in), in.urb)
  BY <1>1, <1>2, IssueEngine, AlikeEngine DEF Nexts
<1>4. Engine(s, SendPeriodicWindow(s, in), in.urb)
  BY <1>3 DEF SendPeriodicWindow, q
<1>5. Engine(s, EffectIssue(s, "periodic", in), in.urb)
  BY IssueEngine DEF Nexts
<1> QED
  BY <1>4, <1>5 DEF PokeOrPeriodic

(* A tick has served the claim of a tick, whatever it does. *)
LEMMA TickEngine ==
    ASSUME NEW s, Well(s), NEW in
    PROVE  Engine(s, EffectTick(s, in), in.urb) /\ "tick" \notin EffectTick(s, in).claims
<1> DEFINE q == [s EXCEPT !.claims = @ \ {"tick"}, !.sent = "no"]
           d == [q EXCEPT !.effect_state = "tick", !.claims = @ \ {"insert", "remove"}]
<1>1. Alike(s, q) /\ q.sent = "no" /\ q.claims = s.claims \ {"tick"} /\ Well(q)
  BY DEF Alike, Well, Shaped, Fields, Nexts, Callbacks, SameProbe, SameBus
<1> HIDE DEF q
<1>2. Alike(q, d) /\ "tick" \notin d.claims /\ Well(d)
  BY <1>1 DEF Alike, Well, Shaped, Fields, Nexts, Callbacks, SameProbe, SameBus
<1> HIDE DEF d
<1>3. Engine(q, EffectIssue(d, "keepalive", in), in.urb)
         /\ "tick" \notin EffectIssue(d, "keepalive", in).claims
  BY <1>2, IssueEngine, AlikeEngine DEF Engine, Nexts
<1>4. Engine(q, PokeOrPeriodic(q, in), in.urb) /\ "tick" \notin PokeOrPeriodic(q, in).claims
  BY <1>1, WindowEngine DEF Engine
<1>5. EffectTick(s, in) \in {EffectIssue(d, "keepalive", in), PokeOrPeriodic(q, in), q}
  BY DEF EffectTick, q, d
<1>6. Engine(s, q, in.urb) /\ "tick" \notin q.claims
  BY <1>1, NoTry
<1> QED
  BY <1>1, <1>3, <1>4, <1>5, <1>6, AlikeEngine

LEMMA IdleEngine ==
    ASSUME NEW s, Well(s), NEW in
    PROVE  Engine(s, SendIdle(s, in), in.urb) /\ "idle" \notin SendIdle(s, in).claims
<1> DEFINE q == [s EXCEPT !.claims = @ \ {"idle"}]
<1>1. Alike(s, q) /\ "idle" \notin q.claims /\ Well(q)
  BY DEF Alike, Well, Shaped, Fields, Nexts, Callbacks, SameProbe, SameBus
<1> HIDE DEF q
<1>2. Engine(s, EffectIssue(q, "none", in), in.urb)
         /\ "idle" \notin EffectIssue(q, "none", in).claims
  BY <1>1, IssueEngine, AlikeEngine DEF Engine, Nexts
<1> QED
  BY <1>2 DEF SendIdle, q

LEMMA PakEngine ==
    ASSUME NEW s, Well(s), NEW change, NEW in
    PROVE  Engine(s, OnPak(s, change, in), in.urb) /\ change \notin OnPak(s, change, in).claims
<1> DEFINE q == [s EXCEPT !.claims = @ \ {change}]
<1>1. Alike(s, q) /\ change \notin q.claims /\ Well(q)
  BY DEF Alike, Well, Shaped, Fields, Nexts, Callbacks, SameProbe, SameBus
<1> HIDE DEF q
<1>2. Engine(s, EffectIssue(q, "update", in), in.urb)
         /\ change \notin EffectIssue(q, "update", in).claims
  BY <1>1, IssueEngine, AlikeEngine DEF Engine, Nexts
<1> QED
  BY <1>2 DEF OnPak, q

(* A turn serves its work, unless something was sent before. *)
LEMMA TurnEngine ==
    ASSUME NEW s, NEW q, NEW work \in Work, NEW in, Engine(s, q, in.urb)
    PROVE  /\ Engine(s, Turn(q, work, in), in.urb)
           /\ Turn(q, work, in).claims \subseteq q.claims
           /\ Turn(q, work, in).sent = "no" =>
                 q.sent = "no" /\ work \notin Turn(q, work, in).claims
<1>1. Well(q)
  BY DEF Engine
<1>2. CASE q.sent # "no" \/ work \notin q.claims
  BY <1>2 DEF Turn
<1>3. CASE q.sent = "no" /\ work \in q.claims
  <2> DEFINE r == Turn(q, work, in)
  <2>1. \/ work = "idle" /\ r = SendIdle(q, in)
        \/ work = "tick" /\ r = EffectTick(q, in)
        \/ r = OnPak(q, work, in)
    BY <1>3 DEF Turn
  <2>2. Engine(q, r, in.urb) /\ work \notin r.claims
    BY <1>1, <2>1, IdleEngine, TickEngine, PakEngine
  <2>3. Engine(s, r, in.urb)
    BY <1>3, <2>2, EngineTwice
  <2> QED
    BY <1>3, <2>2, <2>3 DEF Engine
<1> QED
  BY <1>2, <1>3

(***************************************************************************)
(* core_effect_run_deferred: what was deferred has been tried when nothing *)
(* was sent.                                                               *)
(***************************************************************************)
LEMMA DeferredEngine ==
    ASSUME NEW s, Well(s), NEW in
    PROVE  /\ Engine(s, RunDeferred(s, in), in.urb)
           /\ RunDeferred(s, in).sent = "no" => RunDeferred(s, in).claims = {}
<1> DEFINE q0 == [s EXCEPT !.sent = "no"]
           q1 == Turn(q0, "idle", in)
           q2 == Turn(q1, "tick", in)
           q3 == Turn(q2, "insert", in)
           q4 == Turn(q3, "remove", in)
<1>1. Alike(s, q0) /\ q0.sent = "no"
  BY DEF Alike, Well, Shaped, Fields, Nexts, Callbacks, SameProbe, SameBus
<1>2. Engine(s, q0, in.urb)
  BY <1>1, NoTry
<1> HIDE DEF q0
<1>3. /\ Engine(s, q1, in.urb)
      /\ q1.sent = "no" => "idle" \notin q1.claims
  BY <1>2, TurnEngine DEF Work
<1> HIDE DEF q1
<1>4. /\ Engine(s, q2, in.urb) /\ q2.claims \subseteq q1.claims
      /\ q2.sent = "no" => q1.sent = "no" /\ "tick" \notin q2.claims
  BY <1>3, TurnEngine DEF Work
<1> HIDE DEF q2
<1>5. /\ Engine(s, q3, in.urb) /\ q3.claims \subseteq q2.claims
      /\ q3.sent = "no" => q2.sent = "no" /\ "insert" \notin q3.claims
  BY <1>4, TurnEngine DEF Work
<1> HIDE DEF q3
<1>6. /\ Engine(s, q4, in.urb) /\ q4.claims \subseteq q3.claims
      /\ q4.sent = "no" => q3.sent = "no" /\ "remove" \notin q4.claims
  BY <1>5, TurnEngine DEF Work
<1> HIDE DEF q4
<1>7. q4.sent = "no" => q4.claims = {}
  BY <1>3, <1>4, <1>5, <1>6 DEF Engine, Well, Shaped, Work
<1>8. RunDeferred(s, in) = q4
  BY DEF RunDeferred, q0, q1, q2, q3, q4
<1> QED
  BY <1>6, <1>7, <1>8

LEMMA RunEngine ==
    ASSUME NEW s, Well(s), NEW in
    PROVE  Engine(s, EffectRun(s, in), in.urb)
<1> DEFINE r == EffectTick(s, in)
<1>1. Engine(s, r, in.urb)
  BY TickEngine
<1>2. Well(r)
  BY <1>1 DEF Engine
<1> HIDE DEF r
<1>3. r.sent = "no" => Engine(s, RunDeferred(r, in), in.urb)
  BY <1>1, <1>2, DeferredEngine, EngineTwice
<1>4. EffectRun(s, in) = IF r.sent = "no" THEN RunDeferred(r, in) ELSE r
  BY DEF EffectRun, r
<1> QED
  BY <1>1, <1>3, <1>4

(* The completion of a transfer of the engine: the next one of its chain. *)
LEMMA CompleteEngine ==
    ASSUME NEW s, Well(s), NEW in
    PROVE  Engine(s, EffectComplete(s, in), in.urb)
<1> DEFINE q == [s EXCEPT !.effect_next = "none", !.sent = "no"]
           u == [q EXCEPT !.effect_state = "tick"]
<1>1. Alike(s, q) /\ q.sent = "no" /\ Well(q)
  BY DEF Alike, Well, Shaped, Fields, Nexts, Callbacks, SameProbe, SameBus
<1> HIDE DEF q
<1>2. Alike(q, u) /\ u.sent = "no"
  BY <1>1 DEF Alike, Well, Shaped, Fields, Nexts, Callbacks, SameProbe, SameBus
<1> HIDE DEF u
<1>3. Engine(q, u, in.urb) /\ Engine(q, q, in.urb)
  BY <1>1, <1>2, NoTry DEF Alike, SameProbe, SameBus
<1>4. Engine(q, EffectTick(q, in), in.urb) /\ Engine(q, PokeOrPeriodic(q, in), in.urb)
         /\ Engine(q, SendPeriodicWindow(q, in), in.urb)
  BY <1>1, TickEngine, WindowEngine
<1>5. EffectComplete(s, in) \in
         {EffectTick(q, in), PokeOrPeriodic(q, in), SendPeriodicWindow(q, in), u, q}
  BY DEF EffectComplete, Keepalive, SendPeriodic, Well, Shaped, Nexts, q, u
<1> QED
  BY <1>1, <1>3, <1>4, <1>5, AlikeEngine
--------------------------------------------------------------------------------
(* The slot, the probe and the end of a transfer *)

LEMMA SubmitShape ==
    ASSUME NEW s, Well(s), NEW who, NEW callback \in Callbacks, NEW urb
    PROVE  LET r == Submit(s, who, callback, urb) IN
           /\ Well(r) /\ SameProbe(s, r) /\ r.claims = s.claims
           /\ r.vendor_owner = s.vendor_owner
           /\ \/ /\ s.slot = "claimed" /\ r.slot = "flight" /\ r.callback = callback
                 /\ r.wire = who /\ r.sent = "yes"
              \/ /\ r.sent = "no" /\ SameBus(s, r)
                 /\ r.slot = IF s.slot = "claimed" THEN "free" ELSE s.slot
<1> DEFINE r == Submit(s, who, callback, urb)
<1>1. CASE s.slot = "claimed" /\ urb = "out"
  <2>1. r = [s EXCEPT !.slot = "flight", !.callback = callback, !.wire = who, !.sent = "yes"]
    BY <1>1 DEF Submit
  <2> QED
    BY <1>1, <2>1 DEF Well, Shaped, Fields, SameProbe
<1>2. CASE s.slot = "claimed" /\ urb # "out"
  <2>1. r = [s EXCEPT !.slot = "free", !.sent = "no"]
    BY <1>2 DEF Submit
  <2> QED
    BY <1>2, <2>1 DEF Well, Shaped, Fields, SameProbe, SameBus
<1>3. CASE s.slot # "claimed"
  <2>1. r = [s EXCEPT !.sent = "no"]
    BY <1>3 DEF Submit
  <2> QED
    BY <1>3, <2>1 DEF Well, Shaped, Fields, SameProbe, SameBus
<1> QED
  BY <1>1, <1>2, <1>3

(* A step of the probe is out, the probe is over, or the last reselect was tried. *)
Out(r) ==
    /\ r.slot = "flight" /\ r.callback = "core" /\ r.wire = "probe"
    /\ r.vendor_owner = "probe"
Over(r) == r.slot \in {"claimed", "free"} /\ r.vendor_owner = "none"
Loose(r) ==
    /\ r.vendor_owner = "loose"
    /\ r.slot = "free" \/ (r.slot = "flight" /\ r.callback = "core" /\ r.wire = "loose")

Probed(s, r) ==
    /\ Well(r) /\ r.claims = s.claims
    /\ Out(r) \/ (r.accessory_state # "probing" /\ (Over(r) \/ Loose(r)))

LEMMA IssueProbed ==
    ASSUME NEW s, Shaped(s), s.slot = "claimed", s.accessory_state = "probing",
           NEW step \in 0..READ2, NEW in
    PROVE  Probed(s, ProbeIssue(s, step, in))
<1> DEFINE q == [s EXCEPT !.probe_step = step, !.vendor_owner = "probe"]
           r == Submit(q, "probe", "core", in.urb)
           n == [r EXCEPT !.vendor_owner = "none"]
<1>1. /\ Well(q) /\ q.slot = "claimed" /\ q.claims = s.claims /\ q.vendor_owner = "probe"
      /\ q.accessory_state = "probing"
  BY DEF Well, Shaped, Fields
<1> HIDE DEF q
<1>2. /\ Well(r) /\ r.claims = s.claims /\ r.vendor_owner = "probe"
      /\ \/ r.slot = "flight" /\ r.callback = "core" /\ r.wire = "probe" /\ r.sent = "yes"
         \/ r.sent = "no" /\ r.slot = "free"
  BY <1>1, SubmitShape DEF Callbacks
<1> HIDE DEF r
<1>3. ProbeIssue(s, step, in) = IF r.sent = "yes" THEN r ELSE ProbeAbandon(n)
  BY DEF ProbeIssue, r, q
<1>4. CASE r.sent = "yes"
  BY <1>2, <1>3, <1>4 DEF Probed, Out
<1>5. CASE r.sent = "no" /\ r.slot = "free"
  <2>1. /\ DOMAIN n = Fields /\ n.slot = "free" /\ n.claims = s.claims
        /\ n.callback = r.callback /\ n.effect_next = r.effect_next
        /\ n.vendor_owner = "none"
    BY <1>2, <1>5 DEF Well, Shaped, Fields
  <2> HIDE DEF n
  <2>2. ProbeAbandon(n) = [n EXCEPT !.accessory_state = "needed", !.probe_step = DONE]
    BY DEF ProbeAbandon
  <2> QED
    BY <1>2, <1>3, <1>5, <2>1, <2>2 DEF Probed, Over, Well, Shaped, Fields
<1> QED
  BY <1>2, <1>4, <1>5

LEMMA CompleteProbed ==
    ASSUME NEW s, Well(s), s.slot = "claimed", s.vendor_owner = "none",
           NEW reply \in {"identified", "other", "garbled"}, NEW in
    PROVE  Probed(s, ProbeComplete(s, reply, in))
<1>0. OutSteps \in Nat \ {0}
  BY ChainConstants
<1>1. CASE s.accessory_state # "probing"
  BY <1>1 DEF ProbeComplete, Probed, Over
<1>2. CASE s.accessory_state = "probing"
  <2> DEFINE r == ProbeComplete(s, reply, in)
  <2>1. s.probe_step \in 0..READ2
    BY <1>2 DEF Well, Shaped
  <2>2. \/ \E step \in 0..READ2 : r = ProbeIssue(s, step, in)
        \/ r = ProbeAbandon(s) \/ r = ProbeFound(s) \/ r = ProbeGivesUp(s, in)
    <3>1. CASE s.probe_step < READ1
      <4>1. r = ProbeIssue(s, s.probe_step + 1, in)
        BY <1>0, <1>2, <2>1, <3>1 DEF ProbeComplete, READ1, READ2, SEL1
      <4>2. s.probe_step + 1 \in 0..READ2
        BY <1>0, <2>1, <3>1 DEF READ1, READ2
      <4> QED
        BY <4>1, <4>2
    <3>2. CASE s.probe_step = READ1
      <4>1. SEL1 \in 0..READ2 /\ READ1 # SEL1 /\ READ1 # READ2 /\ ~(READ1 < READ1)
        BY <1>0 DEF READ1, SEL1, READ2
      <4>2. r \in {ProbeAbandon(s), ProbeIssue(s, SEL1, in), ProbeFound(s)}
        BY <1>2, <3>2, <4>1 DEF ProbeComplete
      <4> QED
        BY <4>1, <4>2
    <3>3. CASE s.probe_step = SEL1
      <4>1. READ2 \in 0..READ2 /\ READ1 # SEL1 /\ SEL1 # READ2 /\ ~(SEL1 < READ1)
        BY <1>0 DEF READ1, SEL1, READ2
      <4>2. r = ProbeIssue(s, READ2, in)
        BY <1>2, <3>3, <4>1 DEF ProbeComplete
      <4> QED
        BY <4>1, <4>2
    <3>4. CASE s.probe_step = READ2
      <4>1. READ1 # READ2 /\ SEL1 # READ2 /\ ~(READ2 < READ1)
        BY <1>0 DEF READ1, SEL1, READ2
      <4>2. r \in {ProbeFound(s), ProbeGivesUp(s, in)}
        BY <1>2, <3>4, <4>1 DEF ProbeComplete
      <4> QED
        BY <4>2
    <3> QED
      BY <1>0, <2>1, <3>1, <3>2, <3>3, <3>4 DEF READ1, SEL1, READ2
  <2> HIDE DEF r
  <2>3. CASE \E step \in 0..READ2 : r = ProbeIssue(s, step, in)
    BY <1>2, <2>3, IssueProbed DEF Well, r
  <2>4. CASE r = ProbeAbandon(s) \/ r = ProbeFound(s)
    <3>1. /\ DOMAIN r = Fields /\ r.claims = s.claims /\ r.callback = s.callback
          /\ r.effect_next = s.effect_next /\ r.slot = "claimed" /\ r.vendor_owner = "none"
          /\ r.accessory_state \in {"needed", "found"}
      BY <2>4 DEF ProbeAbandon, ProbeFound, Well, Shaped, Fields
    <3>2. Probed(s, r)
      BY <3>1 DEF Probed, Over, Well, Shaped
    <3> QED
      BY <3>2 DEF r
  <2>5. CASE r = ProbeGivesUp(s, in)
    <3> DEFINE q == [s EXCEPT !.accessory_state = "unknown", !.probe_step = DONE,
                              !.vendor_owner = "loose"]
    <3>1. /\ Well(q) /\ q.slot = "claimed" /\ q.claims = s.claims /\ q.vendor_owner = "loose"
          /\ q.accessory_state = "unknown"
      BY DEF Well, Shaped, Fields
    <3>2. r = Submit(q, "loose", "core", in.urb)
      BY <2>5 DEF ProbeGivesUp
    <3> HIDE DEF q
    <3>3. Probed(s, r)
      BY <3>1, <3>2, SubmitShape DEF Callbacks, Probed, Loose, SameProbe
    <3> QED
      BY <3>3 DEF r
  <2> QED
    BY <2>2, <2>3, <2>4, <2>5
<1> QED
  BY <1>1, <1>2

(* Deferred work goes out with the claim, or the claim is given back with none left. *)
LEMMA DrainShape ==
    ASSUME NEW s, Well(s), s.slot # "flight", s.slot \in {"claimed", "free"}, NEW in,
           in.urb # "preempted"
    PROVE  LET r == Drain(s, FALSE, in) IN
           /\ Well(r) /\ SameProbe(s, r) /\ Routed(r)
           /\ r.slot = "free" => r.claims = {}
<1> DEFINE d == RunDeferred(s, in)
<1>1. Engine(s, d, in.urb) /\ (d.sent = "no" => d.claims = {})
  BY DeferredEngine
<1> HIDE DEF d
<1>2. Drain(s, FALSE, in) = IF d.sent = "yes" THEN d ELSE GiveBack(d)
  BY DEF Drain, d
<1>3. CASE d.sent = "yes"
  BY <1>1, <1>2, <1>3 DEF Engine, Outcome, Routed
<1>4. CASE d.sent # "yes"
  <2>1. /\ d.sent = "no" /\ d.claims = {} /\ Well(d) /\ SameProbe(s, d)
        /\ d.slot \in {"claimed", "free"}
    BY <1>1, <1>4 DEF Engine, Outcome
  <2>2. /\ Well(GiveBack(d)) /\ SameProbe(s, GiveBack(d)) /\ GiveBack(d).claims = {}
        /\ GiveBack(d).slot = "free"
    BY <2>1 DEF GiveBack, Well, Shaped, Fields, SameProbe
  <2> QED
    BY <1>2, <1>4, <2>2 DEF Routed
<1> QED
  BY <1>3, <1>4
--------------------------------------------------------------------------------
(* A packet *)

(***************************************************************************)
(* What a packet makes of the core: while the slot is taken it leaves the  *)
(* transfer alone, and it never makes the probe look under way.            *)
(***************************************************************************)
Handled(s, r) ==
    /\ Well(r) /\ (Routed(s) => Routed(r))
    /\ s.slot # "free" =>
          r.slot = s.slot /\ SameBus(s, r) /\ r.vendor_owner = s.vendor_owner
    /\ r.accessory_state = "probing" => s.accessory_state = "probing"

LEMMA HandledTwice ==
    ASSUME NEW s, NEW q, NEW r, Handled(s, q), Handled(q, r)
    PROVE  Handled(s, r)
BY DEF Handled, SameBus

(* What the engine does with a slot it claimed, or defers. *)
LEMMA ClaimedHandled ==
    ASSUME NEW s, Well(s), NEW work \in Work, NEW done, NEW urb, urb # "preempted",
           Engine(TryClaim(s), done, urb)
    PROVE  Handled(s, ClaimOr(s, work, done))
<1>1. CASE s.slot = "free"
  <2>1. TryClaim(s).slot = "claimed" /\ SameProbe(s, TryClaim(s))
    BY DEF TryClaim, Well, Shaped, Fields, SameProbe
  <2>2. ClaimOr(s, work, done) = done
    BY <1>1 DEF ClaimOr
  <2>3. Routed(done) /\ Well(done) /\ done.accessory_state = s.accessory_state
    BY <2>1 DEF Engine, Outcome, Routed, SameProbe
  <2> QED
    BY <1>1, <2>2, <2>3 DEF Handled
<1>2. CASE s.slot # "free"
  <2>1. ClaimOr(s, work, done) = [s EXCEPT !.claims = @ \cup {work}]
    BY <1>2 DEF ClaimOr
  <2> QED
    BY <2>1 DEF Handled, Well, Shaped, Fields, Routed, SameBus
<1> QED
  BY <1>1, <1>2

LEMMA ClaimWell ==
    ASSUME NEW s, Well(s)
    PROVE  /\ Well(TryClaim(s)) /\ TryClaim(s).slot = "claimed" /\ SameProbe(s, TryClaim(s))
           /\ TryClaim(s).claims = s.claims /\ SameBus(s, TryClaim(s))
           /\ TryClaim(s).vendor_owner = s.vendor_owner
BY DEF TryClaim, Well, Shaped, Fields, SameProbe, SameBus

LEMMA FreshHandled ==
    ASSUME NEW s, Well(s)
    PROVE  /\ Handled(s, Fresh(s)) /\ Fresh(s).slot = s.slot /\ Fresh(s).claims = s.claims
           /\ SameProbe(s, Fresh(s)) /\ SameBus(s, Fresh(s))
           /\ Fresh(s).vendor_owner = s.vendor_owner
BY DEF Fresh, Handled, Well, Shaped, Fields, SameProbe, SameBus, Routed

LEMMA PacketHandled ==
    ASSUME NEW s, Well(s), NEW status, NEW kick, NEW in1, NEW in2,
           in1.urb # "preempted", in2.urb # "preempted"
    PROVE  Handled(s, DecodedPacket(s, status, kick, in1, in2))
<1> DEFINE p == Pulled(s, status)
           h == PakHook(p, status, in1)
           a == [h EXCEPT !.effect_state = "pak", !.prev_status = status]
           b == [h EXCEPT !.prev_status = status]
<1>1. Handled(s, p)
  BY DEF Pulled, Handled, Well, Shaped, Fields, Routed, SameBus
<1>2. Well(p)
  BY <1>1 DEF Handled
<1> HIDE DEF p
<1>3. Handled(p, h)
  <2>1. ASSUME NEW change \in {"insert", "remove"}
        PROVE  Handled(p, OnPakChange(p, change, in1))
    <3>1. Engine(TryClaim(p), OnPak(TryClaim(p), change, in1), in1.urb)
      BY <1>2, ClaimWell, PakEngine
    <3> QED
      BY <1>2, <3>1, ClaimedHandled DEF OnPakChange, Work
  <2>2. Handled(p, p)
    BY <1>2 DEF Handled, SameBus
  <2>3. h = p \/ \E change \in {"insert", "remove"} : h = OnPakChange(p, change, in1)
    BY DEF PakHook, h
  <2> HIDE DEF h
  <2> QED
    BY <2>1, <2>2, <2>3
<1>4. Well(h)
  BY <1>3 DEF Handled
<1> HIDE DEF h
<1>5. Handled(h, a) /\ Handled(h, b)
  BY <1>4 DEF Handled, Well, Shaped, Fields, Routed, SameBus
<1>6. Well(b)
  BY <1>5 DEF Handled
<1> HIDE DEF a, b
<1>7. Handled(b, EffectKick(Fresh(b), in2))
  <2>1. Handled(b, Fresh(b)) /\ Well(Fresh(b))
    BY <1>6, FreshHandled DEF Handled
  <2>2. Engine(TryClaim(Fresh(b)), EffectRun(TryClaim(Fresh(b)), in2), in2.urb)
    BY <2>1, ClaimWell, RunEngine
  <2>3. Handled(Fresh(b), EffectKick(Fresh(b), in2))
    BY <2>1, <2>2, ClaimedHandled DEF EffectKick, Work
  <2> QED
    BY <2>1, <2>3, HandledTwice
<1>8. DecodedPacket(s, status, kick, in1, in2) \in {a, b, EffectKick(Fresh(b), in2)}
  BY DEF DecodedPacket, a, b, h, p
<1> QED
  BY <1>1, <1>3, <1>5, <1>7, <1>8, HandledTwice

(* The first step of the probe, and the reselect after an invalid packet. *)
LEMMA StartHandled ==
    ASSUME NEW s, Well(s), NEW in
    PROVE  LET r == ProbeStart(s, in) IN
           /\ Well(r)
           /\ s.slot # "free" => r = s
           /\ s.slot = "free" => Probed(s, r)
<1>1. CASE s.slot # "free"
  BY <1>1 DEF ProbeStart
<1>2. CASE s.slot = "free"
  <2> DEFINE q == [TryClaim(s) EXCEPT !.accessory_state = "probing"]
  <2>1. OutSteps \in Nat \ {0} /\ 0 \in 0..READ2
    BY ChainConstants DEF READ2
  <2>2. Shaped(q) /\ q.slot = "claimed" /\ q.accessory_state = "probing" /\ q.claims = s.claims
    BY ClaimWell DEF Well, Shaped, Fields
  <2>3. ProbeStart(s, in) = ProbeIssue(q, 0, in)
    BY <1>2 DEF ProbeStart
  <2> HIDE DEF q
  <2>4. Probed(q, ProbeStart(s, in))
    BY <2>1, <2>2, <2>3, IssueProbed
  <2> QED
    BY <1>2, <2>2, <2>4 DEF Probed
<1> QED
  BY <1>1, <1>2

LEMMA ResetHandled ==
    ASSUME NEW s, Well(s), NEW in
    PROVE  Handled(s, ControllerReset(s, in))
<1>1. CASE s.slot # "free"
  BY <1>1 DEF ControllerReset, Handled, SameBus
<1>2. CASE s.slot = "free"
  <2> DEFINE q == [TryClaim(s) EXCEPT !.vendor_owner = "loose"]
  <2>1. Well(q) /\ q.slot = "claimed" /\ q.vendor_owner = "loose" /\ SameProbe(s, q)
    BY ClaimWell DEF Well, Shaped, Fields, SameProbe
  <2>2. ControllerReset(s, in) = Submit(q, "loose", "core", in.urb)
    BY <1>2 DEF ControllerReset
  <2> HIDE DEF q
  <2> QED
    BY <1>2, <2>1, <2>2, SubmitShape DEF Callbacks, Handled, Routed, SameProbe
<1> QED
  BY <1>1, <1>2
--------------------------------------------------------------------------------
(* The inductive invariant *)

Places == {"idle", "claimed", "refused", "sending"}

Types ==
    /\ Well(core)
    /\ DOMAIN thread = Threads
    /\ \A t \in Threads : DOMAIN thread[t] = {"at", "request", "prev"} /\ thread[t].at \in Places

(* A request between its claim and its send has the claim, and its owner. *)
Midst(t) == thread[t].at \in {"claimed", "sending"}
ClaimHeld(t) ==
    Midst(t) =>
        core.slot = "claimed" /\ (thread[t].at = "sending" => core.vendor_owner = "effect")

ClaimInv ==
    ~stolen =>
        /\ Routed(core)
        /\ \A t \in Threads : ClaimHeld(t)
        /\ \A t, u \in Threads : Midst(t) /\ Midst(u) => t = u

ProbeInv ==
    core.accessory_state = "probing" /\ ~lost /\ ~stolen =>
        core.slot = "flight" /\ core.wire = "probe" /\ core.callback = "core"

Inv == Types /\ ClaimInv /\ ProbeInv

(* Only a completion takes a transfer off the bus. *)
StaysOut == core.slot = "flight" => core'.slot = "flight"

LEMMA NotPreempted ==
    /\ \A in \in NoTick : in.urb # "preempted"
    /\ \A in \in Found(Urb) : in.urb # "preempted"
BY DEF NoTick, Found, Urb

(* A step of a DPC that leaves a transfer and a claim alone. *)
LEMMA HandledKeeps ==
    ASSUME Inv, NEW r, Handled(core, r), core' = Fresh(r),
           UNCHANGED <<thread, lost, stolen>>
    PROVE  Inv' /\ StaysOut
<1>1. Well(r)
  BY DEF Handled
<1>2. Handled(core, core')
  BY <1>1, FreshHandled, HandledTwice
<1>3. Types'
  BY <1>2 DEF Inv, Types, Handled
<1>4. ClaimInv'
  BY <1>2 DEF Inv, ClaimInv, ClaimHeld, Midst, Handled
<1>5. ProbeInv'
  BY <1>2 DEF Inv, ProbeInv, Handled, SameBus
<1> QED
  BY <1>2, <1>3, <1>4, <1>5 DEF Inv, StaysOut, Handled

LEMMA GatedKeeps ==
    ASSUME Inv, GatedPacket
    PROVE  Inv' /\ StaysOut
<1>0. Well(core) /\ UNCHANGED <<thread, lost, stolen>>
  BY DEF Inv, Types, GatedPacket, Decoded
<1>1. PICK in \in NoTick :
          core' = Fresh(IF core.accessory_state = "needed" THEN ProbeStart(core, in) ELSE core)
  BY DEF GatedPacket, Decoded
<1>2. CASE core' = Fresh(core)
  <2>1. Handled(core, core)
    BY <1>0 DEF Handled, SameBus
  <2> QED
    BY <1>0, <1>2, <2>1, HandledKeeps
<1>3. CASE core' = Fresh(ProbeStart(core, in)) /\ core.slot = "free"
  <2> DEFINE r == ProbeStart(core, in)
  <2>1. Probed(core, r) /\ Well(r)
    BY <1>0, <1>3, StartHandled
  <2>2. /\ Well(core') /\ core'.slot = r.slot /\ SameBus(r, core') /\ SameProbe(r, core')
        /\ core'.vendor_owner = r.vendor_owner
    BY <1>3, <2>1, FreshHandled DEF Handled
  <2> HIDE DEF r
  <2>3. Routed(core')
    BY <2>1, <2>2 DEF Probed, Out, Over, Loose, Routed, SameBus
  <2>4. ClaimInv'
    BY <1>0, <1>3, <2>3 DEF Inv, ClaimInv, ClaimHeld, Midst
  <2>5. ProbeInv'
    BY <2>1, <2>2 DEF Probed, Out, ProbeInv, SameBus, SameProbe
  <2>6. Types'
    BY <1>0, <2>2 DEF Inv, Types
  <2> QED
    BY <1>3, <2>4, <2>5, <2>6 DEF Inv, StaysOut
<1>4. core.slot # "free" => ProbeStart(core, in) = core
  BY <1>0, StartHandled
<1> QED
  BY <1>1, <1>2, <1>3, <1>4

LEMMA PacketKeeps ==
    ASSUME Inv, InvalidPacket \/ Packet
    PROVE  Inv' /\ StaysOut
<1>0. Well(core) /\ UNCHANGED <<thread, lost, stolen>>
  BY DEF Inv, Types, InvalidPacket, Packet, Decoded
<1>1. CASE InvalidPacket
  <2>1. PICK in \in NoTick : core' = Fresh(ControllerReset(core, in))
    BY <1>1 DEF InvalidPacket, Decoded
  <2> QED
    BY <1>0, <2>1, ResetHandled, HandledKeeps
<1>2. CASE Packet
  <2>1. PICK status \in SUBSET Pak, kick \in TuneUpdate, in1 \in NoTick, in2 \in Found(Urb) :
            core' = Fresh(DecodedPacket(core, status, kick, in1, in2))
    BY <1>2 DEF Packet, Decoded
  <2>2. Handled(core, DecodedPacket(core, status, kick, in1, in2))
    BY <1>0, NotPreempted, PacketHandled
  <2> QED
    BY <1>0, <2>1, <2>2, HandledKeeps
<1> QED
  BY <1>1, <1>2

(* core_tick has no claim: what it sends with a request's is recorded. *)
LEMMA TickKeeps ==
    ASSUME Inv, CoreTick
    PROVE  Inv' /\ StaysOut
<1>0. Well(core) /\ UNCHANGED <<thread, lost>>
  BY DEF Inv, Types, CoreTick
<1>1. PICK in \in Found(Urb) : core' = Fresh(EffectTick(core, in))
  BY DEF CoreTick
<1> DEFINE r == EffectTick(core, in)
<1>2. Engine(core, r, in.urb) /\ in.urb # "preempted"
  BY <1>0, NotPreempted, TickEngine
<1>3. Well(r)
  BY <1>2 DEF Engine
<1> HIDE DEF r
<1>4. /\ Well(core') /\ core'.slot = r.slot /\ SameBus(r, core') /\ SameProbe(r, core')
      /\ core'.vendor_owner = r.vendor_owner
  BY <1>1, <1>3, FreshHandled DEF Handled, r
<1>5. r.sent \in {"no", "yes"} /\ StaysOut
  BY <1>2, <1>4 DEF Engine, Outcome, StaysOut
<1>6. ASSUME ~stolen'
      PROVE  /\ Routed(core')
             /\ \A t \in Threads : ClaimHeld(t)'
             /\ \A t, u \in Threads : Midst(t)' /\ Midst(u)' => t = u
  <2>1. /\ ~stolen /\ ClaimInv
        /\ core.slot = "claimed" /\ (\E t \in Threads : Midst(t)) => core'.slot = "claimed"
    BY <1>6 DEF CoreTick, Midway, Midst, Inv
  <2>2. Routed(core')
    BY <1>2, <1>4, <1>5, <2>1 DEF Engine, Outcome, Routed, SameBus, ClaimInv
  <2>3. ASSUME NEW t \in Threads, Midst(t)
        PROVE  core'.slot = "claimed" /\ core'.vendor_owner = core.vendor_owner
    <3>1. core.slot = "claimed" /\ core'.slot = "claimed"
      BY <2>1, <2>3 DEF ClaimInv, ClaimHeld
    <3>2. r.sent = "no"
      BY <1>2, <1>4, <1>5, <3>1 DEF Engine, Outcome
    <3> QED
      BY <1>2, <1>4, <3>1, <3>2 DEF Engine, Outcome
  <2> QED
    BY <1>0, <2>1, <2>2, <2>3 DEF ClaimInv, ClaimHeld, Midst
<1>7. ClaimInv'
  BY <1>6 DEF ClaimInv
<1>8. ProbeInv'
  <2>1. SUFFICES ASSUME core'.accessory_state = "probing", ~lost', ~stolen'
                 PROVE  core'.slot = "flight" /\ core'.wire = "probe" /\ core'.callback = "core"
    BY DEF ProbeInv
  <2>2. core.slot = "flight" /\ core.wire = "probe" /\ core.callback = "core"
    <3>1. ~stolen /\ ~lost
      <4>1. stolen' = (stolen \/ (Midway /\ core.slot = "claimed" /\ core'.slot # "claimed"))
        BY DEF CoreTick
      <4>2. ~stolen
        BY <2>1, <4>1, Zenon
      <4>3. ~lost
        BY <1>0, <2>1
      <4> QED
        BY <4>2, <4>3
    <3>2. core.accessory_state = "probing"
      BY <1>2, <1>4, <2>1 DEF Engine, SameProbe
    <3> QED
      BY <3>1, <3>2 DEF Inv, ProbeInv
  <2>3. r.sent = "no"
    BY <1>2, <1>5, <2>2 DEF Engine, Outcome
  <2> QED
    BY <1>2, <1>4, <2>2, <2>3 DEF Engine, Outcome, SameBus
<1>9. Types'
  BY <1>0, <1>4 DEF Inv, Types
<1> QED
  BY <1>5, <1>7, <1>8, <1>9 DEF Inv
--------------------------------------------------------------------------------
(* AdaptoidVendorComplete *)

(* A completion that frees the slot has no work left, but for the two callbacks. *)
FreesClean ==
    /\ core.slot = "flight" /\ core'.slot = "free"
    /\ core.callback # "second" /\ core'.vendor_owner # "loose"
    => core'.claims = {}

LEMMA LandedShape ==
    ASSUME NEW s, Well(s)
    PROVE  LET l == Landed(s) IN
           /\ Well(l) /\ SameProbe(s, l) /\ l.claims = s.claims
           /\ l.vendor_owner = s.vendor_owner /\ l.slot = "claimed" /\ l.callback = "none"
BY DEF Landed, Well, Shaped, Fields, Callbacks, SameProbe

(* With a transfer out no request is between its claim and its send. *)
LEMMA CompletedKeeps ==
    ASSUME Inv, core.slot = "flight", NEW f, core' = Fresh(f), Well(f), Routed(f),
           thread' = thread, stolen' = stolen,
           f.accessory_state = "probing" /\ ~lost' /\ ~stolen =>
              f.slot = "flight" /\ f.wire = "probe" /\ f.callback = "core"
    PROVE  Inv'
<1>1. /\ Well(core') /\ core'.slot = f.slot /\ SameBus(f, core') /\ SameProbe(f, core')
      /\ core'.vendor_owner = f.vendor_owner
  BY FreshHandled DEF Handled
<1>2. Routed(core')
  BY <1>1 DEF Routed, SameBus
<1>3. Types'
  BY <1>1 DEF Inv, Types
<1>4. ClaimInv'
  <2>1. ~stolen => \A t \in Threads : ~Midst(t)
    BY DEF Inv, ClaimInv, ClaimHeld
  <2> QED
    BY <1>2, <2>1 DEF ClaimInv, ClaimHeld, Midst
<1>5. ProbeInv'
  BY <1>1 DEF ProbeInv, SameBus, SameProbe
<1> QED
  BY <1>3, <1>4, <1>5 DEF Inv

LEMMA CompleteFailedKeeps ==
    ASSUME Inv, CompleteFailed
    PROVE  Inv' /\ FreesClean
<1>0. Well(core) /\ core.slot = "flight" /\ thread' = thread /\ stolen' = stolen
  BY DEF Inv, Types, CompleteFailed
<1>1. PICK in \in Found(Urb) : core' = Fresh(Drain(Landed(core), FALSE, in))
  BY DEF CompleteFailed
<1> DEFINE f == Drain(Landed(core), FALSE, in)
<1>2. /\ Well(f) /\ SameProbe(core, f) /\ Routed(f)
      /\ f.slot = "free" => f.claims = {}
  BY <1>0, LandedShape, NotPreempted, DrainShape DEF SameProbe
<1>3. core' = Fresh(f)
  BY <1>1
<1> HIDE DEF f
<1>4. ~(f.accessory_state = "probing" /\ ~lost' /\ ~stolen)
  <2>1. lost' = (lost \/ core.wire = "probe")
    BY DEF CompleteFailed
  <2>2. ~lost' => ~lost /\ core.wire # "probe"
    BY <2>1, Zenon
  <2> QED
    BY <1>2, <2>2 DEF Inv, ProbeInv, SameProbe
<1>5. FreesClean
  BY <1>2, <1>3, FreshHandled DEF FreesClean
<1> QED
  BY <1>0, <1>2, <1>3, <1>4, <1>5, CompletedKeeps

(***************************************************************************)
(* What the completion of the transfer in flight leaves behind: only the   *)
(* completion of a probe step moves the probe, and a free slot has no work *)
(* left, but for the two callbacks.                                        *)
(***************************************************************************)
Ends(s, f) ==
    /\ Well(f) /\ Routed(f)
    /\ SameProbe(s, f) \/ (s.callback = "core" /\ s.vendor_owner = "probe")
    /\ s.callback = "core" /\ s.vendor_owner = "probe" =>
          f.accessory_state # "probing" \/ Out(f)
    /\ f.slot = "free" /\ s.callback # "second" /\ f.vendor_owner # "loose" => f.claims = {}

(* What becomes of a completed transfer, by the callback it had. *)
LEMMA CompletedShape ==
    ASSUME NEW s, Well(s), NEW reply \in {"identified", "other", "garbled"}, NEW in,
           in.urb # "preempted"
    PROVE  LET r == RunCallback(s, Landed(s), reply, in)
           IN  Ends(s, Drain(r, Taken(s, r), in))
<1> DEFINE l == Landed(s)
           r == RunCallback(s, l, reply, in)
           f == Drain(r, Taken(s, r), in)
           o == [l EXCEPT !.vendor_owner = "none", !.sent = "no"]
<1>0. SUFFICES Ends(s, f)
  BY DEF f, r, l
<1>1. /\ Well(l) /\ SameProbe(s, l) /\ l.claims = s.claims
      /\ l.vendor_owner = s.vendor_owner /\ l.slot = "claimed"
  BY LandedShape
<1> HIDE DEF l
<1>2. Well(o) /\ SameProbe(s, o) /\ o.slot = "claimed" /\ o.vendor_owner = "none"
  BY <1>1 DEF Well, Shaped, Fields, SameProbe
<1>3. f = IF Taken(s, r) THEN r ELSE Drain(r, FALSE, in)
  BY DEF Drain
<1> HIDE DEF f, o
<1>4. CASE s.callback = "none"
  <2>1. r = l /\ Taken(s, r) = FALSE
    BY <1>4 DEF RunCallback, Taken
  <2> HIDE DEF r
  <2> QED
    BY <1>1, <1>3, <1>4, <2>1, DrainShape DEF Ends, SameProbe
<1>5. CASE s.callback = "second"
  <2>1. r = Submit(l, "other", "none", in.urb) /\ Taken(s, r) = TRUE
    BY <1>5 DEF RunCallback, Taken
  <2>2. /\ Well(r) /\ SameProbe(l, r)
        /\ (r.slot = "flight" /\ r.callback = "none") \/ r.slot = "free"
    BY <1>1, <2>1, SubmitShape DEF Callbacks
  <2> HIDE DEF r
  <2>3. f = r
    BY <1>3, <2>1
  <2> QED
    BY <1>1, <1>5, <2>2, <2>3 DEF Ends, Routed, SameProbe
<1>6. CASE s.callback = "core" /\ s.vendor_owner = "probe"
  <2>1. r = ProbeComplete(o, reply, in)
    BY <1>1, <1>6 DEF RunCallback, Route, o
  <2>2. Probed(o, r)
    BY <1>2, <2>1, CompleteProbed
  <2>3. Taken(s, r) = (r.vendor_owner # "none")
    BY <1>6 DEF Taken
  <2> HIDE DEF r
  <2>4. CASE Over(r)
    <3>1. f = Drain(r, FALSE, in)
      BY <1>3, <2>3, <2>4 DEF Over
    <3>2. Well(r) /\ r.accessory_state # "probing"
      BY <2>2, <2>4 DEF Probed, Over, Out
    <3> QED
      BY <1>6, <2>4, <3>1, <3>2, DrainShape DEF Ends, Over, SameProbe
  <2>5. CASE Out(r) \/ (r.accessory_state # "probing" /\ Loose(r))
    <3>1. f = r
      BY <1>3, <2>3, <2>5 DEF Out, Loose
    <3> QED
      BY <1>6, <2>2, <2>5, <3>1 DEF Ends, Probed, Out, Loose, Routed
  <2> QED
    BY <2>2, <2>4, <2>5 DEF Probed
<1>7. CASE s.callback = "core" /\ s.vendor_owner = "effect"
  <2>1. r = EffectComplete(o, in)
    BY <1>1, <1>7 DEF RunCallback, Route, o
  <2>2. Engine(o, r, in.urb)
    BY <1>2, <2>1, CompleteEngine
  <2>3. Taken(s, r) = (r.sent = "yes")
    BY <1>7 DEF Taken
  <2> HIDE DEF r
  <2>4. CASE r.sent = "yes"
    BY <1>2, <1>3, <1>7, <2>2, <2>3, <2>4
       DEF Engine, Outcome, Routed, SameProbe, Ends
  <2>5. CASE r.sent # "yes"
    <3>1. f = Drain(r, FALSE, in)
      BY <1>3, <2>3, <2>5
    <3>2. Well(r) /\ SameProbe(o, r) /\ r.slot \in {"claimed", "free"}
      BY <1>2, <2>2, <2>5 DEF Engine, Outcome
    <3> QED
      BY <1>2, <1>7, <3>1, <3>2, DrainShape DEF Ends, SameProbe
  <2> QED
    BY <2>4, <2>5
<1>8. CASE s.callback = "core" /\ s.vendor_owner \notin {"probe", "effect"}
  <2>1. r = o /\ Taken(s, r) = FALSE
    BY <1>1, <1>8 DEF RunCallback, Route, Taken, o
  <2> HIDE DEF r
  <2> QED
    BY <1>2, <1>3, <1>8, <2>1, DrainShape DEF Ends, SameProbe
<1> QED
  BY <1>4, <1>5, <1>6, <1>7, <1>8 DEF Well, Shaped, Callbacks

LEMMA CompleteOkKeeps ==
    ASSUME Inv, CompleteOk
    PROVE  Inv' /\ FreesClean
<1>0. /\ Well(core) /\ core.slot = "flight"
      /\ UNCHANGED <<thread, stolen, lost>>
  BY DEF Inv, Types, CompleteOk
<1>1. PICK reply \in {"identified", "other", "garbled"}, in \in Found(Urb) :
          LET r == RunCallback(core, Landed(core), reply, in)
          IN  core' = Fresh(Drain(r, Taken(core, r), in))
  BY DEF CompleteOk
<1> DEFINE r == RunCallback(core, Landed(core), reply, in)
           f == Drain(r, Taken(core, r), in)
<1>2. /\ Well(f) /\ Routed(f)
      /\ \/ SameProbe(core, f)
         \/ core.callback = "core" /\ core.vendor_owner = "probe"
      /\ core.callback = "core" /\ core.vendor_owner = "probe" =>
            f.accessory_state # "probing" \/ Out(f)
      /\ f.slot = "free" /\ core.callback # "second" /\ f.vendor_owner # "loose" =>
            f.claims = {}
  BY <1>0, NotPreempted, CompletedShape DEF Ends
<1>3. core' = Fresh(f)
  BY <1>1
<1> HIDE DEF f
<1>4. ASSUME f.accessory_state = "probing", ~lost', ~stolen
      PROVE  f.slot = "flight" /\ f.wire = "probe" /\ f.callback = "core"
  <2>1. core.callback = "core" /\ core.vendor_owner = "probe"
    BY <1>0, <1>2, <1>4 DEF Inv, ProbeInv, ClaimInv, Routed, SameProbe
  <2> QED
    BY <1>2, <1>4, <2>1 DEF Out
<1>5. FreesClean
  BY <1>2, <1>3, FreshHandled DEF FreesClean
<1> QED
  BY <1>0, <1>2, <1>3, <1>4, <1>5, CompletedKeeps
--------------------------------------------------------------------------------
(* Device requests *)

LEMMA ClaimKeeps ==
    ASSUME Inv, NEW t \in Threads, NEW request \in Requests, RequestClaim(t, request)
    PROVE  Inv' /\ StaysOut
<1>0. Well(core) /\ UNCHANGED <<lost, stolen>> /\ DOMAIN thread = Threads
  BY DEF Inv, Types, RequestClaim
<1> DEFINE at == IF core.slot = "free" THEN "claimed" ELSE "refused"
           place == [at |-> at, request |-> request, prev |-> "none"]
<1>1. /\ thread' = [thread EXCEPT ![t] = place]
      /\ core' = IF core.slot = "free" THEN TryClaim(core) ELSE core
  BY DEF RequestClaim
<1>2. DOMAIN place = {"at", "request", "prev"} /\ place.at = at /\ at \in Places
  BY DEF Places
<1> HIDE DEF place
<1>3. /\ DOMAIN thread' = Threads /\ thread'[t] = place
      /\ \A u \in Threads : u # t => thread'[u] = thread[u]
  BY <1>0, <1>1
<1>4. /\ Well(core') /\ SameProbe(core, core') /\ SameBus(core, core')
      /\ core'.vendor_owner = core.vendor_owner
      /\ core'.slot = IF core.slot = "free" THEN "claimed" ELSE core.slot
  BY <1>0, <1>1, ClaimWell DEF SameProbe, SameBus
<1>5. Types'
  BY <1>2, <1>3, <1>4 DEF Inv, Types
<1>6. ASSUME ~stolen
      PROVE  /\ Routed(core')
             /\ \A u \in Threads : ClaimHeld(u)'
             /\ \A u, v \in Threads : Midst(u)' /\ Midst(v)' => u = v
  <2>1. CASE core.slot = "free"
    <3>1. \A u \in Threads : ~Midst(u)
      BY <1>6, <2>1 DEF Inv, ClaimInv, ClaimHeld
    <3>2. \A u \in Threads : Midst(u)' => u = t
      BY <1>3, <3>1 DEF Midst
    <3>3. thread'[t].at = "claimed" /\ core'.slot = "claimed"
      BY <1>2, <1>3, <1>4, <2>1
    <3> QED
      BY <3>2, <3>3 DEF Routed, ClaimHeld, Midst
  <2>2. CASE core.slot # "free"
    <3>1. thread'[t].at = "refused" /\ core'.slot = core.slot
      BY <1>2, <1>3, <1>4, <2>2
    <3>2. \A u \in Threads : Midst(u)' => Midst(u) /\ thread'[u] = thread[u]
      BY <1>3, <3>1 DEF Midst
    <3>3. Routed(core) /\ \A u \in Threads : ClaimHeld(u)
      BY <1>6 DEF Inv, ClaimInv
    <3>4. \A u, v \in Threads : Midst(u)' /\ Midst(v)' => u = v
      BY <1>6, <3>2 DEF Inv, ClaimInv
    <3>5. Routed(core') /\ \A u \in Threads : ClaimHeld(u)'
      BY <1>4, <3>1, <3>2, <3>3 DEF Routed, SameBus, ClaimHeld, Midst
    <3> QED
      BY <3>4, <3>5
  <2> QED
    BY <2>1, <2>2
<1>7. ClaimInv'
  BY <1>0, <1>6 DEF ClaimInv
<1>8. ProbeInv' /\ StaysOut
  BY <1>0, <1>4 DEF Inv, ProbeInv, SameProbe, SameBus, StaysOut
<1> QED
  BY <1>5, <1>7, <1>8 DEF Inv

(* A refused request touches its claim only. *)
LEMMA RefusedKeeps ==
    ASSUME Inv, NEW t \in Threads, RequestRefused(t)
    PROVE  Inv' /\ StaysOut
<1>0. Well(core) /\ UNCHANGED <<lost, stolen>> /\ DOMAIN thread = Threads
  BY DEF Inv, Types, RequestRefused
<1> DEFINE work == CASE thread[t].request = "kick" -> {"tick"}
                     [] thread[t].request = "off" -> {"idle"}
                     [] OTHER -> {}
<1>1. /\ thread' = [thread EXCEPT ![t] = Resting]
      /\ core' = [core EXCEPT !.claims = @ \cup work]
  BY DEF RequestRefused
<1>2. work \subseteq Work
  BY DEF Work
<1> HIDE DEF work
<1>3. /\ Well(core') /\ SameProbe(core, core') /\ SameBus(core, core')
      /\ core'.vendor_owner = core.vendor_owner /\ core'.slot = core.slot
  BY <1>0, <1>1, <1>2 DEF Well, Shaped, Fields, SameProbe, SameBus
<1>4. /\ DOMAIN thread' = Threads /\ thread'[t] = Resting
      /\ \A u \in Threads : u # t => thread'[u] = thread[u]
  BY <1>0, <1>1
<1>5. DOMAIN Resting = {"at", "request", "prev"} /\ Resting.at = "idle" /\ "idle" \in Places
  BY DEF Resting, Places
<1>6. Types'
  BY <1>3, <1>4, <1>5 DEF Inv, Types
<1>7. \A u \in Threads : Midst(u)' => Midst(u) /\ thread'[u] = thread[u]
  BY <1>4, <1>5 DEF Midst
<1>8. ClaimInv'
  <2>1. ASSUME ~stolen
        PROVE  Routed(core') /\ \A u \in Threads : ClaimHeld(u)'
    BY <1>3, <1>7, <2>1 DEF Inv, ClaimInv, Routed, SameBus, ClaimHeld, Midst
  <2>2. ~stolen => \A u, v \in Threads : Midst(u)' /\ Midst(v)' => u = v
    BY <1>7 DEF Inv, ClaimInv
  <2> QED
    BY <1>0, <2>1, <2>2 DEF ClaimInv
<1>9. ProbeInv' /\ StaysOut
  BY <1>0, <1>3 DEF Inv, ProbeInv, SameProbe, SameBus, StaysOut
<1> QED
  BY <1>6, <1>8, <1>9 DEF Inv

(***************************************************************************)
(* A request that goes on: its send went out or was refused and it is      *)
(* over, or it composed another one - with its claim, or it is recorded.   *)
(***************************************************************************)
LEMMA ProceedKeeps ==
    ASSUME Inv, NEW t \in Threads, Midst(t), NEW r, NEW owner, Proceed(t, r, owner),
           Well(r), SameProbe(core, r), core.slot = "flight" => r.slot = "flight",
           r.sent = "composed" => r.vendor_owner = "effect",
           ~stolen => Routed(r)
    PROVE  Inv' /\ StaysOut
<1>0. UNCHANGED lost /\ DOMAIN thread = Threads
         /\ DOMAIN thread[t] = {"at", "request", "prev"}
  BY DEF Inv, Types, Proceed
<1> DEFINE place == IF r.sent = "composed"
                    THEN [thread[t] EXCEPT !.at = "sending", !.prev = owner] ELSE Resting
<1>1. thread' = [thread EXCEPT ![t] = place] /\ core' = Fresh(r)
  BY DEF Proceed
<1>2. /\ DOMAIN place = {"at", "request", "prev"}
      /\ place.at = IF r.sent = "composed" THEN "sending" ELSE "idle"
  BY <1>0 DEF Resting
<1> HIDE DEF place
<1>3. /\ DOMAIN thread' = Threads /\ thread'[t] = place
      /\ \A u \in Threads : u # t => thread'[u] = thread[u]
  BY <1>0, <1>1
<1>4. /\ Well(core') /\ core'.slot = r.slot /\ SameBus(r, core') /\ SameProbe(r, core')
      /\ core'.vendor_owner = r.vendor_owner
  BY <1>1, FreshHandled DEF Handled
<1>5. Types'
  BY <1>2, <1>3, <1>4 DEF Inv, Types, Places
<1>6. ~stolen' => ~stolen /\ (r.sent = "composed" => r.slot = "claimed")
  <2>1. stolen' = (stolen \/ (r.sent = "composed" /\ r.slot # "claimed"))
    BY DEF Proceed
  <2> QED
    BY <2>1, Zenon
<1>7. ASSUME ~stolen'
      PROVE  /\ Routed(core')
             /\ \A u \in Threads : ClaimHeld(u)'
             /\ \A u, v \in Threads : Midst(u)' /\ Midst(v)' => u = v
  <2>1. ~stolen /\ (r.sent = "composed" => r.slot = "claimed")
    BY <1>6, <1>7
  <2>2. Routed(core')
    BY <1>4, <2>1 DEF Routed, SameBus
  <2>3. \A u \in Threads : Midst(u)' => u = t /\ r.sent = "composed"
    BY <1>2, <1>3, <2>1 DEF Inv, ClaimInv, Midst
  <2>4. \A u \in Threads : ClaimHeld(u)'
    BY <1>4, <2>1, <2>3 DEF ClaimHeld, Midst
  <2> QED
    BY <2>2, <2>3, <2>4
<1>8. ClaimInv'
  BY <1>7 DEF ClaimInv
<1>9. ProbeInv'
  <2>1. ~stolen => core.slot = "claimed"
    BY DEF Inv, ClaimInv, ClaimHeld
  <2> QED
    BY <1>0, <1>4, <1>6, <2>1 DEF Inv, ProbeInv, SameProbe
<1> QED
  BY <1>4, <1>5, <1>8, <1>9 DEF Inv, StaysOut
(* With the slot claimed, what the engine sends is routed to it. *)
LEMMA EngineKeeps ==
    ASSUME Inv, NEW t \in Threads, Midst(t), NEW r, NEW owner, NEW urb, Proceed(t, r, owner),
           Engine(core, r, urb)
    PROVE  Inv' /\ StaysOut
<1>1. Well(r) /\ SameProbe(core, r) /\ Outcome(core, r, urb)
  BY DEF Engine
<1>2. core.slot = "flight" => r.slot = "flight"
  BY <1>1 DEF Outcome
<1>3. r.sent = "composed" => r.vendor_owner = "effect"
  BY <1>1 DEF Outcome
<1>4. ~stolen => Routed(r)
  BY <1>1 DEF Outcome, Routed, Inv, ClaimInv, ClaimHeld
<1> QED
  BY <1>1, <1>2, <1>3, <1>4, ProceedKeeps

LEMMA RunKeeps ==
    ASSUME Inv, NEW t \in Threads, RequestRun(t)
    PROVE  Inv' /\ StaysOut
<1>0. Well(core) /\ Midst(t)
  BY DEF Inv, Types, RequestRun, Midst
<1>1. CASE \E in \in Found(Urb \cup {"preempted"}) :
              Proceed(t, IF thread[t].request = "kick" THEN EffectRun(core, in)
                         ELSE SendIdle(core, in), core.vendor_owner)
  <2>1. PICK in \in Found(Urb \cup {"preempted"}) :
           \/ Proceed(t, EffectRun(core, in), core.vendor_owner)
           \/ Proceed(t, SendIdle(core, in), core.vendor_owner)
    BY <1>1
  <2>2. Engine(core, EffectRun(core, in), in.urb) /\ Engine(core, SendIdle(core, in), in.urb)
    BY <1>0, RunEngine, IdleEngine
  <2> QED
    BY <1>0, <2>1, <2>2, EngineKeeps
<1>2. CASE \E urb \in Urb, callback \in {"none", "second"} :
              Proceed(t, Submit(core, "other", callback, urb), "none")
  <2>1. PICK urb \in Urb, callback \in {"none", "second"} :
           Proceed(t, Submit(core, "other", callback, urb), "none")
    BY <1>2
  <2> DEFINE r == Submit(core, "other", callback, urb)
  <2>2. /\ Well(r) /\ SameProbe(core, r) /\ r.vendor_owner = core.vendor_owner
        /\ \/ r.slot = "flight" /\ r.callback = callback /\ r.sent = "yes"
           \/ /\ r.sent = "no" /\ SameBus(core, r)
              /\ r.slot = IF core.slot = "claimed" THEN "free" ELSE core.slot
    BY <1>0, SubmitShape DEF Callbacks
  <2>3. Proceed(t, r, "none")
    BY <2>1
  <2> HIDE DEF r
  <2>4. ~stolen => Routed(r)
    BY <1>0, <2>2 DEF Inv, ClaimInv, ClaimHeld, Routed
  <2> QED
    BY <1>0, <2>2, <2>3, <2>4, ProceedKeeps
<1> QED
  BY <1>1, <1>2 DEF RequestRun

(***************************************************************************)
(* AdaptoidVendorSend of what was composed: the transfer is the engine's,  *)
(* and so is the owner; after a refused one nothing can be sent.           *)
(***************************************************************************)
LEMMA SendKeeps ==
    ASSUME Inv, NEW t \in Threads, RequestSend(t)
    PROVE  Inv' /\ StaysOut
<1>0. Well(core) /\ Midst(t) /\ thread[t].at = "sending"
  BY DEF Inv, Types, RequestSend, Midst
<1>1. PICK in \in Found(Urb \cup {"preempted"}), urb \in Urb :
          LET r == Restore(Submit(core, "effect", "core", urb), thread[t].prev)
          IN  Proceed(t, IF r.sent = "yes" \/ thread[t].request # "kick"
                         THEN r ELSE RunDeferred(r, in), thread[t].prev)
  BY DEF RequestSend
<1> DEFINE p == Submit(core, "effect", "core", urb)
           r == Restore(p, thread[t].prev)
           d == RunDeferred(r, in)
<1>2. /\ Well(p) /\ SameProbe(core, p) /\ p.vendor_owner = core.vendor_owner
      /\ \/ /\ core.slot = "claimed" /\ p.slot = "flight" /\ p.callback = "core"
            /\ p.wire = "effect" /\ p.sent = "yes"
         \/ /\ p.sent = "no" /\ SameBus(core, p)
            /\ p.slot = IF core.slot = "claimed" THEN "free" ELSE core.slot
  BY <1>0, SubmitShape DEF Callbacks
<1>3. r = IF p.sent = "yes" THEN p ELSE [p EXCEPT !.vendor_owner = thread[t].prev]
  BY DEF Restore
<1>4. \/ Proceed(t, r, thread[t].prev)
      \/ r.sent # "yes" /\ Proceed(t, d, thread[t].prev)
  BY <1>1
<1> HIDE DEF p, d, r
<1>5. /\ Well(r) /\ SameProbe(core, r) /\ r.sent \in {"no", "yes"}
      /\ core.slot = "flight" => r.slot = "flight"
      /\ r.sent = "no" => r.slot # "claimed"
      /\ r.sent = "no" /\ core.slot = "claimed" => r.slot = "free"
  BY <1>2, <1>3 DEF Well, Shaped, Fields, SameProbe, SameBus
<1>6. ~stolen => core.slot = "claimed" /\ core.vendor_owner = "effect"
  BY <1>0 DEF Inv, ClaimInv, ClaimHeld
<1>7. ~stolen => Routed(r)
  BY <1>2, <1>3, <1>5, <1>6 DEF Routed
<1>8. CASE Proceed(t, r, thread[t].prev)
  BY <1>0, <1>5, <1>7, <1>8, ProceedKeeps
<1>9. CASE r.sent # "yes" /\ Proceed(t, d, thread[t].prev)
  <2>1. Engine(r, d, in.urb)
    BY <1>5, DeferredEngine DEF d
  <2>2. /\ d.slot = r.slot /\ Well(d) /\ SameProbe(core, d)
        /\ d.sent = "composed" => d.vendor_owner = "effect"
    BY <1>5, <1>9, <2>1 DEF Engine, Outcome, SameProbe
  <2>3. ~stolen => Routed(d)
    BY <1>5, <1>6, <1>9, <2>2 DEF Routed
  <2> QED
    BY <1>0, <1>5, <1>9, <2>2, <2>3, ProceedKeeps
<1> QED
  BY <1>4, <1>8, <1>9
--------------------------------------------------------------------------------
(* The invariant, and what follows from it *)

LEMMA InitInv == Init => Inv
<1> SUFFICES ASSUME Init
             PROVE  Inv
  OBVIOUS
<1>0. OutSteps \in Nat \ {0} /\ 0 \in 0..READ2
  BY ChainConstants DEF READ2
<1>1. /\ DOMAIN core = Fields /\ core.claims = {} /\ core.effect_next = "none"
      /\ core.callback = "none" /\ core.accessory_state = "needed" /\ core.slot = "free"
  BY DEF Init, Fields
<1>2. /\ DOMAIN thread = Threads
      /\ \A t \in Threads :
            DOMAIN thread[t] = {"at", "request", "prev"} /\ thread[t].at = "idle"
  BY DEF Init, Resting
<1>3. Types
  BY <1>1, <1>2 DEF Types, Well, Shaped, Nexts, Callbacks, Places
<1>4. ClaimInv
  BY <1>1, <1>2 DEF ClaimInv, Routed, ClaimHeld, Midst
<1>5. ProbeInv
  BY <1>1 DEF ProbeInv
<1> QED
  BY <1>3, <1>4, <1>5 DEF Inv

(* Every step keeps the invariant, and only a completion takes a transfer off the bus. *)
LEMMA NextKeeps ==
    ASSUME Inv, [Next]_vars
    PROVE  Inv' /\ FreesClean
<1>1. StaysOut => FreesClean
  BY DEF StaysOut, FreesClean
<1>2. CASE UNCHANGED vars
  BY <1>2 DEF vars, Inv, Types, Well, Shaped, ClaimInv, ClaimHeld, Midst, Routed, ProbeInv,
              FreesClean
<1>3. CASE GatedPacket
  BY <1>1, <1>3, GatedKeeps
<1>4. CASE InvalidPacket \/ Packet
  BY <1>1, <1>4, PacketKeeps
<1>5. CASE CoreTick
  BY <1>1, <1>5, TickKeeps
<1>6. CASE CompleteOk
  BY <1>6, CompleteOkKeeps
<1>7. CASE CompleteFailed
  BY <1>7, CompleteFailedKeeps
<1>8. ASSUME NEW t \in Threads,
             \/ \E request \in Requests : RequestClaim(t, request)
             \/ RequestRefused(t) \/ RequestRun(t) \/ RequestSend(t)
      PROVE  Inv' /\ StaysOut
  BY <1>8, ClaimKeeps, RefusedKeeps, RunKeeps, SendKeeps
<1> QED
  BY <1>1, <1>2, <1>3, <1>4, <1>5, <1>6, <1>7, <1>8 DEF Next

(***************************************************************************)
(* A request has the claim from its claim to its send and no other request *)
(* is between the two; a completion of the core's goes to the chain that   *)
(* issued it; a probe under way has its step on the bus - unless a tick    *)
(* used up a request's claim (core_tick sends without one of its own).     *)
(***************************************************************************)
THEOREM ChainsInvariant == Spec => []Inv
<1>1. Inv /\ [Next]_vars => Inv'
  BY NextKeeps
<1> QED
  BY InitInv, <1>1, PTL DEF Spec

(***************************************************************************)
(* core_vendor_completed routes a completion by vendor_owner, which every  *)
(* send changes and every refused send restores: it names the chain that   *)
(* issued the transfer in flight, for any number of requesting threads,    *)
(* any length of the probe and any failures.                               *)
(***************************************************************************)
THEOREM RoutedToIssuerHolds == Spec => []RoutedToIssuer
<1>1. Inv => RoutedToIssuer
  BY DEF Inv, ClaimInv, Routed, RoutedToIssuer
<1> QED
  BY ChainsInvariant, <1>1, PTL

(***************************************************************************)
(* AdaptoidVendorComplete drains core_effect_run_deferred before it gives  *)
(* the slot back: the step that frees it leaves no deferred work behind,   *)
(* after a failed transfer as after a good one.                            *)
(***************************************************************************)
THEOREM NothingLeftBehindHolds == Spec => NothingLeftBehind
<1>1. Inv /\ [Next]_vars =>
         [/\ core.slot = "flight" /\ core'.slot = "free"
          /\ core.callback # "second" /\ core'.vendor_owner # "loose"
          => core'.claims = {}]_vars
  BY NextKeeps DEF FreesClean
<1> QED
  BY ChainsInvariant, <1>1, PTL DEF Spec, NothingLeftBehind

(***************************************************************************)
(* While accessory_state says PROBING, and so gates all controller input,  *)
(* a step of the probe is on the bus: without a failed step or a request   *)
(* that lost its claim nothing else can leave the gate closed.             *)
(***************************************************************************)
THEOREM ProbingIsOutHolds == Spec => []ProbingIsOut
<1>1. Inv => ProbingIsOut
  BY DEF Inv, ProbeInv, ProbingIsOut
<1> QED
  BY ChainsInvariant, <1>1, PTL
--------------------------------------------------------------------------------
(* The ring of effect samples *)

LEMMA Modulo ==
    ASSUME NEW R \in Nat \ {0}, NEW x \in 0..2 * R - 1
    PROVE  x % R = IF x < R THEN x ELSE x - R
OBVIOUS

LEMMA KeptTwice ==
    ASSUME NEW c, NEW v
    PROVE  Kept([c EXCEPT !.dither_state = v]) = Kept(c)
BY DEF Kept
--------------------------------------------------------------------------------
(* The ring as an array *)

At(c, k) == c.ring[RingIndex(c, k)]

Ringed(c) == DOMAIN c.ring = 0..RingSize - 1 /\ c.head \in 0..RingSize - 1

LEMMA IndexIs ==
    ASSUME NEW c, Ringed(c), NEW k \in 0..RingSize
    PROVE  /\ RingIndex(c, k) = IF c.head + k < RingSize THEN c.head + k ELSE c.head + k - RingSize
           /\ RingIndex(c, k) \in 0..RingSize - 1
<1>1. RingSize \in Nat \ {0} /\ c.head + k \in 0..2 * RingSize - 1
  BY EffectConstants DEF Ringed
<1>2. (c.head + k) % RingSize = IF c.head + k < RingSize THEN c.head + k ELSE c.head + k - RingSize
  <2>1. PICK x \in 0..2 * RingSize - 1 : x = c.head + k
    BY <1>1
  <2>2. x % RingSize = IF x < RingSize THEN x ELSE x - RingSize
    BY <1>1, Modulo
  <2>3. c.head \in Int /\ k \in Int /\ RingSize \in Int
    BY <1>1 DEF Ringed
  <2> QED
    BY <2>1, <2>2, <2>3
<1> QED
  BY <1>1, <1>2 DEF Ringed, RingIndex

(* Writing one entry leaves the others where they are. *)
LEMMA Written ==
    ASSUME NEW c, NEW d, Ringed(c), NEW o \in 0..RingSize - 1, NEW x, d.head = c.head,
           d.ring = [c.ring EXCEPT ![RingIndex(c, o)] = x]
    PROVE  /\ Ringed(d)
           /\ \A k \in 0..RingSize - 1 : At(d, k) = IF k = o THEN x ELSE At(c, k)
<1>1. RingSize \in Nat /\ c.head \in 0..RingSize - 1
  BY EffectConstants DEF Ringed
<1>2. Ringed(d)
  BY DEF Ringed
<1>3. ASSUME NEW k \in 0..RingSize - 1 PROVE At(d, k) = IF k = o THEN x ELSE At(c, k)
  <2>1. k \in 0..RingSize /\ o \in 0..RingSize
    BY <1>1
  <2>2. RingIndex(d, k) = RingIndex(c, k)
    BY DEF RingIndex
  <2>3. /\ RingIndex(c, k) = IF c.head + k < RingSize THEN c.head + k ELSE c.head + k - RingSize
        /\ RingIndex(c, o) = IF c.head + o < RingSize THEN c.head + o ELSE c.head + o - RingSize
        /\ RingIndex(c, k) \in DOMAIN c.ring
    BY <2>1, IndexIs DEF Ringed
  <2>4. RingIndex(c, k) = RingIndex(c, o) <=> k = o
    BY <1>1, <2>3
  <2> QED
    BY <2>2, <2>3, <2>4 DEF At
<1> QED
  BY <1>2, <1>3

(* Moving the head on shifts the offsets by one. *)
LEMMA Rolled ==
    ASSUME NEW c, NEW d, Ringed(c), d.head = RingIndex(c, 1), d.ring = c.ring
    PROVE  /\ Ringed(d)
           /\ \A k \in 0..RingSize - 1 : k + 1 < RingSize => At(d, k) = At(c, k + 1)
<1>1. RingSize \in Nat /\ RingSize >= 2 /\ c.head \in 0..RingSize - 1
  BY EffectConstants DEF Ringed
<1>2. Ringed(d)
  BY <1>1, IndexIs DEF Ringed
<1>3. ASSUME NEW k \in 0..RingSize - 1, k + 1 < RingSize PROVE At(d, k) = At(c, k + 1)
  <2>1. 1 \in 0..RingSize /\ k \in 0..RingSize /\ k + 1 \in 0..RingSize
    BY <1>1, <1>3
  <2>2. /\ RingIndex(d, k) = IF d.head + k < RingSize THEN d.head + k ELSE d.head + k - RingSize
        /\ RingIndex(c, k + 1) = IF c.head + (k + 1) < RingSize THEN c.head + (k + 1)
                                 ELSE c.head + (k + 1) - RingSize
        /\ d.head = IF c.head + 1 < RingSize THEN c.head + 1 ELSE c.head + 1 - RingSize
    BY <1>2, <2>1, IndexIs
  <2>3. RingIndex(d, k) = RingIndex(c, k + 1)
    BY <1>1, <1>3, <2>2
  <2> QED
    BY <2>3 DEF At
<1> QED
  BY <1>2, <1>3

--------------------------------------------------------------------------------
(* The invariant *)

CsFields ==
    {"effect", "carry", "idle_ticks", "ring", "head", "count", "base", "next_tick", "state",
     "next", "flight", "claims", "stick", "tune"}

EvFields == {"at", "why", "tick", "idx", "end", "skip", "verify", "claimed"}

Looping(r) == ev[r].at = "loop"

(* What is stored is stored by tick, and keeps a carry with its dither left out. *)
Indexed(c) ==
    /\ DOMAIN c = CsFields /\ Ringed(c)
    /\ c.count \in 0..RingSize /\ c.base \in Int
    /\ \A k \in 0..c.count - 1 :
          At(c, k).tick = c.base + k /\ Kept(At(c, k).carry) = At(c, k).carry

(* The first n entries go on from one another. *)
Chained(c, n) == \A k \in 1..n - 1 : At(c, k).from = At(c, k - 1).carry

(***************************************************************************)
(* An evaluation that has come to its idx-th tick: it knows where it is in *)
(* the ring, all behind it is chained and the carry is that of the tick    *)
(* before.  Nothing is stored ahead of it unless it verifies, and then it  *)
(* goes on to the end of what is stored.                                   *)
(***************************************************************************)
Under(e, c) ==
    /\ e.tick \in Int /\ e.idx \in Nat /\ e.skip \in Nat /\ e.end \in Nat
    /\ e.verify \in BOOLEAN
    /\ e.skip = e.tick - c.base
    /\ e.idx + e.skip <= c.count
    /\ IF e.verify THEN e.end = c.count - e.skip
                   ELSE e.end = Window /\ e.idx + e.skip = c.count
    /\ Chained(c, e.idx + e.skip)
    /\ e.idx + e.skip > 0 => At(c, e.idx + e.skip - 1).carry = Kept(c.carry)

RingInv ==
    /\ Indexed(cs) /\ now \in Nat /\ cs.next_tick \in Int
    /\ DOMAIN ev = Runners /\ \A r \in Runners : DOMAIN ev[r] = EvFields
    /\ \A r, q \in Runners : Looping(r) /\ Looping(q) => r = q
    /\ \A r \in Runners : Looping(r) => Under(ev[r], cs)
    /\ (\A r \in Runners : ~Looping(r)) => Chained(cs, cs.count)

LEMMA RingInvInit == RingInit => RingInv
<1> SUFFICES ASSUME RingInit PROVE RingInv
  OBVIOUS
<1>1. /\ DOMAIN cs = CsFields /\ cs.ring = [i \in 0..RingSize - 1 |-> NoEntry] /\ cs.head = 0
      /\ cs.count = 0 /\ cs.base = 0 /\ cs.next_tick = 0
  BY DEF RingInit, CsFields
<1>2. Ringed(cs)
  BY <1>1, EffectConstants DEF Ringed
<1>3. /\ DOMAIN ev = Runners /\ now = 1
      /\ \A r \in Runners : DOMAIN ev[r] = EvFields /\ ~Looping(r)
  BY DEF RingInit, Looping, NoEvaluation, EvFields
<1> QED
  BY <1>1, <1>2, <1>3, EffectConstants DEF RingInv, Indexed, Chained

(* A step that leaves the ring and the carry alone, or empties the ring. *)
Rests(c, d) ==
    /\ DOMAIN d = CsFields /\ d.ring = c.ring /\ d.head = c.head /\ d.base = c.base
    /\ d.next_tick \in Int /\ d.carry = c.carry
    /\ d.count \in {c.count, 0}

LEMMA RestsKeeps ==
    ASSUME NEW c, NEW d, Indexed(c), Chained(c, c.count), Rests(c, d)
    PROVE  Indexed(d) /\ Chained(d, d.count)
<1>1. Ringed(d) /\ \A k : At(d, k) = At(c, k)
  BY DEF Indexed, Ringed, Rests, At, RingIndex
<1> QED
  BY <1>1, EffectConstants DEF Indexed, Rests, Chained

(***************************************************************************)
(* The opening of an evaluation: where its time sits, and the carry of the *)
(* tick before.                                                            *)
(***************************************************************************)
LEMMA EvaluateOpens ==
    ASSUME RingInv, Chained(cs, cs.count), NEW r \in Runners,
           \A q \in Runners : q # r => ~Looping(q), NEW c, Rests(cs, c),
           NEW why, NEW tick \in Int, NEW claimed, Evaluate(r, c, why, tick, claimed),
           now' \in Nat
    PROVE  RingInv'
<1> DEFINE l == Locate(c, tick)
           skip == tick - l.base
           stored == l.count - skip
           verify == why = "tick" /\ stored > 0
           idx == IF why = "tick" THEN 0 ELSE stored
           s == Seed(l, idx + skip)
           w == [at |-> "loop", why |-> why, tick |-> tick, idx |-> idx,
                 end |-> IF verify THEN stored ELSE Window, skip |-> skip,
                 verify |-> verify, claimed |-> claimed]
<1>1. /\ cs' = [s EXCEPT !.effect = ConditionUpdate(@, s.stick, s.tune.strength)]
      /\ ev' = [ev EXCEPT ![r] = w]
  BY DEF Evaluate
<1>2. Indexed(c) /\ Chained(c, c.count) /\ c.next_tick \in Int
  BY RestsKeeps DEF RingInv, Rests
<1>3. /\ Indexed(l) /\ Chained(l, l.count) /\ l.next_tick \in Int
      /\ skip \in 0..RingSize /\ skip <= l.count
  <2>1. CASE tick - c.base < 1 \/ tick - c.base > c.count
    <3>1. /\ l = [c EXCEPT !.base = tick, !.count = 0]
      BY <2>1 DEF Locate
    <3>2. /\ DOMAIN l = CsFields /\ l.ring = c.ring /\ l.head = c.head /\ l.base = tick
          /\ l.count = 0 /\ l.next_tick = c.next_tick
      BY <1>2, <3>1 DEF Indexed, CsFields
    <3> HIDE DEF l
    <3> QED
      BY <1>2, <3>2, EffectConstants DEF Indexed, Ringed, Chained
  <2>2. CASE ~(tick - c.base < 1 \/ tick - c.base > c.count)
    <3>1. l = c
      BY <2>2 DEF Locate
    <3> QED
      BY <1>2, <2>2, <3>1, EffectConstants DEF Indexed
  <2> QED
    BY <2>1, <2>2
<1> HIDE DEF l
<1>4. skip \in Nat /\ stored \in Nat /\ idx \in Nat /\ idx + skip \in 0..l.count /\ l.count \in Nat
  BY <1>3, EffectConstants DEF Indexed
<1>5. /\ DOMAIN s = CsFields /\ s.ring = l.ring /\ s.head = l.head /\ s.base = l.base
      /\ s.count = l.count /\ s.next_tick = l.next_tick
      /\ idx + skip > 0 => Kept(s.carry) = At(l, idx + skip - 1).carry
  <2>1. CASE idx + skip > 0
    <3>1. s = [l EXCEPT !.carry = [At(l, idx + skip - 1).carry
                                     EXCEPT !.dither_state = l.carry.dither_state]]
      BY <1>4, <2>1 DEF Seed, At
    <3>2. Kept(At(l, idx + skip - 1).carry) = At(l, idx + skip - 1).carry
      <4>1. idx + skip - 1 \in 0..l.count - 1
        BY <1>4, <2>1
      <4> QED
        BY <1>3, <4>1 DEF Indexed
    <3>3. s.carry = [At(l, idx + skip - 1).carry EXCEPT !.dither_state = l.carry.dither_state]
      BY <1>3, <3>1 DEF Indexed, CsFields
    <3>4. Kept(s.carry) = At(l, idx + skip - 1).carry
      BY <3>2, <3>3, KeptTwice
    <3>5. /\ DOMAIN s = CsFields /\ s.ring = l.ring /\ s.head = l.head /\ s.base = l.base
          /\ s.count = l.count /\ s.next_tick = l.next_tick
      BY <1>3, <3>1 DEF Indexed, CsFields
    <3> QED
      BY <3>4, <3>5
  <2>2. CASE ~(idx + skip > 0)
    <3>1. s = l
      BY <2>2 DEF Seed
    <3> QED
      BY <1>3, <2>2, <3>1 DEF Indexed
  <2> QED
    BY <2>1, <2>2
<1> HIDE DEF s
<1>6. /\ DOMAIN cs' = CsFields /\ cs'.ring = l.ring /\ cs'.head = l.head /\ cs'.base = l.base
      /\ cs'.count = l.count /\ cs'.next_tick = l.next_tick
      /\ idx + skip > 0 => Kept(cs'.carry) = At(l, idx + skip - 1).carry
  BY <1>1, <1>5 DEF CsFields
<1>7. Ringed(cs') /\ \A k : At(cs', k) = At(l, k)
  BY <1>3, <1>6 DEF Indexed, Ringed, At, RingIndex
<1>8. Indexed(cs') /\ Chained(cs', cs'.count)
  BY <1>3, <1>6, <1>7 DEF Indexed, Chained
<1>9. Chained(cs', idx + skip)
  BY <1>4, <1>6, <1>8 DEF Chained
<1>10. /\ w.tick = tick /\ w.idx = idx /\ w.skip = skip /\ w.verify = verify
       /\ w.end = (IF verify THEN stored ELSE Window) /\ DOMAIN w = EvFields
  BY DEF EvFields
<1>11. ev'[r] = w /\ DOMAIN ev' = Runners /\ \A q \in Runners : q # r => ev'[q] = ev[q]
  BY <1>1 DEF RingInv
<1>12. (verify \in BOOLEAN) /\ (~verify => idx + skip = l.count)
  BY <1>4
<1>13. (verify => stored = l.count - skip) /\ skip = tick - l.base
  BY <1>4
<1> HIDE DEF skip, stored, verify, idx, w
<1>14. Under(w, cs')
  BY <1>4, <1>6, <1>7, <1>9, <1>10, <1>12, <1>13, EffectConstants DEF Under
<1> QED
  BY <1>3, <1>6, <1>8, <1>10, <1>11, <1>14 DEF RingInv, Looping
--------------------------------------------------------------------------------
(* One tick of an evaluation *)

(***************************************************************************)
(* What core_effect_evaluate leaves of one tick: the entry at offset o,    *)
(* and all before it as it was, one further down if the oldest went out.   *)
(***************************************************************************)
LEMMA TickWritten ==
    ASSUME RingInv, NEW r \in Runners, Looping(r), EvaluateTick(r)
    PROVE  \E o \in 0..RingSize - 1, rolled \in {0, 1} : \E x :
             /\ Indexed(cs) /\ Ringed(cs') /\ DOMAIN cs' = CsFields
             /\ cs'.base = cs.base + rolled /\ o + rolled = ev[r].idx + ev[r].skip
             /\ ev[r].skip - rolled \in Nat
             /\ x.tick = ev[r].tick + ev[r].idx /\ x.from = Kept(cs.carry)
             /\ x.carry = Kept(cs'.carry) /\ Kept(x.carry) = x.carry
             /\ At(cs', o) = x
             /\ \A k \in 0..o - 1 : At(cs', k) = At(cs, k + rolled)
             /\ \A k \in o + 1..cs'.count - 1 : rolled = 0 /\ k < cs.count /\ At(cs', k) = At(cs, k)
             /\ o < cs'.count /\ cs'.count \in 0..RingSize /\ cs'.next_tick = cs.next_tick
             /\ ev'[r].skip = ev[r].skip - rolled /\ ev'[r].idx = ev[r].idx + 1
             /\ ev'[r].at = "loop" /\ ev'[r].tick = ev[r].tick
             /\ ev'[r].verify \in BOOLEAN
             /\ IF ev'[r].verify
                THEN ev[r].verify /\ cs'.count = cs.count /\ ev'[r].end = ev[r].end /\ rolled = 0
                ELSE ev'[r].end = Window /\ cs'.count = o + 1
             /\ DOMAIN ev' = Runners /\ DOMAIN ev'[r] = EvFields
             /\ \A q \in Runners : q # r => ev'[q] = ev[q]
<1> DEFINE e == ev[r]
           b == e.idx + e.skip
           past == cs.count <= b
           m == MakeRoom(cs, b)
           skip == SkipAfter(e, m.base # cs.base)
           t == TickEntry(m, e.tick + e.idx, e.tick)
           o == e.idx + skip
           at == RingIndex(m, o)
           verify == e.verify /\ ~past
           differs == verify /\ m.ring[at].pulse # t.entry.pulse
           silent == Playing(cs.effect, e.tick + e.idx) = {}
<1>1. /\ cs' = [m EXCEPT !.ring[at] = t.entry, !.carry = t.carry,
                         !.count = IF differs THEN e.idx + 1 + skip ELSE @,
                         !.idle_ticks = IF silent THEN @ + 1 ELSE 0]
      /\ ev' = [ev EXCEPT ![r].idx = @ + 1, ![r].skip = skip,
                          ![r].verify = verify /\ ~differs,
                          ![r].end = IF e.verify /\ (past \/ differs) THEN Window ELSE @]
  BY DEF EvaluateTick
<1>0. ev[r].idx < ev[r].end
  BY DEF EvaluateTick
<1>2. Indexed(cs) /\ Under(e, cs) /\ RingSize \in Nat /\ Window \in Nat \ {0} /\ RingSize >= 2 * Window
  BY EffectConstants DEF RingInv
<1>3. /\ e.idx \in Nat /\ e.skip \in Nat /\ e.end \in Nat /\ e.tick \in Int /\ b \in 0..cs.count
      /\ cs.count \in 0..RingSize /\ cs.base \in Int /\ e.skip = e.tick - cs.base
      /\ e.verify \in BOOLEAN
      /\ IF e.verify THEN e.end = cs.count - e.skip ELSE e.end = Window /\ b = cs.count
  BY <1>2 DEF Under, Indexed
<1>4. e.verify => ~past
  BY <1>0, <1>3
<1> DEFINE rolled == IF cs.count <= b /\ ~(cs.count < RingSize) THEN 1 ELSE 0
<1>5. /\ DOMAIN m = CsFields /\ m.ring = cs.ring /\ m.carry = cs.carry /\ m.next_tick = cs.next_tick
      /\ m.base = cs.base + rolled
      /\ m.count = (IF past /\ rolled = 0 THEN cs.count + 1 ELSE cs.count)
      /\ m.head = (IF rolled = 1 THEN RingIndex(cs, 1) ELSE cs.head)
  <2>1. CASE cs.count > b
    BY <1>3, <2>1, <1>2 DEF MakeRoom, Indexed
  <2>2. CASE cs.count <= b /\ cs.count < RingSize
    <3>1. m = [cs EXCEPT !.count = cs.count + 1]
      BY <2>2, <1>3 DEF MakeRoom
    <3> QED
      BY <3>1, <2>2, <1>2, <1>3 DEF Indexed, CsFields
  <2>3. CASE cs.count <= b /\ ~(cs.count < RingSize)
    <3>1. m = [cs EXCEPT !.head = RingIndex(cs, 1), !.base = cs.base + 1]
      BY <2>3, <1>3 DEF MakeRoom
    <3>2. /\ DOMAIN m = CsFields /\ m.ring = cs.ring /\ m.carry = cs.carry
          /\ m.next_tick = cs.next_tick /\ m.base = cs.base + 1 /\ m.count = cs.count
          /\ m.head = RingIndex(cs, 1)
      BY <3>1, <1>2 DEF Indexed, CsFields
    <3>3. rolled = 1
      BY <2>3
    <3> QED
      BY <3>2, <3>3
  <2> QED
    BY <2>1, <2>2, <2>3, <1>3
<1> HIDE DEF m
<1>6. rolled \in {0, 1} /\ skip = e.skip - rolled /\ o + rolled = b
  BY <1>3, <1>5 DEF SkipAfter
<1> HIDE DEF skip
<1>7. e.skip - rolled \in Nat /\ o \in 0..RingSize - 1 /\ o < m.count /\ m.count \in 0..RingSize
  <2>1. CASE rolled = 1
    <3>a. ~e.verify /\ b = RingSize
      BY <1>2, <1>3, <1>4, <2>1
    <3>1. ~e.verify /\ b = RingSize /\ e.idx < Window
      BY <1>0, <1>3, <3>a
    <3> QED
      BY <1>2, <1>3, <1>5, <1>6, <2>1, <3>1
  <2>2. CASE rolled = 0
    <3>1. o = b /\ e.skip - rolled \in Nat
      BY <1>3, <1>6, <2>2
    <3>2. (past => cs.count < RingSize /\ m.count = cs.count + 1) /\ (~past => m.count = cs.count)
      BY <1>3, <1>5, <2>2
    <3> QED
      BY <1>2, <1>3, <3>1, <3>2
  <2> QED
    BY <2>1, <2>2
<1>8. /\ Ringed(m)
      /\ \A k \in 0..RingSize - 1 : k + rolled < RingSize => At(m, k) = At(cs, k + rolled)
  <2>1. CASE rolled = 1
    BY <1>2, <1>5, <2>1, Rolled DEF Indexed
  <2>2. CASE rolled = 0
    <3>1. Ringed(m) /\ \A k : At(m, k) = At(cs, k)
      BY <1>2, <1>5, <2>2 DEF Indexed, Ringed, At, RingIndex
    <3> QED
      BY <2>2, <3>1
  <2> QED
    BY <1>6, <2>1, <2>2
<1>9. /\ t.entry.tick = e.tick + e.idx /\ t.entry.from = Kept(cs.carry)
      /\ t.entry.carry = Kept(t.carry) /\ Kept(t.entry.carry) = t.entry.carry
  <2>1. Kept(Kept(t.carry)) = Kept(t.carry)
    BY KeptTwice, Zenon DEF Kept
  <2>2. t.entry.tick = e.tick + e.idx /\ t.entry.from = Kept(m.carry) /\ t.entry.carry = Kept(t.carry)
    BY DEF TickEntry
  <2> QED
    BY <1>5, <2>1, <2>2
<1> HIDE DEF t
<1>10. differs \in BOOLEAN /\ silent \in BOOLEAN /\ verify \in BOOLEAN /\ (verify <=> e.verify)
       /\ (differs => e.verify)
  BY <1>3, <1>4
<1> HIDE DEF differs, silent, verify
<1>11. /\ cs'.ring = [m.ring EXCEPT ![at] = t.entry] /\ cs'.carry = t.carry
       /\ cs'.count = (IF differs THEN e.idx + 1 + skip ELSE m.count)
       /\ DOMAIN cs' = CsFields /\ cs'.base = m.base /\ cs'.head = m.head
       /\ cs'.next_tick = m.next_tick
  BY <1>1, <1>5 DEF CsFields
<1>12. /\ Ringed(cs') 
       /\ \A k \in 0..RingSize - 1 : At(cs', k) = IF k = o THEN t.entry ELSE At(m, k)
  <2>1. /\ Ringed(m) /\ o \in 0..RingSize - 1 /\ cs'.head = m.head
        /\ cs'.ring = [m.ring EXCEPT ![RingIndex(m, o)] = t.entry]
    BY <1>7, <1>8, <1>11
  <2> DEFINE d == cs'
             x == t.entry
  <2>2. d.head = m.head /\ d.ring = [m.ring EXCEPT ![RingIndex(m, o)] = x]
    BY <2>1
  <2> HIDE DEF o, d, x
  <2>3. /\ Ringed(d)
        /\ \A k \in 0..RingSize - 1 : At(d, k) = IF k = o THEN x ELSE At(m, k)
    BY <2>1, <2>2, Written
  <2> QED
    BY <2>3 DEF d, x
<1>13. /\ ev'[r].idx = e.idx + 1 /\ ev'[r].skip = skip /\ ev'[r].at = "loop" /\ ev'[r].tick = e.tick
       /\ ev'[r].verify = (verify /\ ~differs)
       /\ ev'[r].end = (IF e.verify /\ (past \/ differs) THEN Window ELSE e.end)
       /\ DOMAIN ev' = Runners /\ DOMAIN ev'[r] = EvFields
       /\ \A q \in Runners : q # r => ev'[q] = ev[q]
  <2>1. DOMAIN ev = Runners /\ DOMAIN e = EvFields /\ e.at = "loop"
    BY DEF RingInv, Looping
  <2> QED
    BY <1>1, <2>1 DEF EvFields
<1>14. \A k \in 0..o - 1 : At(cs', k) = At(cs, k + rolled)
  BY <1>2, <1>6, <1>7, <1>8, <1>12
<1>15. o < cs'.count /\ cs'.count \in 0..RingSize
  <2>1. e.idx + 1 + skip = o + 1 /\ o \in 0..RingSize - 1
    BY <1>3, <1>6, <1>7
  <2> QED
    BY <1>2, <1>7, <1>11, <2>1
<1>16. \A k \in o + 1..cs'.count - 1 : rolled = 0 /\ k < cs.count /\ At(cs', k) = At(cs, k)
  BY <1>2, <1>3, <1>5, <1>6, <1>7, <1>8, <1>11, <1>12
<1>17. IF ev'[r].verify
       THEN e.verify /\ cs'.count = cs.count /\ ev'[r].end = e.end /\ rolled = 0
       ELSE ev'[r].end = Window /\ cs'.count = o + 1
  <2>1. CASE e.verify /\ ~differs
    BY <1>3, <1>4, <1>5, <1>10, <1>11, <1>13, <2>1
  <2>2. CASE e.verify /\ differs
    <3>1. ev'[r].verify = FALSE /\ ev'[r].end = Window
      BY <1>10, <1>13, <2>2
    <3>2. cs'.count = o + 1
      BY <1>3, <1>6, <1>11, <2>2
    <3> QED
      BY <3>1, <3>2
  <2>3. CASE ~e.verify
    BY <1>3, <1>5, <1>6, <1>7, <1>10, <1>11, <1>13, <2>3
  <2> QED
    BY <2>1, <2>2, <2>3
<1>18. o \in 0..RingSize - 1 /\ rolled \in {0, 1}
  BY <1>6, <1>7
<1> USE <1>18
<1> HIDE DEF o, rolled
<1> WITNESS o \in 0..RingSize - 1, rolled \in {0, 1}
<1> WITNESS t.entry
<1> QED
  BY <1>2, <1>5, <1>6, <1>7, <1>9, <1>10, <1>11, <1>12, <1>13, <1>14, <1>15, <1>16, <1>17
LEMMA TickEvaluated ==
    ASSUME RingInv, NEW r \in Runners, Looping(r), EvaluateTick(r)
    PROVE  RingInv'
<1>a. PICK o \in 0..RingSize - 1, rolled \in {0, 1} : \E x :
         /\ Ringed(cs') /\ DOMAIN cs' = CsFields
         /\ cs'.base = cs.base + rolled /\ o + rolled = ev[r].idx + ev[r].skip
         /\ ev[r].skip - rolled \in Nat
         /\ x.tick = ev[r].tick + ev[r].idx /\ x.from = Kept(cs.carry)
         /\ x.carry = Kept(cs'.carry) /\ Kept(x.carry) = x.carry
         /\ At(cs', o) = x
         /\ \A k \in 0..o - 1 : At(cs', k) = At(cs, k + rolled)
         /\ \A k \in o + 1..cs'.count - 1 : rolled = 0 /\ k < cs.count /\ At(cs', k) = At(cs, k)
         /\ o < cs'.count /\ cs'.count \in 0..RingSize /\ cs'.next_tick = cs.next_tick
         /\ ev'[r].skip = ev[r].skip - rolled /\ ev'[r].idx = ev[r].idx + 1
         /\ ev'[r].at = "loop" /\ ev'[r].tick = ev[r].tick
         /\ ev'[r].verify \in BOOLEAN
         /\ IF ev'[r].verify
            THEN ev[r].verify /\ cs'.count = cs.count /\ ev'[r].end = ev[r].end /\ rolled = 0
            ELSE ev'[r].end = Window /\ cs'.count = o + 1
         /\ DOMAIN ev' = Runners /\ DOMAIN ev'[r] = EvFields
         /\ \A q \in Runners : q # r => ev'[q] = ev[q]
  BY TickWritten
<1>1. PICK x :
         /\ Ringed(cs') /\ DOMAIN cs' = CsFields
         /\ cs'.base = cs.base + rolled /\ o + rolled = ev[r].idx + ev[r].skip
         /\ ev[r].skip - rolled \in Nat
         /\ x.tick = ev[r].tick + ev[r].idx /\ x.from = Kept(cs.carry)
         /\ x.carry = Kept(cs'.carry) /\ Kept(x.carry) = x.carry
         /\ At(cs', o) = x
         /\ \A k \in 0..o - 1 : At(cs', k) = At(cs, k + rolled)
         /\ \A k \in o + 1..cs'.count - 1 : rolled = 0 /\ k < cs.count /\ At(cs', k) = At(cs, k)
         /\ o < cs'.count /\ cs'.count \in 0..RingSize /\ cs'.next_tick = cs.next_tick
         /\ ev'[r].skip = ev[r].skip - rolled /\ ev'[r].idx = ev[r].idx + 1
         /\ ev'[r].at = "loop" /\ ev'[r].tick = ev[r].tick
         /\ ev'[r].verify \in BOOLEAN
         /\ IF ev'[r].verify
            THEN ev[r].verify /\ cs'.count = cs.count /\ ev'[r].end = ev[r].end /\ rolled = 0
            ELSE ev'[r].end = Window /\ cs'.count = o + 1
         /\ DOMAIN ev' = Runners /\ DOMAIN ev'[r] = EvFields
         /\ \A q \in Runners : q # r => ev'[q] = ev[q]
  BY <1>a
<1> DEFINE e == ev[r]
           b == e.idx + e.skip
<1>2. /\ Indexed(cs) /\ Under(e, cs) /\ RingSize \in Nat /\ Window \in Nat
      /\ now \in Nat /\ cs.next_tick \in Int /\ DOMAIN ev = Runners
      /\ \A q \in Runners : DOMAIN ev[q] = EvFields /\ (Looping(q) => q = r)
  BY EffectConstants DEF RingInv
<1>3. /\ e.idx \in Nat /\ e.skip \in Nat /\ e.tick \in Int /\ cs.base \in Int /\ cs.count \in Nat
      /\ b <= cs.count /\ e.skip = e.tick - cs.base /\ b = o + rolled /\ o \in Nat /\ rolled \in Nat
      /\ cs'.count \in Nat
  BY <1>1, <1>2 DEF Under, Indexed
<1>4. Indexed(cs')
  <2>1. ASSUME NEW k \in 0..cs'.count - 1
        PROVE  At(cs', k).tick = cs'.base + k /\ Kept(At(cs', k).carry) = At(cs', k).carry
    <3>1. CASE k < o
      <4>1. At(cs', k) = At(cs, k + rolled) /\ k + rolled \in 0..cs.count - 1
        BY <1>1, <1>3, <3>1
      <4>2. At(cs, k + rolled).tick = cs.base + (k + rolled)
            /\ Kept(At(cs, k + rolled).carry) = At(cs, k + rolled).carry
        BY <1>2, <4>1 DEF Indexed
      <4> QED
        BY <1>1, <1>3, <4>1, <4>2
    <3>2. CASE k = o
      BY <1>1, <1>3, <3>2
    <3>3. CASE k > o
      <4>1. At(cs', k) = At(cs, k) /\ k \in 0..cs.count - 1 /\ rolled = 0
        BY <1>1, <1>3, <3>3
      <4> QED
        BY <1>1, <1>2, <1>3, <4>1 DEF Indexed
    <3> QED
      BY <1>3, <3>1, <3>2, <3>3
  <2>2. cs'.base \in Int
    BY <1>1, <1>3
  <2> QED
    BY <1>1, <2>1, <2>2 DEF Indexed
<1>5. Chained(cs', o + 1)
  <2> SUFFICES ASSUME NEW k \in 1..o PROVE At(cs', k).from = At(cs', k - 1).carry
    BY <1>3 DEF Chained
  <2>1. At(cs', k - 1) = At(cs, k - 1 + rolled)
    BY <1>1, <1>3
  <2>2. CASE k < o
    <3>1. At(cs', k) = At(cs, k + rolled)
      BY <1>1, <1>3, <2>2
    <3>2. At(cs, k + rolled).from = At(cs, k + rolled - 1).carry
      <4>1. k + rolled \in 1..b - 1
        BY <1>3, <2>2
      <4> QED
        BY <1>2, <4>1 DEF Under, Chained
    <3>3. k + rolled - 1 = k - 1 + rolled
      BY <1>3
    <3> QED
      BY <2>1, <3>1, <3>2, <3>3
  <2>3. CASE k = o
    <3>1. At(cs, b - 1).carry = Kept(cs.carry)
      BY <1>2, <1>3, <2>3 DEF Under
    <3>2. b - 1 = k - 1 + rolled
      BY <1>3, <2>3
    <3> QED
      BY <1>1, <2>1, <2>3, <3>1, <3>2
  <2> QED
    BY <1>3, <2>2, <2>3
<1>6. Under(ev'[r], cs')
  <2>1. ev'[r].idx + ev'[r].skip = o + 1
    BY <1>1, <1>3
  <2>2. /\ ev'[r].tick \in Int /\ ev'[r].idx \in Nat /\ ev'[r].skip \in Nat
        /\ ev'[r].skip = ev'[r].tick - cs'.base
    BY <1>1, <1>3
  <2>3. /\ ev'[r].end \in Nat
        /\ IF ev'[r].verify THEN ev'[r].end = cs'.count - ev'[r].skip
           ELSE ev'[r].end = Window /\ o + 1 = cs'.count
    <3>1. CASE ev'[r].verify
      <4>1. e.verify /\ cs'.count = cs.count /\ ev'[r].end = e.end /\ rolled = 0
        BY <1>1, <3>1
      <4>2. e.end = cs.count - e.skip /\ e.end \in Nat
        BY <1>2, <4>1 DEF Under
      <4> QED
        BY <1>1, <1>3, <3>1, <4>1, <4>2
    <3>2. CASE ~ev'[r].verify
      BY <1>1, <1>2, <3>2
    <3> QED
      BY <3>1, <3>2
  <2>4. At(cs', o + 1 - 1).carry = Kept(cs'.carry)
    <3>1. o + 1 - 1 = o
      BY <1>3
    <3> QED
      BY <1>1, <3>1
  <2>5. o + 1 <= cs'.count /\ ev'[r].verify \in BOOLEAN
    BY <1>1, <1>3
  <2> QED
    BY <1>5, <2>1, <2>2, <2>3, <2>4, <2>5 DEF Under
<1>7. now' = now
  BY DEF EvaluateTick
<1>8. \A q \in Runners : (Looping(q)' <=> q = r) /\ DOMAIN ev'[q] = EvFields
  BY <1>1, <1>2 DEF Looping
<1> QED
  BY <1>1, <1>2, <1>4, <1>6, <1>7, <1>8 DEF RingInv

(* An evaluation that is through has rewritten or checked all that is stored. *)
LEMMA LoopEnds ==
    ASSUME RingInv, NEW r \in Runners, Looping(r), ev[r].idx >= ev[r].end
    PROVE  Chained(cs, cs.count)
<1>1. Under(ev[r], cs) /\ Indexed(cs) /\ RingSize \in Nat
  BY EffectConstants DEF RingInv
<1>2. ev[r].idx + ev[r].skip = cs.count
  <2>1. CASE ev[r].verify
    <3>1. ev[r].end = cs.count - ev[r].skip /\ ev[r].idx + ev[r].skip <= cs.count
      BY <1>1, <2>1 DEF Under
    <3>2. ev[r].idx \in Nat /\ ev[r].skip \in Nat /\ cs.count \in Nat
      BY <1>1 DEF Under, Indexed
    <3> QED
      BY <3>1, <3>2
  <2>2. CASE ~ev[r].verify
    BY <1>1, <2>2 DEF Under
  <2> QED
    BY <2>1, <2>2
<1> QED
  BY <1>1, <1>2 DEF Under

(* A step between evaluations, or the one that ends an evaluation. *)
LEMMA RestKeeps ==
    ASSUME RingInv, Chained(cs, cs.count), Rests(cs, cs'), now' \in Nat,
           DOMAIN ev' = Runners, \A r \in Runners : DOMAIN ev'[r] = EvFields /\ ~Looping(r)'
    PROVE  RingInv'
<1>1. Indexed(cs') /\ Chained(cs', cs'.count)
  BY RestsKeeps DEF RingInv
<1> QED
  BY <1>1 DEF RingInv, Rests
--------------------------------------------------------------------------------
(* The other steps *)

LEMMA EndedRests ==
    ASSUME RingInv, NEW r \in Runners, Looping(r), Ended(r)
    PROVE  DOMAIN ev' = Runners /\ \A q \in Runners : DOMAIN ev'[q] = EvFields /\ ~Looping(q)'
<1>1. NoEvaluation.at = "idle" /\ DOMAIN NoEvaluation = EvFields
  BY DEF NoEvaluation, EvFields
<1>2. ev' = [ev EXCEPT ![r] = NoEvaluation]
  BY DEF Ended
<1> HIDE DEF NoEvaluation
<1> QED
  BY <1>1, <1>2 DEF RingInv, Looping

(* The transfer taken or refused, what comes next and the window's end leave the ring alone. *)
LEMMA IssueRests ==
    ASSUME NEW c, NEW d, Rests(c, d), NEW next, NEW taken
    PROVE  Rests(c, Issue(d, next, taken))
BY DEF Rests, Issue, CsFields

LEMMA AdvancedRests ==
    ASSUME NEW c, Indexed(c), c.next_tick \in Int
    PROVE  Rests(c, c) /\ Rests(c, Advanced(c)) /\ Rests(c, [Advanced(c) EXCEPT !.count = 0])
<1>1. Window \in Nat
  BY EffectConstants
<1> QED
  BY <1>1 DEF Rests, Advanced, CsFields, Indexed

LEMMA WindowSent ==
    ASSUME RingInv, NEW r \in Runners, SendTick(r) \/ SendWindow(r) \/ SendUpdate(r), Looping(r)
    PROVE  RingInv'
<1>1. /\ DOMAIN ev' = Runners /\ \A q \in Runners : DOMAIN ev'[q] = EvFields /\ ~Looping(q)'
      /\ Chained(cs, cs.count) /\ now' = now
  BY EndedRests, LoopEnds DEF SendTick, SendWindow, SendUpdate
<1>2. Indexed(cs) /\ cs.next_tick \in Int /\ now \in Nat
  BY DEF RingInv
<1>3. \E d, next, taken : Rests(cs, d) /\ cs' = Issue(d, next, taken)
  <2>1. CASE SendTick(r)
    <3> DEFINE d == [cs EXCEPT !.next_tick = ev[r].tick + Window, !.state = "tick",
                               !.claims = @ \ {"pak"}]
    <3>1. \E taken : cs' = Issue(d, "keepalive", taken)
      BY <2>1 DEF SendTick, Send
    <3>2. Rests(cs, d)
      <4>1. ev[r].tick + Window \in Int
        BY EffectConstants DEF RingInv, Under
      <4> QED
        BY <1>2, <4>1 DEF Rests, Indexed, CsFields
    <3> QED
      BY <3>1, <3>2
  <2>2. CASE SendWindow(r)
    <3>1. \E taken : cs' = Issue(Advanced(cs), "none", taken)
      BY <2>2 DEF SendWindow, Send
    <3> QED
      BY <1>2, <3>1, AdvancedRests
  <2>3. CASE SendUpdate(r)
    <3>1. \/ \E taken : cs' = Issue([Advanced(cs) EXCEPT !.count = 0], "update", taken)
          \/ \E taken : cs' = Issue(Advanced(cs), "update", taken)
      BY <2>3 DEF SendUpdate, Send
    <3> QED
      BY <1>2, <3>1, AdvancedRests
  <2> QED
    BY <2>1, <2>2, <2>3
<1>4. Rests(cs, cs')
  BY <1>3, IssueRests
<1> QED
  BY <1>1, <1>2, <1>4, RestKeeps

LEMMA NothingChangedKeeps ==
    ASSUME RingInv, NEW r \in Runners, NothingChanged(r), Looping(r)
    PROVE  RingInv'
<1>1. /\ Chained(cs, cs.count) /\ now' = now /\ now \in Nat /\ Indexed(cs) /\ cs.next_tick \in Int
      /\ \A q \in Runners : q # r => ~Looping(q)
  BY LoopEnds DEF NothingChanged, RingInv
<1>2. CASE Ended(r) /\ (UNCHANGED cs \/ \E taken : cs' = Issue(cs, "periodic", taken))
  <2>1. Rests(cs, cs')
    <3>1. Rests(cs, cs)
      BY <1>1, AdvancedRests
    <3> QED
      BY <1>2, <3>1, IssueRests
  <2> QED
    BY <1>1, <1>2, <2>1, EndedRests, RestKeeps
<1>3. CASE Extend(r, [cs EXCEPT !.state = "periodic"], "periodic", ev[r].claimed)
  <2> DEFINE c == [cs EXCEPT !.state = "periodic"]
  <2>1. Rests(cs, c) /\ c.next_tick \in Int
    BY <1>1 DEF Rests, Indexed, CsFields
  <2>2. Evaluate(r, c, "periodic", c.next_tick, ev[r].claimed)
    BY <1>3 DEF Extend
  <2> HIDE DEF c
  <2> QED
    BY <1>1, <2>1, <2>2, EvaluateOpens
<1> QED
  BY <1>2, <1>3 DEF NothingChanged

(***************************************************************************)
(* Who else moves waits until nobody evaluates, as long as no DPC comes    *)
(* between two ticks of a request.                                         *)
(***************************************************************************)
Moves ==
    \/ PacketTick \/ Completed \/ Deferred \/ PakChange \/ Clock
    \/ EffectProg \/ EffectStart \/ EffectStop \/ EffectQuery \/ StickMoves

LEMMA NobodyLoops ==
    ASSUME RingInv, Overlap = FALSE, Moves
    PROVE  Chained(cs, cs.count) /\ \A q \in Runners : ~Looping(q)
<1>1. \A q \in Runners : ev[q].at = "idle"
  BY DEF Moves, PacketTick, Completed, Deferred, PakChange, Clock, EffectProg, EffectStart,
         EffectStop, EffectQuery, StickMoves, DpcMay, ThreadMay, Runners
<1> QED
  BY <1>1 DEF RingInv, Looping

(* core_effect_run, or something done to other fields. *)
Acts(r) ==
    \/ \E c, why, claimed : \E tick \in Int : Rests(cs, c) /\ Evaluate(r, c, why, tick, claimed)
    \/ Rests(cs, cs') /\ UNCHANGED ev

LEMMA ActsKeeps ==
    ASSUME RingInv, Chained(cs, cs.count), \A q \in Runners : ~Looping(q), now' \in Nat,
           NEW r \in Runners, Acts(r)
    PROVE  RingInv'
<1>1. CASE \E c, why, claimed : \E tick \in Int : Rests(cs, c) /\ Evaluate(r, c, why, tick, claimed)
  BY <1>1, EvaluateOpens
<1>2. CASE Rests(cs, cs') /\ UNCHANGED ev
  <2>1. /\ DOMAIN ev' = Runners
        /\ \A q \in Runners : DOMAIN ev'[q] = EvFields /\ ~Looping(q)'
    BY <1>2 DEF RingInv, Looping
  <2> QED
    BY <1>2, <2>1, RestKeeps
<1> QED
  BY <1>1, <1>2 DEF Acts

LEMMA RunActs ==
    ASSUME NEW r \in Runners, NEW c, Rests(cs, c), NEW tick \in Int, NEW claimed,
           Run(r, c, tick, claimed)
    PROVE  Acts(r)
<1> DEFINE d == [c EXCEPT !.claims = @ \ {"tick"}]
<1>1. Rests(cs, d)
  BY DEF Rests, CsFields
<1>2. Evaluate(r, d, "tick", tick, claimed)
  BY DEF Run
<1> QED
  BY <1>1, <1>2 DEF Acts

LEMMA ExtendActs ==
    ASSUME NEW r \in Runners, NEW c, Rests(cs, c), NEW why, NEW claimed, Extend(r, c, why, claimed)
    PROVE  Acts(r)
BY DEF Acts, Extend, Rests

LEMMA KickActs ==
    ASSUME NEW r \in Runners, NEW c, Rests(cs, c), now \in Nat, Kick(r, c)
    PROVE  Acts(r)
<1> DEFINE d == [c EXCEPT !.idle_ticks = 0]
           q == [c EXCEPT !.idle_ticks = 0, !.claims = @ \cup {"tick"}]
<1>1. Rests(cs, d) /\ Rests(cs, q)
  BY DEF Rests, CsFields
<1>2. Run(r, d, now, TRUE) \/ (cs' = q /\ UNCHANGED ev)
  BY DEF Kick
<1> HIDE DEF d, q
<1>3. CASE Run(r, d, now, TRUE)
  <2>1. now \in Int
    OBVIOUS
  <2> QED
    BY <1>1, <1>3, <2>1, RunActs, Zenon
<1>4. CASE cs' = q /\ UNCHANGED ev
  BY <1>1, <1>4 DEF Acts
<1> QED
  BY <1>2, <1>3, <1>4
LEMMA DpcActs ==
    ASSUME RingInv, PacketTick \/ Completed \/ Deferred \/ PakChange
    PROVE  Acts("dpc") /\ now' \in Nat
<1>1. "dpc" \in Runners /\ Indexed(cs) /\ cs.next_tick \in Int /\ now \in Nat /\ now \in Int
      /\ Rests(cs, cs)
  <2>1. "dpc" \in Runners /\ Indexed(cs) /\ cs.next_tick \in Int /\ now \in Nat
    BY DEF RingInv, Runners
  <2>2. Rests(cs, cs)
    BY <2>1, AdvancedRests
  <2>3. now \in Int
    BY <2>1
  <2> QED
    BY <2>1, <2>2, <2>3
<1>2. now' = now
  BY DEF PacketTick, Completed, Deferred, PakChange
<1>3. CASE PacketTick
  <2>1. Run("dpc", cs, now, FALSE)
    BY <1>3 DEF PacketTick
  <2> QED
    BY <1>1, <1>2, <2>1, RunActs
<1>4. CASE Completed
  <2> DEFINE c == [cs EXCEPT !.next = "none", !.flight = FALSE]
             d == [c EXCEPT !.state = "periodic"]
             f == [c EXCEPT !.state = "tick"]
  <2>1. Rests(cs, c) /\ Rests(cs, d) /\ Rests(cs, f)
    BY <1>1 DEF Rests, Indexed, CsFields
  <2>2. \/ Run("dpc", c, now, TRUE)
        \/ \E taken : cs' = Issue(c, "periodic", taken) /\ UNCHANGED ev
        \/ Extend("dpc", d, "periodic", TRUE)
        \/ cs' = f /\ UNCHANGED ev
        \/ cs' = c /\ UNCHANGED ev
    BY <1>4 DEF Completed
  <2> HIDE DEF c, d, f
  <2>3. CASE Run("dpc", c, now, TRUE)
    BY <1>1, <1>2, <2>1, <2>3, RunActs
  <2>4. CASE Extend("dpc", d, "periodic", TRUE)
    BY <1>1, <1>2, <2>1, <2>4, ExtendActs
  <2>5. CASE \E taken : cs' = Issue(c, "periodic", taken) /\ UNCHANGED ev
    BY <1>1, <1>2, <2>1, <2>5, IssueRests DEF Acts
  <2>6. CASE (cs' = f \/ cs' = c) /\ UNCHANGED ev
    BY <1>1, <1>2, <2>1, <2>6 DEF Acts
  <2> QED
    BY <1>1, <1>2, <2>2, <2>3, <2>4, <2>5, <2>6
<1>5. CASE Deferred
  <2> DEFINE c == [cs EXCEPT !.claims = {}]
  <2>1. Rests(cs, c)
    BY <1>1 DEF Rests, Indexed, CsFields
  <2>2. \/ \E tick \in {now - 1, now} : Run("dpc", cs, tick, TRUE)
        \/ Extend("dpc", c, "update", TRUE)
    BY <1>5 DEF Deferred
  <2> HIDE DEF c
  <2>3. \A tick \in {now - 1, now} : tick \in Int
    BY <1>1
  <2> QED
    BY <1>1, <1>2, <2>1, <2>2, <2>3, RunActs, ExtendActs
<1>6. CASE PakChange
  <2> DEFINE c == [cs EXCEPT !.state = "pak", !.claims = @ \ {"pak"}]
             d == [cs EXCEPT !.state = "pak", !.claims = @ \cup {"pak"}]
  <2>1. Rests(cs, c) /\ Rests(cs, d)
    BY <1>1 DEF Rests, Indexed, CsFields
  <2>2. Extend("dpc", c, "update", TRUE) \/ (cs' = d /\ UNCHANGED ev)
    BY <1>6 DEF PakChange
  <2> HIDE DEF c, d
  <2>3. CASE Extend("dpc", c, "update", TRUE)
    BY <1>1, <1>2, <2>1, <2>3, ExtendActs
  <2>4. CASE cs' = d /\ UNCHANGED ev
    BY <1>1, <1>2, <2>1, <2>4 DEF Acts
  <2> QED
    BY <1>1, <1>2, <2>2, <2>3, <2>4
<1> QED
  BY <1>3, <1>4, <1>5, <1>6

LEMMA OtherField ==
    ASSUME RingInv, NEW effect, NEW stick, NEW tune
    PROVE  /\ Rests(cs, [cs EXCEPT !.effect = effect])
           /\ Rests(cs, [cs EXCEPT !.stick = stick, !.tune = tune])
BY DEF RingInv, Rests, Indexed, CsFields

LEMMA RequestActs ==
    ASSUME RingInv, EffectProg \/ EffectStart \/ EffectStop \/ EffectQuery
    PROVE  Acts("thread") /\ now' \in Nat
<1>1. "thread" \in Runners /\ now \in Nat /\ now' = now
  BY DEF RingInv, Runners, EffectProg, EffectStart, EffectStop, EffectQuery
<1>2. \E effect : \/ Kick("thread", [cs EXCEPT !.effect = effect])
                  \/ cs' = [cs EXCEPT !.effect = effect] /\ UNCHANGED ev
  <2>1. CASE EffectProg
    <3>1. PICK s \in Slots, p \in Programs, restart \in {"never", "stopped", "always"} :
            LET c == [cs EXCEPT !.effect[s] = Programmed(@, p, restart)]
            IN  IF p.block_length > 0 THEN Kick("thread", c) ELSE cs' = c /\ UNCHANGED <<ev, rounds>>
      BY <2>1 DEF EffectProg
    <3> DEFINE effect == [cs.effect EXCEPT ![s] = Programmed(@, p, restart)]
    <3>2. [cs EXCEPT !.effect[s] = Programmed(@, p, restart)] = [cs EXCEPT !.effect = effect]
      OBVIOUS
    <3>3. \/ Kick("thread", [cs EXCEPT !.effect = effect])
          \/ cs' = [cs EXCEPT !.effect = effect] /\ UNCHANGED ev
      BY <3>1, <3>2
    <3> HIDE DEF effect
    <3> QED
      BY <3>3
  <2>2. CASE EffectStart
    <3>1. PICK s \in Slots :
            Kick("thread", [cs EXCEPT !.effect[s].running = TRUE, !.effect[s].start_tick = now])
      BY <2>2 DEF EffectStart
    <3> DEFINE effect == [cs EXCEPT !.effect[s].running = TRUE, !.effect[s].start_tick = now].effect
    <3>2. [cs EXCEPT !.effect[s].running = TRUE, !.effect[s].start_tick = now]
          = [cs EXCEPT !.effect = effect]
      BY DEF RingInv, Indexed, CsFields
    <3> HIDE DEF effect
    <3> QED
      BY <3>1, <3>2
  <2>3. CASE EffectStop
    BY <2>3 DEF EffectStop
  <2>4. CASE EffectQuery
    BY <2>4 DEF EffectQuery
  <2> QED
    BY <2>1, <2>2, <2>3, <2>4
<1>3. PICK effect : \/ Kick("thread", [cs EXCEPT !.effect = effect])
                    \/ cs' = [cs EXCEPT !.effect = effect] /\ UNCHANGED ev
  BY <1>2
<1> DEFINE c == [cs EXCEPT !.effect = effect]
<1>4. Rests(cs, c)
  BY OtherField
<1>5. Kick("thread", c) \/ (cs' = c /\ UNCHANGED ev)
  BY <1>3
<1> HIDE DEF c
<1>6. CASE Kick("thread", c)
  BY <1>1, <1>4, <1>6, KickActs
<1>7. CASE cs' = c /\ UNCHANGED ev
  BY <1>1, <1>4, <1>7 DEF Acts
<1> QED
  BY <1>1, <1>5, <1>6, <1>7

LEMMA StickActs ==
    ASSUME RingInv, StickMoves
    PROVE  Acts("dpc") /\ now' \in Nat
<1>1. "dpc" \in Runners /\ now \in Nat /\ now' = now
  BY DEF RingInv, Runners, StickMoves
<1>2. PICK stick, tune : \/ Kick("dpc", [cs EXCEPT !.stick = stick, !.tune = tune])
                         \/ cs' = [cs EXCEPT !.stick = stick, !.tune = tune] /\ UNCHANGED ev
  BY DEF StickMoves
<1> DEFINE c == [cs EXCEPT !.stick = stick, !.tune = tune]
<1>3. Rests(cs, c)
  BY OtherField
<1>4. Kick("dpc", c) \/ (cs' = c /\ UNCHANGED ev)
  BY <1>2
<1> HIDE DEF c
<1>5. CASE Kick("dpc", c)
  BY <1>1, <1>3, <1>5, KickActs
<1>6. CASE cs' = c /\ UNCHANGED ev
  BY <1>1, <1>3, <1>6 DEF Acts
<1> QED
  BY <1>1, <1>4, <1>5, <1>6
LEMMA RingInvNext ==
    ASSUME RingInv, Overlap = FALSE, [RingNext]_ringVars
    PROVE  RingInv'
<1>1. ASSUME NEW r \in Runners, Evaluation(r) PROVE RingInv'
  <2>1. Looping(r)
    BY <1>1 DEF Evaluation, EvaluateTick, SendTick, NothingChanged, SendWindow, SendUpdate, Looping
  <2> QED
    BY <1>1, <2>1, TickEvaluated, WindowSent, NothingChangedKeeps DEF Evaluation
<1>2. CASE Moves
  <2>1. Chained(cs, cs.count) /\ \A q \in Runners : ~Looping(q)
    BY <1>2, NobodyLoops
  <2>2. "dpc" \in Runners /\ "thread" \in Runners
    BY DEF Runners
  <2>3. CASE Clock
    <3>1. UNCHANGED <<cs, ev>> /\ now' \in Nat
      BY <2>3 DEF Clock, RingInv
    <3> QED
      BY <3>1 DEF RingInv, Looping
  <2>4. CASE ~Clock
    BY <1>2, <2>1, <2>2, <2>4, DpcActs, RequestActs, StickActs, ActsKeeps DEF Moves
  <2> QED
    BY <2>3, <2>4
<1>3. CASE UNCHANGED ringVars
  BY <1>3 DEF ringVars, RingInv, Looping
<1> QED
  BY <1>1, <1>2, <1>3 DEF RingNext, Moves, Runners

--------------------------------------------------------------------------------
(* The theorems *)

(***************************************************************************)
(* As long as no DPC comes between two ticks of a request, the ring is     *)
(* indexed by tick and what is under way in it is consistent.              *)
(***************************************************************************)
THEOREM RingInvariant == Overlap = FALSE => (RingSpec => []RingInv)
<1> SUFFICES ASSUME Overlap = FALSE PROVE RingSpec => []RingInv
  OBVIOUS
<1>1. RingInv /\ [RingNext]_ringVars => RingInv'
  BY RingInvNext
<1> QED
  BY <1>1, RingInvInit, PTL DEF RingSpec

(***************************************************************************)
(* core_ring_index finds a tick where it was stored: through starting      *)
(* over, truncation at a disagreement, growth and the roll of a full ring, *)
(* for any effects, any window and any ring of two windows or more.        *)
(***************************************************************************)
THEOREM RingIndexedByTickHolds == Overlap = FALSE => (RingSpec => []RingIndexedByTick)
<1>1. RingInv => RingIndexedByTick
  BY DEF RingInv, Indexed, RingIndexedByTick, Stored, At
<1> QED
  BY <1>1, RingInvariant, PTL

(***************************************************************************)
(* Whatever core_effect_evaluate is asked for, the payload it composes is  *)
(* of the ticks asked for, in order.                                       *)
(***************************************************************************)
THEOREM WindowCoversItsTicksHolds == Overlap = FALSE => (RingSpec => []WindowCoversItsTicks)
<1>1. RingInv => WindowCoversItsTicks
  <2> SUFFICES ASSUME RingInv, NEW r \in Runners, Looping(r), ev[r].idx >= ev[r].end,
                      ~ev[r].verify, NEW i \in 0..Window - 1
               PROVE  Payload(cs, ev[r])[i].tick = ev[r].tick + i
    BY DEF WindowCoversItsTicks, Looping
  <2>1. /\ ev[r].end = Window /\ ev[r].idx + ev[r].skip = cs.count /\ ev[r].skip \in Nat
        /\ ev[r].idx \in Nat /\ ev[r].tick \in Int /\ ev[r].skip = ev[r].tick - cs.base
        /\ cs.base \in Int /\ cs.count \in Nat /\ Window \in Nat
    BY EffectConstants DEF RingInv, Under, Indexed
  <2>2. i + ev[r].skip \in 0..cs.count - 1
    BY <2>1
  <2>3. At(cs, i + ev[r].skip).tick = cs.base + (i + ev[r].skip)
    BY <2>2 DEF RingInv, Indexed
  <2>4. Payload(cs, ev[r])[i] = At(cs, i + ev[r].skip)
    BY DEF Payload, At
  <2> QED
    BY <2>1, <2>3, <2>4
<1> QED
  BY <1>1, RingInvariant, PTL

(***************************************************************************)
(* Between evaluations every stored tick goes on from the carry the tick   *)
(* before it left: an evaluation that starts in the middle is seeded with  *)
(* it, one that disagrees truncates what it would contradict, and one that *)
(* agrees rewrites all that is stored.                                     *)
(***************************************************************************)
THEOREM CarryIsChainedHolds == Overlap = FALSE => (RingSpec => []CarryIsChained)
<1>1. RingInv => CarryIsChained
  BY DEF RingInv, Looping, Chained, CarryIsChained, Stored, At
<1> QED
  BY <1>1, RingInvariant, PTL
================================================================================
