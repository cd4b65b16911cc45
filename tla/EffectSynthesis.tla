---------------------------- MODULE EffectSynthesis ----------------------------
(***************************************************************************)
(* The arithmetic of the force-feedback engine: what the running effect    *)
(* slots add up to at one tick, and how the modulator turns that into the  *)
(* one bit per tick the motor plays.  Pure operators; EffectRing calls     *)
(* them.  Integers are the code's s32, and a value past 2^31 is an error   *)
(* to TLC, so a run that ends also shows that nothing overflowed in it.    *)
(***************************************************************************)
EXTENDS Integers, FiniteSetsExt

CORE_FX_INFINITE == -1
CORE_FX_CLAMP == 127
CORE_FX_SCALE == 10000
CORE_STICK_LIMIT == 1200
Axes == {0, 1}              \* CORE_EFFECT_AXES: the stick's x and y

(* C division: towards zero. *)
Quotient(a, b) == IF a >= 0 THEN a \div b ELSE -((-a) \div b)
Remainder(a, b) == a - b * Quotient(a, b)
Narrow8(v) == ((v + 128) % 256) - 128       \* a cast to s8

Magnitude(a) == IF a < 0 THEN -a ELSE a
Limit(v, bound) == IF v > bound THEN bound ELSE IF v < -bound THEN -bound ELSE v

(***************************************************************************)
(* A slot: type, running, start_tick, duration, the envelope, the length   *)
(* of the axis block, and for each axis the periodic reading (magnitude,   *)
(* offset, phase, period) or the condition reading (center, coeff, sat,    *)
(* dead_band, output) of its eight bytes.                                  *)
(***************************************************************************)
Periodic == {"square", "sine", "triangle", "sawtooth_up", "sawtooth_down"}
EffectTypes == Periodic \cup {"constant", "ramp", "tuning"}

CORE_SINE_TABLE ==
    <<0, 87, 174, 259, 342, 423, 500, 574, 643, 707,
      766, 819, 866, 906, 940, 966, 985, 996, 1000, 1000>>

SineLerp(angle) ==
    LET a   == IF angle < 0 THEN 0 ELSE IF angle > 9000 THEN 9000 ELSE angle
        idx == a \div 500
        rem == a % 500
    IN  (CORE_SINE_TABLE[idx + 1] * (500 - rem) + CORE_SINE_TABLE[idx + 2] * rem) \div 50

Sine(angle) ==
    LET quarter == Quotient(angle, 9000)
    IN  CASE quarter = 0 -> SineLerp(angle)
          [] quarter = 1 -> SineLerp(18000 - angle)
          [] quarter = 2 -> -SineLerp(angle - 18000)
          [] OTHER -> -SineLerp(36000 - angle)

(* One period of a waveform; the square is 10000 and then 0. *)
EffectWave(type, pos, period) ==
    LET half  == period \div 2
        slope == Quotient(pos * 20000, period)
    IN  CASE type = "square" -> IF pos < half THEN CORE_FX_SCALE ELSE 0
          [] type = "sine" -> Sine(Quotient(pos * 36000, period))
          [] type = "triangle" /\ pos < half -> CORE_FX_SCALE - slope
          [] type = "triangle" /\ pos >= half ->
                Quotient((pos - half) * 20000, period) - CORE_FX_SCALE
          [] type = "sawtooth_up" -> slope - CORE_FX_SCALE
          [] type = "sawtooth_down" -> CORE_FX_SCALE - slope

(* The value before the envelope. *)
AxisShape(slot, ax, elapsed, strength) ==
    CASE slot.type = "constant" -> ax.magnitude
      [] slot.type = "ramp" ->
            IF slot.duration \in {0, CORE_FX_INFINITE}
            THEN ax.magnitude
            ELSE Quotient((slot.duration - elapsed) * ax.magnitude + ax.offset * elapsed,
                          slot.duration)
      [] slot.type \in Periodic /\ ax.period # 0 ->
            LET pos == Remainder(Quotient(ax.phase * ax.period, 36000) + elapsed, ax.period)
            IN  Quotient(EffectWave(slot.type, pos, ax.period) * ax.magnitude, CORE_FX_SCALE)
      [] slot.type = "tuning" -> Quotient(strength * ax.output, 100)
      [] OTHER -> 0

Attack(slot, v, elapsed) ==
    IF slot.attack_time > 0 /\ elapsed < slot.attack_time
    THEN Quotient((slot.attack_time - elapsed) * slot.attack_level + v * elapsed, slot.attack_time)
    ELSE v

Fade(slot, v, elapsed) ==
    LET remain == slot.duration - elapsed
    IN  IF slot.fade_time > 0 /\ slot.duration # CORE_FX_INFINITE /\ remain <= slot.fade_time
        THEN Quotient((slot.fade_time - remain) * slot.fade_level + remain * v, slot.fade_time)
        ELSE v

(* core_effect_axis_value; only a periodic effect adds its offset as a bias. *)
AxisValue(slot, axis, elapsed, strength) ==
    LET ax   == slot.axis[axis]
        bias == IF slot.type \in Periodic THEN ax.offset ELSE 0
        v    == Fade(slot, Attack(slot, AxisShape(slot, ax, elapsed, strength), elapsed), elapsed)
    IN  IF slot.type \in EffectTypes THEN Limit(v + bias, CORE_FX_CLAMP) ELSE 0

(***************************************************************************)
(* The condition pre-pass: a spring around a centre with a dead band, on   *)
(* each side its own coefficient and saturation (none means full scale).   *)
(* coeff and sat are pairs: for the negative and for the positive side.    *)
(***************************************************************************)
ConditionOutput(cond, stick) ==
    LET dead  == Magnitude(Quotient(cond.dead_band * CORE_STICK_LIMIT, CORE_FX_CLAMP))
        delta == stick - Quotient(cond.center * CORE_STICK_LIMIT, CORE_FX_CLAMP)
        side  == IF delta < 1 THEN 1 ELSE 2
        beyond == IF side = 1 THEN delta < -dead ELSE delta > dead
        coeff == IF beyond THEN cond.coeff[side] ELSE 0
        sat   == IF beyond THEN cond.sat[side] ELSE 0
        past  == IF ~beyond THEN delta ELSE IF side = 1 THEN delta + dead ELSE delta - dead
        bound == IF sat = 0 THEN CORE_FX_CLAMP ELSE Magnitude(sat)
    IN  Narrow8(Limit(Quotient(coeff * past, CORE_STICK_LIMIT), bound))

ConditionUpdate(effect, stick, strength) ==
    [i \in DOMAIN effect |->
        IF strength # 0 /\ effect[i].type = "tuning" /\ effect[i].running
        THEN [effect[i] EXCEPT !.axis =
                [a \in Axes |-> [@[a] EXCEPT !.output =
                                    ConditionOutput(effect[i].axis[a], stick[a])]]]
        ELSE effect[i]]

(* The slots that sound at a tick. *)
Playing(effect, tick) ==
    {i \in DOMAIN effect :
        /\ effect[i].running
        /\ tick >= effect[i].start_tick
        /\ \/ effect[i].duration = CORE_FX_INFINITE
           \/ tick - effect[i].start_tick < effect[i].duration}

AxisSum(effect, axis, tick, strength) ==
    MapThenSumSet(LAMBDA i : AxisValue(effect[i], axis, tick - effect[i].start_tick, strength),
                  Playing(effect, tick))

(* a + b - ab/200: two drives that saturate instead of adding up. *)
SoftOr(a, b) == (b - Quotient(b * a, 200)) + a

(* Small intensities are nudged up so that they still pulse. *)
LowEndBoost(v) == IF v < 1 THEN 0 ELSE IF v < 32 THEN (32 - v) \div 3 + v ELSE v

(***************************************************************************)
(* core_effect_intensity.  carry holds the live values the code keeps in   *)
(* core_state between ticks; tune the calibration.  filtered is the 5/6    *)
(* low-pass of each axis, and the transient term how far the axis moved    *)
(* from it.                                                                *)
(***************************************************************************)
Filtered(effect, carry, tick, tune) ==
    [a \in Axes |-> Quotient(carry.filtered[a] * 5, 6) + AxisSum(effect, a, tick, tune.strength)]

Intensity(effect, carry, tick, tune) ==
    LET sum == [a \in Axes |-> AxisSum(effect, a, tick, tune.strength)]
        moved == [a \in Axes |-> Magnitude(Quotient(carry.filtered[a], 6) - sum[a])]
        steady == SoftOr(Magnitude(sum[0]), Magnitude(sum[1]))
        transient == SoftOr(moved[0], moved[1])
        driven == Quotient(steady * (tune.duty * tune.period), 25000)
                  + Quotient(transient * (100 - tune.duty) * tune.period, 25000)
    IN  LowEndBoost(IF tune.active THEN (tune.duty * tune.period + 999) \div 1000 ELSE driven)

(***************************************************************************)
(* core_effect_pulse: the delta-sigma modulator and its dither.  base is   *)
(* the tick the window starts at, for every tick of the window.            *)
(***************************************************************************)
Stir(state, base) == ((state * 8) \div 7 + base) % 10000

StirAgain(state, base) ==
    LET q == state \div 7 IN ((((state - q) \div 2 + q) \div 4) + state + base) % 10000

(* The threshold is an unsigned quotient: below 100 it is negative only when
   it is divided by one, and otherwise larger than any burst. *)
Suppresses(left, intensity, r) ==
    LET over == Quotient(intensity - 100, 20)
        by   == (r % 3) + 1
    IN  IF over >= 0 THEN left < over \div by ELSE by > 1

ClampAccumulator(acc) == IF acc > 100 THEN 100 ELSE acc

Modulate(carry, intensity, base) ==
    LET r     == Stir(carry.dither_state, base)
        acc   == carry.accumulator + intensity
        burst == IF intensity > 100 /\ carry.dither_burst = 0 THEN (r % 6) + 9 ELSE carry.dither_burst
        again == StirAgain(r, base)
        left  == burst - 1
        held  == [carry EXCEPT !.dither_state = r, !.accumulator = ClampAccumulator(acc)]
        fired == [carry EXCEPT !.dither_state = r, !.accumulator = ClampAccumulator(acc - 100),
                               !.dither_burst = burst]
    IN  CASE acc < 100 -> [carry |-> [held EXCEPT !.dither_burst = 0], pulse |-> 0]
          [] acc >= 100 /\ burst = 0 -> [carry |-> fired, pulse |-> 1]
          [] acc >= 100 /\ burst > 0 ->
                [carry |-> [fired EXCEPT !.dither_state = again, !.dither_burst = left],
                 pulse |-> IF left < 6 /\ Suppresses(left, intensity, again) THEN 0 ELSE 1]

(* Tuning mode forces a pulse in the first slots of every twelve. *)
ForcedSlots(tune) ==
    LET slots == (100 - tune.duty) * tune.period
    IN  IF slots > 0 THEN (slots + 8000) \div 11112 + 1 ELSE slots

Pulse(carry, intensity, base, tune) ==
    LET m == Modulate(carry, intensity, base)
    IN  IF ~tune.active THEN m
        ELSE [carry |-> [m.carry EXCEPT !.tune_counter = (@ + 1) % 12],
              pulse |-> IF carry.tune_counter < ForcedSlots(tune) THEN 1 ELSE m.pulse]
================================================================================
