----------------------------- MODULE MC_EffectRing -----------------------------
(* The effect engine: a ramp with attack and fade, and a spring on the stick. *)
EXTENDS EffectRing

OneAxis(m, o, ph, p) == [ZeroAxis EXCEPT !.magnitude = m, !.offset = o, !.phase = ph, !.period = p]
Plain == [type |-> "constant", duration |-> 2, attack_level |-> 0, attack_time |-> 0,
          fade_level |-> 0, fade_time |-> 0, block_length |-> 8,
          axis |-> [a \in Axes |-> OneAxis(127, 0, 0, 0)]]

MCRamp == [Plain EXCEPT !.type = "ramp", !.duration = 4, !.attack_level = 127,
                        !.attack_time = 2, !.fade_level = -20, !.fade_time = 2]
MCSpring == [Plain EXCEPT !.type = "tuning", !.duration = CORE_FX_INFINITE,
                          !.axis = [a \in Axes |-> [ZeroAxis EXCEPT !.coeff = <<90, 120>>,
                                                        !.sat = <<0, 100>>, !.dead_band = 10]]]

MCPrograms == {MCRamp, MCSpring}
MCCalibrations == {[period |-> 1000, duty |-> 0, strength |-> 50, active |-> TRUE]}
MCSticks == {[a \in Axes |-> 0], [a \in Axes |-> IF a = 0 THEN 1200 ELSE -700]}
================================================================================
