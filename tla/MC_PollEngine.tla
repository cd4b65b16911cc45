----------------------------- MODULE MC_PollEngine -----------------------------
(* The IRPs and the processors are interchangeable. *)
EXTENDS PollEngine, TLC

Symmetry == Permutations(Irps) \cup Permutations(Dpcs)
================================================================================
