----------------------------- MODULE MC_ReportPath -----------------------------
(***************************************************************************)
(* Two reads, two concurrent sinks (a poll completion and a script pass)   *)
(* and a queue of one, so that a third report finds it full.               *)
(***************************************************************************)
EXTENDS ReportPath, TLC

Symmetry == Permutations(Reads) \cup Permutations(Sinks)
================================================================================
