----------------------------- MODULE MC_VendorSlot -----------------------------
(* The kinds of blocking caller, by name; the processors are interchangeable. *)
EXTENDS VendorSlot, TLC

CONSTANTS c1, c2

OneSync == [c \in {c1} |-> "sync"]
TwoSyncs == [c \in {c1, c2} |-> "sync"]
OneQuery == [c \in {c1} |-> "query"]
CmdAndSync == [c \in {c1, c2} |-> IF c = c1 THEN "cmd" ELSE "sync"]
OneCmd == [c \in {c1} |-> "cmd"]

Symmetry == Permutations(Dpcs)
================================================================================
