------------------------------ MODULE MC_ScriptVM ------------------------------
(* Two threads, one global, two locals; operands on both sides of each bound. *)
EXTENDS ScriptVM

MCOperands == {0, 1, MINUS_ONE, INT_MIN, Tagged(TAG_LOCAL, Locals), Tagged(TAG_NATIVE, 0)}
================================================================================
