---------------------------- MODULE MC_ScriptSched ----------------------------
EXTENDS ScriptSched, TLC

NodeSymmetry == Permutations(Nodes)
================================================================================
