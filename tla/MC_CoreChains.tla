------------------------------ MODULE MC_CoreChains ------------------------------
EXTENDS CoreChains, TLC

ThreadSymmetry == Permutations(Threads)
================================================================================
