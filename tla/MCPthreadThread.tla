--------------------------- MODULE MCPthreadThread ---------------------------
(* One or two threads the library did not start, and up to two that it may:   *)
(* three at most, so that two race for the index or two children meet.        *)
EXTENDS PthreadThread, TLC

Symmetry == Permutations(Foreign) \cup Permutations(Children)
=============================================================================
