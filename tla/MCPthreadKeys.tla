---------------------------- MODULE MCPthreadKeys ----------------------------
(* Two threads, tables of two keys, and a kernel with one index more.         *)
EXTENDS PthreadKeys
=============================================================================
